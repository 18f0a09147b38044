SPECIFICATION Spec
CONSTANTS
  THREADS_MAX = 3
  WORD_BITS = 4
  MUTEX_MAX = 0
  COND_MAX = 0
  SEMAPHORE_MAX = 0
  EVENT_MAX = 1
  FLAG_MAX = 0
  ENABLE_TIMESHARE = FALSE
  ENABLE_JOIN = FALSE
  ENABLE_PAUSE = FALSE
  CLOCK_MOD = 3
  TIMEOUTS = {1}
  SLEEPS = {}
  ALARMS = {}
  SCHED_PRI <- NoPriority
  SCHED_LIMIT = 1
  EVENT_BITS = 2
  IRQ_EVENT_SETS = {0}
INVARIANTS
  TypeOK
  HighestReadyRuns
  NoEventPastWaiter
