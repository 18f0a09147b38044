SPECIFICATION Spec
CONSTANTS
  THREADS_MAX = 3
  WORD_BITS = 4
  MUTEX_MAX = 0
  COND_MAX = 0
  SEMAPHORE_MAX = 0
  EVENT_MAX = 0
  FLAG_MAX = 1
  ENABLE_TIMESHARE = FALSE
  ENABLE_JOIN = FALSE
  ENABLE_PAUSE = FALSE
  CLOCK_MOD = 3
  TIMEOUTS = {1}
  SLEEPS = {}
  ALARMS = {}
  SCHED_PRI <- NoPriority
  SCHED_LIMIT = 1
  IRQ_FLAGS = {0}
INVARIANTS
  TypeOK
  StatusNamesQueue
  HighestReadyRuns
  NoSignalPastWaiter
