SPECIFICATION Spec
CONSTANTS
  THREADS_MAX = 2
  WORD_BITS = 3
  MUTEX_MAX = 0
  COND_MAX = 0
  SEMAPHORE_MAX = 1
  EVENT_MAX = 0
  FLAG_MAX = 0
  ENABLE_TIMESHARE = FALSE
  ENABLE_JOIN = FALSE
  ENABLE_PAUSE = FALSE
  CLOCK_MOD = 4
  TIMEOUTS = {1}
  SLEEPS = {}
  ALARMS = {}
  SCHED_PRI <- NoPriority
  SCHED_LIMIT = 1
  SEM_VALUES = {0, 1}
  SEM_VALUE_CAP = 2
  RESET_SEMS = {}
  IRQ_SEMS = {0}
  TIMED_SEMS = {0}
PROPERTY IsSemaphore
