SPECIFICATION FairSpec
CONSTANTS
  THREADS_MAX = 2
  WORD_BITS = 3
  MUTEX_MAX = 1
  COND_MAX = 1
  SEMAPHORE_MAX = 0
  EVENT_MAX = 0
  FLAG_MAX = 0
  ENABLE_TIMESHARE = FALSE
  ENABLE_JOIN = FALSE
  ENABLE_PAUSE = FALSE
  CLOCK_MOD = 4
  TIMEOUTS = {1}
  SLEEPS = {}
  ALARMS = {}
  SCHED_PRI <- NoPriority
  SCHED_LIMIT = 1
  FREEABLE = {}
PROPERTY CondTimeoutReported
