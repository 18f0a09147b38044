SPECIFICATION Spec
CONSTANTS
  THREADS_MAX = 2
  WORD_BITS = 3
  MUTEX_MAX = 1
  COND_MAX = 0
  SEMAPHORE_MAX = 0
  EVENT_MAX = 0
  FLAG_MAX = 0
  ENABLE_TIMESHARE = TRUE
  ENABLE_JOIN = FALSE
  ENABLE_PAUSE = FALSE
  CLOCK_MOD = 4
  TIMEOUTS = {}
  SLEEPS = {}
  ALARMS = {}
  SCHED_PRI <- SamePriority
  SCHED_LIMIT = 1
  FREEABLE = {}
INVARIANT HeldIsOwned
