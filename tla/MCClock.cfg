SPECIFICATION FairCoreSpec
CONSTANTS
  THREADS_MAX = 3
  WORD_BITS = 4
  MUTEX_MAX = 0
  COND_MAX = 0
  SEMAPHORE_MAX = 0
  EVENT_MAX = 0
  FLAG_MAX = 0
  ENABLE_TIMESHARE = TRUE
  ENABLE_JOIN = FALSE
  ENABLE_PAUSE = FALSE
  CLOCK_MOD = 4
  TIMEOUTS = {}
  SLEEPS = {0, 1}
  ALARMS = {3}
  SCHED_PRI <- LowPriority
  SCHED_LIMIT = 1
INVARIANTS
  CoreTypeOK
  HighestReadyRuns
  IdleMeansNobodyWaits
PROPERTIES
  NoMissedTimeout
  UrgentWaitEnds
