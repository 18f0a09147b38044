SPECIFICATION Spec
CONSTANTS
  THREADS_MAX = 3
  WORD_BITS = 3
  MUTEX_MAX = 1
  COND_MAX = 1
  SEMAPHORE_MAX = 0
  EVENT_MAX = 0
  FLAG_MAX = 0
  ENABLE_TIMESHARE = FALSE
  ENABLE_JOIN = FALSE
  ENABLE_PAUSE = FALSE
  CLOCK_MOD = 3
  TIMEOUTS = {1}
  SLEEPS = {1}
  ALARMS = {}
  SCHED_PRI <- NoPriority
  SCHED_LIMIT = 1
  FREEABLE = {}
INVARIANTS
  TypeOK
  StatusNamesQueue
  HighestReadyRuns
  FreeLockHasNoWaiter
  WaiterIsNotOwner
  HeldIsOwned
  OwnerIsTold
