SPECIFICATION FairSpec
CONSTANTS
  THREADS_MAX = 3
  WORD_BITS = 4
  MUTEX_MAX = 0
  COND_MAX = 0
  SEMAPHORE_MAX = 0
  EVENT_MAX = 0
  FLAG_MAX = 0
  ENABLE_TIMESHARE = FALSE
  ENABLE_JOIN = TRUE
  ENABLE_PAUSE = FALSE
  CLOCK_MOD = 3
  TIMEOUTS = {}
  SLEEPS = {1}
  ALARMS = {}
  SCHED_PRI <- NoPriority
  SCHED_LIMIT = 1
  MAIN = 0
  CODES <- Codes
  SLEEPERS = {0}
  CANCELABLE = {0, 1}
  IRQ_MAX = 1
  IRQ_WAITS <- OneIrqWaiter
INVARIANTS
  TypeOK
  FreeSlotIsClean
  NoThreadVanishes
  JoinReturnsCode
  HighestTaskRuns
PROPERTIES
  UrgentJoinEnds
