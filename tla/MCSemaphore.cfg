SPECIFICATION Spec
CONSTANTS
  THREADS_MAX = 2
  WORD_BITS = 3
  MUTEX_MAX = 0
  COND_MAX = 0
  SEMAPHORE_MAX = 3
  EVENT_MAX = 0
  FLAG_MAX = 0
  ENABLE_TIMESHARE = FALSE
  ENABLE_JOIN = FALSE
  ENABLE_PAUSE = FALSE
  CLOCK_MOD = 3
  TIMEOUTS = {1}
  SLEEPS = {}
  ALARMS = {}
  SCHED_PRI <- NoPriority
  SCHED_LIMIT = 1
  SEM_VALUES = {0}
  SEM_VALUE_CAP = 1
  RESET_SEMS = {2}
  IRQ_SEMS = {1, 2}
  TIMED_SEMS = {0, 2}
INVARIANTS
  TypeOK
  StatusNamesQueue
  HighestReadyRuns
  WaitersMeanNoToken
PROPERTIES
  NoMissedTimeout
  IsSemaphore
  IsSemaphoreForIrq
