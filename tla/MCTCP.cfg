SPECIFICATION Spec
CONSTANTS
  SEQ_MOD = 64
  OFF_MOD = 16
  ISS_STEP = 16
  OPENS_MAX = 1
  MAXSEG = 1
  MAXSND = 2
  MAXRCV = 2
  MAXWIN = 2
  MAXRXMTS = 1
  SENDS <- BothSend
  NET_MAX = 2
  FAULTS_MAX = 1
INVARIANTS
  TypeOK
  StreamIntact
  WindowAgrees
  NoLostWakeup
  DataIsDue
CONSTRAINT
  BothSendBound
CHECK_DEADLOCK FALSE
