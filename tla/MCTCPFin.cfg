SPECIFICATION Spec
CONSTANTS
  SEQ_MOD = 64
  OFF_MOD = 16
  ISS_STEP = 16
  OPENS_MAX = 1
  MAXSEG = 1
  MAXSND = 2
  MAXRCV = 2
  MAXWIN = 2
  MAXRXMTS = 1
  SENDS <- OneSided
  NET_MAX = 2
  FAULTS_MAX = 1
CHECK_DEADLOCK FALSE
INVARIANT EofIsTheEnd
