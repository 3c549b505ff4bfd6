SPECIFICATION FairSpec
CONSTANTS
  MaxHooks = 3
  MaxProbes = 4
  Signals <- MCSignals
  Integral <- MCIntegral
  NoObject = NoObject
  MaxReentrant = 1
  MaxResets = 1
INVARIANTS
  TypeOK
  PendingExactly
  DrainsLiveRecords
  CallbackRegistrations
  NoneMissedBeforeReset
PROPERTY
  EveryChangeServed
CHECK_DEADLOCK FALSE
