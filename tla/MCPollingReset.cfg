SPECIFICATION Spec
CONSTANTS
  MaxHooks = 3
  MaxProbes = 4
  Signals <- MCSignals
  Integral <- MCIntegral
  NoObject = NoObject
  MaxReentrant = 1
  MaxResets = 1
INVARIANT
  NoMissedNotification
CHECK_DEADLOCK FALSE
