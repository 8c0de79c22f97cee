\* Logs of up to five operations, killed processes at any time.
SPECIFICATION Spec
CONSTANTS
  MaxLog = 5
  Keys = {k1, k2}
  Values = {v1, v2}
  NoValue = NoValue
  Elements = {0, 1}
  Default = 0
  AnyClosure = FALSE
INVARIANTS TypeOK RecoveredIsCommitted IInv
PROPERTY Implements
