\* Any closure of the members of pvec.
SPECIFICATION Spec
CONSTANTS
  MaxLog = 5
  Elements = {0, 1}
  Default = 0
  AnyClosure = TRUE
INVARIANT RecoveredIsCommitted
