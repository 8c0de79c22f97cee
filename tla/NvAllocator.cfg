\* Segments of one and two or four blocks; processes may be killed at any store.
SPECIFICATION Spec
CONSTANTS
  InitialArena = 2
  MaxOrder = 3
  MaxFile = 9
  MaxKills = 1
  StaleOrders = {0, 2}
INVARIANTS TypeOK HeldAreRecovered FreeListsAreRebuilt CorruptOnlyWhenNew
PROPERTY Implements
