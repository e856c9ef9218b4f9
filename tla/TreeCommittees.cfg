SPECIFICATION Spec
CONSTANTS
  MaxNodes = 5
  MaxCommittees = 6
  Lists <- ListsTo
  Counts <- CountTo
  Shuffles <- Orders
INVARIANTS
  TreeWellFormed
  ThresholdsSound
