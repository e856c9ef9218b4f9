SPECIFICATION Spec
CONSTANTS
  n1 = n1
  n2 = n2
  n3 = n3
  n4 = n4
  n5 = n5
  Nodes <- FourNodes
  leader <- OneLeader
  root_committee <- FourNodes
  child_of_root <- FourNodes
  childs <- NoChilds
  super_majority_threshold <- NoThreshold
  leader_super_majority_threshold = 3
  MaxView = 4
  TimeoutViews = {1}
SYMMETRY Symmetry
INVARIANTS
  VotesCounted
CHECK_DEADLOCK FALSE
