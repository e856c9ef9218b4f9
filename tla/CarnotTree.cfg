SPECIFICATION FairSpec
CONSTANTS
  n1 = n1
  n2 = n2
  n3 = n3
  n4 = n4
  n5 = n5
  Nodes <- FiveNodes
  leader <- LeafLeader
  root_committee <- TreeRoot
  child_of_root <- TreeChildOfRoot
  childs <- TreeChilds
  super_majority_threshold <- TreeThreshold
  leader_super_majority_threshold = 3
  MaxView = 3
  TimeoutViews = {1}
PROPERTIES
  FailedViewIsLeft
  Progress
CHECK_DEADLOCK FALSE
