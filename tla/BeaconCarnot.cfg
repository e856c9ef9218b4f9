SPECIFICATION FairBeaconSpec
CONSTANTS
  n1 = n1
  n2 = n2
  n3 = n3
  n4 = n4
  genesis_sk = genesis_sk
  Nodes <- NodesDef
  MaxView = 3
  TimeoutViews = {1}
  choice <- ChoiceDef
INVARIANTS
  OneProposalPerView
PROPERTIES
  BeaconProgress
CHECK_DEADLOCK FALSE
