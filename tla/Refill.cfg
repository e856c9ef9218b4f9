SPECIFICATION FairSpec
CONSTANTS
  NumNodes = 7
  NumSubnetworks = 3
  DeclarationIds <- Ids
  SubnetworkIds <- Subs
  replication_factor = 2
INVARIANTS
  CountsAreExact
  NeverRunsOut
  ActiveNodesServe
PROPERTIES
  Returns
