SPECIFICATION Spec
CONSTANTS
  NumNodes = 6
  NumSubnetworks = 3
  DeclarationIds <- Ids
  SubnetworkIds <- Subs
  replication_factor = 4
INVARIANTS
  SizesBalanced
