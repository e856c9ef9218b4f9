SPECIFICATION FairFlowSpec
CONSTANTS
  BLS_MODULUS = 97
  PRIMITIVE_ROOT = 5
  RootsOrder = 8
  Secret = 11
  derive_challenge <- ChallengeDef
  nodes_ids <- NodesDef
  Publications <- PublicationsDef
  Keys = {k1}
  Changes <- ChangesDef
  MaxDispersals = 2
  MaxCertificates = 2
  MaxFaults = 1
INVARIANTS
  IndexesFollowTheChain StoredAsSent ReadsDecode
PROPERTIES
  ProofsUnlessGap ReadableInTheEnd
CHECK_DEADLOCK FALSE
