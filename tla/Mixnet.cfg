SPECIFICATION FairMixnetSpec
CONSTANTS
  m1 = m1
  m2 = m2
  m3 = m3
  MAX_PAYLOAD_SIZE = 2
  ByteValues = 3
  NumLayers = 2
  NumMixnodesPerLayer = 1
  Shuffles <- ShufflesDef
  Redundancy = 2
  Messages <- MessagesDef
  MaxPublished = 2
  MaxCovers = 1
  MaxLosses = 1
  MaxEntropies = 1
INVARIANTS
  MixnetTypeOK DeliveredAsPublished DeliveredAtMostCopies
PROPERTIES
  PublishedIsDelivered
