SPECIFICATION FairSyncSpec
CONSTANTS
  n1 = n1
  n2 = n2
  n3 = n3
  peer1 = peer1
  peer2 = peer2
  Peer <- PeersDef
  Blocks <- SyncBlocks
  Arriving = {}
  PeerStarts <- PeerStartsDef
  Checkpoints <- CheckpointsDef
  Failures = FALSE
  K = 1
  Note <- NoteDef
  Misbound = Misbound
  GenesisNotes <- GenesisNotesDef
  Nullified = {}
  Mintable = {}
  GenesisState = GenesisState
  BasePeriodLength = 2
  Stabilization = 3
  NonceBuffer = 3
  NonceStabilization = 4
  InitialStake = 20
  Rate <- RateDef
  Expected <- ExpectedDef
PROPERTIES
  EndsWhenPeersRest
CHECK_DEADLOCK FALSE
