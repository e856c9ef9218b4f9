SPECIFICATION Spec
CONSTANTS
  n1 = n1
  n2 = n2
  n3 = n3
  Blocks <- BlocksDef
  Note <- NoteDef
  Misbound = Misbound
  GenesisNotes <- GenesisNotesDef
  Nullified = {}
  Mintable = {n3}
  GenesisState = GenesisState
  K = 2
  BasePeriodLength = 2
  Stabilization = 1
  NonceBuffer = 0
  NonceStabilization = 1
  InitialStake = 20
  Rate <- RateDef
  Expected <- ExpectedDef
INVARIANTS
  TypeOK MemoIsExact StakeIsFrozen LibIsKDeep FindsForkPoint
  ChainsReachGenesis TipsAreTheLeaves EverythingOnLibLine HeightTestIsDescent
PROPERTIES
  LibNeverReverts OnlineSwitchIsShallow LongestStaysLongest KeepsPromise
