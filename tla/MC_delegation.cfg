CONSTANTS
  Parts <- Delegating
  NoCaller = NoCaller
  p1 = p1
  p2 = p2
  Alone = solo
  NoCall = NoCall
  t1 = t1
  t2 = t2
  t3 = t3
  plain = plain
  idem = idem
  human = human
  other = other
  None = None
  PairOf <- MCPair
  SingleOf <- MCSingle
  OverlapOf <- MCOverlap
  VolatileOf <- MCVolatile
  SerialOf <- MCSerial
  ConfirmingOf <- MCConfirming
  Matching <- MCMatching
  WideOf <- MCWide
  DeepOf <- MCDeep
SPECIFICATION Spec
INVARIANTS
  TypeOK
  SubTurnsAreNested
PROPERTIES
  EntriesMeanWhatTheySay
  DelegationContains
CHECK_DEADLOCK FALSE
