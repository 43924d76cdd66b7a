CONSTANTS
  idem = idem
  human = human
  NoCall = NoCall
  p1 = p1
  p2 = p2
  NoCaller = NoCaller
  None = None
  t1 = t1
  t2 = t2
  NoTurn = NoTurn
SPECIFICATION FairSpec
PROPERTIES TurnTerminates OperationEnds CallsReturn TurnsGoOn
CHECK_DEADLOCK FALSE
