SPECIFICATION Spec
CONSTANTS
  hand1 = hand1
  hand2 = hand2
  Handlers <- Handlers2
  Accounts <- Accounts2
  acc1 = acc1
  acc2 = acc2
  Cap = 1
  MaxReqs = 3
  MaxConns = 2
  MaxFaults = 1
  MaxSids = 2
  TableMax = 1
INVARIANTS NoOrphan FrozenStops AnswersOwn
CHECK_DEADLOCK FALSE
SYMMETRY Alike
