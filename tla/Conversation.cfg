SPECIFICATION Spec
CONSTANTS
  MaxTurns = 3
  Clients <- MCClients
  Tools <- MCTools
  CustomTools <- MCCustom
  Shapes <- MCShapes
INVARIANTS ChainFaithful ContentKept PairingKept TargetAccepts
