SPECIFICATION Spec
CONSTANTS
  u1 = u1
  t1 = t1
  t2 = t2
  t3 = t3
  Users <- MCUsers
  NoText = NoText
  Tx <- MCTx
  NoTx = NoTx
  MaxBuild = 2
  MaxCrashes = 1
  MaxFaults = 1
  MaxEdits = 2
SYMMETRY TxSymmetry
INVARIANTS
  TypeOK
  PreservesUser
  AtMostOneHook
  MarkerTruthful
PROPERTIES
  RefusalJustified
  HookKeepsPayloadOrMarker
