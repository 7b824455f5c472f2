SPECIFICATION Spec
CONSTANTS
  u1 = u1
  t1 = t1
  t2 = t2
  t3 = t3
  Users <- MCUsers
  NoText = NoText
  Tx <- MCTx
  NoTx = NoTx
  MaxBuild = 2
  MaxCrashes = 0
  MaxFaults = 0
  MaxEdits = 1
SYMMETRY TxSymmetry
PROPERTY OrphanCleanStrips
