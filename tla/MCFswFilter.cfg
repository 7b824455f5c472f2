SPECIFICATION Spec
CONSTANTS
  s1 = s1
  s2 = s2
  standard = standard
  elevated = elevated
  other = other
  c1 = c1
  c2 = c2
  c3 = c3
  c4 = c4
  Session <- MCSession
  Identity <- MCIdentity
  SessionOf <- MCSessionOf
  Conn <- MCConn
  NoConn = NoConn
  Volume = {v1, v2}
  Name = {n1}
  BadName = BadName
  MaxSlots = 2
  MaxPerSession = 2
  MaxGen = 0
SYMMETRY ConnSymmetry
INVARIANTS
  TypeOK
  SlotsOwned
  NoSessionLockedOut
PROPERTY ImplementsTable
