SPECIFICATION PublisherSpec
CONSTANTS
  s1 = s1
  i1 = i1
  c1 = c1
  c2 = c2
  c3 = c3
  Session <- MCSession
  Identity <- MCIdentity
  SessionOf <- MCSessionOf
  Conn <- MCConn
  NoConn = NoConn
  Volume = {v1}
  Name = {n1}
  BadName = BadName
  MaxSlots = 2
  MaxPerSession = 2
  MaxGen = 0
  Severed = Severed
  NoMapping = NoMapping
  MaxProbes = 0
  MaxEvents = 1
CHECK_DEADLOCK FALSE
PROPERTY IntervalFollowsDriver
