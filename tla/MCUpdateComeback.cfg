SPECIFICATION Spec
CONSTANTS
  u1 = u1
  u2 = u2
  Updater = {u1, u2}
  LadderOf <- Ladders
  Quiet = {}
  Unnamed = {u1, u2}
  FromWindow = {u2}
  Nobody = nobody
  NoStamp = noStamp
  LeadTicks = 3
  MaxFaults = 1
PROPERTIES ComesBack
CHECK_DEADLOCK FALSE
