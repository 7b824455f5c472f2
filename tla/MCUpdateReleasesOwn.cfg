SPECIFICATION Spec
CONSTANTS
  u1 = u1
  u2 = u2
  Updater = {u1, u2}
  LadderOf <- Ladders
  Quiet = {}
  Unnamed = {u1, u2}
  FromWindow = {u2}
  Nobody = nobody
  NoStamp = noStamp
  LeadTicks = 1
  MaxFaults = 1
INVARIANTS ScriptReleasesOwn
CHECK_DEADLOCK FALSE
