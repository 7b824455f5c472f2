SPECIFICATION Spec
CONSTANTS
  WindowsPowerShell = WindowsPowerShell
  PowerShell = PowerShell
  text = text
  empty = empty
  Edition <- MCEdition
  Order <- MCOrder
  Start <- MCStart
  Users <- MCUsers
  NoText = empty
  Tx = {1, 2, 3}
  MaxBuild = 3
  MaxFaults = 0
  Troubled = {WindowsPowerShell}
  MaxEdits = 0
PROPERTIES BackgroundNeverWrites
CHECK_DEADLOCK FALSE
