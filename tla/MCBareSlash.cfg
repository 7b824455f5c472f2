CONSTANTS
  Name = {"mnt", "c", "etc", "x", "y", "Ubuntu", "ubuntu", "Debian", "tab", "bs"}
  Fold <- MCFold
  Letter = {"c", "x", "y"}
  WithNul = {}
  WithBackslash = {"bs"}
  WithControl = {"tab"}
  Root = {"C:/code", "junk"}
  ValidRoot = {"C:/code"}
  Distro = {"Ubuntu", "Debian"}
  NoValue = NoValue
  Hidden = Hidden
  Cli = {app, shell}
  Packaged = {app}
  app = app
  shell = shell
  Start <- MCStart
  Typed <- MCTyped
  Sample <- MCSample
  MaxEvents = 2
SPECIFICATION Spec
INVARIANTS TypeOK FunnelsAgree RoutesAsTold
CHECK_DEADLOCK FALSE
