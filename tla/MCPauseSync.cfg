SPECIFICATION Spec
CONSTANTS
  packagedCli = packagedCli
  stagedCli = stagedCli
  Broker = Broker
  Cli <- MCCli
  Packaged <- MCPackaged
  NoValue = NoValue
  MaxEvents = 3
CHECK_DEADLOCK FALSE
INVARIANTS
  TypeOK
  SettlesOnOnePause
PROPERTIES
  OwnEchoIgnored
