SPECIFICATION LiveSpec
CONSTANTS
  c1 = c1
  c2 = c2
  main = main
  Absent = Absent
  Keys <- MCKeys
  Values = {"owner", "ip", "true", "false", "t1", ""}
  Savers <- MCSavers
  Updates <- MCUpdates
  MaxFaults = 1
  Codes = {"", "CN", "US", "USA"}
  Whitelist = {"USA"}
  Cmds = {c1, c2}
  Menu <- MCMenu
  Main = main
  Installed <- MCInstalled
  MaxSessions = 2
  MaxCrashes = 1
INVARIANTS
  TypeOK
  ObeysSwitch
  
  OneDestination
  TrendsOnce
  TrendHonest
PROPERTIES
  ImplementsStore
  SchedulerCatchesUp
\* An agent whose file a fault has emptied does not start again.
CHECK_DEADLOCK FALSE
