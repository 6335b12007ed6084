CONSTANTS
  NoGrp = "-"
  Sids <- TwinSids
  NameOf <- TwinName
  GrpOf <- TwinGrp
  Listings <- AnyTwins
  Readings = {"off", "slow"}
  OutageNum = 1
  OutageDen = 1
  StaleAge = 1
  AdminMay = {"skip_global", "delete", "ping"}
  Faults = {"read", "merge", "delete", "crash"}
  BotMay = {}
  SendMayFail = FALSE
SPECIFICATION AlertsSpec
INVARIANTS AlertsTypeOK NoFlapAlert OnlyRepeatsDropped OutageBracketed
