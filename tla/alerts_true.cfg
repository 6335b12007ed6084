CONSTANTS
  NoGrp = "-"
  Sids <- NodesSids
  NameOf <- NodesName
  GrpOf <- NodesGrp
  Listings <- BothNodes
  Readings = {"off", "ok"}
  OutageNum = 1
  OutageDen = 1
  StaleAge = 0
  AdminMay = {"maint"}
  Faults = {"read", "write", "crash"}
  BotMay = {"mute", "alert_on_down"}
  SendMayFail = TRUE
SPECIFICATION AlertsSpec
INVARIANT DroppedWereHeard
PROPERTY MessagesAreTrue
