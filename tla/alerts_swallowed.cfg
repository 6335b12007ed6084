CONSTANTS
  NoGrp = "-"
  Sids <- SoloSids
  NameOf <- SoloName
  GrpOf <- SoloGrp
  Listings <- AnySolo
  Readings = {"off", "ok"}
  OutageNum = 1
  OutageDen = 1
  StaleAge = 0
  AdminMay = {}
  Faults = {}
  BotMay = {"mute"}
  SendMayFail = FALSE
SPECIFICATION AlertsSpec
INVARIANT OnlyRepeatsDropped
