CONSTANTS
  NoGrp = "-"
  Sids <- BalancerSids
  NameOf <- BalancerName
  GrpOf <- BalancerGrp
  Listings <- WholeHosts
  Readings = {"off", "ok"}
  OutageNum = 1
  OutageDen = 1
  StaleAge = 0
  AdminMay = {"skip_global"}
  Faults = {"merge"}
  BotMay = {}
  SendMayFail = FALSE
SPECIFICATION AlertsFairSpec
INVARIANT HeardIsTruth
PROPERTIES PromiseKept OutageIsWritten
