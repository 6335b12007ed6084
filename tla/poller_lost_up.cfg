CONSTANTS
  NoGrp = "-"
  Sids <- BalancerSids
  NameOf <- BalancerName
  GrpOf <- BalancerGrp
  Listings <- AnyNodes
  Readings = {"off", "ok"}
  OutageNum = 1
  OutageDen = 1
  StaleAge = 0
  AdminMay = {}
  Faults = {}
SPECIFICATION Spec
INVARIANT RecoveryIsHeard
