CONSTANTS
  NoGrp = "-"
  Sids <- TrioSids
  NameOf <- TrioName
  GrpOf <- TrioGrp
  Listings <- TrioLists
  MaxTime = 3
  DayLen = 2
  MaxPolls = 3
  PollInterval = 1
  StaleAfter = 1
  KeepDays = 0
  KeepSamples = 1
  Failing <- OneFails
SPECIFICATION BookSpec
INVARIANTS TypeOK NoOrphans ConfirmedAreDowns ListedAreKept HistoryIsKept
CHECK_DEADLOCK FALSE
