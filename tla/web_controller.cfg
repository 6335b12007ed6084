CONSTANTS
  Actors <- TwoAdmins
  Main = "main"
  Ports <- TwoPorts
  Http = "http"
  Orders = {"start", "stop", "domain"}
  Others = {"http"}
  MaxRestarts = 1
  MaxOrders = 2
SPECIFICATION FairSpec
INVARIANTS TypeOK RunningListens NoLeak 
PROPERTIES StoppedFreesPorts CommandsEnd
CHECK_DEADLOCK FALSE
