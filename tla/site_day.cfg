CONSTANTS
  Items <- TwinItems
  Remark <- TwinRemark
  Tag <- TwinTag
  Nodes <- TwinNodes
  Env <- OnlyA
  Subscriptions <- Stored
  Upstream <- TwinUpstream
  MaxPolls = 2
  MaxMarks = 0
SPECIFICATION Spec
INVARIANT DayIsTile
