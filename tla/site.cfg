CONSTANTS
  Items <- TwinItems
  Remark <- TwinRemark
  Tag <- TwinTag
  Nodes <- TwinNodes
  Env <- OnlyA
  Subscriptions <- Stored
  Upstream <- TwinUpstream
  MaxPolls = 2
  MaxMarks = 2
SPECIFICATION Spec
INVARIANTS TypeOK ListsWhole NamesApart DiagnosisAgrees PageShowsListed HiddenOneByOne PanelAgrees
