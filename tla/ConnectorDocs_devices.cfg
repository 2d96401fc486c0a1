SPECIFICATION DocsSpec
CONSTANTS
  Devices = {d1, d2}
  Apps = {a1}
  MaxId = 4
  MaxSeq = 2
  MaxVer = 2
  MaxCalls = 2
SYMMETRY Swap
INVARIANT DocsInv
INVARIANT CloudWritesSurvive
INVARIANT StampIsTruthful
PROPERTY ReplaceKeepsLocalEdits
PROPERTY UpdateBuildsOnServedHead
