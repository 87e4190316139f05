SPECIFICATION MCSpec
CONSTANTS
  LastPart <- MCLastPart
  Inputs <- MCInputs
  Fills <- MCFills
  Fields <- MCFields
  Patches <- MCPatches
  BadNames = {"Bad"}
  MaxRenders = 2
  MaxEdits = 2
  Chats = {"c1", "c2"}
  Names = {"a.b", "a_b"}
  Safe <- MCSafe
  Specs = {"s", "t", "bad"}
  Checked = {"s", "t"}
  Canvases <- MCCanvases
  Files <- MCFiles
  Typed = Typed
  Absent = Absent
  Null = Null
  MaxPRs = 3
  MaxFlowEdits = 1
  MaxTurns = 3
  FaultSets <- MCFaultSets
  Paths <- MCPaths
  Contents <- MCContents
  IdOf <- MCIdOf
  Valid <- MCValid
  Repos <- MCRepos
  MaxPushes = 3
  SyncFaultSets <- MCSyncFaults
  Words = {"a", "a.x", "a.xy", "d.t"}
  Dotted = {"a.x", "a.xy", "d.t"}
  Tables = {"a", "d.t"}
  Catalog = {"a.xy"}
  Kinds = {"entity", "dimension"}
  Terms = {"v", "h", "n", "m"}
  Visible = {"v"}
  Hidden = {"h"}
  Functions <- MCFunctions
  MaxUserSteps = 5
  Queries = {"long", "full", "scan", "empty", "drop"}
  Forbidden = {"drop"}
  Scans = {"scan"}
  Sizes <- MCRows
  Heads <- MCColumns
  ChartColumns <- MCCharts
  MaxRows = 2
  PageSize = 1
  MaxCalls = 3
  MaxTouches = 2
  LastRun = 3
  Loggers = {"a.d", "a.b_c", "a_b.c"}
  Columns = {"x", "y", "bad"}
  Clashing = {"bad"}
  SafeName <- MCSafeName
  ProtoName <- MCProtoName
  Skills <- MCSkills
  RunInputs <- MCRunInputs
  MaxAgentTurns = 11
  MaxPartitions = 2
  MaxCuts = 1
  NoThing = NoThing
  RunFaultSets <- MCRunFaultSets
INVARIANTS
  SpecIsShown
  FlowInv
  SyncInv
  
  AnalystInv
  SkillInv
PROPERTIES
  EditsLand
CHECK_DEADLOCK FALSE
