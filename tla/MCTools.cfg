SPECIFICATION ToolsSpec
CONSTANTS
  Projects = 2
  Timeout = 9
  Interval = 6
  MaxCommands = 3
  MaxSaves = 2
  Targets = 2
  MaxMapEdits = 3
  MaxMapKills = 1
  MaxLines = 4
  MaxDepth = 2
  MaxItems = 3
  MaxSlots = 3
  NumFiles = 2
  MaxSerial = 1
  Files <- MCFiles
  Words = {1, 2}
  None = None
  MaxEdits = 3
  MaxOthers = 1
INVARIANTS ToolsTypeOK FormsAreUnderstood MenuIsComplete ReportIsHonest OneInputDirectory
  SuccessIsReal PollEndsInTime OneCommandInReach CommandIsOnScreen  RunsLikeBash
  PragmasReachOnlyTheirLines BlockMeansTheSame RoundTripKeeps PrimedCacheServesAll SkipsAreExplained
PROPERTIES HookOfOthersSurvives ReportedInstallRuns MapEditsSurvive
  DeploySkipsOnlyEdits Settles
CHECK_DEADLOCK FALSE
