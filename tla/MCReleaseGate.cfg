CONSTANTS
  HTTP_USER_CAMPAIGNS <- User
  HTTP_FILE_CAMPAIGNS <- File
  CLI_PARSE_CAMPAIGNS <- Parse
  CLI_ONCE_CAMPAIGNS <- Once
  Trees <- SomeTrees
  ClassFiles <- WithFile
  EngineOrders <- SomeOrders
  Cases <- SomeCases
  RunIds = {"lib-call-twice"}
  MaxGates = 2
  MaxTurns = 20
  MaxCards = 1
SPECIFICATION Spec
INVARIANTS
  TypeOK
  CrewPlanIsRun
  SkippedIsNotRun
PROPERTIES
  PlanFollowsFacts
  
  ReportIsLast
  
