SPECIFICATION PairSpec
CONSTANTS
  First = r1
  Tasks = {t1}
  UnknownTask = t0
  Runs = {r1, r2}
  None = none
  Keys = {"id", "identifier"}
  Automated = {t1}
  TimeoutTasks = {t1}
  MaxAttempts = 2
  AgentTries = 2
  InitStatuses = {"backlog"}
  InitConfigs = {"null", "pinned"}
  UserStatuses = {}
  MaxEdits = 0
  MaxSignals = 0
  TopicHeartbeats = TRUE
  StoreFaults = FALSE
CHECK_DEADLOCK FALSE
INVARIANTS
  TypeOK
  RunningIsOwned
  ActiveTopicHasRun
PROPERTIES
  RunsSettle
  RunningEnds
