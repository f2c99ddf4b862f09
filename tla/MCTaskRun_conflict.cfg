SPECIFICATION Spec
CONSTANTS
  First = r1
  Tasks = {t1}
  UnknownTask = t0
  Runs = {r1, r2}
  None = none
  Keys = {"id"}
  Automated = {}
  TimeoutTasks = {t1}
  MaxAttempts = 1
  AgentTries = 1
  InitStatuses = {"backlog"}
  InitConfigs = {"pinned"}
  UserStatuses = {}
  MaxEdits = 0
  MaxSignals = 0
  TopicHeartbeats = TRUE
  StoreFaults = TRUE
CHECK_DEADLOCK FALSE
PROPERTY
  ConflictIsLive
