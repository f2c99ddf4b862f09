SPECIFICATION OneSpec
CONSTANTS
  First = r1
  Tasks = {t1}
  UnknownTask = t0
  Runs = {r1, r2, r3}
  None = none
  Keys = {"id"}
  Automated = {}
  TimeoutTasks = {t1}
  MaxAttempts = 2
  AgentTries = 2
  InitStatuses = {"paused"}
  InitConfigs = {"null", "unpinned"}
  UserStatuses = {"canceled"}
  MaxEdits = 1
  MaxSignals = 1
  TopicHeartbeats = FALSE
  StoreFaults = FALSE
SYMMETRY RunSymmetry
CHECK_DEADLOCK FALSE
INVARIANTS
  RunningIsOwned
  SingleExecution
  TopicsNumbered
  NoConflict
  ExecutionsBounded
