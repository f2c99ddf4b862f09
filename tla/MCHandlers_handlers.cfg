SPECIFICATION Spec
CONSTANTS
  Ops = {o1}
  agent1 = agent1
  Agents = {agent1}
  AgentOf <- AgentIds
  NoOp = NoOp
  MaxEvents = 3
  Writers = {w1, w2}
  MaxValues = 3
  Sends = {s1, s2}
  OldTopics = {t1}
  Preloads = 2
  c1 = c1
  c2 = c2
  p1 = p1
  p2 = p2
  Children = {c1, c2}
  Parents = {p1, p2}
  Requests = {r1, r2}
  None = none
  Layers = {"identities", "contexts"}
  Failures = TRUE
INVARIANTS
  TypeOK
  StoryAgrees
  ReadInOrder
  SentWhole
  MemoriesWhole
PROPERTIES
  OpsSettle
  ConnectionEnds
  OkMeansGone
  RequestsEnd
CHECK_DEADLOCK FALSE
