SPECIFICATION Spec
SYMMETRY Symmetry
CONSTANTS
  session1 = session1
  session2 = session2
  editor1 = editor1
  editor2 = editor2
  LockCalls = {lock1, lock2}
  Sessions = {session1, session2}
  Editors = {editor1, editor2}
  EditorOf <- EditorIds
  Free = free
  Vaults = {vault1}
  Concepts = {concept1, concept2}
  Engrams = {engram1, engram2, engram3}
  MemoryCalls = {memory1, memory2}
  BatchSize = 1
  BatchLength = 2
  Unwritten = unwritten
  NoEngram = noEngram
  Extractions = {extraction1, extraction2}
  Topics = {topic1, topic2}
  MaxLength = 5
  MaxRunes = 4
  Users = {user1, user2}
  Accounts = {account1, account2}
  Empty = empty
  Requests = {request1}
INVARIANTS
  TypeOK
  CachedIdsMatch
  ExtractionHonest
  RetryIsExplicit
  CutsOnRunes
  AccountIsMine
PROPERTIES
  LockIsLease
CHECK_DEADLOCK FALSE
