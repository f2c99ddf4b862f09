SPECIFICATION ConnSpec
CONSTANTS
  Users = {user1, user2}
  Accounts = {account1, account2}
  Empty = empty
  Requests = {request1, request2}
PROPERTIES
  OwnConnectionFound
CHECK_DEADLOCK FALSE
