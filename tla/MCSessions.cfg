CONSTANTS
  peer1 = peer1
  peer2 = peer2
  Clients <- MCClients
  Says <- MCSays
  MaxSent <- MCMaxSent
  Room = 1
  Length = 2
SPECIFICATION Spec
INVARIANTS
  SessionsTypeOK
  WholeReplies
  RepliesMatch
  TransactionHolds
PROPERTIES
  AcceptsAll
  
  
CHECK_DEADLOCK FALSE
