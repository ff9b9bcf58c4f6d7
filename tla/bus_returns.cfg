SPECIFICATION FairSpec
CONSTANTS
  Senders = {s1}
  Receivers = {r1, r2}
  Clients = {a1}
  NoThread = NoThread
  Conns = {c1}
  NoConn = NoConn
  Ids <- OneId
  Patterns <- OnePattern
  Stored <- CutOne
  Prefix <- MCPrefix
  Requests <- MCRequests
  Msg <- MCMsg
  Unused = Unused
  QMax = 1
  MaxConns = 1
  MaxSubs = 1
  MaxCalls = 1
PROPERTIES RecvReturns SendReturns
