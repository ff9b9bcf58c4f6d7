SPECIFICATION Spec
CONSTANTS
  Senders = {s1}
  Receivers = {r1, r2}
  Clients = {a1}
  NoThread = NoThread
  Conns = {c1}
  NoConn = NoConn
  Ids <- OneId
  Patterns <- AllPatterns
  Stored <- CutAll
  Prefix <- MCPrefix
  Requests <- MCRequests
  Msg <- MCMsg
  Unused = Unused
  QMax = 2
  MaxConns = 1
  MaxSubs = 2
  MaxCalls = 3
SYMMETRY Symmetry
INVARIANTS TypeOK RingsConsistent NoLostWakeup
