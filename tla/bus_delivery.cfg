SPECIFICATION ReachSpec
CONSTANTS
  Senders = {s1, s2}
  Receivers = {r1}
  Clients = {a1}
  NoThread = NoThread
  Conns = {c1, c2}
  NoConn = NoConn
  Ids <- TwoIds
  Patterns <- OnePattern
  Stored <- CutOne
  Prefix <- MCPrefix
  Requests <- MCRequests
  Msg <- MCMsg
  Unused = Unused
  QMax = 1
  MaxConns = 2
  MaxSubs = 1
  MaxCalls = 2
SYMMETRY Symmetry
INVARIANTS OneStaleDelivery ChoiceStillSafe NobodyIsSkipped
PROPERTY ImplementsMailboxes
