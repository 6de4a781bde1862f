SPECIFICATION Spec
CONSTANTS
  MaxNumber = 2
  MaxNesting = 1
  c1 = c1
  c2 = c2
  Clients = {c1, c2}
  Workloads <- Mixed
  BUFFER_SIZE = 3
  ReplySize = 2
  SendRoom = 1
INVARIANT TypeOK
INVARIANT NoLostInput
INVARIANT NoStuckOutput
INVARIANT DecodesRequests
PROPERTY RequestsAnswered
PROPERTY LoopReturns
