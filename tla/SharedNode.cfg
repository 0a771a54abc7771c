SPECIFICATION Spec
CONSTANTS
  e1 = e1
  e2 = e2
  e3 = e3
  e4 = e4
  NoId = NoId
  Nil = Nil
  NodeOf <- Node
  Envoys <- Replicas
  Streams <- Two
  MaxVersion <- OneEach
  Rejected <- None
  Restarts = FALSE
CHECK_DEADLOCK FALSE
INVARIANT ConnectedWhileStreaming
