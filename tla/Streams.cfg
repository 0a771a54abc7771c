SPECIFICATION FairSpec
CONSTANTS
  e1 = e1
  e2 = e2
  e3 = e3
  e4 = e4
  NoId = NoId
  Nil = Nil
  NodeOf <- Node
  Envoys <- Deployments
  Streams <- Two
  MaxVersion <- ThreeAndOne
  Rejected <- Second
  Restarts = TRUE
CHECK_DEADLOCK FALSE
INVARIANTS TypeOK NoGhost WaitingHoldsCurrent
PROPERTIES Pushed DeliversInOrder
