SPECIFICATION Spec
CONSTANTS
  Nil = Nil
  Namespaces <- OneNamespace
  ProxyNames <- EdgeOnly
  Resources <- OneListener
  Slices <- None
  Manifests <- FailingManifests
  Revisions <- TwoWrites
  InitialStores <- FailingStores
  MaxPending = 1
  Edited <- ListenerAndProxy
  Streaming <- EdgeStreams
  Faults <- ProcessFaults
CHECK_DEADLOCK FALSE
INVARIANTS QuietServesCache ReadyReportsVersion
