SPECIFICATION Spec
CONSTANTS
  Nil = Nil
  Namespaces <- OneNamespace
  ProxyNames <- EdgeOnly
  Resources <- OneListener
  Slices <- None
  Manifests <- FailingManifests
  Revisions <- None
  InitialStores <- FailingStores
  MaxPending = 2
  Edited <- None
  Streaming <- EdgeStreams
  Faults <- None
CHECK_DEADLOCK FALSE
INVARIANT ConnectedReflectsStream
