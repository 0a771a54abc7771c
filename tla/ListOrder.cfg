SPECIFICATION Spec
CONSTANTS
  Nil = Nil
  Namespaces <- OneNamespace
  ProxyNames <- EdgeOnly
  Resources <- TwoListeners
  Slices <- None
  Manifests <- OrderManifests
  Revisions <- None
  InitialStores <- OrderStores
  MaxPending = 2
  Edited <- None
  Streaming <- None
  Faults <- None
CHECK_DEADLOCK FALSE
PROPERTY StableVersion
