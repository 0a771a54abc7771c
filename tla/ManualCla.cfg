SPECIFICATION Spec
CONSTANTS
  Nil = Nil
  Namespaces <- OneNamespace
  ProxyNames <- EdgeOnly
  Resources <- ManualResources
  Slices <- OneSlice
  Manifests <- ManualManifests
  Revisions <- None
  InitialStores <- ManualStores
  MaxPending = 2
  Edited <- None
  Streaming <- None
  Faults <- None
CHECK_DEADLOCK FALSE
INVARIANT ManualTakesPrecedence
