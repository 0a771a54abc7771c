SPECIFICATION FairSpec
CONSTANTS
  Nil = Nil
  Namespaces <- TwoNamespaces
  ProxyNames <- EdgeOnly
  Resources <- TwoListeners
  Slices <- None
  Manifests <- ServingManifests
  Revisions <- OneWrite
  InitialStores <- ServingStores
  MaxPending = 1
  Edited <- ListenerAndProxy
  Streaming <- None
  Faults <- None
CHECK_DEADLOCK FALSE
INVARIANTS TypeOK QuietServesCache DrainedServesApi ServesOnlyTargeting
PROPERTIES LevelsReconciled EventuallyServed Settles
