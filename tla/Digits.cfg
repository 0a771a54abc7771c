SPECIFICATION Spec
CONSTANTS
  Nil = Nil
  Namespaces <- OneNamespace
  ProxyNames <- EdgeOnly
  Resources <- DigitResources
  Slices <- None
  Manifests <- DigitManifests
  Revisions <- DigitRevisions
  InitialStores <- DigitStores
  MaxPending = 2
  Edited <- DigitResources
  Streaming <- None
  Faults <- None
CHECK_DEADLOCK FALSE
PROPERTY VersionChangesWithConfiguration
