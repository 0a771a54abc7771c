SPECIFICATION Spec
CONSTANTS
  Nil = Nil
  Namespaces <- OneNamespace
  ProxyNames <- EdgeOnly
  Resources <- SliceResources
  Slices <- OneSlice
  Manifests <- SliceManifests
  Revisions <- SliceRevisions
  InitialStores <- SliceStores
  MaxPending = 2
  Edited <- ClusterAndSlice
  Streaming <- None
  Faults <- SliceFaults
CHECK_DEADLOCK FALSE
INVARIANTS QuietServesCache DrainedServesApi ServesOnlyTargeting
PROPERTY UnchangedVersionExplained
