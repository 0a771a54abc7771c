SPECIFICATION MeshSpec
CONSTANTS
  Nil = Nil
  Namespaces <- OneNamespace
  ProxyNames <- EdgeOnly
  Resources <- OneListener
  Slices <- None
  Manifests <- OkManifests
  Revisions <- OneWrite
  InitialStores <- ProxyStore
  MaxPending = 1
  Edited <- OneListener
  Streaming <- EdgeStreams
  Faults <- None
  Envoys <- OneEnvoy
  NodeOf <- EdgeNode
  Streams <- OneStream
CHECK_DEADLOCK FALSE
INVARIANT ReadyMeansPushed
