-------------------------------- MODULE MCMesh --------------------------------
(***************************************************************************)
(* Mesh for TLC: one EnvoyProxy, one listener that a user creates, and one *)
(* Envoy that connects again and again.                                    *)
(***************************************************************************)
EXTENDS Mesh, MCController

OneEnvoy == {"envoy"}
EdgeNode == "envoy" :> nodeID(edge1)
OneStream == 1..1
OkManifests == listener :> {cr("", spec("ok", "a", ""))}
ProxyStore == {Store(edge1 :> NewProxy)}
CrashesAndReads == {"crash", "read"}
=============================================================================
