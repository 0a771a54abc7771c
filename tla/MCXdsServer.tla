------------------------------ MODULE MCXdsServer ------------------------------
(***************************************************************************)
(* Instances of XdsServer for TLC: two replicas of one Envoy Deployment,   *)
(* which share a node.id, an Envoy of another Deployment, and one that has *)
(* no node.id.                                                             *)
(***************************************************************************)
EXTENDS XdsServer, TLC

CONSTANTS e1, e2, e3, e4

Replicas == {e1, e2}
Deployments == {e1, e2, e3, e4}
Node == (e1 :> "edge.ns1") @@ (e2 :> "edge.ns1") @@ (e3 :> "edge.ns2") @@ (e4 :> NoId)
Two == 1..2
ThreeAndOne == ("edge.ns1" :> 3) @@ ("edge.ns2" :> 1) @@ (NoId :> 0)
OneEach == [n \in Nodes |-> 1]
Second == {2}
None == {}
=============================================================================
