------------------------------- MODULE Delivery -------------------------------
(***************************************************************************)
(* What the xDS server promises an Envoy, streams and watches aside: the   *)
(* snapshots of its node are published one after the other, and the Envoy  *)
(* goes from the one it runs with to a later one.  It may skip some, but   *)
(* never goes back, never runs with one that was not published for its     *)
(* node, and loses what it runs with only when it is restarted itself.     *)
(***************************************************************************)
EXTENDS Naturals

CONSTANTS
  Envoys,    \* Envoy instances
  NodeOf,    \* NodeOf[e]: the node.id of Envoy e
  Rejected,  \* the snapshots Envoys do not accept
  Nil

VARIABLES
  last,  \* last[node]: how many snapshots of the node have been published
  held   \* held[e]: the snapshot Envoy e runs with, Nil if none

Init ==
  /\ last = [n \in {NodeOf[e] : e \in Envoys} |-> 0]
  /\ held = [e \in Envoys |-> Nil]

Publish(n) ==
  /\ last' = [last EXCEPT ![n] = @ + 1]
  /\ UNCHANGED held

later(e) ==
  {v \in 1..last[NodeOf[e]] : v \notin Rejected /\ (held[e] # Nil => v > held[e])}

Take(e) ==
  /\ \E v \in later(e) : held' = [held EXCEPT ![e] = v]
  /\ UNCHANGED last

Forget(e) ==
  /\ held' = [held EXCEPT ![e] = Nil]
  /\ UNCHANGED last

Next ==
  \/ \E n \in DOMAIN last : Publish(n)
  \/ \E e \in Envoys : Take(e) \/ Forget(e)

Spec == Init /\ [][Next]_<<last, held>>

=============================================================================
