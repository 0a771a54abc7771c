---------------------------- MODULE LevelTriggered ----------------------------
(***************************************************************************)
(* What a level-triggered controller promises, queues, caches and lists    *)
(* aside.  A proxy is pending while some event, request or reconcile is    *)
(* still about to look at it.  A change it learns of makes the proxies     *)
(* pending that it concerns.  Only a pending proxy is served something     *)
(* else, one at a time, and a proxy that exists stops being pending only   *)
(* when what it is served is right.                                        *)
(***************************************************************************)
CONSTANTS Proxies, Nil

VARIABLES
  exists,   \* the proxies the controller knows of
  served,   \* served[p]: what p is served, Nil if nothing yet
  right,    \* the proxies that are served what the controller knows they should be
  pending   \* the proxies the controller still has to look at

started ==
  /\ exists \subseteq pending
  /\ served = [p \in Proxies |-> Nil]

same(p) == (p \in exists' <=> p \in exists) /\ (p \in right' <=> p \in right)

Observe ==
  /\ pending \subseteq pending'
  /\ served' = served
  /\ \A p \in Proxies \ pending' : same(p)

Serve(p) ==
  /\ p \in pending
  /\ \A q \in Proxies \ {p} : same(q) /\ served'[q] = served[q]
  /\ UNCHANGED <<exists, pending>>

Finish(p) ==
  /\ p \in pending
  /\ p \in exists => p \in right
  /\ pending' = pending \ {p}
  /\ UNCHANGED <<exists, served, right>>

\* A restart forgets what is served and looks at everything again.
Restart == started'

Next == Observe \/ (\E p \in Proxies : Serve(p) \/ Finish(p)) \/ Restart

vars == <<exists, served, right, pending>>

Spec == started /\ [][Next]_vars

=============================================================================
