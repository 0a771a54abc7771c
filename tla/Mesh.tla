--------------------------------- MODULE Mesh ---------------------------------
(***************************************************************************)
(* control-plane/cmd/main.go: the process that runs the controller and the *)
(* xDS server side by side, and the Envoys that stream from it.            *)
(*                                                                         *)
(*   users --> api --> EnvoyProxyController --snapshots--> XdsServer       *)
(*              ^               |     ^                       |            *)
(*              +--- status ----+     +------ connected ------+--> Envoys  *)
(*                                                                         *)
(* The xDS server starts with the process.  The manager starts the         *)
(* controller once the process holds the leader election lease (at once    *)
(* without --leader-elect), and losing the lease ends the process.         *)
(***************************************************************************)
EXTENDS EnvoyProxyController

CONSTANTS
  Envoys,   \* Envoy instances
  NodeOf,   \* NodeOf[e]: the node.id of Envoy e
  Streams   \* slots for the streams that are open at once: a bound

VARIABLES
  leading,  \* has the manager started the controller?
  stream,   \* XdsServer's streams
  held      \* held[e]: the version Envoy e runs with, Nil if none

nodes == {NodeOf[e] : e \in Envoys}

\* An Envoy's node.id is some EnvoyProxy's, whether that exists or not.
ASSUME MeshAssumption ==
  /\ nodes \subseteq Streaming
  /\ Streams \subseteq Nat
  /\ Nil \notin nodes /\ Nil \notin Envoys /\ Nil \notin Nat

(***************************************************************************)
(* The two share the snapshot cache, of which a stream sees the version,   *)
(* and the connected set.  A version is a digest, not a number: XdsServer's*)
(* count of the versions is not used here, nor its record of the failed    *)
(* SetSnapshots, of which Reconcile knows.                                 *)
(***************************************************************************)
versions == [n \in nodes |-> IF snapshots[n] = Nil THEN Nil ELSE snapshots[n].version]

X == INSTANCE XdsServer WITH snapshots <- versions,
                             last <- [n \in nodes |-> 0], MaxVersion <- [n \in nodes |-> 0],
                             Rejected <- {}, NoId <- Nil, failed <- {},
                             Restarts <- "crash" \in Faults

controllerVars == <<api, rev, watch, cache, notifs, dirty, backoff, missed,
                    pc, req, ep, epCurrent, lists, synth, snapshots>>
serverVars     == <<stream, held>>
meshVars       == <<controllerVars, connected, serverVars, leading>>

-----------------------------------------------------------------------------
\* Mutant of StartController: what is there already is not listed.
startWithoutLists ==
  /\ ~leading
  /\ leading' = TRUE
  /\ watch' = [k \in WatchedKinds |-> <<>>]
  /\ cache' = api
  /\ notifs' = [k \in WatchedKinds |-> <<>>]
  /\ UNCHANGED <<api, rev, queueVars, pc, req, workVars, snapshots, connected, serverVars>>

(***************************************************************************)
(* The manager starts the controller, which lists every kind first.        *)
(***************************************************************************)
StartController ==
  /\ ~leading
  /\ leading' = TRUE
  /\ watch' = [k \in WatchedKinds |-> <<>>]
  /\ cache' = api
  /\ notifs' = initialNotifs(api)
  /\ UNCHANGED <<api, rev, queueVars, pc, req, workVars, snapshots, connected, serverVars>>

(***************************************************************************)
(* The controller's goroutines run once it is started.                     *)
(***************************************************************************)
whenLeading(A) == leading /\ A /\ UNCHANGED leading

(***************************************************************************)
(* Reconcile's SetSnapshot is the xDS server's: it answers the watches, or *)
(* fails to answer some.                                                   *)
(***************************************************************************)
Push ==
  /\ SetSnapshot
  /\ LET n == nodeID(req)
         v == snapshots'[n].version
     IN  \E answered \in SUBSET X!waiting(n, v) :
           /\ (answered = X!waiting(n, v)) = (pc' # "setFailed")
           /\ X!publish(n, v, answered)

Work ==
  \/ Push
  \/ ~ (collectedAll /\ snapshotBuilds(specsByKind(lists))) /\ Reconcile /\ UNCHANGED serverVars

(***************************************************************************)
(* A read of Reconcile, or of the slice handler, fails.                    *)
(***************************************************************************)
Fails == (ReadFails \/ DropSliceEvent) /\ UNCHANGED serverVars

(***************************************************************************)
(* The streams' steps leave the controller alone, but for connected.       *)
(***************************************************************************)
streamStep(A) == UNCHANGED <<controllerVars, leading>> /\ A

(***************************************************************************)
(* The process ends, at any point or because it loses the lease, and       *)
(* starts again.                                                           *)
(***************************************************************************)
RestartProcess == Restart /\ X!Restart /\ leading' = FALSE

MeshInit == Init /\ X!Init /\ leading = FALSE

MeshNext ==
  \/ User /\ UNCHANGED <<serverVars, leading>>
  \/ StartController
  \/ whenLeading(Informer /\ UNCHANGED serverVars)
  \/ \E p \in Proxies : whenLeading((Dequeue(p) \/ RetryAfterBackoff(p)) /\ UNCHANGED serverVars)
  \/ whenLeading(Work) \/ whenLeading(Fails)
  \/ \E s \in Streams : \/ \E e \in Envoys : streamStep(X!Open(s, e))
                        \/ streamStep(X!Serve(s) \/ X!Receive(s) \/ X!Leave(s))
  \/ RestartProcess

MeshSpec == MeshInit /\ [][MeshNext]_meshVars

(***************************************************************************)
(* The fairness of the two parts.  Nothing makes the process the leader,   *)
(* and nothing makes a read or a SetSnapshot fail.                         *)
(***************************************************************************)
FairMeshSpec ==
  /\ MeshSpec
  /\ \A k \in kinds :
       /\ WF_meshVars(whenLeading(Deliver(k) /\ UNCHANGED serverVars))
       /\ WF_meshVars(whenLeading(Handle(k) /\ UNCHANGED serverVars))
  /\ \A p \in Proxies :
       /\ SF_meshVars(whenLeading(Dequeue(p) /\ UNCHANGED serverVars))
       /\ WF_meshVars(whenLeading(RetryAfterBackoff(p) /\ UNCHANGED serverVars))
  /\ WF_meshVars(whenLeading(Work))
  /\ \A s \in Streams : /\ WF_meshVars(streamStep(X!Serve(s)))
                        /\ WF_meshVars(streamStep(X!Receive(s)))

-----------------------------------------------------------------------------
\* The process that leads or does not, is stopped and started again, and serves
\* streams all the while is, to the API server and the snapshot cache, the
\* controller of EnvoyProxyController: a standby is a controller that has not
\* begun, and StartController is a start that finds streams open already.
ControllerRuns == Spec

\* README.md:238 at every moment that there is nothing left to do: once the
\* watches are drained, no request concerns an EnvoyProxy and an Envoy's stream
\* waits for another version, that Envoy runs the configuration the API server's
\* objects call for.  Unless status updates are lost, the Ready condition quotes
\* the very version it runs.
EnvoysRunApi ==
  \A s \in Streams, p \in Proxies :
    /\ stream[s].at = "watch" /\ ~stream[s].left /\ stream[s].node = nodeID(p)
    /\ api[p] # Nil /\ Quiet(p) /\ \A k \in WatchedKinds : watch[k] = <<>>
    => LET e == stream[s].envoy
       IN  /\ ServesStore(api, p, snapshots[nodeID(p)])
           /\ held[e] = snapshots[nodeID(p)].version
           /\ "status" \notin Faults => api[p].ready = "True" /\ api[p].version = held[e]

\* README.md:238, end to end: the operator "picks up the CR, rebuilds the xDS
\* snapshot, and pushes it to the connected Envoy proxy".  Whatever order users'
\* writes, the lease, reconciles, their failures, streams and restarts come in,
\* an Envoy that stays connected to the leader ends up running what its CRs call
\* for, in one order of the Lists or another.
EventuallyRuns ==
  \A e \in Envoys, p \in Proxies :
    NodeOf[e] = nodeID(p) /\ Undisturbed(p) /\ <>[](leading /\ X!streaming(e)) =>
      <>[](api[p] # Nil /\ Builds(api, p) =>
             /\ ServesStore(api, p, snapshots[nodeID(p)])
             /\ RunsStore(api, p, held[e]))

\* envoyproxy_types.go:26, "ConditionReady is True once at least one xDS snapshot
\* has been pushed to the proxy": if an EnvoyProxy is Ready, some Envoy of its runs
\* with a snapshot or is being sent one.
ReadyMeansPushed ==
  \A p \in Proxies : api[p] # Nil /\ api[p].ready = "True" =>
    \/ \E e \in Envoys : NodeOf[e] = nodeID(p) /\ held[e] # Nil
    \/ \E s \in Streams : stream[s].at = "response" /\ stream[s].node = nodeID(p)

=============================================================================
