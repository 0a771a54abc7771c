------------------------------- MODULE XdsServer -------------------------------
(***************************************************************************)
(* control-plane/internal/xds/server.go: the xDS server between the        *)
(* snapshot cache the controller fills and the Envoys that stream from it. *)
(*                                                                         *)
(* The two callbacks and the set they maintain are this repository's code; *)
(* the stream loop and the snapshot cache are go-control-plane's.  One     *)
(* resource type stands for all: each has a watch of its own, and all have *)
(* the one version of the snapshot.  A snapshot is its version.            *)
(***************************************************************************)
EXTENDS Naturals

CONSTANTS
  Envoys,      \* Envoy instances
  NodeOf,      \* NodeOf[e]: the node.id of Envoy e; replicas share theirs
  Streams,     \* slots for the streams that are open at once: a bound
  MaxVersion,  \* node n's snapshot versions are 1..MaxVersion[n]: a bound
  Rejected,    \* the versions Envoys do not accept
  Restarts,    \* may the control plane restart?
  NoId,        \* the node.id of an Envoy that has none: the empty string
  Nil

Nodes == {NodeOf[e] : e \in Envoys}

ASSUME ServerAssumption ==
  /\ Streams \subseteq Nat /\ MaxVersion \in [Nodes -> Nat] /\ Rejected \subseteq Nat
  /\ Nil \notin Nodes /\ Nil \notin Envoys /\ Nil \notin Nat

VARIABLES
  snapshots,  \* Cache: snapshots[node], Nil if never set
  connected,  \* Server.connected
  stream,     \* stream[s], see IsStream
  held,       \* held[e]: the version Envoy e runs with, Nil if none
  last,       \* last[node]: the last version set, 0 if none
  failed      \* nodes whose last SetSnapshot failed, which Reconcile repeats

vars == <<snapshots, connected, stream, held, last, failed>>

(***************************************************************************)
(* Where a stream is: its Envoy's request is on the way ("request"), has   *)
(* been given to the callback ("requested"), waits for a snapshot with     *)
(* another version ("watch"), or its response is on the way.               *)
(*   version  the version the request holds, or the response carries       *)
(*   node     the node.id the server has learnt from the first request     *)
(*   left     the Envoy's end is gone                                      *)
(***************************************************************************)
Live == {"request", "requested", "watch", "response"}

Unused == [at |-> "unused", envoy |-> Nil, version |-> Nil, node |-> Nil, left |-> FALSE]

live(s) == stream[s].at \in Live

\* An Envoy that the server is exchanging messages with.
streaming(e) == \E s \in Streams : /\ live(s) /\ ~stream[s].left
                                   /\ stream[s].envoy = e /\ stream[s].node # Nil

IsConnected(n) == n \in connected

-----------------------------------------------------------------------------
(***************************************************************************)
(* An Envoy opens a stream, in the first free slot, when it has none.  Its *)
(* first request names its node and the version it holds.                  *)
(***************************************************************************)
Open(s, e) ==
  /\ stream[s].at = "unused"
  /\ \A t \in Streams : t < s => stream[t].at # "unused"
  /\ \A t \in Streams : live(t) /\ stream[t].envoy = e => stream[t].left
  /\ stream' = [stream EXCEPT ![s] = [at |-> "request", envoy |-> e, version |-> held[e],
                                      node |-> Nil, left |-> FALSE]]
  /\ UNCHANGED <<snapshots, connected, held, last, failed>>

\* Mutant of StreamRequest: an empty node.id is stored like any other.
streamRequestStoresEmpty(s) ==
  /\ stream[s].at = "request"
  /\ LET n == NodeOf[stream[s].envoy]
     IN  /\ stream' = [stream EXCEPT ![s].at = "requested", ![s].node = n]
         /\ connected' = connected \cup {n}
  /\ UNCHANGED <<snapshots, held, last, failed>>

(***************************************************************************)
(* A request arrives: the stream loop remembers its node, and              *)
(* StreamRequestFunc stores it as connected unless it is empty.            *)
(***************************************************************************)
StreamRequest(s) ==
  /\ stream[s].at = "request"
  /\ LET n == NodeOf[stream[s].envoy]
     IN  /\ stream' = [stream EXCEPT ![s].at = "requested", ![s].node = n]
         /\ connected' = connected \cup ({n} \ {NoId})
  /\ UNCHANGED <<snapshots, held, last, failed>>

(***************************************************************************)
(* Then the cache answers it, or leaves a watch open if it has no snapshot *)
(* for the node or the Envoy holds its version already.                    *)
(***************************************************************************)
CreateWatch(s) ==
  /\ stream[s].at = "requested"
  /\ LET v == snapshots[stream[s].node]
     IN  stream' = [stream EXCEPT ![s] =
                      IF v \in {Nil, @.version} THEN [@ EXCEPT !.at = "watch"]
                      ELSE [@ EXCEPT !.at = "response", !.version = v]]
  /\ UNCHANGED <<snapshots, connected, held, last, failed>>

(***************************************************************************)
(* The open watches of node n that wait for a version like v.              *)
(***************************************************************************)
waiting(n, v) ==
  {s \in Streams : stream[s].at = "watch" /\ stream[s].node = n /\ stream[s].version # v}

\* Mutants of publish: the open watches are not answered; those of every node
\* are.
publishWithoutAnswers(n, v, answered) ==
  /\ snapshots' = [snapshots EXCEPT ![n] = v]
  /\ UNCHANGED <<connected, stream, held>>

publishToAll(n, v, answered) ==
  /\ snapshots' = [snapshots EXCEPT ![n] = v]
  /\ stream' = [s \in Streams |->
                  IF stream[s].at = "watch" /\ stream[s].version # v
                    THEN [stream[s] EXCEPT !.at = "response", !.version = v]
                    ELSE stream[s]]
  /\ UNCHANGED <<connected, held>>

(***************************************************************************)
(* The cache's SetSnapshot stores the snapshot and then answers the open   *)
(* watches one by one.  It gives up at the first that cannot be answered,  *)
(* which leaves the rest open.                                             *)
(***************************************************************************)
publish(n, v, answered) ==
  /\ snapshots' = [snapshots EXCEPT ![n] = v]
  /\ stream' = [s \in Streams |->
                  IF s \in answered THEN [stream[s] EXCEPT !.at = "response", !.version = v]
                  ELSE stream[s]]
  /\ UNCHANGED <<connected, held>>

(***************************************************************************)
(* The controller sets a node's snapshot, to a new one or to the last one  *)
(* again.  If that fails, Reconcile returns the error and is run again.    *)
(***************************************************************************)
SetSnapshot(n, v) ==
  /\ v \in {last[n], last[n] + 1} \cap (1..MaxVersion[n])
  /\ last' = [last EXCEPT ![n] = v]
  /\ \/ publish(n, v, waiting(n, v)) /\ failed' = failed \ {n}
     \/ \E answered \in SUBSET waiting(n, v) \ {waiting(n, v)} :
          publish(n, v, answered) /\ failed' = failed \cup {n}

(***************************************************************************)
(* The Envoy takes a response and asks for the next, with the new version  *)
(* if it accepts it and with the one it holds if it does not.              *)
(***************************************************************************)
Receive(s) ==
  /\ stream[s].at = "response"
  /\ ~stream[s].left
  /\ LET e == stream[s].envoy
     IN  /\ held' = IF stream[s].version \in Rejected THEN held
                    ELSE [held EXCEPT ![e] = stream[s].version]
         /\ stream' = [stream EXCEPT ![s].at = "request", ![s].version = held'[e]]
  /\ UNCHANGED <<snapshots, connected, last, failed>>

(***************************************************************************)
(* The Envoy's end of a stream goes away, alone or because the Envoy is    *)
(* restarted; the server notices later.                                    *)
(***************************************************************************)
Leave(s) ==
  /\ live(s)
  /\ ~stream[s].left
  /\ stream' = [stream EXCEPT ![s].left = TRUE]
  /\ \/ UNCHANGED held
     \/ held' = [held EXCEPT ![stream[s].envoy] = Nil]
  /\ UNCHANGED <<snapshots, connected, last, failed>>

\* Mutant of StreamClosed: the node is not removed.
streamClosedKeepsNode(s) ==
  /\ live(s)
  /\ stream[s].left
  /\ stream' = [stream EXCEPT ![s] = Unused]
  /\ UNCHANGED <<snapshots, connected, held, last, failed>>

(***************************************************************************)
(* The stream loop ends, and StreamClosedFunc removes its node, if it has  *)
(* one (the stream may end before its first request, and the node.id may   *)
(* be empty).                                                              *)
(***************************************************************************)
StreamClosed(s) ==
  /\ live(s)
  /\ stream[s].left
  /\ connected' = connected \ ({stream[s].node} \ {Nil, NoId})
  /\ stream' = [stream EXCEPT ![s] = Unused]
  /\ UNCHANGED <<snapshots, held, last, failed>>

(***************************************************************************)
(* The process starts again with an empty cache; the Envoys keep what they *)
(* hold.                                                                   *)
(***************************************************************************)
Restart ==
  /\ Restarts
  /\ snapshots' = [n \in Nodes |-> Nil]
  /\ connected' = {}
  /\ stream' = [s \in Streams |-> Unused]
  /\ failed' = {}
  /\ UNCHANGED <<held, last>>

Init ==
  /\ snapshots = [n \in Nodes |-> Nil]
  /\ connected = {}
  /\ stream = [s \in Streams |-> Unused]
  /\ held = [e \in Envoys |-> Nil]
  /\ last = [n \in Nodes |-> 0]
  /\ failed = {}

Serve(s) == StreamRequest(s) \/ CreateWatch(s) \/ StreamClosed(s)

Next ==
  \/ \E s \in Streams : \/ \E e \in Envoys : Open(s, e)
                        \/ Serve(s) \/ Receive(s) \/ Leave(s)
  \/ \E n \in Nodes \ {NoId} : \E v \in 1..MaxVersion[n] : SetSnapshot(n, v)
  \/ Restart

Spec == Init /\ [][Next]_vars

(***************************************************************************)
(* The stream loops keep running, and an Envoy reads its stream.           *)
(***************************************************************************)
FairSpec == Spec /\ \A s \in Streams : WF_vars(Serve(s)) /\ WF_vars(Receive(s))

-----------------------------------------------------------------------------
IsStream(x) ==
  /\ x \in [at : Live \cup {"unused"}, envoy : Envoys \cup {Nil},
            version : Nat \cup {Nil}, node : Nodes \cup {Nil}, left : BOOLEAN]
  /\ x.at \in Live => x.envoy \in Envoys
  /\ x.at \in {"requested", "watch", "response"} => x.node \in Nodes

\* The type invariant: the connected set holds node.ids, never the empty one, and
\* a live stream has an Envoy.
TypeOK ==
  /\ snapshots \in [Nodes -> Nat \cup {Nil}]
  /\ connected \subseteq Nodes \ {NoId}
  /\ DOMAIN stream = Streams /\ \A s \in Streams : IsStream(stream[s])
  /\ held \in [Envoys -> Nat \cup {Nil}]
  /\ last \in [Nodes -> Nat]
  /\ failed \subseteq Nodes

\* StreamRequestFunc and StreamClosedFunc of different streams interleave, yet
\* IsConnected never reports a node none of whose streams is left: the close of
\* its last stream always comes after every store of its node.
NoGhost ==
  \A n \in Nodes : IsConnected(n) => \E s \in Streams : live(s) /\ stream[s].node = n

\* No update is lost between two requests: an Envoy whose stream waits for
\* another version (its request found the version it holds, or none, in the
\* cache) holds its node's snapshot, whatever SetSnapshot, reconnects and
\* rejected updates came between.  Where a SetSnapshot gave up before it had
\* answered all, the next one that succeeds makes up for it.
WaitingHoldsCurrent ==
  \A s \in Streams : stream[s].at = "watch" /\ ~stream[s].left /\ stream[s].node \notin failed =>
    snapshots[stream[s].node] \in {Nil, held[stream[s].envoy]}

\* server.go:74, "IsConnected reports whether an Envoy proxy with the given
\* nodeID is actively streaming".
ConnectedWhileStreaming ==
  \A e \in Envoys : streaming(e) /\ NodeOf[e] # NoId => IsConnected(NodeOf[e])

\* README.md:238, the operator "pushes it to the connected Envoy proxy": however
\* reconnects, restarts and SetSnapshots that fail half-way interleave, an Envoy
\* that stays connected, and whose snapshot is set without an error in the end,
\* ends up with the last snapshot of its node, unless it rejects it.
Pushed ==
  \A e \in Envoys :
    <>[](streaming(e) /\ NodeOf[e] \notin failed) => <>[](\/ snapshots[NodeOf[e]] \in Rejected \cup {Nil}
                             \/ held[e] = snapshots[NodeOf[e]])

\* What the server promises, without streams and watches.
D == INSTANCE Delivery WITH last <- last, held <- held

\* The snapshot cache behind the streams, with one entry per node.id
\* (server.go:67, IDHash), implements Delivery: whatever requests, answers,
\* reconnects and restarts are under way, an Envoy only ever goes from one
\* snapshot of its own node to a later one.
DeliversInOrder == D!Spec

=============================================================================
