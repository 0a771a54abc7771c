--------------------------- MODULE XdsServerProofs ---------------------------
(***************************************************************************)
(* For any number of Envoys, replicas, streams and snapshots: IsConnected  *)
(* never reports a node that has no stream left, the streams implement     *)
(* Delivery, and an Envoy whose stream waits has missed no snapshot.       *)
(***************************************************************************)
EXTENDS XdsServer, TLAPS

\* The provers a leaf is tried with when it names none, and their time in seconds.
USE SMTT(30), ZenonT(30)

\* A request may overwrite the node of its stream.  NoGhost survives because it
\* is overwritten with what it was: the stream's node never changes.
KnownNode ==
  \A s \in Streams : live(s) /\ stream[s].node # Nil => stream[s].node = NodeOf[stream[s].envoy]

IInv == TypeOK /\ KnownNode /\ NoGhost

\* A step that changes one stream record is described by its fields.
LEMMA OneStream ==
  ASSUME TypeOK, NEW s \in Streams, NEW x, IsStream(x), stream' = [stream EXCEPT ![s] = x]
  PROVE  /\ DOMAIN stream' = Streams
         /\ stream'[s] = x
         /\ \A t \in Streams \ {s} : stream'[t] = stream[t]
         /\ \A t \in Streams : IsStream(stream'[t])
BY DEF TypeOK

\* The invariant holds when nothing is connected.
LEMMA InitIInv == Init => IInv
BY DEF Init, IInv, TypeOK, KnownNode, NoGhost, IsConnected, live, IsStream, Unused, Live

\* Steps that close a stream: the node goes with the first stream that closes.
LEMMA ClosedIInv == \A s \in Streams : IInv /\ StreamClosed(s) => IInv'
<1> SUFFICES ASSUME NEW s \in Streams, IInv, StreamClosed(s) PROVE IInv'
  OBVIOUS
<1>1. IsStream(Unused) /\ Unused.at \notin Live
  BY DEF IsStream, Unused, Live
<1>2. /\ stream'[s] = Unused /\ (\A t \in Streams \ {s} : stream'[t] = stream[t])
      /\ TypeOK'
  BY <1>1, OneStream DEF IInv, StreamClosed, TypeOK
<1>3. KnownNode'
  BY <1>1, <1>2 DEF IInv, KnownNode, live
<1>4. NoGhost'
  <2> SUFFICES ASSUME NEW n \in Nodes, n \in connected'
               PROVE  \E t \in Streams : live(t)' /\ stream'[t].node = n
    BY DEF NoGhost, IsConnected
  <2>1. n # NoId /\ n # Nil /\ n \in connected /\ n # stream[s].node
    BY ServerAssumption DEF IInv, TypeOK, StreamClosed
  <2>2. PICK t \in Streams : live(t) /\ stream[t].node = n
    BY <2>1 DEF IInv, NoGhost, IsConnected
  <2> QED BY <1>2, <2>1, <2>2 DEF live
<1> QED
  BY <1>2, <1>3, <1>4 DEF IInv

\* Steps that keep a stream live and its node known.
LEMMA KeptIInv ==
  ASSUME IInv, TypeOK', connected' = connected,
         \A t \in Streams : live(t) => /\ live(t)' /\ stream'[t].node = stream[t].node
                                       /\ stream'[t].envoy = stream[t].envoy,
         \A t \in Streams : ~ live(t) => (live(t)' => stream'[t].node = Nil)
  PROVE  IInv'
BY DEF IInv, KnownNode, NoGhost, IsConnected

\* SetSnapshot stores the version and answers some of the watches.
LEMMA SetSnapshotPublishes ==
  ASSUME NEW n, NEW v, SetSnapshot(n, v)
  PROVE  /\ \E a \in SUBSET waiting(n, v) : publish(n, v, a)
         /\ snapshots' = [snapshots EXCEPT ![n] = v] /\ held' = held /\ connected' = connected
         /\ last' = [last EXCEPT ![n] = v] /\ failed' \subseteq failed \cup {n}
<1> DEFINE w == waiting(n, v)
<1>1. \/ publish(n, v, w) /\ failed' = failed \ {n}
      \/ \E a \in SUBSET w : publish(n, v, a) /\ failed' = failed \cup {n}
  BY Zenon DEF SetSnapshot
<1>2. PICK a \in SUBSET w : publish(n, v, a) /\ failed' \subseteq failed \cup {n}
  <2> HIDE DEF w
  <2> QED BY <1>1
<1>3. /\ snapshots' = [snapshots EXCEPT ![n] = v] /\ held' = held /\ connected' = connected
  BY <1>2, Zenon DEF publish
<1> QED BY <1>2, <1>3, Zenon DEF SetSnapshot

\* Every step preserves the invariant.
LEMMA NextIInv == IInv /\ [Next]_vars => IInv'
<1> SUFFICES ASSUME IInv, [Next]_vars PROVE IInv'
  OBVIOUS
<1>1. ASSUME NEW s \in Streams, NEW e \in Envoys, Open(s, e) PROVE IInv'
  <2> DEFINE x == [at |-> "request", envoy |-> e, version |-> held[e], node |-> Nil, left |-> FALSE]
  <2>1. IsStream(x)
    BY DEF IInv, TypeOK, IsStream, Live
  <2>2. /\ stream'[s] = x /\ (\A t \in Streams \ {s} : stream'[t] = stream[t]) /\ TypeOK'
    BY <1>1, <2>1, OneStream DEF Open, IInv, TypeOK
  <2> QED
    BY <1>1, <2>2, KeptIInv DEF Open, live, Live
<1>2. ASSUME NEW s \in Streams, StreamRequest(s) PROVE IInv'
  <2> DEFINE n == NodeOf[stream[s].envoy]
  <2>1. stream[s].envoy \in Envoys /\ n \in Nodes /\ IsStream(stream[s]) /\ live(s)
    BY <1>2 DEF IInv, TypeOK, IsStream, StreamRequest, Live, Nodes, live
  <2> DEFINE x == [stream[s] EXCEPT !.at = "requested", !.node = n]
  <2>2. /\ IsStream(x) /\ x.at = "requested" /\ x.node = n /\ x.envoy = stream[s].envoy
        /\ stream' = [stream EXCEPT ![s] = x]
    BY <1>2, <2>1, Zenon DEF IsStream, Live, StreamRequest, IInv, TypeOK
  <2> HIDE DEF x
  <2>3. /\ stream'[s] = x /\ (\A t \in Streams \ {s} : stream'[t] = stream[t]) /\ TypeOK'
    BY <1>2, <2>1, <2>2, OneStream DEF StreamRequest, IInv, TypeOK
  <2>4. KnownNode'
    BY <2>2, <2>3 DEF IInv, KnownNode, live
  <2>5. NoGhost'
    <3> SUFFICES ASSUME NEW m \in Nodes, m \in connected'
                 PROVE  \E t \in Streams : live(t)' /\ stream'[t].node = m
      BY DEF NoGhost, IsConnected
    <3>1. CASE m = n
      BY <2>2, <2>3, <3>1 DEF live, Live
    <3>2. CASE m # n
      <4>1. PICK t \in Streams : live(t) /\ stream[t].node = m
        BY <1>2, <3>2 DEF StreamRequest, IInv, NoGhost, IsConnected
      <4>2. t # s
        BY <3>2, <4>1, ServerAssumption DEF IInv, KnownNode
      <4> QED
        BY <2>3, <4>1, <4>2 DEF live
    <3> QED
      BY <3>1, <3>2
  <2> QED
    BY <2>3, <2>4, <2>5 DEF IInv
<1>3. ASSUME NEW s \in Streams, CreateWatch(s) \/ Receive(s) \/ Leave(s) PROVE IInv'
  <2>1. IsStream(stream[s]) /\ live(s)
    BY <1>3 DEF IInv, TypeOK, CreateWatch, Receive, Leave, live, Live
  <2>2. PICK x : /\ IsStream(x) /\ stream' = [stream EXCEPT ![s] = x] /\ x.at \in Live
                 /\ x.node = stream[s].node /\ x.envoy = stream[s].envoy
    <3>1. CASE CreateWatch(s)
      <4> DEFINE v == snapshots[stream[s].node]
                 y == [stream[s] EXCEPT !.at = "watch"]
                 z == [stream[s] EXCEPT !.at = "response", !.version = v]
      <4>1. v \in Nat \cup {Nil}
        BY <2>1, <3>1 DEF IInv, TypeOK, IsStream, CreateWatch
      <4>2. IsStream(y) /\ y.at \in Live /\ y.node = stream[s].node /\ y.envoy = stream[s].envoy
        BY <2>1, <3>1 DEF IsStream, Live, CreateWatch
      <4>3. IsStream(z) /\ z.at \in Live /\ z.node = stream[s].node /\ z.envoy = stream[s].envoy
        BY <2>1, <3>1, <4>1, Zenon DEF IsStream, Live, CreateWatch
      <4>4. stream' = [stream EXCEPT ![s] = y] \/ stream' = [stream EXCEPT ![s] = z]
        BY <3>1, Zenon DEF CreateWatch
      <4> QED
        BY <4>2, <4>3, <4>4, Zenon
    <3>2. CASE Receive(s)
      <4> DEFINE v == held'[stream[s].envoy]
                 y == [stream[s] EXCEPT !.at = "request", !.version = v]
      <4>1. v \in Nat \cup {Nil}
        BY <2>1, <3>2 DEF IInv, TypeOK, IsStream, Receive, Live
      <4>2. IsStream(y) /\ y.at \in Live /\ y.node = stream[s].node /\ y.envoy = stream[s].envoy
        BY <2>1, <3>2, <4>1, Zenon DEF IsStream, Live, Receive
      <4>3. stream' = [stream EXCEPT ![s] = y]
        BY <2>1, <3>2, Zenon DEF Receive, IInv, TypeOK, IsStream
      <4> QED
        BY <4>2, <4>3, Zenon
    <3>3. CASE Leave(s)
      <4> DEFINE y == [stream[s] EXCEPT !.left = TRUE]
      <4>1. IsStream(y) /\ y.at \in Live /\ y.node = stream[s].node /\ y.envoy = stream[s].envoy
        BY <2>1, Zenon DEF IsStream, Live, live
      <4>2. stream' = [stream EXCEPT ![s] = y]
        BY <3>3 DEF Leave
      <4> QED
        BY <4>1, <4>2, Zenon
    <3> QED
      BY <1>3, <3>1, <3>2, <3>3
  <2>3. held' \in [Envoys -> Nat \cup {Nil}]
    BY <1>3, <2>1 DEF IInv, TypeOK, IsStream, CreateWatch, Receive, Leave
  <2>4. /\ stream'[s] = x /\ (\A t \in Streams \ {s} : stream'[t] = stream[t]) /\ TypeOK'
    BY <1>3, <2>2, <2>3, OneStream DEF IInv, TypeOK, CreateWatch, Receive, Leave
  <2> QED
    BY <1>3, <2>1, <2>2, <2>4, KeptIInv DEF live, CreateWatch, Receive, Leave
<1>4. ASSUME NEW n \in Nodes, NEW v \in 1..MaxVersion[n], SetSnapshot(n, v) PROVE IInv'
  <2>1. v \in Nat
    BY ServerAssumption
  <2>4. PICK a \in SUBSET waiting(n, v) : publish(n, v, a)
    BY <1>4, SetSnapshotPublishes
  <2>5. /\ snapshots' = [snapshots EXCEPT ![n] = v] /\ held' = held /\ connected' = connected
        /\ last' = [last EXCEPT ![n] = v] /\ failed' \subseteq failed \cup {n}
    BY <1>4, SetSnapshotPublishes
  <2>2. ASSUME NEW t \in Streams
        PROVE  /\ IsStream(stream'[t]) /\ stream'[t].node = stream[t].node
               /\ stream'[t].envoy = stream[t].envoy
               /\ (stream'[t].at \in Live <=> stream[t].at \in Live)
    <3> DEFINE y == [stream[t] EXCEPT !.at = "response", !.version = v]
    <3>1. IsStream(stream[t])
      BY DEF IInv, TypeOK
    <3>2. CASE stream'[t] = stream[t]
      BY <3>1, <3>2
    <3>3. CASE stream[t].at = "watch" /\ stream'[t] = y
      BY <2>1, <3>1, <3>3, Zenon DEF IsStream, Live
    <3> QED
      BY <2>4, <3>2, <3>3, Zenon DEF publish, waiting
  <2>6. DOMAIN stream' = Streams
    BY <2>4, Zenon DEF publish
  <2>3. TypeOK'
    BY <2>1, <2>2, <2>5, <2>6 DEF IInv, TypeOK
  <2> QED
    BY <2>2, <2>3, <2>5, KeptIInv, Zenon DEF live
<1>5. CASE Restart
  <2>1. IsStream(Unused) /\ Unused.at \notin Live
    BY DEF IsStream, Unused, Live
  <2>2. \A t \in Streams : IsStream(stream'[t]) /\ stream'[t].at \notin Live
    BY <1>5, <2>1 DEF Restart, live, IInv, TypeOK
  <2>3. TypeOK'
    BY <1>5, <2>2 DEF Restart, IInv, TypeOK
  <2> QED
    BY <1>5, <2>2, <2>3 DEF Restart, IInv, KnownNode, NoGhost, IsConnected, live
<1>6. CASE UNCHANGED vars
  BY <1>6 DEF vars, IInv, TypeOK, KnownNode, NoGhost, IsConnected, live
<1> QED
  BY <1>1, <1>2, <1>3, <1>4, <1>5, <1>6, ClosedIInv DEF Next, Serve

\* IsConnected reports no node whose streams are all gone, for any number of
\* replicas that share a node and any interleaving of the stream callbacks.
THEOREM NoGhostConnection == Spec => []NoGhost
<1>1. IInv => NoGhost
  BY DEF IInv
<1> QED
  BY <1>1, InitIInv, NextIInv, PTL DEF Spec

\* The type invariant holds: in particular the callbacks only ever store node
\* identifiers.
THEOREM TypeCorrect == Spec => []TypeOK
<1>1. IInv => TypeOK
  BY DEF IInv
<1> QED
  BY <1>1, InitIInv, NextIInv, PTL DEF Spec

-----------------------------------------------------------------------------
(***************************************************************************)
(* The refinement.  An Envoy takes a later snapshot because it has one     *)
(* stream it still listens to, whose request names the snapshot it holds   *)
(* and whose response carries a later one; and because the cache has the   *)
(* last snapshot or none.                                                  *)
(***************************************************************************)
current(x) == x.at \in Live /\ ~x.left

Follows(x, h, l) ==
  /\ x.at # "response" => x.version = h[x.envoy]
  /\ x.at = "response" => /\ x.version \in Nat /\ 1 <= x.version
                          /\ x.version <= l[NodeOf[x.envoy]]
                          /\ h[x.envoy] # Nil => h[x.envoy] < x.version

CachedLast == \A n \in Nodes : snapshots[n] # Nil => snapshots[n] = last[n] /\ 1 <= last[n]

HeldPublished == \A e \in Envoys : held[e] # Nil => held[e] <= last[NodeOf[e]]

OneCurrent ==
  \A s, t \in Streams :
    current(stream[s]) /\ current(stream[t]) /\ stream[s].envoy = stream[t].envoy => s = t

AllFollow == \A s \in Streams : current(stream[s]) => Follows(stream[s], held, last)

DInv == IInv /\ CachedLast /\ HeldPublished /\ OneCurrent /\ AllFollow

\* Nothing is published, held or streamed at first.
LEMMA InitDInv == Init => DInv /\ D!Init
<1> SUFFICES ASSUME Init PROVE DInv /\ D!Init
  OBVIOUS
<1>1. IInv
  BY InitIInv
<1>2. \A s \in Streams : ~ current(stream[s])
  BY DEF Init, current, Unused, Live
<1>3. CachedLast /\ HeldPublished
  BY DEF Init, CachedLast, HeldPublished
<1>4. D!Init
  BY DEF Init, D!Init, Nodes
<1> QED
  BY <1>1, <1>2, <1>3, <1>4 DEF DInv, OneCurrent, AllFollow

\* A step that changes one stream and neither the cache nor what is held.
LEMMA OneChange ==
  ASSUME DInv, IInv', NEW s \in Streams, NEW x, IsStream(x),
         stream' = [stream EXCEPT ![s] = x],
         snapshots' = snapshots, held' = held, last' = last,
         current(x) => /\ Follows(x, held, last)
                       /\ \A t \in Streams \ {s} : current(stream[t]) => stream[t].envoy # x.envoy
  PROVE  DInv' /\ UNCHANGED <<last, held>>
<1>1. stream'[s] = x /\ \A t \in Streams \ {s} : stream'[t] = stream[t]
  BY OneStream, Zenon DEF DInv, IInv
<1>2. CachedLast' /\ HeldPublished'
  BY DEF DInv, CachedLast, HeldPublished
<1>3. OneCurrent'
  BY <1>1 DEF DInv, OneCurrent
<1>4. AllFollow'
  BY <1>1 DEF DInv, AllFollow
<1> QED
  BY <1>2, <1>3, <1>4 DEF DInv

\* A step of a stream that its Envoy still listens to, which stays its Envoy's.
LEMMA SameEnvoy ==
  ASSUME DInv, IInv', NEW s \in Streams, NEW x, IsStream(x),
         stream' = [stream EXCEPT ![s] = x],
         snapshots' = snapshots, held' = held, last' = last,
         live(s), x.envoy = stream[s].envoy, x.left = stream[s].left,
         current(stream[s]) => Follows(x, held, last)
  PROVE  DInv' /\ UNCHANGED <<last, held>>
<1>1. current(x) => current(stream[s])
  BY DEF current, live
<1>2. \A t \in Streams \ {s} : current(x) /\ current(stream[t]) => stream[t].envoy # x.envoy
  BY <1>1 DEF DInv, OneCurrent
<1> QED
  BY <1>1, <1>2, OneChange, Zenon

\* Every step keeps the invariant, and is a step of Delivery or changes neither
\* what is published nor what is held.
LEMMA NextDInv == DInv /\ [Next]_vars => DInv' /\ [D!Next]_<<last, held>>
<1> SUFFICES ASSUME DInv, [Next]_vars PROVE DInv' /\ [D!Next]_<<last, held>>
  OBVIOUS
<1>0. IInv /\ IInv' /\ TypeOK
  BY NextIInv DEF DInv, IInv
<1>1. ASSUME NEW s \in Streams, NEW e \in Envoys, Open(s, e) PROVE DInv' /\ UNCHANGED <<last, held>>
  <2> DEFINE x == [at |-> "request", envoy |-> e, version |-> held[e], node |-> Nil, left |-> FALSE]
  <2>1. IsStream(x) /\ x.envoy = e
    BY <1>0 DEF TypeOK, IsStream, Live
  <2>2. Follows(x, held, last)
    BY DEF Follows
  <2>3. \A t \in Streams \ {s} : current(stream[t]) => stream[t].envoy # x.envoy
    BY <1>1 DEF Open, current, live
  <2>4. /\ stream' = [stream EXCEPT ![s] = x]
        /\ snapshots' = snapshots /\ held' = held /\ last' = last
    BY <1>1 DEF Open
  <2> HIDE DEF x
  <2> QED
    BY <1>0, <2>1, <2>2, <2>3, <2>4, OneChange, Zenon
<1>2. ASSUME NEW s \in Streams, StreamRequest(s) PROVE DInv' /\ UNCHANGED <<last, held>>
  <2> DEFINE n == NodeOf[stream[s].envoy]
             x == [stream[s] EXCEPT !.at = "requested", !.node = n]
  <2>1. stream[s].envoy \in Envoys /\ n \in Nodes /\ IsStream(stream[s]) /\ live(s)
    BY <1>0, <1>2 DEF TypeOK, IsStream, StreamRequest, Live, Nodes, live
  <2>2. /\ IsStream(x) /\ x.at = "requested" /\ x.envoy = stream[s].envoy
        /\ x.left = stream[s].left /\ x.version = stream[s].version
    BY <2>1, Zenon DEF IsStream, Live
  <2>3. /\ stream' = [stream EXCEPT ![s] = x]
        /\ snapshots' = snapshots /\ held' = held /\ last' = last
    BY <1>2, <2>1, Zenon DEF StreamRequest, IsStream
  <2> HIDE DEF x
  <2>4. current(stream[s]) => Follows(x, held, last)
    BY <1>2, <2>2 DEF DInv, AllFollow, Follows, StreamRequest
  <2> QED
    BY <1>0, <2>1, <2>2, <2>3, <2>4, SameEnvoy, Zenon
<1>3. ASSUME NEW s \in Streams, CreateWatch(s) PROVE DInv' /\ UNCHANGED <<last, held>>
  <2> DEFINE v == snapshots[stream[s].node]
             e == stream[s].envoy
             y == [stream[s] EXCEPT !.at = "watch"]
             z == [stream[s] EXCEPT !.at = "response", !.version = v]
  <2>1. /\ IsStream(stream[s]) /\ live(s) /\ e \in Envoys /\ stream[s].node = NodeOf[e]
        /\ stream[s].node \in Nodes /\ v \in Nat \cup {Nil}
    <3>1. IsStream(stream[s]) /\ live(s) /\ e \in Envoys /\ stream[s].node \in Nodes
      BY <1>0, <1>3 DEF TypeOK, IsStream, CreateWatch, Live, live
    <3>2. stream[s].node = NodeOf[e]
      BY <3>1, <1>0, ServerAssumption DEF IInv, KnownNode
    <3> QED
      BY <3>1, <3>2, <1>0 DEF TypeOK
  <2>2. snapshots' = snapshots /\ held' = held /\ last' = last
    BY <1>3 DEF CreateWatch
  <2>3. CASE v \in {Nil, stream[s].version}
    <3>1. IsStream(y) /\ y.at = "watch" /\ y.envoy = e /\ y.left = stream[s].left
          /\ y.version = stream[s].version
      BY <2>1 DEF IsStream, Live
    <3>2. stream' = [stream EXCEPT ![s] = y]
      BY <1>3, <2>3 DEF CreateWatch
    <3> HIDE DEF y
    <3>3. current(stream[s]) => Follows(y, held, last)
      BY <1>3, <3>1 DEF DInv, AllFollow, Follows, CreateWatch
    <3> QED
      BY <1>0, <2>1, <2>2, <3>1, <3>2, <3>3, SameEnvoy, Zenon
  <2>4. CASE v \notin {Nil, stream[s].version}
    <3>1. IsStream(z) /\ z.at = "response" /\ z.envoy = e /\ z.left = stream[s].left /\ z.version = v
      BY <2>1, Zenon DEF IsStream, Live
    <3>2. stream' = [stream EXCEPT ![s] = z]
      BY <1>3, <2>4 DEF CreateWatch
    <3> HIDE DEF z
    <3>3. ASSUME current(stream[s]) PROVE Follows(z, held, last)
      <4>1. stream[s].version = held[e]
        BY <1>3, <3>3 DEF DInv, AllFollow, Follows, CreateWatch
      <4>2. v \in Nat /\ v = last[NodeOf[e]] /\ 1 <= v
        BY <2>1, <2>4 DEF DInv, CachedLast
      <4>3. held[e] # Nil => held[e] \in Nat /\ held[e] <= v /\ held[e] # v
        BY <1>0, <2>1, <2>4, <4>1, <4>2 DEF TypeOK, DInv, HeldPublished
      <4>4. held[e] # Nil => held[e] < v
        <5> DEFINE h == held[e]
        <5> HIDE DEF h, v
        <5> QED BY <4>2, <4>3 DEF h
      <4> QED
        BY <3>1, <4>2, <4>4 DEF Follows
    <3> QED
      BY <1>0, <2>1, <2>2, <3>1, <3>2, <3>3, SameEnvoy, Zenon
  <2> QED
    BY <2>3, <2>4
<1>4. ASSUME NEW s \in Streams, StreamClosed(s) PROVE DInv' /\ UNCHANGED <<last, held>>
  <2>1. IsStream(Unused) /\ ~ current(Unused)
    BY DEF IsStream, Unused, Live, current
  <2>2. /\ stream' = [stream EXCEPT ![s] = Unused]
        /\ snapshots' = snapshots /\ held' = held /\ last' = last
    BY <1>4 DEF StreamClosed
  <2> QED
    BY <1>0, <2>1, <2>2, OneChange, Zenon
<1>5. ASSUME NEW s \in Streams, Receive(s) PROVE DInv' /\ [D!Next]_<<last, held>>
  <2> DEFINE e == stream[s].envoy
             v == stream[s].version
             x == [stream[s] EXCEPT !.at = "request", !.version = held'[e]]
  <2>1. /\ IsStream(stream[s]) /\ current(stream[s]) /\ e \in Envoys
        /\ held \in [Envoys -> Nat \cup {Nil}]
    BY <1>0, <1>5 DEF TypeOK, IsStream, Receive, Live, current
  <2>2. /\ v \in Nat /\ 1 <= v /\ v <= last[NodeOf[e]] /\ (held[e] # Nil => held[e] < v)
    BY <1>5, <2>1 DEF DInv, AllFollow, Follows, Receive
  <2>3. /\ snapshots' = snapshots /\ last' = last /\ stream' = [stream EXCEPT ![s] = x]
        /\ held' = held \/ (v \notin Rejected /\ held' = [held EXCEPT ![e] = v])
    <3>1. held' = held \/ (v \notin Rejected /\ held' = [held EXCEPT ![e] = v])
      BY <1>5 DEF Receive
    <3>2. stream' = [stream EXCEPT ![s] = x]
      BY <1>0, <1>5, <2>1, Zenon DEF Receive, TypeOK, IsStream
    <3> QED
      BY <1>5, <3>1, <3>2, Zenon DEF Receive
  <2>4. /\ held' \in [Envoys -> Nat \cup {Nil}] /\ held'[e] \in {held[e], v}
        /\ \A d \in Envoys \ {e} : held'[d] = held[d]
    BY <2>1, <2>2, <2>3
  <2>5. /\ IsStream(x) /\ x.at = "request" /\ x.envoy = e /\ x.version = held'[e]
    BY <2>1, <2>4, Zenon DEF IsStream, Live
  <2>6. stream'[s] = x /\ \A t \in Streams \ {s} : stream'[t] = stream[t]
    BY <1>0, <2>3, <2>5, OneStream, Zenon
  <2> HIDE DEF x, v
  <2>7. CachedLast' /\ HeldPublished'
    BY <2>1, <2>2, <2>3, <2>4 DEF DInv, CachedLast, HeldPublished
  <2>8. \A t \in Streams \ {s} : current(stream[t]) => stream[t].envoy # e
    BY <2>1 DEF DInv, OneCurrent
  <2>9. OneCurrent'
    BY <2>5, <2>6, <2>8 DEF DInv, OneCurrent
  <2>10. AllFollow'
    <3> SUFFICES ASSUME NEW t \in Streams, current(stream'[t])
                 PROVE  Follows(stream'[t], held', last')
      BY DEF AllFollow
    <3>1. CASE t = s
      BY <2>5, <2>6, <3>1 DEF Follows
    <3>2. CASE t # s
      <4>1. /\ stream'[t] = stream[t] /\ Follows(stream[t], held, last)
            /\ held'[stream[t].envoy] = held[stream[t].envoy]
        <5>1. stream'[t] = stream[t] /\ Follows(stream[t], held, last) /\ stream[t].envoy # e
          BY <2>6, <2>8, <3>2 DEF DInv, AllFollow
        <5>2. stream[t].envoy \in Envoys
          BY <1>0, <5>1 DEF TypeOK, IsStream, current
        <5> QED
          BY <2>4, <5>1, <5>2
      <4> QED
        BY <2>3, <4>1 DEF Follows
    <3> QED
      BY <3>1, <3>2
  <2>11. [D!Next]_<<last, held>>
    <3>1. CASE held' = held
      BY <2>3, <3>1
    <3>2. CASE v \notin Rejected /\ held' = [held EXCEPT ![e] = v]
      <4>1. last[NodeOf[e]] \in Nat
        BY <1>0, <2>1 DEF TypeOK, Nodes
      <4>2. v \in D!later(e)
        BY <2>2, <3>2, <4>1 DEF D!later
      <4>3. D!Take(e)
        BY <2>3, <3>2, <4>2, Zenon DEF D!Take
      <4> QED
        BY <2>1, <4>3 DEF D!Next
    <3> QED
      BY <2>3, <3>1, <3>2
  <2> QED
    BY <1>0, <2>7, <2>9, <2>10, <2>11 DEF DInv
<1>6. ASSUME NEW s \in Streams, Leave(s) PROVE DInv' /\ [D!Next]_<<last, held>>
  <2> DEFINE e == stream[s].envoy
             x == [stream[s] EXCEPT !.left = TRUE]
  <2>1. /\ IsStream(stream[s]) /\ current(stream[s]) /\ e \in Envoys
        /\ held \in [Envoys -> Nat \cup {Nil}]
    BY <1>0, <1>6 DEF TypeOK, IsStream, Leave, current, live
  <2>2. /\ snapshots' = snapshots /\ last' = last /\ stream' = [stream EXCEPT ![s] = x]
        /\ held' = held \/ held' = [held EXCEPT ![e] = Nil]
    BY <1>6 DEF Leave
  <2>3. IsStream(x) /\ ~ current(x)
    BY <2>1, Zenon DEF IsStream, Live, current
  <2>4. stream'[s] = x /\ \A t \in Streams \ {s} : stream'[t] = stream[t]
    BY <1>0, <2>2, <2>3, OneStream, Zenon
  <2> HIDE DEF x
  <2>5. held'[e] \in {held[e], Nil} /\ \A d \in Envoys \ {e} : held'[d] = held[d]
    BY <2>1, <2>2
  <2>6. CachedLast' /\ HeldPublished'
    BY <2>1, <2>2, <2>5 DEF DInv, CachedLast, HeldPublished
  <2>7. OneCurrent'
    BY <2>3, <2>4 DEF DInv, OneCurrent
  <2>8. AllFollow'
    <3> SUFFICES ASSUME NEW t \in Streams, current(stream'[t])
                 PROVE  Follows(stream'[t], held', last')
      BY DEF AllFollow
    <3>1. stream'[t] = stream[t] /\ t # s /\ Follows(stream[t], held, last)
      BY <2>3, <2>4 DEF DInv, AllFollow
    <3>2. stream[t].envoy # e /\ stream[t].envoy \in Envoys
      BY <1>0, <2>1, <3>1 DEF DInv, OneCurrent, TypeOK, IsStream, current
    <3> QED
      BY <2>2, <2>5, <3>1, <3>2 DEF Follows
  <2>9. [D!Next]_<<last, held>>
    BY <2>1, <2>2 DEF D!Next, D!Forget
  <2> QED
    BY <1>0, <2>6, <2>7, <2>8, <2>9 DEF DInv
<1>7. ASSUME NEW n \in Nodes, NEW v \in 1..MaxVersion[n], SetSnapshot(n, v)
      PROVE  DInv' /\ [D!Next]_<<last, held>>
  <2>1. v \in Nat /\ 1 <= v /\ last \in [Nodes -> Nat] /\ held \in [Envoys -> Nat \cup {Nil}]
    BY <1>0, ServerAssumption DEF TypeOK
  <2>0. PICK a \in SUBSET waiting(n, v) : publish(n, v, a)
    BY <1>7, SetSnapshotPublishes
  <2>2. /\ last' = [last EXCEPT ![n] = v] /\ snapshots' = [snapshots EXCEPT ![n] = v]
        /\ held' = held /\ (v = last[n] \/ v = last[n] + 1)
    BY <1>7, SetSnapshotPublishes, Zenon DEF SetSnapshot
  <2>3. last'[n] = v /\ \A m \in Nodes : last[m] <= last'[m] /\ last'[m] \in Nat
    BY <2>1, <2>2
  <2>4. CachedLast'
    BY <1>0, <2>1, <2>2 DEF DInv, CachedLast, TypeOK
  <2>5. HeldPublished'
    <3> SUFFICES ASSUME NEW e \in Envoys, held[e] # Nil PROVE held[e] <= last'[NodeOf[e]]
      BY <2>2 DEF HeldPublished
    <3>1. held[e] \in Nat /\ NodeOf[e] \in Nodes /\ last[NodeOf[e]] \in Nat /\ held[e] <= last[NodeOf[e]]
      BY <2>1 DEF Nodes, DInv, HeldPublished
    <3> QED
      BY <2>3, <3>1
  <2>6. ASSUME NEW t \in Streams
        PROVE  \/ stream'[t] = stream[t]
               \/ /\ stream[t].at = "watch" /\ stream[t].node = n /\ stream[t].version # v
                  /\ stream'[t] = [stream[t] EXCEPT !.at = "response", !.version = v]
    BY <2>0, Zenon DEF publish, waiting
  <2>7. ASSUME NEW t \in Streams
        PROVE  stream'[t].envoy = stream[t].envoy /\ (current(stream'[t]) <=> current(stream[t]))
    <3> DEFINE y == [stream[t] EXCEPT !.at = "response", !.version = v]
    <3>1. IsStream(stream[t])
      BY <1>0 DEF TypeOK
    <3>2. CASE stream'[t] = stream[t]
      BY <3>2
    <3>3. CASE stream[t].at = "watch" /\ stream'[t] = y
      <4>1. y.envoy = stream[t].envoy /\ y.left = stream[t].left /\ y.at = "response"
        BY <3>1 DEF IsStream
      <4> QED
        BY <3>3, <4>1 DEF current, Live
    <3> QED
      BY <2>6, <3>2, <3>3, Zenon
  <2>8. OneCurrent'
    BY <2>7 DEF DInv, OneCurrent
  <2>9. AllFollow'
    <3> SUFFICES ASSUME NEW t \in Streams, current(stream'[t])
                 PROVE  Follows(stream'[t], held, last')
      BY <2>2, Zenon DEF AllFollow
    <3> DEFINE e == stream[t].envoy
    <3>1. /\ Follows(stream[t], held, last) /\ e \in Envoys /\ NodeOf[e] \in Nodes
          /\ IsStream(stream[t]) /\ live(t)
      BY <1>0, <2>7 DEF DInv, AllFollow, TypeOK, IsStream, current, Nodes, live
    <3>2. CASE stream'[t] = stream[t]
      <4>1. last[NodeOf[e]] \in Nat /\ last'[NodeOf[e]] \in Nat /\ last[NodeOf[e]] <= last'[NodeOf[e]]
        BY <2>1, <2>3, <3>1
      <4> QED
        BY <3>1, <3>2, <4>1 DEF Follows
    <3>3. CASE /\ stream[t].at = "watch" /\ stream[t].node = n /\ stream[t].version # v
               /\ stream'[t] = [stream[t] EXCEPT !.at = "response", !.version = v]
      <4>1. /\ stream'[t].at = "response" /\ stream'[t].version = v /\ stream'[t].envoy = e
            /\ stream[t].version = held[e]
        BY <3>1, <3>3 DEF IsStream, Follows
      <4>2. NodeOf[e] = n
        BY <1>0, <3>1, <3>3, ServerAssumption DEF IInv, KnownNode
      <4>3. held[e] # Nil => held[e] \in Nat /\ held[e] <= last[n] /\ held[e] # v
        BY <2>1, <3>1, <3>3, <4>1, <4>2 DEF DInv, HeldPublished
      <4>4. held[e] # Nil => held[e] < v
        <5> DEFINE h == held[e]
                   l == last[n]
        <5>1. l \in Nat
          BY <2>1
        <5> HIDE DEF h, l
        <5> QED BY <2>1, <2>2, <4>3, <5>1 DEF h, l
      <4> QED
        BY <2>1, <2>3, <4>1, <4>2, <4>4 DEF Follows
    <3> QED
      BY <2>6, <3>2, <3>3, Zenon
  <2>10. [D!Next]_<<last, held>>
    <3>1. CASE v = last[n]
      BY <2>1, <2>2, <3>1
    <3>2. CASE v = last[n] + 1
      BY <2>1, <2>2, <3>2, Zenon DEF D!Next, D!Publish
    <3> QED
      BY <2>2, <3>1, <3>2
  <2> QED
    BY <1>0, <2>4, <2>5, <2>8, <2>9, <2>10 DEF DInv
<1>8. CASE Restart
  <2>1. \A t \in Streams : ~ current(stream'[t])
    BY <1>8 DEF Restart, live, current, Unused, Live
  <2>2. snapshots' = [n \in Nodes |-> Nil] /\ held' = held /\ last' = last
    BY <1>8 DEF Restart
  <2>3. CachedLast' /\ HeldPublished'
    BY <2>2 DEF DInv, CachedLast, HeldPublished
  <2> QED
    BY <1>0, <2>1, <2>2, <2>3 DEF DInv, OneCurrent, AllFollow
<1>9. CASE UNCHANGED vars
  <2>1. snapshots' = snapshots /\ stream' = stream /\ held' = held /\ last' = last
    BY <1>9 DEF vars
  <2> QED
    BY <1>0, <2>1 DEF DInv, CachedLast, HeldPublished, OneCurrent, AllFollow
<1> QED
  BY <1>1, <1>2, <1>3, <1>4, <1>5, <1>6, <1>7, <1>8, <1>9 DEF Next, Serve

\* The refinement: what the streams do is what Delivery allows, for any number
\* of Envoys, streams and snapshots.
THEOREM StreamsDeliver == Spec => DeliversInOrder
<1>1. Init => DInv /\ D!Init
  BY InitDInv
<1>2. DInv /\ [Next]_vars => DInv' /\ [D!Next]_<<last, held>>
  BY NextDInv
<1> QED
  BY <1>1, <1>2, PTL DEF Spec, DeliversInOrder, D!Spec

-----------------------------------------------------------------------------
(***************************************************************************)
(* Waiting streams.  The argument does not depend on what a version is:    *)
(* an Envoy has one stream it still listens to, whose request names the    *)
(* version it holds, and SetSnapshot answers every watch that waits with   *)
(* another one.                                                            *)
(***************************************************************************)
Shaped(x) ==
  /\ DOMAIN x = {"at", "envoy", "version", "node", "left"}
  /\ x.at \in Live => x.envoy \in Envoys
  /\ x.at \in {"requested", "watch", "response"} => x.node = NodeOf[x.envoy]

Waits(x, h, c, F) ==
  /\ x.at # "response" => x.version = h[x.envoy]
  /\ x.at = "watch" /\ x.node \notin F => c[x.node] \in {Nil, x.version}

WInv(F) ==
  /\ DOMAIN stream = Streams /\ DOMAIN held = Envoys /\ DOMAIN snapshots = Nodes
  /\ \A s \in Streams : Shaped(stream[s])
  /\ OneCurrent
  /\ \A s \in Streams : current(stream[s]) => Waits(stream[s], held, snapshots, F)

\* Setting fields of a stream record.
LEMMA SetFields ==
  ASSUME NEW x, DOMAIN x = {"at", "envoy", "version", "node", "left"}, NEW a, NEW v, NEW n
  PROVE  /\ LET y == [x EXCEPT !.at = a]
            IN  /\ DOMAIN y = DOMAIN x /\ y.at = a
                /\ y.envoy = x.envoy /\ y.version = x.version /\ y.node = x.node /\ y.left = x.left
         /\ LET y == [x EXCEPT !.at = a, !.version = v]
            IN  /\ DOMAIN y = DOMAIN x /\ y.at = a /\ y.version = v
                /\ y.envoy = x.envoy /\ y.node = x.node /\ y.left = x.left
         /\ LET y == [x EXCEPT !.at = a, !.node = n]
            IN  /\ DOMAIN y = DOMAIN x /\ y.at = a /\ y.node = n
                /\ y.envoy = x.envoy /\ y.version = x.version /\ y.left = x.left
         /\ LET y == [x EXCEPT !.left = TRUE]
            IN  /\ DOMAIN y = DOMAIN x /\ y.left = TRUE
                /\ y.at = x.at /\ y.envoy = x.envoy /\ y.version = x.version /\ y.node = x.node
OBVIOUS

\* Nobody waits at first.
LEMMA InitWInv == ASSUME NEW F, Init PROVE WInv(F)
<1>1. \A s \in Streams : stream[s] = Unused
  BY DEF Init
<1>2. Shaped(Unused) /\ ~current(Unused)
  BY DEF Shaped, Unused, Live, current
<1> QED BY <1>1, <1>2 DEF Init, WInv, OneCurrent

\* A step that changes one stream, and what is held by at most its Envoy.
LEMMA OneWaits ==
  ASSUME NEW F, WInv(F), NEW s \in Streams, NEW x, Shaped(x),
         stream' = [stream EXCEPT ![s] = x], snapshots' = snapshots, DOMAIN held' = Envoys,
         \/ held' = held
         \/ /\ current(stream[s]) /\ x.envoy = stream[s].envoy
            /\ \A e \in Envoys : e # x.envoy => held'[e] = held[e],
         current(x) => /\ Waits(x, held', snapshots, F)
                       /\ \A t \in Streams \ {s} : current(stream[t]) => stream[t].envoy # x.envoy
  PROVE  WInv(F)'
<1>1. stream'[s] = x /\ (\A t \in Streams \ {s} : stream'[t] = stream[t]) /\ DOMAIN stream' = Streams
  BY DEF WInv
<1>2. \A t \in Streams : Shaped(stream'[t])
  BY <1>1 DEF WInv
<1>3. OneCurrent'
  BY <1>1 DEF WInv, OneCurrent
<1>4. ASSUME NEW t \in Streams, current(stream'[t]) PROVE Waits(stream'[t], held', snapshots', F)
  <2>1. CASE t = s
    BY <1>1, <1>4, <2>1
  <2>2. CASE t # s
    <3>1. current(stream[t]) /\ stream'[t] = stream[t] /\ Waits(stream[t], held, snapshots, F)
      BY <1>1, <1>4, <2>2 DEF WInv
    <3>2. stream[t].envoy \in Envoys
      BY <3>1 DEF WInv, Shaped, current
    <3>3. held'[stream[t].envoy] = held[stream[t].envoy]
      BY <3>1, <3>2, <2>2 DEF WInv, OneCurrent
    <3> QED BY <3>1, <3>3 DEF Waits
  <2> QED BY <2>1, <2>2
<1> QED BY <1>1, <1>2, <1>3, <1>4 DEF WInv

\* The streams' own steps keep it.
LEMMA StreamsWait ==
  ASSUME NEW F, WInv(F), NEW s \in Streams,
         (\E e \in Envoys : Open(s, e)) \/ Serve(s) \/ Receive(s) \/ Leave(s)
  PROVE  WInv(F)'
<1> DEFINE o == stream[s]
<1>0. /\ DOMAIN o = {"at", "envoy", "version", "node", "left"}
      /\ DOMAIN held = Envoys /\ Shaped(o)
      /\ \A t \in Streams \ {s} : current(o) /\ current(stream[t]) => stream[t].envoy # o.envoy
  BY DEF WInv, Shaped, OneCurrent
<1>1. ASSUME NEW e \in Envoys, Open(s, e) PROVE WInv(F)'
  <2> DEFINE x == [at |-> "request", envoy |-> e, version |-> held[e], node |-> Nil, left |-> FALSE]
  <2>1. Shaped(x) /\ Waits(x, held', snapshots, F) /\ held' = held /\ snapshots' = snapshots
    BY <1>1 DEF Open, Shaped, Waits
  <2>2. \A t \in Streams : current(stream[t]) => stream[t].envoy # x.envoy
    BY <1>1 DEF Open, current, live
  <2>3. stream' = [stream EXCEPT ![s] = x]
    BY <1>1 DEF Open
  <2> HIDE DEF x
  <2> QED BY <1>0, <2>1, <2>2, <2>3, OneWaits, Zenon
<1>2. CASE StreamRequest(s)
  <2> DEFINE x == [o EXCEPT !.at = "requested", !.node = NodeOf[o.envoy]]
  <2>1. o.at = "request" /\ held' = held /\ snapshots' = snapshots
    BY <1>2 DEF StreamRequest
  <2>2. /\ DOMAIN x = DOMAIN o /\ x.at = "requested" /\ x.node = NodeOf[o.envoy]
        /\ x.envoy = o.envoy /\ x.version = o.version /\ x.left = o.left
    BY <1>0, SetFields
  <2>4. stream' = [stream EXCEPT ![s] = x]
    BY <1>2, Zenon DEF StreamRequest
  <2> HIDE DEF x
  <2>5. Shaped(x)
    BY <1>0, <2>1, <2>2 DEF Shaped, Live
  <2>3. current(x) => current(o) /\ Waits(x, held', snapshots, F) /\ x.envoy = o.envoy
    BY <2>1, <2>2 DEF current, Live, WInv, Waits
  <2> QED BY <1>0, <2>1, <2>3, <2>4, <2>5, OneWaits, Zenon
<1>3. CASE CreateWatch(s)
  <2> DEFINE v == snapshots[o.node]
             y == [o EXCEPT !.at = "watch"]
             z == [o EXCEPT !.at = "response", !.version = v]
  <2>1. o.at = "requested" /\ held' = held /\ snapshots' = snapshots
    BY <1>3 DEF CreateWatch
  <2>2. /\ DOMAIN y = DOMAIN o /\ y.at = "watch" /\ y.envoy = o.envoy /\ y.version = o.version
        /\ y.node = o.node /\ y.left = o.left
    BY <1>0, SetFields
  <2>3. /\ DOMAIN z = DOMAIN o /\ z.at = "response" /\ z.envoy = o.envoy /\ z.version = v
        /\ z.node = o.node /\ z.left = o.left
    BY <1>0, SetFields
  <2>4. \/ v \in {Nil, o.version} /\ stream' = [stream EXCEPT ![s] = y]
        \/ stream' = [stream EXCEPT ![s] = z]
    BY <1>3, Zenon DEF CreateWatch
  <2> HIDE DEF y, z
  <2>5. Shaped(y) /\ Shaped(z)
    BY <1>0, <2>1, <2>2, <2>3 DEF Shaped, Live
  <2>6. /\ current(y) => current(o) /\ y.envoy = o.envoy
        /\ current(z) => current(o) /\ z.envoy = o.envoy
    BY <2>1, <2>2, <2>3 DEF current, Live
  <2>7. current(z) => Waits(z, held', snapshots, F)
    BY <2>3 DEF Waits
  <2>8. v \in {Nil, o.version} /\ current(y) => Waits(y, held', snapshots, F)
    BY <2>1, <2>2, <2>6 DEF WInv, Waits
  <2> HIDE DEF v
  <2>9. CASE v \in {Nil, o.version} /\ stream' = [stream EXCEPT ![s] = y]
    BY <1>0, <2>1, <2>5, <2>6, <2>8, <2>9, OneWaits, Zenon
  <2>10. CASE stream' = [stream EXCEPT ![s] = z]
    BY <1>0, <2>1, <2>5, <2>6, <2>7, <2>10, OneWaits, Zenon
  <2> QED BY <2>4, <2>9, <2>10
<1>4. CASE StreamClosed(s)
  <2>1. Shaped(Unused) /\ ~current(Unused)
    BY DEF Shaped, Unused, Live, current
  <2> QED BY <1>0, <1>4, <2>1, OneWaits, Zenon DEF StreamClosed
<1>5. CASE Receive(s)
  <2> DEFINE x == [o EXCEPT !.at = "request", !.version = held'[o.envoy]]
  <2>1. o.at = "response" /\ current(o) /\ o.envoy \in Envoys /\ snapshots' = snapshots
    BY <1>0, <1>5 DEF Receive, current, Live, Shaped
  <2>2. DOMAIN held' = Envoys /\ \A e \in Envoys : e # o.envoy => held'[e] = held[e]
    BY <1>0, <1>5 DEF Receive
  <2>3. /\ DOMAIN x = DOMAIN o /\ x.at = "request" /\ x.envoy = o.envoy
        /\ x.version = held'[o.envoy] /\ x.node = o.node /\ x.left = o.left
    BY <1>0, SetFields
  <2>4. stream' = [stream EXCEPT ![s] = x]
    <3>1. stream' = [stream EXCEPT ![s].at = "request", ![s].version = held'[o.envoy]]
      BY <1>5 DEF Receive
    <3>2. DOMAIN stream = Streams
      BY DEF WInv
    <3> QED BY <3>1, <3>2, Zenon
  <2> HIDE DEF x
  <2>5. Shaped(x) /\ Waits(x, held', snapshots, F)
    BY <1>0, <2>1, <2>3 DEF Shaped, Waits
  <2> QED BY <1>0, <2>1, <2>2, <2>3, <2>4, <2>5, OneWaits, Zenon
<1>6. CASE Leave(s)
  <2> DEFINE x == [o EXCEPT !.left = TRUE]
  <2>1. current(o) /\ o.envoy \in Envoys /\ snapshots' = snapshots
    BY <1>0, <1>6 DEF Leave, current, live, Shaped
  <2>2. DOMAIN held' = Envoys /\ \A e \in Envoys : e # o.envoy => held'[e] = held[e]
    BY <1>0, <1>6 DEF Leave
  <2>3. /\ DOMAIN x = DOMAIN o /\ x.left = TRUE /\ x.at = o.at /\ x.envoy = o.envoy
        /\ x.version = o.version /\ x.node = o.node
    BY <1>0, SetFields
  <2>4. stream' = [stream EXCEPT ![s] = x]
    BY <1>6 DEF Leave
  <2> HIDE DEF x
  <2>5. Shaped(x) /\ ~current(x)
    BY <1>0, <2>3 DEF Shaped, current
  <2> QED BY <1>0, <2>1, <2>2, <2>3, <2>4, <2>5, OneWaits, Zenon
<1> QED BY <1>1, <1>2, <1>3, <1>4, <1>5, <1>6 DEF Serve

\* Publishing excuses its node, unless every watch that waits with another
\* version is answered; that settles it.
LEMMA PublishWaits ==
  ASSUME NEW F, NEW G, WInv(F), NEW n, NEW v, NEW a \in SUBSET waiting(n, v), publish(n, v, a),
         a = waiting(n, v) \/ n \in G, F \subseteq G \cup {n}
  PROVE  WInv(G)'
<1>1. DOMAIN stream' = Streams /\ held' = held /\ DOMAIN snapshots' = Nodes
  BY Zenon DEF publish, WInv
<1>2. ASSUME NEW t \in Streams
      PROVE  /\ Shaped(stream'[t]) /\ (current(stream'[t]) <=> current(stream[t]))
             /\ stream'[t].envoy = stream[t].envoy
             /\ current(stream'[t]) => Waits(stream'[t], held', snapshots', G)
  <2> DEFINE o == stream[t]
             y == [o EXCEPT !.at = "response", !.version = v]
  <2>1. Shaped(o) /\ (current(o) => Waits(o, held, snapshots, F))
    BY DEF WInv
  <2>2. CASE t \in a
    <3>1. stream'[t] = y /\ o.at = "watch" /\ o.node = n
      BY <2>2, Zenon DEF publish, waiting
    <3>2. /\ DOMAIN y = DOMAIN o /\ y.at = "response" /\ y.version = v
          /\ y.envoy = o.envoy /\ y.node = o.node /\ y.left = o.left
      BY <2>1, SetFields DEF Shaped
    <3> HIDE DEF y
    <3>3. Shaped(y) /\ (current(y) <=> current(o)) /\ Waits(y, held', snapshots', G)
      BY <2>1, <3>1, <3>2 DEF Shaped, current, Live, Waits
    <3> QED BY <3>1, <3>2, <3>3
  <2>3. CASE t \notin a
    <3>1. stream'[t] = o
      BY <2>3, Zenon DEF publish
    <3>2. ASSUME current(o), o.at = "watch", o.node \notin G PROVE snapshots'[o.node] \in {Nil, o.version}
      <4>1. o.node \in Nodes
        BY <2>1, <3>2 DEF Shaped, Nodes, Live
      <4>2. snapshots'[o.node] = IF o.node = n THEN v ELSE snapshots[o.node]
        BY <4>1, Zenon DEF publish, WInv
      <4>3. o.node = n => o.version = v
        BY <2>3, <3>2, Zenon DEF waiting
      <4> QED BY <2>1, <3>2, <4>2, <4>3 DEF Waits
    <3> QED BY <1>1, <2>1, <3>1, <3>2 DEF Waits
  <2> QED BY <2>2, <2>3
<1>3. OneCurrent'
  BY <1>2 DEF WInv, OneCurrent
<1> QED BY <1>1, <1>2, <1>3 DEF WInv

\* A restart ends every stream.
LEMMA RestartWaits == ASSUME NEW F, NEW G, WInv(F), Restart PROVE WInv(G)'
<1>1. \A s \in Streams : stream'[s] = Unused
  BY DEF Restart
<1>2. Shaped(Unused) /\ ~current(Unused)
  BY DEF Shaped, Unused, Live, current
<1> QED BY <1>1, <1>2 DEF Restart, WInv, OneCurrent

\* Steps that change neither streams nor the cache.
LEMMA SameWaits ==
  ASSUME NEW F, WInv(F), stream' = stream, snapshots' = snapshots, held' = held PROVE WInv(F)'
BY DEF WInv, OneCurrent

\* An Envoy whose stream waits in the cache holds its node's snapshot, for any
\* number of Envoys, streams and snapshots, whatever Envoys reject, and however
\* often SetSnapshot gives up half-way: the next one that succeeds settles it.
THEOREM WaitingIsCurrent == Spec => []WaitingHoldsCurrent
<1>1. WInv(failed) /\ [Next]_vars => WInv(failed)'
  <2> SUFFICES ASSUME WInv(failed), [Next]_vars PROVE WInv(failed)'
    OBVIOUS
  <2>1. PICK F, G : F = failed /\ G = failed'
    OBVIOUS
  <2>2. WInv(F)
    BY <2>1
  <2>3. SUFFICES WInv(G)'
    BY <2>1
  <2>4. ASSUME NEW n, NEW v, SetSnapshot(n, v) PROVE WInv(G)'
    <3>1. CASE publish(n, v, waiting(n, v)) /\ G = F \ {n}
      <4>1. PICK a : a = waiting(n, v)
        OBVIOUS
      <4>2. publish(n, v, a)
        BY <3>1, <4>1
      <4>3. F \subseteq G \cup {n}
        BY <3>1
      <4> QED BY <2>2, <4>1, <4>2, <4>3, PublishWaits
    <3>2. ASSUME NEW a \in SUBSET waiting(n, v), publish(n, v, a), G = F \cup {n} PROVE WInv(G)'
      BY <2>2, <3>2, PublishWaits
    <3> QED BY <2>1, <2>4, <3>1, <3>2, Zenon DEF SetSnapshot
  <2>5. ASSUME NEW s \in Streams, (\E e \in Envoys : Open(s, e)) \/ Serve(s) \/ Receive(s) \/ Leave(s)
        PROVE  WInv(G)'
    <3>1. failed' = failed
      BY <2>5 DEF Open, Serve, StreamRequest, CreateWatch, StreamClosed, Receive, Leave
    <3> QED BY <2>1, <2>2, <2>5, <3>1, StreamsWait
  <2>6. CASE Restart
    BY <2>2, <2>6, RestartWaits
  <2>7. CASE UNCHANGED vars
    BY <2>1, <2>2, <2>7, SameWaits DEF vars
  <2> QED BY <2>4, <2>5, <2>6, <2>7 DEF Next
<1>2. WInv(failed) => WaitingHoldsCurrent
  BY DEF WInv, WaitingHoldsCurrent, current, Live, Waits
<1>3. Init => WInv(failed)
  <2> SUFFICES ASSUME Init PROVE WInv(failed)
    OBVIOUS
  <2>1. PICK F : F = failed
    OBVIOUS
  <2> QED BY <2>1, InitWInv
<1> QED BY <1>1, <1>2, <1>3, PTL DEF Spec

=============================================================================
