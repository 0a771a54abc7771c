------------------------------ MODULE MeshProofs ------------------------------
(***************************************************************************)
(* The process as a whole.  The controller inside it is the one of         *)
(* EnvoyProxyController, so what is proved of that one holds here too; the *)
(* streams keep what is proved of them whatever a version is; and the two  *)
(* together give the end-to-end property.                                  *)
(***************************************************************************)
EXTENDS Mesh, ReadyProofs

\* The provers a leaf is tried with when it names none, and their time in seconds.
USE SMTT(30), ZenonT(30)

XP == INSTANCE XdsServerProofs WITH snapshots <- versions,
                                    last <- [n \in nodes |-> 0], MaxVersion <- [n \in nodes |-> 0],
                                    Rejected <- {}, NoId <- Nil, failed <- {},
                                    Restarts <- "crash" \in Faults

\* Before the manager starts the controller, nothing of it has run.
NotBegun ==
  /\ dirty = {} /\ backoff = {} /\ missed = {}
  /\ pc = "idle" /\ req = Nil
  /\ ep = NewProxy /\ epCurrent = FALSE /\ lists = NoLists /\ synth = <<>>
  /\ snapshots = [n \in NodeIDs |-> Nil]

\* The last SetSnapshot of p, if there was one since p last had anything to do,
\* has answered every watch.
done(p) ==
  \/ cache[p] # Nil /\ Quiet(p)
  \/ req = p /\ pc \in {"isConnected", "setConnected", "setReady"}

\* Watches that a failing SetSnapshot has not answered, of the nodes in F, are
\* those of EnvoyProxies that Reconcile comes back to.
Answered(F) == \A p \in Proxies : done(p) => nodeID(p) \notin F

MInv ==
  /\ ~leading => NotBegun
  /\ connected \subseteq nodes
  /\ \E F : XP!WInv(F) /\ Answered(F)

-----------------------------------------------------------------------------
\* The streams' steps are those of the xDS server.
LEMMA SameSteps ==
  ASSUME NEW s \in Streams
  PROVE  /\ \A e \in Envoys : X!Open(s, e) => XP!Open(s, e)
         /\ X!StreamRequest(s) => XP!StreamRequest(s)
         /\ X!CreateWatch(s) => XP!CreateWatch(s)
         /\ X!StreamClosed(s) => XP!StreamClosed(s)
         /\ X!Receive(s) => XP!Receive(s)
         /\ X!Leave(s) => XP!Leave(s)
<1>1. \A e \in Envoys : X!Open(s, e) => XP!Open(s, e)
  BY DEF X!Open, XP!Open, X!live, XP!live, X!Live, XP!Live
<1>2. X!StreamRequest(s) => XP!StreamRequest(s)
  BY DEF X!StreamRequest, XP!StreamRequest
<1>3. X!CreateWatch(s) => XP!CreateWatch(s)
  BY DEF X!CreateWatch, XP!CreateWatch
<1>4. X!StreamClosed(s) => XP!StreamClosed(s)
  BY DEF X!StreamClosed, XP!StreamClosed, X!live, XP!live, X!Live, XP!Live, X!Unused, XP!Unused
<1>5. X!Receive(s) => XP!Receive(s)
  BY DEF X!Receive, XP!Receive
<1>6. X!Leave(s) => XP!Leave(s)
  BY DEF X!Leave, XP!Leave, X!live, XP!live, X!Live, XP!Live
<1> QED BY <1>1, <1>2, <1>3, <1>4, <1>5, <1>6

\* So is a restart, and what SetSnapshot does to the streams.
LEMMA SameShared ==
  /\ X!Restart => XP!Restart
  /\ X!Init => XP!Init
  /\ \A n, v, a : X!publish(n, v, a) => XP!publish(n, v, a)
  /\ \A n, v : X!waiting(n, v) = XP!waiting(n, v)
<1>1. X!Restart => XP!Restart
  BY DEF X!Restart, XP!Restart, X!Nodes, XP!Nodes, X!Unused, XP!Unused
<1>2. X!Init => XP!Init
  BY DEF X!Init, XP!Init, X!Nodes, XP!Nodes, X!Unused, XP!Unused
<1>3. \A n, v, a : X!publish(n, v, a) => XP!publish(n, v, a)
  BY ZenonT(30) DEF X!publish, XP!publish
<1>4. \A n, v : X!waiting(n, v) = XP!waiting(n, v)
  BY ZenonT(30) DEF X!waiting, XP!waiting
<1> QED BY <1>1, <1>2, <1>3, <1>4

-----------------------------------------------------------------------------
\* The constants the server is instantiated with are as it assumes.
LEMMA ServerConstants ==
  /\ Streams \subseteq Nat /\ [n \in nodes |-> 0] \in [XP!Nodes -> Nat] /\ {} \subseteq Nat
  /\ Nil \notin XP!Nodes /\ Nil \notin Envoys /\ Nil \notin Nat
<1>1. XP!Nodes = nodes
  BY DEF XP!Nodes, nodes
<1> QED BY <1>1, MeshAssumption

\* The streams keep their invariant while nobody touches them or the cache, and
\* no more EnvoyProxies are done.
LEMMA WKept ==
  ASSUME MInv, UNCHANGED <<snapshots, stream, held>>, \A p \in Proxies : done(p)' => done(p)
  PROVE  (\E F : XP!WInv(F) /\ Answered(F))'
<1>1. PICK F : XP!WInv(F) /\ Answered(F)
  BY DEF MInv
<1>2. versions' = versions
  BY DEF versions
<1>3. XP!WInv(F)'
  BY <1>1, <1>2 DEF XP!WInv, XP!OneCurrent
<1>4. Answered(F)'
  BY <1>1 DEF Answered
<1> QED BY <1>3, <1>4

\* MInv holds when the process first starts.
LEMMA InitMInv == MeshInit => MInv
<1> SUFFICES ASSUME MeshInit PROVE MInv
  OBVIOUS
<1>1. XP!WInv({})
  BY ServerConstants, SameShared, XP!InitWInv DEF MeshInit
<1>2. NotBegun /\ connected = {}
  BY DEF MeshInit, Init, NotBegun
<1>3. Answered({})
  BY DEF Answered
<1> QED BY <1>1, <1>2, <1>3 DEF MInv

\* What the controller does to the snapshots, other than SetSnapshot: nothing.
LEMMA WorkKeeps ==
  ASSUME ~ (collectedAll /\ snapshotBuilds(specsByKind(lists))), Reconcile
  PROVE  UNCHANGED <<snapshots, connected>>
BY ZenonT(30) DEF Reconcile, Get, collectListeners, collectClusters, collectRoutes, collectScopedRoutes,
       collectManual, collect, synthesize, BuildFails, SetSnapshot, IsConnected, setConnected,
       setReady, setFailed

\* Whether an EnvoyProxy is done depends on the caches and the queue only.
LEMMA DoneFrame ==
  ASSUME UNCHANGED <<cache, notifs, dirty, backoff, missed, pc, req>>, NEW p
  PROVE  done(p)' <=> done(p)
BY DEF done, Quiet

\* An event that is applied or handled makes no EnvoyProxy done.
LEMMA DoneEvents ==
  ASSUME TypeOK, NEW k \in WatchedKinds, Deliver(k) \/ handles(k), NEW p \in Proxies, done(p)'
  PROVE  done(p)
<1>1. pc' = pc /\ req' = req
  BY ZenonT(30) DEF Deliver, handles, Handle, DropSliceEvent
<1>2. CASE req = p /\ pc \in {"isConnected", "setConnected", "setReady"}
  BY <1>2 DEF done
<1>3. CASE cache'[p] # Nil /\ Quiet(p)'
  <2>1. /\ p \notin (dirty \cup backoff \cup missed)' /\ req # p
        /\ \A j \in WatchedKinds : \A i \in DOMAIN notifs'[j] : p \notin requestsOf(notifs'[j][i], cache')
    BY <1>1, <1>3, ZenonT(30) DEF Quiet
  <2>2. CASE Deliver(k)
    <3>1. p \notin dirty \cup backoff \cup missed
      BY <2>1, <2>2, ZenonT(30) DEF Deliver, queueVars
    <3>2. /\ \A j \in WatchedKinds : \A i \in DOMAIN notifs[j] : p \notin requestsOf(notifs[j][i], cache)
          /\ cache'[p] = cache[p]
      BY <2>1, <2>2, <3>1, UnmappedDelivery
    <3> QED BY <1>3, <2>1, <3>1, <3>2, ZenonT(30) DEF done, Quiet
  <2>3. CASE handles(k)
    <3>1. cache' = cache
      BY <2>3 DEF handles, Handle, DropSliceEvent
    <3>2. Untouched(p)
      BY <2>1, <2>3, <3>1, HandledDisturbs
    <3> QED BY <1>3, <2>1, <3>1, <3>2, ZenonT(30) DEF done, Quiet, Untouched
  <2> QED BY <2>2, <2>3
<1> QED BY <1>1, <1>2, <1>3 DEF done

\* Nor does the workqueue.
LEMMA DoneQueue ==
  ASSUME TypeOK, NEW q \in Proxies, Dequeue(q) \/ RetryAfterBackoff(q), NEW p \in Proxies, done(p)'
  PROVE  done(p)
<1>1. CASE Dequeue(q)
  <2>1. req # p
    BY <1>1, NilAssumption, ZenonT(30) DEF Dequeue, TypeOK
  <2>2. pc' = "get"
    BY <1>1 DEF Dequeue
  <2> QED BY <1>1, <2>1, <2>2 DEF Dequeue, done, Quiet
<1>2. CASE RetryAfterBackoff(q)
  BY <1>2, ZenonT(30) DEF RetryAfterBackoff, done, Quiet
<1> QED BY <1>1, <1>2

\* A reconcile that fails comes back, and one that does not gets past SetSnapshot
\* only by SetSnapshot.
LEMMA DoneReconcile ==
  ASSUME TypeOK, (Reconcile /\ ~ (collectedAll /\ snapshotBuilds(specsByKind(lists)))) \/ ReadFails,
         NEW p \in Proxies, done(p)'
  PROVE  done(p)
<1> DEFINE S == {"isConnected", "setConnected", "setReady"}
<1> USE DEF queueVars, workVars
<1>1. ASSUME UNCHANGED <<cache, notifs, dirty, missed, backoff, req>>, pc' \in S => pc \in S
      PROVE  done(p)
  BY <1>1, ZenonT(30) DEF done, Quiet
<1>2. ASSUME UNCHANGED <<cache, notifs, dirty, missed>>, forget,
             \/ backoff' = backoff \cup {req}
             \/ backoff' = backoff /\ (cache[req] = Nil \/ pc = "setReady")
      PROVE  done(p)
  <2>1. cache[p] # Nil /\ Quiet(p)'
    BY <1>2 DEF done, forget
  <2>2. Untouched(p) /\ p \notin backoff'
    BY <1>2, <2>1 DEF Quiet, Untouched
  <2>3. CASE p = req
    BY <1>2, <2>1, <2>2, <2>3 DEF done
  <2>4. CASE p # req
    BY <2>1, <2>2, <2>4 DEF done, Quiet, Untouched
  <2> QED BY <2>3, <2>4
<1>3. CASE Get
  BY <1>1, <1>2, <1>3 DEF Get, returnNil
<1>4. CASE \/ collectListeners \/ collectClusters \/ collectRoutes \/ collectScopedRoutes
           \/ collectManual
  BY <1>1, <1>4, ZenonT(30)
  DEF collect, collectListeners, collectClusters, collectRoutes, collectScopedRoutes, collectManual
<1>5. CASE synthesize \/ BuildFails \/ IsConnected \/ setConnected
  BY <1>1, <1>5, ZenonT(30) DEF synthesize, BuildFails, IsConnected, setConnected
<1>6. CASE setReady
  BY <1>2, <1>6 DEF setReady, returnNil
<1>7. CASE setFailed \/ ReadFails
  BY <1>2, <1>7 DEF setFailed, ReadFails, returnError
<1> QED BY <1>3, <1>4, <1>5, <1>6, <1>7 DEF Reconcile, SetSnapshot

\* A start announces every EnvoyProxy: none is done.
LEMMA DoneStart ==
  ASSUME TypeOK, cache' = api, notifs' = initialNotifs(api), pc' = "idle", NEW p \in Proxies
  PROVE  ~ done(p)'
BY NoneQuietAtStart, KindFacts, ZenonT(30) DEF done, Quiet, TypeOK

\* SetSnapshot answers every watch of its EnvoyProxy, or Reconcile comes back.
LEMMA PushAnswers ==
  ASSUME TypeOK, MInv, Push
  PROVE  (\E F : XP!WInv(F) /\ Answered(F))'
<1>1. PICK F : XP!WInv(F) /\ Answered(F)
  BY DEF MInv
<1>2. PICK n, v : n = nodeID(req) /\ v = snapshots'[nodeID(req)].version
  OBVIOUS
<1>3. PICK a \in SUBSET X!waiting(n, v) : /\ (a = X!waiting(n, v)) = (pc' # "setFailed")
                                          /\ X!publish(n, v, a)
  BY <1>2, ZenonT(30) DEF Push
<1>4. /\ a \in SUBSET XP!waiting(n, v) /\ XP!publish(n, v, a)
      /\ pc' # "setFailed" => a = XP!waiting(n, v)
  BY <1>3, SameShared
<1>5. /\ UNCHANGED <<cache, notifs, dirty, backoff, missed, req>> /\ req \in Proxies
      /\ pc' \in {"isConnected", "setFailed"}
  <2>1. UNCHANGED <<cache, notifs, dirty, backoff, missed, req>> /\ pc = "slices"
    BY DEF Push, SetSnapshot, collectedAll, queueVars
  <2>2. pc' \in {"isConnected", "setFailed"}
    BY ZenonT(30) DEF Push, SetSnapshot
  <2>3. req \in Proxies
    BY <2>1, ZenonT(30) DEF TypeOK
  <2> QED BY <2>1, <2>2, <2>3
<1>6. ASSUME NEW p \in Proxies, p # req, done(p)' PROVE nodeID(p) \notin F /\ nodeID(p) # n
  <2>1. done(p)
    BY <1>5, <1>6, ZenonT(30) DEF done, Quiet
  <2> QED BY <1>1, <1>2, <1>5, <1>6, <2>1, NodeIDInjective DEF Answered
<1>7. pc' = "setFailed" => ~ done(req)'
  BY <1>5 DEF done, Quiet
<1>8. PICK G : G = IF pc' = "setFailed" THEN F \cup {n} ELSE F \ {n}
  OBVIOUS
<1>9. a = XP!waiting(n, v) \/ n \in G
  BY <1>4, <1>8
<1>10. F \subseteq G \cup {n}
  BY <1>8
<1>11. XP!WInv(G)'
  BY <1>1, <1>4, <1>9, <1>10, ServerConstants, XP!PublishWaits
<1>12. Answered(G)'
  <2> SUFFICES ASSUME NEW p \in Proxies, done(p)' PROVE nodeID(p) \notin G
    BY DEF Answered
  <2>1. CASE p = req
    BY <1>2, <1>5, <1>7, <1>8, <2>1
  <2>2. CASE p # req
    BY <1>6, <1>8, <2>2
  <2> QED BY <2>1, <2>2
<1> QED BY <1>11, <1>12

\* A stream's step changes nothing of the controller but connected, which is
\* what StreamChange does.
LEMMA StreamStep ==
  ASSUME MInv, NEW s \in Streams,
         \/ \E e \in Envoys : streamStep(X!Open(s, e))
         \/ streamStep(X!Serve(s) \/ X!Receive(s) \/ X!Leave(s))
  PROVE  MInv' /\ [Next]_vars
<1>1. UNCHANGED <<controllerVars, leading>> /\ UNCHANGED snapshots
  BY DEF streamStep, controllerVars
<1>2. (\E F : XP!WInv(F) /\ Answered(F))'
  <2>1. (\E e \in Envoys : XP!Open(s, e)) \/ XP!Serve(s) \/ XP!Receive(s) \/ XP!Leave(s)
    BY SameSteps DEF streamStep, X!Serve, XP!Serve
  <2>2. PICK F : XP!WInv(F) /\ Answered(F)
    BY DEF MInv
  <2>3. XP!WInv(F)'
    BY <2>1, <2>2, ServerConstants, XP!StreamsWait
  <2>4. Answered(F)'
    BY <1>1, <2>2, DoneFrame DEF Answered, controllerVars
  <2> QED BY <2>3, <2>4
<1>3. (~leading)' => NotBegun'
  BY <1>1 DEF MInv, NotBegun, controllerVars
<1>4. \/ connected' = connected
      \/ \E n \in nodes : n \notin connected /\ connected' = connected \cup {n}
      \/ \E n \in connected : connected' = connected \ {n}
  <2>1. CASE (\E e \in Envoys : X!Open(s, e)) \/ X!CreateWatch(s) \/ X!Receive(s) \/ X!Leave(s)
    BY <2>1, ZenonT(30) DEF X!Open, X!CreateWatch, X!Receive, X!Leave
  <2>2. CASE X!StreamRequest(s)
    <3>1. stream[s].at = "request" /\ connected' = connected \cup ({NodeOf[stream[s].envoy]} \ {Nil})
      BY <2>2 DEF X!StreamRequest
    <3>2. stream[s].envoy \in Envoys
      BY <3>1 DEF MInv, XP!WInv, XP!Shaped, XP!Live
    <3>3. NodeOf[stream[s].envoy] \in nodes
      BY <3>2 DEF nodes
    <3> QED BY <3>1, <3>3
  <2>3. CASE X!StreamClosed(s)
    BY <2>3 DEF X!StreamClosed
  <2> QED BY <2>1, <2>2, <2>3 DEF streamStep, X!Serve
<1>5. connected' \subseteq nodes
  BY <1>4 DEF MInv
<1>6. connected' = connected \/ \E n \in Streaming : StreamChange(n)
  BY <1>1, <1>4, MeshAssumption, ZenonT(30) DEF MInv, StreamChange, controllerVars, apiVars, queueVars, workVars
<1>7. [Next]_vars
  BY <1>1, <1>6, ZenonT(30) DEF Next, vars, controllerVars
<1> QED BY <1>2, <1>3, <1>5, <1>7 DEF MInv

\* Every step of the process keeps MInv, and is a step of the controller.
LEMMA MeshStep ==
  ASSUME "crash" \in Faults, TypeOK, MInv, [MeshNext]_meshVars
  PROVE  MInv' /\ [Next]_vars
<1>1. CASE User /\ UNCHANGED <<serverVars, leading>>
  <2>1. /\ UNCHANGED <<stream, held, leading>>
        /\ UNCHANGED <<dirty, backoff, missed, pc, req, ep, lists, synth, snapshots, connected>>
        /\ UNCHANGED <<cache, notifs>> /\ (epCurrent = FALSE => epCurrent' = FALSE)
    BY <1>1, ZenonT(30) DEF User, Apply, Delete, CreateProxy, TouchProxy, userWrite, queueVars, serverVars
  <2>2. (\E F : XP!WInv(F) /\ Answered(F))'
    BY <2>1, WKept, DoneFrame
  <2>3. MInv'
    BY <2>1, <2>2 DEF MInv, NotBegun
  <2> QED BY <1>1, <2>3 DEF Next
<1>2. CASE StartController
  <2>1. leading' = TRUE /\ UNCHANGED <<connected, snapshots, stream, held>> /\ NotBegun
    BY <1>2 DEF StartController, serverVars, MInv
  <2>4. cache' = api /\ notifs' = initialNotifs(api) /\ pc' = "idle"
    BY <1>2, <2>1 DEF StartController, NotBegun
  <2>2. (\E F : XP!WInv(F) /\ Answered(F))'
    BY <2>1, <2>4, WKept, DoneStart
  <2>3. Restart
    <3>1. forget
      BY <1>2, <2>1, ZenonT(30) DEF StartController, NotBegun, forget, workVars
    <3>2. connected' \in SUBSET Streaming
      BY <2>1, MeshAssumption DEF MInv
    <3> QED BY <1>2, <2>1, <3>1, <3>2 DEF StartController, Restart, NotBegun, queueVars
  <2> QED BY <2>1, <2>2, <2>3 DEF MInv, Next
<1>3. CASE whenLeading(Informer /\ UNCHANGED serverVars)
  <2>1. leading /\ leading' = leading /\ Informer /\ UNCHANGED <<stream, held, snapshots, connected>>
    BY <1>3, ZenonT(30) DEF whenLeading, serverVars, Informer, Deliver, Handle
  <2>4. \E k \in WatchedKinds : Deliver(k) \/ handles(k)
    BY <2>1, KindFacts DEF Informer, handles
  <2>2. (\E F : XP!WInv(F) /\ Answered(F))'
    BY <2>1, <2>4, WKept, DoneEvents
  <2>3. MInv'
    BY <2>1, <2>2 DEF MInv
  <2> QED BY <2>1, <2>3 DEF Next
<1>4. ASSUME NEW p \in Proxies,
             whenLeading((Dequeue(p) \/ RetryAfterBackoff(p)) /\ UNCHANGED serverVars)
      PROVE  MInv' /\ [Next]_vars
  <2>1. /\ leading /\ leading' = leading /\ (Dequeue(p) \/ RetryAfterBackoff(p))
        /\ UNCHANGED <<stream, held, snapshots, connected>>
    BY <1>4, ZenonT(30) DEF whenLeading, serverVars, Dequeue, RetryAfterBackoff
  <2>2. (\E F : XP!WInv(F) /\ Answered(F))'
    BY <2>1, WKept, DoneQueue
  <2> QED BY <2>1, <2>2 DEF MInv, Next
<1>5. CASE whenLeading(Push)
  <2>1. leading /\ leading' = leading /\ SetSnapshot /\ connected' = connected
    BY <1>5, ZenonT(30) DEF whenLeading, Push, SetSnapshot
  <2>2. (\E F : XP!WInv(F) /\ Answered(F))'
    BY <1>5, PushAnswers DEF whenLeading
  <2> QED BY <2>1, <2>2 DEF MInv, Next, Reconcile
<1>6. CASE whenLeading(~ (collectedAll /\ snapshotBuilds(specsByKind(lists)))
                       /\ Reconcile /\ UNCHANGED serverVars)
  <2>1. leading /\ leading' = leading /\ Reconcile /\ UNCHANGED <<stream, held, snapshots, connected>>
    BY <1>6, WorkKeeps DEF whenLeading, serverVars
  <2>2. (\E F : XP!WInv(F) /\ Answered(F))'
    BY <1>6, <2>1, WKept, DoneReconcile DEF whenLeading
  <2> QED BY <2>1, <2>2 DEF MInv, Next
<1>7. CASE RestartProcess
  <2>1. leading' = FALSE /\ Restart /\ connected' = {} /\ XP!Restart
    BY <1>7, SameShared DEF RestartProcess, X!Restart
  <2>2. (\E F : XP!WInv(F) /\ Answered(F))'
    <3>1. PICK F : XP!WInv(F)
      BY DEF MInv
    <3>2. XP!WInv({})'
      BY <2>1, <3>1, ServerConstants, XP!RestartWaits
    <3>3. Answered({})'
      BY DEF Answered
    <3> QED BY <3>2, <3>3
  <2> QED BY <2>1, <2>2, ZenonT(30) DEF MInv, Next, Restart, forget, NotBegun
<1>8. CASE UNCHANGED meshVars
  <2>1. UNCHANGED <<controllerVars, leading, connected, stream, held, snapshots>>
    BY <1>8 DEF meshVars, serverVars, controllerVars
  <2>2. (\E F : XP!WInv(F) /\ Answered(F))'
    BY <2>1, WKept, DoneFrame DEF controllerVars
  <2> QED BY <2>1, <2>2 DEF MInv, NotBegun, vars, controllerVars
<1>9. MeshNext \/ UNCHANGED meshVars
  OBVIOUS
<1>10. whenLeading(Work) =>
         \/ whenLeading(Push)
         \/ whenLeading(~ (collectedAll /\ snapshotBuilds(specsByKind(lists)))
                        /\ Reconcile /\ UNCHANGED serverVars)
  BY DEF whenLeading, Work
<1>11. CASE whenLeading(Fails)
  <2>1. /\ leading /\ leading' = leading /\ (ReadFails \/ DropSliceEvent)
        /\ UNCHANGED <<stream, held, snapshots, connected>>
    BY <1>11, ZenonT(30) DEF whenLeading, Fails, serverVars, ReadFails, DropSliceEvent
  <2>2. (\E F : XP!WInv(F) /\ Answered(F))'
    <3>1. CASE ReadFails
      BY <2>1, <3>1, WKept, DoneReconcile
    <3>2. CASE DropSliceEvent
      <4>1. handles("EndpointSlice") /\ "EndpointSlice" \in WatchedKinds
        BY <3>2 DEF handles, WatchedKinds
      <4> QED BY <2>1, <4>1, WKept, DoneEvents
    <3> QED BY <2>1, <3>1, <3>2
  <2> QED BY <2>1, <2>2 DEF MInv, Next
<1> QED BY <1>1, <1>2, <1>3, <1>4, <1>5, <1>6, <1>7, <1>8, <1>9, <1>10, <1>11, StreamStep, ZenonT(30) DEF MeshNext

-----------------------------------------------------------------------------
\* The process implements EnvoyProxyController, for every number of Envoys and
\* streams, and every combination of failures that includes crashes: whatever is
\* proved of the controller holds of the process.
THEOREM MeshImplementsController ==
  ASSUME "crash" \in Faults
  PROVE  MeshSpec => ControllerRuns
<1>1. MeshInit => Init /\ TypeOK
  BY TypeInit DEF MeshInit
<1>2. TypeOK /\ MInv /\ [MeshNext]_meshVars => TypeOK' /\ MInv' /\ [Next]_vars
  BY MeshStep, TypeNext
<1> QED BY <1>1, <1>2, InitMInv, PTL DEF MeshSpec, ControllerRuns, Spec

\* Nil, a model value, is not the version of a snapshot.
NilIsNoVersion == \A ls, sy : snapshotOf(ls, sy).version # Nil

\* Once there is nothing left to do, an Envoy that waits for another version runs
\* what the API server's objects call for, for any number of EnvoyProxies, CRs,
\* Envoys and streams.  What the controller does gives the snapshot, what the
\* streams do gives the Envoy that snapshot's version.
THEOREM EnvoysRun ==
  ASSUME "crash" \in Faults, NilIsNoSnapshot, NilIsNoVersion
  PROVE  MeshSpec => []EnvoysRunApi
<1>1. ASSUME MInv, DrainedServesApi, CacheTracksApi, "status" \notin Faults => ReportsWhenDone
      PROVE  EnvoysRunApi
  <2> SUFFICES ASSUME NEW s \in Streams, NEW p \in Proxies,
                      stream[s].at = "watch", ~stream[s].left, stream[s].node = nodeID(p),
                      api[p] # Nil, Quiet(p), \A k \in WatchedKinds : watch[k] = <<>>
               PROVE  /\ ServesStore(api, p, snapshots[nodeID(p)])
                      /\ held[stream[s].envoy] = snapshots[nodeID(p)].version
                      /\ "status" \notin Faults =>
                           /\ api[p].ready = "True"
                           /\ api[p].version = held[stream[s].envoy]
    BY ZenonT(30) DEF EnvoysRunApi
  <2>1. ServesStore(api, p, snapshots[nodeID(p)])
    BY <1>1, ZenonT(30) DEF DrainedServesApi
  <2>2. PICK ls, sy : snapshots[nodeID(p)] = snapshotOf(ls, sy)
    BY <2>1 DEF ServesStore, CallsFor
  <2>3. snapshots[nodeID(p)] # Nil /\ snapshots[nodeID(p)].version # Nil
    BY <2>2 DEF NilIsNoSnapshot, NilIsNoVersion
  <2>9. PICK F : XP!WInv(F) /\ Answered(F)
    BY <1>1 DEF MInv
  <2>4. stream[s].node \in nodes
    BY <2>9, ZenonT(30) DEF XP!WInv, XP!Shaped, XP!Live, nodes
  <2>10. nodeID(p) \notin F
    <3>1. p \in Ids /\ watch[p.kind] = <<>> /\ DOMAIN <<>> = {}
      BY KindFacts DEF Ids
    <3>2. LagsBy(<<>>, p, cache[p], api[p])
      BY <1>1, <3>1 DEF CacheTracksApi
    <3>3. cache[p] # Nil
      BY <3>1, <3>2 DEF LagsBy
    <3> QED BY <2>9, <3>3 DEF Answered, done
  <2>5. versions[nodeID(p)] = snapshots[nodeID(p)].version
    BY <2>3, <2>4 DEF versions
  <2>6. versions[nodeID(p)] \in {Nil, held[stream[s].envoy]}
    BY <2>9, <2>10, ZenonT(30) DEF XP!WInv, XP!Waits, XP!current, XP!Live
  <2>7. held[stream[s].envoy] = snapshots[nodeID(p)].version
    BY <2>3, <2>5, <2>6, ZenonT(30)
  <2>8. ASSUME "status" \notin Faults
        PROVE  api[p].ready = "True" /\ api[p].version = snapshots[nodeID(p)].version
    <3>1. watch["EnvoyProxy"] = <<>> /\ DOMAIN <<>> = {}
      BY DEF WatchedKinds
    <3>2. NoEvent(p)
      BY <3>1 DEF NoEvent
    <3> QED BY <1>1, <2>8, <3>2, ZenonT(30) DEF ReportsWhenDone, Reported
  <2> QED BY <2>1, <2>7, <2>8, ZenonT(30)
<1>2. MeshSpec => []MInv /\ []CacheTracksApi
  <2>1. MeshInit => TypeOK /\ CacheTracksApi
    BY TypeInit, TracksInit DEF MeshInit
  <2>2. TypeOK /\ MInv /\ CacheTracksApi /\ [MeshNext]_meshVars => (TypeOK /\ MInv /\ CacheTracksApi)'
    BY MeshStep, TypeNext, TracksNext
  <2> QED BY <2>1, <2>2, InitMInv, PTL DEF MeshSpec
<1>3. MeshSpec => []DrainedServesApi
  BY MeshImplementsController, ServesApi, PTL DEF ControllerRuns
<1>4. CASE "status" \notin Faults
  <2>1. MeshSpec => []ReportsWhenDone
    BY <1>4, MeshImplementsController, ReportedOnceDone, PTL DEF ControllerRuns
  <2>2. MInv /\ DrainedServesApi /\ CacheTracksApi /\ ReportsWhenDone => EnvoysRunApi
    BY <1>1
  <2> QED BY <2>1, <2>2, <1>2, <1>3, PTL
<1>5. CASE "status" \in Faults
  <2>1. MInv /\ DrainedServesApi /\ CacheTracksApi => EnvoysRunApi
    BY <1>1, <1>5
  <2> QED BY <2>1, <1>2, <1>3, PTL
<1> QED BY <1>4, <1>5

=============================================================================
