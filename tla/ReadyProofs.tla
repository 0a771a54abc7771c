------------------------------ MODULE ReadyProofs ------------------------------
(***************************************************************************)
(* The Ready condition tells the truth.                                    *)
(*                                                                         *)
(* Reconcile ignores it when a status update is refused.  The invariant    *)
(* says why it may: its copy of the EnvoyProxy is outdated only if a write *)
(* is on its way that will bring the request back.  No update is lost on   *)
(* the way.                                                                *)
(***************************************************************************)
EXTENDS NoMissedUpdate

\* The provers a leaf is tried with when it names none, and their time in seconds.
USE SMTT(30), ZenonT(30)

\* No write of p is on its way to the cache.
NoEvent(p) == \A i \in DOMAIN watch["EnvoyProxy"] : watch["EnvoyProxy"][i].id # p

\* Nothing will bring p back to the worker.
Settled(p) == Untouched(p) /\ NoEvent(p)

Reported(p) ==
  /\ snapshots[nodeID(p)] # Nil
  /\ api[p].ready = "True"
  /\ api[p].version = snapshots[nodeID(p)].version

\* More than ReadyReportsVersion: once nothing is left to do, Ready is True.
ReportsWhenDone ==
  \A p \in Proxies : api[p] # Nil /\ Quiet(p) /\ NoEvent(p) => Reported(p)

\* The version Reconcile reports is that of the snapshot it has stored.
VersionStored ==
  pc \in {"isConnected", "setConnected", "setReady"} =>
    /\ snapshots[nodeID(req)] # Nil
    /\ snapshots[nodeID(req)].version = versionOf(lists, synth)

\* An outdated copy of the EnvoyProxy will be read again.
CopyCurrent == pc \notin {"idle", "get"} /\ Settled(req) => epCurrent

Truthful == ReportsWhenDone /\ VersionStored /\ CopyCurrent

\* Nil, which stands for no snapshot, is not a snapshot.
NilIsNoSnapshot == \A ls, sy : snapshotOf(ls, sy) # Nil

RInv == IInv /\ CacheTracksApi /\ Truthful

\* The property, with what Quiet adds to Untouched set apart.
LEMMA ReportedWhenSettled ==
  ReportsWhenDone <=>
    \A p \in Proxies : api[p] # Nil /\ Settled(p) /\ req # p => Reported(p)
BY DEF ReportsWhenDone, Quiet, Settled, Untouched

\* So it is, in the state after a step.
LEMMA ReportedWhenSettledAfter ==
  ReportsWhenDone' <=>
    \A p \in Proxies : api'[p] # Nil /\ Settled(p)' /\ req' # p => Reported(p)'
BY DEF ReportsWhenDone, Quiet, Settled, Untouched

\* A write of an EnvoyProxy is on its way to the cache.
LEMMA WriteUnsettles ==
  ASSUME TypeOK, NEW id \in Ids, NEW obj, write(id, obj),
         UNCHANGED <<cache, notifs, dirty, missed>>, backoff \subseteq backoff',
         NEW p \in Proxies, Settled(p)'
  PROVE  Settled(p) /\ id # p /\ api'[p] = api[p]
<1> DEFINE w == watch["EnvoyProxy"]
           e == [id |-> id, new |-> obj]
<1>1. /\ IsSeq(w) /\ DOMAIN watch = WatchedKinds /\ "EnvoyProxy" \in WatchedKinds
      /\ DOMAIN api = Ids /\ p.kind = "EnvoyProxy"
  BY KindFacts DEF TypeOK, IsStore, Proxies
<1>2. \A i \in DOMAIN watch'["EnvoyProxy"] : watch'["EnvoyProxy"][i].id # p
  BY DEF Settled, NoEvent
<1>3. watch'["EnvoyProxy"] = IF id.kind = "EnvoyProxy" THEN Append(w, e) ELSE w
  BY <1>1 DEF write
<1>4. /\ \A i \in DOMAIN w : i \in DOMAIN Append(w, e) /\ Append(w, e)[i] = w[i]
      /\ \E i \in DOMAIN Append(w, e) : Append(w, e)[i] = e
  BY <1>1, AppendFacts
<1>5. id # p
  BY <1>1, <1>2, <1>3, <1>4
<1>6. NoEvent(p)
  BY <1>2, <1>3, <1>4 DEF NoEvent
<1>7. Untouched(p)
  BY DEF Settled, Untouched
<1>8. api'[p] = api[p]
  BY <1>1, <1>5 DEF write
<1> QED
  BY <1>5, <1>6, <1>7, <1>8 DEF Settled

\* Applying a watch event of an EnvoyProxy notifies its handler.
LEMMA DeliverySettled ==
  ASSUME TypeOK, NEW k \in WatchedKinds, Deliver(k), NEW p \in Proxies, Settled(p)'
  PROVE  Settled(p)
<1> DEFINE w == watch[k]
           e == Head(w)
           n == [id |-> e.id, old |-> cache[e.id], new |-> e.new]
<1>1. /\ p \notin dirty \cup backoff \cup missed
      /\ \A j \in WatchedKinds : \A i \in DOMAIN notifs'[j] : p \notin requestsOf(notifs'[j][i], cache')
      /\ NoEvent(p)'
  BY ZenonT(30) DEF Settled, Untouched, Deliver, queueVars
<1>2. Untouched(p)
  BY <1>1, UnmappedDelivery DEF Untouched
<1>3. CASE k # "EnvoyProxy"
  <2>1. watch'["EnvoyProxy"] = watch["EnvoyProxy"]
    BY <1>3, KindFacts DEF Deliver, TypeOK
  <2> QED
    BY <1>1, <1>2, <2>1 DEF Settled, NoEvent
<1>4. CASE k = "EnvoyProxy"
  <2>1. /\ IsSeq(w) /\ w # <<>> /\ IsSeq(notifs[k])
        /\ notifs'[k] = Append(notifs[k], n) /\ watch'[k] = Tail(w)
        /\ \A i \in DOMAIN w : IsEvent(w[i], k)
    BY DEF Deliver, TypeOK
  <2>2. \E i \in DOMAIN notifs'[k] : notifs'[k][i] = n
    BY <2>1, AppendFacts
  <2>3. p \notin requestsOf(n, cache')
    BY <1>1, <2>2
  <2>4. e.id # p
    BY <2>3, KindFacts DEF requestsOf, Proxies
  <2>5. /\ Len(w) \in Nat \ {0} /\ DOMAIN w = 1..Len(w) /\ e = w[1]
        /\ DOMAIN Tail(w) = 1..(Len(w) - 1)
        /\ \A i \in 1..(Len(w) - 1) : Tail(w)[i] = w[i + 1]
    BY <2>1, TailFacts
  <2>6. ASSUME NEW i \in DOMAIN w PROVE w[i].id # p
    <3>1. CASE i = 1
      BY <2>4, <2>5, <3>1
    <3>2. CASE i # 1
      <4>1. i - 1 \in DOMAIN Tail(w) /\ Tail(w)[i - 1] = w[i]
        BY <2>5, <3>2
      <4> QED
        BY <1>1, <1>4, <2>1, <4>1 DEF NoEvent
    <3> QED
      BY <3>1, <3>2
  <2> QED
    BY <1>2, <1>4, <2>6 DEF Settled, NoEvent
<1> QED
  BY <1>3, <1>4

\* Reconcile goes on undisturbed by a step that only adds to what is pending.
LEMMA TruthfulKept ==
  ASSUME IInv, Truthful, IInv', UNCHANGED <<snapshots, pc, req, lists, synth>>,
         \A p \in Proxies : Settled(p)' => Settled(p) /\ api'[p] = api[p],
         \A p \in Proxies : p = req /\ Settled(p)' => epCurrent' = epCurrent
  PROVE  Truthful'
<1>1. ReportsWhenDone'
  <2> SUFFICES ASSUME NEW p \in Proxies, api'[p] # Nil, Settled(p)', req' # p
               PROVE  Reported(p)'
    BY ReportedWhenSettledAfter
  <2>1. Reported(p)
    BY ReportedWhenSettled DEF Truthful
  <2> QED
    BY <2>1 DEF Reported
<1>2. VersionStored'
  BY DEF Truthful, VersionStored
<1>3. CopyCurrent'
  <2> SUFFICES ASSUME pc \notin {"idle", "get"}, Settled(req)' PROVE epCurrent'
    BY DEF CopyCurrent
  <2>1. PICK p \in Proxies : p = req
    BY DEF IInv, TypeOK
  <2>2. Settled(p)'
    BY <2>1 DEF Settled, Untouched, NoEvent
  <2>3. Settled(req) /\ epCurrent' = epCurrent
    BY <2>1, <2>2
  <2> QED
    BY <2>3 DEF Truthful, CopyCurrent
<1> QED
  BY <1>1, <1>2, <1>3 DEF Truthful

\* Reconcile goes on to a step before the snapshot is stored.
LEMMA TruthfulReading ==
  ASSUME IInv, Truthful, pc \notin {"idle", "get"},
         pc' \in Steps \ {"isConnected", "setConnected", "setReady"},
         UNCHANGED <<api, watch, cache, notifs, dirty, backoff, missed, req, epCurrent, snapshots>>
  PROVE  Truthful'
<1>1. \A p : (Settled(p)' <=> Settled(p)) /\ (Reported(p)' <=> Reported(p))
  BY DEF Settled, Untouched, NoEvent, Reported
<1>2. ReportsWhenDone'
  BY <1>1, ReportedWhenSettled, ReportedWhenSettledAfter DEF Truthful
<1>3. Settled(req)' <=> Settled(req)
  BY DEF Settled, Untouched, NoEvent
<1> QED
  BY <1>2, <1>3 DEF Truthful, VersionStored, CopyCurrent

\* Reconcile returns: what is claimed of the others still is.
LEMMA TruthfulReturn ==
  ASSUME IInv, Truthful, forget, snapshots' = snapshots,
         \A p \in Proxies : p # req /\ Settled(p)' => Settled(p) /\ api'[p] = api[p],
         \A p \in Proxies : p = req /\ Settled(p)' /\ api'[p] # Nil => Reported(p)'
  PROVE  Truthful'
<1>1. ReportsWhenDone'
  <2> SUFFICES ASSUME NEW p \in Proxies, api'[p] # Nil, Settled(p)'
               PROVE  Reported(p)'
    BY ReportedWhenSettledAfter
  <2>1. CASE p = req
    BY <2>1
  <2>2. CASE p # req
    <3>1. Reported(p)
      BY <2>2, ReportedWhenSettled DEF Truthful
    <3> QED
      BY <2>2, <3>1 DEF Reported
  <2> QED
    BY <2>1, <2>2
<1> QED
  BY <1>1 DEF forget, Truthful, VersionStored, CopyCurrent

\* A status update is a write of the request's EnvoyProxy or no write at all.
LEMMA UpdateSettled ==
  ASSUME TypeOK, req \in Proxies, NEW obj, setCondition(obj), "status" \notin Faults,
         UNCHANGED <<cache, notifs, dirty, missed>>, backoff \subseteq backoff',
         NEW p \in Proxies, Settled(p)'
  PROVE  /\ Settled(p)
         /\ api'[p] = api[p]
         /\ p = req /\ epCurrent => api[p] = obj
<1>1. ASSUME UNCHANGED <<api, watch>> PROVE Settled(p)
  BY <1>1 DEF Settled, Untouched, NoEvent
<1>2. CASE accepted(obj) /\ obj = api[req]
  BY <1>1, <1>2 DEF accepted
<1>3. CASE accepted(obj) /\ obj # api[req]
  <2>1. write(req, obj) /\ req \in Ids
    BY <1>3 DEF accepted, Ids
  <2> QED
    BY <2>1, WriteUnsettles
<1>4. CASE refused
  BY <1>1, <1>4 DEF refused
<1> QED
  BY <1>2, <1>3, <1>4 DEF setCondition

\* The steps of Reconcile keep the Ready condition truthful.
LEMMA TruthfulReconcile ==
  ASSUME RInv, NilIsNoSnapshot, "status" \notin Faults, Reconcile \/ ReadFails
  PROVE  Truthful'
<1> USE DEF workVars, queueVars, apiVars
<1>1. TypeOK /\ IInv /\ Truthful /\ CacheTracksApi
  BY DEF RInv, IInv
<1>2. CASE Get /\ cache[req] = Nil
  <2>1. /\ forget /\ req \in Proxies
        /\ UNCHANGED <<api, watch, cache, notifs, dirty, backoff, missed, snapshots>>
    BY <1>1, <1>2, ZenonT(30) DEF Get, returnNil, TypeOK
  <2>2. \A p : Settled(p)' <=> Settled(p)
    BY <2>1 DEF Settled, Untouched, NoEvent
  <2>3. ASSUME NEW p \in Proxies, p = req, Settled(p) PROVE api[p] = Nil
    <3>1. p \in Ids /\ p.kind = "EnvoyProxy"
      BY DEF Ids, Proxies
    <3> QED
      BY <1>1, <1>2, <2>3, <3>1 DEF CacheTracksApi, LagsBy, Settled, NoEvent
  <2> QED
    BY <1>1, <2>1, <2>2, <2>3, TruthfulReturn
<1>3. CASE Get /\ cache[req] # Nil
  <2>1. /\ pc' = "listeners" /\ epCurrent' = NoEvent(req)
        /\ UNCHANGED <<api, watch, cache, notifs, dirty, backoff, missed, req, snapshots>>
    BY <1>3 DEF Get, NoEvent
  <2>2. \A p : (Settled(p)' <=> Settled(p)) /\ (Reported(p)' <=> Reported(p))
    BY <2>1 DEF Settled, Untouched, NoEvent, Reported
  <2>3. ReportsWhenDone'
    BY <1>1, <2>1, <2>2, ReportedWhenSettled, ReportedWhenSettledAfter DEF Truthful
  <2>4. Settled(req)' => NoEvent(req)
    BY <2>1 DEF Settled, NoEvent
  <2> QED
    BY <2>1, <2>3, <2>4 DEF Truthful, VersionStored, CopyCurrent
<1>4. CASE \/ collectListeners \/ collectClusters \/ collectRoutes \/ collectScopedRoutes
           \/ collectManual \/ synthesize \/ BuildFails
  <2>1. /\ pc \notin {"idle", "get"}
        /\ pc' \in Steps \ {"isConnected", "setConnected", "setReady"}
        /\ UNCHANGED <<api, watch, cache, notifs, dirty, backoff, missed, req, epCurrent, snapshots>>
    BY <1>4, ZenonT(30) DEF collectListeners, collectClusters, collectRoutes, collectScopedRoutes,
                collectManual, collect, synthesize, BuildFails, collectedAll, Steps
  <2> QED
    BY <1>1, <2>1, TruthfulReading
<1>5. CASE SetSnapshot
  <2>1. /\ snapshots' = [snapshots EXCEPT ![nodeID(req)] = snapshotOf(lists, synth)]
        /\ pc \notin {"idle", "get"} /\ req \in Proxies /\ DOMAIN snapshots = NodeIDs
        /\ UNCHANGED <<api, watch, cache, notifs, dirty, backoff, missed, req, epCurrent, lists, synth>>
    BY <1>1, <1>5, ZenonT(30) DEF SetSnapshot, collectedAll, TypeOK
  <2>2. \A p : Settled(p)' <=> Settled(p)
    BY <2>1 DEF Settled, Untouched, NoEvent
  <2>3. ReportsWhenDone'
    <3> SUFFICES ASSUME NEW p \in Proxies, api[p] # Nil, Settled(p), req # p PROVE Reported(p)'
      BY <2>1, <2>2, ReportedWhenSettledAfter
    <3>1. nodeID(p) # nodeID(req)
      BY <2>1, NodeIDInjective
    <3>2. snapshots'[nodeID(p)] = snapshots[nodeID(p)]
      BY <2>1, <3>1 DEF NodeIDs
    <3>3. Reported(p)
      BY <1>1, ReportedWhenSettled DEF Truthful
    <3> QED
      BY <2>1, <3>2, <3>3 DEF Reported
  <2>4. VersionStored'
    <3>1. snapshots'[nodeID(req)] = snapshotOf(lists, synth)
      BY <2>1 DEF NodeIDs
    <3>2. snapshotOf(lists, synth).version = versionOf(lists, synth)
      BY DEF snapshotOf, BuildSnapshot
    <3> QED
      BY <2>1, <3>1, <3>2, ZenonT(30) DEF VersionStored, NilIsNoSnapshot, versionOf, versionsOf
  <2>5. CopyCurrent'
    <3>1. Settled(req)' => Settled(req)
      BY <2>1 DEF Settled, Untouched, NoEvent
    <3> QED
      BY <1>1, <2>1, <3>1 DEF Truthful, CopyCurrent
  <2> QED
    BY <2>3, <2>4, <2>5 DEF Truthful
<1>6. CASE IsConnected
  <2>1. /\ pc = "isConnected" /\ pc' = "setConnected"
        /\ UNCHANGED <<api, watch, cache, notifs, dirty, backoff, missed, req, epCurrent, lists,
                       synth, snapshots>>
    BY <1>6 DEF IsConnected
  <2>2. \A p : (Settled(p)' <=> Settled(p)) /\ (Reported(p)' <=> Reported(p))
    BY <2>1 DEF Settled, Untouched, NoEvent, Reported
  <2>3. ReportsWhenDone'
    BY <1>1, <2>1, <2>2, ReportedWhenSettled, ReportedWhenSettledAfter DEF Truthful
  <2>4. Settled(req)' => Settled(req)
    BY <2>1 DEF Settled, Untouched, NoEvent
  <2> QED
    BY <1>1, <2>1, <2>3, <2>4 DEF Truthful, VersionStored, CopyCurrent
<1>7. CASE setConnected
  <2>1. /\ pc = "setConnected" /\ pc' = "setReady" /\ setCondition(ep) /\ req \in Proxies
        /\ UNCHANGED <<cache, notifs, dirty, backoff, missed, req, epCurrent, lists, synth, snapshots>>
    BY <1>1, <1>7, ZenonT(30) DEF setConnected, setCondition, TypeOK
  <2>2. \A p \in Proxies : Settled(p)' => Settled(p) /\ api'[p] = api[p]
    BY <1>1, <2>1, UpdateSettled
  <2>3. ReportsWhenDone'
    <3> SUFFICES ASSUME NEW p \in Proxies, api'[p] # Nil, Settled(p)', req # p PROVE Reported(p)'
      BY <2>1, ReportedWhenSettledAfter
    <3>1. Reported(p)
      BY <1>1, <2>2, ReportedWhenSettled DEF Truthful
    <3> QED
      BY <2>1, <2>2, <3>1 DEF Reported
  <2>4. Settled(req)' => Settled(req)
    <3>1. PICK p \in Proxies : p = req
      BY <2>1
    <3>2. Settled(req)' <=> Settled(p)'
      BY <2>1, <3>1 DEF Settled, Untouched, NoEvent
    <3> QED
      BY <2>2, <3>1, <3>2
  <2> QED
    BY <1>1, <2>1, <2>3, <2>4 DEF Truthful, VersionStored, CopyCurrent
<1>8. CASE setReady
  <2> DEFINE obj == [ep EXCEPT !.ready = "True", !.version = versionOf(lists, synth)]
  <2>1. /\ pc = "setReady" /\ setCondition(obj) /\ req \in Proxies /\ forget
        /\ UNCHANGED <<cache, notifs, dirty, backoff, missed, snapshots>>
    BY <1>1, <1>8 DEF setReady, returnNil, TypeOK
  <2>2. obj.ready = "True" /\ obj.version = versionOf(lists, synth)
    BY <1>1 DEF TypeOK, IsProxy
  <2> HIDE DEF obj
  <2>3. \A p \in Proxies : Settled(p)' =>
          Settled(p) /\ api'[p] = api[p] /\ (p = req /\ epCurrent => api[p] = obj)
    BY <1>1, <2>1, UpdateSettled
  <2>4. ASSUME NEW p \in Proxies, p = req, Settled(p)' PROVE Reported(p)'
    <3>1. epCurrent
      BY <1>1, <2>1, <2>3, <2>4 DEF Truthful, CopyCurrent
    <3>2. api'[p] = obj
      BY <2>3, <2>4, <3>1
    <3>3. snapshots[nodeID(p)] # Nil /\ snapshots[nodeID(p)].version = versionOf(lists, synth)
      BY <1>1, <2>1, <2>4 DEF Truthful, VersionStored
    <3> QED
      BY <2>1, <2>2, <3>2, <3>3 DEF Reported
  <2> QED
    BY <1>1, <2>1, <2>3, <2>4, TruthfulReturn
<1>9. CASE setFailed \/ ReadFails
  <2>1. /\ forget /\ req \in Proxies /\ backoff' = backoff \cup {req}
        /\ UNCHANGED <<cache, notifs, dirty, missed, snapshots>>
    BY <1>1, <1>9 DEF setFailed, ReadFails, returnError, TypeOK
  <2>2. ASSUME NEW p \in Proxies, Settled(p)' PROVE Settled(p) /\ api'[p] = api[p]
    <3>1. CASE setFailed
      <4>1. PICK obj : setCondition(obj)
        BY <3>1 DEF setFailed
      <4> QED
        BY <1>1, <2>1, <2>2, <4>1, UpdateSettled
    <3>2. CASE ReadFails
      <4>1. UNCHANGED <<api, watch>>
        BY <3>2 DEF ReadFails
      <4> QED
        BY <2>1, <2>2, <4>1 DEF Settled, Untouched, NoEvent
    <3> QED
      BY <1>9, <3>1, <3>2
  <2>3. \A p \in Proxies : p = req => ~ Settled(p)'
    BY <2>1 DEF Settled, Untouched
  <2> QED
    BY <1>1, <2>1, <2>2, <2>3, TruthfulReturn
<1> QED
  BY <1>2, <1>3, <1>4, <1>5, <1>6, <1>7, <1>8, <1>9 DEF Reconcile

\* Every step does.
LEMMA TruthfulNext ==
  ASSUME RInv, NilIsNoSnapshot, "status" \notin Faults, [Next]_vars, IInv'
  PROVE  Truthful'
<1> USE DEF workVars, queueVars, apiVars
<1>1. TypeOK /\ IInv /\ Truthful
  BY DEF RInv, IInv
<1>2. CASE User
  <2>1. PICK id \in Ids : \E obj : userWrite(id, obj)
    BY <1>2, BoundsAssumption, Zenon DEF User, Apply, Delete, CreateProxy, TouchProxy
  <2>2. PICK obj :
        /\ write(id, obj) /\ epCurrent' = (epCurrent /\ id # req)
        /\ UNCHANGED <<cache, notifs, dirty, backoff, missed, snapshots, pc, req, lists, synth>>
    BY <2>1 DEF userWrite
  <2>3. \A p \in Proxies : Settled(p)' => Settled(p) /\ id # p /\ api'[p] = api[p]
    BY <1>1, <2>2, WriteUnsettles
  <2>4. \A p \in Proxies : p = req /\ Settled(p)' => epCurrent' = epCurrent
    BY <1>1, <2>2, <2>3 DEF TypeOK
  <2> QED
    BY <1>1, <2>2, <2>3, <2>4, TruthfulKept
<1>3. CASE \E k \in WatchedKinds : Deliver(k)
  <2>1. \A p \in Proxies : Settled(p)' => Settled(p)
    BY <1>1, <1>3, DeliverySettled
  <2>2. UNCHANGED <<api, snapshots, pc, req, lists, synth, epCurrent>>
    BY <1>3 DEF Deliver
  <2> QED
    BY <1>1, <2>1, <2>2, TruthfulKept
<1>4. CASE (\E k \in WatchedKinds : Handle(k)) \/ DropSliceEvent
  <2>1. PICK k \in WatchedKinds : handles(k)
    BY <1>4, KindFacts DEF handles
  <2>2. UNCHANGED <<api, watch, cache, snapshots, pc, req, lists, synth, epCurrent>>
    BY <2>1 DEF handles, Handle, DropSliceEvent
  <2>3. ASSUME NEW p \in Proxies, Settled(p)' PROVE Settled(p)
    <3>1. /\ p \notin (dirty \cup backoff \cup missed)' /\ NoEvent(p)
          /\ \A j \in WatchedKinds : \A i \in DOMAIN notifs'[j] : p \notin requestsOf(notifs'[j][i], cache)
      BY <2>2, <2>3 DEF Settled, Untouched, NoEvent
    <3> QED
      BY <1>1, <2>1, <3>1, HandledDisturbs DEF Settled
  <2> QED
    BY <1>1, <2>2, <2>3, TruthfulKept
<1>5. CASE \E q \in Proxies : Dequeue(q)
  <2>1. PICK q \in Proxies : Dequeue(q)
    BY <1>5
  <2>2. /\ pc' = "get" /\ req' = q /\ req = Nil /\ dirty' = dirty \ {q} /\ missed' = missed \ {q}
        /\ UNCHANGED <<api, watch, cache, notifs, backoff, snapshots>>
    BY <1>1, <2>1, ZenonT(30) DEF Dequeue, TypeOK
  <2>3. ReportsWhenDone'
    <3> SUFFICES ASSUME NEW p \in Proxies, api[p] # Nil, Settled(p)', p # q PROVE Reported(p)'
      BY <2>2, ReportedWhenSettledAfter
    <3>1. Settled(p)
      BY <2>2 DEF Settled, Untouched, NoEvent
    <3>2. Reported(p)
      BY <1>1, <2>2, <3>1, NilAssumption, ReportedWhenSettled, ZenonT(30) DEF Truthful
    <3> QED
      BY <2>2, <3>2 DEF Reported
  <2> QED
    BY <2>2, <2>3 DEF Truthful, VersionStored, CopyCurrent
<1>6. CASE \/ \E q \in Proxies : RetryAfterBackoff(q)
           \/ \E n \in Streaming : StreamChange(n)
           \/ UNCHANGED vars
  <2>1. /\ UNCHANGED <<api, watch, cache, notifs, missed, snapshots, pc, req, lists, synth, epCurrent>>
        /\ dirty \cup backoff \subseteq dirty' \cup backoff'
    BY <1>6 DEF RetryAfterBackoff, StreamChange, vars
  <2>2. \A p \in Proxies : Settled(p)' => Settled(p)
    BY <2>1 DEF Settled, Untouched, NoEvent
  <2> QED
    BY <1>1, <2>1, <2>2, TruthfulKept
<1>7. CASE Restart
  <2>1. /\ pc' = "idle" /\ api' = api /\ cache' = api /\ notifs' = initialNotifs(api) /\ IsStore(api)
    BY <1>1, <1>7, ZenonT(30) DEF Restart, forget, TypeOK
  <2>2. \A p \in Proxies : api[p] # Nil => ~ Settled(p)'
    BY <2>1, NoneQuietAtStart, KindFacts, ZenonT(30) DEF Settled, Untouched
  <2>3. ReportsWhenDone'
    BY <2>1, <2>2, ReportedWhenSettledAfter
  <2> QED
    BY <2>1, <2>3 DEF Truthful, VersionStored, CopyCurrent
<1> QED
  BY <1>2, <1>3, <1>4, <1>5, <1>6, <1>7, TruthfulReconcile DEF Next, Informer

\* Ready is True and quotes the version of the snapshot that is served,
\* whenever nothing is left to do for an EnvoyProxy, for every interleaving of
\* status updates with users' writes, failures and restarts, if no update is
\* lost on its way to the API server.
THEOREM ReportedOnceDone ==
  ASSUME "status" \notin Faults, NilIsNoSnapshot
  PROVE  Spec => []ReportsWhenDone
<1>1. Init => Truthful
  <2> SUFFICES ASSUME Init PROVE Truthful
    OBVIOUS
  <2>1. \A p \in Proxies : api[p] # Nil => ~ Settled(p)
    BY TypeInit, NoneQuietAtStart, KindFacts, ZenonT(30) DEF Init, TypeOK, Settled, Untouched
  <2> QED
    BY <2>1, ReportedWhenSettled, ZenonT(30) DEF Init, Truthful, VersionStored, CopyCurrent
<1>2. IInv /\ IInv' /\ CacheTracksApi /\ Truthful /\ [Next]_vars => Truthful'
  BY TruthfulNext DEF RInv
<1>3. IInv => TypeOK
  BY DEF IInv
<1>4. Truthful => ReportsWhenDone
  BY DEF Truthful
<1> QED
  BY <1>1, <1>2, <1>3, <1>4, IInvInit, IInvNext, TracksInit, TracksNext, PTL DEF Spec

\* So a Ready condition that is True quotes the version of the stored snapshot,
\* although setCondition ignores conflicts.
THEOREM ReadyTruthful ==
  ASSUME "status" \notin Faults, NilIsNoSnapshot
  PROVE  Spec => []ReadyReportsVersion
<1>1. ReportsWhenDone => ReadyReportsVersion
  BY DEF ReportsWhenDone, ReadyReportsVersion, Reported, NoEvent
<1> QED BY <1>1, ReportedOnceDone, PTL

=============================================================================
