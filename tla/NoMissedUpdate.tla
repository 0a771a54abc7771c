---------------------------- MODULE NoMissedUpdate ----------------------------
(***************************************************************************)
(* No update is missed.                                                    *)
(*                                                                         *)
(* QuietServesCache says nothing of a proxy whose reconcile is running, so *)
(* it is not inductive.  The invariant that is adds what a running         *)
(* reconcile relies on: as long as no later change of the caches has been  *)
(* turned into a new request for its proxy, what it has read so far is     *)
(* what the caches still hold.                                             *)
(***************************************************************************)
EXTENDS EnvoyProxyControllerProofs

\* The provers a leaf is tried with when it names none, and their time in seconds.
USE SMTT(30), ZenonT(30)

\* No request for p is queued, delayed, dropped or about to be enqueued.
Untouched(p) ==
  /\ p \notin dirty \cup backoff \cup missed
  /\ \A k \in WatchedKinds : \A i \in DOMAIN notifs[k] : p \notin requestsOf(notifs[k][i], cache)

\* The kinds Reconcile has listed when it is at a step.
ReadAt(step) ==
  CASE step \in {"idle", "get", "listeners"} -> {}
    [] step = "clusters" -> {"Listener"}
    [] step = "routes" -> {"Listener", "Cluster"}
    [] step = "scopedRoutes" -> {"Listener", "Cluster", "RouteConfiguration"}
    [] step = "endpoints" -> XdsKinds \ {"ClusterLoadAssignment"}
    [] OTHER -> XdsKinds

\* What a running reconcile has read is what the caches hold.
ReadsCurrent ==
  /\ \A k \in ReadAt(pc) : lists[k] \in Listings(collected(cache, req, k))
  /\ pc = "slices" =>
       \A i \in DOMAIN synth :
         synth[i] \in contributions(cache, lists["Cluster"][i], lists["ClusterLoadAssignment"])
  /\ pc \in {"isConnected", "setConnected", "setReady"} =>
       ServesStore(cache, req, snapshots[nodeID(req)])

\* The endpoints are not synthesised before the clusters are listed, nor for
\* more clusters than were listed.
SynthInStep ==
  /\ pc \in {"idle", "get", "listeners", "clusters", "routes", "scopedRoutes", "endpoints"} =>
       synth = <<>>
  /\ pc = "slices" => Len(synth) <= Len(lists["Cluster"])

IInv ==
  /\ TypeOK
  /\ SynthInStep
  /\ QuietServesCache
  /\ pc # "idle" /\ Untouched(req) => ReadsCurrent

\* Store s2 is store s1 after the change that notification n reports.
IsChange(s1, s2, n) ==
  /\ DOMAIN s1 = Ids /\ n.id \in Ids
  /\ n.old = s1[n.id] /\ s2 = [s1 EXCEPT ![n.id] = n.new]

\* A change that is not mapped to a proxy changes nothing its snapshot is
\* built from, nor which other changes are mapped to it.
LEMMA UnmappedChange ==
  ASSUME NEW s1, NEW s2, NEW n0, IsChange(s1, s2, n0),
         NEW p \in Proxies, p \notin requestsOf(n0, s2)
  PROVE  /\ \A k \in XdsKinds : collected(s2, p, k) = collected(s1, p, k)
         /\ \A c \in collected(s1, p, "Cluster") : serviceSlices(s2, c) = serviceSlices(s1, c)
         /\ \A n : p \in requestsOf(n, s1) => p \in requestsOf(n, s2)
         /\ s2[p] = s1[p]
<1> DEFINE i == n0.id
<1>1. i \in Ids /\ s2[i] = n0.new /\ s1[i] = n0.old /\ \A j \in Ids \ {i} : s2[j] = s1[j]
  BY DEF IsChange
<1>2. p \notin requestsOf(n0, s2)
  OBVIOUS
<1> HIDE DEF i
<1>0. i = n0.id
  BY DEF i
<1>3. Resources \subseteq Ids /\ Slices \subseteq Ids /\ Proxies \subseteq Ids
  BY DEF Ids
<1>4. CASE i \in Proxies
  <2>1. i # p
    BY <1>0, <1>2, <1>4, KindFacts DEF requestsOf
  <2>2. \A j \in Resources \cup Slices : s2[j] = s1[j]
    BY <1>1, <1>3, <1>4, KindFacts
  <2>3. \A k \in XdsKinds : collected(s2, p, k) = collected(s1, p, k)
    BY <2>2 DEF collected
  <2>4. \A c : serviceSlices(s2, c) = serviceSlices(s1, c)
    BY <2>2 DEF serviceSlices
  <2>5. \A n : p \in requestsOf(n, s1) => p \in requestsOf(n, s2)
    <3>1. \A sid, x : mapEndpointSliceToProxies(sid, x, s1) = mapEndpointSliceToProxies(sid, x, s2)
      BY <2>2 DEF mapEndpointSliceToProxies
    <3> QED
      BY <3>1 DEF requestsOf
  <2> QED
    BY <1>1, <1>3, <2>1, <2>3, <2>4, <2>5
<1>5. CASE i \in Resources
  <2>1. i.kind # "EnvoyProxy" /\ i.kind # "EndpointSlice"
    BY <1>5, KindFacts DEF XdsKinds
  <2>2. /\ s1[i] # Nil => p \notin mapXDSResourceToProxy(i, s1[i])
        /\ s2[i] # Nil => p \notin mapXDSResourceToProxy(i, s2[i])
    BY <1>0, <1>1, <1>2, <2>1 DEF requestsOf
  <2>3. /\ s1[i] # Nil => ~ targetMatches(s1[i].m.targetRef, i.ns, p)
        /\ s2[i] # Nil => ~ targetMatches(s2[i].m.targetRef, i.ns, p)
    BY <2>2, MapAgreesWithTarget
  <2>4. \A k \in XdsKinds : collected(s2, p, k) = collected(s1, p, k)
    BY <1>1, <1>3, <2>3 DEF collected
  <2>5. \A c : serviceSlices(s2, c) = serviceSlices(s1, c)
    BY <1>1, <1>3, <1>5, KindFacts DEF serviceSlices
  <2>6. ASSUME NEW sid, NEW x, p \in mapEndpointSliceToProxies(sid, x, s1)
        PROVE  p \in mapEndpointSliceToProxies(sid, x, s2)
    BY <1>1, <1>3, <2>2, <2>6 DEF mapEndpointSliceToProxies
  <2>7. ASSUME NEW n, p \in requestsOf(n, s1) PROVE p \in requestsOf(n, s2)
    <3>1. CASE n.id.kind = "EndpointSlice"
      <4>1. PICK x \in {n.old, n.new} \ {Nil} : p \in mapEndpointSliceToProxies(n.id, x, s1)
        BY <2>7, <3>1 DEF requestsOf
      <4>2. p \in mapEndpointSliceToProxies(n.id, x, s2)
        BY <2>6, <4>1
      <4> QED
        BY <3>1, <4>2 DEF requestsOf
    <3>2. CASE n.id.kind # "EndpointSlice"
      BY <2>7, <3>2 DEF requestsOf
    <3> QED
      BY <3>1, <3>2
  <2> QED
    BY <1>1, <1>3, <1>5, <2>4, <2>5, <2>7, KindFacts
<1>6. CASE i \in Slices
  <2>1. i.kind = "EndpointSlice"
    BY <1>6, KindFacts
  <2>2. \A j \in Resources \cup Proxies : s2[j] = s1[j]
    BY <1>1, <1>3, <1>6, KindFacts
  <2>3. \A k \in XdsKinds : collected(s2, p, k) = collected(s1, p, k)
    BY <2>2 DEF collected
  <2>4. \A x \in {s1[i], s2[i]} \ {Nil} : p \notin mapEndpointSliceToProxies(i, x, s2)
    BY <1>0, <1>1, <1>2, <2>1 DEF requestsOf
  <2>5. ASSUME NEW c \in collected(s1, p, "Cluster"), NEW x \in {s1[i], s2[i]} \ {Nil},
               x.m.service # Nil
        PROVE  ~ serviceMatches(c.obj.m.ref, c.id.ns, x.m.service, i.ns)
    <3>1. PICK r \in Resources : /\ c = [id |-> r, obj |-> s1[r]]
                                 /\ r.kind = "Cluster" /\ s1[r] # Nil
                                 /\ targetMatches(s1[r].m.targetRef, r.ns, p)
      BY DEF collected
    <3>2. p \in mapXDSResourceToProxy(r, s2[r])
      BY <2>2, <3>1, MapAgreesWithTarget
    <3>3. ~ serviceMatches(s2[r].m.ref, r.ns, x.m.service, i.ns)
      BY <2>2, <2>4, <2>5, <3>1, <3>2 DEF mapEndpointSliceToProxies
    <3> QED
      BY <2>2, <3>1, <3>3
  <2>6. ASSUME NEW c \in collected(s1, p, "Cluster")
        PROVE  serviceSlices(s2, c) = serviceSlices(s1, c)
    BY <1>1, <1>3, <2>5 DEF serviceSlices
  <2>7. \A n : p \in requestsOf(n, s1) => p \in requestsOf(n, s2)
    <3>1. \A sid, x : mapEndpointSliceToProxies(sid, x, s1) = mapEndpointSliceToProxies(sid, x, s2)
      BY <2>2 DEF mapEndpointSliceToProxies
    <3> QED
      BY <3>1 DEF requestsOf
  <2> QED
    BY <2>2, <2>3, <2>6, <2>7
<1> QED
  BY <1>1, <1>4, <1>5, <1>6 DEF Ids

\* A snapshot depends on a store only through the CRs that target its proxy
\* and the slices of their Services.
LEMMA ServesSame ==
  ASSUME NEW s1, NEW s2, NEW p, NEW snap,
         \A k \in XdsKinds : collected(s2, p, k) = collected(s1, p, k),
         \A c \in collected(s1, p, "Cluster") : serviceSlices(s2, c) = serviceSlices(s1, c),
         ServesStore(s1, p, snap)
  PROVE  ServesStore(s2, p, snap)
<1>1. \A c \in collected(s1, p, "Cluster") : \A m : contributions(s2, c, m) = contributions(s1, c, m)
  BY ZenonT(30) DEF contributions
<1>2. \A c \in Listings(collected(s1, p, "Cluster")) : \A i \in DOMAIN c : c[i] \in collected(s1, p, "Cluster")
  BY FiniteCollected, ListingFacts
<1>3. /\ "Listener" \in XdsKinds /\ "Cluster" \in XdsKinds /\ "RouteConfiguration" \in XdsKinds
      /\ "ScopedRouteConfiguration" \in XdsKinds /\ "ClusterLoadAssignment" \in XdsKinds
  BY DEF XdsKinds
<1> DEFINE lists5(l, c, r, sr, m) ==
             [k \in XdsKinds |-> CASE k = "Listener" -> l
                                   [] k = "Cluster" -> c
                                   [] k = "RouteConfiguration" -> r
                                   [] k = "ScopedRouteConfiguration" -> sr
                                   [] k = "ClusterLoadAssignment" -> m]
<1>4. PICK l  \in Listings(collected(s1, p, "Listener")),
           c  \in Listings(collected(s1, p, "Cluster")),
           r  \in Listings(collected(s1, p, "RouteConfiguration")),
           sr \in Listings(collected(s1, p, "ScopedRouteConfiguration")),
           m  \in Listings(collected(s1, p, "ClusterLoadAssignment")) :
        \E sy \in [DOMAIN c -> UNION {contributions(s1, c[i], m) : i \in DOMAIN c}] :
          /\ \A i \in DOMAIN c : sy[i] \in contributions(s1, c[i], m)
          /\ snap = snapshotOf(lists5(l, c, r, sr, m), sy)
  BY Zenon DEF ServesStore, CallsFor
<1>5. \A i \in DOMAIN c : contributions(s2, c[i], m) = contributions(s1, c[i], m)
  BY <1>1, <1>2
<1>6. {contributions(s2, c[i], m) : i \in DOMAIN c} = {contributions(s1, c[i], m) : i \in DOMAIN c}
  BY <1>5
<1> HIDE DEF lists5
<1>7. \E sy \in [DOMAIN c -> UNION {contributions(s2, c[i], m) : i \in DOMAIN c}] :
          /\ \A i \in DOMAIN c : sy[i] \in contributions(s2, c[i], m)
          /\ snap = snapshotOf(lists5(l, c, r, sr, m), sy)
  BY <1>4, <1>5, <1>6
<1>8. /\ l \in Listings(collected(s2, p, "Listener")) /\ c \in Listings(collected(s2, p, "Cluster"))
      /\ r \in Listings(collected(s2, p, "RouteConfiguration"))
      /\ sr \in Listings(collected(s2, p, "ScopedRouteConfiguration"))
      /\ m \in Listings(collected(s2, p, "ClusterLoadAssignment"))
  BY <1>3, <1>4
<1> QED
  BY <1>7, <1>8, Zenon DEF ServesStore, CallsFor, lists5

\* What a reconcile that has read the current objects builds serves them.
LEMMA BuiltServes ==
  ASSUME NEW store, NEW p, NEW ls, NEW sy,
         DOMAIN ls = XdsKinds, ls = [k \in XdsKinds |-> ls[k]],
         \A k \in XdsKinds : ls[k] \in Listings(collected(store, p, k)),
         IsSeq(sy), IsSeq(ls["Cluster"]), Len(sy) = Len(ls["Cluster"]),
         \A i \in DOMAIN sy :
           sy[i] \in contributions(store, ls["Cluster"][i], ls["ClusterLoadAssignment"])
  PROVE  ServesStore(store, p, snapshotOf(ls, sy))
<1> DEFINE l == ls["Listener"]
           c == ls["Cluster"]
           r == ls["RouteConfiguration"]
           sr == ls["ScopedRouteConfiguration"]
           m == ls["ClusterLoadAssignment"]
           ls5 == [k \in XdsKinds |-> CASE k = "Listener" -> l
                                        [] k = "Cluster" -> c
                                        [] k = "RouteConfiguration" -> r
                                        [] k = "ScopedRouteConfiguration" -> sr
                                        [] k = "ClusterLoadAssignment" -> m]
<1>1. ls5 = ls
  BY DEF XdsKinds
<1>2. /\ l \in Listings(collected(store, p, "Listener")) /\ c \in Listings(collected(store, p, "Cluster"))
      /\ r \in Listings(collected(store, p, "RouteConfiguration"))
      /\ sr \in Listings(collected(store, p, "ScopedRouteConfiguration"))
      /\ m \in Listings(collected(store, p, "ClusterLoadAssignment"))
  BY DEF XdsKinds
<1>3. DOMAIN sy = DOMAIN c /\ sy = [i \in DOMAIN sy |-> sy[i]]
  BY DEF IsSeq
<1>4. sy \in [DOMAIN c -> UNION {contributions(store, c[i], m) : i \in DOMAIN c}]
  BY <1>3, ZenonT(30)
<1>5. \A i \in DOMAIN c : sy[i] \in contributions(store, c[i], m)
  BY <1>3, ZenonT(30)
<1>6. snapshotOf(ls, sy) = snapshotOf(ls5, sy)
  BY <1>1, ZenonT(30)
<1> QED
  BY <1>2, <1>4, <1>5, <1>6, Zenon DEF ServesStore, CallsFor

\* Steps outside the caches, the queue and Reconcile preserve the invariant.
LEMMA IInvFrame ==
  ASSUME IInv, TypeOK',
         UNCHANGED <<cache, notifs, dirty, backoff, missed, pc, req, lists, synth, snapshots>>
  PROVE  IInv'
<1>1. SynthInStep'
  BY DEF IInv, SynthInStep
<1>2. QuietServesCache'
  BY DEF IInv, QuietServesCache, Quiet
<1>3. (pc # "idle" /\ Untouched(req) => ReadsCurrent)'
  BY DEF IInv, Untouched, ReadsCurrent
<1> QED
  BY <1>1, <1>2, <1>3 DEF IInv

\* While one proxy's queue entries only grow less quiet and its snapshot stays,
\* nothing changes for it.
LEMMA QuietKept ==
  ASSUME IInv, NEW p \in Proxies, Quiet(p), cache[p] # Nil
  PROVE  ServesStore(cache, p, snapshots[nodeID(p)])
BY DEF IInv, QuietServesCache

\* Applying a watch event: either it is mapped to a proxy, which then has a
\* notification pending, or it does not concern the proxy.
LEMMA UnmappedDelivery ==
  ASSUME TypeOK, NEW k \in WatchedKinds, Deliver(k), NEW p \in Proxies,
         p \notin dirty \cup backoff \cup missed,
         \A j \in WatchedKinds : \A i \in DOMAIN notifs'[j] : p \notin requestsOf(notifs'[j][i], cache')
  PROVE  /\ \A j \in WatchedKinds : \A i \in DOMAIN notifs[j] : p \notin requestsOf(notifs[j][i], cache)
         /\ \A j \in XdsKinds : collected(cache', p, j) = collected(cache, p, j)
         /\ \A c \in collected(cache, p, "Cluster") : serviceSlices(cache', c) = serviceSlices(cache, c)
         /\ cache'[p] = cache[p]
<1> DEFINE e == Head(watch[k])
           n == [id |-> e.id, old |-> cache[e.id], new |-> e.new]
<1>1. e.id \in Ids /\ DOMAIN cache = Ids
  <2>1. IsSeq(watch[k]) /\ watch[k] # <<>> /\ \A i \in DOMAIN watch[k] : IsEvent(watch[k][i], k)
    BY DEF TypeOK, Deliver
  <2> QED
    BY <2>1, TailFacts DEF IsEvent, TypeOK, IsStore
<1>2. cache' = [cache EXCEPT ![e.id] = e.new]
  BY DEF Deliver
<1>3. /\ IsSeq(notifs[k]) /\ notifs'[k] = Append(notifs[k], n)
      /\ \A j \in WatchedKinds \ {k} : notifs'[j] = notifs[j]
  BY ZenonT(30) DEF Deliver, TypeOK
<1> HIDE DEF n
<1>4. /\ \A i \in DOMAIN notifs[k] : i \in DOMAIN notifs'[k] /\ notifs'[k][i] = notifs[k][i]
      /\ \E i \in DOMAIN notifs'[k] : notifs'[k][i] = n
  BY <1>3, AppendFacts
<1>5. p \notin requestsOf(n, cache')
  BY <1>4
<1>6. /\ \A j \in XdsKinds : collected(cache', p, j) = collected(cache, p, j)
      /\ \A c \in collected(cache, p, "Cluster") : serviceSlices(cache', c) = serviceSlices(cache, c)
      /\ \A m : p \in requestsOf(m, cache) => p \in requestsOf(m, cache')
      /\ cache'[p] = cache[p]
  <2>1. IsChange(cache, cache', n)
    BY <1>1, <1>2 DEF n, IsChange
  <2> QED
    BY <1>5, <2>1, UnmappedChange, Zenon
<1>7. \A j \in WatchedKinds : \A i \in DOMAIN notifs[j] : p \notin requestsOf(notifs[j][i], cache)
  BY <1>3, <1>4, <1>6
<1> QED
  BY <1>6, <1>7

\* So applying a watch event preserves the invariant.
LEMMA IInvDeliver == \A k \in WatchedKinds : IInv /\ Deliver(k) /\ TypeOK' => IInv'
<1> SUFFICES ASSUME NEW k \in WatchedKinds, IInv, Deliver(k), TypeOK' PROVE IInv'
  OBVIOUS
<1>1. TypeOK
  BY DEF IInv
<1>2. ASSUME NEW p \in Proxies,
             p \notin dirty \cup backoff \cup missed,
             \A j \in WatchedKinds : \A i \in DOMAIN notifs'[j] :
               p \notin requestsOf(notifs'[j][i], cache')
      PROVE  /\ \A j \in WatchedKinds : \A i \in DOMAIN notifs[j] :
                  p \notin requestsOf(notifs[j][i], cache)
             /\ \A j \in XdsKinds : collected(cache', p, j) = collected(cache, p, j)
             /\ \A c \in collected(cache, p, "Cluster") : serviceSlices(cache', c) = serviceSlices(cache, c)
             /\ cache'[p] = cache[p]
  BY <1>1, <1>2, UnmappedDelivery, Zenon
<1>3. QuietServesCache'
  <2> SUFFICES ASSUME NEW p \in Proxies, cache'[p] # Nil, Quiet(p)'
               PROVE  ServesStore(cache', p, snapshots'[nodeID(p)])
    BY DEF QuietServesCache
  <2>1. /\ p \notin dirty \cup backoff \cup missed /\ req # p
        /\ \A j \in WatchedKinds : \A i \in DOMAIN notifs'[j] :
             p \notin requestsOf(notifs'[j][i], cache')
    BY ZenonT(30) DEF Quiet, Deliver, queueVars
  <2>2. Quiet(p) /\ cache[p] # Nil
    BY <1>2, <2>1 DEF Quiet
  <2>3. ServesStore(cache, p, snapshots[nodeID(p)])
    BY <2>2, QuietKept
  <2>4. ServesStore(cache', p, snapshots[nodeID(p)])
    BY <1>2, <2>1, <2>3, ServesSame
  <2> QED
    BY <2>4 DEF Deliver
<1>4. ASSUME (pc # "idle" /\ Untouched(req))' PROVE ReadsCurrent'
  <2>1. /\ pc # "idle" /\ req \in Proxies
        /\ pc' = pc /\ req' = req /\ lists' = lists /\ synth' = synth /\ snapshots' = snapshots
    BY <1>1, <1>4, ZenonT(30) DEF Deliver, TypeOK, workVars
  <2>2. /\ req \notin dirty \cup backoff \cup missed
        /\ \A j \in WatchedKinds : \A i \in DOMAIN notifs'[j] :
             req \notin requestsOf(notifs'[j][i], cache')
    BY <1>4, <2>1, ZenonT(30) DEF Untouched, Deliver, queueVars
  <2>3. /\ Untouched(req)
        /\ \A j \in XdsKinds : collected(cache', req, j) = collected(cache, req, j)
        /\ \A c \in collected(cache, req, "Cluster") : serviceSlices(cache', c) = serviceSlices(cache, c)
    BY <1>2, <2>1, <2>2, ZenonT(30) DEF Untouched
  <2>4. ReadsCurrent
    BY <2>1, <2>3 DEF IInv
  <2>5. \A j \in ReadAt(pc) : j \in XdsKinds
    BY <1>1 DEF ReadAt, XdsKinds, TypeOK, Steps
  <2>6. \A j \in ReadAt(pc) : lists[j] \in Listings(collected(cache', req, j))
    BY <2>3, <2>4, <2>5 DEF ReadsCurrent
  <2>7. ASSUME pc = "slices", NEW i \in DOMAIN synth
        PROVE  synth[i] \in contributions(cache', lists["Cluster"][i], lists["ClusterLoadAssignment"])
    <3>1. i \in DOMAIN lists["Cluster"] /\ lists["Cluster"] \in Listings(collected(cache, req, "Cluster"))
      <4>1. "Cluster" \in ReadAt(pc)
        BY <2>7 DEF ReadAt, XdsKinds
      <4>2. IsSeq(synth) /\ IsSeq(lists["Cluster"]) /\ Len(synth) <= Len(lists["Cluster"])
        BY <1>1, <2>7, ZenonT(30) DEF IInv, SynthInStep, TypeOK, XdsKinds
      <4> QED
        BY <2>4, <2>7, <4>1, <4>2 DEF ReadsCurrent, IsSeq
    <3>2. lists["Cluster"][i] \in collected(cache, req, "Cluster")
      BY <3>1, FiniteCollected, ListingFacts
    <3>3. serviceSlices(cache', lists["Cluster"][i]) = serviceSlices(cache, lists["Cluster"][i])
      BY <2>3, <3>2
    <3>4. synth[i] \in contributions(cache, lists["Cluster"][i], lists["ClusterLoadAssignment"])
      BY <2>4, <2>7 DEF ReadsCurrent
    <3> QED
      BY <3>3, <3>4, ZenonT(30) DEF contributions
  <2>8. pc \in {"isConnected", "setConnected", "setReady"} => ServesStore(cache', req, snapshots[nodeID(req)])
    BY <2>3, <2>4, ServesSame DEF ReadsCurrent
  <2> QED
    BY <2>1, <2>6, <2>7, <2>8 DEF ReadsCurrent
<1>5. SynthInStep'
  BY DEF IInv, SynthInStep, Deliver, workVars
<1> QED
  BY <1>3, <1>4, <1>5 DEF IInv

\* The handlers turn a notification into requests, or its loss is recorded.
handles(k) == Handle(k) \/ (DropSliceEvent /\ k = "EndpointSlice")

\* A notification is only taken off its queue for requests.
LEMMA HandledDisturbs ==
  ASSUME TypeOK, NEW k \in WatchedKinds, handles(k), NEW p,
         p \notin (dirty \cup backoff \cup missed)',
         \A j \in WatchedKinds : \A i \in DOMAIN notifs'[j] : p \notin requestsOf(notifs'[j][i], cache)
  PROVE  Untouched(p)
<1>1. /\ IsSeq(notifs[k]) /\ notifs[k] # <<>> /\ notifs'[k] = Tail(notifs[k])
      /\ \A j \in WatchedKinds \ {k} : notifs'[j] = notifs[j]
  BY DEF TypeOK, handles, Handle, DropSliceEvent
<1>2. /\ backoff' = backoff
      /\ dirty \cup missed \cup requestsOf(Head(notifs[k]), cache) \subseteq dirty' \cup missed'
  <2>1. CASE Handle(k)
    BY <2>1 DEF Handle
  <2>2. CASE DropSliceEvent /\ k = "EndpointSlice"
    <3>1. Head(notifs[k]).id.kind = "EndpointSlice" /\ backoff' = backoff
      BY <1>1, <2>2, TailFacts DEF TypeOK, IsNotif, IsEvent, DropSliceEvent
    <3> QED BY <2>2, <3>1, DropSplits
  <2> QED BY <2>1, <2>2 DEF handles
<1>3. \A i \in DOMAIN notifs[k] :
        \/ notifs[k][i] = Head(notifs[k])
        \/ \E j \in DOMAIN notifs'[k] : notifs'[k][j] = notifs[k][i]
  <2> SUFFICES ASSUME NEW i \in DOMAIN notifs[k], notifs[k][i] # Head(notifs[k])
               PROVE  \E j \in DOMAIN notifs'[k] : notifs'[k][j] = notifs[k][i]
    OBVIOUS
  <2>1. i \in 1..Len(notifs[k]) /\ i # 1 /\ Len(notifs[k]) \in Nat
    BY <1>1, TailFacts
  <2>2. i - 1 \in 1..(Len(notifs[k]) - 1)
    BY <2>1
  <2>3. i - 1 \in DOMAIN notifs'[k] /\ notifs'[k][i - 1] = notifs[k][(i - 1) + 1]
    BY <1>1, <2>2, TailFacts
  <2> QED
    BY <2>1, <2>3
<1>4. p \notin dirty \cup backoff \cup missed /\ p \notin requestsOf(Head(notifs[k]), cache)
  BY <1>2
<1>5. \A i \in DOMAIN notifs[k] : p \notin requestsOf(notifs[k][i], cache)
  BY <1>3, <1>4
<1>6. \A j \in WatchedKinds : \A i \in DOMAIN notifs[j] : p \notin requestsOf(notifs[j][i], cache)
  BY <1>1, <1>5
<1> QED
  BY <1>4, <1>6 DEF Untouched

\* So the handlers preserve the invariant.
LEMMA IInvHandle == \A k \in WatchedKinds : IInv /\ handles(k) /\ TypeOK' => IInv'
<1> SUFFICES ASSUME NEW k \in WatchedKinds, IInv, handles(k), TypeOK' PROVE IInv'
  OBVIOUS
<1>1. /\ cache' = cache /\ snapshots' = snapshots /\ req' = req /\ pc' = pc
      /\ lists' = lists /\ synth' = synth
  BY DEF handles, Handle, DropSliceEvent, workVars
<1>2. ASSUME NEW p, p \notin (dirty \cup backoff \cup missed)',
             \A j \in WatchedKinds : \A i \in DOMAIN notifs'[j] :
               p \notin requestsOf(notifs'[j][i], cache)
      PROVE  Untouched(p)
  BY <1>2, HandledDisturbs DEF IInv
<1>3. QuietServesCache'
  <2> SUFFICES ASSUME NEW p \in Proxies, cache[p] # Nil, Quiet(p)'
               PROVE  ServesStore(cache, p, snapshots[nodeID(p)])
    BY <1>1 DEF QuietServesCache
  <2>1. Untouched(p) /\ req # p
    BY <1>1, <1>2 DEF Quiet
  <2> QED
    BY <2>1, QuietKept DEF Quiet, Untouched
<1>4. ASSUME (pc # "idle" /\ Untouched(req))' PROVE ReadsCurrent'
  <2>1. pc # "idle" /\ Untouched(req)
    BY <1>1, <1>2, <1>4 DEF Untouched
  <2> QED
    BY <1>1, <2>1 DEF IInv, ReadsCurrent
<1>5. SynthInStep'
  BY <1>1 DEF IInv, SynthInStep
<1> QED
  BY <1>3, <1>4, <1>5 DEF IInv

\* The workqueue hands a request to Reconcile, which has read nothing yet, or
\* takes back one that was delayed.
LEMMA IInvQueue ==
  \A p \in Proxies : IInv /\ (Dequeue(p) \/ RetryAfterBackoff(p)) /\ TypeOK' => IInv'
<1> SUFFICES ASSUME NEW p \in Proxies, IInv, TypeOK', Dequeue(p) \/ RetryAfterBackoff(p)
             PROVE  IInv'
  OBVIOUS
<1>1. CASE Dequeue(p)
  <2>1. SynthInStep'
    BY <1>1 DEF IInv, SynthInStep, Dequeue, workVars
  <2>2. QuietServesCache'
    <3> SUFFICES ASSUME NEW q \in Proxies, cache'[q] # Nil, Quiet(q)'
                 PROVE  ServesStore(cache', q, snapshots'[nodeID(q)])
      BY DEF QuietServesCache
    <3>1. req # q
      BY <1>1, NilAssumption, ZenonT(30) DEF Dequeue, IInv, TypeOK
    <3>2. Quiet(q) /\ cache[q] # Nil
      BY <1>1, <3>1 DEF Dequeue, Quiet
    <3> QED
      BY <1>1, <3>2, QuietKept DEF Dequeue
  <2>3. ReadsCurrent'
    BY <1>1 DEF ReadsCurrent, ReadAt, Dequeue
  <2> QED
    BY <2>1, <2>2, <2>3 DEF IInv
<1>2. CASE RetryAfterBackoff(p)
  <2>1. SynthInStep'
    BY <1>2 DEF IInv, SynthInStep, RetryAfterBackoff, workVars
  <2>2. QuietServesCache'
    BY <1>2, ZenonT(30) DEF IInv, QuietServesCache, Quiet, RetryAfterBackoff
  <2>3. (pc # "idle" /\ Untouched(req) => ReadsCurrent)'
    BY <1>2, ZenonT(30) DEF IInv, Untouched, ReadsCurrent, RetryAfterBackoff, workVars
  <2> QED
    BY <2>1, <2>2, <2>3 DEF IInv
<1> QED
  BY <1>1, <1>2

\* A step in the middle of a reconcile has only its own reads to answer for.
LEMMA IInvMiddle ==
  ASSUME IInv, TypeOK', pc # "idle", SynthInStep',
         UNCHANGED <<cache, notifs, dirty, backoff, missed, req, snapshots>>,
         ReadsCurrent => ReadsCurrent'
  PROVE  IInv'
<1>1. QuietServesCache'
  BY DEF IInv, QuietServesCache, Quiet
<1>2. Untouched(req)' => Untouched(req)
  BY DEF Untouched
<1> QED
  BY <1>1, <1>2 DEF IInv

\* A reconcile that returns has served its proxy, or found it gone, or will
\* run again.
LEMMA IInvReturn ==
  ASSUME IInv, TypeOK', pc # "idle", forget,
         UNCHANGED <<cache, notifs, dirty, missed, snapshots>>,
         \/ backoff' = backoff \cup {req}
         \/ backoff' = backoff /\ (cache[req] = Nil \/ pc = "setReady")
  PROVE  IInv'
<1>1. SynthInStep' /\ pc' = "idle"
  BY DEF forget, SynthInStep
<1>2. QuietServesCache'
  <2> SUFFICES ASSUME NEW q \in Proxies, cache[q] # Nil, Quiet(q)'
               PROVE  ServesStore(cache, q, snapshots[nodeID(q)])
    BY DEF QuietServesCache
  <2>1. Untouched(q) /\ q \notin backoff'
    BY DEF Quiet, Untouched
  <2>2. CASE q = req
    <3>1. pc = "setReady"
      BY <2>1, <2>2
    <3>2. ReadsCurrent
      BY <2>1, <2>2 DEF IInv
    <3> QED
      BY <2>2, <3>1, <3>2 DEF ReadsCurrent
  <2>3. CASE q # req
    BY <2>1, <2>3, QuietKept, ZenonT(30) DEF Quiet, Untouched
  <2> QED
    BY <2>2, <2>3
<1> QED
  BY <1>1, <1>2 DEF IInv

\* A List adds its kind to what has been read.
LEMMA IInvCollect ==
  ASSUME IInv, TypeOK', NEW from, NEW to, NEW kind \in XdsKinds, collect(from, kind, to),
         <<from, kind, to>> \in {<<"listeners", "Listener", "clusters">>,
                                 <<"clusters", "Cluster", "routes">>,
                                 <<"routes", "RouteConfiguration", "scopedRoutes">>,
                                 <<"scopedRoutes", "ScopedRouteConfiguration", "endpoints">>,
                                 <<"endpoints", "ClusterLoadAssignment", "slices">>}
  PROVE  IInv'
<1>1. /\ from # "idle" /\ ReadAt(to) = ReadAt(from) \cup {kind} /\ kind \notin ReadAt(from)
      /\ ReadAt(from) \subseteq XdsKinds
      /\ from \in {"listeners", "clusters", "routes", "scopedRoutes", "endpoints"}
      /\ to \notin {"isConnected", "setConnected", "setReady"}
  BY DEF ReadAt, XdsKinds
<1>2. pc = from /\ pc' = to /\ synth = <<>> /\ synth' = <<>>
  BY <1>1 DEF collect, IInv, SynthInStep
<1>3. SynthInStep'
  <2>1. IsSeq(lists'["Cluster"])
    BY DEF TypeOK, XdsKinds
  <2>2. Len(lists'["Cluster"]) \in Nat /\ Len(<<>>) = 0
    BY <2>1 DEF IsSeq
  <2> QED
    BY <1>2, <2>2 DEF SynthInStep
<1>4. ReadsCurrent => ReadsCurrent'
  <2> SUFFICES ASSUME ReadsCurrent PROVE ReadsCurrent'
    OBVIOUS
  <2>1. PICK items \in Listings(collected(cache, req, kind)) :
          lists' = [lists EXCEPT ![kind] = items]
    BY ZenonT(30) DEF collect
  <2>2. cache' = cache /\ req' = req
    BY DEF collect
  <2>3. DOMAIN lists = XdsKinds
    BY ZenonT(30) DEF IInv, TypeOK
  <2>4. \A k \in ReadAt(to) : lists'[k] \in Listings(collected(cache, req, k))
    BY <1>1, <1>2, <2>1, <2>3 DEF ReadsCurrent
  <2>5. DOMAIN synth' = {}
    BY <1>2
  <2> QED
    BY <1>1, <1>2, <2>2, <2>4, <2>5, ZenonT(30) DEF ReadsCurrent
<1> QED
  BY <1>1, <1>2, <1>3, <1>4, IInvMiddle DEF collect, queueVars

\* One turn of the loop over the clusters contributes what the cache calls for.
LEMMA IInvSynthesize == IInv /\ synthesize /\ TypeOK' => IInv'
<1> SUFFICES ASSUME IInv, synthesize, TypeOK' PROVE IInv'
  OBVIOUS
<1> DEFINE cl == lists["Cluster"]
           clas == lists["ClusterLoadAssignment"]
           i0 == Len(synth) + 1
<1>1. PICK x \in contributions(cache, cl[i0], clas) : synth' = Append(synth, x)
  BY ZenonT(30) DEF synthesize
<1>2. IsSeq(synth) /\ IsSeq(cl)
  BY ZenonT(30) DEF IInv, TypeOK, XdsKinds
<1>3. /\ Len(synth) \in Nat /\ Len(cl) \in Nat /\ DOMAIN synth = 1..Len(synth)
      /\ DOMAIN synth' = 1..i0 /\ synth'[i0] = x
      /\ \A i \in 1..Len(synth) : synth'[i] = synth[i]
  BY <1>1, <1>2, AppendFacts
<1>4. /\ pc = "slices" /\ pc' = pc /\ req' = req /\ cache' = cache /\ lists' = lists
      /\ Len(synth) < Len(cl)
  BY DEF synthesize
<1>5. Len(synth') = i0
  BY <1>1, <1>2 DEF IsSeq
<1>6. SynthInStep'
  BY <1>3, <1>4, <1>5 DEF SynthInStep
<1>7. ReadsCurrent => ReadsCurrent'
  <2> SUFFICES ASSUME ReadsCurrent PROVE ReadsCurrent'
    OBVIOUS
  <2>1. \A i \in DOMAIN synth : synth[i] \in contributions(cache, cl[i], clas)
    BY <1>4, ZenonT(30) DEF ReadsCurrent
  <2>2. \A i \in DOMAIN synth' : synth'[i] \in contributions(cache, cl[i], clas)
    BY <1>1, <1>3, <2>1
  <2> QED
    BY <1>4, <2>2, ZenonT(30) DEF ReadsCurrent
<1> QED
  BY <1>4, <1>6, <1>7, IInvMiddle, ZenonT(30) DEF synthesize, queueVars

\* Publishing: the snapshot of the request's proxy, and of no other, becomes
\* what the lists call for.
LEMMA IInvSetSnapshot == IInv /\ SetSnapshot /\ TypeOK' => IInv'
<1> SUFFICES ASSUME IInv, SetSnapshot, TypeOK' PROVE IInv'
  OBVIOUS
<1> USE DEF workVars, queueVars
<1>1. /\ pc = "slices" /\ pc' \in {"isConnected", "setFailed"}
      /\ cache' = cache /\ notifs' = notifs /\ dirty' = dirty /\ backoff' = backoff
      /\ missed' = missed /\ req' = req /\ lists' = lists /\ synth' = synth
      /\ Len(synth) = Len(lists["Cluster"])
      /\ snapshots' = [snapshots EXCEPT ![nodeID(req)] = snapshotOf(lists, synth)]
  BY DEF SetSnapshot, collectedAll
<1>2. req \in Proxies /\ DOMAIN snapshots = NodeIDs /\ nodeID(req) \in NodeIDs
  BY <1>1, ZenonT(30) DEF IInv, TypeOK, NodeIDs
<1>3. QuietServesCache'
  <2> SUFFICES ASSUME NEW q \in Proxies, cache[q] # Nil, Quiet(q)'
               PROVE  ServesStore(cache, q, snapshots'[nodeID(q)])
    BY <1>1 DEF QuietServesCache
  <2>1. Quiet(q) /\ q # req
    BY <1>1, ZenonT(30) DEF Quiet
  <2>2. nodeID(q) # nodeID(req)
    BY <1>2, <2>1, NodeIDInjective
  <2>3. snapshots'[nodeID(q)] = snapshots[nodeID(q)]
    BY <1>1, <1>2, <2>2 DEF NodeIDs
  <2> QED
    BY <2>1, <2>3, QuietKept
<1>4. SynthInStep'
  BY <1>1 DEF SynthInStep
<1>5. ASSUME Untouched(req)' PROVE ReadsCurrent'
  <2>1. ReadsCurrent
    BY <1>1, <1>5 DEF IInv, Untouched
  <2>2. \A k \in XdsKinds : lists[k] \in Listings(collected(cache, req, k))
    BY <1>1, <2>1 DEF ReadsCurrent, ReadAt
  <2>3. \A i \in DOMAIN synth :
          synth[i] \in contributions(cache, lists["Cluster"][i], lists["ClusterLoadAssignment"])
    BY <1>1, <2>1, ZenonT(30) DEF ReadsCurrent
  <2>4. /\ DOMAIN lists = XdsKinds /\ lists = [k \in XdsKinds |-> lists[k]]
        /\ IsSeq(synth) /\ IsSeq(lists["Cluster"])
    BY ZenonT(30) DEF IInv, TypeOK, XdsKinds
  <2>5. ServesStore(cache, req, snapshotOf(lists, synth))
    BY <1>1, <2>2, <2>3, <2>4, BuiltServes
  <2>6. ReadAt(pc') = XdsKinds
    BY <1>1 DEF ReadAt
  <2> QED
    BY <1>1, <1>2, <2>2, <2>5, <2>6, ZenonT(30) DEF ReadsCurrent
<1> QED
  BY <1>3, <1>4, <1>5 DEF IInv

\* Every step of Reconcile.
LEMMA IInvReconcile == IInv /\ (Reconcile \/ ReadFails) /\ TypeOK' => IInv'
<1> SUFFICES ASSUME IInv, Reconcile \/ ReadFails, TypeOK' PROVE IInv'
  OBVIOUS
<1> USE DEF workVars, queueVars
<1>1. CASE Get
  <2>1. CASE cache[req] = Nil
    BY <1>1, <2>1, IInvReturn, ZenonT(30) DEF Get, returnNil
  <2>2. CASE cache[req] # Nil
    <3>1. SynthInStep'
      BY <1>1, <2>2 DEF Get, IInv, SynthInStep
    <3>2. ReadsCurrent'
      BY <1>1, <2>2 DEF Get, ReadsCurrent, ReadAt
    <3> QED
      BY <1>1, <2>2, <3>1, <3>2, IInvMiddle DEF Get
  <2> QED
    BY <2>1, <2>2
<1>2. CASE \/ collectListeners \/ collectClusters \/ collectRoutes \/ collectScopedRoutes
           \/ collectManual
  BY <1>2, IInvCollect
  DEF collectListeners, collectClusters, collectRoutes, collectScopedRoutes, collectManual, XdsKinds
<1>3. CASE ReadFails
  BY <1>3, IInvReturn DEF ReadFails, returnError
<1>4. CASE BuildFails
  <2>1. SynthInStep'
    BY <1>4 DEF BuildFails, SynthInStep
  <2>2. ReadsCurrent => ReadsCurrent'
    BY <1>4 DEF BuildFails, collectedAll, ReadsCurrent, ReadAt
  <2> QED
    BY <1>4, <2>1, <2>2, IInvMiddle DEF BuildFails, collectedAll
<1>5. CASE IsConnected \/ setConnected
  <2>1. SynthInStep'
    BY <1>5 DEF IsConnected, setConnected, SynthInStep
  <2>2. ReadsCurrent => ReadsCurrent'
    BY <1>5 DEF IsConnected, setConnected, ReadsCurrent, ReadAt
  <2> QED
    BY <1>5, <2>1, <2>2, IInvMiddle DEF IsConnected, setConnected
<1>6. CASE setReady
  BY <1>6, IInvReturn DEF setReady, returnNil
<1>7. CASE setFailed
  BY <1>7, IInvReturn DEF setFailed, returnError
<1> QED
  BY <1>1, <1>2, <1>3, <1>4, <1>5, <1>6, <1>7, IInvSynthesize, IInvSetSnapshot DEF Reconcile

\* At a start every EnvoyProxy in the store is announced, so none is quiet.
LEMMA NoneQuietAtStart ==
  ASSUME NEW store, IsStore(store), NEW p \in Proxies, store[p] # Nil
  PROVE  \E i \in DOMAIN initialNotifs(store)["EnvoyProxy"] :
           p \in requestsOf(initialNotifs(store)["EnvoyProxy"][i], store)
<1> DEFINE S == additions(store, "EnvoyProxy")
           f == initialNotifs(store)["EnvoyProxy"]
           n == [id |-> p, old |-> Nil, new |-> store[p]]
<1>1. n \in S
  BY KindFacts, ZenonT(30) DEF additions, Ids
<1>2. f = CHOOSE g \in Listings(S) : TRUE
  BY KindFacts DEF initialNotifs
<1>3. f \in Listings(S)
  BY <1>2, FiniteAdditions, ListingExists
<1>4. PICK i \in DOMAIN f : f[i] = n
  BY <1>1, <1>3, FiniteAdditions, ListingFacts
<1>5. p \in requestsOf(n, store)
  BY KindFacts, ZenonT(30) DEF requestsOf
<1> QED
  BY <1>4, <1>5

\* The process starts with every EnvoyProxy announced, hence none quiet.
LEMMA IInvInit == Init => IInv
<1> SUFFICES ASSUME Init PROVE IInv
  OBVIOUS
<1>1. TypeOK
  BY TypeInit
<1>2. QuietServesCache
  BY <1>1, NoneQuietAtStart, KindFacts, ZenonT(30) DEF QuietServesCache, Quiet, Init, TypeOK
<1> QED
  BY <1>1, <1>2 DEF IInv, Init, SynthInStep

\* So it does when it starts again.
LEMMA IInvRestart == IInv /\ Restart /\ TypeOK' => IInv'
<1> SUFFICES ASSUME IInv, Restart, TypeOK' PROVE IInv'
  OBVIOUS
<1>1. QuietServesCache'
  BY NoneQuietAtStart, KindFacts, ZenonT(30) DEF QuietServesCache, Quiet, Restart, TypeOK
<1> QED
  BY <1>1 DEF IInv, Restart, SynthInStep, forget

\* Every step preserves the invariant.
LEMMA IInvNext == IInv /\ [Next]_vars => IInv'
<1> SUFFICES ASSUME IInv, [Next]_vars PROVE IInv'
  OBVIOUS
<1>0. TypeOK'
  BY TypeNext DEF IInv
<1> USE DEF workVars, queueVars, apiVars
<1>1. CASE User
  <2>1. \E i, obj : userWrite(i, obj)
    BY <1>1, Zenon DEF User, Apply, Delete, CreateProxy, TouchProxy
  <2> QED
    BY <1>0, <2>1, IInvFrame DEF userWrite
<1>2. CASE \E n \in Streaming : StreamChange(n)
  BY <1>0, <1>2, IInvFrame DEF StreamChange
<1>3. CASE UNCHANGED vars
  BY <1>0, <1>3, IInvFrame DEF vars
<1>4. CASE Informer \/ DropSliceEvent
  BY <1>0, <1>4, IInvDeliver, IInvHandle, KindFacts DEF Informer, handles
<1>5. CASE \/ \E p \in Proxies : Dequeue(p) \/ RetryAfterBackoff(p)
           \/ Reconcile \/ ReadFails \/ Restart
  BY <1>0, <1>5, IInvQueue, IInvReconcile, IInvRestart
<1> QED
  BY <1>1, <1>2, <1>3, <1>4, <1>5 DEF Next

\* No update is missed, whatever the interleaving of users, informers, handlers
\* and Reconcile, and whichever Lists, status updates and processes fail: an
\* EnvoyProxy for which nothing is left to do has the snapshot its CRs and
\* their slices, as the caches hold them, call for.
THEOREM ServesCache == Spec => []QuietServesCache
<1>1. IInv => QuietServesCache
  BY DEF IInv
<1> QED
  BY <1>1, IInvInit, IInvNext, PTL DEF Spec

-----------------------------------------------------------------------------
(***************************************************************************)
(* From the caches to the API server.  A cache may lag behind, but only by *)
(* the events still in flight.                                             *)
(***************************************************************************)
\* w is a watch, c what the cache and a what the API server holds at id.
LagsBy(w, id, c, a) ==
  /\ (\A i \in DOMAIN w : w[i].id # id) => c = a
  /\ \A i \in DOMAIN w :
       w[i].id = id /\ (\A j \in DOMAIN w : j > i => w[j].id # id) => w[i].new = a

CacheTracksApi == \A id \in Ids : LagsBy(watch[id.kind], id, cache[id], api[id])

\* A write is in flight as soon as it is stored.
LEMMA TracksWrite ==
  ASSUME TypeOK, CacheTracksApi, NEW id0 \in Ids, NEW obj, write(id0, obj), cache' = cache
  PROVE  CacheTracksApi'
<1> SUFFICES ASSUME NEW id \in Ids PROVE LagsBy(watch'[id.kind], id, cache[id], api'[id])
  BY DEF CacheTracksApi
<1> DEFINE w == watch[id.kind]
           e == [id |-> id0, new |-> obj]
<1>1. /\ id.kind \in WatchedKinds /\ id0.kind \in WatchedKinds
      /\ DOMAIN watch = WatchedKinds /\ DOMAIN api = Ids /\ IsSeq(w)
  BY KindFacts, ZenonT(30) DEF TypeOK, IsStore
<1>2. LagsBy(w, id, cache[id], api[id])
  BY ZenonT(30) DEF CacheTracksApi
<1>3. CASE id.kind # id0.kind
  BY <1>1, <1>2, <1>3, ZenonT(30) DEF write
<1>4. CASE id.kind = id0.kind
  <2>1. watch'[id.kind] = Append(w, e)
    BY <1>1, <1>4 DEF write
  <2> DEFINE v == Append(w, e)
  <2>2. /\ Len(w) \in Nat /\ DOMAIN w = 1..Len(w) /\ DOMAIN v = 1..(Len(w) + 1)
        /\ \A i \in 1..Len(w) : v[i] = w[i]
        /\ v[Len(w) + 1] = e
    BY <1>1, AppendFacts
  <2> HIDE DEF v, w
  <2>3. CASE id = id0
    <3>1. api'[id] = obj
      BY <1>1, <2>3 DEF write
    <3>2. Len(w) + 1 \in DOMAIN v /\ v[Len(w) + 1].id = id
      BY <2>2, <2>3
    <3>3. ASSUME NEW i \in DOMAIN v, v[i].id = id, \A j \in DOMAIN v : j > i => v[j].id # id
          PROVE  v[i].new = obj
      <4>1. i = Len(w) + 1
        BY <2>2, <3>2, <3>3
      <4> QED
        BY <2>2, <4>1
    <3> QED
      BY <2>1, <3>1, <3>2, <3>3, ZenonT(30) DEF LagsBy, v
  <2>4. CASE id # id0
    <3>1. api'[id] = api[id]
      BY <1>1, <2>4 DEF write
    <3>2. ASSUME \A i \in DOMAIN v : v[i].id # id, NEW i \in DOMAIN w PROVE w[i].id # id
      <4>1. i \in DOMAIN v /\ v[i] = w[i]
        BY <2>2
      <4> QED
        BY <3>2, <4>1, ZenonT(30)
    <3>3. ASSUME NEW i \in DOMAIN v, v[i].id = id, \A j \in DOMAIN v : j > i => v[j].id # id
          PROVE  v[i].new = api[id]
      <4>1. i \in DOMAIN w /\ v[i] = w[i]
        BY <2>2, <2>4, <3>3
      <4>2. \A j \in DOMAIN w : j > i => w[j].id # id
        BY <2>2, <3>3
      <4> QED
        BY <1>2, <3>3, <4>1, <4>2, ZenonT(30) DEF LagsBy, w
    <3> QED
      BY <1>2, <2>1, <3>1, <3>2, <3>3, ZenonT(30) DEF LagsBy, v, w
  <2> QED
    BY <2>3, <2>4, ZenonT(30)
<1> QED
  BY <1>3, <1>4, ZenonT(30)

\* Applying the oldest event brings the cache that much closer.
LEMMA TracksDeliver ==
  \A k \in WatchedKinds : TypeOK /\ CacheTracksApi /\ Deliver(k) => CacheTracksApi'
<1> SUFFICES ASSUME NEW k \in WatchedKinds, TypeOK, CacheTracksApi, Deliver(k), NEW id \in Ids
             PROVE  LagsBy(watch'[id.kind], id, cache'[id], api[id])
  BY ZenonT(30) DEF CacheTracksApi, Deliver
<1> DEFINE w == watch[k]
           e == Head(w)
           v == Tail(w)
<1>1. /\ id.kind \in WatchedKinds /\ DOMAIN watch = WatchedKinds /\ DOMAIN cache = Ids
      /\ IsSeq(w) /\ w # <<>> /\ \A i \in DOMAIN w : IsEvent(w[i], k)
  BY KindFacts, ZenonT(30) DEF TypeOK, IsStore, Deliver
<1>2. /\ Len(w) \in Nat \ {0} /\ DOMAIN w = 1..Len(w) /\ e = w[1]
      /\ DOMAIN v = 1..(Len(w) - 1)
      /\ \A i \in 1..(Len(w) - 1) : v[i] = w[i + 1]
  BY <1>1, TailFacts, ZenonT(30)
<1>3. /\ e.id \in Ids /\ e.id.kind = k
      /\ cache' = [cache EXCEPT ![e.id] = e.new] /\ watch' = [watch EXCEPT ![k] = v]
  <2>1. cache' = [cache EXCEPT ![e.id] = e.new] /\ watch' = [watch EXCEPT ![k] = v]
    BY ZenonT(30) DEF Deliver
  <2> HIDE DEF v, w, e
  <2>2. 1 \in DOMAIN w
    BY <1>2
  <2> QED
    BY <1>1, <1>2, <2>1, <2>2, ZenonT(30) DEF IsEvent
<1>4. LagsBy(watch[id.kind], id, cache[id], api[id])
  BY DEF CacheTracksApi
<1> HIDE DEF v, w, e
<1>5. CASE id.kind # k
  <2>1. watch'[id.kind] = watch[id.kind] /\ cache'[id] = cache[id]
    BY <1>1, <1>3, <1>5
  <2> QED
    BY <1>4, <2>1
<1>6. CASE id.kind = k
  <2>1. watch'[id.kind] = v /\ watch[id.kind] = w
    BY <1>1, <1>3, <1>6 DEF w
  <2>2. \A i \in DOMAIN w : i # 1 => i - 1 \in DOMAIN v /\ v[i - 1] = w[i]
    BY <1>2
  <2>3. ASSUME \A i \in DOMAIN v : v[i].id # id PROVE cache'[id] = api[id]
    <3>1. \A i \in DOMAIN w : i # 1 => w[i].id # id
      BY <2>2, <2>3
    <3>2. CASE e.id = id
      <4>1. w[1].new = api[id]
        BY <1>2, <1>4, <2>1, <3>1, <3>2 DEF LagsBy
      <4> QED
        BY <1>1, <1>2, <1>3, <3>2, <4>1
    <3>3. CASE e.id # id
      BY <1>1, <1>2, <1>3, <1>4, <2>1, <3>1, <3>3, ZenonT(30) DEF LagsBy
    <3> QED
      BY <3>2, <3>3
  <2>4. ASSUME NEW i \in DOMAIN v, v[i].id = id, \A j \in DOMAIN v : j > i => v[j].id # id
        PROVE  v[i].new = api[id]
    <3>1. i + 1 \in DOMAIN w /\ w[i + 1] = v[i]
      BY <1>2
    <3>2. ASSUME NEW j \in DOMAIN w, j > i + 1 PROVE w[j].id # id
      <4>1. j - 1 \in DOMAIN v /\ v[j - 1] = w[j] /\ j - 1 > i
        BY <1>2, <2>2, <3>2
      <4> QED
        BY <2>4, <4>1
    <3> QED
      BY <1>4, <2>1, <2>4, <3>1, <3>2, ZenonT(30) DEF LagsBy
  <2> QED
    BY <2>1, <2>3, <2>4 DEF LagsBy
<1> QED
  BY <1>5, <1>6

\* Every step keeps a cache behind by no more than its watch.
LEMMA TracksNext == TypeOK /\ CacheTracksApi /\ [Next]_vars => CacheTracksApi'
<1> SUFFICES ASSUME TypeOK, CacheTracksApi, [Next]_vars PROVE CacheTracksApi'
  OBVIOUS
<1> USE DEF workVars, queueVars, apiVars
<1>1. ASSUME UNCHANGED <<api, watch, cache>> PROVE CacheTracksApi'
  BY <1>1 DEF CacheTracksApi
<1>2. CASE User
  <2>1. \E i \in Ids : \E obj : userWrite(i, obj)
    BY <1>2, BoundsAssumption, Zenon DEF User, Apply, Delete, CreateProxy, TouchProxy
  <2> QED
    BY <2>1, TracksWrite DEF userWrite
<1>3. CASE Informer
  BY <1>1, <1>3, TracksDeliver DEF Informer, Handle
<1>4. CASE setConnected \/ setReady \/ setFailed
  <2>1. req \in Ids /\ cache' = cache
    BY <1>4 DEF setConnected, setReady, setFailed, TypeOK, Ids
  <2>2. UNCHANGED <<api, watch>> \/ \E obj : write(req, obj)
    BY <1>4 DEF setConnected, setReady, setFailed, setCondition, accepted, refused
  <2> QED
    BY <1>1, <2>1, <2>2, TracksWrite
<1>5. CASE Restart
  <2> SUFFICES ASSUME NEW id \in Ids PROVE LagsBy(watch'[id.kind], id, cache'[id], api'[id])
    BY ZenonT(30) DEF CacheTracksApi
  <2>1. watch'[id.kind] = <<>> /\ cache'[id] = api'[id]
    BY <1>5, KindFacts, ZenonT(30) DEF Restart
  <2> QED
    BY <2>1 DEF LagsBy
<1>6. CASE \/ \E n \in Streaming : StreamChange(n)
           \/ DropSliceEvent
           \/ \E p \in Proxies : Dequeue(p) \/ RetryAfterBackoff(p)
           \/ Get \/ synthesize \/ BuildFails \/ SetSnapshot \/ IsConnected \/ ReadFails
           \/ UNCHANGED vars
  BY <1>1, <1>6, ZenonT(30) DEF StreamChange, DropSliceEvent, Dequeue, RetryAfterBackoff, Get, synthesize,
                    BuildFails, SetSnapshot, IsConnected, ReadFails, vars
<1>7. CASE \/ collectListeners \/ collectClusters \/ collectRoutes \/ collectScopedRoutes
           \/ collectManual
  BY <1>1, <1>7, ZenonT(30) DEF collectListeners, collectClusters, collectRoutes, collectScopedRoutes,
                    collectManual, collect
<1> QED
  BY <1>2, <1>3, <1>4, <1>5, <1>6, <1>7 DEF Next, Reconcile

\* At a start the caches are filled from the API server.
LEMMA TracksInit == Init => CacheTracksApi
<1> SUFFICES ASSUME Init, NEW id \in Ids
             PROVE  LagsBy(watch[id.kind], id, cache[id], api[id])
  BY ZenonT(30) DEF CacheTracksApi
<1>1. watch[id.kind] = <<>> /\ cache[id] = api[id]
  BY KindFacts, ZenonT(30) DEF Init
<1> QED
  BY <1>1 DEF LagsBy

\* End to end: once the watches are drained and nothing is left to do for an
\* EnvoyProxy, its snapshot is the one the API server's objects call for.
THEOREM ServesApi == Spec => []DrainedServesApi
<1>1. IInv /\ CacheTracksApi => DrainedServesApi
  <2> SUFFICES ASSUME IInv, CacheTracksApi, NEW p \in Proxies, api[p] # Nil, Quiet(p),
                      \A k \in WatchedKinds : watch[k] = <<>>
               PROVE  ServesStore(api, p, snapshots[nodeID(p)])
    BY ZenonT(30) DEF DrainedServesApi
  <2>1. \A id \in Ids : cache[id] = api[id]
    <3> SUFFICES ASSUME NEW id \in Ids PROVE cache[id] = api[id]
      OBVIOUS
    <3>1. LagsBy(<<>>, id, cache[id], api[id])
      BY KindFacts, ZenonT(30) DEF CacheTracksApi
    <3> QED
      BY <3>1 DEF LagsBy
  <2>2. /\ \A k \in XdsKinds : collected(api, p, k) = collected(cache, p, k)
        /\ \A c : serviceSlices(api, c) = serviceSlices(cache, c)
    BY <2>1, ZenonT(30) DEF Ids, collected, serviceSlices
  <2>3. ServesStore(cache, p, snapshots[nodeID(p)])
    BY <2>1, QuietKept, ZenonT(30) DEF Ids
  <2> QED
    BY <2>2, <2>3, ServesSame, ZenonT(30)
<1>2. IInv => TypeOK
  BY DEF IInv
<1> QED
  BY <1>1, <1>2, IInvInit, IInvNext, TracksInit, TracksNext, PTL DEF Spec

-----------------------------------------------------------------------------
(***************************************************************************)
(* The controller implements LevelTriggered.  Each of its steps is one of  *)
(* the abstract controller, under the invariant above: without it, a       *)
(* reconcile that returns might let go of a proxy that is not served what  *)
(* the caches call for.                                                    *)
(***************************************************************************)
Right(p) == ServesStore(cache, p, snapshots[nodeID(p)])

\* The change becomes visible together with a request for whom it concerns.
LEMMA AsObserve ==
  ASSUME snapshots' = snapshots,
         \A p \in Proxies : Quiet(p)' => /\ Quiet(p)
                                         /\ cache'[p] # Nil <=> cache[p] # Nil
                                         /\ Right(p)' <=> Right(p)
  PROVE  L!Observe
BY DEF L!Observe, L!same, Right

\* What leaves the caches and the snapshots alone only has to keep the requests.
LEMMA AsWait ==
  ASSUME snapshots' = snapshots, cache' = cache, \A p \in Proxies : Quiet(p)' => Quiet(p)
  PROVE  L!Observe
BY AsObserve DEF Right

\* A snapshot is published for a proxy that stays pending.
LEMMA AsServe ==
  ASSUME NEW p \in Proxies, ~ Quiet(p), cache' = cache,
         \A q \in Proxies : Quiet(q)' <=> Quiet(q),
         \A q \in Proxies \ {p} : snapshots'[nodeID(q)] = snapshots[nodeID(q)]
  PROVE  L!Serve(p)
BY DEF L!Serve, L!same

\* A proxy is let go of.
LEMMA AsFinish ==
  ASSUME NEW p \in Proxies, ~ Quiet(p), Quiet(p)', cache[p] # Nil => Right(p),
         cache' = cache, snapshots' = snapshots,
         \A q \in Proxies \ {p} : Quiet(q)' <=> Quiet(q)
  PROVE  L!Finish(p)
BY DEF L!Finish, Right

\* At a start every EnvoyProxy of the caches is announced.
LEMMA AnnouncedAtStart ==
  ASSUME IsStore(cache), notifs = initialNotifs(cache), snapshots = [n \in NodeIDs |-> Nil]
  PROVE  L!started
<1>1. \A p \in Proxies : cache[p] # Nil => ~ Quiet(p)
  BY NoneQuietAtStart, KindFacts DEF Quiet
<1>2. \A p \in Proxies : snapshots[nodeID(p)] = Nil
  BY DEF NodeIDs
<1> QED
  BY <1>1, <1>2 DEF L!started

\* A watch event that is not mapped to a proxy changes nothing for it.
LEMMA DeliverObserves == \A k \in WatchedKinds : IInv /\ Deliver(k) => L!Observe
<1> SUFFICES ASSUME NEW k \in WatchedKinds, IInv, Deliver(k), NEW p \in Proxies, Quiet(p)'
             PROVE  /\ Quiet(p)
                    /\ cache'[p] # Nil <=> cache[p] # Nil
                    /\ Right(p)' <=> Right(p)
  BY AsObserve, ZenonT(30) DEF Deliver
<1>1. /\ p \notin dirty \cup backoff \cup missed /\ req # p
      /\ \A j \in WatchedKinds : \A i \in DOMAIN notifs'[j] : p \notin requestsOf(notifs'[j][i], cache')
  BY ZenonT(30) DEF Quiet, Deliver, queueVars
<1>2. /\ \A j \in WatchedKinds : \A i \in DOMAIN notifs[j] : p \notin requestsOf(notifs[j][i], cache)
      /\ \A j \in XdsKinds : collected(cache', p, j) = collected(cache, p, j)
      /\ \A c \in collected(cache, p, "Cluster") : serviceSlices(cache', c) = serviceSlices(cache, c)
      /\ cache'[p] = cache[p]
  BY <1>1, UnmappedDelivery, Zenon DEF IInv
<1>3. Quiet(p)
  BY <1>1, <1>2, ZenonT(30) DEF Quiet
<1>4. \A c \in collected(cache', p, "Cluster") : serviceSlices(cache, c) = serviceSlices(cache', c)
  BY <1>2 DEF XdsKinds
<1>5. Right(p) => Right(p)'
  <2>1. snapshots' = snapshots
    BY DEF Deliver
  <2> QED
    BY <1>2, <2>1, ServesSame DEF Right
<1>6. Right(p)' => Right(p)
  <2>1. snapshots' = snapshots
    BY DEF Deliver
  <2> QED
    BY <1>2, <1>4, <2>1, ServesSame DEF Right
<1> QED
  BY <1>2, <1>3, <1>5, <1>6

\* The handlers and the workqueue only pass requests on.
LEMMA QueueObserves ==
  /\ \A k \in WatchedKinds : IInv /\ handles(k) => L!Observe
  /\ \A p \in Proxies : IInv /\ (Dequeue(p) \/ RetryAfterBackoff(p)) => L!Observe
<1>1. ASSUME NEW k \in WatchedKinds, IInv, handles(k) PROVE L!Observe
  <2>1. snapshots' = snapshots /\ cache' = cache /\ req' = req
    BY <1>1 DEF handles, Handle, DropSliceEvent
  <2>2. ASSUME NEW p \in Proxies, Quiet(p)' PROVE Quiet(p)
    <3>1. /\ p \notin (dirty \cup backoff \cup missed)' /\ req # p
          /\ \A j \in WatchedKinds : \A i \in DOMAIN notifs'[j] : p \notin requestsOf(notifs'[j][i], cache)
      BY <2>1, <2>2 DEF Quiet
    <3>2. Untouched(p)
      BY <1>1, <3>1, HandledDisturbs DEF IInv
    <3> QED
      BY <3>1, <3>2 DEF Quiet, Untouched
  <2> QED
    BY <2>1, <2>2, AsWait
<1>2. ASSUME NEW p \in Proxies, IInv, Dequeue(p) PROVE L!Observe
  <2>1. snapshots' = snapshots /\ cache' = cache
    BY <1>2 DEF Dequeue
  <2>2. ASSUME NEW q \in Proxies, Quiet(q)' PROVE Quiet(q)
    <3>1. req # q
      BY <1>2, NilAssumption, ZenonT(30) DEF Dequeue, IInv, TypeOK
    <3> QED
      BY <1>2, <2>2, <3>1 DEF Dequeue, Quiet
  <2> QED
    BY <2>1, <2>2, AsWait
<1>3. ASSUME NEW p \in Proxies, IInv, RetryAfterBackoff(p) PROVE L!Observe
  <2>1. snapshots' = snapshots /\ cache' = cache
    BY <1>3 DEF RetryAfterBackoff
  <2>2. ASSUME NEW q \in Proxies, Quiet(q)' PROVE Quiet(q)
    BY <1>3, <2>2 DEF RetryAfterBackoff, Quiet
  <2> QED
    BY <2>1, <2>2, AsWait
<1> QED
  BY <1>1, <1>2, <1>3

\* Publishing concerns the request's proxy alone: node identities are unique.
LEMMA SetSnapshotServes == IInv /\ SetSnapshot => L!Next
<1> SUFFICES ASSUME IInv, SetSnapshot PROVE L!Next
  OBVIOUS
<1>1. PICK p \in Proxies : p = req
  BY DEF IInv, TypeOK, SetSnapshot, collectedAll
<1>2. /\ DOMAIN snapshots = NodeIDs
      /\ snapshots' = [snapshots EXCEPT ![nodeID(p)] = snapshotOf(lists, synth)]
      /\ cache' = cache /\ notifs' = notifs /\ dirty' = dirty /\ backoff' = backoff
      /\ missed' = missed /\ req' = req
  BY <1>1 DEF IInv, TypeOK, SetSnapshot, queueVars
<1>3. ~ Quiet(p)
  BY <1>1 DEF Quiet
<1>4. \A q \in Proxies : Quiet(q)' <=> Quiet(q)
  BY <1>2 DEF Quiet
<1>5. ASSUME NEW q \in Proxies \ {p} PROVE snapshots'[nodeID(q)] = snapshots[nodeID(q)]
  <2>1. nodeID(q) # nodeID(p)
    BY NodeIDInjective
  <2> QED
    BY <1>2, <2>1 DEF NodeIDs
<1>6. L!Serve(p)
  BY <1>2, <1>3, <1>4, <1>5, AsServe
<1> QED
  BY <1>6 DEF L!Next

\* A reconcile that returns lets go of its proxy, unless something else is
\* still about to look at it.
LEMMA ReturnFinishes ==
  ASSUME IInv, IInv', pc # "idle", forget, backoff' \in {backoff, backoff \cup {req}},
         UNCHANGED <<cache, notifs, dirty, missed, snapshots>>
  PROVE  L!Next
<1>1. PICK p \in Proxies : p = req
  BY ZenonT(30) DEF IInv, TypeOK
<1>2. /\ req' = Nil /\ cache' = cache /\ snapshots' = snapshots /\ notifs' = notifs
      /\ dirty' = dirty /\ missed' = missed /\ backoff \subseteq backoff'
      /\ \A q \in Proxies \ {p} : q \in backoff' <=> q \in backoff
  BY <1>1 DEF forget
<1>3. \A q \in Proxies \ {p} : Quiet(q)' <=> Quiet(q)
  BY <1>1, <1>2, NilAssumption DEF Quiet
<1>4. ~ Quiet(p)
  BY <1>1 DEF Quiet
<1>5. CASE Quiet(p)'
  <2>1. cache[p] # Nil => Right(p)
    BY <1>2, <1>5 DEF IInv, QuietServesCache, Right
  <2>2. L!Finish(p)
    BY <1>2, <1>3, <1>4, <1>5, <2>1, AsFinish
  <2> QED
    BY <2>2 DEF L!Next
<1>6. CASE ~ Quiet(p)'
  <2>1. \A q \in Proxies : Quiet(q)' => Quiet(q)
    BY <1>3, <1>6
  <2>2. L!Observe
    BY <1>2, <2>1, AsWait
  <2> QED
    BY <2>2 DEF L!Next
<1> QED
  BY <1>5, <1>6

\* Every step of the controller is one of the abstract controller.
LEMMA LevelsNext == IInv /\ IInv' /\ [Next]_vars => L!Next
<1> SUFFICES ASSUME IInv, IInv', [Next]_vars PROVE L!Next
  OBVIOUS
<1> USE DEF workVars, queueVars, apiVars
<1>1. ASSUME UNCHANGED <<cache, notifs, dirty, backoff, missed, req, snapshots>> PROVE L!Next
  <2>1. \A p \in Proxies : Quiet(p)' => Quiet(p)
    BY <1>1 DEF Quiet
  <2>2. L!Observe
    BY <1>1, <2>1, AsWait
  <2> QED
    BY <2>2 DEF L!Next
<1>2. CASE User
  <2>1. \E i, obj : userWrite(i, obj)
    BY <1>2, Zenon DEF User, Apply, Delete, CreateProxy, TouchProxy
  <2> QED
    BY <1>1, <2>1 DEF userWrite
<1>3. CASE (\E n \in Streaming : StreamChange(n)) \/ UNCHANGED vars
  BY <1>1, <1>3 DEF StreamChange, vars
<1>4. CASE Informer \/ DropSliceEvent
  <2>1. \E k \in WatchedKinds : Deliver(k) \/ handles(k)
    BY <1>4, KindFacts DEF Informer, handles
  <2>2. L!Observe
    BY <2>1, DeliverObserves, QueueObserves
  <2> QED
    BY <2>2 DEF L!Next
<1>5. CASE \E p \in Proxies : Dequeue(p) \/ RetryAfterBackoff(p)
  <2>1. L!Observe
    BY <1>5, QueueObserves
  <2> QED
    BY <2>1 DEF L!Next
<1>6. CASE Get
  <2>1. CASE cache[req] = Nil
    BY <1>6, <2>1, ReturnFinishes, ZenonT(30) DEF Get, returnNil
  <2>2. CASE cache[req] # Nil
    BY <1>1, <1>6, <2>2 DEF Get
  <2> QED
    BY <2>1, <2>2
<1>7. CASE \/ collectListeners \/ collectClusters \/ collectRoutes \/ collectScopedRoutes
           \/ collectManual
  BY <1>1, <1>7 DEF collectListeners, collectClusters, collectRoutes, collectScopedRoutes,
                    collectManual, collect
<1>8. CASE synthesize \/ BuildFails \/ IsConnected \/ setConnected
  BY <1>1, <1>8, ZenonT(30) DEF synthesize, BuildFails, IsConnected, setConnected
<1>9. CASE setReady
  BY <1>9, ReturnFinishes DEF setReady, returnNil
<1>10. CASE setFailed
  BY <1>10, ReturnFinishes DEF setFailed, returnError
<1>11. CASE ReadFails
  BY <1>11, ReturnFinishes, ZenonT(30) DEF ReadFails, returnError
<1>12. CASE Restart
  <2>1. IsStore(cache') /\ notifs' = initialNotifs(cache') /\ snapshots' = [n \in NodeIDs |-> Nil]
    BY <1>12, ZenonT(30) DEF Restart, IInv, TypeOK
  <2>2. \A p \in Proxies : cache'[p] # Nil => ~ Quiet(p)'
    BY <2>1, NoneQuietAtStart, KindFacts, ZenonT(30) DEF Quiet
  <2>3. \A p \in Proxies : snapshots'[nodeID(p)] = Nil
    BY <2>1 DEF NodeIDs
  <2>4. L!started'
    BY <2>2, <2>3 DEF L!started
  <2> QED
    BY <2>4 DEF L!Next, L!Restart
<1> QED
  BY <1>2, <1>3, <1>4, <1>5, <1>6, <1>7, <1>8, <1>9, <1>10, <1>11, <1>12, SetSnapshotServes
  DEF Next, Reconcile

\* The refinement: informers, handlers, workqueue and Reconcile together are a
\* level-triggered controller, for every set of objects, every interleaving and
\* every combination of failures.
THEOREM ImplementsLevelTriggered == Spec => LevelsReconciled
<1>1. Init => L!started
  BY TypeInit, AnnouncedAtStart DEF Init, TypeOK
<1>2. IInv /\ IInv' /\ [Next]_vars => [L!Next]_(L!vars)
  BY LevelsNext
<1> QED
  BY <1>1, <1>2, IInvInit, IInvNext, PTL DEF Spec, LevelsReconciled, L!Spec

=============================================================================
