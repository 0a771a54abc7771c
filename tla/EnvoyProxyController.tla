------------------------- MODULE EnvoyProxyController -------------------------
(***************************************************************************)
(* The control plane's controller                                          *)
(* (control-plane/internal/controller/envoyproxy_controller.go) between    *)
(* the API server it watches and the snapshot cache it fills:              *)
(*                                                                         *)
(*   users --> api --watch--> cache --notifs--> dirty --> Reconcile        *)
(*              ^                 |                         |    |         *)
(*              |                 +---- Get, List ----------+    v         *)
(*              +------------- Status().Update -------------  snapshots    *)
(*                                                                         *)
(* Every arrow is asynchronous: a watch event is in flight until the       *)
(* informer applies it to its cache, the handlers run after the cache has  *)
(* changed, and Reconcile reads the caches one List at a time while they   *)
(* keep changing.  One reconcile runs at a time (MaxConcurrentReconciles   *)
(* is left at 1).                                                          *)
(***************************************************************************)
EXTENDS MeshApi, EDS, Snapshot

CONSTANTS
  Revisions,      \* the resourceVersions users' writes get, in order: a bound
  InitialStores,  \* what the API server may hold when the process first starts
  MaxPending,     \* how far the handlers of a kind may lag behind: a bound
  Edited,         \* the identities users write to: a bound
  Streaming,      \* the nodeIDs whose Envoys come and go: a bound
  Faults          \* which failures may happen, a subset of FaultKinds

(***************************************************************************)
(* "read":   the Get or a List of Reconcile fails             (lines 64-90)*)
(* "map":    the List of mapEndpointSliceToProxies fails         (line 296)*)
(* "set":    SetSnapshot returns an error                        (line 100)*)
(* "status": Status().Update fails, written or not               (line 277)*)
(* "crash":  the process restarts                                          *)
(***************************************************************************)
FaultKinds == {"read", "map", "set", "status", "crash"}

VARIABLES
  api,        \* the API server's store
  rev,        \* the last resourceVersion given to a user's write
  watch,      \* watch[kind]: changes [id, new] on their way to the informer
  cache,      \* the informers' caches, one store for all kinds
  notifs,     \* notifs[kind]: changes [id, old, new] waiting for the handlers
  dirty,      \* requests the workqueue holds
  backoff,    \* requests waiting out their rate limit after an error
  missed,     \* history: requests lost to a failed List of the slice handler
  pc,         \* where Reconcile is
  req,        \* its request
  ep,         \* its copy of the EnvoyProxy
  epCurrent,  \* is that copy the latest version (else an Update conflicts)?
  lists,      \* lists[kind]: the CRs collected so far, [id, obj], as listed
  synth,      \* what the first Len(synth) clusters contributed to endpoints
  snapshots,  \* XDSServer.Cache: snapshots[nodeID], Nil if never set
  connected   \* XDSServer.connected: the nodeIDs IsConnected holds for

apiVars    == <<api, rev, watch>>
queueVars  == <<dirty, backoff, missed>>
workVars   == <<ep, epCurrent, lists, synth>>
vars       == <<api, rev, watch, cache, notifs, dirty, backoff, missed,
                pc, req, ep, epCurrent, lists, synth, snapshots, connected>>

Steps == {"idle", "get", "listeners", "clusters", "routes", "scopedRoutes",
          "endpoints", "slices", "isConnected", "setConnected", "setReady",
          "setFailed"}

(***************************************************************************)
(* An EnvoyProxy is its two status conditions ("Unknown": not set yet) and *)
(* the version the Ready message quotes.                                   *)
(***************************************************************************)
ConditionStatus == {"Unknown", "True", "False"}

NewProxy == [connected |-> "Unknown", ready |-> "Unknown", version |-> Nil]

NoLists == [k \in XdsKinds |-> <<>>]

ASSUME BoundsAssumption ==
  /\ Revisions \subseteq Nat
  /\ MaxPending \in Nat
  /\ Edited \subseteq Ids
  /\ Streaming \subseteq NodeIDs
  /\ Faults \subseteq FaultKinds

-----------------------------------------------------------------------------
(***************************************************************************)
(* List returns a set of objects in no particular order: the informer's    *)
(* indexer is a Go map.                                                    *)
(***************************************************************************)
Listings(S) == Surjection(1..Cardinality(S), S)

(***************************************************************************)
(* The CRs of a kind that target proxy p: the filter of the five collect   *)
(* functions.                                                              *)
(***************************************************************************)
collected(store, p, kind) ==
  {[id |-> r, obj |-> store[r]] :
     r \in {r \in Resources :
              /\ r.kind = kind
              /\ store[r] # Nil
              /\ targetMatches(store[r].m.targetRef, r.ns, p)}}

\* Mutant of serviceSlices: the label is not looked at.
slicesOfNamespace(store, c) ==
  {[id |-> s, obj |-> store[s]] :
     s \in {s \in Slices : store[s] # Nil /\ s.ns = orOwn(c.obj.m.ref.namespace, c.id.ns)}}

(***************************************************************************)
(* The slices of a cluster's Service: List with InNamespace(svcNS) and     *)
(* MatchingLabels{service-name: ref.Name}.                                 *)
(***************************************************************************)
serviceSlices(store, c) ==
  {[id |-> s, obj |-> store[s]] :
     s \in {s \in Slices :
              /\ store[s] # Nil
              /\ store[s].m.service # Nil
              /\ serviceMatches(c.obj.m.ref, c.id.ns, store[s].m.service, s.ns)}}

specsOf(items) == [i \in DOMAIN items |-> items[i].obj.m.spec]

versionsOf(items) == [i \in DOMAIN items |-> items[i].obj.rv]

(***************************************************************************)
(* The cluster names collectEndpoints takes to have a manual assignment.   *)
(***************************************************************************)
manualNames(clas) == {ClusterName(clas[i].obj.m.spec) : i \in DOMAIN clas}

needsSynthesis(c, clas) ==
  /\ c.obj.m.ref # Nil
  /\ ClusterName(c.obj.m.spec) # ""
  /\ ClusterName(c.obj.m.spec) \notin manualNames(clas)

(***************************************************************************)
(* One turn of collectEndpoints' loop over the clusters: what it may       *)
(* append to specs and versions, given the order the slices come in.       *)
(***************************************************************************)
contributions(store, c, clas) ==
  IF needsSynthesis(c, clas)
    THEN {[specs    |-> <<SynthesizeCLA(ClusterName(c.obj.m.spec),
                                        [i \in DOMAIN ss |-> ss[i].obj.m],
                                        c.obj.m.ref.port)>>,
           versions |-> versionsOf(ss)] : ss \in Listings(serviceSlices(store, c))}
    ELSE {[specs |-> <<>>, versions |-> <<>>]}

\* Mutant of versionOf: the slices behind the endpoints are left out.
versionOfCRs(ls, sy) ==
  computeVersion(<<versionsOf(ls["Listener"]), versionsOf(ls["Cluster"]),
                   versionsOf(ls["RouteConfiguration"]),
                   versionsOf(ls["ScopedRouteConfiguration"]),
                   versionsOf(ls["ClusterLoadAssignment"])>>)

(***************************************************************************)
(* The version and the snapshot Reconcile computes from what it collected. *)
(***************************************************************************)
versionOf(ls, sy) ==
  computeVersion(<<versionsOf(ls["Listener"]), versionsOf(ls["Cluster"]),
                   versionsOf(ls["RouteConfiguration"]),
                   versionsOf(ls["ScopedRouteConfiguration"]),
                   versionsOf(ls["ClusterLoadAssignment"]),
                   Concat([i \in DOMAIN sy |-> sy[i].versions])>>)

specsByKind(ls) == [k \in XdsKinds |-> specsOf(ls[k])]

snapshotOf(ls, sy) ==
  BuildSnapshot(versionOf(ls, sy), specsByKind(ls),
                Concat([i \in DOMAIN sy |-> sy[i].specs]))

-----------------------------------------------------------------------------
(***************************************************************************)
(* The API server.  A write stores the object and sends it to the watches. *)
(* It makes Reconcile's copy of a written EnvoyProxy outdated.             *)
(***************************************************************************)
write(id, obj) ==
  /\ api' = [api EXCEPT ![id] = obj]
  /\ watch' = [watch EXCEPT ![id.kind] = Append(@, [id |-> id, new |-> obj])]

(***************************************************************************)
(* Users' writes are bounded by the supply of Revisions.                   *)
(***************************************************************************)
userWrite(id, obj) ==
  /\ \E n \in Revisions : n > rev
  /\ rev' = Min({n \in Revisions : n > rev})
  /\ write(id, obj)
  /\ epCurrent' = (epCurrent /\ id # req)
  /\ UNCHANGED <<cache, notifs, queueVars, pc, req, ep, lists, synth, snapshots, connected>>

(***************************************************************************)
(* Create or change a CR or a slice.  Applying what is there already is    *)
(* not a write.                                                            *)
(***************************************************************************)
Apply(r, m) ==
  /\ api[r] # Nil => api[r].m # m
  /\ userWrite(r, [rv |-> Min({n \in Revisions : n > rev}), m |-> m])

Delete(id) == api[id] # Nil /\ userWrite(id, Nil)

CreateProxy(p) == api[p] = Nil /\ userWrite(p, NewProxy)

(***************************************************************************)
(* A change of an EnvoyProxy the controller does not read (a label, say).  *)
(***************************************************************************)
TouchProxy(p) == api[p] # Nil /\ userWrite(p, api[p])

(***************************************************************************)
(* XDSServer's stream callbacks, as the controller sees them: a nodeID     *)
(* starts or stops being connected.                                        *)
(***************************************************************************)
StreamChange(n) ==
  /\ connected' = IF n \in connected THEN connected \ {n} ELSE connected \cup {n}
  /\ UNCHANGED <<apiVars, cache, notifs, queueVars, pc, req, workVars, snapshots>>

-----------------------------------------------------------------------------
(***************************************************************************)
(* The informers (client-go).  A watch event updates the cache, and then   *)
(* the handlers are notified.                                              *)
(***************************************************************************)
Deliver(k) ==
  /\ watch[k] # <<>>
  /\ Len(notifs[k]) < MaxPending
  /\ LET e == Head(watch[k])
     IN  /\ cache' = [cache EXCEPT ![e.id] = e.new]
         /\ notifs' = [notifs EXCEPT ![k] =
                         Append(@, [id |-> e.id, old |-> cache[e.id], new |-> e.new])]
  /\ watch' = [watch EXCEPT ![k] = Tail(@)]
  /\ UNCHANGED <<api, rev, queueVars, pc, req, workVars, snapshots, connected>>

(***************************************************************************)
(* The event handlers SetupWithManager registers: every request the change *)
(* maps to is added to the workqueue, which keeps one copy of each.  The   *)
(* slice handler looks for clusters in the cache as it is by now.          *)
(***************************************************************************)
Handle(k) ==
  /\ notifs[k] # <<>>
  /\ dirty' = dirty \cup requestsOf(Head(notifs[k]), cache)
  /\ notifs' = [notifs EXCEPT ![k] = Tail(@)]
  /\ UNCHANGED <<apiVars, cache, backoff, missed, pc, req, workVars, snapshots, connected>>

(***************************************************************************)
(* mapEndpointSliceToProxies, called for the slice before and after the    *)
(* change, cannot list the Clusters in one call or both: what that call    *)
(* would have added is lost.                                               *)
(***************************************************************************)
DropSliceEvent ==
  /\ "map" \in Faults
  /\ notifs["EndpointSlice"] # <<>>
  /\ LET n == Head(notifs["EndpointSlice"])
         requests(objs) == UNION {mapEndpointSliceToProxies(n.id, o, cache) : o \in objs}
     IN  \E lost \in SUBSET ({n.old, n.new} \ {Nil}) :
           /\ lost # {}
           /\ dirty' = dirty \cup requests(({n.old, n.new} \ {Nil}) \ lost)
           /\ missed' = missed \cup requests(lost)
  /\ notifs' = [notifs EXCEPT !["EndpointSlice"] = Tail(@)]
  /\ UNCHANGED <<apiVars, cache, backoff, pc, req, workVars, snapshots, connected>>

(***************************************************************************)
(* The workqueue (client-go, controller-runtime).  A request that is added *)
(* again while it is being reconciled stays dirty and runs once more.      *)
(***************************************************************************)
Dequeue(p) ==
  /\ pc = "idle"
  /\ p \in dirty
  /\ dirty' = dirty \ {p}
  /\ missed' = missed \ {p}
  /\ req' = p
  /\ pc' = "get"
  /\ UNCHANGED <<apiVars, cache, notifs, backoff, workVars, snapshots, connected>>

RetryAfterBackoff(p) ==
  /\ p \in backoff
  /\ backoff' = backoff \ {p}
  /\ dirty' = dirty \cup {p}
  /\ UNCHANGED <<apiVars, cache, notifs, missed, pc, req, workVars, snapshots, connected>>

(***************************************************************************)
(* Reconcile returns: nil, or an error, for which the request is added     *)
(* again after a delay.                                                    *)
(***************************************************************************)
forget ==
  /\ pc' = "idle"
  /\ req' = Nil
  /\ ep' = NewProxy
  /\ epCurrent' = FALSE
  /\ lists' = NoLists
  /\ synth' = <<>>

returnNil == forget /\ UNCHANGED backoff

returnError == forget /\ backoff' = backoff \cup {req}

-----------------------------------------------------------------------------
(***************************************************************************)
(* Reconcile.  Get reads the cache; an EnvoyProxy that is gone ends the    *)
(* reconcile and leaves its snapshot as it is.  The copy is current when   *)
(* no newer version is on its way.                                         *)
(***************************************************************************)
Get ==
  /\ pc = "get"
  /\ IF cache[req] = Nil
       THEN returnNil
       ELSE /\ ep' = cache[req]
            /\ epCurrent' = \A i \in DOMAIN watch["EnvoyProxy"] :
                              watch["EnvoyProxy"][i].id # req
            /\ pc' = "listeners"
            /\ UNCHANGED <<req, backoff, lists, synth>>
  /\ UNCHANGED <<apiVars, cache, notifs, dirty, missed, snapshots, connected>>

(***************************************************************************)
(* A List that returns, in some order, the CRs of a kind that target the   *)
(* proxy.                                                                  *)
(***************************************************************************)
collect(from, kind, to) ==
  /\ pc = from
  /\ \E items \in Listings(collected(cache, req, kind)) :
       lists' = [lists EXCEPT ![kind] = items]
  /\ pc' = to
  /\ UNCHANGED <<apiVars, cache, notifs, queueVars, req, ep, epCurrent, synth,
                 snapshots, connected>>

collectListeners    == collect("listeners", "Listener", "clusters")
collectClusters     == collect("clusters", "Cluster", "routes")
collectRoutes       == collect("routes", "RouteConfiguration", "scopedRoutes")
collectScopedRoutes == collect("scopedRoutes", "ScopedRouteConfiguration", "endpoints")

(***************************************************************************)
(* collectEndpoints: the manual assignments first, then the loop over the  *)
(* clusters, each of which may list the slices of its Service.             *)
(***************************************************************************)
collectManual == collect("endpoints", "ClusterLoadAssignment", "slices")

synthesize ==
  /\ pc = "slices"
  /\ Len(synth) < Len(lists["Cluster"])
  /\ \E x \in contributions(cache, lists["Cluster"][Len(synth) + 1],
                            lists["ClusterLoadAssignment"]) :
       synth' = Append(synth, x)
  /\ UNCHANGED <<apiVars, cache, notifs, queueVars, pc, req, ep, epCurrent, lists,
                 snapshots, connected>>

(***************************************************************************)
(* The Get (other than for a missing object) and any of the Lists may      *)
(* fail, which fails the reconcile.                                        *)
(***************************************************************************)
ReadFails ==
  /\ "read" \in Faults
  /\ \/ pc \in {"get", "listeners", "clusters", "routes", "scopedRoutes", "endpoints"}
     \/ /\ pc = "slices"
        /\ Len(synth) < Len(lists["Cluster"])
        /\ needsSynthesis(lists["Cluster"][Len(synth) + 1],
                          lists["ClusterLoadAssignment"])
  /\ returnError
  /\ UNCHANGED <<apiVars, cache, notifs, dirty, missed, snapshots, connected>>

collectedAll == pc = "slices" /\ Len(synth) = Len(lists["Cluster"])

(***************************************************************************)
(* BuildSnapshot fails: Ready is set to False and the last snapshot stays. *)
(***************************************************************************)
BuildFails ==
  /\ collectedAll
  /\ ~snapshotBuilds(specsByKind(lists))
  /\ pc' = "setFailed"
  /\ UNCHANGED <<apiVars, cache, notifs, queueVars, req, workVars, snapshots, connected>>

(***************************************************************************)
(* SetSnapshot stores the snapshot, then answers the open watches.  Only   *)
(* the answers can fail (the context is done), with the snapshot stored.   *)
(***************************************************************************)
SetSnapshot ==
  /\ collectedAll
  /\ snapshotBuilds(specsByKind(lists))
  /\ snapshots' = [snapshots EXCEPT ![nodeID(req)] = snapshotOf(lists, synth)]
  /\ \/ pc' = "isConnected"
     \/ "set" \in Faults /\ pc' = "setFailed"
  /\ UNCHANGED <<apiVars, cache, notifs, queueVars, req, workVars, connected>>

IsConnected ==
  /\ pc = "isConnected"
  /\ ep' = [ep EXCEPT !.connected = IF nodeID(req) \in connected THEN "True" ELSE "False"]
  /\ pc' = "setConnected"
  /\ UNCHANGED <<apiVars, cache, notifs, queueVars, req, epCurrent, lists, synth,
                 snapshots, connected>>

\* Mutant of accepted: an unchanged status is written again.
acceptedAlways(obj) == epCurrent /\ write(req, obj)

(***************************************************************************)
(* setCondition: the local copy gets the condition, and Status().Update    *)
(* sends the copy.  It is accepted if the copy is current (writing what is *)
(* there already changes nothing).  It is refused if the copy is outdated  *)
(* or its object gone, and may be lost on the way; the error is logged and *)
(* Reconcile goes on.                                                      *)
(***************************************************************************)
accepted(obj) ==
  /\ epCurrent
  /\ IF obj = api[req] THEN UNCHANGED <<api, watch>> ELSE write(req, obj)

refused ==
  /\ ~epCurrent \/ "status" \in Faults
  /\ UNCHANGED <<api, watch>>

setCondition(obj) == accepted(obj) \/ refused

(***************************************************************************)
(* The Connected condition.  An accepted Update returns the new version    *)
(* into the copy; if only its answer is lost, the copy is outdated.        *)
(***************************************************************************)
setConnected ==
  /\ pc = "setConnected"
  /\ \/ accepted(ep) /\ UNCHANGED epCurrent
     \/ accepted(ep) /\ ep # api[req] /\ "status" \in Faults /\ epCurrent' = FALSE
     \/ refused /\ UNCHANGED epCurrent
  /\ pc' = "setReady"
  /\ UNCHANGED <<rev, cache, notifs, queueVars, req, ep, lists, synth, snapshots, connected>>

\* Mutants of setFailed: the error is not returned; Reconcile starts over by
\* itself instead of returning it.
setFailedReturnsNil ==
  /\ pc = "setFailed"
  /\ setCondition([ep EXCEPT !.ready = "False", !.version = Nil])
  /\ returnNil
  /\ UNCHANGED <<rev, cache, notifs, dirty, missed, snapshots, connected>>

setFailedStartsOver ==
  /\ pc = "setFailed"
  /\ setCondition([ep EXCEPT !.ready = "False", !.version = Nil])
  /\ pc' = "get"
  /\ ep' = NewProxy /\ epCurrent' = FALSE /\ lists' = NoLists /\ synth' = <<>>
  /\ UNCHANGED <<rev, cache, notifs, queueVars, req, snapshots, connected>>

(***************************************************************************)
(* The Ready condition, the last step of a reconcile: True with the        *)
(* version, or False and an error.                                         *)
(***************************************************************************)
setReady ==
  /\ pc = "setReady"
  /\ setCondition([ep EXCEPT !.ready = "True", !.version = versionOf(lists, synth)])
  /\ returnNil
  /\ UNCHANGED <<rev, cache, notifs, dirty, missed, snapshots, connected>>

setFailed ==
  /\ pc = "setFailed"
  /\ setCondition([ep EXCEPT !.ready = "False", !.version = Nil])
  /\ returnError
  /\ UNCHANGED <<rev, cache, notifs, dirty, missed, snapshots, connected>>

-----------------------------------------------------------------------------
(***************************************************************************)
(* Starting.  The manager lists every kind into the caches before it       *)
(* starts the controller, which is notified of each object as an addition. *)
(* The order of the additions of one kind is fixed here: they only ever    *)
(* add to a set of requests, from which any may be dequeued.               *)
(***************************************************************************)
additions(store, k) ==
  {[id |-> i, old |-> Nil, new |-> store[i]] : i \in {i \in Ids : i.kind = k /\ store[i] # Nil}}

initialNotifs(store) ==
  [k \in WatchedKinds |-> CHOOSE f \in Listings(additions(store, k)) : TRUE]

Init ==
  /\ api \in InitialStores
  /\ rev = 0
  /\ watch = [k \in WatchedKinds |-> <<>>]
  /\ cache = api
  /\ notifs = initialNotifs(api)
  /\ dirty = {} /\ backoff = {} /\ missed = {}
  /\ pc = "idle"
  /\ req = Nil
  /\ ep = NewProxy /\ epCurrent = FALSE /\ lists = NoLists /\ synth = <<>>
  /\ snapshots = [n \in NodeIDs |-> Nil]
  /\ connected = {}

(***************************************************************************)
(* The process dies at any point and starts again: everything but the API  *)
(* server's store is lost, and every stream ends.  Envoys may have opened  *)
(* new ones by the time the manager starts the controller.                 *)
(***************************************************************************)
Restart ==
  /\ "crash" \in Faults
  /\ forget
  /\ dirty' = {} /\ backoff' = {} /\ missed' = {}
  /\ snapshots' = [n \in NodeIDs |-> Nil]
  /\ watch' = [k \in WatchedKinds |-> <<>>]
  /\ cache' = api
  /\ notifs' = initialNotifs(api)
  /\ connected' \in SUBSET Streaming
  /\ UNCHANGED <<api, rev>>

User ==
  \/ \E r \in Edited \ Proxies : \E m \in Manifests[r] : Apply(r, m)
  \/ \E i \in Edited : Delete(i)
  \/ \E p \in Edited \cap Proxies : CreateProxy(p) \/ TouchProxy(p)

Informer == \E k \in WatchedKinds : Deliver(k) \/ Handle(k)

Reconcile ==
  \/ Get \/ collectListeners \/ collectClusters \/ collectRoutes \/ collectScopedRoutes
  \/ collectManual \/ synthesize \/ BuildFails \/ SetSnapshot
  \/ IsConnected \/ setConnected \/ setReady \/ setFailed

Next ==
  \/ User
  \/ \E n \in Streaming : StreamChange(n)
  \/ Informer \/ DropSliceEvent
  \/ \E p \in Proxies : Dequeue(p) \/ RetryAfterBackoff(p)
  \/ Reconcile \/ ReadFails
  \/ Restart

Spec == Init /\ [][Next]_vars

(***************************************************************************)
(* Informers, handlers, timers and the worker are goroutines that keep     *)
(* running.  A request may find the worker busy with another one time and  *)
(* again, but the workqueue is first in, first out: strong fairness.       *)
(* Users, Envoys and failures owe the system nothing.  (A kind that has no *)
(* objects never has events.)                                              *)
(***************************************************************************)
kinds == {i.kind : i \in Ids}

Fairness ==
  /\ \A k \in kinds : WF_vars(Deliver(k)) /\ WF_vars(Handle(k))
  /\ \A p \in Proxies : SF_vars(Dequeue(p)) /\ WF_vars(RetryAfterBackoff(p))
  /\ WF_vars(Reconcile)

FairSpec == Spec /\ Fairness

-----------------------------------------------------------------------------
(***************************************************************************)
(* Types: every variable holds what its Go counterpart can hold.           *)
(***************************************************************************)
IsProxy(o) ==
  /\ DOMAIN o = {"connected", "ready", "version"}
  /\ o.connected \in ConditionStatus /\ o.ready \in ConditionStatus

IsObject(id, o) == IF id \in Proxies THEN IsProxy(o) ELSE o \in Versions(id)

IsStore(store) ==
  /\ DOMAIN store = Ids
  /\ \A i \in Ids : store[i] # Nil => IsObject(i, store[i])

ASSUME StoresAssumption == \A store \in InitialStores : IsStore(store)

IsItem(x, kind) == x.id \in Resources /\ x.id.kind = kind /\ x.obj \in Versions(x.id)

IsEvent(e, k) ==
  /\ e.id \in Ids /\ e.id.kind = k
  /\ e.new # Nil => IsObject(e.id, e.new)

IsNotif(n, k) == IsEvent(n, k) /\ (n.old # Nil => IsObject(n.id, n.old))

\* The type invariant: stores hold objects of their kind, queues hold changes
\* of their kind, and Reconcile's locals are what its lists can return.
TypeOK ==
  /\ IsStore(api) /\ IsStore(cache)
  /\ rev \in Nat
  /\ DOMAIN watch = WatchedKinds /\ DOMAIN notifs = WatchedKinds
  /\ \A k \in WatchedKinds :
       /\ IsSeq(watch[k]) /\ \A i \in DOMAIN watch[k] : IsEvent(watch[k][i], k)
       /\ IsSeq(notifs[k]) /\ \A i \in DOMAIN notifs[k] : IsNotif(notifs[k][i], k)
  /\ dirty \subseteq Proxies /\ backoff \subseteq Proxies /\ missed \subseteq Proxies
  /\ pc \in Steps
  /\ IF pc = "idle" THEN req = Nil ELSE req \in Proxies
  /\ IsProxy(ep)
  /\ epCurrent \in BOOLEAN
  /\ lists = [k \in XdsKinds |-> lists[k]]
  /\ \A k \in XdsKinds : IsSeq(lists[k]) /\ \A i \in DOMAIN lists[k] : IsItem(lists[k][i], k)
  /\ IsSeq(synth)
  /\ DOMAIN snapshots = NodeIDs
  /\ connected \subseteq NodeIDs

(***************************************************************************)
(* What Reconcile collects for p when nothing changes while it runs: in    *)
(* some order of the lists, one of which Is(ls, sy) holds.                 *)
(***************************************************************************)
CallsFor(store, p, Is(_, _)) ==
  \E l  \in Listings(collected(store, p, "Listener")),
     c  \in Listings(collected(store, p, "Cluster")),
     r  \in Listings(collected(store, p, "RouteConfiguration")),
     sr \in Listings(collected(store, p, "ScopedRouteConfiguration")),
     m  \in Listings(collected(store, p, "ClusterLoadAssignment")) :
    LET ls == [k \in XdsKinds |-> CASE k = "Listener" -> l
                                    [] k = "Cluster" -> c
                                    [] k = "RouteConfiguration" -> r
                                    [] k = "ScopedRouteConfiguration" -> sr
                                    [] k = "ClusterLoadAssignment" -> m]
    IN  \E sy \in [DOMAIN c -> UNION {contributions(store, c[i], m) : i \in DOMAIN c}] :
          /\ \A i \in DOMAIN c : sy[i] \in contributions(store, c[i], m)
          /\ Is(ls, sy)

(***************************************************************************)
(* A store calls for the snapshot snap of p, or for one of version v.      *)
(***************************************************************************)
ServesStore(store, p, snap) ==
  LET Is(ls, sy) == snap = snapshotOf(ls, sy) IN CallsFor(store, p, Is)

RunsStore(store, p, v) ==
  LET Is(ls, sy) == v = versionOf(ls, sy) IN CallsFor(store, p, Is)

(***************************************************************************)
(* Nothing the workqueue, the handlers or Reconcile still has to do        *)
(* concerns p.                                                             *)
(***************************************************************************)
Quiet(p) ==
  /\ p \notin dirty \cup backoff \cup missed
  /\ req # p
  /\ \A k \in WatchedKinds : \A i \in DOMAIN notifs[k] : p \notin requestsOf(notifs[k][i], cache)

\* No update is missed (mapXDSResourceToProxy, mapEndpointSliceToProxies and
\* the workqueue against the Lists of Reconcile): once nothing is left to do
\* for an EnvoyProxy, its snapshot is the one the caches call for now, though
\* Reconcile read them one List at a time while they changed.
QuietServesCache ==
  \A p \in Proxies : cache[p] # Nil /\ Quiet(p) => ServesStore(cache, p, snapshots[nodeID(p)])

\* End to end (README.md:238): once the watches are drained as well, the
\* snapshot is the one the API server's objects call for.
DrainedServesApi ==
  \A p \in Proxies :
    /\ api[p] # Nil
    /\ \A k \in WatchedKinds : watch[k] = <<>>
    /\ Quiet(p)
    => ServesStore(api, p, snapshots[nodeID(p)])

(***************************************************************************)
(* The CRs of a kind that target p, with what users may write into them,   *)
(* and the endpoints a Cluster's Service may have: ready, on the wanted    *)
(* port.                                                                   *)
(***************************************************************************)
targeting(p, kind) ==
  UNION {{[id |-> r, m |-> m] : m \in {m \in Manifests[r] : p \in mapXDSResourceToProxy(r, [m |-> m])}} :
           r \in {r \in Resources : r.kind = kind}}

backs(e, c) ==
  \E s \in Slices : \E m \in Manifests[s] :
    /\ serviceMatches(c.m.ref, c.id.ns, m.service, s.ns)
    /\ e.port \in Range(m.ports) /\ c.m.ref.port \in {Nil, e.port}
    /\ \E i \in DOMAIN m.endpoints :
         m.endpoints[i].ready # FALSE /\ e.address \in Range(m.endpoints[i].addresses) \ {""}

\* An assignment synthesised for a Cluster that targets p.
synthesisedFor(p, x) ==
  \E c \in targeting(p, "Cluster") :
    /\ c.m.ref # Nil /\ x.cluster_name = ClusterName(c.m.spec)
    /\ \A e \in Range(x.endpoints) : backs(e, c)

\* control-plane/README.md:16, the controller "groups everything by `targetRef`",
\* and eds.go:45, "Only Ready endpoints [...] on the requested port are
\* included".  At all times, whatever CRs, Services and slices Reconcile's Lists
\* mixed, and after the EnvoyProxy is deleted, its node is served only specs that
\* unmarshal of CRs that target it, and endpoints of the Services its own
\* Clusters refer to.
ServesOnlyTargeting ==
  \A p \in Proxies, k \in XdsKinds : snapshots[nodeID(p)] # Nil =>
    \A x \in Range(snapshots[nodeID(p)].resources[k]) :
      \/ \E c \in targeting(p, k) : x = c.m.spec /\ x.form = "ok"
      \/ k = "ClusterLoadAssignment" /\ synthesisedFor(p, x)

(***************************************************************************)
(* The controller, seen as a level-triggered one.                          *)
(***************************************************************************)
L == INSTANCE LevelTriggered WITH
       exists  <- {p \in Proxies : cache[p] # Nil},
       served  <- [p \in Proxies |-> snapshots[nodeID(p)]],
       right   <- {p \in Proxies : ServesStore(cache, p, snapshots[nodeID(p)])},
       pending <- {p \in Proxies : ~Quiet(p)}

\* The informers, the handlers, the workqueue and the steps of Reconcile
\* implement LevelTriggered: a change becomes visible together with a request
\* for every EnvoyProxy it concerns, reconciling one EnvoyProxy leaves the
\* snapshots of the others alone, and each is let go only when it is right.
LevelsReconciled == L!Spec

\* The Ready condition tells the truth about the snapshot cache (setCondition
\* ignores conflicts and relies on the watch event of the conflicting write to
\* run Reconcile again): when nothing is left to do for an EnvoyProxy, a Ready
\* condition that is True quotes the version of the snapshot that is stored, not
\* of an earlier one.  Holds where no Update is lost on the way ("status" \notin
\* Faults).
ReadyReportsVersion ==
  \A p \in Proxies :
    /\ api[p] # Nil /\ api[p].ready = "True"
    /\ Quiet(p)
    /\ \A i \in DOMAIN watch["EnvoyProxy"] : watch["EnvoyProxy"][i].id # p
    => snapshots[nodeID(p)] # Nil /\ api[p].version = snapshots[nodeID(p)].version

\* xds/snapshot.go:39, "version must change whenever the configuration
\* changes": Envoy is only sent a snapshot whose version differs from the one
\* it has, so a changed snapshot with an unchanged version never reaches it.
VersionChangesWithConfiguration ==
  [][\A n \in NodeIDs :
       /\ snapshots[n] # Nil /\ snapshots'[n] # Nil
       /\ snapshots'[n].resources # snapshots[n].resources
       => snapshots'[n].version # snapshots[n].version]_vars

(***************************************************************************)
(* The resourceVersions there are: those of the objects at first, and      *)
(* those the users' writes get.  The API server gives none out twice.      *)
(***************************************************************************)
resourceVersions ==
  Revisions \cup
  UNION {{store[i].rv : i \in {i \in Resources \cup Slices : store[i] # Nil}} : store \in InitialStores}

FreshRevisions ==
  \A store \in InitialStores : \A i \in {i \in Resources \cup Slices : store[i] # Nil} :
    /\ store[i].rv \notin Revisions
    /\ \A j \in {j \in Resources \cup Slices : store[j] # Nil} : store[i].rv = store[j].rv => i = j

(***************************************************************************)
(* The two ways in which different objects can have one version: the text  *)
(* that is hashed can be read as different resourceVersions (each is a     *)
(* digit at least), or two of the clusters take their endpoints from the   *)
(* same Service, so that its slices may be of the one or of the other.     *)
(***************************************************************************)
readings(v) ==
  {q \in UNION {[1..n -> resourceVersions] : n \in 0..Len(v)} : computeVersion(<<q>>) = v}

ambiguous(v) == \E q, r \in readings(v) : q # r

shareService(b, c) ==
  /\ b.obj.m.ref # Nil /\ c.obj.m.ref # Nil
  /\ b.obj.m.ref.name = c.obj.m.ref.name
  /\ orOwn(b.obj.m.ref.namespace, b.id.ns) = orOwn(c.obj.m.ref.namespace, c.id.ns)

\* How far xds/snapshot.go:39 holds: however the writes interleave with the Lists,
\* a snapshot with changed resources keeps the version of the one before only if
\* the text of the version is ambiguous, or if two Clusters that were collected
\* refer to the same Service.
UnchangedVersionExplained ==
  [][\A n \in NodeIDs :
       /\ snapshots[n] # Nil /\ snapshots'[n] # Nil
       /\ snapshots'[n].resources # snapshots[n].resources
       /\ snapshots'[n].version = snapshots[n].version
       => \/ ambiguous(snapshots[n].version)
          \/ \E i, j \in DOMAIN lists["Cluster"] :
               i # j /\ shareService(lists["Cluster"][i], lists["Cluster"][j])]_vars

\* envoyproxy_controller.go:251, "a stable snapshot version": reconciling
\* objects that have not changed gives the version it gave before.  (Stated
\* for runs in which users write nothing.)
StableVersion ==
  [][\A n \in NodeIDs :
       snapshots[n] # Nil /\ snapshots'[n] # Nil =>
         snapshots'[n].version = snapshots[n].version]_vars

\* control-plane/README.md:13, "Manual CLA CRs always take precedence over
\* auto-synthesised ones": in a settled snapshot, the assignment of a cluster
\* that has a manual ClusterLoadAssignment is a manual one.
ManualTakesPrecedence ==
  \A p \in Proxies : cache[p] # Nil /\ Quiet(p) =>
    LET manual == {x.obj.m.spec : x \in collected(cache, p, "ClusterLoadAssignment")}
        served == snapshots[nodeID(p)].resources["ClusterLoadAssignment"]
    IN  \A spec \in manual : spec.form = "ok" => served[spec.cluster_name] \in manual

\* control-plane/README.md:21, "status conditions reflect connection state
\* (`Connected`)": when nothing is left to do for an EnvoyProxy, its Connected
\* condition is what IsConnected reports.
ConnectedReflectsStream ==
  \A p \in Proxies :
    /\ api[p] # Nil
    /\ Quiet(p)
    /\ \A i \in DOMAIN watch["EnvoyProxy"] : watch["EnvoyProxy"][i].id # p
    => (api[p].connected = "True") = (nodeID(p) \in connected)

(***************************************************************************)
(* Liveness.                                                               *)
(***************************************************************************)
Builds(store, p) ==
  \A k \in XdsKinds : \A x \in collected(store, p, k) : x.obj.m.spec.form \in {"empty", "ok"}

(***************************************************************************)
(* From some time on no read of Reconcile and no SetSnapshot fails, the    *)
(* process does not restart, and no request of p is lost.                  *)
(***************************************************************************)
Undisturbed(p) ==
  /\ <>[](p \notin missed)
  /\ <>[][~ ReadFails /\ ~ (pc' = "setFailed" /\ SetSnapshot) /\ ~ Restart]_vars

\* README.md:238, the operator "picks up the CR, rebuilds the xDS snapshot":
\* when users stop writing, every EnvoyProxy whose CRs all unmarshal ends up
\* with a snapshot its CRs call for and keeps to those, even while another
\* EnvoyProxy fails to build and is retried for ever.
EventuallyServed ==
  \A p \in Proxies : Undisturbed(p) =>
    <>[](api[p] # Nil /\ Builds(api, p) => ServesStore(api, p, snapshots[nodeID(p)]))

\* The controller's own status writes wake it up again (For(&EnvoyProxy{}) has
\* no predicate).  While the Lists keep coming in another order they change the
\* version, hence the status, and this goes on.  Once they do not, users stop
\* writing and no Envoy of an EnvoyProxy that builds connects or leaves, it dies
\* out, even while another EnvoyProxy is retried for ever.
Settles ==
  \A p \in Proxies :
    /\ Undisturbed(p)
    /\ <>[][/\ snapshots'[nodeID(p)] = snapshots[nodeID(p)]
            /\ nodeID(p) \in connected' <=> nodeID(p) \in connected]_vars
    => <>[](Builds(api, p) =>
              /\ Quiet(p)
              /\ \A i \in DOMAIN watch["EnvoyProxy"] : watch["EnvoyProxy"][i].id # p)

=============================================================================
