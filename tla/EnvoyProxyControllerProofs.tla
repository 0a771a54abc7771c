---------------------- MODULE EnvoyProxyControllerProofs ----------------------
(***************************************************************************)
(* Theorems about EnvoyProxyController, for every set of objects, every    *)
(* history of writes and every combination of failures.                    *)
(***************************************************************************)
EXTENDS EnvoyProxyController, TLAPS, SequenceTheorems, FiniteSetTheorems

\* The provers a leaf is tried with when it names none, and their time in seconds.
USE SMTT(30), ZenonT(30)

-----------------------------------------------------------------------------
(***************************************************************************)
(* Sequences.                                                              *)
(***************************************************************************)
\* What appending to an event queue does.
LEMMA AppendFacts ==
  ASSUME NEW s, IsSeq(s), NEW x
  PROVE  /\ IsSeq(Append(s, x))
         /\ Len(s) \in Nat /\ DOMAIN s = 1..Len(s)
         /\ DOMAIN Append(s, x) = 1..(Len(s) + 1)
         /\ \A i \in 1..Len(s) : Append(s, x)[i] = s[i]
         /\ Append(s, x)[Len(s) + 1] = x
<1> DEFINE S == Range(s) \cup {x}
           t == Append(s, x)
<1>1. s \in Seq(S)
  BY SeqMonotonic DEF IsSeq
<1>2. t \in Seq(S) /\ Len(t) = Len(s) + 1 /\ (\A i \in 1..Len(s) : t[i] = s[i]) /\ t[Len(s) + 1] = x
  BY <1>1
<1>3. DOMAIN t = 1..Len(t) /\ Len(s) \in Nat /\ DOMAIN s = 1..Len(s)
  BY <1>1, <1>2
<1>4. t \in Seq(Range(t))
  BY <1>2, SeqOfRange, ZenonT(30)
<1> QED
  BY <1>2, <1>3, <1>4 DEF IsSeq

\* What taking the head off an event queue does.
LEMMA TailFacts ==
  ASSUME NEW s, IsSeq(s), s # <<>>
  PROVE  /\ IsSeq(Tail(s))
         /\ Len(s) \in Nat \ {0} /\ DOMAIN s = 1..Len(s)
         /\ Head(s) = s[1]
         /\ DOMAIN Tail(s) = 1..(Len(s) - 1)
         /\ \A i \in 1..(Len(s) - 1) : Tail(s)[i] = s[i + 1]
<1> DEFINE S == Range(s)
           t == Tail(s)
<1>1. s \in Seq(S)
  BY DEF IsSeq
<1>2. t \in Seq(S) /\ Len(t) = Len(s) - 1 /\ (\A i \in 1..Len(t) : t[i] = s[i + 1])
  BY <1>1
<1>3. DOMAIN t = 1..Len(t) /\ Len(s) \in Nat \ {0} /\ DOMAIN s = 1..Len(s)
  BY <1>1, <1>2
<1>4. t \in Seq(Range(t))
  BY <1>2, SeqOfRange, ZenonT(30)
<1> QED
  BY <1>1, <1>2, <1>3, <1>4 DEF IsSeq

\* A List of finitely many objects is a sequence of just those objects.
LEMMA ListingFacts ==
  ASSUME NEW S, IsFiniteSet(S), NEW f \in Listings(S)
  PROVE  /\ IsSeq(f)
         /\ \A i \in DOMAIN f : f[i] \in S
         /\ \A x \in S : \E i \in DOMAIN f : f[i] = x
<1>1. Cardinality(S) \in Nat
  BY FS_CardinalityType
<1>2. f \in [1..Cardinality(S) -> S] /\ \A x \in S : \E i \in DOMAIN f : f[i] = x
  BY DEF Listings, Surjection
<1>3. f \in Seq(S)
  BY <1>1, <1>2
<1>4. f \in Seq(Range(f))
  BY <1>3, SeqOfRange
<1> QED
  BY <1>2, <1>4 DEF IsSeq

\* Finitely many objects can be listed.
LEMMA ListingExists ==
  ASSUME NEW S, IsFiniteSet(S)
  PROVE  \E f : f \in Listings(S)
<1>1. PICK f \in Bijection(1..Cardinality(S), S) : TRUE
  BY FS_CardinalityType DEF ExistsBijection
<1> QED
  BY <1>1 DEF Bijection, Listings

\* A set of numbers has a least one.
LEMMA LeastNumber ==
  ASSUME NEW T, T \subseteq Nat, T # {}
  PROVE  \E x \in T : \A y \in T : x <= y
<1>1. PICK x \in T : \A y \in T : ~ (<<y, x>> \in OpToRel(<, Nat))
  BY NatLessThanWellFounded, WFMin, ZenonT(30)
<1>2. ASSUME NEW y \in T PROVE x <= y
  <2>1. ~ (<<y, x>> \in {ss \in Nat \X Nat : ss[1] < ss[2]})
    BY <1>1, ZenonT(30) DEF OpToRel
  <2>2. x \in Nat /\ y \in Nat
    BY <1>1, ZenonT(30)
  <2> QED
    BY <2>1, <2>2
<1> QED
  BY <1>2

\* The least of the revisions not yet given out is a number.
LEMMA MinInNat ==
  ASSUME NEW S, S \subseteq Nat, NEW r \in Nat, \E n \in S : n > r
  PROVE  Min({n \in S : n > r}) \in Nat
<1> DEFINE T == {n \in S : n > r}
<1>1. T # {} /\ T \subseteq Nat
  BY ZenonT(30)
<1>2. \E x \in T : \A y \in T : x <= y
  BY <1>1, LeastNumber, ZenonT(30)
<1> QED
  BY <1>1, <1>2 DEF Min

-----------------------------------------------------------------------------
(***************************************************************************)
(* Objects.                                                                *)
(***************************************************************************)
\* The kinds tell identities apart.
LEMMA KindFacts ==
  /\ \A p \in Proxies : p.kind = "EnvoyProxy" /\ p \notin Resources /\ p \notin Slices
  /\ \A r \in Resources : r.kind \in XdsKinds /\ r \notin Proxies /\ r \notin Slices
  /\ \A s \in Slices : s.kind = "EndpointSlice" /\ s \notin Proxies /\ s \notin Resources
  /\ \A i \in Ids : i.kind \in WatchedKinds
  /\ \A i \in Ids : i.kind \in XdsKinds => i \in Resources
  /\ \A i \in Ids : i.kind = "EndpointSlice" => i \in Slices
  /\ \A i \in Ids : i.kind = "EnvoyProxy" => i \in Proxies
  /\ "EnvoyProxy" \in WatchedKinds /\ "EndpointSlice" \in WatchedKinds
  /\ XdsKinds \subseteq WatchedKinds
BY IdentitiesAssumption DEF Proxies, Ids, WatchedKinds, XdsKinds

\* Node identities are unique: the name and the namespace can be read back
\* from name.namespace, because a namespace has no dots.
LEMMA NodeIDInjective ==
  ASSUME NEW p \in Proxies, NEW q \in Proxies, nodeID(p) = nodeID(q)
  PROVE  p = q
<1>1. /\ p.name \in Seq(STRING \cup Namespaces) /\ q.name \in Seq(STRING \cup Namespaces)
      /\ p.ns \in Namespaces /\ q.ns \in Namespaces
  BY NamesAssumption, SeqMonotonic DEF Proxies
<1>2. p.name = q.name /\ p.ns = q.ns
  BY <1>1 DEF nodeID
<1> QED
  BY <1>2 DEF Proxies

\* The filter of the collect functions and the map function of the watches
\* agree: a CR is collected for a proxy exactly if its changes are mapped to it.
LEMMA MapAgreesWithTarget ==
  ASSUME NEW p \in Proxies, NEW r, NEW o
  PROVE  targetMatches(o.m.targetRef, r.ns, p) <=> p \in mapXDSResourceToProxy(r, o)
<1>1. p = [kind |-> "EnvoyProxy", ns |-> p.ns, name |-> p.name]
  BY DEF Proxies
<1> QED
  BY <1>1 DEF targetMatches, mapXDSResourceToProxy, request

\* A collect function returns finitely many CRs.
LEMMA FiniteCollected ==
  ASSUME NEW store, NEW p, NEW k
  PROVE  IsFiniteSet(collected(store, p, k))
<1> DEFINE T == {r \in Resources :
                   /\ r.kind = k
                   /\ store[r] # Nil
                   /\ targetMatches(store[r].m.targetRef, r.ns, p)}
           F == [r \in T |-> [id |-> r, obj |-> store[r]]]
<1>1. IsFiniteSet(T)
  BY IdentitiesAssumption, FS_Subset DEF Ids
<1>2. F \in Surjection(T, collected(store, p, k))
  BY ZenonT(30) DEF Surjection, collected
<1> QED
  BY <1>1, <1>2, FS_Surjection

\* The initial list of an informer announces finitely many objects.
LEMMA FiniteAdditions ==
  ASSUME NEW store, NEW k
  PROVE  IsFiniteSet(additions(store, k))
<1> DEFINE T == {i \in Ids : i.kind = k /\ store[i] # Nil}
           F == [i \in T |-> [id |-> i, old |-> Nil, new |-> store[i]]]
<1>1. IsFiniteSet(T)
  BY IdentitiesAssumption, FS_Subset
<1>2. F \in Surjection(T, additions(store, k))
  BY ZenonT(30) DEF Surjection, additions
<1> QED
  BY <1>1, <1>2, FS_Surjection

\* At a start the handlers are notified of every object in the caches.
LEMMA InitialNotifsFacts ==
  ASSUME NEW store, IsStore(store)
  PROVE  /\ DOMAIN initialNotifs(store) = WatchedKinds
         /\ \A k \in WatchedKinds :
              LET q == initialNotifs(store)[k]
              IN  /\ IsSeq(q)
                  /\ \A i \in DOMAIN q : IsNotif(q[i], k)
                  /\ \A x \in additions(store, k) : \E i \in DOMAIN q : q[i] = x
<1>1. SUFFICES ASSUME NEW k \in WatchedKinds
               PROVE  LET q == initialNotifs(store)[k]
                      IN  /\ IsSeq(q)
                          /\ \A i \in DOMAIN q : IsNotif(q[i], k)
                          /\ \A x \in additions(store, k) : \E i \in DOMAIN q : q[i] = x
  BY ZenonT(30) DEF initialNotifs
<1> DEFINE q == CHOOSE f \in Listings(additions(store, k)) : TRUE
<1>2. initialNotifs(store)[k] = q
  BY DEF initialNotifs
<1>3. q \in Listings(additions(store, k))
  BY FiniteAdditions, ListingExists
<1> HIDE DEF q
<1>4. /\ IsSeq(q)
      /\ \A i \in DOMAIN q : q[i] \in additions(store, k)
      /\ \A x \in additions(store, k) : \E i \in DOMAIN q : q[i] = x
  BY <1>3, FiniteAdditions, ListingFacts
<1>5. \A x \in additions(store, k) : IsNotif(x, k)
  BY DEF additions, IsNotif, IsEvent, IsStore
<1> QED
  BY <1>2, <1>4, <1>5

-----------------------------------------------------------------------------
(***************************************************************************)
(* Type correctness.                                                       *)
(***************************************************************************)
\* What each group of variables must hold.
StoresOK == IsStore(api) /\ IsStore(cache) /\ rev \in Nat

QueuesOK ==
  /\ DOMAIN watch = WatchedKinds /\ DOMAIN notifs = WatchedKinds
  /\ \A k \in WatchedKinds :
       /\ IsSeq(watch[k]) /\ \A i \in DOMAIN watch[k] : IsEvent(watch[k][i], k)
       /\ IsSeq(notifs[k]) /\ \A i \in DOMAIN notifs[k] : IsNotif(notifs[k][i], k)
  /\ dirty \subseteq Proxies /\ backoff \subseteq Proxies /\ missed \subseteq Proxies

WorkerOK ==
  /\ pc \in Steps
  /\ IF pc = "idle" THEN req = Nil ELSE req \in Proxies
  /\ IsProxy(ep)
  /\ epCurrent \in BOOLEAN
  /\ lists = [k \in XdsKinds |-> lists[k]]
  /\ \A k \in XdsKinds : IsSeq(lists[k]) /\ \A i \in DOMAIN lists[k] : IsItem(lists[k][i], k)
  /\ IsSeq(synth)

ServerOK == DOMAIN snapshots = NodeIDs /\ connected \subseteq NodeIDs

\* The groups together are the type invariant.
LEMMA TypeSplit == TypeOK <=> StoresOK /\ QueuesOK /\ WorkerOK /\ ServerOK
BY DEF TypeOK, StoresOK, QueuesOK, WorkerOK, ServerOK

\* A write keeps the store and the watches well typed.
LEMMA WriteType ==
  ASSUME TypeOK, NEW i \in Ids, NEW obj, obj # Nil => IsObject(i, obj), write(i, obj)
  PROVE  /\ IsStore(api')
         /\ DOMAIN watch' = WatchedKinds
         /\ \A k \in WatchedKinds :
              IsSeq(watch'[k]) /\ \A j \in DOMAIN watch'[k] : IsEvent(watch'[k][j], k)
<1> DEFINE e == [id |-> i, new |-> obj]
<1>1. IsStore(api')
  BY DEF write, TypeOK, IsStore
<1>2. DOMAIN watch' = WatchedKinds
  BY DEF write, TypeOK
<1>3. ASSUME NEW k \in WatchedKinds
      PROVE  IsSeq(watch'[k]) /\ \A j \in DOMAIN watch'[k] : IsEvent(watch'[k][j], k)
  <2>1. CASE k = i.kind
    <3>1. watch'[k] = Append(watch[k], e)
      BY <2>1 DEF write, TypeOK
    <3>2. IsEvent(e, k)
      BY <2>1 DEF IsEvent
    <3>3. IsSeq(watch[k]) /\ \A j \in DOMAIN watch[k] : IsEvent(watch[k][j], k)
      BY DEF TypeOK
    <3> HIDE DEF e
    <3> QED
      BY <3>1, <3>2, <3>3, AppendFacts
  <2>2. CASE k # i.kind
    BY <2>2 DEF write, TypeOK
  <2> QED
    BY <2>1, <2>2
<1> QED
  BY <1>1, <1>2, <1>3

\* Every initial state is well typed.
LEMMA TypeInit == Init => TypeOK
<1> SUFFICES ASSUME Init PROVE TypeOK
  OBVIOUS
<1>1. StoresOK
  BY StoresAssumption DEF Init, StoresOK
<1>2. IsSeq(<<>>) /\ DOMAIN <<>> = {}
  BY EmptySeq, SeqOfRange DEF IsSeq
<1>3. QueuesOK
  BY <1>1, <1>2, InitialNotifsFacts DEF Init, QueuesOK, StoresOK
<1>4. WorkerOK
  BY <1>2, ZenonT(30) DEF Init, WorkerOK, NewProxy, NoLists, IsProxy, ConditionStatus, Steps
<1>5. ServerOK
  BY DEF Init, ServerOK
<1> QED
  BY <1>1, <1>3, <1>4, <1>5, TypeSplit

\* Users' writes keep the state well typed.
LEMMA TypeUser == TypeOK /\ User => TypeOK'
<1> SUFFICES ASSUME TypeOK, NEW i \in Ids, NEW obj,
                    obj # Nil => IsObject(i, obj), userWrite(i, obj)
             PROVE  TypeOK'
  <2>1. ASSUME TypeOK, NEW r \in Edited \ Proxies, NEW m \in Manifests[r], Apply(r, m)
        PROVE  LET obj == [rv |-> Min({n \in Revisions : n > rev}), m |-> m]
               IN  r \in Ids /\ IsObject(r, obj) /\ userWrite(r, obj)
    <3> DEFINE S == {n \in Revisions : n > rev}
    <3>1. Min(S) \in Nat
      BY <2>1, BoundsAssumption, MinInNat, ZenonT(30) DEF Apply, userWrite, TypeOK
    <3> QED
      BY <2>1, <3>1, BoundsAssumption DEF Apply, IsObject, Versions
  <2>2. \A p \in Proxies : IsObject(p, NewProxy)
    BY DEF IsObject, IsProxy, NewProxy, ConditionStatus
  <2>3. \A p \in Proxies : TypeOK /\ api[p] # Nil => IsObject(p, api[p])
    BY ZenonT(30) DEF TypeOK, IsStore, Ids
  <2> QED
    BY <2>1, <2>2, <2>3, BoundsAssumption, ZenonT(30) DEF User, Delete, CreateProxy, TouchProxy, Ids
<1>1. rev' \in Nat
  BY MinInNat, BoundsAssumption DEF userWrite, TypeOK
<1>2. IsStore(api') /\ IsStore(cache')
  BY WriteType DEF userWrite, TypeOK
<1>3. QueuesOK'
  BY WriteType DEF userWrite, TypeOK, QueuesOK, queueVars
<1>4. WorkerOK'
  BY DEF userWrite, TypeOK, WorkerOK
<1>5. ServerOK'
  BY DEF userWrite, TypeOK, ServerOK
<1> QED
  BY <1>1, <1>2, <1>3, <1>4, <1>5 DEF TypeOK, QueuesOK, WorkerOK, ServerOK

\* Applying a watch event and running a handler keep the queues well typed.
LEMMA TypeDeliver == \A k \in WatchedKinds : TypeOK /\ Deliver(k) => TypeOK'
<1> SUFFICES ASSUME NEW k \in WatchedKinds, TypeOK, Deliver(k) PROVE TypeOK'
  OBVIOUS
<1> DEFINE e == Head(watch[k])
           n == [id |-> e.id, old |-> cache[e.id], new |-> e.new]
<1>1. /\ IsSeq(watch[k]) /\ watch[k] # <<>> /\ IsSeq(notifs[k])
      /\ \A i \in DOMAIN watch[k] : IsEvent(watch[k][i], k)
      /\ \A i \in DOMAIN notifs[k] : IsNotif(notifs[k][i], k)
  BY DEF TypeOK, Deliver
<1>2. IsEvent(e, k)
  BY <1>1, TailFacts
<1>3. IsNotif(n, k)
  BY <1>2 DEF IsNotif, IsEvent, TypeOK, IsStore
<1>4. IsStore(cache')
  BY <1>2 DEF Deliver, TypeOK, IsStore, IsEvent
<1>5. watch'[k] = Tail(watch[k]) /\ notifs'[k] = Append(notifs[k], n)
  BY DEF Deliver, TypeOK
<1>6. \A j \in WatchedKinds \ {k} : watch'[j] = watch[j] /\ notifs'[j] = notifs[j]
  BY DEF Deliver, TypeOK
<1>7. DOMAIN watch' = WatchedKinds /\ DOMAIN notifs' = WatchedKinds
  BY DEF Deliver, TypeOK
<1> HIDE DEF n
<1>8. IsSeq(watch'[k]) /\ \A i \in DOMAIN watch'[k] : IsEvent(watch'[k][i], k)
  BY <1>1, <1>5, TailFacts
<1>9. IsSeq(notifs'[k]) /\ \A i \in DOMAIN notifs'[k] : IsNotif(notifs'[k][i], k)
  BY <1>1, <1>3, <1>5, AppendFacts
<1>10. StoresOK' /\ WorkerOK' /\ ServerOK'
  BY <1>4 DEF Deliver, TypeOK, StoresOK, WorkerOK, ServerOK, workVars
<1>11. QueuesOK'
  BY <1>6, <1>7, <1>8, <1>9 DEF Deliver, TypeOK, QueuesOK, queueVars
<1> QED
  BY <1>10, <1>11 DEF TypeOK, StoresOK, QueuesOK, WorkerOK, ServerOK

\* Requests name EnvoyProxies: a TargetRef resolves to a proxy identity.
LEMMA RequestsAreProxies ==
  ASSUME TypeOK, NEW k \in WatchedKinds, NEW n, IsNotif(n, k)
  PROVE  requestsOf(n, cache) \subseteq Proxies
<1>1. ASSUME NEW r \in Resources, NEW o \in Versions(r)
      PROVE  mapXDSResourceToProxy(r, o) \subseteq Proxies
  <2>1. o.m.targetRef \in TargetRefs /\ r.ns \in Namespaces
    BY ManifestsAssumption, IdentitiesAssumption DEF Versions
  <2>2. o.m.targetRef.name \in ProxyNames /\ orOwn(o.m.targetRef.namespace, r.ns) \in Namespaces
    BY <2>1, ZenonT(30) DEF orOwn, TargetRefs
  <2>3. request(o.m.targetRef.name, orOwn(o.m.targetRef.namespace, r.ns)) \in Proxies
    BY <2>2 DEF request, Proxies
  <2> QED
    BY <2>3 DEF mapXDSResourceToProxy
<1>2. ASSUME NEW o PROVE mapEndpointSliceToProxies(n.id, o, cache) \subseteq Proxies
  <2>1. \A r \in Resources : cache[r] # Nil => cache[r] \in Versions(r)
    BY KindFacts DEF TypeOK, IsStore, IsObject, Ids
  <2> QED
    BY <1>1, <2>1 DEF mapEndpointSliceToProxies
<1>3. CASE n.id.kind = "EnvoyProxy"
  BY <1>3, KindFacts DEF requestsOf, IsNotif, IsEvent
<1>4. CASE n.id.kind = "EndpointSlice"
  BY <1>2, <1>4 DEF requestsOf
<1>5. CASE n.id.kind \in XdsKinds
  <2>1. n.id \in Resources /\ \A o \in {n.old, n.new} \ {Nil} : o \in Versions(n.id)
    BY <1>5, KindFacts DEF IsNotif, IsEvent, IsObject
  <2>2. n.id.kind # "EnvoyProxy" /\ n.id.kind # "EndpointSlice"
    BY <1>5 DEF XdsKinds
  <2> QED
    BY <1>1, <2>1, <2>2 DEF requestsOf
<1> QED
  BY <1>3, <1>4, <1>5 DEF IsNotif, IsEvent, WatchedKinds

\* What the calls of the slice handler enqueue and what their failures lose is,
\* together, what the event calls for.
LEMMA DropSplits ==
  ASSUME DropSliceEvent, Head(notifs["EndpointSlice"]).id.kind = "EndpointSlice"
  PROVE  \E d, m : /\ dirty' = dirty \cup d /\ missed' = missed \cup m
                   /\ d \cup m = requestsOf(Head(notifs["EndpointSlice"]), cache)
<1> DEFINE n == Head(notifs["EndpointSlice"])
           objs == {n.old, n.new} \ {Nil}
           reqs(o) == mapEndpointSliceToProxies(n.id, o, cache)
<1>1. requestsOf(n, cache) = UNION {reqs(o) : o \in objs}
  BY Zenon DEF requestsOf
<1>2. \E lost \in SUBSET objs : /\ dirty' = dirty \cup UNION {reqs(o) : o \in objs \ lost}
                               /\ missed' = missed \cup UNION {reqs(o) : o \in lost}
  BY Zenon DEF DropSliceEvent
<1> HIDE DEF reqs, objs, n
<1>3. PICK lost \in SUBSET objs : /\ dirty' = dirty \cup UNION {reqs(o) : o \in objs \ lost}
                                 /\ missed' = missed \cup UNION {reqs(o) : o \in lost}
  BY <1>2, Zenon
<1> DEFINE d == UNION {reqs(o) : o \in objs \ lost}
           m == UNION {reqs(o) : o \in lost}
<1>4. d \cup m = requestsOf(n, cache)
  BY <1>1
<1>5. dirty' = dirty \cup d /\ missed' = missed \cup m
  BY <1>3
<1> HIDE DEF d, m
<1> QED BY <1>4, <1>5 DEF n

\* Running or dropping an event handler keeps the types: what SetupWithManager
\* enqueues are identities of EnvoyProxies.
LEMMA TypeHandle == TypeOK /\ ((\E k \in WatchedKinds : Handle(k)) \/ DropSliceEvent) => TypeOK'
<1> SUFFICES ASSUME TypeOK, NEW k \in WatchedKinds,
                    Handle(k) \/ (DropSliceEvent /\ k = "EndpointSlice")
             PROVE  TypeOK'
  BY KindFacts
<1>1. /\ IsSeq(notifs[k]) /\ notifs[k] # <<>>
      /\ \A i \in DOMAIN notifs[k] : IsNotif(notifs[k][i], k)
  BY DEF TypeOK, Handle, DropSliceEvent
<1>2. requestsOf(Head(notifs[k]), cache) \subseteq Proxies
  BY <1>1, TailFacts, RequestsAreProxies
<1>3. /\ DOMAIN notifs' = WatchedKinds /\ notifs'[k] = Tail(notifs[k])
      /\ \A j \in WatchedKinds \ {k} : notifs'[j] = notifs[j]
  BY DEF TypeOK, Handle, DropSliceEvent
<1>4. IsSeq(notifs'[k]) /\ \A i \in DOMAIN notifs'[k] : IsNotif(notifs'[k][i], k)
  BY <1>1, <1>3, TailFacts
<1>5. StoresOK' /\ WorkerOK' /\ ServerOK'
  BY ZenonT(30) DEF Handle, DropSliceEvent, TypeOK, StoresOK, WorkerOK, ServerOK, apiVars, workVars
<1>6. /\ dirty' \subseteq dirty \cup requestsOf(Head(notifs[k]), cache)
      /\ missed' \subseteq missed \cup requestsOf(Head(notifs[k]), cache)
      /\ backoff' = backoff /\ watch' = watch
  <2>1. CASE Handle(k)
    BY <2>1 DEF Handle, apiVars
  <2>2. CASE DropSliceEvent /\ k = "EndpointSlice"
    <3>1. Head(notifs[k]).id.kind = "EndpointSlice" /\ backoff' = backoff /\ watch' = watch
      BY <1>1, <2>2, TailFacts DEF IsNotif, IsEvent, DropSliceEvent, apiVars
    <3> QED BY <2>2, <3>1, DropSplits
  <2> QED BY <2>1, <2>2
<1>7. QueuesOK'
  BY <1>2, <1>3, <1>4, <1>6 DEF TypeOK, QueuesOK
<1> QED
  BY <1>5, <1>7 DEF TypeOK, StoresOK, QueuesOK, WorkerOK, ServerOK

\* The workqueue.
LEMMA TypeQueue ==
  TypeOK /\ (\E p \in Proxies : Dequeue(p) \/ RetryAfterBackoff(p)) => TypeOK'
BY DEF TypeOK, Dequeue, RetryAfterBackoff, apiVars, workVars, Steps

\* A reconcile that ends leaves well-typed locals.
LEMMA TypeForget ==
  ASSUME forget
  PROVE  WorkerOK'
<1>1. IsSeq(<<>>) /\ DOMAIN <<>> = {}
  BY EmptySeq, SeqOfRange DEF IsSeq
<1> QED
  BY <1>1, ZenonT(30) DEF forget, WorkerOK, NewProxy, NoLists, IsProxy, ConditionStatus, Steps

\* The Lists of Reconcile.
LEMMA TypeCollect ==
  ASSUME TypeOK, NEW from \in Steps \ {"idle"}, NEW to \in Steps \ {"idle"}, NEW kind \in XdsKinds,
         collect(from, kind, to)
  PROVE  TypeOK'
<1>1. PICK items \in Listings(collected(cache, req, kind)) : lists' = [lists EXCEPT ![kind] = items]
  BY ZenonT(30) DEF collect
<1>2. IsSeq(items) /\ \A i \in DOMAIN items : items[i] \in collected(cache, req, kind)
  BY FiniteCollected, ListingFacts
<1>3. \A x \in collected(cache, req, kind) : IsItem(x, kind)
  BY KindFacts DEF collected, IsItem, TypeOK, IsStore, IsObject, Ids
<1>4. WorkerOK'
  <2>1. DOMAIN lists' = XdsKinds
    BY <1>1 DEF TypeOK
  <2>2. \A k \in XdsKinds : IsSeq(lists'[k]) /\ \A i \in DOMAIN lists'[k] : IsItem(lists'[k][i], k)
    BY <1>1, <1>2, <1>3 DEF TypeOK
  <2> QED
    BY <2>1, <2>2 DEF collect, TypeOK, WorkerOK
<1>5. StoresOK' /\ QueuesOK' /\ ServerOK'
  BY DEF collect, TypeOK, StoresOK, QueuesOK, ServerOK, apiVars, queueVars
<1> QED
  BY <1>4, <1>5 DEF TypeOK, StoresOK, QueuesOK, WorkerOK, ServerOK

\* Sending a status leaves store and watches well typed.
LEMMA TypeSetCondition ==
  ASSUME TypeOK, req \in Proxies, NEW obj, IsProxy(obj), setCondition(obj)
  PROVE  /\ IsStore(api')
         /\ DOMAIN watch' = WatchedKinds
         /\ \A k \in WatchedKinds :
              IsSeq(watch'[k]) /\ \A j \in DOMAIN watch'[k] : IsEvent(watch'[k][j], k)
<1>1. CASE write(req, obj)
  BY <1>1, WriteType DEF IsObject, Ids
<1>2. CASE UNCHANGED <<api, watch>>
  BY <1>2 DEF TypeOK
<1> QED
  BY <1>1, <1>2 DEF setCondition, accepted, refused

\* Reconcile, step by step.
LEMMA TypeReconcile == TypeOK /\ (Reconcile \/ ReadFails) => TypeOK'
<1> SUFFICES ASSUME TypeOK, Reconcile \/ ReadFails PROVE StoresOK' /\ QueuesOK' /\ WorkerOK' /\ ServerOK'
  BY ZenonT(30) DEF TypeOK, StoresOK, QueuesOK, WorkerOK, ServerOK
<1>0. StoresOK /\ QueuesOK /\ WorkerOK /\ ServerOK
  BY TypeSplit
<1>1. CASE Get
  <2>1. WorkerOK'
    <3>1. CASE cache[req] = Nil
      BY <1>1, <3>1, TypeForget DEF Get, returnNil
    <3>2. CASE cache[req] # Nil
      <4>1. req \in Proxies /\ IsObject(req, cache[req])
        BY <1>1, <3>2 DEF Get, TypeOK, IsStore, Ids
      <4> QED
        BY <1>1, <3>2, <4>1 DEF Get, TypeOK, WorkerOK, IsObject, Steps
    <3> QED
      BY <3>1, <3>2
  <2>2. backoff' = backoff
    BY <1>1, ZenonT(30) DEF Get, returnNil
  <2> QED
    BY <1>0, <1>1, <2>1, <2>2 DEF Get, StoresOK, QueuesOK, ServerOK, apiVars
<1>2. CASE \/ collectListeners \/ collectClusters \/ collectRoutes \/ collectScopedRoutes
           \/ collectManual
  <2>1. TypeOK'
    BY <1>2, TypeCollect DEF collectListeners, collectClusters, collectRoutes,
       collectScopedRoutes, collectManual, Steps, XdsKinds
  <2> QED
    BY <2>1 DEF TypeOK, StoresOK, QueuesOK, WorkerOK, ServerOK
<1>3. CASE synthesize
  <2>1. IsSeq(synth')
    BY <1>3, AppendFacts DEF synthesize, TypeOK
  <2> QED
    BY <1>0, <1>3, <2>1 DEF synthesize, StoresOK, QueuesOK, WorkerOK, ServerOK, apiVars, queueVars
<1>4. CASE ReadFails
  <2>1. WorkerOK'
    BY <1>4, TypeForget, ZenonT(30) DEF ReadFails, returnError
  <2>2. backoff' \subseteq Proxies
    BY <1>4 DEF ReadFails, returnError, TypeOK
  <2> QED
    BY <1>0, <1>4, <2>1, <2>2, ZenonT(30) DEF ReadFails, StoresOK, QueuesOK, ServerOK, apiVars
<1>5. CASE BuildFails \/ SetSnapshot
  <2>1. WorkerOK'
    BY <1>0, <1>5 DEF BuildFails, SetSnapshot, WorkerOK, workVars, Steps, collectedAll
  <2>2. DOMAIN snapshots' = NodeIDs
    BY <1>0, <1>5 DEF BuildFails, SetSnapshot, ServerOK
  <2> QED
    BY <1>0, <1>5, <2>1, <2>2, ZenonT(30) DEF BuildFails, SetSnapshot, StoresOK, QueuesOK, ServerOK, apiVars, queueVars
<1>6. CASE IsConnected
  <2>1. IsProxy(ep')
    BY <1>6 DEF IsConnected, TypeOK, IsProxy, ConditionStatus
  <2> QED
    BY <1>0, <1>6, <2>1 DEF IsConnected, StoresOK, QueuesOK, WorkerOK, ServerOK, Steps, apiVars, queueVars
<1>7. CASE setConnected
  <2>1. req \in Proxies /\ setCondition(ep)
    BY <1>7 DEF setConnected, TypeOK, setCondition
  <2>2. StoresOK' /\ QueuesOK'
    BY <1>7, <2>1, TypeSetCondition DEF setConnected, TypeOK, StoresOK, QueuesOK, queueVars
  <2> QED
    BY <1>0, <1>7, <2>2, ZenonT(30) DEF setConnected, WorkerOK, ServerOK, Steps
<1>8. CASE setReady \/ setFailed
  <2>1. req \in Proxies
    BY <1>8 DEF setReady, setFailed, TypeOK
  <2>2. PICK obj : setCondition(obj) /\ IsProxy(obj)
    <3>1. ASSUME NEW r \in ConditionStatus, NEW v
          PROVE  IsProxy([ep EXCEPT !.ready = r, !.version = v])
      BY DEF TypeOK, IsProxy
    <3> QED
      BY <1>8, <3>1, ZenonT(30) DEF setReady, setFailed, ConditionStatus
  <2>3. StoresOK'
    BY <1>8, <2>1, <2>2, TypeSetCondition DEF setReady, setFailed, TypeOK, StoresOK
  <2>4. backoff' \subseteq Proxies
    BY <1>8, <2>1 DEF setReady, setFailed, returnNil, returnError, TypeOK
  <2>5. QueuesOK'
    BY <1>0, <1>8, <2>1, <2>2, <2>4, TypeSetCondition DEF setReady, setFailed, QueuesOK
  <2>6. WorkerOK'
    BY <1>8, TypeForget DEF setReady, setFailed, returnNil, returnError
  <2> QED
    BY <1>0, <1>8, <2>3, <2>5, <2>6 DEF setReady, setFailed, ServerOK
<1> QED
  BY <1>1, <1>2, <1>3, <1>4, <1>5, <1>6, <1>7, <1>8 DEF Reconcile

\* A restart.
LEMMA TypeRestart == TypeOK /\ Restart => TypeOK'
<1> SUFFICES ASSUME TypeOK, Restart PROVE TypeOK'
  OBVIOUS
<1>1. IsStore(api)
  BY DEF TypeOK
<1>2. IsSeq(<<>>) /\ DOMAIN <<>> = {}
  BY EmptySeq, SeqOfRange DEF IsSeq
<1>3. StoresOK' /\ ServerOK'
  BY BoundsAssumption DEF Restart, TypeOK, StoresOK, ServerOK
<1>4. QueuesOK'
  BY <1>1, <1>2, InitialNotifsFacts DEF Restart, QueuesOK
<1>5. WorkerOK'
  BY TypeForget DEF Restart
<1> QED
  BY <1>3, <1>4, <1>5, ZenonT(30) DEF TypeOK, StoresOK, QueuesOK, WorkerOK, ServerOK

\* Every step keeps the state well typed.
LEMMA TypeNext == TypeOK /\ [Next]_vars => TypeOK'
<1> SUFFICES ASSUME TypeOK, [Next]_vars PROVE TypeOK'
  OBVIOUS
<1>1. CASE \E n \in Streaming : StreamChange(n)
  BY <1>1, BoundsAssumption DEF TypeOK, StreamChange, apiVars, queueVars, workVars
<1>2. CASE UNCHANGED vars
  BY <1>2 DEF TypeOK, vars
<1> QED
  BY <1>1, <1>2, TypeUser, TypeDeliver, TypeHandle, TypeQueue, TypeReconcile, TypeRestart
  DEF Next, Informer

\* Type correctness: in every reachable state the stores hold objects of their
\* kind, the queues changes of their kind, the workqueue only EnvoyProxy
\* identities, and Reconcile's locals only what its Lists can return.
THEOREM TypeCorrect == Spec => []TypeOK
BY TypeInit, TypeNext, PTL DEF Spec

=============================================================================
