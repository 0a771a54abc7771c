---------------------------- MODULE SnapshotProofs ----------------------------
(***************************************************************************)
(* What the snapshots hold: only what targets their proxy, at all times;   *)
(* and what their versions tell: a node that is set other resources under  *)
(* the same version is set an ambiguous one, or two of its Clusters share  *)
(* a Service.                                                              *)
(***************************************************************************)
EXTENDS EnvoyProxyControllerProofs

\* The provers a leaf is tried with when it names none, and their time in seconds.
USE SMTT(30), ZenonT(30)

-----------------------------------------------------------------------------
(***************************************************************************)
(* Lists.                                                                  *)
(***************************************************************************)
\* The empty list.
LEMMA EmptyFacts == IsSeq(<<>>) /\ Range(<<>>) = {} /\ DOMAIN <<>> = {}
<1>1. IsSeq(<<>>) /\ DOMAIN <<>> = {}
  BY EmptySeq, SeqOfRange DEF IsSeq
<1> QED
  BY <1>1, ZenonT(30) DEF Range

\* A list of one element.
LEMMA SingleFacts ==
  ASSUME NEW x
  PROVE  IsSeq(<<x>>) /\ Range(<<x>>) = {x}
<1>1. <<x>> \in Seq({x}) /\ DOMAIN <<x>> = {1} /\ <<x>>[1] = x
  OBVIOUS
<1> QED
  BY <1>1, SeqOfRange DEF IsSeq, Range

\* A function on the indexes of a list is a list.
LEMMA MapIsSeq ==
  ASSUME NEW s, IsSeq(s), NEW g, g = [i \in DOMAIN s |-> g[i]]
  PROVE  IsSeq(g)
<1>1. Len(s) \in Nat /\ DOMAIN s = 1..Len(s)
  BY DEF IsSeq
<1>2. g \in [1..Len(s) -> Range(g)]
  BY <1>1 DEF Range
<1> QED
  BY <1>1, <1>2, SeqDef DEF IsSeq

\* Two lists, one after the other.
LEMMA JoinFacts ==
  ASSUME NEW s, NEW t, IsSeq(s), IsSeq(t)
  PROVE  IsSeq(s \o t) /\ Range(s \o t) \subseteq Range(s) \cup Range(t)
<1> DEFINE S == Range(s) \cup Range(t)
<1>1. s \in Seq(S) /\ t \in Seq(S)
  BY SeqMonotonic DEF IsSeq
<1> HIDE DEF S
<1>2. s \o t \in Seq(S)
  BY <1>1
<1> QED
  BY <1>2, SeqOfRange, RangeOfSeq, ZenonT(30) DEF IsSeq, S

\* The last and the first of some positions of a list are among them.
LEMMA ExtremeIn ==
  ASSUME NEW n \in Nat, NEW T, T \subseteq 1..n, T # {}
  PROVE  Max(T) \in T /\ Min(T) \in T
<1>1. \E x \in T : \A y \in T : x <= y
  <2>1. T \subseteq Nat
    OBVIOUS
  <2> QED
    BY <2>1, LeastNumber, ZenonT(30)
<1> DEFINE U == {n - x : x \in T}
<1>2. U \subseteq Nat /\ U # {}
  <2>1. \A x \in T : n - x \in Nat
    OBVIOUS
  <2> QED
    BY <2>1, ZenonT(30)
<1>3. PICK u \in U : \A v \in U : u <= v
  BY <1>2, LeastNumber, ZenonT(30)
<1>4. \E x \in T : \A y \in T : y <= x
  <2>1. PICK x \in T : u = n - x
    BY <1>3
  <2>2. ASSUME NEW y \in T PROVE y <= x
    <3>1. n - x <= n - y
      BY <1>3, <2>1, ZenonT(30)
    <3> QED
      BY <3>1
  <2> QED
    BY <2>2
<1>5. Min(T) \in T
  BY <1>1, ZenonT(30) DEF Min
<1>6. Max(T) \in T
  <2>1. \E x \in T : \A y \in T : x >= y
    BY <1>4
  <2> QED
    BY <2>1, ZenonT(30) DEF Max
<1> QED
  BY <1>5, <1>6

\* What a loop that appends one list per turn has after each turn.
UpTo(f, ls) == f = [i \in 0..Len(ls) |-> IF i = 0 THEN <<>> ELSE f[i - 1] \o ls[i]]

\* Concat is such a loop.
LEMMA ConcatUnfolds ==
  ASSUME NEW ls, IsSeq(ls)
  PROVE  \E f : UpTo(f, ls) /\ Concat(ls) = f[Len(ls)]
<1> DEFINE n == Len(ls)
           good(f, m) == f = [i \in 0..m |-> IF i = 0 THEN <<>> ELSE f[i - 1] \o ls[i]]
<1>1. n \in Nat
  BY DEF IsSeq
<1> HIDE DEF n
<1>2. 0..n \subseteq Nat /\ n \in 0..n
  BY <1>1
<1>3. \E f : good(f, n)
  <2> DEFINE T == {m \in 0..n : ~ \E f : good(f, m)}
  <2> SUFFICES ASSUME T # {} PROVE FALSE
    BY <1>2, ZenonT(30)
  <2>1. T \subseteq 0..n
    BY ZenonT(30)
  <2>2. PICK m \in T : \A k \in T : m <= k
    BY <1>2, <2>1, LeastNumber, ZenonT(30)
  <2>3. m # 0
    <3>1. good([i \in 0..0 |-> <<>>], 0)
      OBVIOUS
    <3> QED
      BY <2>2, <3>1, ZenonT(30)
  <2> HIDE DEF T
  <2>4. m \in 1..n /\ m - 1 \in 0..n /\ m - 1 \notin T
    BY <1>1, <2>1, <2>2, <2>3
  <2>5. PICK g : good(g, m - 1)
    BY <2>4, ZenonT(30) DEF T
  <2> DEFINE h == [i \in 0..m |-> IF i = m THEN g[m - 1] \o ls[m] ELSE g[i]]
  <2>6. good(h, m)
    <3>1. \A i \in 0..(m - 1) : g[i] = IF i = 0 THEN <<>> ELSE g[i - 1] \o ls[i]
      BY <2>5, ZenonT(30)
    <3>2. ASSUME NEW i \in 0..m PROVE h[i] = IF i = 0 THEN <<>> ELSE h[i - 1] \o ls[i]
      <4>1. CASE i = m
        <5>1. m # 0 /\ m - 1 \in 0..m /\ m - 1 # m /\ m \in 0..m
          BY <1>1, <2>4
        <5> QED
          BY <4>1, <5>1, ZenonT(30)
      <4>2. CASE i # m
        <5>1. i \in 0..(m - 1) /\ i - 1 # m /\ (i # 0 => i - 1 \in 0..m)
          BY <1>1, <2>4, <4>2
        <5> QED
          BY <3>1, <4>2, <5>1, ZenonT(30)
      <4> QED
        BY <4>1, <4>2
    <3> QED
      BY <3>2, ZenonT(30)
  <2> QED
    BY <2>2, <2>6, ZenonT(30) DEF T
<1> QED
  BY <1>3, ZenonT(30) DEF Concat, UpTo, n

\* After each turn it has a list of elements of the lists it has seen.
LEMMA UpToFacts ==
  ASSUME NEW ls, IsSeq(ls), \A i \in DOMAIN ls : IsSeq(ls[i]), NEW f, UpTo(f, ls)
  PROVE  /\ Len(ls) \in Nat /\ DOMAIN ls = 1..Len(ls)
         /\ f[0] = <<>> /\ \A i \in 1..Len(ls) : f[i] = f[i - 1] \o ls[i]
         /\ \A i \in 0..Len(ls) : IsSeq(f[i]) /\ \A x \in Range(f[i]) : \E j \in 1..i : x \in Range(ls[j])
<1> DEFINE n == Len(ls)
           good(m) == IsSeq(f[m]) /\ \A x \in Range(f[m]) : \E j \in 1..m : x \in Range(ls[j])
<1>1. n \in Nat /\ DOMAIN ls = 1..n
  BY DEF IsSeq
<1>2. f = [i \in 0..n |-> IF i = 0 THEN <<>> ELSE f[i - 1] \o ls[i]]
  BY ZenonT(30) DEF UpTo
<1> HIDE DEF n
<1>3. f[0] = <<>> /\ \A i \in 1..n : f[i] = f[i - 1] \o ls[i]
  <2>1. 0 \in 0..n /\ \A i \in 1..n : i \in 0..n /\ i # 0
    BY <1>1
  <2> QED
    BY <1>2, <2>1, ZenonT(30)
<1>4. ASSUME NEW i \in 0..n PROVE good(i)
  <2> DEFINE T == {m \in 0..n : ~ good(m)}
  <2> SUFFICES ASSUME T # {} PROVE FALSE
    BY ZenonT(30)
  <2>1. T \subseteq 0..n
    BY ZenonT(30)
  <2>2. T \subseteq Nat
    BY <2>1, <1>1
  <2>3. PICK m \in T : \A k \in T : m <= k
    BY <2>2, LeastNumber, ZenonT(30)
  <2>4. ~ good(m)
    BY <2>3, ZenonT(30)
  <2>5. m # 0
    <3>1. good(0)
      BY <1>3, EmptyFacts, ZenonT(30)
    <3> QED
      BY <2>4, <3>1, ZenonT(30)
  <2> HIDE DEF T
  <2>6. m \in 1..n /\ m - 1 \in 0..n /\ m - 1 \notin T
    BY <1>1, <2>1, <2>3, <2>5
  <2>7. good(m - 1)
    BY <2>6, ZenonT(30) DEF T
  <2>8. f[m] = f[m - 1] \o ls[m] /\ IsSeq(ls[m])
    BY <1>1, <1>3, <2>6, ZenonT(30)
  <2>9. IsSeq(f[m]) /\ Range(f[m]) \subseteq Range(f[m - 1]) \cup Range(ls[m])
    BY <2>7, <2>8, JoinFacts, ZenonT(30)
  <2>10. 1..(m - 1) \subseteq 1..m /\ m \in 1..m
    BY <1>1, <2>6
  <2> QED
    BY <2>4, <2>7, <2>9, <2>10, ZenonT(30)
<1> QED
  BY <1>1, <1>3, <1>4, ZenonT(30) DEF n

\* What is appended in a loop, one list per turn, is made of the lists' elements.
LEMMA ConcatFacts ==
  ASSUME NEW ls, IsSeq(ls), \A i \in DOMAIN ls : IsSeq(ls[i])
  PROVE  /\ IsSeq(Concat(ls))
         /\ \A x \in Range(Concat(ls)) : \E i \in DOMAIN ls : x \in Range(ls[i])
<1>1. PICK f : UpTo(f, ls) /\ Concat(ls) = f[Len(ls)]
  BY ConcatUnfolds, ZenonT(30)
<1>2. /\ Len(ls) \in Nat /\ DOMAIN ls = 1..Len(ls)
      /\ \A i \in 0..Len(ls) : IsSeq(f[i]) /\ \A x \in Range(f[i]) : \E j \in 1..i : x \in Range(ls[j])
  BY <1>1, UpToFacts, ZenonT(30)
<1>3. Len(ls) \in 0..Len(ls)
  BY <1>2
<1> QED
  BY <1>1, <1>2, <1>3, ZenonT(30)

\* The slices of a Service are finitely many.
LEMMA FiniteSlices ==
  ASSUME NEW store, NEW c
  PROVE  IsFiniteSet(serviceSlices(store, c))
<1> DEFINE T == {s \in Slices :
                   /\ store[s] # Nil
                   /\ store[s].m.service # Nil
                   /\ serviceMatches(c.obj.m.ref, c.id.ns, store[s].m.service, s.ns)}
           F == [s \in T |-> [id |-> s, obj |-> store[s]]]
<1>1. IsFiniteSet(T)
  BY IdentitiesAssumption, FS_Subset DEF Ids
<1>2. F \in Surjection(T, serviceSlices(store, c))
  BY ZenonT(30) DEF Surjection, serviceSlices
<1> QED
  BY <1>1, <1>2, FS_Surjection

-----------------------------------------------------------------------------
(***************************************************************************)
(* Isolation: what is served to a node is its own proxy's.  A running      *)
(* reconcile holds in its lists only CRs that target its proxy, and in     *)
(* synth only assignments synthesised for such Clusters.                   *)
(***************************************************************************)
\* resolvePort returns a port of the slice, the wanted one if one is wanted.
LEMMA PortFacts ==
  ASSUME NEW ports, IsSeq(ports), NEW want, resolvePort(ports, want) # 0
  PROVE  /\ resolvePort(ports, want) \in Range(ports)
         /\ want \in {Nil, resolvePort(ports, want)}
<1> DEFINE U == {i \in DOMAIN ports : ports[i] # Nil /\ want \in {Nil, ports[i]}}
<1>1. Len(ports) \in Nat /\ DOMAIN ports = 1..Len(ports)
  BY DEF IsSeq
<1>2. U # {} /\ resolvePort(ports, want) = ports[Min(U)]
  BY ZenonT(30) DEF resolvePort
<1>3. Min(U) \in U
  BY <1>1, <1>2, ExtremeIn, ZenonT(30)
<1> QED
  BY <1>2, <1>3, ZenonT(30) DEF Range

\* eds.go:45: the endpoints of a slice that are served are ready ones, on a port
\* of the slice that is wanted.
HostOf(e, sl, want) ==
  /\ e.port \in Range(sl.ports) /\ want \in {Nil, e.port}
  /\ \E i \in DOMAIN sl.endpoints :
       sl.endpoints[i].ready # FALSE /\ e.address \in Range(sl.endpoints[i].addresses) \ {""}

\* The loops over the endpoints of a slice and their addresses.
LEMMA HostsFacts ==
  ASSUME NEW sl, IsSeq(sl.ports), IsSeq(sl.endpoints),
         \A i \in DOMAIN sl.endpoints : IsSeq(sl.endpoints[i].addresses), NEW want
  PROVE  /\ IsSeq(lbEndpoints(sl, want))
         /\ \A e \in Range(lbEndpoints(sl, want)) : HostOf(e, sl, want)
<1> DEFINE port == resolvePort(sl.ports, want)
           host(addr) == IF addr = "" THEN <<>> ELSE <<[address |-> addr, port |-> port]>>
           turn(point) == [j \in DOMAIN point.addresses |-> host(point.addresses[j])]
           hosts(point) == IF point.ready = FALSE THEN <<>> ELSE Concat(turn(point))
           turns == [i \in DOMAIN sl.endpoints |-> hosts(sl.endpoints[i])]
<1>1. CASE port = 0
  BY <1>1, EmptyFacts, ZenonT(30) DEF lbEndpoints
<1>2. CASE port # 0
  <2>1. port \in Range(sl.ports) /\ want \in {Nil, port}
    BY <1>2, PortFacts, ZenonT(30)
  <2>2. lbEndpoints(sl, want) = Concat(turns)
    BY <1>2, ZenonT(30) DEF lbEndpoints
  <2> HIDE DEF port
  <2>3. ASSUME NEW addr
        PROVE  /\ IsSeq(host(addr))
               /\ \A e \in Range(host(addr)) : addr # "" /\ e = [address |-> addr, port |-> port]
    BY EmptyFacts, SingleFacts, ZenonT(30)
  <2> HIDE DEF host
  <2>4. ASSUME NEW i \in DOMAIN sl.endpoints
        PROVE  /\ IsSeq(hosts(sl.endpoints[i]))
               /\ \A e \in Range(hosts(sl.endpoints[i])) : HostOf(e, sl, want)
    <3> DEFINE point == sl.endpoints[i]
    <3>1. CASE point.ready = FALSE
      BY <3>1, EmptyFacts, ZenonT(30)
    <3>2. CASE point.ready # FALSE
      <4>1. IsSeq(turn(point))
        BY MapIsSeq, ZenonT(30)
      <4>2. \A j \in DOMAIN turn(point) : IsSeq(turn(point)[j])
        BY <2>3, ZenonT(30)
      <4>3. /\ IsSeq(Concat(turn(point)))
            /\ \A e \in Range(Concat(turn(point))) : \E j \in DOMAIN turn(point) : e \in Range(turn(point)[j])
        BY <4>1, <4>2, ConcatFacts, ZenonT(30)
      <4>4. ASSUME NEW e \in Range(Concat(turn(point))) PROVE HostOf(e, sl, want)
        <5>1. PICK j \in DOMAIN point.addresses : e \in Range(host(point.addresses[j]))
          BY <4>3, ZenonT(30)
        <5>2. point.addresses[j] # "" /\ e = [address |-> point.addresses[j], port |-> port]
          BY <2>3, <5>1, ZenonT(30)
        <5>3. e.address = point.addresses[j] /\ e.port = port
          BY <5>2, ZenonT(30)
        <5> QED
          BY <2>1, <3>2, <5>2, <5>3, ZenonT(30) DEF HostOf, Range
      <4> QED
        BY <3>2, <4>3, <4>4, ZenonT(30)
    <3> QED
      BY <3>1, <3>2, ZenonT(30)
  <2> HIDE DEF hosts
  <2>5. IsSeq(turns) /\ \A i \in DOMAIN turns : IsSeq(turns[i])
    BY <2>4, MapIsSeq, ZenonT(30)
  <2>6. /\ IsSeq(Concat(turns))
        /\ \A e \in Range(Concat(turns)) : \E i \in DOMAIN turns : e \in Range(turns[i])
    BY <2>5, ConcatFacts, ZenonT(30)
  <2> QED
    BY <2>2, <2>4, <2>6, ZenonT(30)
<1> QED
  BY <1>1, <1>2

\* A CR whose changes are mapped to a proxy targets it.
LEMMA TargetingFacts ==
  ASSUME NEW k, NEW x, IsItem(x, k), NEW p, p \in mapXDSResourceToProxy(x.id, x.obj)
  PROVE  [id |-> x.id, m |-> x.obj.m] \in targeting(p, k)
<1>1. x.id \in Resources /\ x.id.kind = k /\ x.obj.m \in Manifests[x.id]
  BY DEF IsItem, Versions
<1>2. p \in mapXDSResourceToProxy(x.id, [m |-> x.obj.m])
  BY DEF mapXDSResourceToProxy
<1> DEFINE own(r) == {[id |-> r, m |-> m] : m \in {m \in Manifests[r] : p \in mapXDSResourceToProxy(r, [m |-> m])}}
<1>3. [id |-> x.id, m |-> x.obj.m] \in own(x.id)
  BY <1>1, <1>2, ZenonT(30)
<1>4. targeting(p, k) = UNION {own(r) : r \in {r \in Resources : r.kind = k}}
  BY DEF targeting
<1> HIDE DEF own
<1> QED
  BY <1>1, <1>3, <1>4, ZenonT(30)

\* One turn of collectEndpoints' loop: an assignment for a Cluster of the proxy.
LEMMA SynthesisOwn ==
  ASSUME NEW store, IsStore(store), NEW p, NEW c, IsItem(c, "Cluster"),
         p \in mapXDSResourceToProxy(c.id, c.obj), NEW clas,
         NEW x \in contributions(store, c, clas)
  PROVE  IsSeq(x.specs) /\ \A y \in Range(x.specs) : synthesisedFor(p, y)
<1>1. CASE ~ needsSynthesis(c, clas)
  <2>1. x.specs = <<>>
    BY <1>1 DEF contributions
  <2> QED
    BY <2>1, EmptyFacts, ZenonT(30)
<1>2. CASE needsSynthesis(c, clas)
  <2> DEFINE ms(ss) == [i \in DOMAIN ss |-> ss[i].obj.m]
             cla(ss) == SynthesizeCLA(ClusterName(c.obj.m.spec), ms(ss), c.obj.m.ref.port)
  <2>1. PICK ss \in Listings(serviceSlices(store, c)) :
               x = [specs |-> <<cla(ss)>>, versions |-> versionsOf(ss)]
    BY <1>2, ZenonT(30) DEF contributions
  <2>2. IsSeq(ss) /\ \A i \in DOMAIN ss : ss[i] \in serviceSlices(store, c)
    BY <2>1, FiniteSlices, ListingFacts, ZenonT(30)
  <2> DEFINE y == cla(ss)
             ls == [i \in DOMAIN ss |-> lbEndpoints(ss[i].obj.m, c.obj.m.ref.port)]
             c0 == [id |-> c.id, m |-> c.obj.m]
  <2>3. c0 \in targeting(p, "Cluster") /\ c0.m.ref # Nil /\ c0.id = c.id /\ c0.m = c.obj.m
    <3>1. c0.id = c.id /\ c0.m = c.obj.m
      OBVIOUS
    <3> QED
      BY <1>2, <3>1, TargetingFacts, ZenonT(30) DEF needsSynthesis
  <2>4. y.cluster_name = ClusterName(c.obj.m.spec) /\ y.endpoints = Concat(ls)
    <3>1. DOMAIN ms(ss) = DOMAIN ss /\ \A i \in DOMAIN ss : ms(ss)[i] = ss[i].obj.m
      OBVIOUS
    <3> HIDE DEF ms
    <3>2. ls = [i \in DOMAIN ms(ss) |-> lbEndpoints(ms(ss)[i], c.obj.m.ref.port)]
      BY <3>1
    <3> QED
      BY <3>2 DEF SynthesizeCLA
  <2>5. x.specs = <<y>>
    BY <2>1
  <2> HIDE DEF y, c0
  <2>6. ASSUME NEW i \in DOMAIN ss
        PROVE  /\ IsSeq(ls[i])
               /\ \A e \in Range(ls[i]) : backs(e, c0)
    <3>1. PICK s \in Slices : /\ ss[i] = [id |-> s, obj |-> store[s]] /\ store[s] # Nil
                              /\ serviceMatches(c.obj.m.ref, c.id.ns, store[s].m.service, s.ns)
      BY <2>2, <2>6, ZenonT(30) DEF serviceSlices
    <3> DEFINE m == store[s].m
    <3>2. ss[i].obj = store[s]
      BY <3>1
    <3>3. m \in Manifests[s]
      <4>1. store[s] \in Versions(s)
        BY <3>1, KindFacts, ZenonT(30) DEF IsStore, IsObject, Ids
      <4> QED
        BY <4>1 DEF Versions
    <3>4. ls[i] = lbEndpoints(m, c.obj.m.ref.port)
      BY <3>2, ZenonT(30)
    <3> HIDE DEF m, ls
    <3>5. /\ IsSeq(ls[i])
          /\ \A e \in Range(ls[i]) : HostOf(e, m, c.obj.m.ref.port)
      BY <3>3, <3>4, SlicesAssumption, HostsFacts, ZenonT(30)
    <3> QED
      BY <2>3, <3>1, <3>3, <3>5, ZenonT(30) DEF backs, HostOf, m
  <2>7. IsSeq(ls) /\ DOMAIN ls = DOMAIN ss
    BY <2>2, MapIsSeq, ZenonT(30)
  <2> HIDE DEF ls
  <2>8. \A e \in Range(Concat(ls)) : \E i \in DOMAIN ss : e \in Range(ls[i])
    BY <2>6, <2>7, ConcatFacts, ZenonT(30)
  <2>9. synthesisedFor(p, y)
    BY <2>3, <2>4, <2>6, <2>8, ZenonT(30) DEF synthesisedFor
  <2> QED
    BY <2>5, <2>9, SingleFacts, ZenonT(30)
<1> QED
  BY <1>1, <1>2

\* NewSnapshot's index holds elements of the list it is filled from.
LEMMA IndexFacts ==
  ASSUME NEW k, NEW list, IsSeq(list), NEW x \in Range(indexByName(k, list))
  PROVE  x \in Range(list)
<1> DEFINE at(n) == {i \in DOMAIN list : resourceName(k, list[i]) = n}
<1>1. PICK n \in {resourceName(k, list[i]) : i \in DOMAIN list} : x = list[Max(at(n))]
  BY ZenonT(30) DEF indexByName, Range
<1>2. at(n) # {} /\ at(n) \subseteq DOMAIN list
  BY <1>1, ZenonT(30)
<1>3. Len(list) \in Nat /\ DOMAIN list = 1..Len(list)
  BY DEF IsSeq
<1>4. Max(at(n)) \in at(n)
  BY <1>2, <1>3, ExtremeIn, ZenonT(30)
<1> QED
  BY <1>1, <1>2, <1>4, ZenonT(30) DEF Range

\* unmarshalAll, when it does not fail, keeps the specs that are not empty.
LEMMA UnmarshalFacts ==
  ASSUME NEW raws, IsSeq(raws), unmarshals(raws)
  PROVE  /\ IsSeq(unmarshalAll(raws))
         /\ \A x \in Range(unmarshalAll(raws)) : \E i \in DOMAIN raws : x = raws[i] /\ x.form = "ok"
<1> DEFINE kept(raw) == IF raw.form = "empty" THEN <<>> ELSE <<raw>>
           ls == [i \in DOMAIN raws |-> kept(raws[i])]
<1>1. ASSUME NEW raw PROVE IsSeq(kept(raw)) /\ \A x \in Range(kept(raw)) : x = raw /\ raw.form # "empty"
  BY EmptyFacts, SingleFacts, ZenonT(30)
<1>2. unmarshalAll(raws) = Concat(ls)
  BY DEF unmarshalAll
<1> HIDE DEF kept
<1>3. IsSeq(ls) /\ \A i \in DOMAIN ls : IsSeq(ls[i])
  BY <1>1, MapIsSeq, ZenonT(30)
<1>4. IsSeq(Concat(ls)) /\ \A x \in Range(Concat(ls)) : \E i \in DOMAIN ls : x \in Range(ls[i])
  BY <1>3, ConcatFacts, ZenonT(30)
<1>5. ASSUME NEW x \in Range(Concat(ls)) PROVE \E i \in DOMAIN raws : x = raws[i] /\ x.form = "ok"
  <2>1. PICK i \in DOMAIN raws : x \in Range(kept(raws[i]))
    BY <1>4, ZenonT(30)
  <2>2. x = raws[i] /\ raws[i].form # "empty"
    BY <1>1, <2>1, ZenonT(30)
  <2> QED
    BY <2>2 DEF unmarshals
<1> QED
  BY <1>2, <1>4, <1>5, ZenonT(30)

\* What may be served to p.
Own(p, k, x) ==
  \/ \E c \in targeting(p, k) : x = c.m.spec /\ x.form = "ok"
  \/ k = "ClusterLoadAssignment" /\ synthesisedFor(p, x)

\* A running reconcile has read only what concerns its proxy.
ReadsOwn ==
  /\ pc \in {"idle", "get"} => lists = NoLists /\ synth = <<>>
  /\ \A k \in XdsKinds : \A i \in DOMAIN lists[k] :
       req \in mapXDSResourceToProxy(lists[k][i].id, lists[k][i].obj)
  /\ \A i \in DOMAIN synth :
       IsSeq(synth[i].specs) /\ \A y \in Range(synth[i].specs) : synthesisedFor(req, y)

\* BuildSnapshot makes a snapshot of what was read, and of nothing else.
LEMMA BuiltOwn ==
  ASSUME TypeOK, ReadsOwn, snapshotBuilds(specsByKind(lists)), NEW k \in XdsKinds,
         NEW x \in Range(snapshotOf(lists, synth).resources[k])
  PROVE  Own(req, k, x)
<1> DEFINE raws == specsOf(lists[k])
           sy == [i \in DOMAIN synth |-> synth[i].specs]
           manual == k = "ClusterLoadAssignment"
           list == IF manual THEN unmarshalAll(raws) \o Concat(sy) ELSE unmarshalAll(raws)
<1>1. IsSeq(lists[k]) /\ IsSeq(synth) /\ \A i \in DOMAIN lists[k] : IsItem(lists[k][i], k)
  BY ZenonT(30) DEF TypeOK
<1>2. IsSeq(raws) /\ DOMAIN raws = DOMAIN lists[k] /\ \A i \in DOMAIN raws : raws[i] = lists[k][i].obj.m.spec
  BY <1>1, MapIsSeq, ZenonT(30) DEF specsOf
<1>3. DOMAIN specsByKind(lists) = XdsKinds /\ specsByKind(lists)[k] = raws
  BY DEF specsByKind
<1>4. unmarshals(raws)
  BY <1>3, ZenonT(30) DEF snapshotBuilds
<1>5. snapshotOf(lists, synth).resources[k] = indexByName(k, list)
  <2>1. snapshotOf(lists, synth).resources[k] =
          indexByName(k, IF manual THEN unmarshalAll(specsByKind(lists)[k]) \o Concat(sy)
                                   ELSE unmarshalAll(specsByKind(lists)[k]))
    BY <1>3 DEF snapshotOf, BuildSnapshot
  <2> QED
    BY <1>3, <2>1, ZenonT(30)
<1> HIDE DEF raws
<1>6. IsSeq(sy) /\ \A i \in DOMAIN sy : IsSeq(sy[i])
  BY <1>1, MapIsSeq, ZenonT(30) DEF ReadsOwn
<1>7. IsSeq(Concat(sy)) /\ \A y \in Range(Concat(sy)) : \E i \in DOMAIN synth : y \in Range(synth[i].specs)
  <2>1. DOMAIN sy = DOMAIN synth /\ \A i \in DOMAIN synth : sy[i] = synth[i].specs
    OBVIOUS
  <2> HIDE DEF sy
  <2> QED
    BY <1>6, <2>1, ConcatFacts, ZenonT(30)
<1> HIDE DEF sy
<1>8. /\ IsSeq(unmarshalAll(raws))
      /\ \A y \in Range(unmarshalAll(raws)) : \E i \in DOMAIN raws : y = raws[i] /\ y.form = "ok"
  BY <1>2, <1>4, UnmarshalFacts, ZenonT(30)
<1>9. x \in Range(unmarshalAll(raws)) \/ (manual /\ x \in Range(Concat(sy)))
  <2>1. IsSeq(list) /\ Range(list) \subseteq Range(unmarshalAll(raws)) \cup (IF manual THEN Range(Concat(sy)) ELSE {})
    BY <1>7, <1>8, JoinFacts, ZenonT(30)
  <2> HIDE DEF list
  <2>2. x \in Range(list)
    <3>1. x \in Range(indexByName(k, list))
      BY <1>5, ZenonT(30)
    <3>2. IsSeq(list)
      BY <2>1
    <3> QED
      BY <3>1, <3>2, IndexFacts, ZenonT(30)
  <2> QED
    BY <2>1, <2>2, ZenonT(30)
<1>10. CASE x \in Range(unmarshalAll(raws))
  <2>1. PICK i \in DOMAIN lists[k] : x = lists[k][i].obj.m.spec /\ x.form = "ok"
    BY <1>2, <1>8, <1>10, ZenonT(30)
  <2> DEFINE c == [id |-> lists[k][i].id, m |-> lists[k][i].obj.m]
  <2>2. c \in targeting(req, k)
    BY <1>1, TargetingFacts, ZenonT(30) DEF ReadsOwn
  <2>3. c.m = lists[k][i].obj.m
    OBVIOUS
  <2> HIDE DEF c
  <2> QED
    BY <2>1, <2>2, <2>3, ZenonT(30) DEF Own
<1>11. CASE manual /\ x \in Range(Concat(sy))
  BY <1>7, <1>11, ZenonT(30) DEF Own, ReadsOwn
<1> QED
  BY <1>9, <1>10, <1>11

\* The invariant of the isolation argument.
OwnInv == TypeOK /\ ReadsOwn /\ ServesOnlyTargeting

\* A step that is not of Reconcile's reads or of SetSnapshot disturbs nothing.
LEMMA OwnFrame ==
  ASSUME ReadsOwn, ServesOnlyTargeting, UNCHANGED <<req, lists, synth, snapshots>>,
         pc' \in {"idle", "get"} => pc' = pc
  PROVE  ReadsOwn' /\ ServesOnlyTargeting'
<1>1. ReadsOwn'
  BY ZenonT(30) DEF ReadsOwn
<1>2. ServesOnlyTargeting'
  BY ZenonT(30) DEF ServesOnlyTargeting
<1> QED
  BY <1>1, <1>2

\* A reconcile that ends has nothing left of what it read.
LEMMA OwnForget ==
  ASSUME lists' = NoLists, synth' = <<>>
  PROVE  ReadsOwn'
<1>1. \A k \in XdsKinds : lists'[k] = <<>>
  BY DEF NoLists
<1>2. DOMAIN <<>> = {}
  BY EmptyFacts
<1> QED
  BY <1>1, <1>2, ZenonT(30) DEF ReadsOwn

\* The five collect functions keep only CRs that target the proxy.
LEMMA OwnCollect ==
  ASSUME OwnInv, NEW from \in Steps \ {"idle"}, NEW to \in Steps \ {"idle", "get"}, NEW kind \in XdsKinds,
         collect(from, kind, to)
  PROVE  ReadsOwn' /\ ServesOnlyTargeting'
<1>1. PICK items \in Listings(collected(cache, req, kind)) : lists' = [lists EXCEPT ![kind] = items]
  BY ZenonT(30) DEF collect
<1>2. \A i \in DOMAIN items : items[i] \in collected(cache, req, kind)
  BY FiniteCollected, ListingFacts, ZenonT(30)
<1>3. req \in Proxies
  BY DEF OwnInv, TypeOK, collect
<1>4. ASSUME NEW x \in collected(cache, req, kind) PROVE req \in mapXDSResourceToProxy(x.id, x.obj)
  <2>1. PICK r \in Resources : /\ x = [id |-> r, obj |-> cache[r]]
                               /\ targetMatches(cache[r].m.targetRef, r.ns, req)
    BY ZenonT(30) DEF collected
  <2>2. x.id = r /\ x.obj = cache[r]
    BY <2>1
  <2> QED
    BY <1>3, <2>1, <2>2, MapAgreesWithTarget, ZenonT(30)
<1>5. \A k \in XdsKinds : lists'[k] = IF k = kind THEN items ELSE lists[k]
  BY <1>1 DEF OwnInv, TypeOK
<1>6. \A k \in XdsKinds : \A i \in DOMAIN lists'[k] :
        req \in mapXDSResourceToProxy(lists'[k][i].id, lists'[k][i].obj)
  BY <1>2, <1>4, <1>5, ZenonT(30) DEF OwnInv, ReadsOwn
<1>7. pc' \notin {"idle", "get"} /\ UNCHANGED <<req, synth, snapshots>>
  BY ZenonT(30) DEF collect
<1>8. ReadsOwn'
  BY <1>6, <1>7, ZenonT(30) DEF OwnInv, ReadsOwn
<1>9. ServesOnlyTargeting'
  BY <1>7, ZenonT(30) DEF OwnInv, ServesOnlyTargeting
<1> QED
  BY <1>8, <1>9

\* The loop over the clusters adds assignments for clusters of the proxy only.
LEMMA OwnSynthesize == OwnInv /\ synthesize => ReadsOwn' /\ ServesOnlyTargeting'
<1> SUFFICES ASSUME OwnInv, synthesize PROVE ReadsOwn' /\ ServesOnlyTargeting'
  OBVIOUS
<1> DEFINE n == Len(synth) + 1
           c == lists["Cluster"][n]
<1>1. PICK x \in contributions(cache, c, lists["ClusterLoadAssignment"]) : synth' = Append(synth, x)
  BY ZenonT(30) DEF synthesize
<1>2. n \in DOMAIN lists["Cluster"]
  <2>1. IsSeq(synth) /\ IsSeq(lists["Cluster"])
    BY DEF OwnInv, TypeOK, XdsKinds
  <2>2. Len(synth) \in Nat /\ Len(lists["Cluster"]) \in Nat /\ DOMAIN lists["Cluster"] = 1..Len(lists["Cluster"])
    BY <2>1, AppendFacts, ZenonT(30)
  <2> QED
    BY <2>2 DEF synthesize
<1>3. IsItem(c, "Cluster") /\ req \in mapXDSResourceToProxy(c.id, c.obj) /\ IsStore(cache)
  BY <1>2, ZenonT(30) DEF OwnInv, TypeOK, ReadsOwn, XdsKinds
<1> HIDE DEF c
<1>4. IsSeq(x.specs) /\ \A y \in Range(x.specs) : synthesisedFor(req, y)
  BY <1>1, <1>3, SynthesisOwn, ZenonT(30)
<1>5. IsSeq(synth)
  BY DEF OwnInv, TypeOK
<1>6. /\ DOMAIN synth' = 1..n /\ DOMAIN synth = 1..Len(synth) /\ Len(synth) \in Nat
      /\ \A i \in 1..Len(synth) : synth'[i] = synth[i]
      /\ synth'[n] = x
  <2>1. /\ DOMAIN Append(synth, x) = 1..n /\ DOMAIN synth = 1..Len(synth) /\ Len(synth) \in Nat
        /\ \A i \in 1..Len(synth) : Append(synth, x)[i] = synth[i]
        /\ Append(synth, x)[n] = x
    BY <1>5, AppendFacts
  <2> QED
    BY <1>1, <2>1
<1>7. \A i \in DOMAIN synth' : i \in DOMAIN synth \/ i = n
  BY <1>6
<1>8. \A i \in DOMAIN synth' :
        IsSeq(synth'[i].specs) /\ \A y \in Range(synth'[i].specs) : synthesisedFor(req, y)
  BY <1>4, <1>6, <1>7, ZenonT(30) DEF OwnInv, ReadsOwn
<1>9. pc' \notin {"idle", "get"} /\ UNCHANGED <<req, lists, snapshots>>
  BY ZenonT(30) DEF synthesize
<1>10. ReadsOwn'
  BY <1>8, <1>9, ZenonT(30) DEF OwnInv, ReadsOwn
<1>11. ServesOnlyTargeting'
  BY <1>9, ZenonT(30) DEF OwnInv, ServesOnlyTargeting
<1> QED
  BY <1>10, <1>11

\* SetSnapshot replaces the snapshot of the proxy's own node by what the reconcile
\* read: no other proxy has its nodeID.
LEMMA OwnSetSnapshot == OwnInv /\ SetSnapshot => ReadsOwn' /\ ServesOnlyTargeting'
<1> SUFFICES ASSUME OwnInv, SetSnapshot PROVE ReadsOwn' /\ ServesOnlyTargeting'
  OBVIOUS
<1>1. UNCHANGED <<req, lists, synth>> /\ pc' \notin {"idle", "get"}
  BY ZenonT(30) DEF SetSnapshot, workVars
<1>2. ReadsOwn'
  BY <1>1, ZenonT(30) DEF OwnInv, ReadsOwn
<1>3. req \in Proxies
  BY DEF OwnInv, TypeOK, SetSnapshot, collectedAll
<1>4. ASSUME NEW p \in Proxies, NEW k \in XdsKinds, snapshots'[nodeID(p)] # Nil,
             NEW x \in Range(snapshots'[nodeID(p)].resources[k])
      PROVE  Own(p, k, x)
  <2>1. nodeID(p) \in NodeIDs /\ nodeID(req) \in NodeIDs
    BY <1>3, ZenonT(30) DEF NodeIDs
  <2>2. snapshots'[nodeID(p)] = IF nodeID(p) = nodeID(req) THEN snapshotOf(lists, synth) ELSE snapshots[nodeID(p)]
    BY <2>1 DEF OwnInv, TypeOK, SetSnapshot
  <2>3. CASE nodeID(p) = nodeID(req)
    <3>1. p = req
      BY <1>3, <2>3, NodeIDInjective, ZenonT(30)
    <3>2. Own(req, k, x)
      BY <1>4, <2>2, <2>3, BuiltOwn, ZenonT(30) DEF OwnInv, SetSnapshot
    <3> QED
      BY <3>1, <3>2
  <2>4. CASE nodeID(p) # nodeID(req)
    BY <1>4, <2>2, <2>4, ZenonT(30) DEF OwnInv, ServesOnlyTargeting, Own
  <2> QED
    BY <2>3, <2>4
<1>5. ServesOnlyTargeting'
  BY <1>4, ZenonT(30) DEF ServesOnlyTargeting, Own
<1> QED
  BY <1>2, <1>5

\* Every step keeps the isolation invariant.
LEMMA OwnNext == OwnInv /\ [Next]_vars => OwnInv'
<1> SUFFICES ASSUME OwnInv, [Next]_vars PROVE ReadsOwn' /\ ServesOnlyTargeting'
  BY TypeNext, ZenonT(30) DEF OwnInv
<1>0. ReadsOwn /\ ServesOnlyTargeting
  BY DEF OwnInv
<1>1. CASE User
  <2>1. \E id, o : userWrite(id, o)
    BY <1>1, ZenonT(30) DEF User, Apply, Delete, CreateProxy, TouchProxy
  <2>2. UNCHANGED <<req, lists, synth, snapshots, pc>>
    BY <2>1, ZenonT(30) DEF userWrite
  <2> QED
    BY <1>0, <2>2, OwnFrame, ZenonT(30)
<1>2. CASE \/ \E n \in Streaming : StreamChange(n)
           \/ Informer \/ DropSliceEvent
           \/ \E p \in Proxies : RetryAfterBackoff(p)
           \/ UNCHANGED vars
  <2>1. UNCHANGED <<req, lists, synth, snapshots, pc>>
    BY <1>2, ZenonT(30) DEF StreamChange, Informer, Deliver, Handle, DropSliceEvent,
       RetryAfterBackoff, vars, workVars
  <2> QED
    BY <1>0, <2>1, OwnFrame, ZenonT(30)
<1>3. CASE \E p \in Proxies : Dequeue(p)
  <2>1. pc = "idle" /\ UNCHANGED <<lists, synth, snapshots>>
    BY <1>3, ZenonT(30) DEF Dequeue, workVars
  <2>2. lists = NoLists /\ synth = <<>>
    BY <1>0, <2>1, ZenonT(30) DEF ReadsOwn
  <2> QED
    BY <1>0, <2>1, <2>2, OwnForget, ZenonT(30) DEF ServesOnlyTargeting
<1>4. CASE Get /\ cache[req] # Nil
  <2>1. UNCHANGED <<req, lists, synth, snapshots>> /\ pc' = "listeners"
    BY <1>4, ZenonT(30) DEF Get
  <2> QED
    BY <1>0, <2>1, OwnFrame, ZenonT(30)
<1>5. CASE (Get /\ cache[req] = Nil) \/ setReady \/ setFailed \/ ReadFails
  <2>1. lists' = NoLists /\ synth' = <<>> /\ snapshots' = snapshots
    BY <1>5, ZenonT(30) DEF Get, setReady, setFailed, ReadFails, returnNil, returnError, forget
  <2> QED
    BY <1>0, <2>1, OwnForget, ZenonT(30) DEF ServesOnlyTargeting
<1>6. CASE \/ collectListeners \/ collectClusters \/ collectRoutes \/ collectScopedRoutes
           \/ collectManual
  BY <1>6, OwnCollect DEF collectListeners, collectClusters, collectRoutes,
     collectScopedRoutes, collectManual, Steps, XdsKinds
<1>7. CASE BuildFails \/ IsConnected \/ setConnected
  <2>1. UNCHANGED <<req, lists, synth, snapshots>> /\ pc' \notin {"idle", "get"}
    BY <1>7, ZenonT(30) DEF BuildFails, IsConnected, setConnected, workVars
  <2> QED
    BY <1>0, <2>1, OwnFrame, ZenonT(30)
<1>8. CASE Restart
  <2>1. lists' = NoLists /\ synth' = <<>> /\ snapshots' = [n \in NodeIDs |-> Nil]
    BY <1>8, ZenonT(30) DEF Restart, forget
  <2>2. \A p \in Proxies : snapshots'[nodeID(p)] = Nil
    BY <2>1, ZenonT(30) DEF NodeIDs
  <2>3. ServesOnlyTargeting'
    BY <2>2, ZenonT(30) DEF ServesOnlyTargeting
  <2> QED
    BY <2>1, <2>3, OwnForget, ZenonT(30)
<1> QED
  BY <1>1, <1>2, <1>3, <1>4, <1>5, <1>6, <1>7, <1>8, OwnSynthesize, OwnSetSnapshot, ZenonT(30)
  DEF Next, Reconcile

\* Initially nothing is read and nothing is served.
LEMMA OwnInit == Init => OwnInv
<1> SUFFICES ASSUME Init PROVE OwnInv
  OBVIOUS
<1>1. lists = NoLists /\ synth = <<>> /\ snapshots = [n \in NodeIDs |-> Nil]
  BY ZenonT(30) DEF Init
<1>2. (\A k \in XdsKinds : DOMAIN lists[k] = {}) /\ DOMAIN synth = {}
  <2>1. \A k \in XdsKinds : lists[k] = <<>>
    BY <1>1 DEF NoLists
  <2> QED
    BY <1>1, <2>1, EmptyFacts, ZenonT(30)
<1>3. ReadsOwn
  BY <1>1, <1>2, ZenonT(30) DEF ReadsOwn
<1>4. \A p \in Proxies : snapshots[nodeID(p)] = Nil
  BY <1>1, ZenonT(30) DEF NodeIDs
<1>5. ServesOnlyTargeting
  BY <1>4, ZenonT(30) DEF ServesOnlyTargeting
<1> QED
  BY <1>3, <1>5, TypeInit, ZenonT(30) DEF OwnInv

\* Isolation (collectListeners .. collectEndpoints, eds.SynthesizeCLA, BuildSnapshot
\* and SetSnapshot together): whatever is changed while a reconcile reads, what is
\* cached for a node is the spec of CRs that target its proxy, and endpoints that a
\* slice of the Service some Cluster of that proxy refers to really has.
THEOREM ServesOwn == Spec => []ServesOnlyTargeting
<1>1. OwnInv => ServesOnlyTargeting
  BY DEF OwnInv
<1> QED
  BY <1>1, OwnInit, OwnNext, PTL DEF Spec

-----------------------------------------------------------------------------
(***************************************************************************)
(* Versions.  computeVersion writes the decimal digits of every            *)
(* resourceVersion it is given one after the other.  What can be read in   *)
(* one way only gives back the resourceVersions, and they can be put back  *)
(* into their groups, because a resourceVersion belongs to one object.     *)
(***************************************************************************)
\* The same text, cut into two twice.
CutAlike(a, b, c, d) ==
  /\ IsSeq(a) /\ IsSeq(b) /\ IsSeq(c) /\ IsSeq(d)
  /\ a \o b = c \o d
  /\ Len(a) = Len(c) \/ Len(b) = Len(d)

\* Two joined lists can be told apart if the length of one is known.
LEMMA SplitJoin ==
  ASSUME NEW a, NEW b, NEW c, NEW d, CutAlike(a, b, c, d)
  PROVE  a = c /\ b = d
<1>0. /\ IsSeq(a) /\ IsSeq(b) /\ IsSeq(c) /\ IsSeq(d)
      /\ a \o b = c \o d
      /\ Len(a) = Len(c) \/ Len(b) = Len(d)
  BY DEF CutAlike
<1> DEFINE S == (Range(a) \cup Range(b)) \cup (Range(c) \cup Range(d))
<1>1. a \in Seq(S) /\ b \in Seq(S) /\ c \in Seq(S) /\ d \in Seq(S)
  BY <1>0, SeqMonotonic DEF IsSeq
<1> HIDE DEF S
<1>2. Len(a) = Len(c) /\ Len(b) = Len(d)
  <2>1. Len(a \o b) = Len(a) + Len(b) /\ Len(c \o d) = Len(c) + Len(d)
    BY <1>1
  <2> QED
    BY <1>0, <1>1, <2>1
<1>3. \A i \in 1..Len(a) : a[i] = (a \o b)[i] /\ c[i] = (c \o d)[i]
  BY <1>1, <1>2
<1>4. \A i \in 1..Len(b) : b[i] = d[i]
  <2>1. \A i \in 1..Len(b) : b[i] = (a \o b)[Len(a) + i]
    BY <1>1
  <2>2. \A i \in 1..Len(d) : d[i] = (c \o d)[Len(c) + i]
    BY <1>1
  <2> QED
    BY <1>0, <1>2, <2>1, <2>2, ZenonT(30)
<1>5. a = c
  BY <1>0, <1>1, <1>2, <1>3, SeqEqual
<1>6. b = d
  BY <1>1, <1>2, <1>4, SeqEqual
<1> QED
  BY <1>5, <1>6

\* Where one list ends and the next begins in a concatenation.
LEMMA JoinAt ==
  ASSUME NEW a, NEW b, IsSeq(a), IsSeq(b)
  PROVE  /\ Len(a) \in Nat /\ Len(b) \in Nat /\ DOMAIN a = 1..Len(a) /\ DOMAIN b = 1..Len(b)
         /\ Len(a \o b) = Len(a) + Len(b)
         /\ \A i \in 1..Len(a) : (a \o b)[i] \in Range(a)
         /\ \A i \in 1..Len(b) : (a \o b)[Len(a) + i] \in Range(b)
<1> DEFINE S == Range(a) \cup Range(b)
<1>1. a \in Seq(S) /\ b \in Seq(S)
  BY SeqMonotonic DEF IsSeq
<1> HIDE DEF S
<1>2. /\ Len(a) \in Nat /\ Len(b) \in Nat /\ DOMAIN a = 1..Len(a) /\ DOMAIN b = 1..Len(b)
      /\ Len(a \o b) = Len(a) + Len(b)
      /\ \A i \in 1..Len(a) : (a \o b)[i] = a[i]
      /\ \A i \in 1..Len(b) : (a \o b)[Len(a) + i] = b[i]
  BY <1>1
<1> QED
  BY <1>2, ZenonT(30) DEF Range

\* Lists with the same elements at the same places are the same.
LEMMA SameLists ==
  ASSUME NEW s, NEW t, IsSeq(s), IsSeq(t), Len(s) = Len(t), \A i \in 1..Len(s) : s[i] = t[i]
  PROVE  s = t
<1> DEFINE S == Range(s) \cup Range(t)
<1>1. s \in Seq(S) /\ t \in Seq(S)
  BY SeqMonotonic DEF IsSeq
<1> QED
  BY <1>1, SeqEqual

\* A list of lists of length w.
Wide(ls, w) == IsSeq(ls) /\ \A i \in DOMAIN ls : IsSeq(ls[i]) /\ Len(ls[i]) = w

\* Lists of one length are told apart in their concatenation.
LEMMA WidthSplits ==
  ASSUME NEW w \in Nat \ {0}, NEW ls, Wide(ls, w), NEW ks, Wide(ks, w), Concat(ls) = Concat(ks)
  PROVE  ls = ks
<1>0. /\ IsSeq(ls) /\ \A i \in DOMAIN ls : IsSeq(ls[i]) /\ Len(ls[i]) = w
      /\ IsSeq(ks) /\ \A i \in DOMAIN ks : IsSeq(ks[i]) /\ Len(ks[i]) = w
  BY ZenonT(30) DEF Wide
<1> DEFINE n == Len(ls)
           m == Len(ks)
<1>1. PICK f : UpTo(f, ls) /\ Concat(ls) = f[n]
  BY <1>0, ConcatUnfolds, ZenonT(30)
<1>2. PICK g : UpTo(g, ks) /\ Concat(ks) = g[m]
  BY <1>0, ConcatUnfolds, ZenonT(30)
<1>3. /\ n \in Nat /\ DOMAIN ls = 1..n
      /\ f[0] = <<>> /\ \A i \in 1..n : f[i] = f[i - 1] \o ls[i]
      /\ \A i \in 0..n : IsSeq(f[i])
  BY <1>0, <1>1, UpToFacts, ZenonT(30)
<1>4. /\ m \in Nat /\ DOMAIN ks = 1..m
      /\ g[0] = <<>> /\ \A i \in 1..m : g[i] = g[i - 1] \o ks[i]
      /\ \A i \in 0..m : IsSeq(g[i])
  BY <1>0, <1>2, UpToFacts, ZenonT(30)
<1> HIDE DEF n, m
<1>5. \A i \in 1..n : f[i] # <<>>
  <2> SUFFICES ASSUME NEW i \in 1..n PROVE Len(f[i]) # 0
    OBVIOUS
  <2>1. i - 1 \in 0..n /\ i \in 1..n
    BY <1>3
  <2>2. Len(f[i]) = Len(f[i - 1]) + Len(ls[i]) /\ Len(f[i - 1]) \in Nat /\ Len(ls[i]) = w
    BY <1>0, <1>3, <2>1, JoinAt, ZenonT(30)
  <2> QED
    BY <2>2
<1>6. \A i \in 1..m : g[i] # <<>>
  <2> SUFFICES ASSUME NEW i \in 1..m PROVE Len(g[i]) # 0
    OBVIOUS
  <2>1. i - 1 \in 0..m /\ i \in 1..m
    BY <1>4
  <2>2. Len(g[i]) = Len(g[i - 1]) + Len(ks[i]) /\ Len(g[i - 1]) \in Nat /\ Len(ks[i]) = w
    BY <1>0, <1>4, <2>1, JoinAt, ZenonT(30)
  <2> QED
    BY <2>2
<1> DEFINE same(i, j) == i = j /\ \A k \in 1..i : ls[k] = ks[k]
           bad(i) == \E j \in 0..m : f[i] = g[j] /\ ~ same(i, j)
           T == {i \in 0..n : bad(i)}
<1>7. T = {}
  <2> SUFFICES ASSUME T # {} PROVE FALSE
    OBVIOUS
  <2>1. T \subseteq 0..n
    BY ZenonT(30)
  <2>2. T \subseteq Nat
    BY <1>3, <2>1
  <2>3. PICK i \in T : \A k \in T : i <= k
    BY <2>2, LeastNumber, ZenonT(30)
  <2>4. PICK j \in 0..m : f[i] = g[j] /\ ~ same(i, j)
    BY <2>3, ZenonT(30)
  <2> HIDE DEF T
  <2>5. i \in 0..n
    BY <2>1, <2>3
  <2>6. i # 0 /\ j # 0
    <3>1. i = 0 => j = 0
      BY <1>3, <1>4, <1>6, <2>4
    <3>2. j = 0 => i = 0
      BY <1>3, <1>4, <1>5, <2>4, <2>5
    <3>3. same(0, 0)
      OBVIOUS
    <3> QED
      BY <2>4, <3>1, <3>2, <3>3, ZenonT(30)
  <2>7. i \in 1..n /\ i - 1 \in 0..n /\ j \in 1..m /\ j - 1 \in 0..m /\ i - 1 \notin T
    BY <1>3, <1>4, <2>3, <2>4, <2>5, <2>6
  <2>8. f[i - 1] \o ls[i] = g[j - 1] \o ks[j]
    BY <1>3, <1>4, <2>4, <2>7, ZenonT(30)
  <2>9. f[i - 1] = g[j - 1] /\ ls[i] = ks[j]
    <3>1. IsSeq(f[i - 1]) /\ IsSeq(ls[i]) /\ IsSeq(g[j - 1]) /\ IsSeq(ks[j]) /\ Len(ls[i]) = Len(ks[j])
      BY <1>0, <1>3, <1>4, <2>7, ZenonT(30)
    <3>2. CutAlike(f[i - 1], ls[i], g[j - 1], ks[j])
      BY <2>8, <3>1, ZenonT(30) DEF CutAlike
    <3> QED
      BY <3>2, SplitJoin, ZenonT(30)
  <2>10. same(i - 1, j - 1)
    BY <2>7, <2>9, ZenonT(30) DEF T
  <2>11. same(i, j)
    <3>1. i = j
      BY <1>3, <1>4, <2>7, <2>10
    <3>2. \A k \in 1..i : k \in 1..(i - 1) \/ k = i
      BY <1>3, <2>7
    <3> QED
      BY <2>9, <2>10, <3>1, <3>2, ZenonT(30)
  <2> QED
    BY <2>4, <2>11, ZenonT(30)
<1>8. same(n, m)
  <2>1. n \in 0..n /\ m \in 0..m
    BY <1>3, <1>4
  <2> QED
    BY <1>1, <1>2, <1>7, <2>1, ZenonT(30)
<1> QED
  BY <1>0, <1>8, SameLists, ZenonT(30) DEF n, m

\* The concatenation of one list.
LEMMA ConcatOne ==
  ASSUME NEW q, IsSeq(q)
  PROVE  Concat(<<q>>) = q
<1> DEFINE ls == <<q>>
<1>1. ls \in Seq({q}) /\ Len(ls) = 1 /\ DOMAIN ls = 1..1 /\ ls[1] = q
  OBVIOUS
<1>2. IsSeq(ls) /\ \A i \in DOMAIN ls : IsSeq(ls[i])
  <2>1. IsSeq(ls)
    BY SingleFacts
  <2>2. \A i \in DOMAIN ls : i = 1
    BY <1>1
  <2> QED
    BY <1>1, <2>1, <2>2, ZenonT(30)
<1> HIDE DEF ls
<1>3. PICK f : UpTo(f, ls) /\ Concat(ls) = f[Len(ls)]
  BY <1>2, ConcatUnfolds, ZenonT(30)
<1>4. f[0] = <<>> /\ \A i \in 1..Len(ls) : f[i] = f[i - 1] \o ls[i]
  BY <1>2, <1>3, UpToFacts, ZenonT(30)
<1>5. 1 \in 1..Len(ls) /\ 1 - 1 = 0
  BY <1>1
<1>6. f[1] = <<>> \o q
  BY <1>1, <1>4, <1>5, ZenonT(30)
<1>7. <<>> \o q = q
  BY ConcatEmptySeq DEF IsSeq
<1> QED
  BY <1>1, <1>3, <1>6, <1>7 DEF ls

\* A concatenation of lists that are not empty has an element for each of them.
LEMMA ConcatLonger ==
  ASSUME NEW ls, IsSeq(ls), \A i \in DOMAIN ls : IsSeq(ls[i]) /\ Len(ls[i]) \in Nat \ {0}
  PROVE  Len(ls) \in Nat /\ Len(Concat(ls)) \in Nat /\ Len(ls) <= Len(Concat(ls))
<1> DEFINE n == Len(ls)
<1>1. PICK f : UpTo(f, ls) /\ Concat(ls) = f[n]
  BY ConcatUnfolds, ZenonT(30)
<1>2. /\ n \in Nat /\ DOMAIN ls = 1..n
      /\ f[0] = <<>> /\ \A i \in 1..n : f[i] = f[i - 1] \o ls[i]
      /\ \A i \in 0..n : IsSeq(f[i])
  BY <1>1, UpToFacts, ZenonT(30)
<1> HIDE DEF n
<1>3. \A i \in 0..n : Len(f[i]) \in Nat
  BY <1>2, JoinAt, ZenonT(30)
<1> DEFINE T == {i \in 0..n : ~ (i <= Len(f[i]))}
<1>4. T = {}
  <2> SUFFICES ASSUME T # {} PROVE FALSE
    OBVIOUS
  <2>1. T \subseteq Nat
    BY <1>2
  <2>2. PICK i \in T : \A k \in T : i <= k
    BY <2>1, LeastNumber, ZenonT(30)
  <2>3. i \in 0..n /\ ~ (i <= Len(f[i]))
    OBVIOUS
  <2>4. i # 0
    BY <1>3, <2>3
  <2>5. i \in 1..n /\ i - 1 \in 0..n
    BY <1>2, <2>3, <2>4
  <2>6. i - 1 \notin T
    BY <1>2, <2>2, <2>5
  <2>7. i - 1 <= Len(f[i - 1])
    BY <2>5, <2>6, ZenonT(30)
  <2>8. Len(f[i]) = Len(f[i - 1]) + Len(ls[i]) /\ Len(ls[i]) \in Nat \ {0} /\ Len(f[i - 1]) \in Nat
    BY <1>2, <1>3, <2>5, JoinAt, ZenonT(30)
  <2> HIDE DEF T
  <2> QED
    BY <1>2, <2>3, <2>5, <2>7, <2>8
<1>5. n \in 0..n
  BY <1>2
<1>6. n <= Len(f[n])
  BY <1>4, <1>5, ZenonT(30)
<1> QED
  BY <1>1, <1>2, <1>3, <1>5, <1>6 DEF n

\* The end of the first list shows if no element of one is an element of the other.
LEMMA CutByElements ==
  ASSUME NEW a, NEW b, NEW c, NEW d, IsSeq(a), IsSeq(b), IsSeq(c), IsSeq(d), a \o b = c \o d,
         NEW A, NEW B, A \cap B = {}, Range(a) \subseteq A, Range(c) \subseteq A,
         Range(b) \subseteq B, Range(d) \subseteq B
  PROVE  CutAlike(a, b, c, d)
<1>1. /\ Len(a) \in Nat /\ Len(b) \in Nat /\ Len(a \o b) = Len(a) + Len(b)
      /\ \A i \in 1..Len(a) : (a \o b)[i] \in A
      /\ \A i \in 1..Len(b) : (a \o b)[Len(a) + i] \in B
  BY JoinAt, ZenonT(30)
<1>2. /\ Len(c) \in Nat /\ Len(d) \in Nat /\ Len(a \o b) = Len(c) + Len(d)
      /\ \A i \in 1..Len(c) : (a \o b)[i] \in A
      /\ \A i \in 1..Len(d) : (a \o b)[Len(c) + i] \in B
  BY JoinAt, ZenonT(30)
<1>3. ~ (Len(a) < Len(c))
  <2> SUFFICES ASSUME Len(a) < Len(c) PROVE FALSE
    OBVIOUS
  <2>1. 1 \in 1..Len(b) /\ Len(a) + 1 \in 1..Len(c)
    BY <1>1, <1>2
  <2> QED
    BY <1>1, <1>2, <2>1, ZenonT(30)
<1>4. ~ (Len(c) < Len(a))
  <2> SUFFICES ASSUME Len(c) < Len(a) PROVE FALSE
    OBVIOUS
  <2>1. 1 \in 1..Len(d) /\ Len(c) + 1 \in 1..Len(a)
    BY <1>1, <1>2
  <2> QED
    BY <1>1, <1>2, <2>1, ZenonT(30)
<1>5. Len(a) = Len(c)
  BY <1>1, <1>2, <1>3, <1>4
<1> QED
  BY <1>5 DEF CutAlike

\* Lists whose elements say, by t, in which of them they belong.
Tagged(t, ls) ==
  IsSeq(ls) /\ \A i \in DOMAIN ls : IsSeq(ls[i]) /\ \A x \in Range(ls[i]) : t[x] = i

\* As many such lists are told apart in their concatenation.
LEMMA TagsSplit ==
  ASSUME NEW t, NEW ls, NEW ks, Tagged(t, ls), Tagged(t, ks), Len(ls) = Len(ks),
         Concat(ls) = Concat(ks)
  PROVE  ls = ks
<1> DEFINE n == Len(ls)
<1>0. /\ IsSeq(ls) /\ \A i \in DOMAIN ls : IsSeq(ls[i]) /\ \A x \in Range(ls[i]) : t[x] = i
      /\ IsSeq(ks) /\ \A i \in DOMAIN ks : IsSeq(ks[i]) /\ \A x \in Range(ks[i]) : t[x] = i
  BY ZenonT(30) DEF Tagged
<1>1. PICK f : UpTo(f, ls) /\ Concat(ls) = f[n]
  BY <1>0, ConcatUnfolds, ZenonT(30)
<1>2. PICK g : UpTo(g, ks) /\ Concat(ks) = g[n]
  BY <1>0, ConcatUnfolds, ZenonT(30)
<1>3. /\ n \in Nat /\ DOMAIN ls = 1..n
      /\ f[0] = <<>> /\ \A i \in 1..n : f[i] = f[i - 1] \o ls[i]
      /\ \A i \in 0..n : IsSeq(f[i]) /\ \A x \in Range(f[i]) : \E j \in 1..i : x \in Range(ls[j])
  BY <1>0, <1>1, UpToFacts, ZenonT(30)
<1>4. /\ DOMAIN ks = 1..n
      /\ g[0] = <<>> /\ \A i \in 1..n : g[i] = g[i - 1] \o ks[i]
      /\ \A i \in 0..n : IsSeq(g[i]) /\ \A x \in Range(g[i]) : \E j \in 1..i : x \in Range(ks[j])
  <2> DEFINE m == Len(ks)
  <2>0. IsSeq(ks) /\ \A i \in DOMAIN ks : IsSeq(ks[i])
    BY <1>0, ZenonT(30)
  <2>1. /\ DOMAIN ks = 1..m
        /\ g[0] = <<>> /\ \A i \in 1..m : g[i] = g[i - 1] \o ks[i]
        /\ \A i \in 0..m : IsSeq(g[i]) /\ \A x \in Range(g[i]) : \E j \in 1..i : x \in Range(ks[j])
    BY <2>0, <1>2, UpToFacts, ZenonT(30)
  <2> QED
    BY <2>1, ZenonT(30)
<1> HIDE DEF n
<1> DEFINE same(i) == \A k \in 1..i : ls[k] = ks[k]
           T == {i \in 0..n : f[i] = g[i] /\ ~ same(i)}
<1>5. T = {}
  <2> SUFFICES ASSUME T # {} PROVE FALSE
    OBVIOUS
  <2>1. T \subseteq 0..n
    BY ZenonT(30)
  <2>2. T \subseteq Nat
    BY <1>3, <2>1
  <2>3. PICK i \in T : \A k \in T : i <= k
    BY <2>2, LeastNumber, ZenonT(30)
  <2>4. f[i] = g[i] /\ ~ same(i)
    BY <2>3, ZenonT(30)
  <2> HIDE DEF T
  <2>5. i # 0
    <3>1. same(0)
      OBVIOUS
    <3> QED
      BY <2>4, <3>1, ZenonT(30)
  <2>6. i \in 1..n /\ i - 1 \in 0..n /\ i - 1 \notin T
    BY <1>3, <2>1, <2>3, <2>5
  <2>7. f[i - 1] \o ls[i] = g[i - 1] \o ks[i]
    BY <1>3, <1>4, <2>4, <2>6, ZenonT(30)
  <2> DEFINE A == Range(f[i - 1]) \cup Range(g[i - 1])
             B == Range(ls[i]) \cup Range(ks[i])
  <2>8. A \cap B = {}
    <3> SUFFICES ASSUME NEW x \in A, x \in B PROVE FALSE
      BY ZenonT(30)
    <3>1. t[x] = i
      BY <1>0, <1>3, <1>4, <2>6, ZenonT(30)
    <3>2. PICK j \in 1..(i - 1) : x \in Range(ls[j]) \cup Range(ks[j])
      BY <1>3, <1>4, <2>6, ZenonT(30)
    <3>3. j \in 1..n /\ j # i
      BY <1>3, <2>6, <3>2
    <3>4. t[x] = j
      BY <1>0, <1>3, <1>4, <3>2, <3>3, ZenonT(30)
    <3> QED
      BY <3>1, <3>3, <3>4, ZenonT(30)
  <2>9. IsSeq(f[i - 1]) /\ IsSeq(ls[i]) /\ IsSeq(g[i - 1]) /\ IsSeq(ks[i])
    BY <1>0, <1>3, <1>4, <2>6, ZenonT(30)
  <2>10. /\ Range(f[i - 1]) \subseteq A /\ Range(g[i - 1]) \subseteq A
         /\ Range(ls[i]) \subseteq B /\ Range(ks[i]) \subseteq B
    BY ZenonT(30)
  <2> HIDE DEF A, B
  <2>11. CutAlike(f[i - 1], ls[i], g[i - 1], ks[i])
    BY <2>7, <2>8, <2>9, <2>10, CutByElements, ZenonT(30)
  <2>12. f[i - 1] = g[i - 1] /\ ls[i] = ks[i]
    BY <2>11, SplitJoin, ZenonT(30)
  <2>13. same(i - 1)
    BY <2>6, <2>12, ZenonT(30) DEF T
  <2>14. \A k \in 1..i : k \in 1..(i - 1) \/ k = i
    BY <1>3, <2>6
  <2> QED
    BY <2>4, <2>12, <2>13, <2>14, ZenonT(30)
<1>6. same(n)
  <2>1. n \in 0..n
    BY <1>3
  <2> QED
    BY <1>1, <1>2, <1>5, <2>1, ZenonT(30)
<1> QED
  BY <1>0, <1>6, SameLists, ZenonT(30) DEF n

\* What is left of a number without its last digit is smaller.
LEMMA DigitFacts ==
  ASSUME NEW n \in Nat, ~ (n < 10)
  PROVE  n \div 10 \in 0..(n - 1)
OBVIOUS

\* One digit more than the number without its last digit has.
digits(f, n) == IF n < 10 THEN <<n>> ELSE Append(f[n \div 10], n % 10)

DigitsUpTo(f, n) == f = [i \in 0..n |-> digits(f, i)]

\* A table of the numbers' digits can be filled in from the start.
LEMMA DigitsExist ==
  ASSUME NEW n \in Nat
  PROVE  \E f : DigitsUpTo(f, n)
<1> DEFINE T == {k \in Nat : ~ \E f : DigitsUpTo(f, k)}
<1> SUFFICES ASSUME T # {} PROVE FALSE
  BY ZenonT(30)
<1>1. T \subseteq Nat
  BY ZenonT(30)
<1>2. PICK k \in T : \A j \in T : k <= j
  BY <1>1, LeastNumber, ZenonT(30)
<1>3. k # 0
  <2>1. DigitsUpTo([i \in 0..0 |-> <<i>>], 0)
    <3>1. \A i \in 0..0 : i < 10
      OBVIOUS
    <3> QED
      BY <3>1, ZenonT(30) DEF DigitsUpTo, digits
  <2> QED
    BY <1>2, <2>1, ZenonT(30)
<1> HIDE DEF T
<1>4. k \in Nat /\ k - 1 \in Nat /\ k - 1 \notin T
  BY <1>1, <1>2, <1>3
<1>5. PICK g : DigitsUpTo(g, k - 1)
  BY <1>4, ZenonT(30) DEF T
<1> DEFINE h == [i \in 0..k |-> IF i = k THEN digits(g, k) ELSE g[i]]
<1>6. \A i \in 0..(k - 1) : g[i] = digits(g, i)
  BY <1>5, ZenonT(30) DEF DigitsUpTo
<1>7. ASSUME NEW i \in 0..k PROVE h[i] = digits(h, i)
  <2>1. i \in Nat /\ (i # k => i \in 0..(k - 1))
    BY <1>4
  <2>2. ~ (i < 10) => i \div 10 \in 0..k /\ i \div 10 # k
    BY <1>4, <2>1, DigitFacts
  <2>3. ~ (i < 10) => h[i \div 10] = g[i \div 10]
    BY <2>2, ZenonT(30)
  <2>4. digits(h, i) = digits(g, i)
    BY <2>3 DEF digits
  <2> QED
    BY <1>6, <2>1, <2>4, ZenonT(30)
<1>8. DigitsUpTo(h, k)
  BY <1>7, ZenonT(30) DEF DigitsUpTo
<1> QED
  BY <1>2, <1>8, ZenonT(30) DEF T

\* It can be filled in in one way.
LEMMA DigitsUnique ==
  ASSUME NEW n \in Nat, NEW m \in Nat, NEW f, NEW g, DigitsUpTo(f, n), DigitsUpTo(g, m),
         NEW i \in 0..n, i \in 0..m
  PROVE  f[i] = g[i]
<1> DEFINE T == {k \in 0..n : k \in 0..m /\ f[k] # g[k]}
<1> SUFFICES ASSUME T # {} PROVE FALSE
  BY ZenonT(30)
<1>1. T \subseteq 0..n /\ T \subseteq 0..m
  BY ZenonT(30)
<1>2. T \subseteq Nat
  BY <1>1
<1>3. PICK k \in T : \A j \in T : k <= j
  BY <1>2, LeastNumber, ZenonT(30)
<1>4. f[k] = digits(f, k) /\ g[k] = digits(g, k) /\ f[k] # g[k]
  BY <1>1, <1>3, ZenonT(30) DEF DigitsUpTo
<1> HIDE DEF T
<1>5. ~ (k < 10) => k \div 10 \in 0..n /\ k \div 10 \in 0..m /\ k \div 10 \notin T
  BY <1>1, <1>2, <1>3, DigitFacts
<1>6. ~ (k < 10) => f[k \div 10] = g[k \div 10]
  BY <1>5, ZenonT(30) DEF T
<1> QED
  BY <1>4, <1>6, ZenonT(30) DEF digits

\* fmt.Fprint, digit by digit.
LEMMA DecimalUnfolds == \A n \in Nat : decimal[n] = digits(decimal, n)
<1> DEFINE table(n) == CHOOSE f : DigitsUpTo(f, n)
           F == [n \in Nat |-> table(n)[n]]
<1>1. \A n \in Nat : DigitsUpTo(table(n), n)
  BY DigitsExist, ZenonT(30)
<1> HIDE DEF table
<1>2. ASSUME NEW n \in Nat PROVE F[n] = digits(F, n)
  <2>1. n \in 0..n
    OBVIOUS
  <2>2. F[n] = digits(table(n), n)
    BY <1>1, <2>1, ZenonT(30) DEF DigitsUpTo
  <2>3. ASSUME ~ (n < 10) PROVE table(n)[n \div 10] = F[n \div 10]
    <3> DEFINE q == n \div 10
    <3>1. q \in Nat /\ q \in 0..n /\ q \in 0..q
      BY <2>3, DigitFacts
    <3> HIDE DEF q
    <3>2. DigitsUpTo(table(n), n) /\ DigitsUpTo(table(q), q)
      BY <1>1, <3>1, ZenonT(30)
    <3>3. \A f, g : DigitsUpTo(f, n) /\ DigitsUpTo(g, q) => f[q] = g[q]
      BY <3>1, DigitsUnique
    <3>4. table(n)[q] = table(q)[q]
      BY <3>2, <3>3, ZenonT(30)
    <3> QED
      BY <3>1, <3>4, ZenonT(30) DEF q
  <2> QED
    BY <2>2, <2>3 DEF digits
<1>3. F = [n \in Nat |-> digits(F, n)]
  BY <1>2, ZenonT(30)
<1>4. \E f : f = [n \in Nat |-> digits(f, n)]
  BY <1>3, ZenonT(30)
<1>5. decimal = [n \in Nat |-> digits(decimal, n)]
  BY <1>4, ZenonT(30) DEF decimal, digits
<1> QED
  BY <1>5, ZenonT(30)

\* A number is printed as a list of digits, and can be read back.
LEMMA DecimalFacts ==
  /\ \A n \in Nat : IsSeq(decimal[n]) /\ Len(decimal[n]) \in Nat \ {0}
  /\ \A n, m \in Nat : decimal[n] = decimal[m] => n = m
<1>1. ASSUME NEW n \in Nat PROVE IsSeq(decimal[n])
  <2> DEFINE T == {k \in Nat : ~ IsSeq(decimal[k])}
  <2> SUFFICES ASSUME T # {} PROVE FALSE
    BY ZenonT(30)
  <2>1. T \subseteq Nat
    BY ZenonT(30)
  <2>2. PICK k \in T : \A j \in T : k <= j
    BY <2>1, LeastNumber, ZenonT(30)
  <2>3. ~ IsSeq(decimal[k])
    BY <2>2, ZenonT(30)
  <2> HIDE DEF T
  <2>4. CASE k < 10
    BY <2>1, <2>2, <2>3, <2>4, DecimalUnfolds, SingleFacts, ZenonT(30) DEF digits
  <2>5. CASE ~ (k < 10)
    <3> DEFINE q == k \div 10
    <3>1. q \in Nat /\ q \notin T
      BY <2>1, <2>2, <2>5, DigitFacts
    <3>2. decimal[k] = Append(decimal[q], k % 10)
      BY <2>1, <2>2, <2>5, DecimalUnfolds, ZenonT(30) DEF digits
    <3> HIDE DEF q
    <3>3. IsSeq(decimal[q])
      BY <3>1, ZenonT(30) DEF T
    <3>4. IsSeq(Append(decimal[q], k % 10))
      BY <3>3, AppendFacts, ZenonT(30)
    <3> QED
      BY <2>3, <3>2, <3>4, ZenonT(30)
  <2> QED
    BY <2>4, <2>5
<1>2. ASSUME NEW n \in Nat, ~ (n < 10)
      PROVE  /\ n \div 10 \in Nat
             /\ decimal[n] = decimal[n \div 10] \o <<n % 10>>
             /\ Len(decimal[n]) = Len(decimal[n \div 10]) + 1
  <2>1. n \div 10 \in Nat
    BY <1>2
  <2>2. decimal[n] = Append(decimal[n \div 10], n % 10)
    BY <1>2, DecimalUnfolds, ZenonT(30) DEF digits
  <2>3. decimal[n \div 10] \in Seq(Range(decimal[n \div 10]))
    BY <1>1, <2>1, ZenonT(30) DEF IsSeq
  <2> QED
    BY <2>1, <2>2, <2>3
<1>3. ASSUME NEW n \in Nat, n < 10 PROVE decimal[n] = <<n>> /\ Len(decimal[n]) = 1
  <2>1. decimal[n] = <<n>>
    BY <1>3, DecimalUnfolds, ZenonT(30) DEF digits
  <2> QED
    BY <2>1
<1>4. ASSUME NEW n \in Nat PROVE Len(decimal[n]) \in Nat \ {0}
  <2>1. \A k \in Nat : Len(decimal[k]) \in Nat
    BY <1>1 DEF IsSeq
  <2> QED
    BY <1>2, <1>3, <2>1
<1>5. ASSUME NEW n \in Nat, NEW m \in Nat, decimal[n] = decimal[m] PROVE n = m
  <2> DEFINE T == {k \in Nat : \E j \in Nat : decimal[k] = decimal[j] /\ k # j}
  <2> SUFFICES ASSUME T # {} PROVE FALSE
    BY <1>5, ZenonT(30)
  <2>1. T \subseteq Nat
    BY ZenonT(30)
  <2>2. PICK k \in T : \A j \in T : k <= j
    BY <2>1, LeastNumber, ZenonT(30)
  <2>3. PICK j \in Nat : decimal[k] = decimal[j] /\ k # j
    BY <2>2, ZenonT(30)
  <2> HIDE DEF T
  <2>4. k \in Nat
    BY <2>1, <2>2
  <2>5. \A i \in Nat : ~ (i < 10) => Len(decimal[i]) # 1
    <3> SUFFICES ASSUME NEW i \in Nat, ~ (i < 10) PROVE Len(decimal[i]) # 1
      OBVIOUS
    <3>1. i \div 10 \in Nat /\ Len(decimal[i]) = Len(decimal[i \div 10]) + 1
      BY <1>2, ZenonT(30)
    <3>2. Len(decimal[i \div 10]) \in Nat \ {0}
      BY <1>4, <3>1, ZenonT(30)
    <3> QED
      BY <3>1, <3>2
  <2>6. CASE k < 10 \/ j < 10
    <3>1. k < 10 /\ j < 10
      BY <1>3, <2>3, <2>4, <2>5, <2>6, ZenonT(30)
    <3>2. <<k>> = <<j>>
      BY <1>3, <2>3, <2>4, <3>1, ZenonT(30)
    <3> QED
      BY <2>3, <3>2
  <2>7. CASE ~ (k < 10) /\ ~ (j < 10)
    <3>1. CutAlike(decimal[k \div 10], <<k % 10>>, decimal[j \div 10], <<j % 10>>)
      <4>1. k \div 10 \in Nat /\ j \div 10 \in Nat
        BY <2>4, <2>7
      <4>2. decimal[k \div 10] \o <<k % 10>> = decimal[j \div 10] \o <<j % 10>>
        BY <1>2, <2>3, <2>4, <2>7, ZenonT(30)
      <4>3. Len(<<k % 10>>) = Len(<<j % 10>>)
        OBVIOUS
      <4> QED
        BY <1>1, <4>1, <4>2, <4>3, SingleFacts, ZenonT(30) DEF CutAlike
    <3>2. decimal[k \div 10] = decimal[j \div 10] /\ <<k % 10>> = <<j % 10>>
      BY <3>1, SplitJoin, ZenonT(30)
    <3>3. k \div 10 \in Nat /\ j \div 10 \in Nat /\ k \div 10 \notin T
      BY <2>1, <2>2, <2>7, DigitFacts
    <3>4. k \div 10 = j \div 10
      BY <3>2, <3>3, ZenonT(30) DEF T
    <3>5. k % 10 = j % 10
      BY <3>2
    <3> QED
      BY <2>3, <2>4, <3>4, <3>5
  <2> QED
    BY <2>6, <2>7
<1> QED
  BY <1>1, <1>4, <1>5, ZenonT(30)

-----------------------------------------------------------------------------
(***************************************************************************)
(* H, the history of writes: what was written under each resourceVersion.  *)
(***************************************************************************)
IsHistory(H) ==
  \A v \in DOMAIN H : v \in resourceVersions /\ v \in Nat /\ H[v].m \in Manifests[H[v].id]

Known(H, id, o) ==
  /\ o = [rv |-> o.rv, m |-> o.m]
  /\ o.rv \in DOMAIN H /\ H[o.rv] = [id |-> id, m |-> o.m]

\* A List of CRs of a proxy, or of the slices of a Cluster's Service, taken from
\* objects that were written at some time.
KnownItem(H, x) == x = [id |-> x.id, obj |-> x.obj] /\ Known(H, x.id, x.obj)

Listed(H, p, k, items) ==
  /\ IsSeq(items)
  /\ \A i \in DOMAIN items :
       /\ KnownItem(H, items[i]) /\ IsItem(items[i], k)
       /\ p \in mapXDSResourceToProxy(items[i].id, items[i].obj)
  /\ \A i, j \in DOMAIN items : items[i].id = items[j].id => i = j

Backing(H, c, ss) ==
  /\ IsSeq(ss)
  /\ \A i \in DOMAIN ss :
       /\ KnownItem(H, ss[i]) /\ ss[i].id \in Slices
       /\ serviceMatches(c.obj.m.ref, c.id.ns, ss[i].obj.m.service, ss[i].id.ns)

contribution(c, ss) ==
  [specs    |-> <<SynthesizeCLA(ClusterName(c.obj.m.spec), [i \in DOMAIN ss |-> ss[i].obj.m],
                                c.obj.m.ref.port)>>,
   versions |-> versionsOf(ss)]

Contributed(H, c, clas, x) ==
  IF needsSynthesis(c, clas)
    THEN \E ss : Backing(H, c, ss) /\ x = contribution(c, ss)
    ELSE x = [specs |-> <<>>, versions |-> <<>>]

\* What a reconcile of p may have collected so far, and when it has all.
Gathered(H, p, ls, sy) ==
  /\ ls = [k \in XdsKinds |-> ls[k]]
  /\ \A k \in XdsKinds : Listed(H, p, k, ls[k])
  /\ IsSeq(sy) /\ Len(sy) <= Len(ls["Cluster"])
  /\ \A i \in DOMAIN sy : Contributed(H, ls["Cluster"][i], ls["ClusterLoadAssignment"], sy[i])

GatheredAll(H, p, ls, sy) == Gathered(H, p, ls, sy) /\ Len(sy) = Len(ls["Cluster"])

\* Lists with the same indexes have the same length.
LEMMA SameLength ==
  ASSUME NEW s, NEW t, IsSeq(s), IsSeq(t), DOMAIN s = DOMAIN t
  PROVE  Len(s) = Len(t) /\ DOMAIN s = 1..Len(s) /\ Len(s) \in Nat
<1> DEFINE n == Len(s)
           m == Len(t)
<1>1. n \in Nat /\ m \in Nat /\ DOMAIN s = 1..n /\ DOMAIN t = 1..m
  BY DEF IsSeq
<1> HIDE DEF n, m
<1>2. \A i \in 1..n : i \in 1..m
  BY <1>1, ZenonT(30)
<1>3. \A i \in 1..m : i \in 1..n
  BY <1>1, ZenonT(30)
<1>4. n <= m
  <2>1. n # 0 => n \in 1..n
    BY <1>1
  <2> QED
    BY <1>1, <1>2, <2>1
<1>5. m <= n
  <2>1. m # 0 => m \in 1..m
    BY <1>1
  <2> QED
    BY <1>1, <1>3, <2>1
<1>6. n = m
  BY <1>1, <1>4, <1>5
<1> QED
  BY <1>1, <1>6, ZenonT(30) DEF n, m

\* A list of known objects can be read off its resourceVersions.
LEMMA VersionsTell ==
  ASSUME NEW H, NEW s, IsSeq(s), \A i \in DOMAIN s : KnownItem(H, s[i]),
         NEW t, IsSeq(t), \A i \in DOMAIN t : KnownItem(H, t[i]), versionsOf(s) = versionsOf(t)
  PROVE  s = t
<1>1. DOMAIN s = DOMAIN t /\ \A i \in DOMAIN s : s[i].obj.rv = t[i].obj.rv
  <2>1. DOMAIN versionsOf(s) = DOMAIN s /\ DOMAIN versionsOf(t) = DOMAIN t
    BY DEF versionsOf
  <2>2. ASSUME NEW i \in DOMAIN s PROVE s[i].obj.rv = t[i].obj.rv
    <3>1. versionsOf(s)[i] = s[i].obj.rv /\ versionsOf(t)[i] = t[i].obj.rv
      BY <2>1 DEF versionsOf
    <3> QED
      BY <3>1, ZenonT(30)
  <2> QED
    BY <2>1, <2>2, ZenonT(30)
<1>2. Len(s) = Len(t) /\ DOMAIN s = 1..Len(s)
  BY <1>1, SameLength, ZenonT(30)
<1>3. ASSUME NEW i \in DOMAIN s PROVE s[i] = t[i]
  <2> DEFINE x == s[i]
             y == t[i]
  <2>1. KnownItem(H, x) /\ KnownItem(H, y) /\ x.obj.rv = y.obj.rv
    BY <1>1, ZenonT(30)
  <2> HIDE DEF x, y
  <2>2. /\ x = [id |-> x.id, obj |-> x.obj] /\ x.obj = [rv |-> x.obj.rv, m |-> x.obj.m]
        /\ y = [id |-> y.id, obj |-> y.obj] /\ y.obj = [rv |-> y.obj.rv, m |-> y.obj.m]
        /\ [id |-> x.id, m |-> x.obj.m] = [id |-> y.id, m |-> y.obj.m]
    BY <2>1, ZenonT(30) DEF KnownItem, Known
  <2>3. x.id = y.id /\ x.obj.m = y.obj.m
    BY <2>2
  <2>4. x.obj = y.obj
    BY <2>1, <2>2, <2>3
  <2>5. x = y
    BY <2>2, <2>3, <2>4
  <2> QED
    BY <2>5 DEF x, y
<1> QED
  BY <1>2, <1>3, SameLists, ZenonT(30)

\* The text of one list of resourceVersions.
LEMMA TextOf ==
  ASSUME NEW q, IsSeq(q)
  PROVE  computeVersion(<<q>>) = Concat([i \in DOMAIN q |-> decimal[q[i]]])
BY ConcatOne, ZenonT(30) DEF computeVersion

\* The resourceVersions that are hashed are a reading of their text.
LEMMA TextReads ==
  ASSUME NEW q, IsSeq(q), \A i \in DOMAIN q : q[i] \in resourceVersions /\ q[i] \in Nat
  PROVE  q \in readings(Concat([i \in DOMAIN q |-> decimal[q[i]]]))
<1> DEFINE ls == [i \in DOMAIN q |-> decimal[q[i]]]
           v == Concat(ls)
<1>1. IsSeq(ls) /\ DOMAIN ls = DOMAIN q /\ \A i \in DOMAIN q : ls[i] = decimal[q[i]]
  BY MapIsSeq, ZenonT(30)
<1>2. computeVersion(<<q>>) = v
  BY TextOf
<1> HIDE DEF ls
<1>3. \A i \in DOMAIN ls : IsSeq(ls[i]) /\ Len(ls[i]) \in Nat \ {0}
  BY <1>1, DecimalFacts, ZenonT(30)
<1>4. Len(ls) \in Nat /\ Len(v) \in Nat /\ Len(ls) <= Len(v)
  BY <1>1, <1>3, ConcatLonger, ZenonT(30)
<1>5. Len(q) = Len(ls) /\ DOMAIN q = 1..Len(q) /\ Len(q) \in Nat
  BY <1>1, SameLength, ZenonT(30)
<1> HIDE DEF v
<1>6. Len(q) \in 0..Len(v)
  BY <1>4, <1>5
<1>7. q \in [1..Len(q) -> resourceVersions]
  <2>1. q = [i \in DOMAIN q |-> q[i]]
    BY SeqDef DEF IsSeq
  <2> QED
    BY <1>5, <2>1, ZenonT(30)
<1>8. q \in readings(v)
  BY <1>2, <1>6, <1>7, ZenonT(30) DEF readings
<1> QED
  BY <1>8 DEF v, ls

\* resourceVersions have one width: as many decimal digits each as the others.
SameWidth == \A v, w \in resourceVersions : Len(decimal[v]) = Len(decimal[w])

\* resourceVersions of one width can be read off the text that is hashed.
LEMMA TextTells ==
  ASSUME SameWidth, NEW s, IsSeq(s), \A i \in DOMAIN s : s[i] \in resourceVersions /\ s[i] \in Nat,
         NEW t, IsSeq(t), \A i \in DOMAIN t : t[i] \in resourceVersions /\ t[i] \in Nat,
         Concat([i \in DOMAIN s |-> decimal[s[i]]]) = Concat([i \in DOMAIN t |-> decimal[t[i]]])
  PROVE  s = t
<1> DEFINE ls == [i \in DOMAIN s |-> decimal[s[i]]]
           ks == [i \in DOMAIN t |-> decimal[t[i]]]
<1>1. /\ IsSeq(ls) /\ DOMAIN ls = DOMAIN s /\ \A i \in DOMAIN s : ls[i] = decimal[s[i]]
      /\ IsSeq(ks) /\ DOMAIN ks = DOMAIN t /\ \A i \in DOMAIN t : ks[i] = decimal[t[i]]
  BY MapIsSeq, ZenonT(30)
<1>2. Concat(ls) = Concat(ks)
  OBVIOUS
<1> HIDE DEF ls, ks
<1>3. PICK w \in Nat \ {0} : \A v \in resourceVersions : v \in Nat => Len(decimal[v]) = w
  <2>1. CASE \E v \in resourceVersions : v \in Nat
    <3>1. PICK v \in resourceVersions : v \in Nat
      BY <2>1
    <3>2. Len(decimal[v]) \in Nat \ {0}
      BY <3>1, DecimalFacts, ZenonT(30)
    <3> QED
      BY <3>1, <3>2, ZenonT(30) DEF SameWidth
  <2>2. CASE ~ \E v \in resourceVersions : v \in Nat
    <3>1. 1 \in Nat \ {0}
      OBVIOUS
    <3> QED
      BY <2>2, <3>1, ZenonT(30)
  <2> QED
    BY <2>1, <2>2
<1>4. \A v \in resourceVersions : v \in Nat => IsSeq(decimal[v]) /\ Len(decimal[v]) = w
  BY <1>3, DecimalFacts, ZenonT(30)
<1>5. ls = ks
  <2>1. ASSUME NEW i \in DOMAIN ls PROVE IsSeq(ls[i]) /\ Len(ls[i]) = w
    <3>1. ls[i] = decimal[s[i]] /\ s[i] \in resourceVersions /\ s[i] \in Nat
      BY <1>1, ZenonT(30)
    <3> QED
      BY <1>4, <3>1
  <2>2. ASSUME NEW i \in DOMAIN ks PROVE IsSeq(ks[i]) /\ Len(ks[i]) = w
    <3>1. ks[i] = decimal[t[i]] /\ t[i] \in resourceVersions /\ t[i] \in Nat
      BY <1>1, ZenonT(30)
    <3> QED
      BY <1>4, <3>1
  <2>3. Wide(ls, w) /\ Wide(ks, w)
    BY <1>1, <2>1, <2>2, ZenonT(30) DEF Wide
  <2> QED
    BY <1>2, <1>3, <2>3, WidthSplits, ZenonT(30)
<1>6. DOMAIN s = DOMAIN t /\ \A i \in DOMAIN s : s[i] = t[i]
  <2>1. DOMAIN s = DOMAIN t
    BY <1>1, <1>5, ZenonT(30)
  <2>2. ASSUME NEW i \in DOMAIN s PROVE s[i] = t[i]
    <3>1. i \in DOMAIN t /\ s[i] \in Nat /\ t[i] \in Nat /\ decimal[s[i]] = decimal[t[i]]
      BY <1>1, <1>5, <2>1, ZenonT(30)
    <3> QED
      BY <3>1, DecimalFacts, ZenonT(30)
  <2> QED
    BY <2>1, <2>2
<1>7. Len(s) = Len(t) /\ DOMAIN s = 1..Len(s)
  BY <1>6, SameLength, ZenonT(30)
<1> QED
  BY <1>6, <1>7, SameLists, ZenonT(30)

\* The text of a version (computeVersion) is ambiguous only if resourceVersions of
\* different widths are in use.
THEOREM OneWidthIsUnambiguous ==
  ASSUME SameWidth, resourceVersions \subseteq Nat, NEW v, IsSeq(v)
  PROVE  ~ ambiguous(v)
<1>1. ASSUME NEW q \in readings(v)
      PROVE  /\ IsSeq(q) /\ \A i \in DOMAIN q : q[i] \in resourceVersions /\ q[i] \in Nat
             /\ Concat([i \in DOMAIN q |-> decimal[q[i]]]) = v
  <2>1. PICK n \in 0..Len(v) : q \in [1..n -> resourceVersions]
    BY <1>1, ZenonT(30) DEF readings
  <2>2. n \in Nat
    BY <2>1 DEF IsSeq
  <2>3. q \in Seq(resourceVersions) /\ DOMAIN q = 1..n
    BY <2>1, <2>2, SeqDef, ZenonT(30)
  <2>4. IsSeq(q)
    BY <2>3, SeqOfRange DEF IsSeq
  <2>5. \A i \in DOMAIN q : q[i] \in resourceVersions
    BY <2>1
  <2>6. computeVersion(<<q>>) = v
    BY <1>1, ZenonT(30) DEF readings
  <2>7. Concat([i \in DOMAIN q |-> decimal[q[i]]]) = v
    BY <2>4, <2>6, TextOf
  <2> QED
    BY <2>4, <2>5, <2>7, ZenonT(30)
<1> QED
  BY <1>1, TextTells, ZenonT(30) DEF ambiguous

\* The resourceVersions of a List, by their history.
LEMMA ListedVersions ==
  ASSUME NEW H, NEW p, NEW k, NEW items, Listed(H, p, k, items)
  PROVE  /\ IsSeq(versionsOf(items))
         /\ \A v \in Range(versionsOf(items)) : v \in DOMAIN H /\ H[v].id.kind = k
<1>1. IsSeq(items) /\ \A i \in DOMAIN items : KnownItem(H, items[i]) /\ IsItem(items[i], k)
  BY ZenonT(30) DEF Listed
<1> DEFINE vs == versionsOf(items)
<1>2. vs = [i \in DOMAIN items |-> items[i].obj.rv]
  BY DEF versionsOf
<1> HIDE DEF vs
<1>3. IsSeq(vs) /\ DOMAIN vs = DOMAIN items /\ \A i \in DOMAIN items : vs[i] = items[i].obj.rv
  BY <1>1, <1>2, MapIsSeq, ZenonT(30)
<1>4. ASSUME NEW v \in Range(vs) PROVE v \in DOMAIN H /\ H[v].id.kind = k
  <2>1. PICK i \in DOMAIN items : v = items[i].obj.rv
    BY <1>3, ZenonT(30) DEF Range
  <2>2. v \in DOMAIN H /\ H[v] = [id |-> items[i].id, m |-> items[i].obj.m]
    BY <1>1, <2>1, ZenonT(30) DEF KnownItem, Known
  <2>3. H[v].id = items[i].id
    BY <2>2
  <2> QED
    BY <1>1, <2>2, <2>3, ZenonT(30) DEF IsItem
<1> QED
  BY <1>3, <1>4, ZenonT(30) DEF vs

\* Some slice under v is of the Service that c refers to.
SliceOf(H, c, v) ==
  /\ v \in DOMAIN H /\ H[v].id \in Slices
  /\ serviceMatches(c.obj.m.ref, c.id.ns, H[v].m.service, H[v].id.ns)

\* The resourceVersions of the slices behind one cluster.
LEMMA ContributedVersions ==
  ASSUME NEW H, NEW c, NEW clas, NEW x, Contributed(H, c, clas, x)
  PROVE  IsSeq(x.versions) /\ \A v \in Range(x.versions) : SliceOf(H, c, v)
<1>1. CASE ~ needsSynthesis(c, clas)
  <2>1. x.versions = <<>>
    BY <1>1 DEF Contributed
  <2> QED
    BY <2>1, EmptyFacts, ZenonT(30)
<1>2. CASE needsSynthesis(c, clas)
  <2>1. PICK ss : Backing(H, c, ss) /\ x = contribution(c, ss)
    BY <1>2, ZenonT(30) DEF Contributed
  <2> DEFINE vs == x.versions
  <2>2. vs = [i \in DOMAIN ss |-> ss[i].obj.rv]
    BY <2>1 DEF contribution, versionsOf
  <2> HIDE DEF vs
  <2>3. IsSeq(vs) /\ DOMAIN vs = DOMAIN ss /\ \A i \in DOMAIN ss : vs[i] = ss[i].obj.rv
    BY <2>1, <2>2, MapIsSeq, ZenonT(30) DEF Backing
  <2>4. ASSUME NEW v \in Range(vs) PROVE SliceOf(H, c, v)
    <3>1. PICK i \in DOMAIN ss : v = ss[i].obj.rv
      BY <2>3, ZenonT(30) DEF Range
    <3>2. v \in DOMAIN H /\ H[v] = [id |-> ss[i].id, m |-> ss[i].obj.m]
      BY <2>1, <3>1, ZenonT(30) DEF Backing, KnownItem, Known
    <3>3. H[v].id = ss[i].id /\ H[v].m = ss[i].obj.m
      BY <3>2
    <3> QED
      BY <2>1, <3>2, <3>3, ZenonT(30) DEF Backing, SliceOf
  <2> QED
    BY <2>3, <2>4, ZenonT(30) DEF vs
<1> QED
  BY <1>1, <1>2

synthVersions(sy) == [i \in DOMAIN sy |-> sy[i].versions]

\* The resourceVersions of the slices behind all the clusters.
LEMMA SynthVersionsFacts ==
  ASSUME NEW H, NEW p, NEW ls, NEW sy, Gathered(H, p, ls, sy)
  PROVE  /\ IsSeq(synthVersions(sy)) /\ DOMAIN synthVersions(sy) = DOMAIN sy
         /\ \A i \in DOMAIN sy : /\ synthVersions(sy)[i] = sy[i].versions /\ IsSeq(sy[i].versions)
                                 /\ \A v \in Range(sy[i].versions) : SliceOf(H, ls["Cluster"][i], v)
         /\ IsSeq(Concat(synthVersions(sy)))
         /\ \A v \in Range(Concat(synthVersions(sy))) : v \in DOMAIN H /\ H[v].id.kind = "EndpointSlice"
<1> DEFINE vs == synthVersions(sy)
<1>1. IsSeq(sy) /\ \A i \in DOMAIN sy : Contributed(H, ls["Cluster"][i], ls["ClusterLoadAssignment"], sy[i])
  BY ZenonT(30) DEF Gathered
<1>2. IsSeq(vs) /\ DOMAIN vs = DOMAIN sy /\ \A i \in DOMAIN sy : vs[i] = sy[i].versions
  BY <1>1, MapIsSeq, ZenonT(30) DEF synthVersions
<1> HIDE DEF vs
<1>3. \A i \in DOMAIN sy : /\ IsSeq(sy[i].versions)
                           /\ \A v \in Range(sy[i].versions) : SliceOf(H, ls["Cluster"][i], v)
  BY <1>1, ContributedVersions, ZenonT(30)
<1>4. \A i \in DOMAIN vs : IsSeq(vs[i])
  BY <1>2, <1>3
<1>5. IsSeq(Concat(vs)) /\ \A v \in Range(Concat(vs)) : \E i \in DOMAIN vs : v \in Range(vs[i])
  BY <1>2, <1>4, ConcatFacts, ZenonT(30)
<1>6. ASSUME NEW v \in Range(Concat(vs)) PROVE v \in DOMAIN H /\ H[v].id.kind = "EndpointSlice"
  <2>1. PICK i \in DOMAIN sy : v \in Range(sy[i].versions)
    BY <1>2, <1>5, ZenonT(30)
  <2>2. v \in DOMAIN H /\ H[v].id \in Slices
    BY <1>3, <2>1, ZenonT(30) DEF SliceOf
  <2> QED
    BY <2>2, KindFacts, ZenonT(30)
<1> QED
  BY <1>2, <1>3, <1>5, <1>6, ZenonT(30) DEF vs

\* The groups computeVersion is given, and which of them a kind is in.
groups(ls, sy) ==
  <<versionsOf(ls["Listener"]), versionsOf(ls["Cluster"]), versionsOf(ls["RouteConfiguration"]),
    versionsOf(ls["ScopedRouteConfiguration"]), versionsOf(ls["ClusterLoadAssignment"]),
    Concat(synthVersions(sy))>>

order(k) ==
  IF k = "Listener" THEN 1 ELSE IF k = "Cluster" THEN 2 ELSE IF k = "RouteConfiguration" THEN 3
  ELSE IF k = "ScopedRouteConfiguration" THEN 4 ELSE IF k = "ClusterLoadAssignment" THEN 5 ELSE 6

InGroup(H, q, i) == IsSeq(q) /\ \A v \in Range(q) : v \in DOMAIN H /\ order(H[v].id.kind) = i

Grouped(H, g) ==
  /\ IsSeq(g) /\ Len(g) = 6 /\ DOMAIN g = 1..6
  /\ \A i \in 1..6 : InGroup(H, g[i], i)

\* A resourceVersion shows in which group it is.
LEMMA GroupFacts ==
  ASSUME NEW H, NEW p, NEW ls, NEW sy, Gathered(H, p, ls, sy)
  PROVE  Grouped(H, groups(ls, sy))
<1> DEFINE a == versionsOf(ls["Listener"])
           b == versionsOf(ls["Cluster"])
           c == versionsOf(ls["RouteConfiguration"])
           d == versionsOf(ls["ScopedRouteConfiguration"])
           e == versionsOf(ls["ClusterLoadAssignment"])
           f == Concat(synthVersions(sy))
           g == <<a, b, c, d, e, f>>
<1>1. groups(ls, sy) = g
  BY DEF groups
<1>2. ASSUME NEW k \in XdsKinds PROVE InGroup(H, versionsOf(ls[k]), order(k))
  <2>1. Listed(H, p, k, ls[k])
    BY ZenonT(30) DEF Gathered
  <2> DEFINE items == ls[k]
  <2> HIDE DEF items
  <2>2. /\ IsSeq(versionsOf(items))
        /\ \A v \in Range(versionsOf(items)) : v \in DOMAIN H /\ H[v].id.kind = k
    <3>1. Listed(H, p, k, items)
      BY <2>1 DEF items
    <3> QED
      BY <3>1, ListedVersions
  <2> QED
    BY <2>2, ZenonT(30) DEF InGroup, items
<1>3. /\ order("Listener") = 1 /\ order("Cluster") = 2 /\ order("RouteConfiguration") = 3
      /\ order("ScopedRouteConfiguration") = 4 /\ order("ClusterLoadAssignment") = 5
      /\ order("EndpointSlice") = 6
  BY DEF order
<1>4. InGroup(H, f, 6)
  <2>1. IsSeq(f) /\ \A v \in Range(f) : v \in DOMAIN H /\ H[v].id.kind = "EndpointSlice"
    BY SynthVersionsFacts, ZenonT(30)
  <2> QED
    BY <1>3, <2>1, ZenonT(30) DEF InGroup
<1>5. InGroup(H, a, 1) /\ InGroup(H, b, 2) /\ InGroup(H, c, 3) /\ InGroup(H, d, 4) /\ InGroup(H, e, 5)
  BY <1>2, <1>3, ZenonT(30) DEF XdsKinds
<1> HIDE DEF a, b, c, d, e, f
<1>6. /\ g \in Seq({a, b, c, d, e, f}) /\ Len(g) = 6 /\ DOMAIN g = 1..6
      /\ g[1] = a /\ g[2] = b /\ g[3] = c /\ g[4] = d /\ g[5] = e /\ g[6] = f
  OBVIOUS
<1> HIDE DEF g
<1>7. IsSeq(g)
  BY <1>6, SeqOfRange, ZenonT(30) DEF IsSeq
<1>8. \A i \in 1..6 : i = 1 \/ i = 2 \/ i = 3 \/ i = 4 \/ i = 5 \/ i = 6
  OBVIOUS
<1>9. \A i \in 1..6 : InGroup(H, g[i], i)
  BY <1>4, <1>5, <1>6, <1>8, ZenonT(30)
<1> QED
  BY <1>1, <1>6, <1>7, <1>9, ZenonT(30) DEF Grouped

\* The groups can be read off the text that is hashed, if it is not ambiguous.
LEMMA GroupsTell ==
  ASSUME NEW H, IsHistory(H), NEW p, NEW ls, NEW sy, Gathered(H, p, ls, sy),
         NEW ks, NEW sz, Gathered(H, p, ks, sz), versionOf(ls, sy) = versionOf(ks, sz),
         ~ ambiguous(versionOf(ls, sy))
  PROVE  groups(ls, sy) = groups(ks, sz)
<1> DEFINE g == groups(ls, sy)
           h == groups(ks, sz)
           text(q) == Concat([i \in DOMAIN q |-> decimal[q[i]]])
<1>1. versionOf(ls, sy) = text(Concat(g)) /\ versionOf(ks, sz) = text(Concat(h))
  BY ZenonT(30) DEF versionOf, computeVersion, groups, synthVersions
<1>2. Grouped(H, g) /\ Grouped(H, h)
  BY GroupFacts, ZenonT(30)
<1> HIDE DEF g, h
<1>3. ASSUME NEW q, Grouped(H, q)
      PROVE  IsSeq(Concat(q)) /\ \A i \in DOMAIN Concat(q) : Concat(q)[i] \in resourceVersions /\ Concat(q)[i] \in Nat
  <2>1. IsSeq(q) /\ \A i \in DOMAIN q : IsSeq(q[i]) /\ \A v \in Range(q[i]) : v \in DOMAIN H
    BY <1>3, ZenonT(30) DEF Grouped, InGroup
  <2>2. IsSeq(Concat(q)) /\ \A v \in Range(Concat(q)) : \E i \in DOMAIN q : v \in Range(q[i])
    BY <2>1, ConcatFacts, ZenonT(30)
  <2>3. \A v \in Range(Concat(q)) : v \in DOMAIN H
    BY <2>1, <2>2, ZenonT(30)
  <2> QED
    BY <2>2, <2>3, ZenonT(30) DEF IsHistory, Range
<1>4. Concat(g) = Concat(h)
  <2> DEFINE gs == Concat(g)
             hs == Concat(h)
  <2>1. /\ IsSeq(gs) /\ \A i \in DOMAIN gs : gs[i] \in resourceVersions /\ gs[i] \in Nat
        /\ IsSeq(hs) /\ \A i \in DOMAIN hs : hs[i] \in resourceVersions /\ hs[i] \in Nat
    BY <1>2, <1>3, ZenonT(30)
  <2>2. text(gs) = versionOf(ls, sy) /\ text(hs) = versionOf(ls, sy)
    BY <1>1, ZenonT(30)
  <2> HIDE DEF gs, hs
  <2>3. gs \in readings(text(gs)) /\ hs \in readings(text(hs))
    BY <2>1, TextReads
  <2> HIDE DEF text
  <2>4. gs = hs
    BY <2>2, <2>3, ZenonT(30) DEF ambiguous
  <2> QED
    BY <2>4 DEF gs, hs
<1> DEFINE t == [v \in DOMAIN H |-> order(H[v].id.kind)]
<1>5. ASSUME NEW q, Grouped(H, q) PROVE Tagged(t, q)
  BY <1>5, ZenonT(30) DEF Grouped, InGroup, Tagged
<1> HIDE DEF t
<1>6. g = h
  <2>1. Len(g) = Len(h)
    BY <1>2 DEF Grouped
  <2> QED
    BY <1>2, <1>4, <1>5, <2>1, TagsSplit, ZenonT(30)
<1> QED
  BY <1>6 DEF g, h

\* No two of the clusters of a List refer to the same Service.
NoneShare(cl) == \A i, j \in DOMAIN cl : i # j => ~ shareService(cl[i], cl[j])

\* A slice is then of the Service of one cluster.
LEMMA OneCluster ==
  ASSUME NEW H, NEW cl, NoneShare(cl), NEW i \in DOMAIN cl, NEW j \in DOMAIN cl,
         NEW v, SliceOf(H, cl[i], v), SliceOf(H, cl[j], v)
  PROVE  i = j
<1>1. shareService(cl[i], cl[j])
  BY ZenonT(30) DEF SliceOf, serviceMatches, shareService
<1> QED
  BY <1>1, ZenonT(30) DEF NoneShare

\* What a cluster contributed can be read off its slices' resourceVersions.
LEMMA ContributionTells ==
  ASSUME NEW H, NEW c, NEW clas, NEW x, NEW y, Contributed(H, c, clas, x), Contributed(H, c, clas, y),
         x.versions = y.versions
  PROVE  x = y
<1>1. CASE ~ needsSynthesis(c, clas)
  BY <1>1, ZenonT(30) DEF Contributed
<1>2. CASE needsSynthesis(c, clas)
  <2>1. PICK ss : Backing(H, c, ss) /\ x = contribution(c, ss)
    BY <1>2, ZenonT(30) DEF Contributed
  <2>2. PICK tt : Backing(H, c, tt) /\ y = contribution(c, tt)
    BY <1>2, ZenonT(30) DEF Contributed
  <2>3. versionsOf(ss) = versionsOf(tt)
    <3>1. x.versions = versionsOf(ss) /\ y.versions = versionsOf(tt)
      BY <2>1, <2>2 DEF contribution
    <3> QED
      BY <3>1, ZenonT(30)
  <2>4. ss = tt
    <3>1. /\ IsSeq(ss) /\ \A i \in DOMAIN ss : KnownItem(H, ss[i])
          /\ IsSeq(tt) /\ \A i \in DOMAIN tt : KnownItem(H, tt[i])
      BY <2>1, <2>2, ZenonT(30) DEF Backing
    <3> QED
      BY <2>3, <3>1, VersionsTell
  <2> QED
    BY <2>1, <2>2, <2>4, ZenonT(30)
<1> QED
  BY <1>1, <1>2

\* Two reconciles of a proxy that compute the same version have collected the same,
\* if the version is not ambiguous and no two of the clusters share a Service.
LEMMA VersionTells ==
  ASSUME NEW H, IsHistory(H), NEW p \in Proxies,
         NEW ls, NEW sy, GatheredAll(H, p, ls, sy), NEW ks, NEW sz, GatheredAll(H, p, ks, sz),
         versionOf(ls, sy) = versionOf(ks, sz),
         ~ ambiguous(versionOf(ls, sy)), NoneShare(ls["Cluster"])
  PROVE  ls = ks /\ sy = sz
<1>0. Gathered(H, p, ls, sy) /\ Gathered(H, p, ks, sz)
  BY DEF GatheredAll
<1>1. groups(ls, sy) = groups(ks, sz)
  BY <1>0, GroupsTell
<1>2. /\ \A k \in XdsKinds : versionsOf(ls[k]) = versionsOf(ks[k])
      /\ Concat(synthVersions(sy)) = Concat(synthVersions(sz))
  <2>1. /\ groups(ls, sy)[1] = versionsOf(ls["Listener"])
        /\ groups(ls, sy)[2] = versionsOf(ls["Cluster"])
        /\ groups(ls, sy)[3] = versionsOf(ls["RouteConfiguration"])
        /\ groups(ls, sy)[4] = versionsOf(ls["ScopedRouteConfiguration"])
        /\ groups(ls, sy)[5] = versionsOf(ls["ClusterLoadAssignment"])
        /\ groups(ls, sy)[6] = Concat(synthVersions(sy))
    BY DEF groups
  <2>2. /\ groups(ks, sz)[1] = versionsOf(ks["Listener"])
        /\ groups(ks, sz)[2] = versionsOf(ks["Cluster"])
        /\ groups(ks, sz)[3] = versionsOf(ks["RouteConfiguration"])
        /\ groups(ks, sz)[4] = versionsOf(ks["ScopedRouteConfiguration"])
        /\ groups(ks, sz)[5] = versionsOf(ks["ClusterLoadAssignment"])
        /\ groups(ks, sz)[6] = Concat(synthVersions(sz))
    BY DEF groups
  <2> QED
    BY <1>1, <2>1, <2>2, ZenonT(30) DEF XdsKinds
<1>3. ls = ks
  <2>1. ASSUME NEW k \in XdsKinds PROVE ls[k] = ks[k]
    <3> DEFINE a == ls[k]
               b == ks[k]
    <3>1. Listed(H, p, k, a) /\ Listed(H, p, k, b)
      BY <1>0, ZenonT(30) DEF Gathered
    <3>2. versionsOf(a) = versionsOf(b)
      BY <1>2, ZenonT(30)
    <3> HIDE DEF a, b
    <3>3. /\ IsSeq(a) /\ \A i \in DOMAIN a : KnownItem(H, a[i])
          /\ IsSeq(b) /\ \A i \in DOMAIN b : KnownItem(H, b[i])
      BY <3>1, ZenonT(30) DEF Listed
    <3>4. a = b
      BY <3>2, <3>3, VersionsTell, ZenonT(30)
    <3> QED
      BY <3>4 DEF a, b
  <2>2. ls = [k \in XdsKinds |-> ls[k]] /\ ks = [k \in XdsKinds |-> ks[k]]
    BY <1>0, ZenonT(30) DEF Gathered
  <2>3. [k \in XdsKinds |-> ls[k]] = [k \in XdsKinds |-> ks[k]]
    BY <2>1
  <2> QED
    BY <2>2, <2>3, ZenonT(30)
<1> DEFINE cl == ls["Cluster"]
           clas == ls["ClusterLoadAssignment"]
           t == [v \in DOMAIN H |-> CHOOSE i \in DOMAIN cl : SliceOf(H, cl[i], v)]
<1>4. Listed(H, p, "Cluster", cl) /\ NoneShare(cl)
  BY <1>0, ZenonT(30) DEF Gathered, XdsKinds
<1>5. ASSUME NEW q, Gathered(H, p, ls, q), Len(q) = Len(cl)
      PROVE  /\ IsSeq(q) /\ DOMAIN q = 1..Len(cl) /\ DOMAIN q = DOMAIN cl
             /\ \A i \in DOMAIN q : Contributed(H, cl[i], clas, q[i])
             /\ Tagged(t, synthVersions(q)) /\ Len(synthVersions(q)) = Len(cl)
             /\ DOMAIN synthVersions(q) = DOMAIN q
             /\ \A i \in DOMAIN q : synthVersions(q)[i] = q[i].versions
  <2>1. IsSeq(q) /\ \A i \in DOMAIN q : Contributed(H, cl[i], clas, q[i])
    BY <1>5, ZenonT(30) DEF Gathered
  <2>2. DOMAIN q = 1..Len(cl) /\ DOMAIN cl = 1..Len(cl)
    <3>1. IsSeq(cl)
      BY <1>4, ZenonT(30) DEF Listed
    <3> HIDE DEF cl
    <3>2. DOMAIN cl = 1..Len(cl) /\ DOMAIN q = 1..Len(q)
      BY <2>1, <3>1, SameLength, ZenonT(30)
    <3> QED
      BY <1>5, <3>2, ZenonT(30)
  <2>3. /\ IsSeq(synthVersions(q)) /\ DOMAIN synthVersions(q) = DOMAIN q
        /\ \A i \in DOMAIN q : /\ synthVersions(q)[i] = q[i].versions /\ IsSeq(q[i].versions)
                               /\ \A v \in Range(q[i].versions) : SliceOf(H, cl[i], v)
    BY <1>5, SynthVersionsFacts
  <2> HIDE DEF cl, clas
  <2>4. ASSUME NEW i \in DOMAIN q, NEW v \in Range(q[i].versions) PROVE t[v] = i
    <3>1. i \in DOMAIN cl /\ v \in DOMAIN H /\ SliceOf(H, cl[i], v)
      BY <2>2, <2>3, ZenonT(30) DEF SliceOf
    <3>2. \A j \in DOMAIN cl : SliceOf(H, cl[j], v) => j = i
      BY <1>4, <3>1, OneCluster, ZenonT(30)
    <3> QED
      BY <3>1, <3>2, ZenonT(30)
  <2> HIDE DEF t
  <2>5. Tagged(t, synthVersions(q))
    BY <2>3, <2>4, ZenonT(30) DEF Tagged
  <2>6. Len(synthVersions(q)) = Len(cl)
    <3>1. Len(synthVersions(q)) = Len(q)
      BY <2>1, <2>3, SameLength, ZenonT(30)
    <3> QED
      BY <1>5, <3>1
  <2> QED
    BY <2>1, <2>2, <2>3, <2>5, <2>6, ZenonT(30)
<1>6. Gathered(H, p, ls, sy) /\ Len(sy) = Len(cl) /\ Gathered(H, p, ls, sz) /\ Len(sz) = Len(cl)
  BY <1>3, ZenonT(30) DEF GatheredAll
<1> HIDE DEF cl, clas, t
<1>7. synthVersions(sy) = synthVersions(sz)
  <2>1. /\ Tagged(t, synthVersions(sy)) /\ Tagged(t, synthVersions(sz))
        /\ Len(synthVersions(sy)) = Len(synthVersions(sz))
    BY <1>5, <1>6, ZenonT(30)
  <2> QED
    BY <1>2, <2>1, TagsSplit, ZenonT(30)
<1>8. ASSUME NEW i \in 1..Len(sy) PROVE sy[i] = sz[i]
  <2>1. i \in DOMAIN sy /\ i \in DOMAIN sz
    BY <1>5, <1>6, ZenonT(30)
  <2>2. sy[i].versions = sz[i].versions
    BY <1>5, <1>6, <1>7, <2>1, ZenonT(30)
  <2>3. Contributed(H, cl[i], clas, sy[i]) /\ Contributed(H, cl[i], clas, sz[i])
    BY <1>5, <1>6, <2>1, ZenonT(30)
  <2> QED
    BY <2>2, <2>3, ContributionTells, ZenonT(30)
<1>9. sy = sz
  <2>1. IsSeq(sy) /\ IsSeq(sz) /\ Len(sy) = Len(sz)
    BY <1>5, <1>6, ZenonT(30)
  <2> QED
    BY <1>8, <2>1, SameLists, ZenonT(30)
<1> QED
  BY <1>3, <1>9

\* A history of more writes.
Extends(G, H) == \A v \in DOMAIN H : v \in DOMAIN G /\ G[v] = H[v]

\* What was written stays written.
LEMMA KnownGrows ==
  ASSUME NEW G, NEW H, Extends(G, H)
  PROVE  /\ \A id, o : Known(H, id, o) => Known(G, id, o)
         /\ \A x : KnownItem(H, x) => KnownItem(G, x)
BY ZenonT(30) DEF Extends, Known, KnownItem

\* What was collected stays what was collected.
LEMMA GatheredGrows ==
  ASSUME NEW G, NEW H, Extends(G, H), NEW p, NEW ls, NEW sy, Gathered(H, p, ls, sy)
  PROVE  Gathered(G, p, ls, sy)
<1>1. \A k, items : Listed(H, p, k, items) => Listed(G, p, k, items)
  BY KnownGrows, ZenonT(30) DEF Listed
<1>2. \A c, ss : Backing(H, c, ss) => Backing(G, c, ss)
  BY KnownGrows, ZenonT(30) DEF Backing
<1>3. \A c, clas, x : Contributed(H, c, clas, x) => Contributed(G, c, clas, x)
  BY <1>2, ZenonT(30) DEF Contributed
<1> QED
  BY <1>1, <1>3, ZenonT(30) DEF Gathered

Written == Resources \cup Slices

StoreKnown(H, store) == \A i \in Written : store[i] # Nil => Known(H, i, store[i])

EventKnown(H, e) == e.id \in Written /\ e.new # Nil => Known(H, e.id, e.new)

WatchKnown(H) == \A k \in WatchedKinds : \A i \in DOMAIN watch[k] : EventKnown(H, watch[k][i])

Served(H) ==
  \A p \in Proxies : snapshots[nodeID(p)] # Nil =>
    \E ls, sy : GatheredAll(H, p, ls, sy) /\ snapshots[nodeID(p)] = snapshotOf(ls, sy)

\* H accounts for every object in the state.
Remembers(H) ==
  /\ IsHistory(H) /\ \A v \in DOMAIN H : v \in Revisions => v <= rev
  /\ StoreKnown(H, api) /\ StoreKnown(H, cache) /\ WatchKnown(H)
  /\ Gathered(H, req, lists, synth)
  /\ Served(H)

\* The invariant of the argument about versions.
VersionInv ==
  /\ OwnInv
  /\ pc \in {"listeners", "clusters", "routes", "scopedRoutes", "endpoints"} => synth = <<>>
  /\ \E H : Remembers(H)

\* A longer history accounts for the state as well.
LEMMA RemembersMore ==
  ASSUME NEW G, NEW H, Extends(G, H), Remembers(H)
  PROVE  /\ StoreKnown(G, api) /\ StoreKnown(G, cache) /\ WatchKnown(G)
         /\ Gathered(G, req, lists, synth) /\ Served(G)
<1>0. /\ StoreKnown(H, api) /\ StoreKnown(H, cache) /\ WatchKnown(H)
      /\ \A id, o : Known(H, id, o) => Known(G, id, o)
  BY KnownGrows, ZenonT(30) DEF Remembers
<1>1. StoreKnown(G, api) /\ StoreKnown(G, cache) /\ WatchKnown(G)
  <2>1. StoreKnown(G, api) /\ StoreKnown(G, cache)
    BY <1>0, ZenonT(30) DEF StoreKnown
  <2>2. WatchKnown(G)
    BY <1>0, ZenonT(30) DEF WatchKnown, EventKnown
  <2> QED
    BY <2>1, <2>2
<1>2. Gathered(G, req, lists, synth)
  BY GatheredGrows, ZenonT(30) DEF Remembers
<1>3. Served(G)
  <2> SUFFICES ASSUME NEW p \in Proxies, snapshots[nodeID(p)] # Nil
               PROVE  \E ls, sy : GatheredAll(G, p, ls, sy) /\ snapshots[nodeID(p)] = snapshotOf(ls, sy)
    BY ZenonT(30) DEF Served
  <2>1. PICK ls, sy : GatheredAll(H, p, ls, sy) /\ snapshots[nodeID(p)] = snapshotOf(ls, sy)
    BY ZenonT(30) DEF Remembers, Served
  <2>2. GatheredAll(G, p, ls, sy)
    BY <2>1, GatheredGrows, ZenonT(30) DEF GatheredAll
  <2> QED
    BY <2>1, <2>2, ZenonT(30)
<1> QED
  BY <1>1, <1>2, <1>3

\* A write of a known object.
LEMMA WriteKnown ==
  ASSUME TypeOK, NEW H, StoreKnown(H, api), WatchKnown(H), NEW id \in Ids, NEW obj,
         id \in Written /\ obj # Nil => Known(H, id, obj), write(id, obj)
  PROVE  StoreKnown(H, api') /\ WatchKnown(H)'
<1>1. \A i \in Written : api'[i] = IF i = id THEN obj ELSE api[i]
  BY DEF write, TypeOK, IsStore, Written, Ids
<1>2. StoreKnown(H, api')
  BY <1>1, ZenonT(30) DEF StoreKnown
<1> DEFINE e == [id |-> id, new |-> obj]
<1>3. EventKnown(H, e)
  <2>1. e.id = id /\ e.new = obj
    OBVIOUS
  <2> QED
    BY <2>1, ZenonT(30) DEF EventKnown
<1>4. ASSUME NEW k \in WatchedKinds PROVE \A j \in DOMAIN watch'[k] : EventKnown(H, watch'[k][j])
  <2>1. CASE k = id.kind
    <3>1. watch'[k] = Append(watch[k], e)
      BY <2>1 DEF write, TypeOK
    <3>2. IsSeq(watch[k]) /\ \A j \in DOMAIN watch[k] : EventKnown(H, watch[k][j])
      BY ZenonT(30) DEF TypeOK, WatchKnown
    <3> HIDE DEF e
    <3> QED
      BY <1>3, <3>1, <3>2, AppendFacts
  <2>2. CASE k # id.kind
    <3>1. watch'[k] = watch[k]
      BY <2>2 DEF write, TypeOK
    <3> QED
      BY <3>1, ZenonT(30) DEF WatchKnown
  <2> QED
    BY <2>1, <2>2
<1> QED
  BY <1>2, <1>4, ZenonT(30) DEF WatchKnown

\* A user's write enters its object into the history, under a resourceVersion that
\* was not given out before.
LEMMA VersionUser == VersionInv /\ User => \E G : Remembers(G)'
<1> SUFFICES ASSUME VersionInv, User, NEW H, Remembers(H) PROVE \E G : Remembers(G)'
  BY ZenonT(30) DEF VersionInv
<1> DEFINE v == Min({n \in Revisions : n > rev})
<1>0. TypeOK
  BY DEF VersionInv, OwnInv
<1>1. PICK id, obj : /\ id \in Ids /\ userWrite(id, obj)
                     /\ id \in Written /\ obj # Nil =>
                          obj.rv = v /\ obj.m \in Manifests[id] /\ obj = [rv |-> obj.rv, m |-> obj.m]
  <2>1. ASSUME NEW r \in Edited \ Proxies, NEW m \in Manifests[r], Apply(r, m)
        PROVE  LET o == [rv |-> v, m |-> m]
               IN  r \in Ids /\ userWrite(r, o) /\ o.rv = v /\ o.m \in Manifests[r] /\ o = [rv |-> o.rv, m |-> o.m]
    <3> HIDE DEF v
    <3>1. LET o == [rv |-> v, m |-> m] IN o.rv = v /\ o.m \in Manifests[r] /\ o = [rv |-> o.rv, m |-> o.m]
      OBVIOUS
    <3> QED
      BY <2>1, <3>1, BoundsAssumption, ZenonT(30) DEF Apply, v
  <2>2. \A p \in Proxies : p \in Ids /\ p \notin Written
    BY KindFacts, ZenonT(30) DEF Written, Ids
  <2> HIDE DEF v
  <2>3. CASE \E r \in Edited \ Proxies : \E m \in Manifests[r] : Apply(r, m)
    BY <2>1, <2>3, ZenonT(30)
  <2>4. CASE \E i \in Edited : Delete(i)
    BY <2>4, BoundsAssumption, ZenonT(30) DEF Delete
  <2>5. CASE \E p \in Edited \cap Proxies : CreateProxy(p) \/ TouchProxy(p)
    BY <2>2, <2>5, ZenonT(30) DEF CreateProxy, TouchProxy
  <2> QED
    BY <2>3, <2>4, <2>5, ZenonT(30) DEF User
<1>2. v \in Revisions /\ v \in Nat /\ v > rev /\ rev \in Nat /\ rev' = v
  <2> DEFINE T == {n \in Revisions : n > rev}
  <2>1. T # {} /\ T \subseteq Nat /\ rev \in Nat /\ rev' = v
    BY <1>0, <1>1, BoundsAssumption, ZenonT(30) DEF userWrite, TypeOK
  <2>2. \E x \in T : \A y \in T : x <= y
    BY <2>1, LeastNumber, ZenonT(30)
  <2>3. Min(T) \in T
    BY <2>2, ZenonT(30) DEF Min
  <2> QED
    BY <2>1, <2>3, ZenonT(30)
<1> HIDE DEF v
<1> DEFINE G == IF id \in Written /\ obj # Nil
                  THEN [n \in DOMAIN H \cup {v} |-> IF n = v THEN [id |-> id, m |-> obj.m] ELSE H[n]]
                  ELSE H
<1>3. v \notin DOMAIN H
  BY <1>2 DEF Remembers
<1>4. Extends(G, H)
  BY <1>3, ZenonT(30) DEF Extends
<1>5. /\ IsHistory(G) /\ \A n \in DOMAIN G : n \in Revisions => n <= rev'
      /\ id \in Written /\ obj # Nil => Known(G, id, obj)
  <2>1. IsHistory(H) /\ \A n \in DOMAIN H : n \in Revisions => n <= rev'
    <3>1. IsHistory(H) /\ \A n \in DOMAIN H : n \in Revisions => n <= rev
      BY ZenonT(30) DEF Remembers
    <3>2. \A n \in Revisions : n <= rev => n <= rev'
      BY <1>2, BoundsAssumption
    <3> QED
      BY <3>1, <3>2, ZenonT(30)
  <2>2. CASE id \in Written /\ obj # Nil
    <3> DEFINE w == [id |-> id, m |-> obj.m]
    <3>1. w.id = id /\ w.m = obj.m
      OBVIOUS
    <3>2. DOMAIN G = DOMAIN H \cup {v} /\ G[v] = w /\ \A n \in DOMAIN H : G[n] = H[n]
      BY <1>3, <2>2, ZenonT(30)
    <3>3. Known(G, id, obj)
      BY <1>1, <2>2, <3>2, ZenonT(30) DEF Known
    <3> HIDE DEF G, w
    <3>4. v \in resourceVersions /\ v <= rev'
      BY <1>2 DEF resourceVersions
    <3>5. IsHistory(G)
      BY <1>1, <1>2, <2>1, <2>2, <3>1, <3>2, <3>4, ZenonT(30) DEF IsHistory
    <3>6. \A n \in DOMAIN G : n \in Revisions => n <= rev'
      BY <2>1, <3>2, <3>4, ZenonT(30)
    <3> QED
      BY <3>3, <3>5, <3>6
  <2>3. CASE ~ (id \in Written /\ obj # Nil)
    BY <2>1, <2>3, ZenonT(30)
  <2> QED
    BY <2>2, <2>3
<1>6. PICK F : /\ Extends(F, H) /\ IsHistory(F) /\ \A n \in DOMAIN F : n \in Revisions => n <= rev'
               /\ id \in Written /\ obj # Nil => Known(F, id, obj)
  BY <1>4, <1>5, ZenonT(30)
<1> HIDE DEF G
<1>7. /\ StoreKnown(F, api) /\ StoreKnown(F, cache) /\ WatchKnown(F)
      /\ Gathered(F, req, lists, synth) /\ Served(F)
  BY <1>6, RemembersMore
<1>8. write(id, obj) /\ UNCHANGED <<cache, req, lists, synth, snapshots>>
  BY <1>1, ZenonT(30) DEF userWrite
<1>9. StoreKnown(F, api') /\ WatchKnown(F)'
  <2>1. id \in Ids
    BY <1>1
  <2> QED
    BY <1>0, <1>6, <1>7, <1>8, <2>1, WriteKnown
<1>10. StoreKnown(F, cache') /\ Gathered(F, req', lists', synth') /\ Served(F)'
  BY <1>7, <1>8, ZenonT(30) DEF Served
<1>11. Remembers(F)'
  BY <1>6, <1>9, <1>10, ZenonT(30) DEF Remembers
<1> QED
  BY <1>11

\* A watch event brings an object of the history into the cache.
LEMMA VersionDeliver ==
  ASSUME TypeOK, NEW H, Remembers(H), NEW k \in WatchedKinds, Deliver(k)
  PROVE  Remembers(H)'
<1> DEFINE e == Head(watch[k])
<1>1. IsSeq(watch[k]) /\ watch[k] # <<>> /\ \A j \in DOMAIN watch[k] : EventKnown(H, watch[k][j])
  BY ZenonT(30) DEF TypeOK, Deliver, Remembers, WatchKnown
<1>2. /\ IsSeq(Tail(watch[k])) /\ EventKnown(H, e) /\ e \in {watch[k][j] : j \in DOMAIN watch[k]}
      /\ \A j \in DOMAIN Tail(watch[k]) : EventKnown(H, Tail(watch[k])[j])
  BY <1>1, TailFacts
<1>3. e.id \in Ids
  BY <1>2, ZenonT(30) DEF TypeOK, IsEvent
<1>4. \A i \in Written : cache'[i] = IF i = e.id THEN e.new ELSE cache[i]
  <2>1. cache' = [cache EXCEPT ![e.id] = e.new] /\ DOMAIN cache = Ids
    BY ZenonT(30) DEF Deliver, TypeOK, IsStore
  <2>2. Written \subseteq Ids
    BY ZenonT(30) DEF Written, Ids
  <2> QED
    BY <2>1, <2>2, ZenonT(30)
<1> HIDE DEF e
<1>5. StoreKnown(H, cache')
  BY <1>2, <1>4, ZenonT(30) DEF Remembers, StoreKnown, EventKnown
<1>6. \A j \in WatchedKinds : watch'[j] = IF j = k THEN Tail(watch[k]) ELSE watch[j]
  BY ZenonT(30) DEF Deliver, TypeOK
<1>7. WatchKnown(H)'
  BY <1>2, <1>6, ZenonT(30) DEF Remembers, WatchKnown
<1>8. UNCHANGED <<api, rev, req, lists, synth, snapshots>>
  BY ZenonT(30) DEF Deliver, workVars
<1> QED
  BY <1>5, <1>7, <1>8, ZenonT(30) DEF Remembers, Served

\* A List lists every object once.
LEMMA ListingOnce ==
  ASSUME NEW S, IsFiniteSet(S), NEW f \in Listings(S), NEW i \in DOMAIN f, NEW j \in DOMAIN f, f[i] = f[j]
  PROVE  i = j
<1> DEFINE n == Cardinality(S)
<1>1. n \in Nat
  BY FS_CardinalityType
<1>2. f \in Surjection(1..n, S)
  BY DEF Listings
<1> HIDE DEF n
<1>3. IsFiniteSet(1..n) /\ Cardinality(1..n) = n
  BY <1>1, FS_Interval
<1>4. f \in Injection(1..n, S)
  BY <1>2, <1>3, FS_SurjSameCardinalityImpliesInj DEF n
<1> QED
  BY <1>4, ZenonT(30) DEF Injection, IsInjective

\* The five collect functions list objects of the history.
LEMMA VersionCollect ==
  ASSUME TypeOK, NEW H, Remembers(H), NEW from \in Steps \ {"idle"}, NEW to, NEW kind \in XdsKinds,
         collect(from, kind, to), synth = <<>>
  PROVE  Remembers(H)'
<1>1. PICK items \in Listings(collected(cache, req, kind)) : lists' = [lists EXCEPT ![kind] = items]
  BY ZenonT(30) DEF collect
<1>2. IsSeq(items) /\ \A i \in DOMAIN items : items[i] \in collected(cache, req, kind)
  BY FiniteCollected, ListingFacts, ZenonT(30)
<1>3. req \in Proxies
  BY DEF TypeOK, collect
<1>4. ASSUME NEW x \in collected(cache, req, kind)
      PROVE  /\ KnownItem(H, x) /\ IsItem(x, kind) /\ req \in mapXDSResourceToProxy(x.id, x.obj)
             /\ x = [id |-> x.id, obj |-> cache[x.id]]
  <2>1. PICK r \in Resources : /\ x = [id |-> r, obj |-> cache[r]] /\ r.kind = kind /\ cache[r] # Nil
                               /\ targetMatches(cache[r].m.targetRef, r.ns, req)
    BY ZenonT(30) DEF collected
  <2>2. x.id = r /\ x.obj = cache[r]
    BY <2>1
  <2>3. Known(H, r, cache[r])
    BY <2>1, ZenonT(30) DEF Remembers, StoreKnown, Written
  <2>4. cache[r] \in Versions(r)
    BY <2>1, KindFacts, ZenonT(30) DEF TypeOK, IsStore, IsObject, Ids
  <2>5. req \in mapXDSResourceToProxy(x.id, x.obj)
    BY <1>3, <2>1, <2>2, MapAgreesWithTarget, ZenonT(30)
  <2> QED
    BY <2>1, <2>2, <2>3, <2>4, <2>5, ZenonT(30) DEF KnownItem, IsItem
<1>5. Listed(H, req, kind, items)
  <2>1. ASSUME NEW i \in DOMAIN items, NEW j \in DOMAIN items, items[i].id = items[j].id PROVE i = j
    <3>1. items[i] = items[j]
      BY <1>2, <1>4, <2>1, ZenonT(30)
    <3> QED
      BY <1>1, <3>1, FiniteCollected, ListingOnce, ZenonT(30)
  <2> QED
    BY <1>2, <1>4, <2>1, ZenonT(30) DEF Listed
<1>6. \A k \in XdsKinds : lists'[k] = IF k = kind THEN items ELSE lists[k]
  BY <1>1 DEF TypeOK
<1>7. lists' = [k \in XdsKinds |-> lists'[k]]
  BY <1>1 DEF TypeOK
<1>8. UNCHANGED <<api, rev, watch, cache, req, synth, snapshots>>
  BY ZenonT(30) DEF collect, apiVars
<1>9. Gathered(H, req, lists', synth)
  <2>1. \A k \in XdsKinds : Listed(H, req, k, lists'[k])
    BY <1>5, <1>6, ZenonT(30) DEF Remembers, Gathered
  <2>2. Len(synth) <= Len(lists'["Cluster"])
    <3>1. IsSeq(lists'["Cluster"])
      BY <2>1, ZenonT(30) DEF Listed, XdsKinds
    <3>2. Len(lists'["Cluster"]) \in Nat
      BY <3>1, AppendFacts, ZenonT(30)
    <3> QED
      BY <3>2
  <2>3. DOMAIN synth = {} /\ IsSeq(synth)
    BY EmptyFacts, ZenonT(30)
  <2> QED
    BY <1>7, <2>1, <2>2, <2>3, ZenonT(30) DEF Gathered
<1> QED
  BY <1>8, <1>9, ZenonT(30) DEF Remembers, WatchKnown, Served

\* One turn of collectEndpoints' loop lists slices of the history.
LEMMA ContributionKnown ==
  ASSUME TypeOK, NEW H, StoreKnown(H, cache), NEW c, NEW clas, NEW x \in contributions(cache, c, clas)
  PROVE  Contributed(H, c, clas, x)
<1>1. CASE ~ needsSynthesis(c, clas)
  BY <1>1, ZenonT(30) DEF contributions, Contributed
<1>2. CASE needsSynthesis(c, clas)
  <2>1. PICK ss \in Listings(serviceSlices(cache, c)) : x = contribution(c, ss)
    BY <1>2, ZenonT(30) DEF contributions, contribution
  <2>2. IsSeq(ss) /\ \A i \in DOMAIN ss : ss[i] \in serviceSlices(cache, c)
    BY <2>1, FiniteSlices, ListingFacts, ZenonT(30)
  <2>3. ASSUME NEW y \in serviceSlices(cache, c)
        PROVE  /\ KnownItem(H, y) /\ y.id \in Slices
               /\ serviceMatches(c.obj.m.ref, c.id.ns, y.obj.m.service, y.id.ns)
    <3>1. PICK s \in Slices : /\ y = [id |-> s, obj |-> cache[s]] /\ cache[s] # Nil
                              /\ serviceMatches(c.obj.m.ref, c.id.ns, cache[s].m.service, s.ns)
      BY ZenonT(30) DEF serviceSlices
    <3>2. y.id = s /\ y.obj = cache[s]
      BY <3>1
    <3> QED
      BY <3>1, <3>2, ZenonT(30) DEF KnownItem, StoreKnown, Written
  <2>4. Backing(H, c, ss)
    BY <2>2, <2>3, ZenonT(30) DEF Backing
  <2> QED
    BY <1>2, <2>1, <2>4, ZenonT(30) DEF Contributed
<1> QED
  BY <1>1, <1>2

\* The loop over the clusters.
LEMMA VersionSynthesize ==
  ASSUME TypeOK, NEW H, Remembers(H), synthesize
  PROVE  Remembers(H)'
<1> DEFINE n == Len(synth) + 1
           cl == lists["Cluster"]
           clas == lists["ClusterLoadAssignment"]
<1>1. PICK x \in contributions(cache, cl[n], clas) : synth' = Append(synth, x)
  BY ZenonT(30) DEF synthesize
<1>2. Contributed(H, cl[n], clas, x)
  BY <1>1, ContributionKnown, ZenonT(30) DEF Remembers
<1>3. /\ IsSeq(synth) /\ \A i \in DOMAIN synth : Contributed(H, cl[i], clas, synth[i])
      /\ IsSeq(cl)
  BY ZenonT(30) DEF Remembers, Gathered, TypeOK, XdsKinds
<1>4. /\ IsSeq(synth') /\ DOMAIN synth' = 1..n /\ DOMAIN synth = 1..Len(synth) /\ Len(synth) \in Nat
      /\ \A i \in 1..Len(synth) : synth'[i] = synth[i]
      /\ synth'[n] = x
  <2>1. IsSeq(synth)
    BY <1>3
  <2> QED
    BY <1>1, <2>1, AppendFacts
<1>5. \A i \in DOMAIN synth' : i \in DOMAIN synth \/ i = n
  BY <1>4
<1>6. Len(synth') <= Len(cl)
  <2>1. Len(cl) \in Nat /\ Len(synth') \in Nat /\ DOMAIN synth' = 1..Len(synth')
    BY <1>3, <1>4, AppendFacts, ZenonT(30)
  <2>2. Len(synth) < Len(cl)
    BY ZenonT(30) DEF synthesize
  <2> HIDE DEF cl
  <2>3. Len(synth') \in 1..n \/ Len(synth') = 0
    <3>1. Len(synth') # 0 => Len(synth') \in 1..Len(synth')
      BY <2>1
    <3> QED
      BY <1>4, <2>1, <3>1, ZenonT(30)
  <2> QED
    BY <1>4, <2>1, <2>2, <2>3
<1>7. \A i \in DOMAIN synth' : Contributed(H, cl[i], clas, synth'[i])
  <2> HIDE DEF n, cl, clas
  <2> QED
    BY <1>2, <1>3, <1>4, <1>5, ZenonT(30)
<1>8. UNCHANGED <<api, rev, watch, cache, req, lists, snapshots>>
  BY ZenonT(30) DEF synthesize, apiVars
<1>9. Gathered(H, req, lists, synth')
  BY <1>4, <1>6, <1>7, ZenonT(30) DEF Remembers, Gathered
<1> QED
  BY <1>8, <1>9, ZenonT(30) DEF Remembers, WatchKnown, Served

\* SetSnapshot serves what was collected.
LEMMA VersionSetSnapshot ==
  ASSUME TypeOK, NEW H, Remembers(H), SetSnapshot
  PROVE  /\ Remembers(H)' /\ req \in Proxies /\ GatheredAll(H, req, lists, synth)
         /\ \A n \in NodeIDs : snapshots'[n] = IF n = nodeID(req) THEN snapshotOf(lists, synth) ELSE snapshots[n]
<1>1. req \in Proxies
  BY DEF TypeOK, SetSnapshot, collectedAll
<1>2. GatheredAll(H, req, lists, synth)
  BY ZenonT(30) DEF Remembers, GatheredAll, SetSnapshot, collectedAll
<1>3. \A n \in NodeIDs : snapshots'[n] = IF n = nodeID(req) THEN snapshotOf(lists, synth) ELSE snapshots[n]
  BY DEF TypeOK, SetSnapshot
<1>4. Served(H)'
  <2> SUFFICES ASSUME NEW p \in Proxies, snapshots'[nodeID(p)] # Nil
               PROVE  \E ls, sy : GatheredAll(H, p, ls, sy) /\ snapshots'[nodeID(p)] = snapshotOf(ls, sy)
    BY ZenonT(30) DEF Served
  <2>1. nodeID(p) \in NodeIDs
    BY ZenonT(30) DEF NodeIDs
  <2>2. CASE nodeID(p) = nodeID(req)
    <3>1. p = req
      BY <1>1, <2>2, NodeIDInjective, ZenonT(30)
    <3> QED
      BY <1>2, <1>3, <2>1, <2>2, <3>1, ZenonT(30)
  <2>3. CASE nodeID(p) # nodeID(req)
    BY <1>3, <2>1, <2>3, ZenonT(30) DEF Remembers, Served
  <2> QED
    BY <2>2, <2>3
<1>5. UNCHANGED <<api, rev, watch, cache, req, lists, synth>>
  BY ZenonT(30) DEF SetSnapshot, apiVars, workVars
<1>6. Remembers(H)'
  BY <1>4, <1>5, ZenonT(30) DEF Remembers, WatchKnown
<1> QED
  BY <1>1, <1>2, <1>3, <1>6

\* Nothing read, nothing to account for.
LEMMA NothingGathered ==
  ASSUME NEW H, NEW p
  PROVE  Gathered(H, p, NoLists, <<>>)
<1>1. NoLists = [k \in XdsKinds |-> NoLists[k]] /\ \A k \in XdsKinds : NoLists[k] = <<>>
  BY DEF NoLists
<1>2. \A k \in XdsKinds : Listed(H, p, k, NoLists[k])
  BY <1>1, EmptyFacts, ZenonT(30) DEF Listed
<1>3. Len(<<>>) <= Len(NoLists["Cluster"])
  BY <1>1 DEF XdsKinds
<1> QED
  BY <1>1, <1>2, <1>3, EmptyFacts, ZenonT(30) DEF Gathered

\* A step that delivers and serves nothing, with or without a status written.
LEMMA VersionFrame ==
  ASSUME TypeOK, NEW H, Remembers(H), UNCHANGED <<rev, cache, snapshots>>,
         UNCHANGED <<api, watch>> \/ \E p \in Proxies : \E obj : write(p, obj),
         UNCHANGED <<req, lists, synth>> \/ (lists' = NoLists /\ synth' = <<>>)
  PROVE  Remembers(H)'
<1>1. StoreKnown(H, api') /\ WatchKnown(H)'
  <2>1. CASE UNCHANGED <<api, watch>>
    BY <2>1, ZenonT(30) DEF Remembers, WatchKnown
  <2>2. CASE \E p \in Proxies : \E obj : write(p, obj)
    <3>1. PICK p, obj : p \in Proxies /\ write(p, obj)
      BY <2>2
    <3>2. p \in Ids /\ p \notin Written
      BY <3>1, KindFacts, ZenonT(30) DEF Written, Ids
    <3> QED
      BY <3>1, <3>2, WriteKnown DEF Remembers
  <2> QED
    BY <2>1, <2>2
<1>2. Gathered(H, req', lists', synth')
  BY NothingGathered, ZenonT(30) DEF Remembers
<1> QED
  BY <1>1, <1>2, ZenonT(30) DEF Remembers, Served

\* A restart keeps what the API server holds, and nothing else.
LEMMA VersionRestart ==
  ASSUME NEW H, Remembers(H), Restart
  PROVE  Remembers(H)'
<1>1. /\ lists' = NoLists /\ synth' = <<>> /\ snapshots' = [n \in NodeIDs |-> Nil]
      /\ UNCHANGED <<api, rev>> /\ cache' = api /\ watch' = [k \in WatchedKinds |-> <<>>]
  BY ZenonT(30) DEF Restart, forget
<1>2. Served(H)'
  <2>1. \A p \in Proxies : snapshots'[nodeID(p)] = Nil
    BY <1>1, ZenonT(30) DEF NodeIDs
  <2> QED
    BY <2>1, ZenonT(30) DEF Served
<1>3. WatchKnown(H)'
  <2>1. \A k \in WatchedKinds : DOMAIN watch'[k] = {}
    BY <1>1, EmptyFacts, ZenonT(30)
  <2> QED
    BY <2>1, ZenonT(30) DEF WatchKnown
<1>4. Gathered(H, req', lists', synth')
  BY <1>1, NothingGathered, ZenonT(30)
<1> QED
  BY <1>1, <1>2, <1>3, <1>4, ZenonT(30) DEF Remembers

\* Every step keeps the state accounted for.
LEMMA VersionNext == VersionInv /\ [Next]_vars => VersionInv'
<1> SUFFICES ASSUME VersionInv, [Next]_vars PROVE VersionInv'
  OBVIOUS
<1> DEFINE Collecting == {"listeners", "clusters", "routes", "scopedRoutes", "endpoints"}
<1>0. OwnInv /\ TypeOK /\ ReadsOwn /\ (pc \in Collecting => synth = <<>>)
  BY ZenonT(30) DEF VersionInv, OwnInv
<1>1. OwnInv'
  BY <1>0, OwnNext, ZenonT(30)
<1>2. PICK H : Remembers(H)
  BY ZenonT(30) DEF VersionInv
<1> SUFFICES (pc' \in Collecting => synth' = <<>>) /\ \E G : Remembers(G)'
  BY <1>1, ZenonT(30) DEF VersionInv
<1>3. CASE User
  <2>1. \E id, o : userWrite(id, o)
    BY <1>3, ZenonT(30) DEF User, Apply, Delete, CreateProxy, TouchProxy
  <2>2. UNCHANGED <<synth, pc>>
    BY <2>1, ZenonT(30) DEF userWrite
  <2> QED
    BY <1>0, <1>3, <2>2, VersionUser, ZenonT(30)
<1>4. CASE \E k \in WatchedKinds : Deliver(k)
  <2>1. UNCHANGED <<synth, pc>>
    BY <1>4, ZenonT(30) DEF Deliver, workVars
  <2>2. Remembers(H)'
    BY <1>0, <1>2, <1>4, VersionDeliver, ZenonT(30)
  <2> QED
    BY <1>0, <2>1, <2>2, ZenonT(30)
<1>5. CASE \/ \E n \in Streaming : StreamChange(n)
           \/ (\E k \in WatchedKinds : Handle(k)) \/ DropSliceEvent
           \/ \E p \in Proxies : RetryAfterBackoff(p)
           \/ UNCHANGED vars
  <2>1. UNCHANGED <<api, rev, watch, cache, req, lists, synth, snapshots, pc>>
    BY <1>5, ZenonT(30) DEF StreamChange, Handle, DropSliceEvent, RetryAfterBackoff, vars, workVars, apiVars
  <2>2. Remembers(H)'
    BY <1>0, <1>2, <2>1, VersionFrame, ZenonT(30)
  <2> QED
    BY <1>0, <2>1, <2>2, ZenonT(30)
<1>6. CASE (\E p \in Proxies : Dequeue(p)) \/ (Get /\ cache[req] # Nil)
  <2>1. pc \in {"idle", "get"} /\ UNCHANGED <<api, rev, watch, cache, lists, synth, snapshots>>
    BY <1>6, ZenonT(30) DEF Dequeue, Get, workVars, apiVars
  <2>2. lists = NoLists /\ synth = <<>>
    BY <1>0, <2>1, ZenonT(30) DEF ReadsOwn
  <2>3. Remembers(H)'
    BY <1>0, <1>2, <2>1, <2>2, VersionFrame, ZenonT(30)
  <2> QED
    BY <2>1, <2>2, <2>3, ZenonT(30)
<1>7. CASE (Get /\ cache[req] = Nil) \/ setReady \/ setFailed \/ ReadFails
  <2>1. lists' = NoLists /\ synth' = <<>> /\ UNCHANGED <<rev, cache, snapshots>>
    BY <1>7, ZenonT(30) DEF Get, setReady, setFailed, ReadFails, returnNil, returnError, forget, apiVars
  <2>2. UNCHANGED <<api, watch>> \/ \E p \in Proxies : \E obj : write(p, obj)
    <3>1. CASE setReady \/ setFailed
      <4>1. req \in Proxies
        BY <1>0, <3>1 DEF TypeOK, setReady, setFailed
      <4> QED
        BY <3>1, <4>1, ZenonT(30) DEF setReady, setFailed, setCondition, accepted, refused
    <3>2. CASE Get \/ ReadFails
      BY <3>2, ZenonT(30) DEF Get, ReadFails, apiVars
    <3> QED
      BY <1>7, <3>1, <3>2
  <2>3. Remembers(H)'
    BY <1>0, <1>2, <2>1, <2>2, VersionFrame, ZenonT(30)
  <2> QED
    BY <2>1, <2>3, ZenonT(30)
<1>8. ASSUME NEW from \in Collecting, NEW to, NEW k \in XdsKinds, collect(from, k, to)
      PROVE  (pc' \in Collecting => synth' = <<>>) /\ \E G : Remembers(G)'
  <2>1. synth = <<>> /\ synth' = synth
    BY <1>0, <1>8, ZenonT(30) DEF collect
  <2>2. from \in Steps \ {"idle"}
    BY DEF Steps
  <2>3. Remembers(H)'
    BY <1>0, <1>2, <1>8, <2>1, <2>2, VersionCollect
  <2> QED
    BY <2>1, <2>3, ZenonT(30)
<1>9. CASE \/ collectListeners \/ collectClusters \/ collectRoutes \/ collectScopedRoutes
           \/ collectManual
  BY <1>8, <1>9, ZenonT(30) DEF collectListeners, collectClusters, collectRoutes,
     collectScopedRoutes, collectManual, XdsKinds
<1>10. CASE synthesize
  <2>1. pc' \notin Collecting
    BY <1>10 DEF synthesize
  <2> QED
    BY <1>0, <1>2, <1>10, <2>1, VersionSynthesize, ZenonT(30)
<1>11. CASE SetSnapshot
  <2>1. pc' \notin Collecting
    BY <1>11 DEF SetSnapshot
  <2> QED
    BY <1>0, <1>2, <1>11, <2>1, VersionSetSnapshot, ZenonT(30)
<1>12. CASE BuildFails \/ IsConnected \/ setConnected
  <2>1. UNCHANGED <<rev, cache, req, lists, synth, snapshots>> /\ pc' \notin Collecting
    BY <1>12, ZenonT(30) DEF BuildFails, IsConnected, setConnected, workVars, apiVars
  <2>2. UNCHANGED <<api, watch>> \/ \E p \in Proxies : \E obj : write(p, obj)
    <3>1. CASE setConnected
      <4>1. req \in Proxies
        BY <1>0, <3>1 DEF TypeOK, setConnected
      <4> QED
        BY <3>1, <4>1, ZenonT(30) DEF setConnected, accepted, refused
    <3>2. CASE BuildFails \/ IsConnected
      BY <3>2, ZenonT(30) DEF BuildFails, IsConnected, apiVars
    <3> QED
      BY <1>12, <3>1, <3>2
  <2>3. Remembers(H)'
    BY <1>0, <1>2, <2>1, <2>2, VersionFrame, ZenonT(30)
  <2> QED
    BY <2>1, <2>3, ZenonT(30)
<1>13. CASE Restart
  <2>1. synth' = <<>>
    BY <1>13, ZenonT(30) DEF Restart, forget
  <2> QED
    BY <1>2, <1>13, <2>1, VersionRestart, ZenonT(30)
<1> HIDE DEF Collecting
<1> QED
  BY <1>3, <1>4, <1>5, <1>6, <1>7, <1>9, <1>10, <1>11, <1>12, <1>13, ZenonT(30)
  DEF Next, Informer, Reconcile

\* Initially the history is what the API server holds.
LEMMA VersionInit ==
  ASSUME FreshRevisions, Init
  PROVE  VersionInv
<1>1. OwnInv /\ TypeOK
  BY OwnInit, ZenonT(30) DEF OwnInv
<1>2. /\ api \in InitialStores /\ cache = api /\ watch = [k \in WatchedKinds |-> <<>>] /\ pc = "idle"
      /\ lists = NoLists /\ synth = <<>> /\ snapshots = [n \in NodeIDs |-> Nil]
  BY ZenonT(30) DEF Init
<1> DEFINE I == {i \in Written : api[i] # Nil}
           at(v) == CHOOSE i \in I : api[i].rv = v
           H == [v \in {api[i].rv : i \in I} |-> [id |-> at(v), m |-> api[at(v)].m]]
<1>3. ASSUME NEW i \in I
      PROVE  /\ api[i].rv \in Nat /\ api[i].m \in Manifests[i]
             /\ api[i] = [rv |-> api[i].rv, m |-> api[i].m]
             /\ api[i].rv \in resourceVersions /\ api[i].rv \notin Revisions
             /\ at(api[i].rv) = i
  <2>1. i \in Written /\ api[i] # Nil
    OBVIOUS
  <2>2. api[i] \in Versions(i)
    BY <1>1, <2>1, KindFacts, ZenonT(30) DEF TypeOK, IsStore, IsObject, Ids, Written
  <2>3. api[i].rv \in Nat /\ api[i].m \in Manifests[i] /\ api[i] = [rv |-> api[i].rv, m |-> api[i].m]
    BY <2>2 DEF Versions
  <2>4. api[i].rv \in resourceVersions
    <3> DEFINE rvs(store) == {store[j].rv : j \in {j \in Resources \cup Slices : store[j] # Nil}}
    <3>1. api[i].rv \in rvs(api)
      BY <2>1, ZenonT(30) DEF Written
    <3>2. resourceVersions = Revisions \cup UNION {rvs(store) : store \in InitialStores}
      BY DEF resourceVersions
    <3> HIDE DEF rvs
    <3> QED
      BY <1>2, <3>1, <3>2, ZenonT(30)
  <2>5. api[i].rv \notin Revisions /\ \A j \in I : api[i].rv = api[j].rv => i = j
    BY <1>2, <2>1, ZenonT(30) DEF FreshRevisions, Written
  <2>6. at(api[i].rv) = i
    BY <2>5, ZenonT(30)
  <2> QED
    BY <2>3, <2>4, <2>5, <2>6, ZenonT(30)
<1> HIDE DEF at
<1>4. \A v \in DOMAIN H : \E i \in I : v = api[i].rv
  BY ZenonT(30)
<1>5. \A i \in I : api[i].rv \in DOMAIN H /\ H[api[i].rv] = [id |-> i, m |-> api[i].m]
  BY <1>3, ZenonT(30)
<1> HIDE DEF H
<1>6. StoreKnown(H, api)
  BY <1>3, <1>5, ZenonT(30) DEF StoreKnown, Known
<1>7. IsHistory(H) /\ \A v \in DOMAIN H : v \in Revisions => v <= rev
  <2>1. ASSUME NEW v \in DOMAIN H
        PROVE  v \in resourceVersions /\ v \in Nat /\ H[v].m \in Manifests[H[v].id] /\ v \notin Revisions
    <3>1. PICK i \in I : v = api[i].rv
      BY <1>4
    <3>2. H[v] = [id |-> i, m |-> api[i].m]
      BY <1>5, <3>1, ZenonT(30)
    <3>3. H[v].id = i /\ H[v].m = api[i].m
      BY <3>2
    <3> QED
      BY <1>3, <3>1, <3>3, ZenonT(30)
  <2> QED
    BY <2>1, ZenonT(30) DEF IsHistory
<1>8. Served(H)
  <2>1. \A p \in Proxies : snapshots[nodeID(p)] = Nil
    BY <1>2, ZenonT(30) DEF NodeIDs
  <2> QED
    BY <2>1, ZenonT(30) DEF Served
<1>9. WatchKnown(H)
  <2>1. \A k \in WatchedKinds : DOMAIN watch[k] = {}
    BY <1>2, EmptyFacts, ZenonT(30)
  <2> QED
    BY <2>1, ZenonT(30) DEF WatchKnown
<1>10. Gathered(H, req, lists, synth)
  BY <1>2, NothingGathered, ZenonT(30)
<1>11. Remembers(H)
  BY <1>2, <1>6, <1>7, <1>8, <1>9, <1>10, ZenonT(30) DEF Remembers
<1> QED
  BY <1>1, <1>2, <1>11, ZenonT(30) DEF VersionInv

\* SetSnapshot replaces a snapshot by another of the same version only if the two
\* are the same, the version is ambiguous or two of the clusters share a Service.
LEMMA VersionStep ==
  ASSUME VersionInv, [Next]_vars, NEW n \in NodeIDs,
         snapshots[n] # Nil, snapshots'[n] # Nil, snapshots'[n].version = snapshots[n].version,
         ~ ambiguous(snapshots[n].version), NoneShare(lists["Cluster"])
  PROVE  snapshots'[n].resources = snapshots[n].resources
<1>0. TypeOK
  BY DEF VersionInv, OwnInv
<1>1. PICK H : Remembers(H)
  BY ZenonT(30) DEF VersionInv
<1>2. CASE SetSnapshot
  <2>1. /\ req \in Proxies /\ GatheredAll(H, req, lists, synth)
        /\ snapshots'[n] = IF n = nodeID(req) THEN snapshotOf(lists, synth) ELSE snapshots[n]
    BY <1>0, <1>1, <1>2, VersionSetSnapshot, ZenonT(30)
  <2>2. CASE n = nodeID(req)
    <3>1. PICK ls, sy : GatheredAll(H, req, ls, sy) /\ snapshots[n] = snapshotOf(ls, sy)
      BY <1>1, <2>1, <2>2, ZenonT(30) DEF Remembers, Served
    <3>2. \A ks, sz : snapshotOf(ks, sz).version = versionOf(ks, sz)
      BY DEF snapshotOf, BuildSnapshot
    <3>3. versionOf(lists, synth) = versionOf(ls, sy) /\ versionOf(ls, sy) = snapshots[n].version
      BY <2>1, <2>2, <3>1, <3>2, ZenonT(30)
    <3>4. lists = ls /\ synth = sy
      <4>1. IsHistory(H)
        BY <1>1, ZenonT(30) DEF Remembers
      <4> QED
        BY <2>1, <3>1, <3>3, <4>1, VersionTells
    <3> QED
      BY <2>1, <2>2, <3>1, <3>4, ZenonT(30)
  <2>3. CASE n # nodeID(req)
    BY <2>1, <2>3, ZenonT(30)
  <2> QED
    BY <2>2, <2>3
<1>3. CASE Restart
  <2>1. snapshots'[n] = Nil
    BY <1>3, ZenonT(30) DEF Restart
  <2> QED
    BY <2>1
<1>4. CASE ~ SetSnapshot /\ ~ Restart
  <2>1. ASSUME User PROVE UNCHANGED snapshots
    <3>1. \E id, o : userWrite(id, o)
      BY <2>1, ZenonT(30) DEF User, Apply, Delete, CreateProxy, TouchProxy
    <3> QED
      BY <3>1, ZenonT(30) DEF userWrite
  <2>2. ASSUME \/ \E k \in Streaming : StreamChange(k)
               \/ Informer \/ DropSliceEvent \/ ReadFails
               \/ \E p \in Proxies : Dequeue(p) \/ RetryAfterBackoff(p)
        PROVE  UNCHANGED snapshots
    BY <2>2, ZenonT(30) DEF StreamChange, Informer, Deliver, Handle, DropSliceEvent, ReadFails,
       Dequeue, RetryAfterBackoff
  <2>3. ASSUME Reconcile PROVE UNCHANGED snapshots
    BY <1>4, <2>3, ZenonT(30) DEF Reconcile, Get, collectListeners, collectClusters, collectRoutes,
       collectScopedRoutes, collectManual, collect, synthesize, BuildFails, IsConnected, setConnected,
       setReady, setFailed
  <2>4. ASSUME UNCHANGED vars PROVE UNCHANGED snapshots
    BY <2>4, ZenonT(30) DEF vars
  <2>5. UNCHANGED snapshots
    BY <1>4, <2>1, <2>2, <2>3, <2>4, ZenonT(30) DEF Next
  <2> QED
    BY <2>5, ZenonT(30)
<1> QED
  BY <1>2, <1>3, <1>4

\* How far xds/snapshot.go:39 holds (computeVersion and SetSnapshot).  However the
\* writes interleave with the Lists, a snapshot with changed resources keeps the
\* version of the one before only if the text of that version can be read as
\* different resourceVersions, or if two of the Clusters that were collected refer to
\* the same Service; provided that the API server gives no resourceVersion out twice.
\* Revisions is a constant: for any behaviour it may be taken to be the revisions
\* that are given out in it, so that only resourceVersions that occur are read.
THEOREM VersionsExplained ==
  ASSUME FreshRevisions
  PROVE  Spec => UnchangedVersionExplained
<1> DEFINE Explained(n) == /\ snapshots[n] # Nil /\ snapshots'[n] # Nil
                           /\ snapshots'[n].resources # snapshots[n].resources
                           /\ snapshots'[n].version = snapshots[n].version
                           => \/ ambiguous(snapshots[n].version)
                              \/ \E i, j \in DOMAIN lists["Cluster"] :
                                   i # j /\ shareService(lists["Cluster"][i], lists["Cluster"][j])
<1>1. Init => VersionInv
  BY VersionInit
<1>2. ASSUME VersionInv, [Next]_vars, NEW n \in NodeIDs PROVE Explained(n)
  BY <1>2, VersionStep, ZenonT(30) DEF NoneShare
<1>3. VersionInv /\ [Next]_vars => [\A n \in NodeIDs : Explained(n)]_vars
  BY <1>2, ZenonT(30)
<1> QED
  BY <1>1, <1>3, VersionNext, PTL DEF Spec, UnchangedVersionExplained

=============================================================================
