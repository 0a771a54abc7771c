----------------------------- MODULE MCController -----------------------------
(***************************************************************************)
(* Instances of EnvoyProxyController for TLC.                              *)
(***************************************************************************)
EXTENDS EnvoyProxyController, TLC

ns1 == "ns1"
ns2 == "ns2"
edge == <<"edge">>

id(kind, ns, name) == [kind |-> kind, ns |-> ns, name |-> name]
spec(form, name, cluster) == [form |-> form, name |-> name, cluster_name |-> cluster]
target(ns) == [name |-> edge, namespace |-> ns]
cr(ns, sp) == [targetRef |-> target(ns), ref |-> Nil, spec |-> sp]
svc(name) == [name |-> name, namespace |-> "", port |-> Nil]
backed(sp, ref) == [targetRef |-> target(""), ref |-> ref, spec |-> sp]
ready(addr) == [ready |-> Nil, addresses |-> <<addr>>]
slice(name, addr) == [service |-> name, ports |-> <<8080>>, endpoints |-> <<ready(addr)>>]

(***************************************************************************)
(* What the API server holds at first: some objects, all else absent.      *)
(***************************************************************************)
Store(objs) == [i \in Ids |-> IF i \in DOMAIN objs THEN objs[i] ELSE Nil]
at(rv, m) == [rv |-> rv, m |-> m]

edge1 == request(edge, ns1)
edge2 == request(edge, ns2)
None == {}
OneNamespace == {ns1}
TwoNamespaces == {ns1, ns2}
EdgeOnly == {edge}
listener == id("Listener", ns1, "l")
listener2 == id("Listener", ns1, "l2")
cluster == id("Cluster", ns1, "c")
cla == id("ClusterLoadAssignment", ns1, "e")
es == id("EndpointSlice", ns1, "s")
OneListener == {listener}
TwoListeners == {listener, listener2}
OneSlice == {es}
ASSUME RevisionsAreFresh == FreshRevisions

OneWrite == {2}
TwoWrites == 2..3
EdgeStreams == {nodeID(edge1)}

(***************************************************************************)
(* Slices: a cluster that takes its endpoints from a Service or from none, *)
(* and a slice that changes its address or becomes one of another Service. *)
(* 1 and 12 print like 112: the versions are ambiguous.                    *)
(***************************************************************************)
SliceResources == {cluster}
ClusterAndSlice == {cluster, es}
SliceManifests ==
  (cluster :> {backed(spec("ok", "a", ""), svc("web")), backed(spec("ok", "a", ""), Nil)})
  @@ (es :> {slice("web", "10.0.0.1"), slice("web", "10.0.0.2"), slice("db", "10.0.0.3"), slice(Nil, "10.0.0.3")})
SliceStores ==
  {Store((edge1 :> NewProxy) @@ (cluster :> at(1, backed(spec("ok", "a", ""), svc("web"))))
         @@ (es :> at(12, slice("web", "10.0.0.1"))))}
SliceRevisions == {20, 112}
SliceFaults == {"map", "status"}

(***************************************************************************)
(* Status: one listener that may stop unmarshalling, an EnvoyProxy that    *)
(* users delete, re-create and label, and failures of the process.         *)
(***************************************************************************)
FailingManifests ==
  listener :> {cr("", spec("ok", "a", "")), cr("", spec("malformed", "", ""))}
FailingStores == {Store((edge1 :> NewProxy) @@ (listener :> at(1, cr("", spec("ok", "a", "")))))}
ListenerAndProxy == {listener, edge1}
ProcessFaults == {"read", "set", "crash"}

(***************************************************************************)
(* Serving: one listener that moves between a proxy of its own namespace   *)
(* (by an empty and by an explicit namespace) and one of the other, and    *)
(* may break the first, which users may also delete; or two listeners of   *)
(* one proxy, which a List returns in either order.                        *)
(***************************************************************************)
ServingManifests ==
  (listener :> {cr("", spec("ok", "a", "")), cr("", spec("malformed", "", "")),
                cr(ns1, spec("ok", "b", "")), cr(ns2, spec("ok", "a", ""))})
  @@ (listener2 :> {cr("", spec("ok", "c", ""))})
ServingStores ==
  {Store((edge1 :> NewProxy) @@ (listener :> at(1, cr("", spec("ok", "a", "")))) @@ other) :
     other \in {edge2 :> NewProxy, listener2 :> at(3, cr("", spec("ok", "c", "")))}}

(***************************************************************************)
(* Order: two listeners that nobody touches.                               *)
(***************************************************************************)
OrderManifests ==
  (listener :> {cr("", spec("ok", "a", ""))}) @@ (listener2 :> {cr("", spec("ok", "b", ""))})
OrderStores ==
  {Store((edge1 :> NewProxy) @@ (listener :> at(1, cr("", spec("ok", "a", ""))))
         @@ (listener2 :> at(2, cr("", spec("ok", "b", "")))))}

(***************************************************************************)
(* Digits: resourceVersions that do not all have as many digits.           *)
(***************************************************************************)
DigitResources == {listener, cluster}
DigitManifests ==
  (listener :> {cr("", spec("ok", "a", "")), cr("", spec("ok", "b", ""))})
  @@ (cluster :> {cr("", spec("ok", "c", ""))})
DigitStores ==
  {Store((edge1 :> NewProxy) @@ (listener :> at(1, cr("", spec("ok", "a", ""))))
         @@ (cluster :> at(12, cr("", spec("ok", "c", "")))))}
DigitRevisions == {20, 112}

(***************************************************************************)
(* Manual: a cluster with both a Service and a manual assignment.          *)
(***************************************************************************)
ManualResources == {cluster, cla}
ManualManifests ==
  (cluster :> {backed(spec("ok", "a", ""), svc("web"))})
  @@ (cla :> {cr("", spec("ok", "", "a"))})
  @@ (es :> {slice("web", "10.0.0.1")})
ManualStores ==
  {Store((edge1 :> NewProxy) @@ (cluster :> at(1, backed(spec("ok", "a", ""), svc("web"))))
         @@ (cla :> at(2, cr("", spec("ok", "", "a"))))
         @@ (es :> at(3, slice("web", "10.0.0.1"))))}
=============================================================================
