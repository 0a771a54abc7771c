------------------------------- MODULE MeshApi -------------------------------
(***************************************************************************)
(* The objects of the mesh API (control-plane/api/v1alpha1) and the        *)
(* references between them: which EnvoyProxy an xDS custom resource (CR)   *)
(* targets, which Service a Cluster takes its endpoints from, and which    *)
(* EnvoyProxies a change of an object must be reconciled for.              *)
(*                                                                         *)
(* An object is known by its identity [kind, ns, name].  A `store' maps    *)
(* every identity to the object it holds there or to Nil; the API server   *)
(* and the informer caches are both stores.                                *)
(***************************************************************************)
EXTENDS Lists, FiniteSets

CONSTANTS
  Namespaces,   \* namespace names; a namespace is one DNS label, not ""
  ProxyNames,   \* EnvoyProxy names; a name is DNS labels joined by dots
  Resources,    \* identities of the xDS CRs
  Slices,       \* identities of the EndpointSlices
  Manifests,    \* Manifests[r]: what users may write into CR or slice r
  Nil           \* Go's nil, and the absence of an object in a store

XdsKinds == {"Listener", "Cluster", "RouteConfiguration",
             "ScopedRouteConfiguration", "ClusterLoadAssignment"}

WatchedKinds == XdsKinds \cup {"EnvoyProxy", "EndpointSlice"}

(***************************************************************************)
(* An EnvoyProxy identity doubles as the reconcile.Request that names it:  *)
(* the workqueue carries nothing else.                                     *)
(***************************************************************************)
request(name, ns) == [kind |-> "EnvoyProxy", ns |-> ns, name |-> name]

Proxies == [kind : {"EnvoyProxy"}, ns : Namespaces, name : ProxyNames]

Ids == Proxies \cup Resources \cup Slices

(***************************************************************************)
(* TargetRef: an empty namespace stands for the CR's own.                  *)
(***************************************************************************)
TargetRefs == [name : ProxyNames, namespace : Namespaces \cup {""}]

ASSUME NamespacesAssumption == "" \notin Namespaces

ASSUME NilAssumption == Nil \notin Proxies

ASSUME NamesAssumption == \A n \in ProxyNames : n \in Seq(STRING) /\ n # <<>>

ASSUME IdentitiesAssumption ==
  /\ Resources \subseteq [kind : XdsKinds, ns : Namespaces, name : STRING]
  /\ Slices \subseteq [kind : {"EndpointSlice"}, ns : Namespaces, name : STRING]
  /\ IsFiniteSet(Ids)

ASSUME ManifestsAssumption ==
  \A r \in Resources : \A m \in Manifests[r] : m.targetRef \in TargetRefs

ASSUME SlicesAssumption ==
  \A s \in Slices : \A m \in Manifests[s] :
    /\ IsSeq(m.ports) /\ IsSeq(m.endpoints)
    /\ \A i \in DOMAIN m.endpoints : IsSeq(m.endpoints[i].addresses)

(***************************************************************************)
(* Objects of a CR or a slice: the manifest together with the              *)
(* resourceVersion the API server gave to the write.                       *)
(***************************************************************************)
Versions(id) == [rv : Nat, m : Manifests[id]]

-----------------------------------------------------------------------------
\* Mutant of nodeID: the name alone.
nodeIDOfName(p) == p.name

(***************************************************************************)
(* Node identity: fmt.Sprintf("%s.%s", ep.Name, ep.Namespace).  With names *)
(* as sequences of labels, joining with a dot appends the namespace label. *)
(***************************************************************************)
nodeID(p) == Append(p.name, p.ns)

NodeIDs == {nodeID(p) : p \in Proxies}

(***************************************************************************)
(* References.  An empty namespace in a reference defaults to the          *)
(* namespace of the object that holds it.                                  *)
(***************************************************************************)
orOwn(ns, ownNS) == IF ns = "" THEN ownNS ELSE ns

\* Mutant of targetMatches: names are compared, namespaces are not.
targetMatchesName(ref, itemNS, p) == ref.name = p.name

targetMatches(ref, itemNS, p) ==
  /\ ref.name = p.name
  /\ orOwn(ref.namespace, itemNS) = p.ns

(***************************************************************************)
(* A Cluster's kubernetesServiceRef, resolved: does it name the Service    *)
(* svcName in namespace svcNS?                                             *)
(***************************************************************************)
serviceMatches(ref, itemNS, svcName, svcNS) ==
  /\ ref # Nil
  /\ ref.name = svcName
  /\ orOwn(ref.namespace, itemNS) = svcNS

(***************************************************************************)
(* Mutants of the next definition: the namespace is not defaulted; an      *)
(* explicit namespace is ignored.                                          *)
(***************************************************************************)
mapWithoutDefault(id, obj) == {request(obj.m.targetRef.name, obj.m.targetRef.namespace)}

mapToOwnNamespace(id, obj) == {request(obj.m.targetRef.name, id.ns)}

(***************************************************************************)
(* The request an xDS CR maps to: the proxy it targets.                    *)
(***************************************************************************)
mapXDSResourceToProxy(id, obj) ==
  {request(obj.m.targetRef.name, orOwn(obj.m.targetRef.namespace, id.ns))}

(***************************************************************************)
(* Mutant of the next definition: the reference's namespace is compared    *)
(* as it stands.                                                           *)
(***************************************************************************)
mapSliceWithoutDefault(id, obj, store) ==
  UNION {mapXDSResourceToProxy(c, store[c]) :
           c \in {c \in Resources :
                    /\ c.kind = "Cluster"
                    /\ obj.m.service # Nil
                    /\ store[c] # Nil
                    /\ store[c].m.ref # Nil
                    /\ store[c].m.ref.name = obj.m.service
                    /\ store[c].m.ref.namespace = id.ns}}

(***************************************************************************)
(* The requests an EndpointSlice maps to: the targets of the Clusters that *)
(* reference the slice's Service (its kubernetes.io/service-name label;    *)
(* Nil when it has none), as the store holds them now.                     *)
(***************************************************************************)
mapEndpointSliceToProxies(id, obj, store) ==
  UNION {mapXDSResourceToProxy(c, store[c]) :
           c \in {c \in Resources :
                    /\ c.kind = "Cluster"
                    /\ obj.m.service # Nil
                    /\ store[c] # Nil
                    /\ serviceMatches(store[c].m.ref, c.ns, obj.m.service, id.ns)}}

(***************************************************************************)
(* Mutants of the next definition: only the new object is mapped; updates  *)
(* of an EnvoyProxy that leave its spec alone are filtered out.            *)
(***************************************************************************)
requestsOfNew(n, store) ==
  IF n.id.kind = "EnvoyProxy" THEN {n.id}
  ELSE IF n.new = Nil THEN {}
  ELSE IF n.id.kind = "EndpointSlice" THEN mapEndpointSliceToProxies(n.id, n.new, store)
  ELSE mapXDSResourceToProxy(n.id, n.new)

requestsOfGenerations(n, store) ==
  IF n.id.kind = "EnvoyProxy" THEN IF Nil \in {n.old, n.new} THEN {n.id} ELSE {}
  ELSE UNION {IF n.id.kind = "EndpointSlice"
                THEN mapEndpointSliceToProxies(n.id, o, store)
                ELSE mapXDSResourceToProxy(n.id, o) : o \in {n.old, n.new} \ {Nil}}

(***************************************************************************)
(* What the handlers enqueue for one notification [id, old, new]: the map  *)
(* function is applied to the object before and to the object after the    *)
(* change, whichever exist.                                                *)
(***************************************************************************)
requestsOf(n, store) ==
  IF n.id.kind = "EnvoyProxy" THEN {n.id}
  ELSE UNION {IF n.id.kind = "EndpointSlice"
                THEN mapEndpointSliceToProxies(n.id, o, store)
                ELSE mapXDSResourceToProxy(n.id, o) : o \in {n.old, n.new} \ {Nil}}

=============================================================================
