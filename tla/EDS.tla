--------------------------------- MODULE EDS ---------------------------------
(***************************************************************************)
(* control-plane/internal/xds/eds.go: endpoint discovery from              *)
(* EndpointSlices.  Pure operators; the controller applies them.           *)
(*                                                                         *)
(* A raw CR spec is abstracted to what the code tells apart:               *)
(*   form          "empty"     no bytes                                    *)
(*                 "malformed" encoding/json cannot read a name from it    *)
(*                 "rejected"  JSON, but protojson rejects it (for example *)
(*                             an Any of a type extensions.go omits)       *)
(*                 "ok"        unmarshals                                  *)
(*   name          the value of its "name" key, "" if it has none          *)
(*   cluster_name  the value of its "cluster_name" key, "" if none         *)
(***************************************************************************)
EXTENDS MeshApi

(***************************************************************************)
(* ClusterName reads the "name" key of the raw JSON.                       *)
(***************************************************************************)
ClusterName(raw) == IF raw.form \in {"empty", "malformed"} THEN "" ELSE raw.name

(***************************************************************************)
(* The first port of a slice that is not nil and, if one is wanted, equals *)
(* it; 0 if there is none.                                                 *)
(***************************************************************************)
resolvePort(ports, want) ==
  LET usable == {i \in DOMAIN ports : ports[i] # Nil /\ want \in {Nil, ports[i]}}
  IN  IF usable = {} THEN 0 ELSE ports[Min(usable)]

(***************************************************************************)
(* One slice's contribution: every non-empty address of every endpoint     *)
(* that is not known to be unready, on the resolved port.  A nil Ready     *)
(* counts as ready.                                                        *)
(***************************************************************************)
lbEndpoints(slice, want) ==
  LET port == resolvePort(slice.ports, want)
      host(addr) == IF addr = "" THEN <<>> ELSE <<[address |-> addr, port |-> port]>>
      hosts(ep) == IF ep.ready = FALSE THEN <<>>
                   ELSE Concat([i \in DOMAIN ep.addresses |-> host(ep.addresses[i])])
  IN  IF port = 0 THEN <<>>
      ELSE Concat([i \in DOMAIN slice.endpoints |-> hosts(slice.endpoints[i])])

(***************************************************************************)
(* The ClusterLoadAssignment synthesised for a cluster; with no endpoint   *)
(* at all it is still an assignment, an empty one.                         *)
(***************************************************************************)
SynthesizeCLA(clusterName, slices, port) ==
  [cluster_name |-> clusterName,
   endpoints    |-> Concat([i \in DOMAIN slices |-> lbEndpoints(slices[i], port)])]

=============================================================================
