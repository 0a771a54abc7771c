------------------------------- MODULE Snapshot -------------------------------
(***************************************************************************)
(* control-plane/internal/xds/snapshot.go and computeVersion of the        *)
(* controller: how the collected specs become one versioned snapshot.      *)
(***************************************************************************)
EXTENDS Lists

(***************************************************************************)
(* fmt.Fprint of a resourceVersion: its decimal digits.                    *)
(***************************************************************************)
decimal[n \in Nat] ==
  IF n < 10 THEN <<n>> ELSE Append(decimal[n \div 10], n % 10)

(***************************************************************************)
(* computeVersion writes the resource versions of all groups, one after    *)
(* the other and with nothing between them, into a hash.  The hash (the    *)
(* first 16 hex digits of a SHA-256) is taken to be injective, so the      *)
(* version is the text that was hashed.                                    *)
(***************************************************************************)
computeVersion(groups) ==
  LET versions == Concat(groups)
  IN  Concat([i \in DOMAIN versions |-> decimal[versions[i]]])

(***************************************************************************)
(* unmarshalAll: empty specs are skipped, and one spec that does not       *)
(* unmarshal fails the whole group.                                        *)
(***************************************************************************)
unmarshals(raws) == \A i \in DOMAIN raws : raws[i].form \in {"empty", "ok"}

unmarshalAll(raws) ==
  Concat([i \in DOMAIN raws |-> IF raws[i].form = "empty" THEN <<>> ELSE <<raws[i]>>])

(***************************************************************************)
(* NewSnapshot (go-control-plane) keeps a kind's resources in a map by     *)
(* resource name, filled in list order: the last of a name wins.           *)
(***************************************************************************)
resourceName(kind, res) ==
  IF kind = "ClusterLoadAssignment" THEN res.cluster_name ELSE res.name

indexByName(kind, list) ==
  LET at(n) == {i \in DOMAIN list : resourceName(kind, list[i]) = n}
  IN  [n \in {resourceName(kind, list[i]) : i \in DOMAIN list} |-> list[Max(at(n))]]

(***************************************************************************)
(* BuildSnapshot on specs[kind], the raw specs of each kind; endpoints are *)
(* the raw specs of the manual assignments, to which the synthesised ones  *)
(* (already messages, hence always unmarshalled) are appended.             *)
(***************************************************************************)
snapshotBuilds(specs) == \A kind \in DOMAIN specs : unmarshals(specs[kind])

BuildSnapshot(version, specs, synthesised) ==
  [version   |-> version,
   resources |->
     [kind \in DOMAIN specs |->
        indexByName(kind,
          IF kind = "ClusterLoadAssignment"
            THEN unmarshalAll(specs[kind]) \o synthesised
            ELSE unmarshalAll(specs[kind]))]]

=============================================================================
