------------------------------- MODULE MCCrdGen -------------------------------
(***************************************************************************)
(* Instances of CrdGen for TLC: small proto trees, the types and comments  *)
(* of whose fields are enumerated.                                         *)
(***************************************************************************)
EXTENDS CrdGen, TLC

field(type, shape, comment) ==
  [type |-> type, absolute |-> FALSE, shape |-> shape, comment |-> comment]
message(name, comment, fields) ==
  [name |-> name, enum |-> FALSE, comment |-> comment, fields |-> fields]
enum(name) == [name |-> name, enum |-> TRUE, comment |-> NoComment, fields |-> <<>>]
file(package, decls) == [parses |-> TRUE, package |-> package, decls |-> decls]

string == <<"string">>
duration == <<"google", "Duration">>
OneScalar == {string}
OneWellKnown == {duration}
Bootstrap == <<"envoy", "Bootstrap">>
BlockedOnly == {Bootstrap}
Extra == "Cluster" :> {"kubernetesServiceRef"}
Plurals == ("Listener" :> "listeners") @@ ("Cluster" :> "clusters") @@ ("Gone" :> "gones")

(***************************************************************************)
(* Recursion: a Listener with a nested Cluster, and another Cluster with a *)
(* nested enum, whose fields refer to each other in any way, to a          *)
(* well-known type and to a type nobody declares.  A later file declares   *)
(* the outer Cluster again, if it parses.                                  *)
(***************************************************************************)
listener == <<"envoy", "Listener">>
inner == <<"envoy", "Listener", "Cluster">>
outer == <<"envoy", "Cluster">>
Refs == {<<"Listener">>, <<"Cluster">>, <<"Gone">>, duration}
dotted(f) == [f EXCEPT !.absolute = TRUE]
ListenerFields ==
  {<<field(t, "single", "first"), f>> :
     t \in Refs,
     f \in {field(u, s, NoComment) : u \in Refs, s \in {"single", "repeated"}}
           \cup {dotted(field(outer, "single", NoComment))}}
InnerFields == {<<>>, <<field(outer, "single", "inner")>>, <<field(<<"Cluster">>, "map", "inner")>>}
OuterFields ==
  {<<field(string, "single", NoComment), f>> :
     f \in {field(t, s, "outer") : t \in {<<"Listener">>, duration}, s \in {"single", "map"}}
           \cup {field(<<"Type">>, "repeated", "outer")}}
again(parses) ==
  [parses |-> parses, package |-> <<"envoy">>,
   decls |-> <<message(<<"Cluster">>, "again", <<field(duration, "single", "again")>>)>>]
RecursiveTrees ==
  {<<file(<<"envoy">>, <<message(<<"Listener">>, "L", l), message(<<"Listener", "Cluster">>, "I", i),
                         message(<<"Cluster">>, "O", o), enum(<<"Cluster", "Type">>)>>), x>> :
     l \in ListenerFields, i \in InnerFields, o \in OuterFields, x \in {again(TRUE), again(FALSE)}}
ThreeMessages ==
  {<<inner, Bootstrap, listener, outer>>, <<outer, <<"envoy", "Gone">>, listener>>}
=============================================================================
