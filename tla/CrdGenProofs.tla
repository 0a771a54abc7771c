----------------------------- MODULE CrdGenProofs -----------------------------
(***************************************************************************)
(* For every proto tree and every list of messages: crd-gen's recursion is *)
(* bounded by the number of messages, every manifest it writes holds the   *)
(* unfolding of its message, described by comments of its own, and names   *)
(* are resolved as protobuf does, as far as that goes.                     *)
(***************************************************************************)
EXTENDS CrdGenLemmas

\* The provers a leaf is tried with when it names none, and their time in seconds.
USE SMTT(30), ZenonT(30)

-----------------------------------------------------------------------------
(***************************************************************************)
(* The inductive invariant.                                                *)
(***************************************************************************)
Walk ==
  /\ protos \in Trees /\ messages \in Requests
  /\ parsed \in 0..Len(protos) /\ done \in 0..Len(messages)
  /\ stack # <<>> => parsed = Len(protos) /\ done < Len(messages)
  /\ parsed < Len(protos) => crds = Empty
  /\ DOMAIN shared = WellKnown
  /\ outcome \in {"running", "nil", "error"}

Tree ==
  /\ RegOK(reg) /\ Calls(stack, reg) /\ Closed(schema)
  /\ stack # <<>> => Building(stack, schema, reg)

IInv == Walk /\ Tree /\ SchemasAreUnfoldings

\* No call, and nothing built.
LEMMA NothingBuilt ==
  /\ \A r : Calls(<<>>, r)
  /\ Closed(Empty)
  /\ DOMAIN Empty = {}
<1>1. ASSUME NEW r  PROVE Calls(<<>>, r)
  BY DEF Calls
<1>2. DOMAIN Empty = {}
  BY DEF Empty
<1> QED BY <1>1, <1>2 DEF Closed

\* At the start nothing is registered, called or written.
LEMMA InitIInv == Init => IInv
<1> SUFFICES ASSUME Init  PROVE IInv
  OBVIOUS
<1> USE DEF Init
<1>1. Walk
  <2>1. IsSeq(protos) /\ IsSeq(messages)
    BY InputsAssumption
  <2>2. Len(protos) \in Nat /\ Len(messages) \in Nat
    BY <2>1 DEF IsSeq
  <2> QED BY <2>2 DEF Walk
<1>2. RegOK(reg)
  <2>1. DOMAIN reg.messages = {}
    BY NothingBuilt
  <2> HIDE DEF Init
  <2>2. IsFiniteSet(DOMAIN reg.messages)
    BY <2>1, FS_EmptySet
  <2> QED BY <2>1, <2>2 DEF RegOK
<1>3. Tree
  BY <1>2, NothingBuilt DEF Tree
<1>4. SchemasAreUnfoldings
  BY NothingBuilt DEF SchemasAreUnfoldings
<1> QED BY <1>1, <1>3, <1>4 DEF IInv

\* The first call of msgSchema, for a registered message.
LEMMA FirstCall ==
  ASSUME NEW r, RegOK(r), NEW msg \in DOMAIN r.messages
  PROVE  Calls(<<frame(<<>>, msg, {})>>, r) /\ Building(<<frame(<<>>, msg, {})>>, Empty, r)
<1> DEFINE f == frame(<<>>, msg, {})
           c == <<f>>
<1>1. f.path = <<>> /\ f.msg = msg /\ f.visited = {} /\ f.next = 1 /\ f \in FramesOf(r)
  BY DEF frame, FramesOf
<1> HIDE DEF f
<1>2. c \in Seq(FramesOf(r)) /\ Len(c) = 1 /\ c[1] = f
  BY <1>1
<1>3. Cardinality({}) = 0
  BY FS_EmptySet
<1> HIDE DEF c
<1>4. Calls(c, r)
  <2>1. ASSUME NEW i \in 1..Len(c)  PROVE Cardinality(c[i].visited) = i - 1 /\ c[i].next >= 1
    <3>1. i = 1
      BY <1>2
    <3>2. c[i].visited = {} /\ c[i].next = 1
      BY <3>1, <1>1, <1>2
    <3> QED BY <3>1, <3>2, <1>3
  <2> QED BY <2>1, <1>2 DEF Calls
<1>5. FrameOK(f, Empty)
  <2>1. names(Empty, <<>>) = {}
    BY DEF names
  <2>2. 1..(f.next - 1) = {}
    BY <1>1
  <2> QED BY <1>1, <2>1, <2>2 DEF FrameOK
<1>6. Building(c, Empty, r)
  <2>1. \A i \in 1..Len(c) : c[i] = f
    BY <1>2
  <2>2. AllNodes(c[1].msg, Empty, r)
    BY NothingBuilt DEF AllNodes
  <2> QED BY <1>1, <1>2, <1>5, <2>1, <2>2, NothingBuilt DEF Building
<1> QED BY <1>4, <1>6 DEF c, f

\* What Field does to the calls and the nodes.
LEMMA FieldStep ==
  ASSUME Tree, Field
  PROVE  Calls(stack', reg) /\ Closed(schema') /\ Building(stack', schema', reg) /\ stack' # <<>>
         /\ stack'[1].msg = stack[1].msg
<1> DEFINE k == Len(stack)
           f == stack[k]
           field == fieldsOf(f.msg, reg)[f.next]
           type == resolveType(field.type, f.msg, reg, f.visited)
           path == Append(f.path, f.next)
<1>1. /\ stack # <<>> /\ f.next <= Len(fieldsOf(f.msg, reg))
      /\ schema' = with(schema, path, propertyOf(field, type))
      /\ stack' = IF type.kind = "message" THEN call(advance(stack), path, type.name)
                  ELSE advance(stack)
  BY ZenonT(30) DEF Field, top, advance
<1>6. propertyOf(field, type).kind = type.kind /\ propertyOf(field, type).name = type.name
  BY DEF propertyOf
<1> HIDE DEF field, type
<1>13. stack # <<>> /\ f.next <= Len(fieldsOf(f.msg, reg))
  BY <1>1
<1>14. schema' = with(schema, path, propertyOf(field, type))
  BY <1>1
<1>2. RegOK(reg) /\ Calls(stack, reg) /\ Closed(schema) /\ Building(stack, schema, reg)
  BY <1>13 DEF Tree
<1>3. Calls(advance(stack), reg) /\ OneOn(advance(stack), stack) /\ k \in Nat /\ k > 0
  BY <1>2, <1>13, Advanced
<1>4. f.next \in Nat /\ f.next >= 1 /\ f.msg \in DOMAIN reg.messages
  <2>1. k \in 1..Len(stack)
    BY <1>3
  <2> QED BY <2>1, <1>2, CallFacts
<1> DEFINE n == f.next
           fields == fieldsOf(f.msg, reg)
<1>5. n \in DOMAIN fields
  <2>1. Len(fields) \in Nat /\ DOMAIN fields = 1..Len(fields)
    BY <1>2, <1>4 DEF RegOK, IsSeq
  <2>2. n \in Nat /\ n >= 1 /\ n <= Len(fields)
    BY <1>4, <1>13
  <2> HIDE DEF n, fields
  <2> QED BY <2>1, <2>2
<1>7. Turn(stack, schema, reg, f, type)
  BY <1>2, <1>5, <1>13 DEF Turn, type, field
<1>8. Adds(schema, schema', f, f.next, type)
  BY <1>6, <1>14, ZenonT(30) DEF Adds, with, IsOf
<1> HIDE DEF f
<1>9. Closed(schema')
  BY <1>7, <1>8, FieldBuilds
<1>12. advance(stack)[1].msg = stack[1].msg
  BY <1>3 DEF OneOn
<1>10. CASE type.kind # "message"
  <2>1. stack' = advance(stack) /\ Building(advance(stack), schema', reg)
    BY <1>1, <1>7, <1>8, <1>10, FieldBuilds
  <2>2. Len(advance(stack)) > 0
    BY <1>3 DEF OneOn
  <2>3. advance(stack) # <<>>
    BY <2>2
  <2> QED BY <1>3, <1>9, <1>12, <2>1, <2>3
<1>11. CASE type.kind = "message"
  <2>1. stack' = call(advance(stack), path, type.name)
    BY <1>1, <1>11
  <2>2. Calls(stack', reg) /\ Building(stack', schema', reg)
    BY <1>7, <1>8, <1>11, <2>1, CallBuilds
  <2>3. stack' # <<>>
    <3>1. advance(stack) \in Seq(FramesOf(reg)) /\ stack' \in Seq(FramesOf(reg))
      BY <1>3, <2>2 DEF Calls
    <3> QED BY <3>1, <2>1 DEF call
  <2>4. stack'[1] = advance(stack)[1]
    <3>1. advance(stack) \in Seq(FramesOf(reg)) /\ Len(advance(stack)) > 0
      BY <1>3 DEF Calls, OneOn
    <3> HIDE DEF path
    <3> DEFINE g == frame(path, type.name, advance(stack)[Len(advance(stack))].visited \cup {type.name})
    <3>2. stack' = Append(advance(stack), g)
      BY <2>1 DEF call
    <3> HIDE DEF g
    <3> QED BY <3>1, <3>2
  <2> QED BY <1>9, <1>12, <2>2, <2>3, <2>4
<1> QED BY <1>10, <1>11

\* A manifest that is written holds the unfolding of its message.
LEMMA ManifestWritten ==
  ASSUME Tree, WriteFile
  PROVE  IsUnfolding(buildCRD(top.msg).source, buildCRD(top.msg).spec, reg)
<1> DEFINE spec == [p \in DOMAIN schema |-> marshalled(schema[p])]
<1>1. /\ Len(stack) = 1 /\ stack # <<>> /\ top = stack[1]
      /\ stack[1].next > Len(fieldsOf(stack[1].msg, reg))
  BY DEF WriteFile, returning, top
<1>2. RegOK(reg) /\ Calls(stack, reg) /\ Closed(schema) /\ Building(stack, schema, reg)
  BY <1>1 DEF Tree
<1>3. IsUnfolding(stack[1].msg, schema, reg)
  BY <1>1, <1>2, UnfoldingBuilt
<1>4. DOMAIN spec = DOMAIN schema
      /\ \A p \in DOMAIN schema : spec[p].name = schema[p].name /\ spec[p].kind = schema[p].kind
  BY DEF marshalled
<1>5. buildCRD(top.msg).source = stack[1].msg /\ buildCRD(top.msg).spec = spec
  BY <1>1 DEF buildCRD
<1> HIDE DEF spec
<1>6. Keeps(schema, spec)
  BY <1>4 DEF Keeps
<1> QED BY <1>2, <1>3, <1>4, <1>5, <1>6, UnfoldingKept

\* Every step keeps the inductive invariant.
LEMMA NextIInv == IInv /\ [Next]_vars => IInv'
<1> SUFFICES ASSUME IInv, [Next]_vars  PROVE IInv'
  OBVIOUS
<1> USE DEF IInv
<1>0. /\ Len(protos) \in Nat /\ DOMAIN protos = 1..Len(protos) /\ Len(messages) \in Nat
      /\ parsed \in 0..Len(protos) /\ done \in 0..Len(messages)
  <2>1. IsSeq(protos) /\ IsSeq(messages)
    BY InputsAssumption DEF Walk
  <2>2. parsed \in 0..Len(protos) /\ done \in 0..Len(messages)
    BY DEF Walk
  <2> QED BY <2>1, <2>2 DEF IsSeq
<1>1. CASE ParseFile
  <2>1. /\ parsed < Len(protos) /\ parsed' = parsed + 1 /\ crds = Empty
        /\ reg' = IF protos[parsed + 1].parses THEN collectElements(protos[parsed + 1], reg) ELSE reg
        /\ UNCHANGED <<protos, messages, done, stack, schema, shared, crds, outcome>>
    BY <1>1 DEF ParseFile, inputs, Walk
  <2>0. parsed < Len(protos)
    BY <2>1
  <2>2. stack = <<>>
    <3> DEFINE n == Len(protos)
    <3>0. parsed < n /\ parsed \in Nat /\ n \in Nat
      BY <2>0, <1>0
    <3> HIDE DEF n
    <3>1. parsed # n
      BY <3>0
    <3> QED BY <3>1 DEF Walk, n
  <2>3. parsed + 1 \in DOMAIN protos /\ protos \in Trees
    <3>1. parsed + 1 \in 1..Len(protos)
      BY <2>0, <1>0
    <3> QED BY <3>1, <1>0, ZenonT(30) DEF Walk
  <2>4. RegOK(reg')
    BY <2>1, <2>3, CollectKeepsRegOK DEF Tree
  <2>5. Walk'
    BY <2>1, <2>2, <1>0 DEF Walk
  <2>6. Tree'
    BY <2>1, <2>2, <2>4, NothingBuilt DEF Tree
  <2>7. SchemasAreUnfoldings'
    BY <2>1, NothingBuilt DEF SchemasAreUnfoldings
  <2> QED BY <2>5, <2>6, <2>7
<1>2. CASE Skip \/ NotFound \/ WalkFails \/ RunReturns \/ UNCHANGED vars
  <2>1. UNCHANGED <<protos, messages, parsed, reg, stack, schema, shared, crds>>
    BY <1>2 DEF Skip, NotFound, WalkFails, RunReturns, inputs, vars
  <2>2. done' \in 0..Len(messages) /\ (stack # <<>> => done' = done)
    <3>1. CASE Skip
      <4>1. done' = done + 1 /\ done < Len(messages) /\ stack = <<>>
        BY <3>1 DEF Skip, atMessage
      <4> QED BY <4>1, <1>0
    <3>2. CASE done' = done
      BY <3>2, <1>0
    <3> QED BY <1>2, <3>1, <3>2 DEF NotFound, WalkFails, RunReturns, vars
  <2>3. outcome' \in {"running", "nil", "error"}
    BY <1>2 DEF Skip, NotFound, WalkFails, RunReturns, vars, Walk
  <2>4. Walk'
    BY <2>1, <2>2, <2>3 DEF Walk
  <2>5. Tree'
    BY <2>1 DEF Tree
  <2>6. SchemasAreUnfoldings'
    BY <2>1 DEF SchemasAreUnfoldings
  <2> QED BY <2>4, <2>5, <2>6
<1>3. CASE MessageToSchema
  <2> DEFINE msg == messages[done + 1]
  <2>1. /\ parsed = Len(protos) /\ done < Len(messages) /\ msg \in DOMAIN reg.messages
        /\ stack' = <<frame(<<>>, msg, {})>> /\ schema' = Empty
        /\ UNCHANGED <<protos, messages, parsed, reg, done, shared, crds, outcome>>
    BY <1>3 DEF MessageToSchema, atMessage, inputs
  <2>2. Walk'
    BY <2>1 DEF Walk
  <2>3. RegOK(reg)
    BY DEF Tree
  <2> HIDE DEF msg
  <2>4. Calls(stack', reg) /\ Building(stack', schema', reg)
    BY <2>1, <2>3, FirstCall
  <2>5. Tree'
    BY <2>1, <2>3, <2>4, NothingBuilt DEF Tree
  <2>6. SchemasAreUnfoldings'
    BY <2>1 DEF SchemasAreUnfoldings
  <2> QED BY <2>2, <2>5, <2>6
<1>4. CASE Field
  <2>1. /\ stack # <<>> /\ DOMAIN shared' = DOMAIN shared
        /\ UNCHANGED <<protos, messages, parsed, reg, done, crds, outcome>>
    BY <1>4, ZenonT(30) DEF Field, inputs
  <2>2. Calls(stack', reg) /\ Closed(schema') /\ Building(stack', schema', reg)
    BY <1>4, FieldStep
  <2>3. Walk'
    BY <2>1 DEF Walk
  <2>4. Tree'
    BY <2>1, <2>2 DEF Tree
  <2>5. SchemasAreUnfoldings'
    BY <2>1 DEF SchemasAreUnfoldings
  <2> QED BY <2>3, <2>4, <2>5
<1>5. CASE MsgSchemaReturns
  <2>1. /\ stack # <<>> /\ Len(stack) > 1 /\ stack' = Front(stack)
        /\ stack[Len(stack)].next > Len(fieldsOf(stack[Len(stack)].msg, reg))
        /\ UNCHANGED <<protos, messages, parsed, reg, done, schema, shared, crds, outcome>>
    BY <1>5 DEF MsgSchemaReturns, returning, top, inputs
  <2>2. Calls(stack', reg) /\ Building(stack', schema, reg)
    BY <2>1, ReturnBuilds DEF Tree
  <2>3. Walk'
    BY <2>1 DEF Walk
  <2>4. Tree'
    BY <2>1, <2>2 DEF Tree
  <2>5. SchemasAreUnfoldings'
    BY <2>1 DEF SchemasAreUnfoldings
  <2> QED BY <2>3, <2>4, <2>5
<1>6. CASE WriteFile
  <2> DEFINE file == outPath(top.msg)
             crd == buildCRD(top.msg)
  <2>1. /\ stack # <<>> /\ stack' = <<>> /\ done' = done + 1
        /\ crds' = with(crds, file, crd)
        /\ UNCHANGED <<protos, messages, parsed, reg, schema, shared, outcome>>
    BY <1>6 DEF WriteFile, returning, inputs
  <2>2. IsUnfolding(crd.source, crd.spec, reg)
    BY <1>6, ManifestWritten
  <2> HIDE DEF file, crd
  <2>3. Walk'
    BY <2>1, <1>0 DEF Walk
  <2>4. Tree'
    BY <2>1, NothingBuilt DEF Tree
  <2>5. DOMAIN crds' = DOMAIN crds \cup {file} /\ crds'[file] = crd
        /\ \A f \in DOMAIN crds : f # file => crds'[f] = crds[f]
    BY <2>1 DEF with
  <2>6. ASSUME NEW f \in DOMAIN crds', crds'[f] # Torn
        PROVE  IsUnfolding(crds'[f].source, crds'[f].spec, reg)
    <3>1. CASE f = file
      BY <3>1, <2>2, <2>5
    <3>2. CASE f # file
      BY <3>2, <2>5, <2>6 DEF SchemasAreUnfoldings
    <3> QED BY <3>1, <3>2
  <2>7. SchemasAreUnfoldings'
    BY <2>1, <2>6 DEF SchemasAreUnfoldings, Torn
  <2> QED BY <2>3, <2>4, <2>7
<1>7. CASE WriteFails
  <2> DEFINE file == outPath(top.msg)
  <2>1. /\ stack # <<>> /\ crds' \in {crds, with(crds, file, Torn)} /\ outcome' = "error"
        /\ UNCHANGED <<protos, messages, parsed, reg, done, stack, schema, shared>>
    BY <1>7 DEF WriteFails, returning, inputs
  <2> HIDE DEF file
  <2>2. Walk'
    BY <2>1, <1>0 DEF Walk
  <2>3. Tree'
    BY <2>1 DEF Tree
  <2>4. \A f \in DOMAIN crds' : crds'[f] # Torn => f \in DOMAIN crds /\ crds'[f] = crds[f]
    BY <2>1 DEF with
  <2>5. SchemasAreUnfoldings'
    BY <2>1, <2>4 DEF SchemasAreUnfoldings, Torn
  <2> QED BY <2>2, <2>3, <2>5
<1> QED BY <1>1, <1>2, <1>3, <1>4, <1>5, <1>6, <1>7 DEF Next

\* Whatever the registry holds, crd-gen's state has its types.
THEOREM TypeCorrect == Spec => []TypeOK
<1>1. IInv => TypeOK
  <2>1. RegOK(reg) => \A m \in DOMAIN reg.messages :
          IsPrefix(reg.messages[m].package, m) /\ IsSeq(fieldsOf(m, reg))
    BY DEF RegOK
  <2>2. Calls(stack, reg) => stack \in Seq(Frames)
    BY DEF Calls, Frames, FramesOf
  <2>3. Closed(schema) => DOMAIN schema \subseteq Seq(Nat)
    BY DEF Closed
  <2> QED BY <2>1, <2>2, <2>3 DEF IInv, Walk, Tree, TypeOK
<1> QED BY <1>1, InitIInv, NextIInv, PTL DEF Spec

\* The cycle guard of resolveMessageOrEnum bounds the recursion of msgSchema:
\* for every proto tree there are at most as many nested calls as messages,
\* and one more.
THEOREM RecursionBounded == Spec => []DepthBounded
<1>1. IInv => DepthBounded
  BY CallsBounded DEF IInv, Tree, DepthBounded
<1> QED BY <1>1, InitIInv, NextIInv, PTL DEF Spec

\* For every proto tree and every list of messages, a manifest holds the
\* unfolding of its message: each field of each message that is expanded has
\* its node, and a message is expanded exactly if nothing above expands it.
THEOREM ManifestsUnfold == Spec => []SchemasAreUnfoldings
<1>1. IInv => SchemasAreUnfoldings
  BY DEF IInv
<1> QED BY <1>1, InitIInv, NextIInv, PTL DEF Spec

-----------------------------------------------------------------------------
(***************************************************************************)
(* The output directory.  The first call converts the message Run is at,   *)
(* and a torn file means that Run has returned an error.                   *)
(***************************************************************************)
Converting ==
  stack # <<>> => stack[1].msg = messages[done + 1] /\ messages[done + 1] \notin Blocked

OInv ==
  /\ IInv /\ Converting /\ OutputIsPrefix
  /\ outcome # "error" => \A f \in DOMAIN crds : crds[f] # Torn

\* At the start no manifest is written and no message is being converted.
LEMMA InitOInv == Init => OInv
<1> SUFFICES ASSUME Init  PROVE OInv
  OBVIOUS
<1>1. stack = <<>> /\ DOMAIN crds = {} /\ done = 0 /\ outcome = "running"
  BY NothingBuilt DEF Init
<1>2. OutputIsPrefix
  BY <1>1 DEF OutputIsPrefix
<1> QED BY <1>1, <1>2, InitIInv DEF OInv, Converting

\* A message that is written becomes the last one written to its file.
LEMMA WrittenLast ==
  ASSUME NEW list, NEW n \in Nat, list[n + 1] \notin Blocked,
         NEW file, file = outPath(list[n + 1])
  PROVE  /\ \A f : f # file => written(f, n + 1, list) = written(f, n, list)
         /\ written(file, n + 1, list) # {} /\ Max(written(file, n + 1, list)) = n + 1
<1>1. ASSUME NEW f, f # file  PROVE written(f, n + 1, list) = written(f, n, list)
  <2>1. \A i \in 1..(n + 1) : i \in 1..n \/ i = n + 1
    OBVIOUS
  <2>2. \A i \in 1..n : i \in 1..(n + 1)
    OBVIOUS
  <2> QED BY <1>1, <2>1, <2>2 DEF written
<1> DEFINE w == written(file, n + 1, list)
<1>2. n + 1 \in w /\ w \subseteq 0..(n + 1) /\ n + 1 \in Nat
  BY DEF written
<1> HIDE DEF w
<1>3. Max(w) \in w /\ \A y \in w : Max(w) >= y
  BY <1>2, MaxExists, ZenonT(30)
<1> DEFINE m == Max(w)
<1>4. m \in 0..(n + 1) /\ m >= n + 1
  BY <1>2, <1>3, ZenonT(30)
<1> HIDE DEF m
<1>5. m = n + 1
  BY <1>4
<1> QED BY <1>1, <1>2, <1>5 DEF m, w

\* Every step keeps it.
LEMMA NextOInv == OInv /\ [Next]_vars => OInv'
<1> SUFFICES ASSUME OInv, [Next]_vars  PROVE OInv'
  OBVIOUS
<1>0. IInv' /\ Walk /\ Tree
  BY NextIInv DEF OInv, IInv
<1>1. CASE UNCHANGED <<messages, done, crds>> /\ outcome' # "nil" /\ outcome' \in {outcome, "error"}
           /\ Converting'
  <2>2. OutputIsPrefix'
    BY <1>1 DEF OInv, OutputIsPrefix
  <2> QED BY <1>0, <1>1, <2>2 DEF OInv, Torn
<1>2. CASE ParseFile \/ NotFound \/ WalkFails
  BY <1>1, <1>2 DEF ParseFile, NotFound, WalkFails, inputs, running, OInv, Converting
<1>3. CASE MessageToSchema
  <2>1. /\ stack' = <<frame(<<>>, messages[done + 1], {})>> /\ messages[done + 1] \notin Blocked
        /\ UNCHANGED <<messages, done, crds, outcome>> /\ outcome = "running"
    BY <1>3 DEF MessageToSchema, atMessage, running, inputs
  <2>2. stack'[1].msg = messages[done + 1]
    BY <2>1 DEF frame
  <2>3. Converting'
    BY <2>1, <2>2 DEF Converting
  <2> QED BY <1>1, <2>1, <2>3
<1>4. CASE Field
  <2>1. stack'[1].msg = stack[1].msg /\ stack # <<>>
    BY <1>0, <1>4, FieldStep, ZenonT(30) DEF Field
  <2>2. UNCHANGED <<messages, done, crds, outcome>> /\ outcome = "running"
    BY <1>4, ZenonT(30) DEF Field, running, inputs
  <2>3. Converting'
    BY <2>1, <2>2 DEF OInv, Converting
  <2> QED BY <1>1, <2>2, <2>3
<1>5. CASE MsgSchemaReturns
  <2>1. /\ stack # <<>> /\ stack' = Front(stack) /\ Len(stack) > 1
        /\ UNCHANGED <<messages, done, crds, outcome>> /\ outcome = "running"
    BY <1>5 DEF MsgSchemaReturns, returning, running, inputs
  <2>2. stack'[1] = stack[1]
    <3>1. Calls(stack, reg) /\ Len(stack) \in Nat
      BY <1>0 DEF Tree, Calls
    <3>2. 1 \in 1..(Len(stack) - 1)
      BY <2>1, <3>1
    <3> QED BY <2>1, <3>1, <3>2, Popped, ZenonT(30)
  <2>3. Converting'
    BY <2>1, <2>2 DEF OInv, Converting
  <2> QED BY <1>1, <2>1, <2>3
<1>6. CASE Skip
  <2>1. /\ messages[done + 1] \in Blocked /\ done' = done + 1 /\ done < Len(messages)
        /\ stack' = <<>> /\ UNCHANGED <<messages, crds, outcome>> /\ outcome = "running"
    BY <1>6 DEF Skip, atMessage, running, inputs
  <2>2. done \in Nat
    BY <1>0 DEF Walk
  <2>3. \A i \in 1..(done + 1) : messages[i] \notin Blocked => i \in 1..done
    BY <2>1, <2>2
  <2>4. 1..done \subseteq 1..(done + 1)
    BY <2>2
  <2>5. \A f : written(f, done + 1, messages) = written(f, done, messages)
    BY <2>3, <2>4 DEF written
  <2>6. OutputIsPrefix'
    BY <2>1, <2>3, <2>5 DEF OInv, OutputIsPrefix
  <2> QED BY <1>0, <2>1, <2>6 DEF OInv, Converting, Torn
<1>7. CASE WriteFile
  <2> DEFINE msg == messages[done + 1]
             file == outPath(msg)
             crd == buildCRD(msg)
  <2>1. /\ stack # <<>> /\ stack' = <<>> /\ done' = done + 1 /\ Len(stack) = 1
        /\ UNCHANGED <<messages, outcome>> /\ outcome = "running" /\ done < Len(messages)
    BY <1>0, <1>7 DEF WriteFile, returning, running, inputs, Walk
  <2>2. msg \notin Blocked /\ crds' = with(crds, file, crd)
    BY <1>7, <2>1 DEF WriteFile, top, OInv, Converting
  <2>3. crd.source = msg /\ crd # Torn
    BY DEF buildCRD, Torn
  <2>4. /\ \A f : f # file => written(f, done + 1, messages) = written(f, done, messages)
        /\ written(file, done + 1, messages) # {} /\ Max(written(file, done + 1, messages)) = done + 1
    <3>1. done \in Nat
      BY <1>0 DEF Walk
    <3> QED BY <2>2, <3>1, WrittenLast
  <2> HIDE DEF crd
  <2>5. DOMAIN crds' = DOMAIN crds \cup {file} /\ crds'[file] = crd
        /\ \A f \in DOMAIN crds : f # file => crds'[f] = crds[f]
    BY <2>2 DEF with
  <2>6. done \in Nat /\ \A i \in 1..(done + 1) : i \in 1..done \/ i = done + 1
    BY <1>0 DEF Walk
  <2> HIDE DEF file
  <2>7. ASSUME NEW f \in DOMAIN crds', crds'[f] # Torn
        PROVE  /\ written(f, done + 1, messages) # {}
               /\ crds'[f].source = messages[Max(written(f, done + 1, messages))]
    <3>1. CASE f = file
      BY <3>1, <2>3, <2>4, <2>5
    <3>2. CASE f # file
      BY <3>2, <2>4, <2>5, <2>7 DEF OInv, OutputIsPrefix
    <3> QED BY <3>1, <3>2
  <2>8. \A i \in 1..(done + 1) : messages[i] \notin Blocked => outPath(messages[i]) \in DOMAIN crds'
    BY <2>5, <2>6 DEF OInv, OutputIsPrefix, file
  <2>9. OutputIsPrefix'
    BY <2>1, <2>7, <2>8 DEF OutputIsPrefix
  <2>10. \A f \in DOMAIN crds' : crds'[f] # Torn
    BY <2>1, <2>3, <2>5 DEF OInv
  <2> QED BY <1>0, <2>1, <2>9, <2>10 DEF OInv, Converting, Torn
<1>8. CASE WriteFails
  <2> DEFINE file == outPath(top.msg)
  <2>1. /\ stack # <<>> /\ crds' \in {crds, with(crds, file, Torn)} /\ outcome' = "error"
        /\ UNCHANGED <<messages, done, stack>>
    BY <1>8 DEF WriteFails, returning, inputs
  <2> HIDE DEF file
  <2>2. /\ \A f \in DOMAIN crds' : crds'[f] # Torn => f \in DOMAIN crds /\ crds'[f] = crds[f]
        /\ DOMAIN crds \subseteq DOMAIN crds'
    BY <2>1 DEF with
  <2>4. OutputIsPrefix'
    BY <2>1, <2>2 DEF OInv, OutputIsPrefix
  <2> QED BY <1>0, <2>1, <2>4 DEF OInv, Converting, Torn
<1>9. CASE RunReturns
  <2>1. /\ outcome = "running" /\ stack = <<>> /\ done = Len(messages) /\ outcome' = "nil"
        /\ UNCHANGED <<messages, done, stack, crds>>
    BY <1>9 DEF RunReturns, running, inputs
  <2>3. \A f \in DOMAIN crds : crds[f] # Torn
    BY <2>1 DEF OInv
  <2>4. OutputIsPrefix'
    BY <2>1, <2>3 DEF OInv, OutputIsPrefix
  <2> QED BY <1>0, <2>1, <2>3, <2>4 DEF OInv, Converting, Torn
<1>10. CASE UNCHANGED vars
  BY <1>0, <1>10 DEF OInv, Converting, OutputIsPrefix, vars
<1> QED BY <1>2, <1>3, <1>4, <1>5, <1>6, <1>7, <1>8, <1>9, <1>10 DEF Next

\* However Run ends, the directory holds, for each file, the last of the
\* messages handled so far that is written to it, and nothing is missing.
THEOREM OutputPrefix == Spec => []OutputIsPrefix
<1>1. OInv => OutputIsPrefix
  BY DEF OInv
<1> QED BY <1>1, InitOInv, NextOInv, PTL DEF Spec

-----------------------------------------------------------------------------
(***************************************************************************)
(* Names.                                                                  *)
(***************************************************************************)
\* A name below the empty prefix is the name.
LEMMA BelowNothing ==
  ASSUME NEW scope, IsSeq(scope), NEW name, IsSeq(name)
  PROVE  below(scope, 0, name) = name
<1> DEFINE S == Range(scope)
           T == Range(name)
<1>1. scope \in Seq(S) /\ name \in Seq(T)
  BY DEF IsSeq
<1> HIDE DEF S, T
<1>2. SubSeq(scope, 1, 0) = <<>>
  BY <1>1
<1>3. <<>> \o name = name
  BY <1>1
<1> QED BY <1>2, <1>3, ZenonT(30) DEF below

\* What is found from a prefix outwards is found from the whole scope outwards.
LEMMA HitsOfPrefix ==
  ASSUME NEW package, NEW scope, IsSeq(package), IsSeq(scope), IsPrefix(package, scope),
         NEW name, NEW r
  PROVE  hits(package, name, r) \subseteq hits(scope, name, r)
<1> DEFINE S == Range(package)
           T == Range(scope)
           a == Len(package)
           b == Len(scope)
<1>1. package \in Seq(S) /\ scope \in Seq(T) /\ a \in Nat /\ b \in Nat
  BY DEF IsSeq
<1> HIDE DEF S, T
<1>2. a <= b /\ SubSeq(package, 1, a) = SubSeq(scope, 1, a)
  BY <1>1 DEF IsPrefix
<1>3. ASSUME NEW i \in 1..a  PROVE i \in 1..b /\ SubSeq(package, 1, i) = SubSeq(scope, 1, i)
  <2>1. \A j \in 1..a : SubSeq(package, 1, a)[j] = package[j]
    BY <1>1
  <2>2. \A j \in 1..a : SubSeq(scope, 1, a)[j] = scope[j]
    BY <1>1, <1>2
  <2>3. \A j \in 1..i : j \in 1..a /\ package[j] = scope[j]
    BY <1>1, <1>2, <2>1, <2>2
  <2>4. /\ SubSeq(package, 1, i) = [j \in 1..i |-> package[j]]
        /\ SubSeq(scope, 1, i) = [j \in 1..i |-> scope[j]]
    BY <1>1, <1>2
  <2> QED BY <1>1, <1>2, <2>3, <2>4
<1> QED BY <1>3, ZenonT(30) DEF hits, below

\* One field's type is resolved as protobuf does.
LEMMA ResolvedAsProto ==
  ASSUME RegOK(reg), NamesOK(reg), NEW m \in DOMAIN reg.messages,
         NEW x \in Range(fieldsOf(m, reg)), x.absolute <=> inRegistry(x.type, reg)
  PROVE  resolveFQN(x.type, m, reg) = protoScope(x, m)
<1> DEFINE scopes == {i \in 0..Len(m) : inRegistry(below(m, i, x.type), reg)}
           package == reg.messages[m].package
<1>1. IsSeq(m) /\ IsSeq(x.type) /\ IsSeq(package) /\ IsPrefix(package, m)
  BY DEF RegOK, NamesOK
<1>2. CASE inRegistry(x.type, reg)
  BY <1>2 DEF resolveFQN, protoScope
<1>3. CASE ~inRegistry(x.type, reg)
  <2>1. scopes = hits(m, x.type, reg)
    <3>1. Len(m) \in Nat
      BY <1>1 DEF IsSeq
    <3>2. ~inRegistry(below(m, 0, x.type), reg)
      BY <1>1, <1>3, BelowNothing
    <3> QED BY <3>1, <3>2 DEF hits
  <2>2. protoScope(x, m) = IF scopes = {} THEN x.type ELSE below(m, Max(scopes), x.type)
    BY <1>3 DEF protoScope
  <2>3. hits(package, x.type, reg) \subseteq hits(m, x.type, reg)
    BY <1>1, HitsOfPrefix, ZenonT(30)
  <2> HIDE DEF scopes
  <2> QED BY <1>3, <2>1, <2>2, <2>3, ZenonT(30) DEF resolveFQN, innermost
<1> QED BY <1>2, <1>3

\* For every proto tree: resolveFQN mirrors protobuf's scoping for a field whose
\* type is written with a leading dot exactly if it is a full name.
THEOREM MirrorsScoping == Spec => []MirrorsUnlessFullName
<1>1. Init => NamesOK(reg)
  <2>1. Init => DOMAIN reg.messages = {}
    BY NothingBuilt DEF Init
  <2> QED BY <2>1 DEF NamesOK
<1>2. IInv /\ NamesOK(reg) /\ [Next]_vars => NamesOK(reg')
  <2> SUFFICES ASSUME IInv, NamesOK(reg), [Next]_vars  PROVE NamesOK(reg')
    OBVIOUS
  <2>1. CASE reg' = reg
    BY <2>1
  <2>2. CASE ParseFile
    <3>1. parsed < Len(protos) /\ protos \in Trees /\ RegOK(reg) /\ parsed \in 0..Len(protos)
      BY <2>2 DEF ParseFile, IInv, Walk, Tree
    <3>2. parsed + 1 \in DOMAIN protos
      <4>1. Len(protos) \in Nat /\ DOMAIN protos = 1..Len(protos)
        BY <3>1, InputsAssumption DEF IsSeq
      <4>2. parsed + 1 \in 1..Len(protos)
        BY <3>1, <4>1
      <4> QED BY <4>1, <4>2
    <3>3. NamesOK(collectElements(protos[parsed + 1], reg))
      BY <3>1, <3>2, CollectKeepsRegOK
    <3> QED BY <2>2, <3>3 DEF ParseFile
  <2> QED BY <2>1, <2>2, ZenonT(30) DEF Next, Skip, NotFound, MessageToSchema, Field, MsgSchemaReturns,
                             WriteFile, WalkFails, WriteFails, RunReturns, vars
<1>3. IInv /\ NamesOK(reg) => MirrorsUnlessFullName
  BY ResolvedAsProto DEF IInv, Tree, MirrorsUnlessFullName, Referring
<1>4. IInv /\ NamesOK(reg) /\ [Next]_vars => IInv' /\ NamesOK(reg)'
  BY <1>2, NextIInv DEF NamesOK, fieldsOf
<1> QED BY <1>1, <1>3, <1>4, InitIInv, PTL DEF Spec

-----------------------------------------------------------------------------
(***************************************************************************)
(* Descriptions.  What a shared schema says was written for a field of its *)
(* type, and every node built so far is described as it will be in the     *)
(* manifest.                                                               *)
(***************************************************************************)
SharedComments ==
  /\ \A w \in WellKnown : shared[w] \in {NoComment} \cup commentsOn(w, reg)
  /\ parsed < Len(protos) => \A w \in WellKnown : shared[w] = NoComment

NodesDescribed == stack # <<>> => \A p \in DOMAIN schema : IsDescribed(stack[1].msg, schema, reg, p)

DInv == IInv /\ SharedComments /\ NodesDescribed /\ Descriptions

\* A type that is resolved to a well-known one is that type.
LEMMA ResolvedWellKnown ==
  ASSUME NEW name, NEW msg, NEW r, NEW visited,
         resolveType(name, msg, r, visited).kind = "wellKnown"
  PROVE  name \in WellKnown /\ resolveType(name, msg, r, visited).name = name
<1>1. CASE name \in Scalars
  BY <1>1 DEF resolveType
<1>2. CASE name \notin Scalars /\ name \notin WellKnown
  BY <1>2 DEF resolveType, resolveMessageOrEnum, declaredKind
<1>3. CASE name \notin Scalars /\ name \in WellKnown
  BY <1>3 DEF resolveType
<1> QED BY <1>1, <1>2, <1>3

\* The message a node belongs to stays the same.
LEMMA OwnerKept ==
  ASSUME NEW nodes, NEW later, Closed(nodes), Keeps(nodes, later), NEW root, NEW r,
         NEW p \in DOMAIN nodes, IsNode(root, nodes, r, p)
  PROVE  owner(root, later, p) = owner(root, nodes, p)
<1>1. CASE Len(p) = 1
  BY <1>1 DEF owner
<1>2. CASE Len(p) # 1
  <2>1. p # <<>> /\ (Len(p) > 1 => Front(p) \in DOMAIN nodes)
    BY ZenonT(30) DEF IsNode
  <2>2. Len(p) > 1
    <3>1. p \in Seq(Nat)
      BY DEF Closed
    <3>2. Len(p) \in Nat /\ Len(p) # 0
      BY <2>1, <3>1
    <3> QED BY <1>2, <3>2
  <2> QED BY <1>2, <2>1, <2>2 DEF owner, Keeps
<1> QED BY <1>1, <1>2

\* What typeDescription finds is a comment on the type.
LEMMA TypeDescribed ==
  ASSUME SharedComments, NEW node, NEW type, node.kind = type.kind, node.name = type.name,
         type.kind = "wellKnown" => type.name \in WellKnown
  PROVE  typeDescription(type) \in typeComments(node, reg)
<1>1. CASE type.kind = "message"
  BY <1>1 DEF typeDescription, typeComments
<1>2. CASE type.kind = "wellKnown"
  BY <1>2 DEF typeDescription, typeComments, SharedComments
<1>3. CASE type.kind # "message" /\ type.kind # "wellKnown"
  BY <1>3 DEF typeDescription, typeComments
<1> QED BY <1>1, <1>2, <1>3

\* At the start nothing is described.
LEMMA InitDInv == Init => DInv
<1> SUFFICES ASSUME Init  PROVE DInv
  OBVIOUS
<1>1. SharedComments
  BY DEF Init, SharedComments
<1>2. NodesDescribed
  BY DEF Init, NodesDescribed
<1>3. Descriptions
  BY NothingBuilt DEF Init, Descriptions
<1> QED BY <1>1, <1>2, <1>3, InitIInv DEF DInv

\* One turn of msgSchema's loop describes the field's node, and leaves the
\* description of the others alone.
LEMMA FieldDescribes ==
  ASSUME DInv, Field
  PROVE  SharedComments' /\ NodesDescribed'
<1> DEFINE k == Len(stack)
           f == stack[k]
           field == fieldsOf(f.msg, reg)[f.next]
           type == resolveType(field.type, f.msg, reg, f.visited)
           path == Append(f.path, f.next)
           root == stack[1].msg
<1>1. /\ stack # <<>> /\ f.next <= Len(fieldsOf(f.msg, reg))
      /\ schema' = with(schema, path, propertyOf(field, type))
      /\ shared' = IF type.kind = "wellKnown" /\ field.shape = "single" /\ field.comment # NoComment
                     THEN [shared EXCEPT ![type.name] = field.comment] ELSE shared
      /\ UNCHANGED <<protos, parsed, reg>>
  BY ZenonT(30) DEF Field, top, inputs
<1>2. /\ propertyOf(field, type).kind = type.kind /\ propertyOf(field, type).name = type.name
      /\ propertyOf(field, type).items \in {NoComment, typeDescription(type)}
      /\ field.comment # NoComment => propertyOf(field, type).description = field.comment
      /\ field.comment = NoComment =>
           propertyOf(field, type).description \in {NoComment, typeDescription(type)}
  BY ZenonT(30) DEF propertyOf
<1>3. type.kind = "wellKnown" => type.name \in WellKnown /\ type.name = field.type
  <2>1. type = resolveType(field.type, f.msg, reg, f.visited)
    OBVIOUS
  <2> HIDE DEF k, f, field, type, path, root
  <2> QED BY <2>1, ResolvedWellKnown
<1> DEFINE node == propertyOf(field, type)
<1> HIDE DEF f, field, type, node, path, root
<1>4. /\ RegOK(reg) /\ Calls(stack, reg) /\ Closed(schema) /\ Building(stack, schema, reg)
      /\ SharedComments /\ NodesDescribed /\ DOMAIN shared = WellKnown
  BY <1>1 DEF DInv, IInv, Tree, Walk
<1>5. k \in Nat /\ k > 0 /\ k \in 1..Len(stack)
  BY <1>1, <1>4, Advanced
<1>6. f.next \in Nat /\ f.next >= 1 /\ f.msg \in DOMAIN reg.messages /\ f.path \in Seq(Nat)
  BY <1>4, <1>5, CallFacts DEF f
<1>7. f.next \in DOMAIN fieldsOf(f.msg, reg)
  <2>1. Len(fieldsOf(f.msg, reg)) \in Nat /\ DOMAIN fieldsOf(f.msg, reg) = 1..Len(fieldsOf(f.msg, reg))
    BY <1>4, <1>6 DEF RegOK, IsSeq
  <2>2. f.next \in Nat /\ f.next >= 1 /\ f.next <= Len(fieldsOf(f.msg, reg))
    BY <1>1, <1>6
  <2> QED BY <2>1, <2>2
<1>8. SharedComments'
  <2>1. field \in Range(fieldsOf(f.msg, reg))
    BY <1>7 DEF field, Range
  <2>2. type.kind = "wellKnown" /\ field.shape = "single" => field.comment \in commentsOn(type.name, reg)
    BY <1>3, <1>6, <2>1, ZenonT(30) DEF commentsOn
  <2>3. parsed = Len(protos)
    BY <1>1 DEF DInv, IInv, Walk
  <2>4. \A w \in WellKnown : shared'[w] \in {NoComment} \cup commentsOn(w, reg)
    <3>1. CASE shared' = shared
      BY <3>1, <1>4 DEF SharedComments
    <3>2. CASE /\ type.kind = "wellKnown" /\ field.shape = "single"
               /\ shared' = [shared EXCEPT ![type.name] = field.comment]
      <4>1. \A w \in WellKnown : shared'[w] = IF w = type.name THEN field.comment ELSE shared[w]
        BY <3>2, <1>4
      <4> QED BY <3>2, <4>1, <2>2, <1>4 DEF SharedComments
    <3> QED BY <1>1, <3>1, <3>2
  <2>5. ~ (parsed' < Len(protos'))
    <3> DEFINE n == Len(protos)
    <3>1. n \in Nat /\ parsed' = n /\ n = Len(protos')
      BY <1>1, <2>3 DEF DInv, IInv, Walk
    <3> HIDE DEF n
    <3> QED BY <3>1
  <2> QED BY <1>1, <2>4, <2>5 DEF SharedComments
<1>9. /\ DOMAIN schema' = DOMAIN schema \cup {path} /\ schema'[path] = node
      /\ \A p \in DOMAIN schema : p # path => schema'[p] = schema[p]
  BY <1>1, ZenonT(30) DEF with, node
<1>10. Turn(stack, schema, reg, f, type) /\ Adds(schema, schema', f, f.next, type)
  <2>1. Turn(stack, schema, reg, f, type)
    BY <1>1, <1>4, <1>7, ZenonT(30) DEF Turn, f, type, field
  <2>2. Adds(schema, schema', f, f.next, type)
    BY <1>2, <1>9 DEF Adds, IsOf, node, path
  <2> QED BY <2>1, <2>2
<1>11. Keeps(schema, schema')
  BY <1>10, FieldBuilds
<1>12. owner(root, schema', path) = f.msg /\ Last(path) = f.next
  <2>1. Len(path) = Len(f.path) + 1 /\ Front(path) = f.path /\ Last(path) = f.next /\ Len(f.path) \in Nat
    BY <1>6, AppendFront DEF path
  <2>2. FrameOK(f, schema) /\ (f.path = <<>> => f.msg = root)
    BY <1>4, <1>5 DEF Building, f, root
  <2>3. CASE f.path = <<>>
    BY <2>1, <2>2, <2>3 DEF owner
  <2>4. CASE f.path # <<>>
    <3>1. Len(path) # 1
      BY <1>6, <2>1, <2>4
    <3>2. schema'[f.path].name = f.msg
      BY <1>11, <2>2, <2>4 DEF FrameOK, Keeps
    <3> QED BY <2>1, <3>1, <3>2 DEF owner
  <2> QED BY <2>3, <2>4
<1>13. IsDescribed(root, schema', reg, path)
  <2>1. typeDescription(type) \in typeComments(node, reg) /\ NoComment \in typeComments(node, reg)
    BY <1>2, <1>3, <1>4, TypeDescribed DEF node, typeComments
  <2>2. node.items \in typeComments(node, reg)
    BY <1>2, <2>1 DEF node
  <2>3. IF field.comment # NoComment THEN node.description = field.comment
        ELSE node.description \in typeComments(node, reg)
    BY <1>2, <2>1 DEF node
  <2> QED BY <1>9, <1>12, <2>2, <2>3, ZenonT(30) DEF IsDescribed, field
<1>14. ASSUME NEW p \in DOMAIN schema, p # path  PROVE IsDescribed(root, schema', reg, p)
  <2>1. IsNode(root, schema, reg, p) /\ IsDescribed(root, schema, reg, p)
    BY <1>1, <1>4, ZenonT(30) DEF Building, AllNodes, NodesDescribed, root
  <2>2. owner(root, schema', p) = owner(root, schema, p) /\ schema'[p] = schema[p]
    BY <1>4, <1>9, <1>11, <1>14, <2>1, OwnerKept
  <2> QED BY <2>1, <2>2, ZenonT(30) DEF IsDescribed
<1>15. stack'[1].msg = root
  BY FieldStep, ZenonT(30) DEF DInv, IInv, root
<1> QED BY <1>1, <1>8, <1>9, <1>13, <1>14, <1>15 DEF NodesDescribed

\* A manifest that is written is described as its schema is, but for the items
\* of well-known types, which take the comment written last.
LEMMA ManifestDescribed ==
  ASSUME DInv, WriteFile, NEW p \in DOMAIN buildCRD(top.msg).spec
  PROVE  IsDescribed(buildCRD(top.msg).source, buildCRD(top.msg).spec, reg, p)
<1> DEFINE spec == [q \in DOMAIN schema |-> marshalled(schema[q])]
           root == stack[1].msg
<1>1. stack # <<>> /\ top = stack[1]
  BY DEF WriteFile, returning, top
<1>2. buildCRD(top.msg).source = root /\ buildCRD(top.msg).spec = spec
  BY <1>1 DEF buildCRD
<1>3. /\ Closed(schema) /\ Building(stack, schema, reg) /\ SharedComments
      /\ \A q \in DOMAIN schema : IsDescribed(root, schema, reg, q)
  BY <1>1 DEF DInv, IInv, Tree, NodesDescribed
<1>4. p \in DOMAIN schema
  BY <1>2
<1>5. /\ DOMAIN spec = DOMAIN schema
      /\ \A q \in DOMAIN schema : spec[q].name = schema[q].name /\ spec[q].kind = schema[q].kind
  BY DEF marshalled
<1>6. IsNode(root, schema, reg, p)
  BY <1>3, <1>4 DEF Building, AllNodes
<1>7. /\ spec[p].name = schema[p].name /\ spec[p].kind = schema[p].kind
      /\ spec[p].description = schema[p].description
      /\ \/ spec[p].items = schema[p].items
         \/ schema[p].kind = "wellKnown" /\ spec[p].items \in {schema[p].items, shared[schema[p].name]}
  BY <1>4 DEF marshalled
<1> HIDE DEF spec
<1>8. Keeps(schema, spec)
  BY <1>5 DEF Keeps
<1>9. owner(root, spec, p) = owner(root, schema, p)
  BY <1>3, <1>4, <1>6, <1>8, OwnerKept, ZenonT(30)
<1>10. typeComments(spec[p], reg) = typeComments(schema[p], reg)
  BY <1>7 DEF typeComments
<1>11. schema[p].kind = "wellKnown" => shared[schema[p].name] \in typeComments(schema[p], reg)
  <2> SUFFICES ASSUME schema[p].kind = "wellKnown"
               PROVE  shared[schema[p].name] \in typeComments(schema[p], reg)
    BY ZenonT(30)
  <2>1. schema[p].name \in WellKnown
    <3> DEFINE msg == owner(root, schema, p)
               name == fieldsOf(msg, reg)[Last(p)].type
               visited == above(schema, p)
    <3>1. /\ schema[p].kind = resolveType(name, msg, reg, visited).kind
          /\ schema[p].name = resolveType(name, msg, reg, visited).name
      BY <1>6, ZenonT(30) DEF IsNode
    <3> HIDE DEF msg, name, visited
    <3>2. resolveType(name, msg, reg, visited).kind = "wellKnown"
      BY <3>1
    <3>3. name \in WellKnown /\ resolveType(name, msg, reg, visited).name = name
      BY <3>2, ResolvedWellKnown
    <3> QED BY <3>1, <3>3, ZenonT(30)
  <2> QED BY <1>3, <2>1 DEF SharedComments, typeComments
<1>12. IsDescribed(root, schema, reg, p)
  BY <1>3, <1>4
<1> HIDE DEF root
<1>13. spec[p].items \in typeComments(spec[p], reg)
  <2>1. schema[p].items \in typeComments(schema[p], reg)
    BY <1>12 DEF IsDescribed
  <2>2. spec[p].items \in typeComments(schema[p], reg)
    <3> DEFINE comments == typeComments(schema[p], reg)
               items    == spec[p].items
    <3>1. \/ items = schema[p].items
          \/ schema[p].kind = "wellKnown" /\ items = shared[schema[p].name]
      BY <1>7
    <3>2. schema[p].items \in comments /\ (schema[p].kind = "wellKnown" => shared[schema[p].name] \in comments)
      BY <1>11, <2>1
    <3> HIDE DEF comments, items
    <3>3. items \in comments
      BY ONLY <3>1, <3>2
    <3> QED BY <3>3 DEF comments, items
  <2> QED BY <1>10, <2>2
<1>14. IsDescribed(root, spec, reg, p)
  <2> DEFINE comment == fieldsOf(owner(root, schema, p), reg)[Last(p)].comment
  <2>1. IF comment # NoComment THEN schema[p].description = comment
        ELSE schema[p].description \in typeComments(schema[p], reg)
    BY <1>12, ZenonT(30) DEF IsDescribed
  <2>2. comment = fieldsOf(owner(root, spec, p), reg)[Last(p)].comment
    BY <1>9
  <2> HIDE DEF comment
  <2>3. IF comment # NoComment THEN spec[p].description = comment
        ELSE spec[p].description \in typeComments(spec[p], reg)
    BY <1>7, <1>10, <2>1, ZenonT(30)
  <2> QED BY <1>13, <2>2, <2>3, ZenonT(30) DEF IsDescribed
<1> QED BY <1>2, <1>14

\* Every step keeps it.
LEMMA NextDInv == DInv /\ [Next]_vars => DInv'
<1> SUFFICES ASSUME DInv, [Next]_vars  PROVE DInv'
  OBVIOUS
<1>0. IInv' /\ Walk /\ SharedComments /\ NodesDescribed /\ Descriptions
  BY NextIInv DEF DInv, IInv
<1>1. CASE ParseFile
  <2>1. /\ parsed < Len(protos) /\ parsed' = parsed + 1 /\ crds = Empty /\ stack = <<>>
        /\ UNCHANGED <<protos, stack, shared, crds>>
    <3>1. parsed < Len(protos) /\ parsed \in Nat
      BY <1>0, <1>1 DEF ParseFile, Walk
    <3>2. parsed # Len(protos)
      BY <3>1
    <3> QED BY <1>0, <1>1, <3>2 DEF ParseFile, inputs, Walk
  <2>2. SharedComments'
    BY <1>0, <2>1 DEF SharedComments
  <2>3. NodesDescribed'
    BY <2>1 DEF NodesDescribed
  <2>4. Descriptions'
    BY <2>1, NothingBuilt DEF Descriptions
  <2> QED BY <1>0, <2>2, <2>3, <2>4 DEF DInv
<1>2. CASE UNCHANGED <<protos, parsed, reg, stack, schema, shared, crds>>
  <2>1. SharedComments' /\ NodesDescribed'
    BY <1>0, <1>2 DEF SharedComments, NodesDescribed
  <2>2. Descriptions'
    BY <1>0, <1>2 DEF Descriptions
  <2> QED BY <1>0, <2>1, <2>2 DEF DInv
<1>3. CASE Skip \/ NotFound \/ WalkFails \/ RunReturns \/ UNCHANGED vars
  BY <1>2, <1>3, ZenonT(30) DEF Skip, NotFound, WalkFails, RunReturns, inputs, vars
<1>4. CASE MessageToSchema
  <2>1. schema' = Empty /\ UNCHANGED <<protos, parsed, reg, shared, crds>>
    BY <1>4 DEF MessageToSchema, inputs
  <2>2. SharedComments' /\ NodesDescribed'
    BY <1>0, <2>1, NothingBuilt DEF SharedComments, NodesDescribed
  <2>3. Descriptions'
    BY <1>0, <2>1 DEF Descriptions
  <2> QED BY <1>0, <2>2, <2>3 DEF DInv
<1>5. CASE Field
  <2>1. SharedComments' /\ NodesDescribed'
    BY <1>5, FieldDescribes, ZenonT(30)
  <2>2. UNCHANGED <<reg, crds>>
    BY <1>5, ZenonT(30) DEF Field
  <2>3. Descriptions'
    BY <1>0, <2>2 DEF Descriptions
  <2> QED BY <1>0, <2>1, <2>3 DEF DInv
<1>6. CASE MsgSchemaReturns
  <2>1. /\ stack # <<>> /\ stack' = Front(stack) /\ Len(stack) > 1
        /\ UNCHANGED <<protos, parsed, reg, schema, shared, crds>>
    BY <1>6 DEF MsgSchemaReturns, returning, inputs
  <2>2. stack'[1] = stack[1]
    <3>1. Calls(stack, reg) /\ Len(stack) \in Nat
      BY DEF DInv, IInv, Tree, Calls
    <3>2. 1 \in 1..(Len(stack) - 1)
      BY <2>1, <3>1
    <3> QED BY <2>1, <3>1, <3>2, Popped, ZenonT(30)
  <2>3. SharedComments'
    BY <1>0, <2>1 DEF SharedComments
  <2>4. NodesDescribed'
    BY <1>0, <2>1, <2>2 DEF NodesDescribed
  <2>5. Descriptions'
    BY <1>0, <2>1 DEF Descriptions
  <2> QED BY <1>0, <2>3, <2>4, <2>5 DEF DInv
<1>7. CASE WriteFile
  <2> DEFINE file == outPath(top.msg)
             crd == buildCRD(top.msg)
  <2>1. /\ stack' = <<>> /\ crds' = with(crds, file, crd)
        /\ UNCHANGED <<protos, parsed, reg, schema, shared>>
    BY <1>7 DEF WriteFile, inputs
  <2>2. \A p \in DOMAIN crd.spec : IsDescribed(crd.source, crd.spec, reg, p)
    BY <1>7, ManifestDescribed
  <2> HIDE DEF file, crd
  <2>3. SharedComments' /\ NodesDescribed'
    BY <1>0, <2>1 DEF SharedComments, NodesDescribed
  <2>4. DOMAIN crds' = DOMAIN crds \cup {file} /\ crds'[file] = crd
        /\ \A f \in DOMAIN crds : f # file => crds'[f] = crds[f]
    BY <2>1 DEF with
  <2>5. ASSUME NEW f \in DOMAIN crds', NEW p \in DOMAIN crds'[f].spec
        PROVE  IsDescribed(crds'[f].source, crds'[f].spec, reg, p)
    <3>1. CASE f = file
      BY <3>1, <2>2, <2>4, <2>5
    <3>2. CASE f # file
      BY <3>2, <1>0, <2>4, <2>5, ZenonT(30) DEF Descriptions
    <3> QED BY <3>1, <3>2
  <2>6. Descriptions'
    BY <2>1, <2>5 DEF Descriptions
  <2> QED BY <1>0, <2>3, <2>6 DEF DInv
<1>8. CASE WriteFails
  <2> DEFINE file == outPath(top.msg)
  <2>1. /\ crds' \in {crds, with(crds, file, Torn)}
        /\ UNCHANGED <<protos, parsed, reg, stack, schema, shared>>
    BY <1>8 DEF WriteFails, inputs
  <2> HIDE DEF file
  <2>2. SharedComments' /\ NodesDescribed'
    BY <1>0, <2>1 DEF SharedComments, NodesDescribed
  <2>3. \A f \in DOMAIN crds' : \/ f \in DOMAIN crds /\ crds'[f] = crds[f]
                                \/ crds'[f] = Torn
    BY <2>1 DEF with
  <2>4. DOMAIN Torn.spec = {}
    BY NothingBuilt DEF Torn
  <2>5. Descriptions'
    BY <1>0, <2>1, <2>3, <2>4 DEF Descriptions
  <2> QED BY <1>0, <2>2, <2>5 DEF DInv
<1> QED BY <1>1, <1>3, <1>4, <1>5, <1>6, <1>7, <1>8 DEF Next

\* For every proto tree and every list of messages: a field with a comment is
\* described by it, and the shared schemas never carry a comment from one type
\* to another.
THEOREM DescriptionsOwn == Spec => []Descriptions
<1>1. DInv => Descriptions
  BY DEF DInv
<1> QED BY <1>1, InitDInv, NextDInv, PTL DEF Spec

=============================================================================
