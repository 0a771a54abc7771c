-------------------------------- MODULE CrdGen --------------------------------
(***************************************************************************)
(* crd-gen: parses a tree of proto files into a registry (internal/parser),*)
(* turns the requested messages into OpenAPI schemas (internal/schema) and *)
(* writes one CRD manifest each (internal/generator).                      *)
(*                                                                         *)
(* A proto name is the sequence of its parts.  A schema is the set of its  *)
(* property nodes, addressed by the positions of the fields that lead to   *)
(* them.  The depth-first recursion of msgSchema is a stack of frames.     *)
(***************************************************************************)
EXTENDS Lists, FiniteSets

CONSTANTS
  Trees,      \* proto trees: sequences of files, in the order they are walked
  Requests,   \* values of --message: sequences of full names
  Scalars,    \* the proto scalar types
  WellKnown,  \* the full names wellKnownSchemas has an entry for
  Blocked,    \* blockedMessages
  ExtraProps, \* kindExtraProps: ExtraProps[kind], for the kinds that have any
  Plural      \* Plural[name]: the simple name in lower case, with an "s"

(***************************************************************************)
(* A file is [parses, package, decls].  Its declarations are listed as     *)
(* collectElements visits them, each with its name below the package:      *)
(*   [name, enum, comment, fields], a field being                          *)
(*   [type, absolute, shape, comment], shape "single", "repeated" or "map",*)
(* absolute if the type is written with a leading dot.                     *)
(***************************************************************************)
IsField(x) == DOMAIN x = {"type", "absolute", "shape", "comment"} /\ IsSeq(x.type)

ASSUME InputsAssumption ==
  /\ \A tree \in Trees :
       /\ IsSeq(tree)
       /\ \A i \in DOMAIN tree :
            /\ IsSeq(tree[i].package) /\ IsSeq(tree[i].decls)
            /\ \A j \in DOMAIN tree[i].decls :
                 /\ IsSeq(tree[i].decls[j].name) /\ IsSeq(tree[i].decls[j].fields)
                 /\ \A k \in DOMAIN tree[i].decls[j].fields : IsField(tree[i].decls[j].fields[k])
  /\ \A names \in Requests : IsSeq(names)

VARIABLES
  protos,    \* the proto tree
  messages,  \* cfg.Messages
  parsed,    \* how many files ParseDir has walked
  reg,       \* the registry: [messages, enums]
  done,      \* how many of cfg.Messages Run has handled
  stack,     \* the calls of msgSchema under way: [path, msg, visited, next]
  schema,    \* the property nodes built so far, by path
  shared,    \* the descriptions of the entries of wellKnownSchemas
  crds,      \* the output directory: crds[file], for the files written
  outcome    \* "running", or what Run returned: "nil" or "error"

inputs == <<protos, messages>>
vars == <<protos, messages, parsed, reg, done, stack, schema, shared, crds, outcome>>

NoComment == ""

Empty == [x \in {} |-> x]

with(f, x, v) == [y \in DOMAIN f \cup {x} |-> IF y = x THEN v ELSE f[y]]

-----------------------------------------------------------------------------
(***************************************************************************)
(* The parser.  Map fields lose their comment; a name that is declared     *)
(* again replaces the earlier declaration.                                 *)
(***************************************************************************)
\* Mutant of qualify: a nested declaration is not put into its package.
qualifyNested(file, d) == IF Len(d.name) > 1 THEN d.name ELSE file.package \o d.name

qualify(file, d) == file.package \o d.name

fieldOf(f) == [f EXCEPT !.comment = IF f.shape = "map" THEN NoComment ELSE @]

messageOf(file, d) ==
  [package |-> file.package, comment |-> d.comment,
   fields |-> [i \in DOMAIN d.fields |-> fieldOf(d.fields[i])]]

declaring(file, enum) == {i \in DOMAIN file.decls : file.decls[i].enum = enum}

declared(file, enum) == {qualify(file, file.decls[i]) : i \in declaring(file, enum)}

collectElements(file, r) ==
  LET last(n) == Max({i \in declaring(file, FALSE) : qualify(file, file.decls[i]) = n})
  IN  [messages |-> [n \in DOMAIN r.messages \cup declared(file, FALSE) |->
                       IF n \in declared(file, FALSE) THEN messageOf(file, file.decls[last(n)])
                       ELSE r.messages[n]],
       enums |-> r.enums \cup declared(file, TRUE)]

inRegistry(name, r) == name \in DOMAIN r.messages \cup r.enums

fieldsOf(msg, r) == r.messages[msg].fields

-----------------------------------------------------------------------------
(***************************************************************************)
(* Names.  A candidate is the name below a prefix of the enclosing message *)
(* or of the package, the longest first.                                   *)
(***************************************************************************)
below(scope, i, name) == SubSeq(scope, 1, i) \o name

hits(scope, name, r) == {i \in 1..Len(scope) : inRegistry(below(scope, i, name), r)}

\* Mutant of innermost: the shortest prefix wins.
outermost(scope, name, r) == below(scope, Min(hits(scope, name, r)), name)

innermost(scope, name, r) == below(scope, Max(hits(scope, name, r)), name)

resolveFQN(name, msg, r) ==
  LET package == r.messages[msg].package
  IN  IF inRegistry(name, r) THEN name
      ELSE IF hits(msg, name, r) # {} THEN innermost(msg, name, r)
      ELSE IF hits(package, name, r) # {} THEN innermost(package, name, r)
      ELSE name

(***************************************************************************)
(* What a field of msg with this type becomes: the kind of its schema and  *)
(* the name it stands for.  A message that is being expanded already is    *)
(* cut to a free-form object, and so is a type nobody declares.            *)
(***************************************************************************)
declaredKind(fqn, r) ==
  IF fqn \in DOMAIN r.messages THEN "message"
  ELSE IF fqn \in r.enums THEN "enum"
  ELSE "free"

\* Mutant of resolveMessageOrEnum: no cycle guard.
resolveUnguarded(fqn, r, visited) == [name |-> fqn, kind |-> declaredKind(fqn, r)]

resolveMessageOrEnum(fqn, r, visited) ==
  [name |-> fqn, kind |-> IF fqn \in visited THEN "free" ELSE declaredKind(fqn, r)]

resolveType(name, msg, r, visited) ==
  IF name \in Scalars THEN [name |-> name, kind |-> "scalar"]
  ELSE IF name \in WellKnown THEN [name |-> name, kind |-> "wellKnown"]
  ELSE resolveMessageOrEnum(resolveFQN(name, msg, r), r, visited)

(***************************************************************************)
(* The description a schema has before its field's comment is set: the     *)
(* message's, or what the shared schema of a well-known type has by now.   *)
(***************************************************************************)
typeDescription(type) ==
  CASE type.kind = "message"   -> reg.messages[type.name].comment
    [] type.kind = "wellKnown" -> shared[type.name]
    [] OTHER                   -> NoComment

(***************************************************************************)
(* The property node of a field.  In an array or a map the type's schema   *)
(* is the items', and only the array or map is described by the comment.   *)
(***************************************************************************)
propertyOf(field, type) ==
  [name |-> type.name, kind |-> type.kind, shape |-> field.shape,
   description |-> IF field.comment # NoComment \/ field.shape # "single" THEN field.comment
                   ELSE typeDescription(type),
   items |-> IF field.shape = "single" THEN NoComment ELSE typeDescription(type)]

(***************************************************************************)
(* The calls of msgSchema: a call gets its own copy of the caller's        *)
(* visited, with its message added.                                        *)
(***************************************************************************)
frame(path, msg, visited) == [path |-> path, msg |-> msg, visited |-> visited, next |-> 1]

\* Mutant of call: visited is not cloned, so all calls share it.
callShares(frames, path, msg) ==
  Append([i \in DOMAIN frames |-> [frames[i] EXCEPT !.visited = @ \cup {msg}]],
         frame(path, msg, frames[Len(frames)].visited \cup {msg}))

call(frames, path, msg) ==
  Append(frames, frame(path, msg, frames[Len(frames)].visited \cup {msg}))

-----------------------------------------------------------------------------
running == outcome = "running"

(***************************************************************************)
(* ParseDir: a file that cannot be opened or parsed is skipped.            *)
(***************************************************************************)
ParseFile ==
  /\ running
  /\ parsed < Len(protos)
  /\ parsed' = parsed + 1
  /\ reg' = IF protos[parsed + 1].parses THEN collectElements(protos[parsed + 1], reg) ELSE reg
  /\ UNCHANGED <<inputs, done, stack, schema, shared, crds, outcome>>

-----------------------------------------------------------------------------
(***************************************************************************)
(* Run's loop over the messages.                                           *)
(***************************************************************************)
atMessage ==
  /\ running /\ parsed = Len(protos) /\ stack = <<>>
  /\ done < Len(messages)

Skip ==
  /\ atMessage
  /\ messages[done + 1] \in Blocked
  /\ done' = done + 1
  /\ UNCHANGED <<inputs, parsed, reg, stack, schema, shared, crds, outcome>>

\* Mutant of NotFound: the loop goes on to the next message.
notFoundContinues ==
  /\ atMessage
  /\ messages[done + 1] \notin Blocked
  /\ messages[done + 1] \notin DOMAIN reg.messages
  /\ done' = done + 1
  /\ UNCHANGED <<inputs, parsed, reg, stack, schema, shared, crds, outcome>>

NotFound ==
  /\ atMessage
  /\ messages[done + 1] \notin Blocked
  /\ messages[done + 1] \notin DOMAIN reg.messages
  /\ outcome' = "error"
  /\ UNCHANGED <<inputs, parsed, reg, done, stack, schema, shared, crds>>

(***************************************************************************)
(* MessageToSchema calls msgSchema with no message visited, not even the   *)
(* one it converts.                                                        *)
(***************************************************************************)
MessageToSchema ==
  /\ atMessage
  /\ messages[done + 1] \notin Blocked
  /\ messages[done + 1] \in DOMAIN reg.messages
  /\ stack' = <<frame(<<>>, messages[done + 1], {})>>
  /\ schema' = Empty
  /\ UNCHANGED <<inputs, parsed, reg, done, shared, crds, outcome>>

-----------------------------------------------------------------------------
(***************************************************************************)
(* One turn of msgSchema's loop over the fields.  The comment of a field   *)
(* of a well-known type is written into the shared schema, which is then   *)
(* copied.  A message is expanded by a call of its own, with a copy of     *)
(* visited.                                                                *)
(***************************************************************************)
top == stack[Len(stack)]

Field ==
  /\ running
  /\ stack # <<>>
  /\ top.next <= Len(fieldsOf(top.msg, reg))
  /\ LET field == fieldsOf(top.msg, reg)[top.next]
         type  == resolveType(field.type, top.msg, reg, top.visited)
         path  == Append(top.path, top.next)
         after == [stack EXCEPT ![Len(stack)].next = @ + 1]
     IN  /\ schema' = with(schema, path, propertyOf(field, type))
         /\ shared' = IF type.kind = "wellKnown" /\ field.shape = "single" /\ field.comment # NoComment
                        THEN [shared EXCEPT ![type.name] = field.comment] ELSE shared
         /\ stack' = IF type.kind = "message"
                       THEN call(after, path, type.name) ELSE after
  /\ UNCHANGED <<inputs, parsed, reg, done, crds, outcome>>

returning == running /\ stack # <<>> /\ top.next > Len(fieldsOf(top.msg, reg))

MsgSchemaReturns ==
  /\ returning
  /\ Len(stack) > 1
  /\ stack' = Front(stack)
  /\ UNCHANGED <<inputs, parsed, reg, done, schema, shared, crds, outcome>>

(***************************************************************************)
(* buildCRD and marshalCRD: the items of arrays and maps still point to    *)
(* the shared schemas.  The file is named for the message's simple name.   *)
(***************************************************************************)
\* Mutant of marshalled: single fields point to the shared schemas as well.
marshalledByReference(node) ==
  IF node.kind # "wellKnown" THEN node
  ELSE IF node.shape = "single" THEN [node EXCEPT !.description = shared[node.name]]
  ELSE [node EXCEPT !.items = shared[node.name]]

marshalled(node) ==
  IF node.kind = "wellKnown" /\ node.shape # "single"
    THEN [node EXCEPT !.items = shared[node.name]] ELSE node

kindExtraProps(kind) == IF kind \in DOMAIN ExtraProps THEN ExtraProps[kind] ELSE {}

buildCRD(msg) ==
  [source |-> msg,
   props  |-> {"targetRef", "spec", "status"} \cup kindExtraProps(Last(msg)),
   spec   |-> [p \in DOMAIN schema |-> marshalled(schema[p])]]

outPath(msg) == Plural[Last(msg)]

Torn == [source |-> <<>>, props |-> {}, spec |-> Empty]

WriteFile ==
  /\ returning
  /\ Len(stack) = 1
  /\ crds' = with(crds, outPath(top.msg), buildCRD(top.msg))
  /\ stack' = <<>>
  /\ done' = done + 1
  /\ UNCHANGED <<inputs, parsed, reg, schema, shared, outcome>>

(***************************************************************************)
(* The walk or MkdirAll fails; or WriteFile, which may have emptied the    *)
(* file by then.                                                           *)
(***************************************************************************)
WalkFails ==
  /\ running /\ done = 0 /\ stack = <<>>
  /\ outcome' = "error"
  /\ UNCHANGED <<inputs, parsed, reg, done, stack, schema, shared, crds>>

WriteFails ==
  /\ returning
  /\ Len(stack) = 1
  /\ crds' \in {crds, with(crds, outPath(top.msg), Torn)}
  /\ outcome' = "error"
  /\ UNCHANGED <<inputs, parsed, reg, done, stack, schema, shared>>

RunReturns ==
  /\ running /\ parsed = Len(protos) /\ stack = <<>>
  /\ done = Len(messages)
  /\ outcome' = "nil"
  /\ UNCHANGED <<inputs, parsed, reg, done, stack, schema, shared, crds>>

Init ==
  /\ protos \in Trees /\ messages \in Requests
  /\ parsed = 0 /\ done = 0
  /\ reg = [messages |-> Empty, enums |-> {}]
  /\ stack = <<>> /\ schema = Empty
  /\ shared = [w \in WellKnown |-> NoComment]
  /\ crds = Empty
  /\ outcome = "running"

Next ==
  \/ ParseFile \/ Skip \/ NotFound \/ MessageToSchema \/ Field \/ MsgSchemaReturns
  \/ WriteFile \/ WalkFails \/ WriteFails \/ RunReturns

Spec == Init /\ [][Next]_vars

-----------------------------------------------------------------------------
Frames ==
  [path : Seq(Nat), msg : DOMAIN reg.messages, visited : SUBSET DOMAIN reg.messages, next : Nat]

\* The type invariant: what is registered is named below its package, and
\* every call of msgSchema converts a registered message.
TypeOK ==
  /\ parsed \in 0..Len(protos) /\ done \in 0..Len(messages)
  /\ \A m \in DOMAIN reg.messages : IsPrefix(reg.messages[m].package, m) /\ IsSeq(fieldsOf(m, reg))
  /\ stack \in Seq(Frames)
  /\ DOMAIN schema \subseteq Seq(Nat)
  /\ DOMAIN shared = WellKnown
  /\ outcome \in {"running", "nil", "error"}

\* The cycle guard bounds the recursion however the messages refer to each
\* other: every call but the first expands a message that no call below it on
\* the stack expands.
DepthBounded == Len(stack) <= Cardinality(DOMAIN reg.messages) + 1

(***************************************************************************)
(* The schema of a message, by the registry alone: it has a node for each  *)
(* field of each message it expands, and a message is expanded unless it   *)
(* is already expanded above, the root aside.                              *)
(***************************************************************************)
above(nodes, p) == {nodes[SubSeq(p, 1, i)].name : i \in 1..(Len(p) - 1)}

owner(root, nodes, p) == IF Len(p) = 1 THEN root ELSE nodes[Front(p)].name

IsNode(root, nodes, r, p) ==
  LET msg  == owner(root, nodes, p)
      type == resolveType(fieldsOf(msg, r)[Last(p)].type, msg, r, above(nodes, p))
  IN  /\ p # <<>>
      /\ Len(p) > 1 => Front(p) \in DOMAIN nodes /\ nodes[Front(p)].kind = "message"
      /\ Last(p) \in DOMAIN fieldsOf(msg, r)
      /\ nodes[p].kind = type.kind /\ nodes[p].name = type.name

IsUnfolding(root, nodes, r) ==
  /\ \A p \in DOMAIN nodes : IsNode(root, nodes, r, p)
  /\ \A i \in DOMAIN fieldsOf(root, r) : <<i>> \in DOMAIN nodes
  /\ \A p \in DOMAIN nodes : nodes[p].kind = "message" =>
       \A i \in DOMAIN fieldsOf(nodes[p].name, r) : Append(p, i) \in DOMAIN nodes

\* Whatever was converted before, by this run or in sibling fields, a manifest
\* holds the schema the registry defines for its message: the visited sets of
\* the calls do not leak into each other.
SchemasAreUnfoldings ==
  \A f \in DOMAIN crds : crds[f] # Torn => IsUnfolding(crds[f].source, crds[f].spec, reg)

(***************************************************************************)
(* The comments that may describe a node of this type in place of its      *)
(* field's: the message's, or those of the single fields of the same       *)
(* well-known type, wherever they are.                                     *)
(***************************************************************************)
commentsOn(type, r) ==
  {x.comment : x \in {x \in UNION {Range(fieldsOf(m, r)) : m \in DOMAIN r.messages} :
                        x.type = type /\ x.shape = "single"}}

typeComments(node, r) ==
  {NoComment} \cup CASE node.kind = "message"   -> {r.messages[node.name].comment}
                     [] node.kind = "wellKnown" -> commentsOn(node.name, r)
                     [] OTHER                   -> {}

IsDescribed(root, nodes, r, p) ==
  LET comment == fieldsOf(owner(root, nodes, p), r)[Last(p)].comment
  IN  /\ nodes[p].items \in typeComments(nodes[p], r)
      /\ IF comment # NoComment THEN nodes[p].description = comment
         ELSE nodes[p].description \in typeComments(nodes[p], r)

\* The shared schemas of the well-known types leak descriptions between fields
\* (msgSchema writes the comment through the pointer it then copies), but only
\* between fields of one well-known type: a field with a comment is described
\* by that comment, any other by its type's or by a comment written for its
\* well-known type elsewhere.
Descriptions ==
  \A f \in DOMAIN crds : \A p \in DOMAIN crds[f].spec :
    IsDescribed(crds[f].source, crds[f].spec, reg, p)

\* Of the first n names, those whose manifests are written to this file.
written(file, n, names) == {i \in 1..n : names[i] \notin Blocked /\ outPath(names[i]) = file}

\* Run stops at the first message it cannot convert and leaves the manifests
\* it has written: the directory always holds, for each file, the last message
\* handled that is written there, and Run returns nil only if every message
\* that is not blocked has been written.
OutputIsPrefix ==
  /\ \A f \in DOMAIN crds :
       LET w == written(f, done, messages)
       IN  crds[f] # Torn => w # {} /\ crds[f].source = messages[Max(w)]
  /\ \A i \in 1..done : messages[i] \notin Blocked => outPath(messages[i]) \in DOMAIN crds
  /\ outcome = "nil" => done = Len(messages) /\ \A f \in DOMAIN crds : crds[f] # Torn

(***************************************************************************)
(* protobuf's scoping: an absolute name is a full name; any other is       *)
(* looked up in the scope of the field's message and outwards.             *)
(***************************************************************************)
protoScope(field, msg) ==
  LET scopes == {i \in 0..Len(msg) : inRegistry(below(msg, i, field.type), reg)}
  IN  IF field.absolute \/ scopes = {} THEN field.type ELSE below(msg, Max(scopes), field.type)

Referring(Ok(_, _)) ==
  parsed = Len(protos) =>
    \A m \in DOMAIN reg.messages : \A f \in Range(fieldsOf(m, reg)) :
      f.type \notin Scalars \cup WellKnown => Ok(f, m)

\* convert.go:154, resolveFQN "mirrors proto's own scoping rules": it does for every
\* field whose type is written with a leading dot exactly if what is written is a
\* full name.  (In a package envoy.v3 a field of type v3.T means envoy.v3.T, and
\* gets the schema of v3.T if there is one.)  The second scan, from the package
\* outwards, never finds what the first does not.
MirrorsUnlessFullName ==
  Referring(LAMBDA field, m :
    (field.absolute <=> inRegistry(field.type, reg))
      => resolveFQN(field.type, m, reg) = protoScope(field, m))

=============================================================================
