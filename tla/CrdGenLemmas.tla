----------------------------- MODULE CrdGenLemmas -----------------------------
(***************************************************************************)
(* How a schema is built: what a turn of msgSchema's loop, a call and a    *)
(* return do to the stack of calls and to the property nodes built so far, *)
(* for any registry.                                                       *)
(***************************************************************************)
EXTENDS CrdGen, FiniteSetTheorems, SequenceTheorems, WellFoundedInduction, TLAPS

\* The provers a leaf is tried with when it names none, and their time in seconds.
USE SMTT(30), ZenonT(30)

-----------------------------------------------------------------------------
\* What Front, Last and SubSeq give for a sequence that is one element longer.
LEMMA AppendFront ==
  ASSUME NEW S, NEW s \in Seq(S), NEW x \in S
  PROVE  /\ Append(s, x) \in Seq(S) /\ Len(Append(s, x)) = Len(s) + 1
         /\ Append(s, x) # <<>>
         /\ Front(Append(s, x)) = s /\ Last(Append(s, x)) = x
         /\ \A j \in 1..Len(s) : SubSeq(Append(s, x), 1, j) = SubSeq(s, 1, j)
         /\ SubSeq(Append(s, x), 1, Len(s) + 1) = Append(s, x)
<1>1. Append(s, x) \in Seq(S) /\ Len(Append(s, x)) = Len(s) + 1
  OBVIOUS
<1>2. Append(s, x) # <<>>
  <2>1. Len(s) \in Nat /\ Len(<<>>) = 0
    OBVIOUS
  <2>2. Len(Append(s, x)) # Len(<<>>)
    BY <1>1, <2>1
  <2> QED BY <2>2, ZenonT(30)
<1>3. ASSUME NEW j \in 1..Len(s)  PROVE SubSeq(Append(s, x), 1, j) = SubSeq(s, 1, j)
  OBVIOUS
<1>4. Front(Append(s, x)) = s /\ Last(Append(s, x)) = x
  BY <1>1 DEF Front, Last
<1>5. SubSeq(Append(s, x), 1, Len(s) + 1) = Append(s, x)
  BY <1>1
<1> QED BY <1>1, <1>2, <1>3, <1>4, <1>5

\* A sequence is its Front with its Last appended.
LEMMA FrontLast ==
  ASSUME NEW S, NEW s \in Seq(S), s # <<>>
  PROVE  /\ Front(s) \in Seq(S) /\ Len(Front(s)) = Len(s) - 1 /\ Last(s) \in S
         /\ \A i \in 1..(Len(s) - 1) : Front(s)[i] = s[i]
         /\ SubSeq(s, 1, Len(s)) = s
<1>1. Len(s) \in Nat /\ Len(s) > 0 /\ \A i \in 1..Len(s) : s[i] \in S
  OBVIOUS
<1> DEFINE n == Len(s) - 1
           t == SubSeq(s, 1, n)
<1>2. n \in Nat /\ n \in Int /\ 1 \in Int /\ \A i \in 1..n : s[i] \in S
  BY <1>1
<1> HIDE DEF n
<1>3. /\ t \in Seq(S)
      /\ Len(t) = IF 1 <= n THEN n - 1 + 1 ELSE 0
      /\ \A i \in 1..(n - 1 + 1) : t[i] = s[1 + i - 1]
  BY <1>2, SubSeqProperties
<1> HIDE DEF t
<1>4. t \in Seq(S) /\ Len(t) = n
  BY <1>2, <1>3
<1>5. \A i \in 1..n : t[i] = s[i]
  BY <1>2, <1>3
<1>8. Front(s) = t
  BY DEF Front, t, n
<1>6. Last(s) \in S
  BY <1>1 DEF Last
<1>7. SubSeq(s, 1, Len(s)) = s
  BY <1>1
<1> QED BY <1>4, <1>5, <1>6, <1>7, <1>8 DEF n

\* A non-empty bounded set of naturals has a greatest element, which is its Max.
LEMMA MaxExists ==
  ASSUME NEW n \in Nat, NEW T, T \subseteq 0..n, T # {}
  PROVE  Max(T) \in T /\ \A y \in T : Max(T) >= y
<1> DEFINE U == {k \in Nat : n - k \in T}
<1>1. U \subseteq Nat /\ U # {}
  <2>1. PICK t \in T : TRUE
    BY ZenonT(30)
  <2>2. n - t \in Nat /\ n - (n - t) = t
    BY <2>1
  <2> QED BY <2>1, <2>2, ZenonT(30)
<1>2. \E x \in U : \A y \in U : ~(<<y, x>> \in OpToRel(<, Nat))
  BY <1>1, NatLessThanWellFounded, WFMin, ZenonT(30)
<1>3. PICK x \in U : \A y \in U : ~(<<y, x>> \in OpToRel(<, Nat))
  BY <1>2, ZenonT(30)
<1>4. \A y \in U : ~(y < x)
  BY <1>1, <1>3, ZenonT(30) DEF OpToRel
<1>5. n - x \in T /\ \A y \in T : n - x >= y
  <2>1. ASSUME NEW y \in T  PROVE n - x >= y
    <3>1. n - y \in U /\ y \in Nat
      OBVIOUS
    <3>2. ~(n - y < x)
      BY <3>1, <1>4
    <3> QED BY <3>1, <3>2
  <2> QED BY <2>1
<1> QED BY <1>5, ZenonT(30) DEF Max

-----------------------------------------------------------------------------
\* A sequence is a prefix of what it is extended to: qualify puts a name below
\* its package.
LEMMA PrefixOfConcat ==
  ASSUME NEW s, NEW t, IsSeq(s), IsSeq(t)
  PROVE  IsPrefix(s, s \o t)
<1> DEFINE S == Range(s) \cup Range(t)
<1>1. s \in Seq(S) /\ t \in Seq(S)
  BY SeqMonotonic DEF IsSeq
<1> HIDE DEF S
<1>2. s \o t \in Seq(S) /\ Len(s \o t) = Len(s) + Len(t) /\ Len(s) \in Nat /\ Len(t) \in Nat
  BY <1>1
<1>3. s = SubSeq(s \o t, 1, Len(s))
  BY <1>1, <1>2
<1> QED BY <1>2, <1>3 DEF IsPrefix

\* It is a sequence too.
LEMMA ConcatIsSeq ==
  ASSUME NEW s, NEW t, IsSeq(s), IsSeq(t)
  PROVE  IsSeq(s \o t)
<1> DEFINE S == Range(s) \cup Range(t)
           u == s \o t
<1>1. s \in Seq(S) /\ t \in Seq(S)
  BY SeqMonotonic DEF IsSeq
<1> HIDE DEF S
<1>2. u \in Seq(S)
  BY <1>1
<1> HIDE DEF u
<1>3. Len(u) \in Nat /\ u \in [1..Len(u) -> Range(u)]
  BY <1>2 DEF Range
<1>4. IsSeq(u)
  BY <1>3, SeqDef DEF IsSeq
<1> QED BY <1>4 DEF u

\* A function on the indexes of a sequence is a sequence: the parser's fields.
LEMMA MapIsSeq ==
  ASSUME NEW s, IsSeq(s), NEW g, g = [i \in DOMAIN s |-> g[i]]
  PROVE  IsSeq(g)
<1>1. Len(s) \in Nat /\ DOMAIN s = 1..Len(s)
  BY DEF IsSeq
<1>2. g \in [1..Len(s) -> Range(g)]
  BY <1>1 DEF Range
<1> QED BY <1>1, <1>2, SeqDef DEF IsSeq

(***************************************************************************)
(* The registry is finite, its names are below their packages, and the     *)
(* fields of its messages are sequences.                                   *)
(***************************************************************************)
RegOK(r) ==
  /\ IsFiniteSet(DOMAIN r.messages)
  /\ \A m \in DOMAIN r.messages : IsPrefix(r.messages[m].package, m) /\ IsSeq(fieldsOf(m, r))

\* The names in it are sequences of parts.
NamesOK(r) ==
  \A m \in DOMAIN r.messages :
    /\ IsSeq(m) /\ IsSeq(r.messages[m].package)
    /\ \A x \in Range(fieldsOf(m, r)) : IsSeq(x.type)

\* Parsing a file keeps it so.
LEMMA CollectKeepsRegOK ==
  ASSUME NEW tree \in Trees, NEW k \in DOMAIN tree, NEW r, RegOK(r)
  PROVE  /\ RegOK(collectElements(tree[k], r))
         /\ NamesOK(r) => NamesOK(collectElements(tree[k], r))
<1> DEFINE file == tree[k]
           D == declaring(file, FALSE)
           N == declared(file, FALSE)
           c == collectElements(file, r)
           at(n) == {i \in D : qualify(file, file.decls[i]) = n}
<1>1. /\ IsSeq(file.package) /\ IsSeq(file.decls)
      /\ \A j \in DOMAIN file.decls :
           /\ IsSeq(file.decls[j].name) /\ IsSeq(file.decls[j].fields)
           /\ \A i \in DOMAIN file.decls[j].fields : IsField(file.decls[j].fields[i])
  BY InputsAssumption
<1> HIDE DEF file
<1>2. Len(file.decls) \in Nat /\ DOMAIN file.decls = 1..Len(file.decls)
  BY <1>1 DEF IsSeq
<1>3. D \in SUBSET (1..Len(file.decls))
  BY <1>2 DEF declaring
<1>4. IsFiniteSet(D)
  <2>1. IsFiniteSet(1..Len(file.decls))
    BY <1>2, FS_Interval
  <2> QED BY <1>3, <2>1, FS_Subset, ZenonT(30)
<1>5. N = {qualify(file, file.decls[i]) : i \in D}
  BY DEF declared
<1> HIDE DEF D, N
<1>6. IsFiniteSet(N)
  <2> DEFINE f == [i \in D |-> qualify(file, file.decls[i])]
  <2>1. f \in Surjection(D, N)
    BY <1>5 DEF Surjection
  <2> QED BY <2>1, <1>4, FS_Surjection
<1>7. DOMAIN c.messages = DOMAIN r.messages \cup N
  BY DEF collectElements, N
<1>8. IsFiniteSet(DOMAIN c.messages)
  BY <1>6, <1>7, FS_Union, ZenonT(30) DEF RegOK
<1>9. ASSUME NEW n \in N  PROVE Max(at(n)) \in D /\ qualify(file, file.decls[Max(at(n))]) = n
  <2>1. at(n) \subseteq 0..Len(file.decls) /\ at(n) # {}
    BY <1>2, <1>3, <1>5
  <2>2. Max(at(n)) \in at(n)
    BY <2>1, <1>2, MaxExists, ZenonT(30)
  <2> QED BY <2>2
<1>10. ASSUME NEW n \in N
       PROVE  c.messages[n] = messageOf(file, file.decls[Max(at(n))])
  BY <1>10 DEF collectElements, N, D
<1>11. ASSUME NEW n \in (DOMAIN r.messages) \ N  PROVE c.messages[n] = r.messages[n]
  BY <1>11, ZenonT(30) DEF collectElements, N
<1>12. ASSUME NEW n \in N
       PROVE  IsPrefix(c.messages[n].package, n) /\ IsSeq(fieldsOf(n, c))
  <2> DEFINE d == file.decls[Max(at(n))]
             g == [i \in DOMAIN d.fields |-> fieldOf(d.fields[i])]
  <2>1. IsSeq(d.name) /\ IsSeq(d.fields) /\ n = file.package \o d.name
    BY <1>1, <1>2, <1>3, <1>9, ZenonT(30) DEF qualify
  <2>2. c.messages[n].package = file.package /\ fieldsOf(n, c) = g
    <3> HIDE DEF c, d
    <3>1. c.messages[n] = messageOf(file, d)
      BY <1>10 DEF d
    <3> QED BY <3>1 DEF messageOf, fieldsOf
  <2>3. IsPrefix(file.package, n)
    BY <2>1, <1>1, PrefixOfConcat, ZenonT(30)
  <2>4. IsSeq(g)
    <3> HIDE DEF d
    <3>1. g = [i \in DOMAIN d.fields |-> g[i]]
      OBVIOUS
    <3> HIDE DEF g
    <3> QED BY <3>1, <2>1, MapIsSeq
  <2> QED BY <2>2, <2>3, <2>4, ZenonT(30)
<1>13. ASSUME NEW n \in (DOMAIN r.messages) \ N
       PROVE  IsPrefix(c.messages[n].package, n) /\ IsSeq(fieldsOf(n, c))
  BY <1>11 DEF RegOK, fieldsOf
<1>14. RegOK(c)
  BY <1>7, <1>8, <1>12, <1>13 DEF RegOK
<1>15. ASSUME NEW n \in N
       PROVE  /\ IsSeq(n) /\ IsSeq(c.messages[n].package)
              /\ \A x \in Range(fieldsOf(n, c)) : IsSeq(x.type)
  <2> DEFINE d == file.decls[Max(at(n))]
             g == [i \in DOMAIN d.fields |-> fieldOf(d.fields[i])]
  <2>1. /\ IsSeq(d.name) /\ IsSeq(d.fields) /\ n = file.package \o d.name
        /\ \A i \in DOMAIN d.fields : IsField(d.fields[i])
    BY <1>1, <1>2, <1>3, <1>9, ZenonT(30) DEF qualify
  <2> HIDE DEF c, d
  <2>2. c.messages[n].package = file.package /\ fieldsOf(n, c) = g
    <3>1. c.messages[n] = messageOf(file, d)
      BY <1>10 DEF d
    <3> QED BY <3>1 DEF messageOf, fieldsOf
  <2>3. \A i \in DOMAIN d.fields : g[i].type = d.fields[i].type
    <3>1. ASSUME NEW x, IsField(x)  PROVE fieldOf(x).type = x.type
      BY <3>1 DEF fieldOf, IsField
    <3> QED BY <2>1, <3>1
  <2>4. \A x \in Range(g) : IsSeq(x.type)
    BY <2>1, <2>3, ZenonT(30) DEF Range, IsField
  <2>5. IsSeq(n)
    BY <1>1, <2>1, ConcatIsSeq, ZenonT(30)
  <2> QED BY <1>1, <2>2, <2>4, <2>5
<1>16. ASSUME NamesOK(r), NEW n \in (DOMAIN r.messages) \ N
       PROVE  /\ IsSeq(n) /\ IsSeq(c.messages[n].package)
              /\ \A x \in Range(fieldsOf(n, c)) : IsSeq(x.type)
  BY <1>11, <1>16 DEF NamesOK, fieldsOf
<1>17. NamesOK(r) => NamesOK(c)
  BY <1>7, <1>15, <1>16 DEF NamesOK
<1> QED BY <1>14, <1>17 DEF file

-----------------------------------------------------------------------------
(***************************************************************************)
(* Trees of property nodes.  One that grows, or is marshalled, keeps the   *)
(* kinds and the names of the nodes it has.                                *)
(***************************************************************************)
Closed(nodes) ==
  \A p \in DOMAIN nodes : p \in Seq(Nat) /\ \A i \in 1..Len(p) : SubSeq(p, 1, i) \in DOMAIN nodes

Keeps(nodes, later) ==
  /\ DOMAIN nodes \subseteq DOMAIN later
  /\ \A p \in DOMAIN nodes : later[p].name = nodes[p].name /\ later[p].kind = nodes[p].kind

names(nodes, p) == {nodes[SubSeq(p, 1, i)].name : i \in 1..Len(p)}

Complete(nodes, r, p) ==
  \A i \in DOMAIN fieldsOf(nodes[p].name, r) : Append(p, i) \in DOMAIN nodes

\* What is above a node stays above it.
LEMMA NamesKept ==
  ASSUME NEW nodes, NEW later, Closed(nodes), Keeps(nodes, later), NEW p \in DOMAIN nodes
  PROVE  names(later, p) = names(nodes, p) /\ above(later, p) = above(nodes, p)
<1>1. p \in Seq(Nat) /\ Len(p) \in Nat
  BY DEF Closed
<1>2. \A i \in 1..Len(p) : later[SubSeq(p, 1, i)].name = nodes[SubSeq(p, 1, i)].name
  BY DEF Closed, Keeps
<1>3. names(later, p) = names(nodes, p)
  BY <1>2 DEF names
<1>4. \A i \in 1..(Len(p) - 1) : later[SubSeq(p, 1, i)].name = nodes[SubSeq(p, 1, i)].name
  BY <1>1, <1>2
<1>5. above(later, p) = above(nodes, p)
  BY <1>4 DEF above
<1> QED BY <1>3, <1>5

\* A node stays the node of its field.
LEMMA NodeKept ==
  ASSUME NEW nodes, NEW later, Closed(nodes), Keeps(nodes, later), NEW p \in DOMAIN nodes,
         NEW root, NEW r, IsNode(root, nodes, r, p)
  PROVE  IsNode(root, later, r, p)
<1>1. p # <<>> /\ p \in Seq(Nat) /\ Len(p) \in Nat /\ Len(p) # 0
  <2>1. p # <<>>
    BY DEF IsNode
  <2>2. p \in Seq(Nat)
    BY DEF Closed
  <2> QED BY <2>1, <2>2
<1>2. Len(p) > 1 => Front(p) \in DOMAIN nodes
  BY DEF IsNode
<1>3. owner(root, later, p) = owner(root, nodes, p)
  <2>1. Len(p) # 1 => later[Front(p)].name = nodes[Front(p)].name
    <3> DEFINE n == Len(p)
    <3>1. n \in Nat /\ n # 0
      BY <1>1
    <3> HIDE DEF n
    <3>2. n # 1 => n > 1
      BY <3>1
    <3> QED BY <3>2, <1>2 DEF Keeps, n
  <2> QED BY <2>1 DEF owner
<1>4. above(later, p) = above(nodes, p)
  BY NamesKept
<1>5. later[p].name = nodes[p].name /\ later[p].kind = nodes[p].kind
  BY DEF Keeps
<1>6. Len(p) > 1 => Front(p) \in DOMAIN later /\ later[Front(p)].kind = nodes[Front(p)].kind
  BY <1>2 DEF Keeps
<1> QED BY <1>2, <1>3, <1>4, <1>5, <1>6 DEF IsNode

\* An unfolding stays one if no node is added.
LEMMA UnfoldingKept ==
  ASSUME NEW nodes, NEW later, Closed(nodes), Keeps(nodes, later), DOMAIN later = DOMAIN nodes,
         NEW root, NEW r, IsUnfolding(root, nodes, r)
  PROVE  IsUnfolding(root, later, r)
<1>1. \A p \in DOMAIN later : IsNode(root, later, r, p)
  BY NodeKept DEF IsUnfolding
<1>2. \A i \in DOMAIN fieldsOf(root, r) : <<i>> \in DOMAIN later
  BY ZenonT(30) DEF IsUnfolding
<1>3. \A p \in DOMAIN later : later[p].kind = "message" =>
        \A i \in DOMAIN fieldsOf(later[p].name, r) : Append(p, i) \in DOMAIN later
  BY DEF IsUnfolding, Keeps
<1> QED BY <1>1, <1>2, <1>3 DEF IsUnfolding

(***************************************************************************)
(* The stack of calls: each expands the message of its path's node, with   *)
(* the names above its fields visited, and has built the nodes of the      *)
(* fields before next.                                                     *)
(***************************************************************************)
FrameOK(f, nodes) ==
  /\ f.path # <<>> => /\ f.path \in DOMAIN nodes
                      /\ nodes[f.path].kind = "message" /\ nodes[f.path].name = f.msg
  /\ f.visited = names(nodes, f.path)
  /\ \A j \in 1..(f.next - 1) : Append(f.path, j) \in DOMAIN nodes

AllNodes(root, nodes, r) == \A p \in DOMAIN nodes : IsNode(root, nodes, r, p)

Building(frames, nodes, r) ==
  /\ frames[1].path = <<>>
  /\ \A i \in 1..Len(frames) :
       FrameOK(frames[i], nodes) /\ (frames[i].path = <<>> => frames[i].msg = frames[1].msg)
  /\ AllNodes(frames[1].msg, nodes, r)
  /\ \A p \in DOMAIN nodes : nodes[p].kind = "message" =>
            Complete(nodes, r, p) \/ \E i \in 1..Len(frames) : frames[i].path = p

\* A call stays as it should be when nodes are added.
LEMMA FrameKept ==
  ASSUME NEW nodes, NEW later, Closed(nodes), Keeps(nodes, later),
         NEW f, FrameOK(f, nodes)
  PROVE  FrameOK(f, later)
<1>1. f.path # <<>> => names(later, f.path) = names(nodes, f.path)
  BY NamesKept DEF FrameOK
<1>2. f.path = <<>> => names(later, f.path) = {} /\ names(nodes, f.path) = {}
  BY DEF names
<1>3. names(later, f.path) = names(nodes, f.path)
  BY <1>1, <1>2, ZenonT(30)
<1> QED BY <1>3 DEF FrameOK, Keeps

\* A call f is at its n-th field, which is of this type.
AtField(root, nodes, r, f, n, type) ==
  /\ FrameOK(f, nodes)
  /\ f.path \in Seq(Nat) /\ (f.path = <<>> => f.msg = root)
  /\ n \in Nat /\ n \in DOMAIN fieldsOf(f.msg, r)
  /\ type = resolveType(fieldsOf(f.msg, r)[n].type, f.msg, r, f.visited)

IsOf(node, type) == node.kind = type.kind /\ node.name = type.name

\* The field a call is at gets the node the registry defines for it.
LEMMA FieldBuildsNode ==
  ASSUME NEW nodes, Closed(nodes), NEW later, Keeps(nodes, later),
         NEW root, NEW r, NEW f, NEW n, NEW type, AtField(root, nodes, r, f, n, type)
  PROVE  IsOf(later[Append(f.path, n)], type) <=> IsNode(root, later, r, Append(f.path, n))
<1> DEFINE p == Append(f.path, n)
<1>1. /\ p \in Seq(Nat) /\ Len(p) = Len(f.path) + 1 /\ p # <<>> /\ Front(p) = f.path /\ Last(p) = n
      /\ \A j \in 1..Len(f.path) : SubSeq(p, 1, j) = SubSeq(f.path, 1, j)
  BY AppendFront DEF AtField
<1>2. Len(f.path) \in Nat /\ (Len(f.path) = 0 <=> f.path = <<>>)
  BY DEF AtField
<1> HIDE DEF p
<1>3. f.path # <<>> =>
        f.path \in DOMAIN later /\ later[f.path].kind = "message" /\ later[f.path].name = f.msg
  BY DEF FrameOK, Keeps, AtField
<1>4. owner(root, later, p) = f.msg
  <2>1. CASE f.path = <<>>
    BY <2>1, <1>1, <1>2 DEF owner, AtField
  <2>2. CASE f.path # <<>>
    BY <2>2, <1>1, <1>2, <1>3 DEF owner
  <2> QED BY <2>1, <2>2
<1>5. above(later, p) = f.visited
  <2>1. above(later, p) = names(later, f.path)
    <3>1. Len(p) - 1 = Len(f.path)
      BY <1>1, <1>2
    <3> QED BY <3>1, <1>1, ZenonT(30) DEF above, names
  <2>2. FrameOK(f, later)
    BY FrameKept DEF AtField
  <2> QED BY <2>1, <2>2 DEF FrameOK
<1>6. Len(p) > 1 => Front(p) \in DOMAIN later /\ later[Front(p)].kind = "message"
  <2>1. Len(p) > 1 => f.path # <<>>
    BY <1>1, <1>2
  <2> QED BY <2>1, <1>1, <1>3
<1>7. IsOf(later[p], type) <=> IsNode(root, later, r, p)
  BY <1>1, <1>4, <1>5, <1>6 DEF IsNode, AtField, IsOf
<1> QED BY <1>7 DEF p

\* later is nodes with the node of this field, which is of this type.
Adds(nodes, later, f, n, type) ==
  /\ DOMAIN later = DOMAIN nodes \cup {Append(f.path, n)}
  /\ \A p \in DOMAIN nodes : p # Append(f.path, n) => later[p] = nodes[p]
  /\ IsOf(later[Append(f.path, n)], type)

\* Adding the node of the field a call is at keeps the nodes there are, and
\* every node is that of its field.
LEMMA NodeAdded ==
  ASSUME NEW nodes, Closed(nodes), NEW root, NEW r, AllNodes(root, nodes, r),
         NEW f, NEW n, NEW type, AtField(root, nodes, r, f, n, type),
         NEW later, Adds(nodes, later, f, n, type)
  PROVE  Keeps(nodes, later) /\ Closed(later) /\ AllNodes(root, later, r)
<1> DEFINE q == Append(f.path, n)
<1>1. /\ DOMAIN later = DOMAIN nodes \cup {q} /\ IsOf(later[q], type)
      /\ \A p \in DOMAIN nodes : p # q => later[p] = nodes[p]
  BY DEF Adds
<1>2. /\ q \in Seq(Nat) /\ Len(q) = Len(f.path) + 1 /\ SubSeq(q, 1, Len(f.path) + 1) = q
      /\ \A j \in 1..Len(f.path) : SubSeq(q, 1, j) = SubSeq(f.path, 1, j)
  BY AppendFront, ZenonT(30) DEF AtField
<1>3. q \in DOMAIN nodes => nodes[q].kind = type.kind /\ nodes[q].name = type.name
  <2>1. Keeps(nodes, nodes)
    BY DEF Keeps
  <2>2. IsOf(nodes[q], type) <=> IsNode(root, nodes, r, q)
    BY <2>1, FieldBuildsNode
  <2> QED BY <2>2 DEF IsOf, AllNodes
<1>4. Keeps(nodes, later)
  <2>1. ASSUME NEW p \in DOMAIN nodes
        PROVE  later[p].name = nodes[p].name /\ later[p].kind = nodes[p].kind
    <3>1. CASE p = q
      BY <3>1, <1>1, <1>3 DEF IsOf
    <3>2. CASE p # q
      BY <3>2, <1>1
    <3> QED BY <3>1, <3>2
  <2> QED BY <2>1, <1>1 DEF Keeps
<1>5. IsNode(root, later, r, q)
  <2>1. IsOf(later[q], type) <=> IsNode(root, later, r, q)
    BY <1>4, FieldBuildsNode
  <2> QED BY <2>1, <1>1
<1> HIDE DEF q
<1>6. AllNodes(root, later, r)
  <2>1. ASSUME NEW p \in DOMAIN nodes  PROVE IsNode(root, later, r, p)
    BY <1>4, NodeKept DEF AllNodes
  <2> QED BY <2>1, <1>1, <1>5 DEF AllNodes
<1>7. Closed(later)
  <2>1. ASSUME NEW p \in DOMAIN later
        PROVE  p \in Seq(Nat) /\ \A i \in 1..Len(p) : SubSeq(p, 1, i) \in DOMAIN later
    <3>1. CASE p \in DOMAIN nodes
      BY <3>1, <1>1 DEF Closed
    <3>2. CASE p = q
      <4>1. \A i \in 1..Len(f.path) : SubSeq(f.path, 1, i) \in DOMAIN nodes
        <5>1. CASE f.path = <<>>
          BY <5>1
        <5>2. CASE f.path # <<>>
          BY <5>2 DEF FrameOK, Closed, AtField
        <5> QED BY <5>1, <5>2
      <4>2. ASSUME NEW i \in 1..Len(q)  PROVE SubSeq(q, 1, i) \in DOMAIN later
        <5>1. i \in 1..Len(f.path) \/ i = Len(f.path) + 1
          BY <1>2
        <5>2. CASE i \in 1..Len(f.path)
          BY <5>2, <4>1, <1>1, <1>2, ZenonT(30)
        <5>3. CASE i = Len(f.path) + 1
          BY <5>3, <1>1, <1>2
        <5> QED BY <5>1, <5>2, <5>3
      <4> QED BY <3>2, <4>2, <1>2
    <3> QED BY <3>1, <3>2, <1>1
  <2> QED BY <2>1 DEF Closed
<1> QED BY <1>4, <1>6, <1>7

-----------------------------------------------------------------------------
(***************************************************************************)
(* The calls of msgSchema: each has visited as many messages as there are  *)
(* calls before it.                                                        *)
(***************************************************************************)
FramesOf(r) ==
  [path : Seq(Nat), msg : DOMAIN r.messages, visited : SUBSET DOMAIN r.messages, next : Nat]

Calls(frames, r) ==
  /\ frames \in Seq(FramesOf(r))
  /\ \A i \in 1..Len(frames) : Cardinality(frames[i].visited) = i - 1 /\ frames[i].next >= 1

advance(frames) == [frames EXCEPT ![Len(frames)].next = @ + 1]

\* What Calls says of each call.
LEMMA CallFacts ==
  ASSUME NEW r, NEW frames, Calls(frames, r), NEW i \in 1..Len(frames)
  PROVE  /\ frames[i].path \in Seq(Nat) /\ frames[i].msg \in DOMAIN r.messages
         /\ frames[i].visited \subseteq DOMAIN r.messages
         /\ frames[i].next \in Nat /\ frames[i].next >= 1
         /\ Cardinality(frames[i].visited) = i - 1
<1>1. frames[i] \in FramesOf(r)
  BY DEF Calls
<1> QED BY <1>1 DEF Calls, FramesOf

\* a is frames with the last call at its next field.
OneOn(a, frames) ==
  /\ Len(a) = Len(frames)
  /\ \A i \in 1..Len(frames) :
       /\ a[i].path = frames[i].path /\ a[i].msg = frames[i].msg /\ a[i].visited = frames[i].visited
       /\ i # Len(frames) => a[i].next = frames[i].next
       /\ i = Len(frames) => a[i].next = frames[i].next + 1

\* The last call moves on to its next field.
LEMMA Advanced ==
  ASSUME NEW r, NEW frames, Calls(frames, r), frames # <<>>
  PROVE  /\ Calls(advance(frames), r) /\ OneOn(advance(frames), frames)
         /\ Len(frames) \in Nat /\ Len(frames) > 0
<1> DEFINE k == Len(frames)
           a == advance(frames)
           F == FramesOf(r)
<1>1. k \in Nat /\ k > 0 /\ frames \in Seq(F) /\ frames \in [1..k -> F]
  BY DEF Calls
<1>2. a = [i \in 1..k |-> IF i = k THEN [frames[i] EXCEPT !.next = @ + 1] ELSE frames[i]]
  BY <1>1, ZenonT(30) DEF advance
<1>3. \A i \in 1..k : frames[i] \in F
  BY <1>1
<1>4. [frames[k] EXCEPT !.next = @ + 1] \in F
  <2>1. frames[k] \in F
    BY <1>1, <1>3
  <2> QED BY <2>1 DEF FramesOf
<1> HIDE DEF F
<1>5. a \in [1..k -> F]
  BY <1>1, <1>2, <1>3, <1>4
<1>6. a \in Seq(F) /\ Len(a) = k
  BY <1>1, <1>5, SeqDef, LenProperties
<1>7. ASSUME NEW i \in 1..k
      PROVE  /\ a[i].path = frames[i].path /\ a[i].msg = frames[i].msg
             /\ a[i].visited = frames[i].visited
             /\ i # k => a[i].next = frames[i].next
             /\ i = k => a[i].next = frames[i].next + 1
  <2>1. CASE i = k
    <3>1. a[i] = [frames[i] EXCEPT !.next = @ + 1] /\ frames[i] \in F
      BY <2>1, <1>1, <1>2, <1>3
    <3> QED BY <2>1, <3>1 DEF F, FramesOf
  <2>2. CASE i # k
    BY <2>2, <1>2
  <2> QED BY <2>1, <2>2
<1>8. ASSUME NEW i \in 1..Len(a)  PROVE Cardinality(a[i].visited) = i - 1 /\ a[i].next >= 1
  <2>1. i \in 1..k
    BY <1>6
  <2>2. Cardinality(frames[i].visited) = i - 1 /\ frames[i].next \in Nat /\ frames[i].next >= 1
    BY <2>1, CallFacts
  <2>3. a[i].next = frames[i].next \/ a[i].next = frames[i].next + 1
    BY <2>1, <1>7
  <2>4. a[i].next >= 1
    BY <2>2, <2>3
  <2> QED BY <2>1, <2>2, <2>4, <1>7
<1>9. Calls(a, r)
  BY <1>6, <1>8 DEF Calls, F
<1>10. OneOn(a, frames)
  BY <1>6, <1>7 DEF OneOn
<1> QED BY <1>1, <1>9, <1>10

\* c is frames with a call for msg added.
OneMore(c, frames, path, msg) ==
  /\ Len(c) = Len(frames) + 1
  /\ \A i \in 1..Len(frames) : c[i] = frames[i]
  /\ c[Len(frames) + 1] = frame(path, msg, frames[Len(frames)].visited \cup {msg})

\* The last call makes a call for a message it has not visited.
LEMMA Pushed ==
  ASSUME NEW r, RegOK(r), NEW frames, Calls(frames, r), frames # <<>>,
         NEW msg \in DOMAIN r.messages, msg \notin frames[Len(frames)].visited,
         NEW path \in Seq(Nat)
  PROVE  /\ Calls(call(frames, path, msg), r)
         /\ OneMore(call(frames, path, msg), frames, path, msg)
<1> DEFINE k == Len(frames)
           visited == frames[k].visited \cup {msg}
           c == call(frames, path, msg)
           F == FramesOf(r)
<1>1. k \in Nat /\ k > 0 /\ k \in 1..Len(frames) /\ frames \in Seq(F)
  BY DEF Calls
<1>2. frames[k].visited \subseteq DOMAIN r.messages /\ Cardinality(frames[k].visited) = k - 1
  BY <1>1, CallFacts
<1>3. IsFiniteSet(frames[k].visited)
  BY <1>2, FS_Subset DEF RegOK
<1>4. Cardinality(visited) = k
  <2>1. Cardinality(visited) = Cardinality(frames[k].visited) + 1
    BY <1>3, FS_AddElement, ZenonT(30)
  <2> QED BY <2>1, <1>1, <1>2
<1>5. frame(path, msg, visited) \in F
  BY <1>2 DEF frame, FramesOf
<1>6. c = Append(frames, frame(path, msg, visited))
  BY DEF call
<1>7. frame(path, msg, visited).visited = visited /\ frame(path, msg, visited).next = 1
  BY DEF frame
<1> HIDE DEF F, visited, c, k
<1>8. /\ c \in Seq(F) /\ Len(c) = k + 1 /\ c[k + 1] = frame(path, msg, visited)
      /\ \A i \in 1..k : c[i] = frames[i]
  BY <1>1, <1>5, <1>6 DEF k
<1>9. ASSUME NEW i \in 1..Len(c)  PROVE Cardinality(c[i].visited) = i - 1 /\ c[i].next >= 1
  <2>1. i \in 1..k \/ i = k + 1
    BY <1>1, <1>8
  <2>2. CASE i \in 1..k
    <3>1. c[i] = frames[i]
      BY <2>2, <1>8
    <3> QED BY <2>2, <3>1 DEF Calls, k
  <2>3. CASE i = k + 1
    <3>1. c[i].visited = visited /\ c[i].next = 1
      BY <2>3, <1>7, <1>8
    <3>2. Cardinality(c[i].visited) = i - 1
      BY <3>1, <2>3, <1>1, <1>4
    <3> QED BY <3>1, <3>2
  <2> QED BY <2>1, <2>2, <2>3
<1>10. Calls(c, r)
  BY <1>8, <1>9 DEF Calls, F
<1>11. OneMore(c, frames, path, msg)
  BY <1>8 DEF OneMore, k, visited
<1> QED BY <1>10, <1>11 DEF c

\* The last call returns.
LEMMA Popped ==
  ASSUME NEW r, NEW frames, Calls(frames, r), frames # <<>>
  PROVE  /\ Calls(Front(frames), r) /\ Len(Front(frames)) = Len(frames) - 1
         /\ \A i \in 1..(Len(frames) - 1) : Front(frames)[i] = frames[i]
<1> DEFINE c == Front(frames)
           F == FramesOf(r)
<1>1. frames \in Seq(F) /\ Len(frames) \in Nat
  BY DEF Calls
<1> HIDE DEF F
<1>2. /\ c \in Seq(F) /\ Len(c) = Len(frames) - 1
      /\ \A i \in 1..(Len(frames) - 1) : c[i] = frames[i]
  BY <1>1, FrontLast
<1> HIDE DEF c
<1>3. ASSUME NEW i \in 1..Len(c)  PROVE Cardinality(c[i].visited) = i - 1 /\ c[i].next >= 1
  <2>1. i \in 1..Len(frames) /\ c[i] = frames[i]
    BY <1>1, <1>2
  <2> QED BY <2>1 DEF Calls
<1>4. Calls(c, r)
  BY <1>2, <1>3 DEF Calls, F
<1> QED BY <1>2, <1>4 DEF c

\* There are at most as many calls below the first as there are messages.
LEMMA CallsBounded ==
  ASSUME NEW r, RegOK(r), NEW frames, Calls(frames, r)
  PROVE  Len(frames) <= Cardinality(DOMAIN r.messages) + 1
<1> DEFINE k == Len(frames)
           m == Cardinality(DOMAIN r.messages)
<1>1. k \in Nat /\ m \in Nat
  BY FS_CardinalityType DEF Calls, RegOK
<1>2. CASE k = 0
  BY <1>1, <1>2
<1>3. CASE k # 0
  <2>1. k \in 1..Len(frames)
    BY <1>1, <1>3
  <2>2. frames[k].visited \subseteq DOMAIN r.messages /\ Cardinality(frames[k].visited) = k - 1
    BY <2>1, CallFacts
  <2>3. Cardinality(frames[k].visited) <= m
    BY <2>2, FS_Subset DEF RegOK
  <2> HIDE DEF k, m
  <2>4. k - 1 <= m
    BY <2>2, <2>3
  <2>5. k <= m + 1
    BY <2>4, <1>1
  <2> QED BY <2>5 DEF k, m
<1> QED BY <1>2, <1>3

\* The cycle guard: a type that is expanded is a registered message that has
\* not been visited.
LEMMA ExpandedUnvisited ==
  ASSUME NEW name, NEW msg, NEW r, NEW visited,
         resolveType(name, msg, r, visited).kind = "message"
  PROVE  LET m == resolveType(name, msg, r, visited).name
         IN  m \in DOMAIN r.messages /\ m \notin visited
<1> DEFINE fqn == resolveFQN(name, msg, r)
<1>1. resolveType(name, msg, r, visited) = resolveMessageOrEnum(fqn, r, visited)
  <2>1. name \notin Scalars /\ name \notin WellKnown
    <3>1. CASE name \in Scalars
      <4>1. resolveType(name, msg, r, visited).kind = "scalar"
        BY <3>1 DEF resolveType
      <4> QED BY <4>1
    <3>2. CASE name \notin Scalars /\ name \in WellKnown
      <4>1. resolveType(name, msg, r, visited).kind = "wellKnown"
        BY <3>2 DEF resolveType
      <4> QED BY <4>1
    <3> QED BY <3>1, <3>2
  <2> QED BY <2>1 DEF resolveType
<1> HIDE DEF fqn
<1>2. fqn \notin visited /\ declaredKind(fqn, r) = "message"
  BY <1>1 DEF resolveMessageOrEnum
<1>3. fqn \in DOMAIN r.messages
  BY <1>2 DEF declaredKind
<1>4. resolveType(name, msg, r, visited).name = fqn
  BY <1>1 DEF resolveMessageOrEnum
<1> QED BY <1>2, <1>3, <1>4

\* A turn of the last call's loop, at a field of this type.
Turn(frames, nodes, r, f, type) ==
  /\ RegOK(r) /\ Calls(frames, r) /\ frames # <<>>
  /\ Closed(nodes) /\ Building(frames, nodes, r)
  /\ f = frames[Len(frames)] /\ f.next \in DOMAIN fieldsOf(f.msg, r)
  /\ type = resolveType(fieldsOf(f.msg, r)[f.next].type, f.msg, r, f.visited)

\* A field that is not expanded: the call goes on with the next one.
LEMMA FieldBuilds ==
  ASSUME NEW r, NEW frames, NEW nodes, NEW f, NEW type, Turn(frames, nodes, r, f, type),
         NEW later, Adds(nodes, later, f, f.next, type)
  PROVE  /\ Closed(later) /\ Keeps(nodes, later)
         /\ AllNodes(frames[1].msg, later, r)
         /\ \A i \in 1..Len(frames) : FrameOK(advance(frames)[i], later)
         /\ type.kind # "message" => Building(advance(frames), later, r)
<1> DEFINE k == Len(frames)
           root == frames[1].msg
           a == advance(frames)
           q == Append(f.path, f.next)
<1>1. k \in Nat /\ k > 0 /\ k \in 1..k /\ 1 \in 1..k
  BY Advanced DEF Turn
<1>2. f.path \in Seq(Nat) /\ f.next \in Nat /\ f.next >= 1
  BY <1>1, CallFacts DEF Turn
<1>3. AtField(root, nodes, r, f, f.next, type)
  BY <1>1, <1>2, ZenonT(30) DEF AtField, Building, Turn
<1>4. AllNodes(root, nodes, r) /\ Closed(nodes)
  BY ZenonT(30) DEF Building, Turn
<1>5. /\ Keeps(nodes, later) /\ Closed(later) /\ AllNodes(root, later, r)
      /\ DOMAIN later = DOMAIN nodes \cup {q} /\ IsOf(later[q], type)
  <2>1. Keeps(nodes, later) /\ Closed(later) /\ AllNodes(root, later, r)
    BY <1>3, <1>4, NodeAdded
  <2> QED BY <2>1, ZenonT(30) DEF Adds
<1>6. /\ Len(a) = k
      /\ \A i \in 1..k :
           /\ a[i].path = frames[i].path /\ a[i].msg = frames[i].msg
           /\ a[i].visited = frames[i].visited
           /\ i # k => a[i].next = frames[i].next
           /\ i = k => a[i].next = frames[i].next + 1
  <2>1. OneOn(a, frames)
    BY Advanced, ZenonT(30) DEF Turn
  <2> QED BY <2>1 DEF OneOn
<1> HIDE DEF a, k, q
<1>7. ASSUME NEW i \in 1..k  PROVE FrameOK(a[i], later)
  <2>1. FrameOK(frames[i], later)
    <3>1. FrameOK(frames[i], nodes)
      BY ZenonT(30) DEF Building, Turn, k
    <3> QED BY <3>1, <1>4, <1>5, FrameKept
  <2>2. CASE i # k
    BY <2>1, <2>2, <1>6, ZenonT(30) DEF FrameOK
  <2>3. CASE i = k
    <3>1. frames[i] = f
      BY <2>3 DEF Turn, k
    <3>2. a[i].path = f.path /\ a[i].msg = f.msg /\ a[i].visited = f.visited /\ a[i].next = f.next + 1
      BY <2>3, <3>1, <1>6
    <3>3. ASSUME NEW j \in 1..(a[i].next - 1)  PROVE Append(f.path, j) \in DOMAIN later
      <4>1. j \in 1..(f.next - 1) \/ j = f.next
        BY <3>2, <1>2
      <4>2. CASE j \in 1..(f.next - 1)
        BY <4>2, <2>1, <3>1 DEF FrameOK
      <4>3. CASE j = f.next
        BY <4>3, <1>5 DEF q
      <4> QED BY <4>1, <4>2, <4>3
    <3> QED BY <2>1, <3>1, <3>2, <3>3, ZenonT(30) DEF FrameOK
  <2> QED BY <2>2, <2>3
<1>8. ASSUME NEW p \in DOMAIN nodes, later[p].kind = "message"
      PROVE  Complete(later, r, p) \/ \E i \in 1..k : a[i].path = p
  <2>1. nodes[p].kind = "message" /\ later[p].name = nodes[p].name
    BY <1>5, <1>8, ZenonT(30) DEF Keeps
  <2>2. Complete(nodes, r, p) \/ \E i \in 1..k : frames[i].path = p
    BY <2>1, ZenonT(30) DEF Building, Turn, k
  <2>3. Complete(nodes, r, p) => Complete(later, r, p)
    BY <2>1, <1>5 DEF Complete, Keeps
  <2> QED BY <2>2, <2>3, <1>6
<1>9. ASSUME type.kind # "message"  PROVE Building(a, later, r)
  <2>1. a[1].path = <<>> /\ a[1].msg = root
    BY <1>1, <1>6, ZenonT(30) DEF Building, Turn
  <2>2. ASSUME NEW i \in 1..k  PROVE a[i].path = <<>> => a[i].msg = root
    BY <2>2, <1>6, ZenonT(30) DEF Building, Turn, k
  <2>3. ASSUME NEW p \in DOMAIN later, later[p].kind = "message"
        PROVE  Complete(later, r, p) \/ \E i \in 1..k : a[i].path = p
    <3>1. p # q
      BY <1>5, <1>9, <2>3 DEF IsOf
    <3> QED BY <3>1, <1>5, <1>8, <2>3
  <2> HIDE DEF root
  <2> QED BY <2>1, <2>2, <2>3, <1>5, <1>6, <1>7, ZenonT(30) DEF Building
<1> QED BY <1>5, <1>7, <1>9, ZenonT(30) DEF a, k, q

\* A field that is expanded: its message is built by a call of its own.
LEMMA CallBuilds ==
  ASSUME NEW r, NEW frames, NEW nodes, NEW f, NEW type, Turn(frames, nodes, r, f, type),
         type.kind = "message",
         NEW later, Adds(nodes, later, f, f.next, type)
  PROVE  LET c == call(advance(frames), Append(f.path, f.next), type.name)
         IN  Calls(c, r) /\ Building(c, later, r)
<1> DEFINE k == Len(frames)
           root == frames[1].msg
           a == advance(frames)
           q == Append(f.path, f.next)
           c == call(a, q, type.name)
           visited == f.visited \cup {type.name}
<1>1. /\ k \in Nat /\ k > 0 /\ k \in 1..k /\ 1 \in 1..k /\ Calls(a, r) /\ Len(a) = k
      /\ \A i \in 1..k :
           /\ a[i].path = frames[i].path /\ a[i].msg = frames[i].msg
           /\ a[i].visited = frames[i].visited
  <2>1. RegOK(r) /\ Calls(frames, r) /\ frames # <<>>
    BY DEF Turn
  <2>2. k \in Nat /\ k > 0 /\ Calls(a, r) /\ OneOn(a, frames)
    BY <2>1, Advanced
  <2> HIDE DEF k, a
  <2>4. k \in 1..k /\ 1 \in 1..k
    BY <2>2
  <2> QED BY <2>2, <2>4, ZenonT(30) DEF OneOn, k
<1>2. f.path \in Seq(Nat) /\ f.next \in Nat
  BY <1>1, CallFacts, ZenonT(30) DEF Turn
<1>3. /\ Keeps(nodes, later) /\ AllNodes(root, later, r)
      /\ DOMAIN later = DOMAIN nodes \cup {q} /\ later[q].kind = "message" /\ later[q].name = type.name
      /\ \A i \in 1..k : FrameOK(a[i], later)
  <2>1. /\ Keeps(nodes, later) /\ AllNodes(root, later, r)
        /\ \A i \in 1..k : FrameOK(a[i], later)
    BY FieldBuilds, ZenonT(30)
  <2> QED BY <2>1 DEF Adds, IsOf
<1>4. /\ q \in Seq(Nat) /\ q # <<>> /\ Len(q) = Len(f.path) + 1
      /\ \A j \in 1..Len(f.path) : SubSeq(q, 1, j) = SubSeq(f.path, 1, j)
      /\ SubSeq(q, 1, Len(f.path) + 1) = q
  BY <1>2, AppendFront, ZenonT(30)
<1>5. type.name \in DOMAIN r.messages /\ type.name \notin f.visited
  BY ExpandedUnvisited, ZenonT(30) DEF Turn
<1>6. a # <<>> /\ a[k].visited = f.visited /\ a[k].path = f.path
  BY <1>1 DEF Turn
<1>7. /\ Calls(c, r) /\ Len(c) = k + 1
      /\ \A i \in 1..k : c[i] = a[i]
      /\ c[k + 1] = frame(q, type.name, visited)
  <2>1. RegOK(r)
    BY ZenonT(30) DEF Turn
  <2> HIDE DEF a, q, k
  <2>2. /\ Calls(c, r) /\ Len(c) = Len(a) + 1
        /\ \A i \in 1..Len(a) : c[i] = a[i]
        /\ c[Len(a) + 1] = frame(q, type.name, a[Len(a)].visited \cup {type.name})
    <3>1. type.name \notin a[Len(a)].visited
      BY <1>1, <1>5, <1>6
    <3>2. Calls(c, r) /\ OneMore(c, a, q, type.name)
      BY <2>1, <3>1, <1>1, <1>4, <1>5, <1>6, Pushed, ZenonT(30)
    <3> QED BY <3>2, ZenonT(30) DEF OneMore
  <2> QED BY <2>2, <1>1, <1>6, ZenonT(30)
<1> HIDE DEF a, c, k, q, visited
<1>8. FrameOK(c[k + 1], later)
  <2> DEFINE g == c[k + 1]
  <2>1. g.path = q /\ g.msg = type.name /\ g.visited = visited /\ g.next = 1
    BY <1>7 DEF frame
  <2>2. names(later, q) = visited
    <3>1. names(later, f.path) = f.visited
      BY <1>1, <1>3, <1>6, ZenonT(30) DEF FrameOK
    <3>2. names(later, q) = names(later, f.path) \cup {later[q].name}
      <4> DEFINE n == Len(f.path)
      <4>1. n \in Nat /\ Len(q) = n + 1
        BY <1>2, <1>4
      <4>2. \A j \in 1..n : later[SubSeq(q, 1, j)].name = later[SubSeq(f.path, 1, j)].name
        BY <1>4, ZenonT(30)
      <4>3. later[SubSeq(q, 1, n + 1)].name = later[q].name
        BY <1>4, ZenonT(30)
      <4>4. names(later, q) = {later[SubSeq(q, 1, j)].name : j \in 1..(n + 1)}
        BY <4>1 DEF names
      <4>5. names(later, f.path) = {later[SubSeq(f.path, 1, j)].name : j \in 1..n}
        BY DEF names
      <4> HIDE DEF n
      <4>6. n + 1 \in 1..(n + 1) /\ \A j \in 1..(n + 1) : j \in 1..n \/ j = n + 1
        BY <4>1
      <4>7. 1..n \subseteq 1..(n + 1)
        BY <4>1
      <4>8. names(later, q) \subseteq names(later, f.path) \cup {later[q].name}
        BY <4>2, <4>3, <4>4, <4>5, <4>6
      <4>9. names(later, f.path) \cup {later[q].name} \subseteq names(later, q)
        BY <4>2, <4>3, <4>4, <4>5, <4>6, <4>7
      <4> QED BY <4>8, <4>9
    <3> QED BY <3>1, <3>2, <1>3, ZenonT(30) DEF visited
  <2>3. q \in DOMAIN later /\ later[q].kind = "message" /\ later[q].name = type.name
    BY <1>3
  <2>4. 1..(g.next - 1) = {}
    BY <2>1
  <2> HIDE DEF g
  <2>5. FrameOK(g, later)
    BY <2>1, <2>2, <2>3, <2>4 DEF FrameOK
  <2> QED BY <2>5 DEF g
<1>9. c[1] = a[1] /\ a[1].path = <<>> /\ a[1].msg = root
  BY <1>1, <1>7, ZenonT(30) DEF Building, Turn
<1>10. ASSUME NEW i \in 1..(k + 1)
       PROVE  FrameOK(c[i], later) /\ (c[i].path = <<>> => c[i].msg = root)
  <2>1. i \in 1..k \/ i = k + 1
    BY <1>1
  <2>2. CASE i \in 1..k
    <3>1. FrameOK(a[i], later)
      BY <2>2, <1>3
    <3>2. frames[i].path = <<>> => frames[i].msg = root
      BY <2>2, ZenonT(30) DEF Building, Turn, k
    <3>3. a[i].path = frames[i].path /\ a[i].msg = frames[i].msg
      BY <2>2, <1>1
    <3>4. c[i] = a[i]
      BY <2>2, <1>7
    <3> QED BY <3>1, <3>2, <3>3, <3>4, ZenonT(30)
  <2>3. CASE i = k + 1
    BY <2>3, <1>4, <1>7, <1>8 DEF frame
  <2> QED BY <2>1, <2>2, <2>3
<1>11. ASSUME NEW p \in DOMAIN later, later[p].kind = "message"
       PROVE  Complete(later, r, p) \/ \E i \in 1..(k + 1) : c[i].path = p
  <2>1. CASE p = q
    <3>1. c[k + 1].path = q /\ k + 1 \in 1..(k + 1)
      BY <1>1, <1>7 DEF frame
    <3> QED BY <3>1, <2>1
  <2>2. CASE p \in DOMAIN nodes
    <3>1. nodes[p].kind = "message" /\ later[p].name = nodes[p].name
      BY <2>2, <1>3, <1>11, ZenonT(30) DEF Keeps
    <3>2. Complete(nodes, r, p) \/ \E i \in 1..k : frames[i].path = p
      BY <3>1, <2>2, ZenonT(30) DEF Building, Turn, k
    <3>3. Complete(nodes, r, p) => Complete(later, r, p)
      BY <3>1, <1>3, ZenonT(30) DEF Complete, Keeps
    <3>4. \A i \in 1..k : i \in 1..(k + 1) /\ c[i].path = frames[i].path
      BY <1>1, <1>7
    <3> QED BY <3>2, <3>3, <3>4
  <2> QED BY <2>1, <2>2, <1>3, ZenonT(30)
<1>12. Building(c, later, r)
  <2> HIDE DEF root
  <2>1. c[1].path = <<>> /\ c[1].msg = root
    BY <1>9
  <2> QED BY <2>1, <1>3, <1>7, <1>10, <1>11, ZenonT(30) DEF Building
<1> QED BY <1>7, <1>12, ZenonT(30) DEF a, c, q

\* The last call has built all its fields: what it returns is complete.
LEMMA ReturnBuilds ==
  ASSUME NEW r, NEW frames, NEW nodes, RegOK(r), Calls(frames, r), Len(frames) > 1,
         Building(frames, nodes, r),
         frames[Len(frames)].next > Len(fieldsOf(frames[Len(frames)].msg, r))
  PROVE  Calls(Front(frames), r) /\ Building(Front(frames), nodes, r)
<1> DEFINE k == Len(frames)
           c == Front(frames)
           root == frames[1].msg
<1>1. k \in Nat /\ k > 1 /\ k \in 1..k /\ 1 \in 1..(k - 1) /\ frames # <<>>
  BY DEF Calls
<1>2. Calls(c, r) /\ Len(c) = k - 1 /\ \A i \in 1..(k - 1) : c[i] = frames[i]
  BY <1>1, Popped, ZenonT(30)
<1> DEFINE f == frames[k]
<1>3. f.msg \in DOMAIN r.messages /\ f.next \in Nat /\ FrameOK(f, nodes)
  BY <1>1, CallFacts DEF Building
<1>4. \A j \in DOMAIN fieldsOf(f.msg, r) : j \in 1..(f.next - 1)
  <2>1. Len(fieldsOf(f.msg, r)) \in Nat /\ DOMAIN fieldsOf(f.msg, r) = 1..Len(fieldsOf(f.msg, r))
    BY <1>3 DEF RegOK, IsSeq
  <2> QED BY <2>1, <1>3
<1> HIDE DEF k, c, f
<1>5. ASSUME NEW p \in DOMAIN nodes, nodes[p].kind = "message"
      PROVE  Complete(nodes, r, p) \/ \E i \in 1..(k - 1) : c[i].path = p
  <2>1. Complete(nodes, r, p) \/ \E i \in 1..k : frames[i].path = p
    BY <1>5 DEF Building, k
  <2>2. CASE \E i \in 1..k : frames[i].path = p
    <3>1. PICK i \in 1..k : frames[i].path = p
      BY <2>2
    <3>2. CASE i = k
      <4>1. p # <<>>
        BY ZenonT(30) DEF Building, AllNodes, IsNode
      <4>2. f.path = p /\ nodes[p].name = f.msg
        BY <3>1, <3>2, <4>1, <1>3, ZenonT(30) DEF FrameOK, f
      <4>3. \A j \in DOMAIN fieldsOf(f.msg, r) : Append(p, j) \in DOMAIN nodes
        BY <4>2, <1>3, <1>4 DEF FrameOK
      <4> QED BY <4>2, <4>3 DEF Complete
    <3>3. CASE i # k
      <4>1. i \in 1..(k - 1)
        BY <3>3, <1>1
      <4> QED BY <3>1, <4>1, <1>2
    <3> QED BY <3>2, <3>3
  <2> QED BY <2>1, <2>2
<1>6. c[1] = frames[1]
  BY <1>1, <1>2
<1>7. \A i \in 1..(k - 1) : i \in 1..k /\ c[i] = frames[i]
  BY <1>1, <1>2
<1>8. Building(c, nodes, r)
  BY <1>2, <1>5, <1>6, <1>7, ZenonT(30) DEF Building, k
<1> QED BY <1>2, <1>8 DEF c

\* When the only call left has built all its fields, the schema is complete.
LEMMA UnfoldingBuilt ==
  ASSUME NEW r, NEW frames, NEW nodes, RegOK(r), Calls(frames, r), Len(frames) = 1,
         Building(frames, nodes, r), frames[1].next > Len(fieldsOf(frames[1].msg, r))
  PROVE  IsUnfolding(frames[1].msg, nodes, r)
<1> DEFINE f == frames[1]
<1>1. f.msg \in DOMAIN r.messages /\ f.next \in Nat
  BY CallFacts
<1>2. FrameOK(f, nodes) /\ f.path = <<>>
  BY DEF Building
<1>3. \A j \in DOMAIN fieldsOf(f.msg, r) : j \in 1..(f.next - 1)
  <2>1. Len(fieldsOf(f.msg, r)) \in Nat /\ DOMAIN fieldsOf(f.msg, r) = 1..Len(fieldsOf(f.msg, r))
    BY <1>1 DEF RegOK, IsSeq
  <2> QED BY <2>1, <1>1
<1>4. ASSUME NEW j \in DOMAIN fieldsOf(f.msg, r)  PROVE <<j>> \in DOMAIN nodes
  <2>1. Append(<<>>, j) \in DOMAIN nodes
    BY <1>2, <1>3 DEF FrameOK
  <2>2. Append(<<>>, j) = <<j>>
    OBVIOUS
  <2> QED BY <2>1, <2>2
<1>5. ASSUME NEW p \in DOMAIN nodes, nodes[p].kind = "message"  PROVE Complete(nodes, r, p)
  <2>1. p # <<>>
    BY ZenonT(30) DEF Building, AllNodes, IsNode
  <2>2. Complete(nodes, r, p) \/ \E i \in 1..1 : frames[i].path = p
    BY <1>5 DEF Building
  <2>3. \A i \in 1..1 : frames[i].path = <<>>
    BY <1>2
  <2> QED BY <2>1, <2>2, <2>3
<1> QED BY <1>4, <1>5, ZenonT(30) DEF IsUnfolding, Building, AllNodes, Complete

=============================================================================
