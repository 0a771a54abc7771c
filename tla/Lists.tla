-------------------------------- MODULE Lists --------------------------------
(***************************************************************************)
(* The operations on finite lists that the modules share.  They are the    *)
(* ones of the community module SequencesExt; that module also brings Bags *)
(* into every module above it, which makes each proof step much slower.    *)
(***************************************************************************)
EXTENDS Naturals, Sequences, FiniteSetsExt, Functions

IsSeq(list) == list \in Seq(Range(list))

Last(list) == list[Len(list)]

Front(list) == SubSeq(list, 1, Len(list) - 1)

IsPrefix(short, long) == Len(short) <= Len(long) /\ short = SubSeq(long, 1, Len(short))

\* The lists of a list, one after the other.
Concat(lists) ==
  LET upTo[i \in 0..Len(lists)] == IF i = 0 THEN <<>> ELSE upTo[i - 1] \o lists[i]
  IN  upTo[Len(lists)]

=============================================================================
