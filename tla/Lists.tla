-------------------------------- MODULE Lists --------------------------------
(***************************************************************************)
(* Python's lists, as sequences: comprehensions with and without an if,    *)
(* list(a set), and the first of the cases of an if / elif / else chain.   *)
(***************************************************************************)
EXTENDS Integers, Sequences, FiniteSetsExt, Functions

(* The community's sequences.  They come with TLC's functions, which the
   prover does not know: Evidence has its own. *)
Lib == INSTANCE SequencesExt

IsList(s) == s \in Seq(Range(s))

(* The elements of s at the positions that are in I, in order. *)
Picked(s, I) ==
    LET upto[n \in 0..Len(s)] ==
            IF n = 0 THEN <<>>
            ELSE IF n \in I THEN Append(upto[n - 1], s[n]) ELSE upto[n - 1]
    IN  upto[Len(s)]

(* [x for x in s if P(x)] *)
Filter(s, P(_)) == Picked(s, {i \in DOMAIN s : P(s[i])})

(* The same sequence, of which TLC keeps the values. *)
KeptSeq(s) == <<>> \o s

(* [F(x) for x in s] *)
MapSeq(F(_), s) == KeptSeq([i \in DOMAIN s |-> F(s[i])])

(* The elements of the lists of a list, in order. *)
Flatten(lists) == Lib!FlattenSeq(lists)

(* The members of a set, in an order that depends on the set alone. *)
ListOf(S)  == FoldSet(LAMBDA x, list : <<x>> \o list, <<>>, S)

(* s[:n] *)
Upto(s, n) == SubSeq(s, 1, IF Len(s) < n THEN Len(s) ELSE n)

If(c, it)  == IF c THEN <<it>> ELSE <<>>

HeadOr(s, otherwise) == IF s = <<>> THEN otherwise ELSE Head(s)

(* the value of the first case that holds *)
FirstCase(cases, otherwise) ==
    LET held == {i \in DOMAIN cases : cases[i][1]}
    IN  IF held = {} THEN otherwise ELSE cases[Min(held)][2]
=============================================================================
