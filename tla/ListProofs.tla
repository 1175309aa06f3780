----------------------------- MODULE ListProofs ------------------------------
(***************************************************************************)
(* What the operators of Lists return, for any list: the lemmas that the   *)
(* proofs about the analysis and about the search for rules rest on.       *)
(* Induction is over sets of numbers, with the least number of a set from  *)
(* the library's well-founded orderings.                                   *)
(***************************************************************************)
EXTENDS Lists, FiniteSetTheorems, SequenceTheorems, TLAPS

(* Every set of natural numbers has a least one. *)
LEMMA LeastNat == ASSUME NEW T, T \subseteq Nat, T # {}
                  PROVE  \E x \in T : \A y \in T : x <= y
<1> DEFINE R == {ss \in Nat \X Nat : ss[1] < ss[2]}
<1>1. IsWellFoundedOn(R, Nat)
  BY NatLessThanWellFounded DEF OpToRel
<1>2. \A x, y \in Nat : y < x => <<y, x>> \in R
  OBVIOUS
<1> HIDE DEF R
<1>3. PICK x \in T : \A y \in T : ~ (<<y, x>> \in R)
  BY <1>1, WFMin
<1>4. ASSUME NEW y \in T PROVE x <= y
  <2>1. CASE y < x
    BY <2>1, <1>2, <1>3
  <2> QED BY <2>1
<1> QED BY <1>3, <1>4

LEMMA Induct == ASSUME NEW T, 0 \in T, \A n \in Nat : n \in T => n + 1 \in T
                PROVE  Nat \subseteq T
<1> SUFFICES ASSUME Nat \ T # {} PROVE FALSE
  OBVIOUS
<1>1. PICK x \in Nat \ T : \A y \in Nat \ T : x <= y
  BY LeastNat
<1>2. x # 0 /\ x - 1 \in Nat
  BY <1>1
<1>3. x - 1 \in T
  BY <1>1, <1>2
<1> QED BY <1>1, <1>2, <1>3

(* Min and Max are members of the set, where it has a bound. *)
LEMMA MinIs == ASSUME NEW T, T \subseteq Nat, T # {}
               PROVE  Min(T) \in T /\ \A y \in T : Min(T) <= y
<1>1. PICK x \in T : \A y \in T : x <= y
  BY LeastNat
<1> QED BY <1>1 DEF Min

LEMMA MaxIs == ASSUME NEW T, T \subseteq Nat, T # {}, NEW b \in Nat, \A y \in T : y <= b
               PROVE  Max(T) \in T /\ \A y \in T : Max(T) >= y
<1> DEFINE below == {n \in Nat : \E y \in T : n = b - y}
<1>0. ASSUME NEW y \in T PROVE b - y \in below
  <2>1. b - y \in Nat
    OBVIOUS
  <2> QED BY <2>1
<1>1. below \subseteq Nat /\ below # {}
  BY <1>0
<1>2. PICK n \in below : \A m \in below : n <= m
  BY <1>1, LeastNat
<1>3. PICK x \in T : n = b - x
  BY <1>2
<1>4. \A y \in T : x >= y
  <2> QED BY <1>0, <1>2, <1>3
<1> QED BY <1>4 DEF Max

-----------------------------------------------------------------------------

LEMMA ListIs == ASSUME NEW X, NEW s \in Seq(X)
                PROVE  /\ IsList(s) /\ Range(s) \subseteq X
                       /\ Len(s) \in Nat /\ DOMAIN s = 1..Len(s)
  BY SeqOfRange, RangeOfSeq DEF IsList, Range

LEMMA ListHas == ASSUME NEW s, IsList(s)
                 PROVE  /\ Len(s) \in Nat /\ DOMAIN s = 1..Len(s)
                        /\ \A i \in DOMAIN s : s[i] \in Range(s)
                        /\ \A x \in Range(s) : \E i \in DOMAIN s : s[i] = x
  BY DEF IsList, Range

LEMMA ListEmpty == IsList(<<>>) /\ Range(<<>>) = {}
  BY EmptySeq DEF IsList, Range

LEMMA ListOne == ASSUME NEW x PROVE IsList(<<x>>) /\ Range(<<x>>) = {x}
<1>1. <<x>> \in Seq({x})
  OBVIOUS
<1>2. Range(<<x>>) = {x}
  BY DEF Range
<1> QED BY <1>1, <1>2 DEF IsList

LEMMA ListConcat == ASSUME NEW s, NEW t, IsList(s), IsList(t)
                    PROVE  IsList(s \o t) /\ Range(s \o t) = Range(s) \cup Range(t)
<1> DEFINE X == Range(s) \cup Range(t)
<1>1. s \in Seq(X) /\ t \in Seq(X)
  <2>1. Range(s) \subseteq X /\ Range(t) \subseteq X /\ s \in Seq(Range(s)) /\ t \in Seq(Range(t))
    BY DEF IsList
  <2> HIDE DEF X
  <2> QED BY <2>1, SeqMonotonic
<1> HIDE DEF X
<1>2. s \o t \in Seq(X) /\ Range(s \o t) = Range(s) \cup Range(t)
  BY <1>1, ConcatProperties, RangeConcatenation
<1> QED BY <1>2, SeqOfRange DEF IsList

LEMMA ListFcn == ASSUME NEW n \in Nat, NEW f, f = [i \in 1..n |-> f[i]]
                 PROVE  IsList(f) /\ DOMAIN f = 1..n /\ Len(f) = n /\ KeptSeq(f) = f
<1>1. f \in [1..n -> Range(f)]
  BY DEF Range
<1>2. f \in Seq(Range(f)) /\ Len(f) = n
  BY <1>1
<1>3. <<>> \o f = f
  BY <1>2, ConcatEmptySeq
<1>4. DOMAIN f = 1..n
  OBVIOUS
<1> QED BY <1>2, <1>3, <1>4 DEF IsList, KeptSeq

LEMMA ListFinite == ASSUME NEW s, IsList(s) PROVE IsFiniteSet(Range(s))
<1>0. Len(s) \in Nat /\ s \in [1..Len(s) -> Range(s)] /\ \A x \in Range(s) : \E i \in 1..Len(s) : s[i] = x
  BY ListHas, LenProperties DEF IsList
<1>1. s \in Surjection(1..Len(s), Range(s))
  BY <1>0 DEF Surjection
<1>2. IsFiniteSet(1..Len(s))
  BY <1>0, FS_Interval
<1> QED BY <1>1, <1>2, FS_Surjection

LEMMA AppendIs ==
    ASSUME NEW n \in Nat, NEW f, f = [i \in 1..n |-> f[i]], NEW x
    PROVE  Append(f, x) = [i \in 1..(n + 1) |-> IF i = n + 1 THEN x ELSE f[i]]
<1> DEFINE X == Range(f) \cup {x}
<1>1. IsList(f) /\ Len(f) = n
  BY ListFcn
<1>2. f \in Seq(X) /\ x \in X
  <2>1. Range(f) \subseteq X /\ f \in Seq(Range(f)) /\ x \in X
    BY <1>1 DEF IsList
  <2> HIDE DEF X
  <2> QED BY <2>1, SeqMonotonic
<1> HIDE DEF X
<1>3. /\ Append(f, x) \in Seq(X) /\ Len(Append(f, x)) = n + 1
      /\ \A i \in 1..n : Append(f, x)[i] = f[i]
      /\ Append(f, x)[n + 1] = x
  BY <1>1, <1>2, AppendProperties
<1>4. Append(f, x) \in [1..(n + 1) -> X]
  BY <1>3, LenProperties
<1> QED BY <1>3, <1>4

-----------------------------------------------------------------------------
(* Picked: the elements at the positions, in their order. *)

PickStep(s, I, u, n) == IF n = 0 THEN <<>> ELSE IF n \in I THEN Append(u[n - 1], s[n]) ELSE u[n - 1]

(* The function that Picked is defined with exists. *)
LEMMA PickedRec ==
    ASSUME NEW s, NEW I, NEW N \in Nat
    PROVE  \E u : u = [n \in 0..N |-> PickStep(s, I, u, n)]
<1> DEFINE T == {k \in Nat : \E u : u = [n \in 0..k |-> PickStep(s, I, u, n)]}
<1>1. 0 \in T
  <2> DEFINE u == [n \in 0..0 |-> <<>>]
  <2>1. u = [n \in 0..0 |-> PickStep(s, I, u, n)]
    BY DEF PickStep
  <2> HIDE DEF u
  <2> QED BY <2>1
<1>2. ASSUME NEW k \in Nat, k \in T PROVE k + 1 \in T
  <2>1. PICK u : u = [n \in 0..k |-> PickStep(s, I, u, n)]
    BY <1>2
  <2> DEFINE v == [n \in 0..(k + 1) |-> IF n = k + 1 THEN PickStep(s, I, u, n) ELSE u[n]]
  <2>2. ASSUME NEW n \in 0..(k + 1) PROVE v[n] = PickStep(s, I, v, n)
    <3>1. CASE n = k + 1
      BY <3>1 DEF PickStep
    <3>2. CASE n \in 0..k
      <4>1. u[n] = PickStep(s, I, u, n)
        BY <2>1, <3>2
      <4>2. v[n] = u[n] /\ (n # 0 => v[n - 1] = u[n - 1])
        BY <3>2
      <4> QED BY <4>1, <4>2 DEF PickStep
    <3> QED BY <3>1, <3>2
  <2>3. v = [n \in 0..(k + 1) |-> PickStep(s, I, v, n)]
    BY <2>2
  <2> HIDE DEF v
  <2>4. k + 1 \in Nat
    OBVIOUS
  <2> QED BY <2>3, <2>4
<1>3. Nat \subseteq T
  <2> HIDE DEF T
  <2> QED BY <1>1, <1>2, Induct
<1> QED BY <1>3

(* pos leads from the places in the result to those in the list. *)
Leads(pos, s, I, n, r) ==
    /\ pos \in [1..Len(r) -> I \cap 1..n] /\ r = [m \in 1..Len(r) |-> s[pos[m]]]
    /\ \A l, m \in 1..Len(r) : l < m => pos[l] < pos[m]
    /\ \A i \in I \cap 1..n : \E m \in 1..Len(r) : pos[m] = i

LEMMA PickedPos ==
    ASSUME NEW s, IsList(s), NEW I
    PROVE  Len(Picked(s, I)) \in Nat /\ \E pos : Leads(pos, s, I, Len(s), Picked(s, I))
<1> DEFINE f == CHOOSE u : u = [n \in 0..Len(s) |-> PickStep(s, I, u, n)]
           Good(n) == Len(f[n]) \in Nat /\ \E pos : Leads(pos, s, I, n, f[n])
           T == {n \in Nat : n <= Len(s) => Good(n)}
<1>1. Len(s) \in Nat /\ DOMAIN s = 1..Len(s)
  BY ListHas
<1>2. f = [n \in 0..Len(s) |-> PickStep(s, I, f, n)]
  <2>1. \E u : u = [n \in 0..Len(s) |-> PickStep(s, I, u, n)]
    BY <1>1, PickedRec
  <2> QED BY <2>1, Zenon
<1>3. Picked(s, I) = f[Len(s)]
  BY DEF Picked, PickStep
<1> HIDE DEF f
<1>4. \A m \in 0..Len(s) : f[m] = PickStep(s, I, f, m)
  BY <1>2
<1>5. 0 \in T
  <2>1. f[0] = <<>>
    BY <1>1, <1>4 DEF PickStep
  <2>2. 1..0 = {} /\ Len(f[0]) = 0
    BY <2>1
  <2>3. Leads(<<>>, s, I, 0, f[0])
    BY <2>1, <2>2 DEF Leads
  <2> QED BY <2>2, <2>3
<1>6. ASSUME NEW n \in Nat, n \in T PROVE n + 1 \in T
  <2> SUFFICES ASSUME n + 1 <= Len(s) PROVE Good(n + 1)
    OBVIOUS
  <2>1. Good(n)
    BY <1>6, <1>1
  <2>2. PICK pos : Leads(pos, s, I, n, f[n])
    BY <2>1
  <2>3. f[n + 1] = PickStep(s, I, f, n + 1)
    <3>1. n + 1 \in 0..Len(s)
      BY <1>1
    <3> QED BY <3>1, <1>4
  <2>4. CASE n + 1 \in I
    <3>0. PICK L : L = Len(f[n]) /\ L \in Nat
      BY <2>1
    <3>1. f[n + 1] = Append(f[n], s[n + 1]) /\ f[n] = [m \in 1..L |-> s[pos[m]]] /\ pos \in [1..L -> I \cap 1..n]
      BY <2>2, <2>3, <2>4, <3>0 DEF PickStep, Leads
    <3>2. f[n + 1] = [m \in 1..(L + 1) |-> IF m = L + 1 THEN s[n + 1] ELSE s[pos[m]]]
      <4>1. PICK r, x : r = f[n] /\ x = s[n + 1]
        OBVIOUS
      <4>2. r = [m \in 1..L |-> r[m]] /\ \A m \in 1..L : r[m] = s[pos[m]]
        BY <3>1, <4>1
      <4>3. Append(r, x) = [m \in 1..(L + 1) |-> IF m = L + 1 THEN x ELSE r[m]]
        BY <4>2, <3>0, AppendIs
      <4>4. \A m \in 1..(L + 1) : m # L + 1 => m \in 1..L
        BY <3>0
      <4> QED BY <3>1, <4>1, <4>2, <4>3, <4>4, ZenonT(40)
    <3> DEFINE nxt == [m \in 1..(L + 1) |-> IF m = L + 1 THEN n + 1 ELSE pos[m]]
    <3>3. Len(f[n + 1]) = L + 1
      <4>1. PICK r : r = f[n + 1]
        OBVIOUS
      <4>2. r = [m \in 1..(L + 1) |-> r[m]]
        BY <3>2, <4>1
      <4> QED BY <3>0, <4>1, <4>2, ListFcn
    <3>p. \A m \in 1..L : pos[m] \in I /\ pos[m] \in 1..n
      BY <3>1
    <3>4. nxt \in [1..(L + 1) -> I \cap 1..(n + 1)]
      <4>1. ASSUME NEW m \in 1..(L + 1) PROVE nxt[m] \in I /\ nxt[m] \in 1..(n + 1)
        <5>1. CASE m = L + 1
          BY <5>1, <2>4
        <5>2. CASE m \in 1..L
          <6>1. nxt[m] = pos[m]
            BY <5>2, <3>0
          <6>2. pos[m] \in I /\ pos[m] \in 1..n
            BY <5>2, <3>p
          <6> QED BY <6>1, <6>2
        <5> QED BY <5>1, <5>2, <3>0
      <4> QED BY <4>1
    <3>5. f[n + 1] = [m \in 1..(L + 1) |-> s[nxt[m]]]
      BY <3>2
    <3>6. ASSUME NEW l \in 1..(L + 1), NEW m \in 1..(L + 1), l < m PROVE nxt[l] < nxt[m]
      <4>0. l \in 1..L /\ nxt[l] = pos[l]
        BY <3>6, <3>0
      <4>1. CASE m = L + 1
        <5>1. nxt[m] = n + 1
          BY <4>1
        <5>2. pos[l] \in 1..n
          BY <4>0, <3>p
        <5> QED BY <4>0, <5>1, <5>2
      <4>2. CASE m \in 1..L
        <5>1. nxt[m] = pos[m]
          BY <4>2, <3>0
        <5>2. pos[l] < pos[m]
          BY <2>2, <4>0, <4>2, <3>0, <3>6 DEF Leads
        <5> QED BY <4>0, <5>1, <5>2
      <4> QED BY <4>1, <4>2, <3>0
    <3>7. ASSUME NEW i \in I \cap 1..(n + 1) PROVE \E m \in 1..(L + 1) : nxt[m] = i
      <4>1. CASE i = n + 1
        BY <4>1, <3>0
      <4>2. CASE i \in 1..n
        <5>1. PICK m \in 1..L : pos[m] = i
          BY <4>2, <2>2, <3>0 DEF Leads
        <5>2. m \in 1..(L + 1) /\ nxt[m] = i
          BY <5>1, <3>0
        <5> QED BY <5>2
      <4> QED BY <4>1, <4>2
    <3> HIDE DEF nxt
    <3>8. Leads(nxt, s, I, n + 1, f[n + 1])
      BY <3>3, <3>4, <3>5, <3>6, <3>7 DEF Leads
    <3> QED BY <3>0, <3>3, <3>8
  <2>5. CASE n + 1 \notin I
    <3>1. f[n + 1] = f[n]
      <4>1. n + 1 # 0 /\ (n + 1) - 1 = n
        OBVIOUS
      <4> QED BY <4>1, <2>3, <2>5 DEF PickStep
    <3>2. I \cap 1..(n + 1) = I \cap 1..n
      BY <2>5
    <3>3. Leads(pos, s, I, n + 1, f[n])
      <4>1. PICK r : r = f[n]
        OBVIOUS
      <4>2. Leads(pos, s, I, n, r)
        BY <4>1, <2>2
      <4>3. Leads(pos, s, I, n + 1, r)
        BY <4>2, <3>2, Zenon DEF Leads
      <4> QED BY <4>1, <4>3
    <3> QED BY <2>1, <3>1, <3>3
  <2> HIDE DEF Good
  <2> QED BY <2>4, <2>5
<1>7. Nat \subseteq T
  <2> HIDE DEF T
  <2> QED BY <1>5, <1>6, Induct
<1>8. Good(Len(s))
  <2>1. Len(s) \in T
    BY <1>1, <1>7
  <2>2. Len(s) <= Len(s)
    BY <1>1
  <2> HIDE DEF Good
  <2> QED BY <2>1, <2>2
<1> QED BY <1>3, <1>8

LEMMA ListPicked ==
    ASSUME NEW s, IsList(s), NEW I
    PROVE  /\ IsList(Picked(s, I)) /\ Range(Picked(s, I)) = {s[i] : i \in I \cap DOMAIN s}
           /\ Len(Picked(s, I)) \in Nat /\ DOMAIN Picked(s, I) = 1..Len(Picked(s, I))
<1>1. PICK r : r = Picked(s, I)
  OBVIOUS
<1>2. PICK pos : Leads(pos, s, I, Len(s), r) /\ Len(r) \in Nat
  BY <1>1, PickedPos
<1>3. DOMAIN s = 1..Len(s)
  BY ListHas
<1>4. Range(r) = {s[i] : i \in I \cap DOMAIN s}
  BY <1>2, <1>3, SMTT(30) DEF Leads, Range
<1>5. r = [m \in 1..Len(r) |-> r[m]]
  BY <1>2 DEF Leads
<1>6. IsList(r) /\ DOMAIN r = 1..Len(r)
  BY <1>2, <1>5, ListFcn
<1> QED BY <1>1, <1>2, <1>4, <1>6

-----------------------------------------------------------------------------
(* Comprehensions: a function over the places of a list is a list. *)
LEMMA ListMap ==
    ASSUME NEW s, IsList(s), NEW f, f = [i \in DOMAIN s |-> f[i]]
    PROVE  /\ IsList(f) /\ KeptSeq(f) = f /\ DOMAIN f = DOMAIN s /\ Len(f) = Len(s)
           /\ Range(f) = {f[i] : i \in DOMAIN s}
<1>1. Len(s) \in Nat /\ DOMAIN s = 1..Len(s)
  BY ListHas
<1>2. f = [i \in 1..Len(s) |-> f[i]]
  BY <1>1
<1>3. IsList(f) /\ DOMAIN f = 1..Len(s) /\ Len(f) = Len(s) /\ KeptSeq(f) = f
  BY <1>1, <1>2, ListFcn
<1> QED BY <1>1, <1>3 DEF Range

FlatStep(ss, u, i) == IF i = 1 THEN ss[i] ELSE u[i - 1] \o ss[i]

(* The function that Flatten is defined with exists. *)
LEMMA FlatRec ==
    ASSUME NEW ss, NEW N \in Nat
    PROVE  \E u : u = [i \in 1..N |-> FlatStep(ss, u, i)]
<1> DEFINE T == {k \in Nat : \E u : u = [i \in 1..k |-> FlatStep(ss, u, i)]}
<1>1. 0 \in T
  <2> DEFINE u == [i \in 1..0 |-> <<>>]
  <2>1. u = [i \in 1..0 |-> FlatStep(ss, u, i)]
    OBVIOUS
  <2> HIDE DEF u
  <2> QED BY <2>1
<1>2. ASSUME NEW k \in Nat, k \in T PROVE k + 1 \in T
  <2>1. PICK u : u = [i \in 1..k |-> FlatStep(ss, u, i)]
    BY <1>2
  <2> DEFINE v == [i \in 1..(k + 1) |-> IF i = k + 1 THEN FlatStep(ss, u, i) ELSE u[i]]
  <2>2. ASSUME NEW i \in 1..(k + 1) PROVE v[i] = FlatStep(ss, v, i)
    <3>0. i # 1 => v[i - 1] = u[i - 1]
      BY DEF v
    <3>1. CASE i = k + 1
      BY <3>0, <3>1 DEF FlatStep
    <3>2. CASE i \in 1..k
      <4>1. u[i] = FlatStep(ss, u, i)
        BY <2>1, <3>2
      <4>2. v[i] = u[i]
        BY <3>2
      <4> QED BY <4>1, <4>2, <3>0 DEF FlatStep
    <3> QED BY <3>1, <3>2
  <2>3. v = [i \in 1..(k + 1) |-> FlatStep(ss, v, i)]
    BY <2>2
  <2> HIDE DEF v
  <2>4. k + 1 \in Nat
    OBVIOUS
  <2> QED BY <2>3, <2>4
<1>3. Nat \subseteq T
  <2> HIDE DEF T
  <2> QED BY <1>1, <1>2, Induct
<1> QED BY <1>3

LEMMA ListFlatten ==
    ASSUME NEW ss, IsList(ss), \A i \in DOMAIN ss : IsList(ss[i])
    PROVE  /\ IsList(Flatten(ss))
           /\ Range(Flatten(ss)) = UNION {Range(ss[i]) : i \in DOMAIN ss}
<1>1. Len(ss) \in Nat /\ DOMAIN ss = 1..Len(ss)
  BY ListHas
<1>2. CASE Len(ss) = 0
  <2>1. DOMAIN ss = {} /\ Flatten(ss) = ss
    BY <1>1, <1>2 DEF Flatten, Lib!FlattenSeq
  <2>2. Range(ss) = {} /\ UNION {Range(ss[i]) : i \in DOMAIN ss} = {}
    BY <2>1 DEF Range
  <2> QED BY <2>1, <2>2
<1>3. CASE Len(ss) # 0
  <2> DEFINE f == CHOOSE u : u = [i \in 1..Len(ss) |-> FlatStep(ss, u, i)]
             Good(n) == IsList(f[n]) /\ Range(f[n]) = UNION {Range(ss[i]) : i \in 1..n}
             T == {k \in Nat : k + 1 <= Len(ss) => Good(k + 1)}
  <2>1. f = [i \in 1..Len(ss) |-> FlatStep(ss, f, i)]
    <3>1. \E u : u = [i \in 1..Len(ss) |-> FlatStep(ss, u, i)]
      BY <1>1, FlatRec
    <3> QED BY <3>1, Zenon
  <2>2. Flatten(ss) = f[Len(ss)]
    BY <1>3 DEF Flatten, Lib!FlattenSeq, FlatStep
  <2> HIDE DEF f
  <2>3. \A i \in 1..Len(ss) : f[i] = FlatStep(ss, f, i)
    BY <2>1
  <2>4. 0 \in T
    <3>1. 1 \in 1..Len(ss)
      BY <1>1, <1>3
    <3>2. f[1] = ss[1] /\ IsList(ss[1])
      BY <3>1, <1>1, <2>3 DEF FlatStep
    <3>3. 1..1 = {1} /\ UNION {Range(ss[i]) : i \in {1}} = Range(ss[1])
      OBVIOUS
    <3> QED BY <3>2, <3>3
  <2>5. ASSUME NEW k \in Nat, k \in T PROVE k + 1 \in T
    <3> SUFFICES ASSUME (k + 1) + 1 <= Len(ss) PROVE Good((k + 1) + 1)
      OBVIOUS
    <3>1. Good(k + 1)
      BY <2>5, <1>1
    <3>2. /\ (k + 1) + 1 \in 1..Len(ss) /\ (k + 1) + 1 # 1 /\ ((k + 1) + 1) - 1 = k + 1
          /\ 1..((k + 1) + 1) = 1..(k + 1) \cup {(k + 1) + 1}
      BY <1>1
    <3>3. f[(k + 1) + 1] = f[k + 1] \o ss[(k + 1) + 1]
      BY <3>2, <2>3 DEF FlatStep
    <3>4. IsList(ss[(k + 1) + 1])
      BY <3>2, <1>1
    <3>5. /\ IsList(f[k + 1] \o ss[(k + 1) + 1])
          /\ Range(f[k + 1] \o ss[(k + 1) + 1]) = Range(f[k + 1]) \cup Range(ss[(k + 1) + 1])
      BY <3>1, <3>4, ListConcat
    <3>6. UNION {Range(ss[i]) : i \in 1..((k + 1) + 1)} = (UNION {Range(ss[i]) : i \in 1..(k + 1)}) \cup Range(ss[(k + 1) + 1])
      <4>1. PICK J, K, m : J = 1..(k + 1) /\ m = (k + 1) + 1 /\ K = 1..((k + 1) + 1)
        OBVIOUS
      <4>2. K = J \cup {m}
        BY <3>2, <4>1
      <4>3. UNION {Range(ss[i]) : i \in K} = (UNION {Range(ss[i]) : i \in J}) \cup Range(ss[m])
        BY <4>2
      <4> QED BY <4>1, <4>3
    <3> QED BY <3>1, <3>3, <3>5, <3>6
  <2>6. Nat \subseteq T
    <3> HIDE DEF T
    <3> QED BY <2>4, <2>5, Induct
  <2>7. Good(Len(ss))
    <3>1. Len(ss) - 1 \in Nat /\ (Len(ss) - 1) + 1 = Len(ss)
      BY <1>1, <1>3
    <3>2. Len(ss) - 1 \in T
      BY <3>1, <2>6
    <3>3. Len(ss) <= Len(ss)
      BY <1>1
    <3> HIDE DEF Good
    <3> QED BY <3>1, <3>2, <3>3
  <2> QED BY <2>2, <2>7, <1>1
<1> QED BY <1>2, <1>3

-----------------------------------------------------------------------------
(* Finite sets: what holds of the empty set, and of a set when it holds of *)
(* all that lack one of its members, holds of every finite set.            *)
LEMMA Shrink ==
    ASSUME NEW S, IsFiniteSet(S), NEW T, {} \in T,
           \A X \in SUBSET S : X # {} /\ (\A x \in X : X \ {x} \in T) => X \in T
    PROVE  SUBSET S \subseteq T
<1> DEFINE U == {n \in Nat : \A X \in SUBSET S : Cardinality(X) = n => X \in T}
<1>0. ASSUME NEW X \in SUBSET S PROVE IsFiniteSet(X) /\ Cardinality(X) \in Nat
  BY FS_Subset, FS_CardinalityType
<1>1. 0 \in U
  BY <1>0, FS_EmptySet
<1>2. ASSUME NEW n \in Nat, n \in U PROVE n + 1 \in U
  <2> SUFFICES ASSUME NEW X \in SUBSET S, Cardinality(X) = n + 1 PROVE X \in T
    OBVIOUS
  <2>1. X # {}
    <3>1. Cardinality(X) # 0
      OBVIOUS
    <3> QED BY <3>1, FS_EmptySet
  <2>2. ASSUME NEW x \in X PROVE X \ {x} \in T
    <3>1. Cardinality(X \ {x}) = n
      BY <1>0, FS_RemoveElement
    <3>2. X \ {x} \in SUBSET S
      OBVIOUS
    <3> QED BY <3>1, <3>2, <1>2
  <2> QED BY <2>1, <2>2
<1>3. Nat \subseteq U
  <2> HIDE DEF U
  <2> QED BY <1>1, <1>2, Induct
<1> QED BY <1>0, <1>3

Chosen(X) == CHOOSE x \in X : TRUE

LEMMA ChosenIs == ASSUME NEW X, X # {} PROVE Chosen(X) \in X
  BY DEF Chosen

ListStep(u, X) == IF X = {} THEN <<>> ELSE <<Chosen(X)>> \o u[X \ {Chosen(X)}]

(* The function that ListOf is defined with exists. *)
LEMMA ListRec ==
    ASSUME NEW S, IsFiniteSet(S)
    PROVE  \E u : u = [X \in SUBSET S |-> ListStep(u, X)]
<1> DEFINE Upon(n) == {X \in SUBSET S : Cardinality(X) <= n}
           T == {n \in Nat : \E u : u = [X \in Upon(n) |-> ListStep(u, X)]}
<1>0. ASSUME NEW X \in SUBSET S PROVE IsFiniteSet(X) /\ Cardinality(X) \in Nat
  BY FS_Subset, FS_CardinalityType
<1>a. ASSUME NEW n \in Nat, NEW X \in Upon(n + 1), X # {} PROVE X \ {Chosen(X)} \in Upon(n)
  <2>1. IsFiniteSet(X) /\ Cardinality(X) \in Nat /\ Chosen(X) \in X
    BY <1>0, <1>a, ChosenIs
  <2>2. Cardinality(X \ {Chosen(X)}) = Cardinality(X) - 1
    BY <2>1, FS_RemoveElement
  <2> QED BY <2>1, <2>2
<1>1. 0 \in T
  <2> DEFINE u == [X \in Upon(0) |-> <<>>]
  <2>1. ASSUME NEW X \in Upon(0) PROVE X = {}
    <3>1. Cardinality(X) = 0
      BY <1>0
    <3> QED BY <3>1, <1>0, FS_EmptySet
  <2>2. u = [X \in Upon(0) |-> ListStep(u, X)]
    BY <2>1 DEF ListStep
  <2> HIDE DEF u
  <2> QED BY <2>2
<1>2. ASSUME NEW n \in Nat, n \in T PROVE n + 1 \in T
  <2>1. PICK u : u = [X \in Upon(n) |-> ListStep(u, X)]
    BY <1>2
  <2> DEFINE v == [X \in Upon(n + 1) |-> ListStep(u, X)]
  <2>0. Upon(n) \subseteq Upon(n + 1)
    BY <1>0
  <2>2. ASSUME NEW X \in Upon(n) PROVE v[X] = u[X]
    <3>1. X \in Upon(n + 1)
      BY <2>0
    <3> QED BY <2>1, <3>1
  <2>3. ASSUME NEW X \in Upon(n + 1) PROVE v[X] = ListStep(v, X)
    <3>1. CASE X = {}
      BY <3>1 DEF ListStep
    <3>2. CASE X # {}
      <4>1. X \ {Chosen(X)} \in Upon(n)
        BY <3>2, <1>a
      <4>2. v[X \ {Chosen(X)}] = u[X \ {Chosen(X)}]
        BY <4>1, <2>2
      <4>3. v[X] = ListStep(u, X)
        OBVIOUS
      <4> HIDE DEF v
      <4> QED BY <3>2, <4>2, <4>3 DEF ListStep
    <3> QED BY <3>1, <3>2
  <2>4. v = [X \in Upon(n + 1) |-> ListStep(v, X)]
    BY <2>3
  <2>5. n + 1 \in Nat
    OBVIOUS
  <2> HIDE DEF v, Upon
  <2> QED BY <2>4, <2>5
<1>3. Nat \subseteq T
  <2> HIDE DEF T
  <2> QED BY <1>1, <1>2, Induct
<1>4. Upon(Cardinality(S)) = SUBSET S
  BY FS_Subset
<1>5. Cardinality(S) \in T
  <2> HIDE DEF T
  <2> QED BY <1>0, <1>3
<1> HIDE DEF Upon
<1> QED BY <1>4, <1>5

LEMMA ListOfIs ==
    ASSUME NEW S, IsFiniteSet(S)
    PROVE  IsList(ListOf(S)) /\ Range(ListOf(S)) = S
<1> DEFINE f == CHOOSE u : u = [X \in SUBSET S |-> ListStep(u, X)]
           T == {X \in SUBSET S : IsList(f[X]) /\ Range(f[X]) = X}
<1>1. f = [X \in SUBSET S |-> ListStep(f, X)]
  <2>1. \E u : u = [X \in SUBSET S |-> ListStep(u, X)]
    BY ListRec
  <2> QED BY <2>1, Zenon
<1>2. ListOf(S) = f[S]
  BY DEF ListOf, FoldSet, MapThenFoldSet, ListStep, Chosen
<1> HIDE DEF f
<1>3. \A X \in SUBSET S : f[X] = ListStep(f, X)
  BY <1>1
<1>4. {} \in T
  <2>1. f[{}] = <<>>
    BY <1>3 DEF ListStep
  <2> QED BY <2>1, ListEmpty
<1>5. ASSUME NEW X \in SUBSET S, X # {}, \A x \in X : X \ {x} \in T PROVE X \in T
  <2>1. PICK c : c = Chosen(X) /\ c \in X
    BY <1>5, ChosenIs
  <2>2. f[X] = <<c>> \o f[X \ {c}]
    BY <1>3, <1>5, <2>1 DEF ListStep
  <2>3. IsList(f[X \ {c}]) /\ Range(f[X \ {c}]) = X \ {c}
    BY <1>5, <2>1
  <2>4. IsList(f[X]) /\ Range(f[X]) = {c} \cup (X \ {c})
    <3>1. IsList(<<c>>) /\ Range(<<c>>) = {c}
      BY ListOne
    <3>2. PICK a, b : a = <<c>> /\ b = f[X \ {c}]
      OBVIOUS
    <3>3. IsList(a \o b) /\ Range(a \o b) = Range(a) \cup Range(b)
      BY <2>3, <3>1, <3>2, ListConcat
    <3> QED BY <2>2, <2>3, <3>1, <3>2, <3>3
  <2> QED BY <2>1, <2>4
<1>6. SUBSET S \subseteq T
  <2> HIDE DEF T
  <2> QED BY <1>4, <1>5, Shrink
<1> QED BY <1>2, <1>6

-----------------------------------------------------------------------------
(* Sums over the domain of a function. *)

SumStep(p, u, X) == IF X = {} THEN 0 ELSE p[Chosen(X)] + u[X \ {Chosen(X)}]

(* u is the function that the sum over each subset of S is read from. *)
Sums(u, p, S) == u = [X \in SUBSET S |-> SumStep(p, u, X)]

LEMMA SumRec ==
    ASSUME NEW S, IsFiniteSet(S), NEW p
    PROVE  \E u : Sums(u, p, S)
<1> DEFINE Upon(n) == {X \in SUBSET S : Cardinality(X) <= n}
           T == {n \in Nat : \E u : u = [X \in Upon(n) |-> SumStep(p, u, X)]}
<1>0. ASSUME NEW X \in SUBSET S PROVE IsFiniteSet(X) /\ Cardinality(X) \in Nat
  BY FS_Subset, FS_CardinalityType
<1>a. ASSUME NEW n \in Nat, NEW X \in Upon(n + 1), X # {} PROVE X \ {Chosen(X)} \in Upon(n)
  <2>1. IsFiniteSet(X) /\ Cardinality(X) \in Nat /\ Chosen(X) \in X
    BY <1>0, <1>a, ChosenIs
  <2>2. Cardinality(X \ {Chosen(X)}) = Cardinality(X) - 1
    BY <2>1, FS_RemoveElement
  <2> QED BY <2>1, <2>2
<1>1. 0 \in T
  <2> DEFINE u == [X \in Upon(0) |-> 0]
  <2>1. ASSUME NEW X \in Upon(0) PROVE X = {}
    <3>1. Cardinality(X) = 0
      BY <1>0
    <3> QED BY <3>1, <1>0, FS_EmptySet
  <2>2. u = [X \in Upon(0) |-> SumStep(p, u, X)]
    BY <2>1 DEF SumStep
  <2> HIDE DEF u
  <2> QED BY <2>2
<1>2. ASSUME NEW n \in Nat, n \in T PROVE n + 1 \in T
  <2>1. PICK u : u = [X \in Upon(n) |-> SumStep(p, u, X)]
    BY <1>2
  <2> DEFINE v == [X \in Upon(n + 1) |-> SumStep(p, u, X)]
  <2>0. Upon(n) \subseteq Upon(n + 1)
    BY <1>0
  <2>2. ASSUME NEW X \in Upon(n) PROVE v[X] = u[X]
    <3>1. X \in Upon(n + 1)
      BY <2>0
    <3> QED BY <2>1, <3>1
  <2>3. ASSUME NEW X \in Upon(n + 1) PROVE v[X] = SumStep(p, v, X)
    <3>1. CASE X = {}
      BY <3>1 DEF SumStep
    <3>2. CASE X # {}
      <4>1. X \ {Chosen(X)} \in Upon(n)
        BY <3>2, <1>a
      <4>2. v[X \ {Chosen(X)}] = u[X \ {Chosen(X)}]
        BY <4>1, <2>2
      <4>3. v[X] = SumStep(p, u, X)
        OBVIOUS
      <4> HIDE DEF v
      <4> QED BY <3>2, <4>2, <4>3 DEF SumStep
    <3> QED BY <3>1, <3>2
  <2>4. v = [X \in Upon(n + 1) |-> SumStep(p, v, X)]
    BY <2>3
  <2>5. n + 1 \in Nat
    OBVIOUS
  <2> HIDE DEF v, Upon
  <2> QED BY <2>4, <2>5
<1>3. Nat \subseteq T
  <2> HIDE DEF T
  <2> QED BY <1>1, <1>2, Induct
<1>4. Upon(Cardinality(S)) = SUBSET S
  BY FS_Subset
<1>5. Cardinality(S) \in T
  <2> HIDE DEF T
  <2> QED BY <1>0, <1>3
<1> HIDE DEF Upon
<1> QED BY <1>4, <1>5 DEF Sums

LEMMA SumIs ==
    ASSUME NEW p, IsFiniteSet(DOMAIN p)
    PROVE  \E u : Sums(u, p, DOMAIN p) /\ SumFunction(p) = u[DOMAIN p]
<1> DEFINE f == CHOOSE u : u = [X \in SUBSET DOMAIN p |-> SumStep(p, u, X)]
<1>1. f = [X \in SUBSET DOMAIN p |-> SumStep(p, f, X)]
  <2>1. \E u : u = [X \in SUBSET DOMAIN p |-> SumStep(p, u, X)]
    <3>1. \E u : Sums(u, p, DOMAIN p)
      BY SumRec
    <3> QED BY <3>1 DEF Sums
  <2> QED BY <2>1, Zenon
<1>2. SumFunction(p) = f[DOMAIN p]
  BY DEF SumFunction, SumFunctionOnSet, FoldFunctionOnSet, MapThenFoldSet, SumStep, Chosen
<1> HIDE DEF f
<1> QED BY <1>1, <1>2 DEF Sums

(* The order in which the terms are taken does not matter. *)
AnyTerm(u, p, S) == \A X \in SUBSET S : u[X] \in Int /\ \A x \in X : u[X] = p[x] + u[X \ {x}]
AllInt(p, S)     == \A x \in S : p[x] \in Int

LEMMA SumAny ==
    ASSUME NEW S, IsFiniteSet(S), NEW p, AllInt(p, S), NEW u, Sums(u, p, S)
    PROVE  AnyTerm(u, p, S)
<1> USE DEF AllInt, AnyTerm
<1> DEFINE I == {X \in SUBSET S : u[X] \in Int}
           T == {X \in SUBSET S : \A x \in X : u[X] = p[x] + u[X \ {x}]}
<1>0. \A X \in SUBSET S : u[X] = SumStep(p, u, X)
  BY DEF Sums
<1>i. SUBSET S \subseteq I
  <2>1. {} \in I
    BY <1>0 DEF SumStep
  <2>2. ASSUME NEW X \in SUBSET S, X # {}, \A x \in X : X \ {x} \in I PROVE X \in I
    <3>1. PICK c : c = Chosen(X) /\ c \in X
      BY <2>2, ChosenIs
    <3>2. u[X] = p[c] + u[X \ {c}]
      BY <1>0, <2>2, <3>1 DEF SumStep
    <3>3. u[X \ {c}] \in Int /\ p[c] \in Int
      BY <2>2, <3>1
    <3> QED BY <3>2, <3>3
  <2> HIDE DEF I
  <2> QED BY <2>1, <2>2, Shrink
<1>1. {} \in T
  BY <1>0 DEF SumStep
<1>2. ASSUME NEW X \in SUBSET S, X # {}, \A x \in X : X \ {x} \in T PROVE X \in T
  <2>1. PICK c : c = Chosen(X) /\ c \in X
    BY <1>2, ChosenIs
  <2>2. u[X] = p[c] + u[X \ {c}]
    BY <1>0, <1>2, <2>1 DEF SumStep
  <2>3. u[X \ {c}] \in Int /\ p[c] \in Int
    BY <1>i, <2>1
  <2>4. ASSUME NEW x \in X, x # c PROVE u[X] = p[x] + u[X \ {x}]
    <3>1. u[X \ {c}] = p[x] + u[(X \ {c}) \ {x}]
      BY <1>2, <2>1, <2>4
    <3>2. u[X \ {x}] = p[c] + u[(X \ {x}) \ {c}]
      BY <1>2, <2>1, <2>4
    <3>3. (X \ {c}) \ {x} = (X \ {x}) \ {c}
      OBVIOUS
    <3>4. u[(X \ {x}) \ {c}] \in Int
      <4>1. (X \ {x}) \ {c} \in SUBSET S
        OBVIOUS
      <4> QED BY <4>1, <1>i
    <3>5. p[x] \in Int
      OBVIOUS
    <3>6. PICK a, b, d, e, f, k : /\ a = u[X] /\ b = u[X \ {c}] /\ d = u[(X \ {x}) \ {c}]
                                  /\ e = u[X \ {x}] /\ f = p[x] /\ k = p[c]
      OBVIOUS
    <3>7. a = k + b /\ b = f + d /\ e = k + d /\ {d, f, k} \subseteq Int
      BY <2>2, <2>3, <3>1, <3>2, <3>3, <3>4, <3>5, <3>6
    <3>8. a = f + e
      BY <3>7
    <3> QED BY <3>6, <3>8
  <2> QED BY <2>1, <2>2, <2>4
<1>3. SUBSET S \subseteq T
  <2> HIDE DEF T
  <2> QED BY <1>1, <1>2, Shrink
<1> QED BY <1>i, <1>3

(* Two sums agree on a set where their terms do. *)
LEMMA SumSame ==
    ASSUME NEW S, IsFiniteSet(S), NEW p, NEW q, \A x \in S : p[x] = q[x],
           NEW P, NEW Q, S \subseteq P, S \subseteq Q, NEW u, NEW v, Sums(u, p, P), Sums(v, q, Q)
    PROVE  u[S] = v[S]
<1> DEFINE T == {X \in SUBSET S : u[X] = v[X]}
<1>0. \A X \in SUBSET S : u[X] = SumStep(p, u, X) /\ v[X] = SumStep(q, v, X)
  BY DEF Sums
<1>1. {} \in T
  BY <1>0 DEF SumStep
<1>2. ASSUME NEW X \in SUBSET S, X # {}, \A x \in X : X \ {x} \in T PROVE X \in T
  <2>1. PICK c : c = Chosen(X) /\ c \in X
    BY <1>2, ChosenIs
  <2>2. u[X] = p[c] + u[X \ {c}] /\ v[X] = q[c] + v[X \ {c}]
    BY <1>0, <1>2, <2>1 DEF SumStep
  <2>3. p[c] = q[c] /\ u[X \ {c}] = v[X \ {c}]
    BY <1>2, <2>1
  <2> QED BY <2>2, <2>3
<1>3. SUBSET S \subseteq T
  <2> HIDE DEF T
  <2> QED BY <1>1, <1>2, Shrink
<1> QED BY <1>3

(* The sum with one term more. *)
LEMMA SumAdd ==
    ASSUME NEW p, IsFiniteSet(DOMAIN p), \A x \in DOMAIN p : p[x] \in Int,
           NEW q, NEW y, y \notin DOMAIN p, DOMAIN q = DOMAIN p \cup {y}, q[y] \in Int,
           \A x \in DOMAIN p : q[x] = p[x]
    PROVE  SumFunction(p) \in Int /\ SumFunction(q) = SumFunction(p) + q[y]
<1>1. IsFiniteSet(DOMAIN q)
  BY FS_AddElement
<1>2. PICK u : Sums(u, p, DOMAIN p) /\ SumFunction(p) = u[DOMAIN p]
  BY SumIs
<1>3. PICK v : Sums(v, q, DOMAIN q) /\ SumFunction(q) = v[DOMAIN q]
  BY <1>1, SumIs
<1>4. u[DOMAIN p] \in Int
  <2>1. AnyTerm(u, p, DOMAIN p)
    BY <1>2, SumAny DEF AllInt
  <2> QED BY <2>1 DEF AnyTerm
<1>5. \A x \in DOMAIN q : q[x] \in Int
  OBVIOUS
<1>6. \A X \in SUBSET DOMAIN q : \A x \in X : v[X] = q[x] + v[X \ {x}]
  <2>1. PICK D : D = DOMAIN q
    OBVIOUS
  <2>2. IsFiniteSet(D) /\ Sums(v, q, D) /\ \A x \in D : q[x] \in Int
    BY <1>1, <1>3, <1>5, <2>1
  <2>3. AnyTerm(v, q, D)
    BY <2>2, SumAny DEF AllInt
  <2> QED BY <2>1, <2>3 DEF AnyTerm
<1>7. v[DOMAIN q] = q[y] + v[DOMAIN q \ {y}]
  BY <1>6
<1>8. DOMAIN q \ {y} = DOMAIN p
  OBVIOUS
<1>9. u[DOMAIN p] = v[DOMAIN p]
  BY <1>2, <1>3, SumSame
<1> QED BY <1>2, <1>3, <1>4, <1>7, <1>8, <1>9

(* A sum of naturals is one, and no less than any of its terms. *)
LEMMA SumNat ==
    ASSUME NEW p, IsFiniteSet(DOMAIN p), \A x \in DOMAIN p : p[x] \in Nat
    PROVE  /\ SumFunction(p) \in Nat /\ (DOMAIN p = {} => SumFunction(p) = 0)
           /\ \A x \in DOMAIN p : p[x] <= SumFunction(p)
<1>0. PICK D : D = DOMAIN p
  OBVIOUS
<1>1. PICK u : Sums(u, p, D) /\ SumFunction(p) = u[D]
  BY <1>0, SumIs
<1>2. IsFiniteSet(D) /\ \A x \in D : p[x] \in Nat /\ p[x] \in Int
  BY <1>0
<1>3. \A X \in SUBSET D : u[X] \in Int /\ \A x \in X : u[X] = p[x] + u[X \ {x}]
  <2>1. AnyTerm(u, p, D)
    BY <1>1, <1>2, SumAny DEF AllInt
  <2> QED BY <2>1 DEF AnyTerm
<1> DEFINE T == {X \in SUBSET D : u[X] \in Nat}
<1>4. u[{}] = 0
  BY <1>1 DEF Sums, SumStep
<1>5. ASSUME NEW X \in SUBSET D, X # {}, \A x \in X : X \ {x} \in T PROVE X \in T
  <2>1. PICK x \in X : TRUE
    BY <1>5
  <2>2. u[X] = p[x] + u[X \ {x}] /\ u[X \ {x}] \in Nat /\ p[x] \in Nat
    BY <1>2, <1>3, <1>5
  <2> QED BY <2>2
<1>6. SUBSET D \subseteq T
  <2>1. {} \in T
    BY <1>4
  <2> HIDE DEF T
  <2> QED BY <1>2, <2>1, <1>5, Shrink
<1>7. ASSUME NEW x \in D PROVE p[x] <= u[D]
  <2>1. u[D] = p[x] + u[D \ {x}]
    BY <1>3
  <2>2. D \ {x} \in T
    BY <1>6
  <2>3. u[D \ {x}] \in Nat /\ p[x] \in Nat
    BY <1>2, <2>2
  <2> QED BY <2>1, <2>3
<1>8. D \in T
  BY <1>6
<1> QED BY <1>0, <1>1, <1>4, <1>7, <1>8

-----------------------------------------------------------------------------
LEMMA ListUpto ==
    ASSUME NEW s, IsList(s), NEW n \in Nat
    PROVE  /\ IsList(Upto(s, n)) /\ Range(Upto(s, n)) \subseteq Range(s)
           /\ (s # <<>> /\ n # 0 => Upto(s, n) # <<>>)
<1>1. Len(s) \in Nat /\ DOMAIN s = 1..Len(s) /\ s \in Seq(Range(s))
  BY ListHas DEF IsList
<1>0. PICK L \in Nat : L = Len(s)
  BY <1>1
<1>2. PICK m \in Nat : m = (IF L < n THEN L ELSE n) /\ m <= L /\ (L # 0 /\ n # 0 => 1 \in 1..m)
  <2>1. CASE L < n
    <3>1. L = (IF L < n THEN L ELSE n) /\ L <= L /\ (L # 0 => 1 \in 1..L)
      BY <2>1
    <3> QED BY <3>1
  <2>2. CASE ~(L < n)
    <3>1. n = (IF L < n THEN L ELSE n) /\ n <= L /\ (n # 0 => 1 \in 1..n)
      BY <2>2
    <3> QED BY <3>1
  <2> QED BY <2>1, <2>2
<1>3. Upto(s, n) = [i \in 1..m |-> s[i]]
  <2>1. PICK r, X : r = s /\ X = Range(s) /\ r \in Seq(X)
    BY <1>1
  <2>2. SubSeq(r, 1, m) = [i \in 1..m |-> r[i]]
    BY <2>1, <1>0, <1>2
  <2> QED BY <2>1, <2>2, <1>0, <1>2 DEF Upto
<1>4. IsList([i \in 1..m |-> s[i]])
  <2>1. PICK f : f = [i \in 1..m |-> s[i]]
    OBVIOUS
  <2>2. f = [i \in 1..m |-> f[i]]
    BY <2>1
  <2> QED BY <2>1, <2>2, ListFcn
<1>5. Range([i \in 1..m |-> s[i]]) \subseteq Range(s)
  <2>1. 1..m \subseteq DOMAIN s
    BY <1>0, <1>1, <1>2
  <2> QED BY <2>1 DEF Range
<1>6. ASSUME s # <<>>, n # 0 PROVE [i \in 1..m |-> s[i]] # <<>>
  <2>1. L # 0
    BY <1>0, <1>1, <1>6
  <2>2. 1 \in 1..m
    BY <1>2, <1>6, <2>1
  <2>3. DOMAIN [i \in 1..m |-> s[i]] # DOMAIN <<>>
    BY <2>2
  <2> QED BY <2>3
<1>7. PICK f : f = [i \in 1..m |-> s[i]]
  OBVIOUS
<1>8. /\ Upto(s, n) = f /\ IsList(f) /\ Range(f) \subseteq Range(s)
      /\ (s # <<>> /\ n # 0 => f # <<>>)
  BY <1>3, <1>4, <1>5, <1>6, <1>7, Zenon
<1> QED BY <1>8

(* The value of FirstCase is that of a case that holds, or the other one. *)
LEMMA FirstCaseIs ==
    ASSUME NEW cases, DOMAIN cases \subseteq Nat, NEW o
    PROVE  \/ /\ FirstCase(cases, o) = o
              /\ \A i \in DOMAIN cases : ~cases[i][1]
           \/ \E i \in DOMAIN cases : /\ cases[i][1] /\ FirstCase(cases, o) = cases[i][2]
                                      /\ \A j \in DOMAIN cases : cases[j][1] => i <= j
<1>0. PICK held : held = {i \in DOMAIN cases : cases[i][1]}
  OBVIOUS
<1>f. FirstCase(cases, o) = IF held = {} THEN o ELSE cases[Min(held)][2]
  BY <1>0 DEF FirstCase
<1>1. CASE held = {}
  BY <1>0, <1>1, <1>f, Zenon
<1>2. CASE held # {}
  <2>0. held \subseteq Nat
    BY <1>0
  <2>1. Min(held) \in held /\ \A j \in held : Min(held) <= j
    BY <2>0, <1>2, MinIs
  <2>2. FirstCase(cases, o) = cases[Min(held)][2]
    BY <1>2, <1>f
  <2> QED BY <1>0, <2>1, <2>2, Zenon
<1> QED BY <1>1, <1>2

-----------------------------------------------------------------------------
LEMMA FiniteImage ==
    ASSUME NEW S, IsFiniteSet(S), NEW f
    PROVE  IsFiniteSet({f[x] : x \in S})
<1> DEFINE g == [x \in S |-> f[x]]
<1>1. g \in Surjection(S, {f[x] : x \in S})
  BY DEF Surjection
<1> QED BY <1>1, FS_Surjection

LEMMA FiniteUnion ==
    ASSUME NEW S, IsFiniteSet(S), NEW f, \A x \in S : IsFiniteSet(f[x])
    PROVE  IsFiniteSet(UNION {f[x] : x \in S})
  BY FiniteImage, FS_UNION

-----------------------------------------------------------------------------
(* Order: lists picked and joined, and lists of the same elements. *)

(* p counts K in order: 1 is led to its least member, and so on. *)
Rises(p, a, K) ==
    /\ a \in Nat /\ K \subseteq Nat /\ p \in [1..a -> K]
    /\ \A l, m \in 1..a : l < m => p[l] < p[m]
    /\ \A k \in K : \E m \in 1..a : p[m] = k

(* The next number that both count is the same for both. *)
LEMMA RisesNext ==
    ASSUME NEW K, NEW p, NEW a, Rises(p, a, K), NEW q, NEW b, Rises(q, b, K), NEW n \in Nat,
           \A m \in 1..n : m \in 1..a /\ m \in 1..b => p[m] = q[m], n + 1 \in 1..a
    PROVE  n + 1 \in 1..b /\ q[n + 1] <= p[n + 1]
<1>1. /\ a \in Nat /\ b \in Nat /\ K \subseteq Nat /\ p[n + 1] \in K /\ n + 1 <= a
      /\ \A m \in 1..b : q[m] \in Nat
  <2>1. a \in Nat /\ b \in Nat /\ K \subseteq Nat /\ p \in [1..a -> K] /\ q \in [1..b -> K]
    BY DEF Rises
  <2>2. n + 1 <= a
    BY <2>1
  <2>3. p[n + 1] \in K /\ \A m \in 1..b : q[m] \in K
    BY <2>1
  <2> QED BY <2>1, <2>2, <2>3
<1>2. PICK j \in 1..b : q[j] = p[n + 1]
  BY <1>1 DEF Rises
<1>3. j >= n + 1
  <2> SUFFICES ASSUME j <= n PROVE FALSE
    BY <1>2
  <2>1. j \in 1..n /\ j \in 1..a /\ j < n + 1
    BY <1>1, <1>2
  <2>2. p[j] = q[j]
    BY <1>2, <2>1
  <2>3. p[j] < p[n + 1]
    BY <2>1 DEF Rises
  <2> QED BY <1>1, <1>2, <2>2, <2>3
<1>4. n + 1 \in 1..b
  BY <1>1, <1>2, <1>3
<1>5. n + 1 < j => q[n + 1] < q[j]
  BY <1>2, <1>4 DEF Rises
<1> QED BY <1>1, <1>2, <1>3, <1>4, <1>5

LEMMA RisesOnce ==
    ASSUME NEW K, NEW p, NEW a, Rises(p, a, K), NEW q, NEW b, Rises(q, b, K)
    PROVE  a = b /\ p = q
<1> DEFINE T == {n \in Nat : \A m \in 1..n : /\ m \in 1..a <=> m \in 1..b
                                             /\ m \in 1..a => p[m] = q[m]}
<1>1. 0 \in T
  OBVIOUS
<1>2. ASSUME NEW n \in Nat, n \in T PROVE n + 1 \in T
  <2>1. \A m \in 1..n : /\ m \in 1..a <=> m \in 1..b
                        /\ m \in 1..a => p[m] = q[m]
    BY <1>2
  <2>2. n + 1 \in 1..a => n + 1 \in 1..b /\ q[n + 1] <= p[n + 1]
    BY <2>1, RisesNext
  <2>3. n + 1 \in 1..b => n + 1 \in 1..a /\ p[n + 1] <= q[n + 1]
    BY <2>1, RisesNext
  <2>4. n + 1 \in 1..a => p[n + 1] \in Nat /\ q[n + 1] \in Nat
    BY <2>2 DEF Rises
  <2>5. \A m \in 1..(n + 1) : m \in 1..n \/ m = n + 1
    OBVIOUS
  <2>6. n + 1 \in Nat
    OBVIOUS
  <2> QED BY <2>1, <2>2, <2>3, <2>4, <2>5, <2>6
<1>3. Nat \subseteq T
  <2> HIDE DEF T
  <2> QED BY <1>1, <1>2, Induct
<1>4. a \in Nat /\ b \in Nat
  BY DEF Rises
<1>5. a \in T /\ b \in T
  BY <1>3, <1>4
<1>6. a = b
  BY <1>4, <1>5
<1>7. p = [m \in 1..a |-> p[m]] /\ q = [m \in 1..a |-> q[m]]
  BY <1>6 DEF Rises
<1>8. \A m \in 1..a : p[m] = q[m]
  BY <1>5
<1> QED BY <1>6, <1>7, <1>8

LEMMA LeadsRises ==
    ASSUME NEW s, NEW I, NEW n \in Nat, NEW r, Len(r) \in Nat, NEW pos, Leads(pos, s, I, n, r)
    PROVE  Rises(pos, Len(r), I \cap 1..n)
  BY DEF Leads, Rises

(* The elements that a counting leads to. *)
Along(s, p, a) == [m \in 1..a |-> s[p[m]]]

(* Whatever counts the positions gives what is picked. *)
LEMMA PickedOnce ==
    ASSUME NEW s, IsList(s), NEW I, NEW p, NEW a, Rises(p, a, I \cap DOMAIN s)
    PROVE  Picked(s, I) = Along(s, p, a)
<1>1. PICK r : r = Picked(s, I)
  OBVIOUS
<1>2. PICK pos : Leads(pos, s, I, Len(s), r) /\ Len(r) \in Nat
  BY <1>1, PickedPos
<1>3. DOMAIN s = 1..Len(s) /\ Len(s) \in Nat
  BY ListHas
<1>4. Len(r) = a /\ pos = p
  BY <1>2, <1>3, LeadsRises, RisesOnce
<1>5. r = [m \in 1..Len(r) |-> s[pos[m]]]
  BY <1>2 DEF Leads
<1> QED BY <1>1, <1>4, <1>5 DEF Along

LEMMA PickAll == ASSUME NEW s, IsList(s), NEW I, DOMAIN s \subseteq I PROVE Picked(s, I) = s
<1>1. Len(s) \in Nat /\ DOMAIN s = 1..Len(s) /\ s = [m \in 1..Len(s) |-> s[m]]
  <2>1. s \in [1..Len(s) -> Range(s)]
    BY LenProperties DEF IsList
  <2> QED BY <2>1, ListHas
<1>2. PICK p : p = [m \in 1..Len(s) |-> m]
  OBVIOUS
<1>3. I \cap DOMAIN s = 1..Len(s)
  BY <1>1
<1>4. Rises(p, Len(s), I \cap DOMAIN s)
  BY <1>1, <1>2, <1>3 DEF Rises
<1>5. s = Along(s, p, Len(s))
  <2>1. [m \in 1..Len(s) |-> s[p[m]]] = [m \in 1..Len(s) |-> s[m]]
    BY <1>2
  <2> QED BY <1>1, <2>1 DEF Along
<1> QED BY <1>4, <1>5, PickedOnce

(* Nothing is picked of the first of two lists. *)
LEMMA PickSecond ==
    ASSUME NEW s, IsList(s), NEW t, IsList(t), NEW I, \A i \in DOMAIN s : i \notin I,
           NEW J, J \subseteq DOMAIN t, \A j \in DOMAIN t : j \in J <=> Len(s) + j \in I
    PROVE  Picked(s \o t, I) = Picked(t, J)
<1>1. PICK m, n : m = Len(s) /\ n = Len(t) /\ m \in Nat /\ n \in Nat /\ DOMAIN s = 1..m /\ DOMAIN t = 1..n
  BY ListHas
<1>2. PICK q : q = s \o t /\ IsList(q)
  BY ListConcat
<1>3. Len(q) = m + n /\ DOMAIN q = 1..(m + n) /\ \A j \in 1..n : q[m + j] = t[j]
  <2>1. PICK X : s \in Seq(X) /\ t \in Seq(X)
    <3>1. PICK X : X = Range(s) \cup Range(t)
      OBVIOUS
    <3>2. Range(s) \subseteq X /\ Range(t) \subseteq X /\ s \in Seq(Range(s)) /\ t \in Seq(Range(t))
      BY <3>1 DEF IsList
    <3>3. s \in Seq(X) /\ t \in Seq(X)
      BY <3>2, SeqMonotonic
    <3> QED BY <3>3
  <2>2. Len(q) = m + n /\ \A j \in 1..n : q[m + j] = t[j]
    BY <1>1, <1>2, <2>1, ConcatProperties
  <2> QED BY <1>2, <2>2, ListHas
<1>4. PICK r : r = Picked(t, J) /\ Len(r) \in Nat
  BY PickedPos
<1>5. PICK pos : Leads(pos, t, J, n, r)
  BY <1>1, <1>4, PickedPos
<1>6. J \cap 1..n = J /\ \A j \in J : j \in 1..n /\ m + j \in I
  BY <1>1
<1>7. PICK p : p = [k \in 1..Len(r) |-> m + pos[k]]
  OBVIOUS
<1>8. /\ \A k \in 1..Len(r) : pos[k] \in J
      /\ r = [k \in 1..Len(r) |-> t[pos[k]]]
      /\ \A k, l \in 1..Len(r) : k < l => pos[k] < pos[l]
      /\ \A j \in J : \E k \in 1..Len(r) : pos[k] = j
  BY <1>5, <1>6 DEF Leads
<1>9. I \cap DOMAIN q = {m + j : j \in J}
  <2>1. ASSUME NEW i \in I \cap DOMAIN q PROVE \E j \in J : i = m + j
    <3>1. i \in 1..(m + n) /\ i \notin 1..m
      BY <1>1, <1>3
    <3>2. i - m \in 1..n /\ m + (i - m) = i
      BY <1>1, <3>1
    <3> QED BY <1>1, <3>2
  <2>2. ASSUME NEW j \in J PROVE m + j \in I \cap DOMAIN q
    BY <1>1, <1>3, <1>6
  <2> QED BY <2>1, <2>2
<1>10. Rises(p, Len(r), I \cap DOMAIN q)
  <2>1. \A k \in 1..Len(r) : pos[k] \in Nat /\ p[k] = m + pos[k] /\ p[k] \in I \cap DOMAIN q
    BY <1>1, <1>6, <1>7, <1>8, <1>9
  <2>2. I \cap DOMAIN q \subseteq Nat
    BY <1>1, <1>3
  <2>3. \A k, l \in 1..Len(r) : k < l => p[k] < p[l]
    BY <1>1, <1>8, <2>1, SMTT(60)
  <2>4. \A i \in I \cap DOMAIN q : \E k \in 1..Len(r) : p[k] = i
    BY <1>8, <1>9, <2>1
  <2> QED BY <1>4, <1>7, <2>1, <2>2, <2>3, <2>4 DEF Rises
<1>11. \A k \in 1..Len(r) : q[p[k]] = t[pos[k]]
  BY <1>3, <1>6, <1>7, <1>8
<1>12. [k \in 1..Len(r) |-> q[p[k]]] = [k \in 1..Len(r) |-> t[pos[k]]]
  BY <1>11
<1>13. r = Along(q, p, Len(r))
  BY <1>8, <1>12 DEF Along
<1>14. Picked(q, I) = r
  BY <1>2, <1>10, <1>13, PickedOnce
<1> QED BY <1>2, <1>4, <1>14

(* Picking twice is picking once. *)
LEMMA PickPicked ==
    ASSUME NEW s, IsList(s), NEW S, NEW U, U \subseteq S,
           NEW I, \A i : i \in I <=> i \in DOMAIN s /\ s[i] \in S,
           NEW H, \A i : i \in H <=> i \in DOMAIN s /\ s[i] \in U,
           NEW r, r = Picked(s, I),
           NEW J, \A m : m \in J <=> m \in DOMAIN r /\ r[m] \in U
    PROVE  Picked(r, J) = Picked(s, H)
<1>1. IsList(r) /\ Len(r) \in Nat /\ DOMAIN r = 1..Len(r) /\ DOMAIN s = 1..Len(s) /\ Len(s) \in Nat
  BY ListPicked, ListHas
<1>2. PICK pos : Leads(pos, s, I, Len(s), r)
  BY PickedPos
<1>3. PICK w : w = Picked(r, J) /\ Len(w) \in Nat
  BY <1>1, PickedPos
<1>4. PICK qos : Leads(qos, r, J, Len(r), w)
  BY <1>1, <1>3, PickedPos
<1>5. /\ \A k \in 1..Len(r) : pos[k] \in I /\ pos[k] \in 1..Len(s) /\ r[k] = s[pos[k]]
      /\ \A k, l \in 1..Len(r) : k < l => pos[k] < pos[l]
      /\ \A i \in I : \E k \in 1..Len(r) : pos[k] = i
  BY <1>1, <1>2, Zenon DEF Leads
<1>6. /\ \A k \in 1..Len(w) : qos[k] \in J /\ qos[k] \in 1..Len(r)
      /\ w = [k \in 1..Len(w) |-> r[qos[k]]]
      /\ \A k, l \in 1..Len(w) : k < l => qos[k] < qos[l]
      /\ \A j \in J : \E k \in 1..Len(w) : qos[k] = j
  BY <1>1, <1>4, Zenon DEF Leads
<1>7. PICK p : p = [k \in 1..Len(w) |-> pos[qos[k]]]
  OBVIOUS
<1>8. Rises(p, Len(w), H \cap DOMAIN s)
  <2>1. \A k \in 1..Len(w) : p[k] \in H
    BY <1>1, <1>5, <1>6, <1>7
  <2>2. \A k, l \in 1..Len(w) : k < l => p[k] < p[l]
    BY <1>5, <1>6, <1>7
  <2>3. ASSUME NEW i \in H PROVE \E k \in 1..Len(w) : p[k] = i
    <3>1. PICK m \in 1..Len(r) : pos[m] = i
      BY <1>5
    <3>2. m \in J
      BY <1>1, <1>5, <3>1
    <3>3. PICK k \in 1..Len(w) : qos[k] = m
      BY <1>6, <3>2
    <3> QED BY <1>7, <3>1, <3>3
  <2>4. H \cap DOMAIN s = H /\ H \subseteq Nat
    BY <1>1
  <2> QED BY <1>3, <1>7, <2>1, <2>2, <2>3, <2>4 DEF Rises
<1>9. \A k \in 1..Len(w) : r[qos[k]] = s[p[k]]
  BY <1>5, <1>6, <1>7
<1>10. [k \in 1..Len(w) |-> r[qos[k]]] = [k \in 1..Len(w) |-> s[p[k]]]
  BY <1>9
<1>11. w = Along(s, p, Len(w))
  BY <1>6, <1>10 DEF Along
<1>12. Picked(s, H) = w
  <2> QED BY <1>8, <1>11, PickedOnce
<1> QED BY <1>3, <1>12

(* Lists of different elements. *)
LEMMA PickInjective ==
    ASSUME NEW s, IsList(s), IsInjective(s), NEW I
    PROVE  IsInjective(Picked(s, I))
<1>1. PICK r : r = Picked(s, I)
  OBVIOUS
<1>2. PICK pos : Leads(pos, s, I, Len(s), r) /\ Len(r) \in Nat
  BY <1>1, PickedPos
<1>3. /\ \A m \in 1..Len(r) : pos[m] \in 1..Len(s) /\ r[m] = s[pos[m]]
      /\ \A l, m \in 1..Len(r) : l < m => pos[l] < pos[m]
      /\ DOMAIN r = 1..Len(r) /\ DOMAIN s = 1..Len(s) /\ Len(s) \in Nat
  <2>1. pos \in [1..Len(r) -> I \cap 1..Len(s)] /\ r = [m \in 1..Len(r) |-> s[pos[m]]]
    BY <1>2 DEF Leads
  <2>2. \A l, m \in 1..Len(r) : l < m => pos[l] < pos[m]
    BY <1>2 DEF Leads
  <2> QED BY <2>1, <2>2, ListHas
<1>4. ASSUME NEW l \in DOMAIN r, NEW m \in DOMAIN r, r[l] = r[m] PROVE l = m
  <2>1. pos[l] = pos[m]
    BY <1>3, <1>4 DEF IsInjective
  <2>2. pos[l] \in Int /\ l \in Int /\ m \in Int
    BY <1>2, <1>3
  <2> QED BY <1>3, <2>1, <2>2
<1> QED BY <1>1, <1>4 DEF IsInjective

LEMMA ConcatInjective ==
    ASSUME NEW s, IsList(s), IsInjective(s), NEW t, IsList(t), IsInjective(t), Range(s) \cap Range(t) = {}
    PROVE  IsInjective(s \o t)
<1>1. PICK m, n : m = Len(s) /\ n = Len(t) /\ m \in Nat /\ n \in Nat /\ DOMAIN s = 1..m /\ DOMAIN t = 1..n
  BY ListHas
<1>2. PICK q : q = s \o t /\ IsList(q)
  BY ListConcat
<1>3. DOMAIN q = 1..(m + n) /\ (\A j \in 1..m : q[j] = s[j]) /\ \A j \in 1..n : q[m + j] = t[j]
  <2>1. PICK X : s \in Seq(X) /\ t \in Seq(X)
    <3>1. PICK X : X = Range(s) \cup Range(t)
      OBVIOUS
    <3>2. Range(s) \subseteq X /\ Range(t) \subseteq X /\ s \in Seq(Range(s)) /\ t \in Seq(Range(t))
      BY <3>1 DEF IsList
    <3>3. s \in Seq(X) /\ t \in Seq(X)
      BY <3>2, SeqMonotonic
    <3> QED BY <3>3
  <2>2. Len(q) = m + n /\ (\A j \in 1..m : q[j] = s[j]) /\ \A j \in 1..n : q[m + j] = t[j]
    BY <1>1, <1>2, <2>1, ConcatProperties
  <2> QED BY <1>2, <2>2, ListHas
<1>4. \A k \in 1..(m + n) : \/ k \in 1..m /\ q[k] = s[k] /\ q[k] \in Range(s)
                            \/ k - m \in 1..n /\ q[k] = t[k - m] /\ q[k] \in Range(t)
  <2> SUFFICES ASSUME NEW k \in 1..(m + n), k \notin 1..m
               PROVE  k - m \in 1..n /\ q[k] = t[k - m] /\ q[k] \in Range(t)
    BY <1>1, <1>3, ListHas
  <2>1. PICK j : j = k - m /\ j \in 1..n /\ k = m + j
    BY <1>1
  <2>2. q[m + j] = t[j] /\ t[j] \in Range(t)
    BY <1>1, <1>3, <2>1, ListHas
  <2> QED BY <2>1, <2>2
<1>5. ASSUME NEW k \in DOMAIN q, NEW l \in DOMAIN q, q[k] = q[l] PROVE k = l
  <2>1. CASE k \in 1..m /\ q[k] = s[k] /\ q[k] \in Range(s)
    <3>1. l \in 1..m /\ q[l] = s[l]
      BY <1>3, <1>4, <1>5, <2>1
    <3> QED BY <1>1, <1>5, <2>1, <3>1 DEF IsInjective
  <2>2. CASE k - m \in 1..n /\ q[k] = t[k - m] /\ q[k] \in Range(t)
    <3>1. l - m \in 1..n /\ q[l] = t[l - m]
      BY <1>3, <1>4, <1>5, <2>2
    <3>2. k - m = l - m
      BY <1>1, <1>5, <2>2, <3>1 DEF IsInjective
    <3> QED BY <1>1, <1>3, <3>2
  <2> QED BY <1>3, <1>4, <2>1, <2>2
<1> QED BY <1>2, <1>5 DEF IsInjective

(* Two lists of the same different elements lead to each other. *)
Onto(h, s, u) ==
    /\ \A i \in DOMAIN s : h[i] \in DOMAIN u /\ u[h[i]] = s[i]
    /\ \A j \in DOMAIN u : \E i \in DOMAIN s : h[i] = j
    /\ \A i, j \in DOMAIN s : h[i] = h[j] => i = j

LEMMA SameElements ==
    ASSUME NEW s, IsList(s), IsInjective(s), NEW u, IsList(u), IsInjective(u), Range(s) = Range(u)
    PROVE  \E h : Onto(h, s, u)
<1>1. PICK h : h = [i \in DOMAIN s |-> CHOOSE j \in DOMAIN u : u[j] = s[i]]
  OBVIOUS
<1>2. ASSUME NEW i \in DOMAIN s PROVE h[i] \in DOMAIN u /\ u[h[i]] = s[i]
  <2>1. \E j \in DOMAIN u : u[j] = s[i]
    BY ListHas
  <2> QED BY <1>1, <2>1
<1>3. ASSUME NEW j \in DOMAIN u PROVE \E i \in DOMAIN s : h[i] = j
  <2>1. PICK i \in DOMAIN s : s[i] = u[j]
    BY ListHas
  <2>2. h[i] \in DOMAIN u /\ u[h[i]] = u[j]
    BY <1>2, <2>1
  <2> QED BY <2>2 DEF IsInjective
<1>4. ASSUME NEW i \in DOMAIN s, NEW j \in DOMAIN s, h[i] = h[j] PROVE i = j
  <2>1. s[i] = s[j]
    BY <1>2, <1>4
  <2> QED BY <2>1 DEF IsInjective
<1> QED BY <1>2, <1>3, <1>4 DEF Onto

(* What leads to each other is as many. *)
LEMMA SameCount ==
    ASSUME NEW A, IsFiniteSet(A), NEW B, NEW h,
           \A a \in A : h[a] \in B, \A b \in B : \E a \in A : h[a] = b,
           \A a, c \in A : h[a] = h[c] => a = c
    PROVE  IsFiniteSet(B) /\ Cardinality(B) = Cardinality(A)
<1>1. PICK f : f = [a \in A |-> h[a]]
  OBVIOUS
<1>2. f \in [A -> B] /\ DOMAIN f = A /\ \A a \in A : f[a] = h[a]
  BY <1>1
<1>3. f \in Surjection(A, B)
  BY <1>2 DEF Surjection
<1>4. f \in Injection(A, B)
  BY <1>2 DEF Injection, IsInjective
<1> QED BY <1>3, <1>4, FS_Surjection

(* A sum of naturals grows with its terms, and with their number. *)
LEMMA SumMore ==
    ASSUME NEW q, IsFiniteSet(DOMAIN q), \A x \in DOMAIN q : q[x] \in Nat,
           NEW p, DOMAIN p \subseteq DOMAIN q, \A x \in DOMAIN p : p[x] \in Nat /\ p[x] <= q[x]
    PROVE  SumFunction(p) <= SumFunction(q)
<1>0. PICK D, E : D = DOMAIN p /\ E = DOMAIN q
  OBVIOUS
<1>1. IsFiniteSet(D) /\ IsFiniteSet(E) /\ D \subseteq E
  BY <1>0, FS_Subset
<1>2. PICK u : Sums(u, p, D) /\ SumFunction(p) = u[D]
  BY <1>0, <1>1, SumIs
<1>3. PICK v : Sums(v, q, E) /\ SumFunction(q) = v[E]
  BY <1>0, <1>1, SumIs
<1>4. \A X \in SUBSET D : u[X] \in Int /\ \A x \in X : u[X] = p[x] + u[X \ {x}]
  <2>1. \A x \in D : p[x] \in Int
    BY <1>0
  <2>2. AnyTerm(u, p, D)
    BY <1>1, <1>2, <2>1, SumAny DEF AllInt
  <2> QED BY <2>2 DEF AnyTerm
<1>5. \A X \in SUBSET E : v[X] \in Int /\ \A x \in X : v[X] = q[x] + v[X \ {x}]
  <2>1. \A x \in E : q[x] \in Int
    BY <1>0
  <2>2. AnyTerm(v, q, E)
    BY <1>1, <1>3, <2>1, SumAny DEF AllInt
  <2> QED BY <2>2 DEF AnyTerm
<1>6. u[{}] = 0 /\ v[{}] = 0
  BY <1>2, <1>3 DEF Sums, SumStep
<1> DEFINE T == {X \in SUBSET E : u[X \cap D] <= v[X]}
<1>7. {} \in T
  <2>1. {} \cap D = {}
    OBVIOUS
  <2> QED BY <1>6, <2>1
<1>8. ASSUME NEW X \in SUBSET E, X # {}, \A x \in X : X \ {x} \in T PROVE X \in T
  <2>1. PICK x : x \in X
    BY <1>8
  <2>2. PICK a, b, c, d : a = u[X \cap D] /\ b = u[(X \ {x}) \cap D] /\ c = v[X] /\ d = v[X \ {x}]
    OBVIOUS
  <2>3. b <= d /\ b \in Int /\ d \in Int /\ c = q[x] + d /\ q[x] \in Nat
    BY <1>0, <1>4, <1>5, <1>8, <2>1, <2>2
  <2>4. CASE x \in D
    <3>1. (X \cap D) \ {x} = (X \ {x}) \cap D /\ X \cap D \in SUBSET D /\ x \in X \cap D
      BY <2>1, <2>4
    <3>2. a = p[x] + b
      <4>1. PICK Y : Y = X \cap D /\ Y \in SUBSET D /\ x \in Y /\ Y \ {x} = (X \ {x}) \cap D
        BY <3>1
      <4>2. u[Y] = p[x] + u[Y \ {x}]
        BY <1>4, <4>1
      <4> QED BY <2>2, <4>1, <4>2
    <3>3. p[x] \in Nat /\ p[x] <= q[x]
      BY <1>0, <2>4
    <3>4. a <= c
      <4>1. PICK m, n : m = p[x] /\ n = q[x]
        OBVIOUS
      <4>2. m \in Nat /\ n \in Nat /\ m <= n /\ a = m + b /\ c = n + d /\ b <= d /\ b \in Int /\ d \in Int
        BY <2>3, <3>2, <3>3, <4>1
      <4> HIDE DEF T
      <4> QED BY <4>2
    <3> QED BY <2>2, <3>4
  <2>5. CASE x \notin D
    <3>1. (X \ {x}) \cap D = X \cap D
      BY <2>5
    <3>2. a = b
      BY <2>2, <3>1
    <3>3. q[x] \in Nat /\ c = q[x] + d /\ b <= d /\ b \in Int /\ d \in Int
      BY <2>3
    <3>4. a <= c
      <4>1. PICK n : n = q[x]
        OBVIOUS
      <4> HIDE DEF T
      <4> QED BY <3>2, <3>3, <4>1
    <3> QED BY <2>2, <3>4
  <2> QED BY <2>4, <2>5
<1>9. SUBSET E \subseteq T
  <2> HIDE DEF T
  <2> QED BY <1>1, <1>7, <1>8, Shrink
<1>10. E \cap D = D /\ E \in T
  BY <1>1, <1>9
<1> QED BY <1>2, <1>3, <1>10

(* The members of a set, each once. *)
LEMMA ListOfInjective ==
    ASSUME NEW S, IsFiniteSet(S)
    PROVE  IsInjective(ListOf(S))
<1> DEFINE f == CHOOSE u : u = [X \in SUBSET S |-> ListStep(u, X)]
           T == {X \in SUBSET S : IsList(f[X]) /\ Range(f[X]) = X /\ IsInjective(f[X])}
<1>1. f = [X \in SUBSET S |-> ListStep(f, X)]
  <2>1. \E u : u = [X \in SUBSET S |-> ListStep(u, X)]
    BY ListRec
  <2> QED BY <2>1, Zenon
<1>2. ListOf(S) = f[S]
  BY DEF ListOf, FoldSet, MapThenFoldSet, ListStep, Chosen
<1> HIDE DEF f
<1>3. \A X \in SUBSET S : f[X] = ListStep(f, X)
  BY <1>1
<1>4. {} \in T
  <2>1. PICK e : e = <<>>
    OBVIOUS
  <2>2. f[{}] = e /\ IsList(e) /\ Range(e) = {}
    BY <1>3, <2>1, ListEmpty DEF ListStep
  <2>3. IsInjective(e)
    BY <2>1 DEF IsInjective
  <2> QED BY <2>2, <2>3
<1>5. ASSUME NEW X \in SUBSET S, X # {}, \A x \in X : X \ {x} \in T PROVE X \in T
  <2>1. PICK c : c = Chosen(X) /\ c \in X
    BY <1>5, ChosenIs
  <2>2. f[X] = <<c>> \o f[X \ {c}]
    BY <1>3, <1>5, <2>1 DEF ListStep
  <2>3. PICK a, b : a = <<c>> /\ b = f[X \ {c}]
    OBVIOUS
  <2>4. IsList(b) /\ Range(b) = X \ {c} /\ IsInjective(b)
    BY <1>5, <2>1, <2>3
  <2>5. IsList(a) /\ Range(a) = {c}
    BY <2>3, ListOne
  <2>6. IsInjective(a)
    BY <2>3 DEF IsInjective
  <2>7. IsList(a \o b) /\ Range(a \o b) = Range(a) \cup Range(b)
    BY <2>4, <2>5, ListConcat
  <2>8. Range(a) \cap Range(b) = {} /\ Range(a) \cup Range(b) = X
    BY <2>1, <2>4, <2>5
  <2>9. IsInjective(a \o b)
    BY <2>4, <2>5, <2>6, <2>8, ConcatInjective
  <2> QED BY <2>2, <2>3, <2>7, <2>8, <2>9
<1>6. SUBSET S \subseteq T
  <2> HIDE DEF T
  <2> QED BY <1>4, <1>5, Shrink
<1>7. S \in T
  BY <1>6
<1> QED BY <1>2, <1>7

(* q is the items of s, then those of t. *)
Joined(q, s, t) ==
    /\ DOMAIN q \subseteq Int
    /\ \A k \in DOMAIN q : \/ k \in DOMAIN s /\ q[k] = s[k]
                           \/ k - Len(s) \in DOMAIN t /\ q[k] = t[k - Len(s)]

Adjoined(q, s, t, m, n) ==
    DOMAIN q = 1..(m + n) /\ (\A j \in 1..m : q[j] = s[j]) /\ \A j \in 1..n : q[m + j] = t[j]

(* What two lists joined hold, by their lengths, *)
LEMMA JoinedAt ==
    ASSUME NEW s, IsList(s), NEW t, IsList(t), NEW q, q = s \o t, NEW m, NEW n, m = Len(s), n = Len(t)
    PROVE  IsList(q) /\ Adjoined(q, s, t, m, n)
<1>1. m \in Nat /\ n \in Nat
  BY ListHas
<1>2. IsList(q)
  BY ListConcat
<1>3. PICK X : s \in Seq(X) /\ t \in Seq(X)
  <2>1. PICK X : X = Range(s) \cup Range(t)
    OBVIOUS
  <2>2. Range(s) \subseteq X /\ Range(t) \subseteq X /\ s \in Seq(Range(s)) /\ t \in Seq(Range(t))
    BY <2>1 DEF IsList
  <2>3. s \in Seq(X) /\ t \in Seq(X)
    BY <2>2, SeqMonotonic
  <2> QED BY <2>3
<1>4. Len(q) = m + n /\ (\A j \in 1..m : q[j] = s[j]) /\ \A j \in 1..n : q[m + j] = t[j]
  BY <1>1, <1>3, ConcatProperties
<1> QED BY <1>2, <1>4, ListHas DEF Adjoined

(* and at each place. *)
LEMMA JoinAt ==
    ASSUME NEW s, IsList(s), NEW t, IsList(t), NEW q, q = s \o t
    PROVE  IsList(q) /\ Joined(q, s, t)
<1>1. PICK m, n : m = Len(s) /\ n = Len(t) /\ m \in Nat /\ n \in Nat /\ DOMAIN s = 1..m /\ DOMAIN t = 1..n
  BY ListHas
<1>2. IsList(q) /\ DOMAIN q = 1..(m + n) /\ (\A j \in 1..m : q[j] = s[j]) /\ \A j \in 1..n : q[m + j] = t[j]
  <2>1. IsList(q) /\ Adjoined(q, s, t, m, n)
    BY <1>1, JoinedAt
  <2> QED BY <2>1 DEF Adjoined
<1>3. ASSUME NEW k \in 1..(m + n) PROVE \/ k \in 1..m /\ q[k] = s[k]
                                        \/ k - m \in 1..n /\ q[k] = t[k - m]
  <2>1. CASE k \in 1..m
    BY <1>2, <2>1
  <2>2. CASE k \notin 1..m
    <3>1. k - m \in 1..n /\ k = m + (k - m)
      <4>1. k \in Int /\ k >= 1 /\ k <= m + n /\ ~(k <= m) /\ m \in Nat /\ n \in Nat
        BY <1>1, <2>2
      <4> QED BY <4>1
    <3>2. PICK j : j = k - m /\ j \in 1..n /\ k = m + j
      BY <3>1
    <3>3. q[m + j] = t[j]
      BY <1>2, <3>2
    <3> QED BY <3>2, <3>3
  <2> QED BY <2>1, <2>2
<1>4. DOMAIN q \subseteq Int
  BY <1>1, <1>2
<1> QED BY <1>1, <1>2, <1>3, <1>4 DEF Joined
=============================================================================
