----------------------------- MODULE RuleSearch -----------------------------
(***************************************************************************)
(* detect/optimize.py: the genetic search for detection rules over a       *)
(* malicious and a clean corpus, and the Pareto frontier it keeps.         *)
(*                                                                         *)
(* A candidate is the set of its strings and how many of them must match;  *)
(* their order is left out.  A document is the set of the strings it       *)
(* contains.  The random generator may give any number it can give.        *)
(* Rates are counts, so the rounding of their quotients is left out.       *)
(***************************************************************************)
EXTENDS FiniteSets, Lists

CONSTANTS
    Pool,                \* candidate strings
    Malicious, Clean,    \* the corpora, sequences of documents
    Population,
    Generations

ASSUME SearchAssumption == /\ Pool # {} /\ IsFiniteSet(Pool) /\ IsList(Malicious) /\ IsList(Clean)
                           /\ {Population, Generations} \subseteq Nat \ {0}

VARIABLES
    pop,                 \* the candidates of this generation
    bred,                \* those of the next, so far; <<>> before the evaluation
    archive,
    generation,
    judged               \* history: the candidates that were evaluated

searchVars == <<pop, bred, archive, generation, judged>>

MatchesData(c, data) == Cardinality(c.strings \intersect data) >= c.min

(* _evaluate *)
Hits(c, corpus) == Cardinality({i \in DOMAIN corpus : MatchesData(c, corpus[i])})
Scored(c) == [candidate |-> c, recall |-> Hits(c, Malicious), fp |-> Hits(c, Clean),
              cost |-> Cardinality(c.strings)]

SameObjectives(a, b) == a.recall = b.recall /\ a.fp = b.fp /\ a.cost = b.cost
Dominates(a, b) == /\ a.recall >= b.recall /\ a.fp <= b.fp /\ a.cost <= b.cost
                   /\ ~SameObjectives(a, b)

Nondominated_Any(scored) == scored                                      \* mutant

(* _nondominated: the first of those that score the same. *)
Nondominated(scored) ==
    LET best  == Filter(scored, LAMBDA s : \A i \in DOMAIN scored : ~Dominates(scored[i], s))
    IN  Picked(best, {i \in DOMAIN best : \A j \in 1..(i - 1) : ~SameObjectives(best[j], best[i])})

Candidates == UNION {[strings : {S}, min : 1..Cardinality(S)] : S \in (SUBSET Pool) \ {{}}}

Clamped_Low(n, size) == IF n > size THEN size ELSE n                    \* mutant

Clamped(n, size) == IF n < 1 THEN 1 ELSE IF n > size THEN size ELSE n

(* _mutate: a string more or a string less, and the threshold moved. *)
Mutants(c) ==
    LET more == {c.strings \union {s} : s \in Pool \ c.strings}
        less == IF Cardinality(c.strings) > 1 THEN {c.strings \ {s} : s \in c.strings} ELSE {c.strings}
    IN  {[strings |-> S, min |-> Clamped(c.min + d, Cardinality(S))] : S \in more \union less, d \in {-1, 0, 1}}

(* _crossover: some of the strings of both, as many as the smaller has at
   least, and the mean of the thresholds. *)
Children(a, b) ==
    LET both == a.strings \union b.strings
        least == IF Cardinality(a.strings) < Cardinality(b.strings) THEN Cardinality(a.strings)
                 ELSE Cardinality(b.strings)
    IN  {[strings |-> S, min |-> Clamped((a.min + b.min) \div 2, Cardinality(S))] :
            S \in {T \in SUBSET both : Cardinality(T) >= least}}

-----------------------------------------------------------------------------
SearchInit ==
    /\ pop \in [1..Population -> Candidates]
    /\ bred = <<>> /\ archive = <<>> /\ generation = 0 /\ judged = {}

CandidatesOf(points) == [i \in DOMAIN points |-> points[i].candidate]

(* A generation is evaluated, and the first of the frontier survive. *)
Evaluate ==
    /\ generation < Generations /\ bred = <<>>
    /\ archive' = Nondominated(archive \o [i \in DOMAIN pop |-> Scored(pop[i])])
    /\ bred' = Upto(CandidatesOf(archive'), Population)
    /\ judged' = judged \union {pop[i] : i \in DOMAIN pop}
    /\ UNCHANGED <<pop, generation>>

(* One is bred from two of the frontier. *)
Breed ==
    /\ bred # <<>> /\ Len(bred) < Population
    /\ \E a, b \in {archive[i].candidate : i \in DOMAIN archive} :
          \E child \in Children(a, b) : \E c \in Mutants(child) \union {child} : bred' = Append(bred, c)
    /\ UNCHANGED <<pop, archive, generation, judged>>

NextGeneration ==
    /\ Len(bred) = Population
    /\ pop' = bred /\ bred' = <<>> /\ generation' = generation + 1
    /\ UNCHANGED <<archive, judged>>

(* The last generation is judged too. *)
Finish ==
    /\ generation = Generations
    /\ archive' = Nondominated(archive \o [i \in DOMAIN pop |-> Scored(pop[i])])
    /\ judged' = judged \union {pop[i] : i \in DOMAIN pop}
    /\ generation' = Generations + 1
    /\ UNCHANGED <<pop, bred>>

SearchNext == Evaluate \/ Breed \/ NextGeneration \/ Finish

SearchSpec == SearchInit /\ [][SearchNext]_searchVars

(* Frontier.pick: least false positives, most recall, and the balance of
   both and the cost. *)
Stricter(a, b) == a.fp < b.fp \/ (a.fp = b.fp /\ a.recall > b.recall)
Looser(a, b)   == a.recall > b.recall \/ (a.recall = b.recall /\ a.fp < b.fp)
Strict(points) == points[CHOOSE i \in DOMAIN points : \A j \in DOMAIN points : ~Stricter(points[j], points[i])]
Loose(points)  == points[CHOOSE i \in DOMAIN points : \A j \in DOMAIN points : ~Looser(points[j], points[i])]

-----------------------------------------------------------------------------
(* Nothing that was ever judged is better than the frontier: what was
   found once is not lost when it is bred away, and no point that is on it
   is beaten by another.  The points it is picked from are rules that some
   document could match and none matches by nothing. *)
FrontierIsBest ==
    /\ \A c \in judged : \E i \in DOMAIN archive :
          Dominates(archive[i], Scored(c)) \/ SameObjectives(archive[i], Scored(c))
    /\ \A i, j \in DOMAIN archive : i # j => /\ ~Dominates(archive[i], archive[j])
                                             /\ ~SameObjectives(archive[i], archive[j])
    /\ \A i \in DOMAIN archive : archive[i].candidate \in Candidates
    /\ generation > Generations => \A c \in judged : /\ Strict(archive).fp <= Scored(c).fp
                                                     /\ Loose(archive).recall >= Scored(c).recall
=============================================================================
