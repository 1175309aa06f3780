----------------------------- MODULE MCService ------------------------------
(***************************************************************************)
(* The parts that keep their own state, for TLC.  They share no variable,  *)
(* so each is gone through on its own: a behaviour is one of one part,     *)
(* while the others stay where they start.                                 *)
(***************************************************************************)
EXTENDS Accounts, RateLimit, CorpusIndex, StaticCache, RuleSearch, Disassembly, TLC

CONSTANTS u1, u2, c1, c2, r1, r2, t1, t2, i1, i2, n1, n2, n3, n4

VARIABLE part

(* What the search and the discovery start from does not matter to the others. *)
SomePop   == pop = [n \in 1..Population |-> [strings |-> Pool, min |-> 1]]
SomeImage == image = CHOOSE i \in Images : TRUE

Init ==
    /\ AccountsInit /\ RateInit /\ IndexInit /\ CacheInit
    /\ \/ part \in {"accounts", "rates", "index", "cache"} /\ SomePop /\ SomeImage
       \/ part = "search" /\ SomeImage
       \/ part = "discover" /\ SomePop
    /\ SearchInit /\ DiscoverInit

(* The analyses, the search and the discovery come to an end. *)
Ended == \/ part = "cache" /\ \A r \in Runs : pc[r] \in {"done", "dead"}
         \/ part = "search" /\ generation > Generations
         \/ part = "discover" /\ Discovered

Next ==
    /\ UNCHANGED part
    /\ \/ part = "accounts" /\ AccountsNext
       \/ part # "accounts" /\ UNCHANGED accountsVars
    /\ \/ part = "rates" /\ RateNext
       \/ part # "rates" /\ UNCHANGED rateVars
    /\ \/ part = "index" /\ IndexNext
       \/ part # "index" /\ UNCHANGED indexVars
    /\ \/ part = "cache" /\ CacheNext
       \/ part = "cache" /\ Ended /\ UNCHANGED cacheVars
       \/ part # "cache" /\ UNCHANGED cacheVars
    /\ \/ part = "search" /\ SearchNext
       \/ part = "search" /\ Ended /\ UNCHANGED searchVars
       \/ part # "search" /\ UNCHANGED searchVars
    /\ \/ part = "discover" /\ DiscoverNext
       \/ part = "discover" /\ Ended /\ UNCHANGED discoverVars
       \/ part # "discover" /\ UNCHANGED discoverVars

Spec == Init /\ [][Next]_<<part, accountsVars, rateVars, indexVars, cacheVars, searchVars, discoverVars>>

-----------------------------------------------------------------------------
MCHomeOf == [u \in Users |-> "lab"]

(* Runs n1 to n4 of one sample, which n2 was given under another name. *)
MCFormatOf == [r \in Runs |-> IF r = n2 THEN "php" ELSE "generic"]
MCMode     == [r \in Runs |-> IF r = n3 THEN "no_cache" ELSE IF r = n4 THEN "backend" ELSE "cached"]

(* Strings that only variants have, that all of them have, and that clean
   documents have too. *)
MCMalicious == <<{"a", "b"}, {"a", "c"}, {"b", "c"}>>
MCClean     == <<{"c"}, {"b", "c"}>>

(* Every image of five addresses in two regions, with instructions of one
   or two addresses. *)
Ops == {[op |-> o, target |-> x, size |-> 1] : o \in {"call", "jmp", "jcc"}, x \in {0, 2, 4, 8}}
       \union {[op |-> o, target |-> 9, size |-> 1] : o \in {"plain", "ret"}}
Few == {o \in Ops : o.target \in {9, 0, 4}}
MCRegions == {{0, 1, 2}, {4}}
MCImages == {0 :> a @@ 1 :> [b EXCEPT !.size = s] @@ 2 :> c @@ d :
                a \in Ops, b \in Few, s \in {1, 2}, c \in Few,
                d \in {<<>>, 4 :> [op |-> "ret", target |-> 9, size |-> 1],
                       4 :> [op |-> "jmp", target |-> 1, size |-> 1]}}

MCSymmetry == Permutations(Users) \cup Permutations(Creds) \cup Permutations(Requests)

=============================================================================
