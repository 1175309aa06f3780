----------------------------- MODULE Disassembly -----------------------------
(***************************************************************************)
(* discover() of sandworm/analyzers/static/disasm.py: the functions that   *)
(* are reachable from the entry point of an image, and the calls between   *)
(* them, each in the regions of the layout.                                *)
(*                                                                         *)
(* The decoder is external.  An image is a function from the addresses     *)
(* that decode to [op, target, size]: a call, jump (jmp), branch (jcc),    *)
(* ret or plain instruction and the immediate operand it has, or Nowhere.  *)
(* Names, file offsets and the limit of bytes per block are left out.      *)
(***************************************************************************)
EXTENDS Integers, FiniteSets, Sequences

CONSTANTS
    Images,              \* the images to disassemble
    Regions,             \* their executable regions, sets of addresses
    Entry, Nowhere,
    MaxFunctions,        \* _MAX_FUNCTIONS, 256
    MaxInstructions      \* _MAX_INSTRUCTIONS, 8192

ASSUME RegionAssumption == \A r, s \in Regions : r # s => r \intersect s = {}
ASSUME NowhereAssumption == \A r \in Regions : Nowhere \notin r
ASSUME ImageAssumption ==
    /\ {Entry, Nowhere} \subseteq Int
    /\ \A i \in Images : Nowhere \notin DOMAIN i /\ \A a \in DOMAIN i : i[a].target \in Int
ASSUME DiscoverAssumption == {MaxFunctions, MaxInstructions} \subseteq Nat \ {0}

VARIABLES
    image,
    queued, seen,        \* entries to look at, and those looked at
    functions,           \* of each function's entry, its instructions
    blocks,              \* and its basic blocks
    claimed,             \* the instructions of all of them
    calls,
    total,
    start, local,        \* the function being decoded (or Nowhere), its instructions
    heads, here          \* its blocks to decode, and where the one at hand is (or Nowhere)

found       == <<functions, blocks, claimed>>
decoding    == <<start, local, heads, here>>
discoverVars == <<image, queued, seen, found, calls, total, decoding>>

Mapped(a) == \E r \in Regions : a \in r
RegionOf(a) == CHOOSE r \in Regions : a \in r

DiscoverInit ==
    /\ image \in Images
    /\ queued = <<Entry>> /\ seen = {}
    /\ functions = [a \in {} |-> {}] /\ blocks = [a \in {} |-> {}] /\ claimed = {}
    /\ calls = {} /\ total = 0
    /\ start = Nowhere /\ local = {} /\ heads = <<>> /\ here = Nowhere

-----------------------------------------------------------------------------
(* The next entry, unless it was looked at before or is in no region. *)
TakeEntry ==
    /\ start = Nowhere /\ queued # <<>>
    /\ Cardinality(DOMAIN functions) < MaxFunctions /\ total < MaxInstructions
    /\ queued' = Tail(queued)
    /\ IF Head(queued) \in seen \/ ~Mapped(Head(queued))
       THEN UNCHANGED <<seen, blocks, decoding>>
       ELSE /\ start' = Head(queued) /\ seen' = seen \union {Head(queued)}
            /\ heads' = <<Head(queued)>> /\ local' = {} /\ here' = Nowhere
            /\ blocks' = [a \in DOMAIN blocks \union {Head(queued)} |->
                             IF a = Head(queued) THEN {a} ELSE blocks[a]]
    /\ UNCHANGED <<image, functions, claimed, calls, total>>

TakeBlock ==
    /\ start # Nowhere /\ here = Nowhere /\ heads # <<>> /\ total < MaxInstructions
    /\ heads' = Tail(heads)
    /\ here' = IF Mapped(Head(heads)) /\ Head(heads) \notin local THEN Head(heads) ELSE Nowhere
    /\ UNCHANGED <<image, queued, seen, found, calls, total, start, local>>

Taken_Local(a) == a \in local                                           \* mutant

(* An instruction is decoded once. *)
Taken(a) == a \in local \union claimed

(* A block goes on to the end of its region, or to what does not decode or
   was decoded before. *)
EndBlock ==
    /\ here # Nowhere
    /\ here \notin DOMAIN image \/ Taken(here)
    /\ here' = Nowhere
    /\ UNCHANGED <<image, queued, seen, found, calls, total, start, local, heads>>

Callees_Latest(target) == <<target>>                                    \* mutant

Callees(target) == Append(queued, target)

Decode ==
    /\ here \in DOMAIN image /\ ~Taken(here) /\ total < MaxInstructions
    /\ LET i    == image[here]
           next == here + i.size
           leads == i.op \in {"jmp", "jcc"} /\ Mapped(i.target)
       IN  /\ local' = local \union {here}
           /\ total' = total + 1
           /\ calls' = IF i.op = "call" /\ i.target # Nowhere
                       THEN calls \union {[caller |-> start, callee |-> i.target, callsite |-> here]} ELSE calls
           /\ queued' = IF i.op = "call" /\ Mapped(i.target) /\ i.target \notin seen
                        THEN Callees(i.target) ELSE queued
           /\ heads' = IF leads THEN Append(heads, i.target) ELSE heads
           /\ blocks' = [blocks EXCEPT ![start] =
                            @ \union (IF leads THEN {i.target} ELSE {})
                              \union (IF i.op = "jcc" /\ Mapped(next) THEN {next} ELSE {})]
           /\ here' = IF i.op \in {"jmp", "ret"} \/ next \notin RegionOf(here) \/ total' = MaxInstructions
                    THEN Nowhere ELSE next
    /\ UNCHANGED <<image, seen, functions, claimed, start>>

(* A function that has no instruction of its own is none. *)
EndFunction ==
    /\ start # Nowhere /\ here = Nowhere
    /\ heads = <<>> \/ total >= MaxInstructions
    /\ IF local = {} THEN UNCHANGED <<functions, claimed>>
       ELSE /\ functions' = [a \in DOMAIN functions \union {start} |->
                                IF a = start THEN local ELSE functions[a]]
            /\ claimed' = claimed \union local
    /\ start' = Nowhere /\ local' = {} /\ heads' = <<>>
    /\ UNCHANGED <<image, queued, seen, blocks, calls, total, here>>

DiscoverNext == TakeEntry \/ TakeBlock \/ EndBlock \/ Decode \/ EndFunction

DiscoverSpec == DiscoverInit /\ [][DiscoverNext]_discoverVars

Discovered == /\ start = Nowhere
              /\ queued = <<>> \/ total >= MaxInstructions \/ Cardinality(DOMAIN functions) >= MaxFunctions

-----------------------------------------------------------------------------
(* An instruction belongs to one function at most, though functions jump
   into one another, and one that is called in the middle of another is
   no function of its own; each function begins at its entry. *)
FunctionsAreApart ==
    /\ \A a, b \in DOMAIN functions : a # b => functions[a] \intersect functions[b] = {}
    /\ \A a \in DOMAIN functions : a \in functions[a]

(* When the discovery has ended below its limits, every call leads to a
   function, or into one, unless it leads out of the code; and it comes
   from the function it is told to come from. *)
CalleesAreFound ==
    (Discovered /\ queued = <<>> /\ total < MaxInstructions) =>
        \A c \in calls :
            /\ c.caller \in DOMAIN functions /\ c.callsite \in functions[c.caller]
            /\ Mapped(c.callee) /\ c.callee \in DOMAIN image => c.callee \in claimed
=============================================================================
