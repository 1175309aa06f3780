---------------------------- MODULE StaticCache -----------------------------
(***************************************************************************)
(* The static-evidence cache of analyze_sample() (core/pipeline.py) and    *)
(* the file format of EvidenceStore (core/evidence.py): analyses of one    *)
(* sample, in processes of their own, that share the cache file named      *)
(* after its digest.                                                       *)
(*                                                                         *)
(* The file is truncated, then written in pieces as the buffer fills; it   *)
(* is read without a lock.  Positions stand for those pieces, which are    *)
(* taken to line up whoever writes them.  What an analysis finds depends   *)
(* on the format triage() gives the sample, which depends on its name      *)
(* where the bytes leave it open; evidence that two analyses share is one  *)
(* item in a store.                                                        *)
(***************************************************************************)
EXTENDS Naturals

CONSTANTS
    Runs,          \* analyses
    FormatOf,      \* the format of the sample under the name a run was given
    Mode,          \* "cached", "no_cache" (--no-cache, workers) or "backend"
    Pieces,        \* pieces of a complete file
    MaxFaults      \* bound on runs that die, failed writes and failed loads

ASSUME PiecesAssumption == Pieces \in Nat \ {0}
ASSUME ModeAssumption   == Mode \in [Runs -> {"cached", "no_cache", "backend"}]
ASSUME FaultAssumption  == MaxFaults \in Nat

VARIABLES
    exists,        \* the cache file does
    cached,        \* its pieces: whose evidence each holds, Garbled, or {} at the end
    pc, pos,       \* of each run: where it is, pieces it has written
    hit,           \* the run took its evidence from the cache: "no", "yes", "part"
    store,         \* its EvidenceStore
    faults

cacheVars == <<exists, cached, pc, pos, hit, store, faults>>

Formats  == {FormatOf[r] : r \in Runs}
Position == 1 .. Pieces
Garbled  == {"garbled"}                                  \* does not parse
Evidence == Formats \X Position

\* The analyzers are deterministic in the bytes and the format.
Analysis(r) == {FormatOf[r]} \X Position

CacheInit ==
    /\ exists = FALSE
    /\ cached = [i \in Position |-> {}]
    /\ pc    = [r \in Runs |-> "start"]
    /\ pos   = [r \in Runs |-> 0]
    /\ hit   = [r \in Runs |-> "no"]
    /\ store = [r \in Runs |-> {}]
    /\ faults = 0

RunAt(r, l) == pc' = [pc EXCEPT ![r] = l]
Fault      == faults < MaxFaults /\ faults' = faults + 1

-----------------------------------------------------------------------------
\* cache_path.exists(), for a run without a backend that may use the cache.
Start(r) ==
    /\ pc[r] = "start"
    /\ RunAt(r, IF Mode[r] = "cached" /\ exists THEN "load" ELSE "analyse")
    /\ UNCHANGED <<exists, cached, pos, hit, store, faults>>

\* EvidenceStore.load(): the lines up to the end, all of them or an exception.
Readable    == \A i \in Position : cached[i] # Garbled
StoredLines == {e \in Evidence : cached[e[2]] # Garbled /\ e[1] \in cached[e[2]]}

LoadStreaming(r) ==                                                          \* mutant
    /\ pc[r] = "load"
    /\ store' = [store EXCEPT ![r] = StoredLines]
    /\ hit' = [hit EXCEPT ![r] = IF Readable THEN "yes" ELSE "no"]
    /\ RunAt(r, IF Readable THEN "done" ELSE "analyse")
    /\ UNCHANGED <<exists, cached, pos, faults>>

\* What was read is appended item by item, which calls the subscriber of the run's
\* store, and recorded by audit.log().  Either may fail: the run then goes on to an
\* analysis of its own with what was appended so far.
Load(r) ==
    /\ pc[r] = "load"
    /\ \/ ~Readable /\ RunAt(r, "analyse") /\ UNCHANGED <<store, hit, faults>>
       \/ /\ Readable
          /\ store' = [store EXCEPT ![r] = StoredLines]
          /\ hit' = [hit EXCEPT ![r] = "yes"]
          /\ RunAt(r, "done") /\ UNCHANGED faults
       \/ /\ Readable /\ Fault
          /\ \E n \in Position : store' = [store EXCEPT ![r] = {e \in StoredLines : e[2] <= n}]
          /\ hit' = [hit EXCEPT ![r] = "part"]
          /\ RunAt(r, "analyse")
    /\ UNCHANGED <<exists, cached, pos>>

Analyse(r) ==
    /\ pc[r] = "analyse"
    /\ store' = [store EXCEPT ![r] = @ \cup Analysis(r)]
    /\ RunAt(r, IF Mode[r] = "backend" THEN "done" ELSE "open")
    /\ UNCHANGED <<exists, cached, pos, hit, faults>>

\* EvidenceStore.dump(): open(path, "w").
OpenFile(r) ==
    /\ pc[r] = "open"
    /\ exists' = TRUE
    /\ cached' = [i \in Position |-> {}]
    /\ RunAt(r, "write")
    /\ UNCHANGED <<pos, hit, store, faults>>

\* A piece at the offset of this run's own file object; a file truncated by
\* another run meanwhile gets a gap before it.
Put(r, piece) ==
    cached' = [i \in Position |->
                 IF i = pos[r] + 1 THEN piece
                 ELSE IF i <= pos[r] /\ cached[i] = {} THEN Garbled ELSE cached[i]]

AtLast(r) == pos[r] + 1 = Pieces

Write(r) ==
    /\ pc[r] = "write"
    /\ Put(r, {f \in Formats : <<f, pos[r] + 1>> \in store[r]})
    /\ pos' = [pos EXCEPT ![r] = @ + 1]
    /\ RunAt(r, IF AtLast(r) THEN "done" ELSE "write")
    /\ UNCHANGED <<exists, hit, store, faults>>

\* The disk is full: the exception is swallowed, the file stays as it is.
WriteFails(r) ==
    /\ pc[r] \in {"open", "write"}
    /\ Fault
    /\ \/ UNCHANGED cached
       \/ pc[r] = "write" /\ Put(r, Garbled)
    /\ RunAt(r, "done")
    /\ UNCHANGED <<exists, pos, hit, store>>

\* External: the run is interrupted, within a line or between two.
Die(r) ==
    /\ pc[r] \notin {"done", "dead"}
    /\ Fault
    /\ \/ UNCHANGED cached
       \/ pc[r] = "write" /\ Put(r, Garbled)
    /\ RunAt(r, "dead")
    /\ UNCHANGED <<exists, pos, hit, store>>

CacheNext == \E r \in Runs :
    \/ Start(r) \/ Load(r) \/ Analyse(r) \/ OpenFile(r) \/ Write(r)
    \/ WriteFails(r) \/ Die(r)

CacheSpec == CacheInit /\ [][CacheNext]_cacheVars

-----------------------------------------------------------------------------
\* A run that does not hit ends with exactly what its own analysis finds: a
\* damaged file, or one under another name's format, leaves nothing behind.  One
\* whose load fails on the way finds all of that as well.
FreshRunIsItsOwn ==
    \A r \in Runs : pc[r] = "done" =>
        /\ hit[r] = "no" => store[r] = Analysis(r)
        /\ hit[r] = "part" => Analysis(r) \subseteq store[r]

\* "Re-analysing the same file can reload persisted evidence instead of re-running
\* every analyzer" (core/pipeline.py:374-376), and a cache that cannot be taken is to
\* "fall through to a fresh run" (396): either way a run has what its own analysis
\* finds, all of it and nothing else.
CacheChangesNothing == \A r \in Runs : pc[r] = "done" => store[r] = Analysis(r)
=============================================================================
