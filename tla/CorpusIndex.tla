---------------------------- MODULE CorpusIndex -----------------------------
(***************************************************************************)
(* CorpusIndex.ingest() of core/corpus_index.py: processes that index one  *)
(* evidence file while another one rewrites it in place (EvidenceStore.    *)
(* dump() of core/evidence.py truncates it and writes it anew).            *)
(*                                                                         *)
(* The file is read twice through one descriptor: for its digest before    *)
(* the transaction, and line by line within it.  Two pieces make a line; a *)
(* writer flushes, and a reader meets, any number of pieces.  A piece is   *)
(* named after the version of the file it was written for and its place:   *)
(* versions share no line, since each carries the time and the run it was  *)
(* observed in, and so contents are equal when their digests are.          *)
(***************************************************************************)
EXTENDS Naturals, Sequences, Functions

CONSTANTS
    Ingesters,
    Lines,         \* lines of a complete file
    MaxVersion,    \* bound on how often the file is rewritten
    Nobody

ASSUME LinesAssumption   == Lines \in Nat \ {0}
ASSUME VersionAssumption == MaxVersion \in Nat
ASSUME NobodyAssumption  == Nobody \notin Ingesters

VARIABLES
    version, file,       \* the file, and which version of it is being written
    lock,                \* who is within BEGIN IMMEDIATE
    source, rows,        \* committed: the row of sources (<<>> is none), the lines of evidence
    at, digest, taken,   \* of each process: where it is, what each pass read so far
    quiet                \* history: the file has not changed since this ingest began

indexVars == <<version, file, lock, source, rows, at, digest, taken, quiet>>

Piece == (1 .. MaxVersion) \X (1 .. 2 * Lines)

\* Readers get what was written, and only one process is within a transaction.
IndexTypeOK ==
    /\ version \in 0 .. MaxVersion
    /\ lock \in Ingesters \cup {Nobody}
    /\ at \in [Ingesters -> {"idle", "digest", "waiting", "reading", "done"}]
    /\ \A i \in Ingesters : at[i] = "reading" <=> lock = i
    /\ \A s \in {file, source} \cup {digest[i] : i \in Ingesters} \cup {taken[i] : i \in Ingesters} :
          Len(s) <= 2 * Lines /\ Range(s) \subseteq Piece
    /\ quiet \subseteq Ingesters

IndexInit ==
    /\ version = 0 /\ file = <<>>
    /\ lock = Nobody
    /\ source = <<>> /\ rows = {}
    /\ at     = [i \in Ingesters |-> "idle"]
    /\ digest = [i \in Ingesters |-> <<>>]
    /\ taken  = [i \in Ingesters |-> <<>>]
    /\ quiet  = {}

committed == <<lock, source, rows>>

-----------------------------------------------------------------------------
\* dump(): open(path, "w"), then the pieces.
Truncate ==
    /\ version < MaxVersion
    /\ version' = version + 1
    /\ file' = <<>>
    /\ quiet' = {}
    /\ UNCHANGED <<committed, at, digest, taken>>

Flush ==
    /\ version > 0 /\ Len(file) < 2 * Lines
    /\ file' = Append(file, <<version, Len(file) + 1>>)
    /\ quiet' = {}
    /\ UNCHANGED <<version, committed, at, digest, taken>>

-----------------------------------------------------------------------------
IngestAt(i, l) == at' = [at EXCEPT ![i] = l]

\* The local variables of ingest() are gone when it ends.
IngestEnds(i, l) ==
    /\ IngestAt(i, l)
    /\ digest' = [digest EXCEPT ![i] = <<>>]
    /\ taken'  = [taken EXCEPT ![i] = <<>>]

Open(i) ==
    /\ at[i] \in {"idle", "done"}
    /\ version > 0
    /\ IngestAt(i, "digest")
    /\ quiet' = quiet \cup {i}
    /\ UNCHANGED <<version, file, committed, digest, taken>>

\* What a descriptor finds at its offset: a piece, or the end of the file.
AtEnd(s) == Len(s) >= Len(file)
More(s)  == Append(s, file[Len(s) + 1])

Hash(i) ==
    /\ at[i] = "digest"
    /\ IF AtEnd(digest[i])
       THEN IngestAt(i, "waiting") /\ UNCHANGED digest
       ELSE digest' = [digest EXCEPT ![i] = More(@)] /\ UNCHANGED at
    /\ UNCHANGED <<version, file, committed, taken, quiet>>

\* BEGIN IMMEDIATE; a source of the same digest is left alone.
KnownByPath(i) == source # <<>>                                              \* mutant

Known(i) == source = digest[i]

Begin(i) ==
    /\ at[i] = "waiting"
    /\ lock = Nobody
    /\ IF Known(i) THEN IngestEnds(i, "done") /\ UNCHANGED lock
                   ELSE lock' = i /\ IngestAt(i, "reading") /\ UNCHANGED <<digest, taken>>
    /\ UNCHANGED <<version, file, source, rows, quiet>>

Read(i) ==
    /\ at[i] = "reading"
    /\ ~AtEnd(taken[i])
    /\ taken' = [taken EXCEPT ![i] = More(@)]
    /\ UNCHANGED <<version, file, committed, at, digest, quiet>>

\* The lines of a content; the last one may lack its end, and does not parse.
LinesOf(s) == {<<s[2 * k - 1], s[2 * k]>> : k \in 1 .. Len(s) \div 2}
Torn(s)    == Len(s) % 2 = 1

ParsedIsUnchanged(i) == ~Torn(taken[i])                                      \* mutant

Unchanged(i) == ~Torn(taken[i]) /\ taken[i] = digest[i]

\* At the end of the second pass: commit what was read, under the digest of the
\* first one, if that is still its digest.
Commit(i) ==
    /\ at[i] = "reading"
    /\ AtEnd(taken[i])
    /\ Unchanged(i)
    /\ source' = digest[i]
    /\ rows'   = LinesOf(taken[i])
    /\ lock'   = Nobody
    /\ IngestEnds(i, "done")
    /\ UNCHANGED <<version, file, quiet>>

\* ROLLBACK: the digest is another one, a line does not parse or is too long, or
\* the process dies anywhere.
RollBack(i) ==
    /\ at[i] \in {"digest", "waiting", "reading"}
    /\ lock' = IF lock = i THEN Nobody ELSE lock
    /\ IngestEnds(i, "idle")
    /\ UNCHANGED <<version, file, source, rows, quiet>>

Ingest(i) == Open(i) \/ Hash(i) \/ Begin(i) \/ Read(i) \/ Commit(i) \/ RollBack(i)

IndexNext == Truncate \/ Flush \/ \E i \in Ingesters : Ingest(i)

IndexSpec == IndexInit /\ [][IndexNext]_indexVars

-----------------------------------------------------------------------------
\* The rows of a source are the lines of the content its digest stands for, and
\* that content was the file's at one time: all of one version, from its start,
\* although the two passes may each meet any mixture of versions.
IndexIsOneVersion ==
    /\ rows = LinesOf(source)
    /\ \E v \in 0 .. MaxVersion : \A k \in 1 .. Len(source) : source[k] = <<v, k>>

\* When ingest() returns, whether it indexed or found nothing to do, and the file
\* was not touched since it began, the index has exactly that file; and as long
\* as the file rests, no slower ingest of something older takes its place.
QuietFileIsIndexed ==
    \A i \in quiet : at[i] = "done" => source = file
=============================================================================
