-------------------------- MODULE SandboxRunProofs --------------------------
(***************************************************************************)
(* Proofs about SandboxRun, for any set of backends and any deadline.      *)
(***************************************************************************)
EXTENDS SandboxRun, TLAPS

Submitting == {"log", "submit", "iso", "overlay", "boot"}
Handling   == {"status", "collect", "poll", "dump", "report", "check", "merge", "record"} \cup Kinds

\* What is on disk and running belongs to somebody: submit() before it returns,
\* the holder of the handle after.
Owned ==
    /\ pc \in Submitting => ~job /\ vm = "none"
    /\ pc \in {"log", "submit"} => disk = {}
    /\ pc \in Handling => job
    /\ raised # "no" => pc \in {"release", "over", "killed"}
    /\ pc \in {"except", "late", "release", "over"} /\ ~job /\ raised # "interrupt"
         => vm = "none" /\ disk \subseteq {"payload"}
    /\ job => "payload" \notin disk
    /\ pc = "over" /\ job => vm # "up" /\ disk = {}

\* The trace of the bundle, if it has one, was ingested.
TraceTaken == bundle["trace"] # "absent" => \E c \in Content : <<"trace", c>> \in staged

\* Evidence is merged at the end, when every artifact was ingested, and only from
\* bound reports.
Merged ==
    /\ store # {} => pc \in {"merge", "record", "late", "release", "over", "killed"}
    /\ pc \in {"memory_dump", "merge"} \/ store # {} => TraceTaken
    /\ store \subseteq staged
    /\ \A e \in staged : e[2] \in {"own", "edited"}

\* The trace of a QEMU guest on its way into the store.
Traced ==
    backend = "qemu" =>
        /\ pc # "report"
        /\ bundle # NoBundle => bundle["trace"] = "own"
        /\ bundle["trace"] = "own" => file["trace"] = "own"
        /\ pc \in {"check", "cape_report", "memory_report", "trace"} => bundle["trace"] = "own"
        /\ pc \in {"memory_dump", "merge"} => <<"trace", "own">> \in staged
        /\ pc = "record" => <<"trace", "own">> \in store
        /\ pc \in {"release", "over"} /\ raised = "no" /\ bundle # NoBundle => <<"trace", "own">> \in store

IInv == SandboxTypeOK /\ Owned /\ Merged /\ Traced

\* Ingestion goes from kind to kind and then to the merge.
LEMMA AfterKinds ==
    \A k \in Kinds : /\ After(k) \in {"memory_report", "trace", "memory_dump", "merge"}
                     /\ After(k) = "memory_dump" <=> k = "trace"
                     /\ After(k) = "merge" <=> k = "memory_dump"
                     /\ After(k) \in {"memory_report", "trace"} <=> k \in {"cape_report", "memory_report"}
BY DEF After, Kinds

\* Every action keeps the types.
LEMMA TypeStep ==
    ASSUME SandboxTypeOK, RunNext PROVE SandboxTypeOK'
<1> USE DEF SandboxTypeOK, Location, Kinds, Content, Goes, Fails, machine, evidence
<1>1. CASE SubmitLog BY <1>1 DEF SubmitLog
<1>2. CASE Refuse BY <1>2 DEF Refuse
<1>3. CASE SubmitReplay BY <1>3 DEF SubmitReplay
<1>4. CASE SubmitCape BY <1>4 DEF SubmitCape
<1>5. CASE Stage BY <1>5 DEF Stage
<1>6. CASE MakeIso BY <1>6 DEF MakeIso
<1>7. CASE MakeOverlay BY <1>7 DEF MakeOverlay
<1>8. CASE Boot BY <1>8, DeadlineAssumption DEF Boot
<1>9. CASE Abort BY <1>9 DEF Abort
<1>10. CASE StatusOf BY <1>10, DeadlineAssumption DEF StatusOf
<1>11. CASE CollectReplay BY <1>11 DEF CollectReplay
<1>12. CASE ReadSerial BY <1>12 DEF ReadSerial
<1>13. CASE PollVM BY <1>13 DEF PollVM
<1>14. CASE Dump BY <1>14 DEF Dump, NoBundle
<1>15. CASE PollTask BY <1>15 DEF PollTask
<1>16. CASE AwaitTask BY <1>16 DEF AwaitTask
<1>17. CASE FetchReport BY <1>17 DEF FetchReport, NoBundle
<1>18. CASE Check BY <1>18 DEF Check
<1>19. CASE Merge BY <1>19 DEF Merge
<1>20. CASE CollectLog BY <1>20 DEF CollectLog
<1>21. CASE Except BY <1>21 DEF Except, NoBundle
<1>22. CASE Release BY <1>22 DEF Release
<1>23. CASE Interrupt BY <1>23 DEF Interrupt
<1>24. CASE Kill BY <1>24 DEF Kill
<1>25. CASE TimePasses BY <1>25, DeadlineAssumption DEF TimePasses, Waiting
<1>26. CASE Guest BY <1>26 DEF Guest
<1>27. CASE Analyse BY <1>27 DEF Analyse
<1>28. ASSUME NEW k \in Kinds, Ingest(k) PROVE SandboxTypeOK' BY <1>28, AfterKinds DEF Ingest, Bound
<1>29. ASSUME NEW k \in Kinds, Skip(k) PROVE SandboxTypeOK' BY <1>29, AfterKinds DEF Skip
<1>30. ASSUME NEW k \in Kinds, IngestFails(k) PROVE SandboxTypeOK' BY <1>30 DEF IngestFails
<1>31. ASSUME NEW k \in Kinds, Edit(k) PROVE SandboxTypeOK' BY <1>31 DEF Edit
<1> QED BY <1>1, <1>2, <1>3, <1>4, <1>5, <1>6, <1>7, <1>8, <1>9, <1>10, <1>11, <1>12, <1>13, <1>14, <1>15, <1>16, <1>17, <1>18, <1>19, <1>20, <1>21, <1>22, <1>23, <1>24, <1>25, <1>26, <1>27, <1>28, <1>29, <1>30, <1>31 DEF RunNext, Controller

\* Nothing that runs or lies on disk loses its owner.
LEMMA OwnedStep ==
    ASSUME SandboxTypeOK, Owned, RunNext PROVE Owned'
<1> USE DEF Owned, Submitting, Handling, Kinds, Goes, Fails, machine, evidence
<1>1. CASE SubmitLog BY <1>1 DEF SubmitLog
<1>2. CASE Refuse BY <1>2 DEF Refuse
<1>3. CASE SubmitReplay BY <1>3 DEF SubmitReplay
<1>4. CASE SubmitCape BY <1>4 DEF SubmitCape
<1>5. CASE Stage BY <1>5 DEF Stage
<1>6. CASE MakeIso BY <1>6 DEF MakeIso
<1>7. CASE MakeOverlay BY <1>7 DEF MakeOverlay
<1>8. CASE Boot BY <1>8 DEF Boot
<1>9. CASE Abort BY <1>9 DEF Abort, SandboxTypeOK
<1>10. CASE StatusOf BY <1>10 DEF StatusOf
<1>11. CASE CollectReplay BY <1>11 DEF CollectReplay
<1>12. CASE ReadSerial BY <1>12 DEF ReadSerial
<1>13. CASE PollVM BY <1>13 DEF PollVM
<1>14. CASE Dump BY <1>14 DEF Dump
<1>15. CASE PollTask BY <1>15 DEF PollTask
<1>16. CASE AwaitTask BY <1>16 DEF AwaitTask
<1>17. CASE FetchReport BY <1>17 DEF FetchReport
<1>18. CASE Check BY <1>18 DEF Check
<1>19. CASE Merge BY <1>19 DEF Merge
<1>20. CASE CollectLog BY <1>20 DEF CollectLog
<1>21. CASE Except BY <1>21 DEF Except
<1>22. CASE Release BY <1>22 DEF Release, SandboxTypeOK
<1>23. CASE Interrupt BY <1>23 DEF Interrupt, SandboxTypeOK
<1>24. CASE Kill BY <1>24 DEF Kill
<1>25. CASE TimePasses BY <1>25 DEF TimePasses, Waiting
<1>26. CASE Guest BY <1>26 DEF Guest, SandboxTypeOK
<1>27. CASE Analyse BY <1>27 DEF Analyse
<1>28. ASSUME NEW k \in Kinds, Ingest(k) PROVE Owned' BY <1>28, AfterKinds DEF Ingest
<1>29. ASSUME NEW k \in Kinds, Skip(k) PROVE Owned' BY <1>29, AfterKinds DEF Skip
<1>30. ASSUME NEW k \in Kinds, IngestFails(k) PROVE Owned' BY <1>30 DEF IngestFails
<1>31. ASSUME NEW k \in Kinds, Edit(k) PROVE Owned' BY <1>31 DEF Edit
<1> QED BY <1>1, <1>2, <1>3, <1>4, <1>5, <1>6, <1>7, <1>8, <1>9, <1>10, <1>11, <1>12, <1>13, <1>14, <1>15, <1>16, <1>17, <1>18, <1>19, <1>20, <1>21, <1>22, <1>23, <1>24, <1>25, <1>26, <1>27, <1>28, <1>29, <1>30, <1>31 DEF RunNext, Controller

\* Evidence stays staged until the merge.
LEMMA MergedStep ==
    ASSUME SandboxTypeOK, Merged, RunNext PROVE Merged'
<1> USE DEF Merged, TraceTaken, SandboxTypeOK, Kinds, NoBundle, Goes, Fails, machine, evidence
<1>1. CASE SubmitLog BY <1>1 DEF SubmitLog
<1>2. CASE Refuse BY <1>2 DEF Refuse
<1>3. CASE SubmitReplay BY <1>3 DEF SubmitReplay
<1>4. CASE SubmitCape BY <1>4 DEF SubmitCape
<1>5. CASE Stage BY <1>5 DEF Stage
<1>6. CASE MakeIso BY <1>6 DEF MakeIso
<1>7. CASE MakeOverlay BY <1>7 DEF MakeOverlay
<1>8. CASE Boot BY <1>8 DEF Boot
<1>9. CASE Abort BY <1>9 DEF Abort
<1>10. CASE StatusOf BY <1>10 DEF StatusOf
<1>11. CASE CollectReplay BY <1>11 DEF CollectReplay
<1>12. CASE ReadSerial BY <1>12 DEF ReadSerial
<1>13. CASE PollVM BY <1>13 DEF PollVM
<1>14. CASE Dump BY <1>14 DEF Dump
<1>15. CASE PollTask BY <1>15 DEF PollTask
<1>16. CASE AwaitTask BY <1>16 DEF AwaitTask
<1>17. CASE FetchReport BY <1>17 DEF FetchReport
<1>18. CASE Check BY <1>18 DEF Check
<1>19. CASE Merge BY <1>19 DEF Merge
<1>20. CASE CollectLog BY <1>20 DEF CollectLog
<1>21. CASE Except BY <1>21 DEF Except
<1>22. CASE Release BY <1>22 DEF Release
<1>23. CASE Interrupt BY <1>23 DEF Interrupt
<1>24. CASE Kill BY <1>24 DEF Kill
<1>25. CASE TimePasses BY <1>25 DEF TimePasses, Waiting
<1>26. CASE Guest BY <1>26 DEF Guest
<1>27. CASE Analyse BY <1>27 DEF Analyse
<1>28. ASSUME NEW k \in Kinds, Ingest(k) PROVE Merged'
  <2>1. pc = k /\ store = {} /\ store' = store /\ bundle' = bundle
    BY <1>28 DEF Ingest
  <2>2. staged' = staged \cup {<<k, file[k]>>} /\ file[k] \in {"own", "edited"} /\ file[k] \in Content
    BY <1>28 DEF Ingest, Bound
  <2>3. pc' = After(k) \/ pc' = "except"
    BY <1>28 DEF Ingest
  <2>4. \A e \in staged' : e[2] \in {"own", "edited"}
    BY <2>2
  <2>5. pc' \in {"memory_dump", "merge"} => k \in {"trace", "memory_dump"}
    BY <2>3, AfterKinds DEF After
  <2>6. CASE k = "trace"
    BY <2>1, <2>2, <2>4, <2>6
  <2>7. CASE k = "memory_dump"
    <3>1. TraceTaken
      BY <2>1, <2>7
    <3> QED BY <2>1, <2>2, <2>4, <3>1
  <2> QED BY <2>1, <2>2, <2>4, <2>5, <2>6, <2>7
<1>29. ASSUME NEW k \in Kinds, Skip(k) PROVE Merged' BY <1>29, AfterKinds DEF Skip, Skips
<1>30. ASSUME NEW k \in Kinds, IngestFails(k) PROVE Merged' BY <1>30 DEF IngestFails
<1>31. ASSUME NEW k \in Kinds, Edit(k) PROVE Merged' BY <1>31 DEF Edit
<1> QED BY <1>1, <1>2, <1>3, <1>4, <1>5, <1>6, <1>7, <1>8, <1>9, <1>10, <1>11, <1>12, <1>13, <1>14, <1>15, <1>16, <1>17, <1>18, <1>19, <1>20, <1>21, <1>22, <1>23, <1>24, <1>25, <1>26, <1>27, <1>28, <1>29, <1>30, <1>31 DEF RunNext, Controller

\* The trace of a QEMU guest gets from the bundle to the store.
LEMMA TracedStep ==
    ASSUME SandboxTypeOK, Owned, Traced, RunNext PROVE Traced'
<1> USE DEF SandboxTypeOK, Owned, Traced, Submitting, Handling, Kinds, NoBundle, Goes, Fails, machine, evidence
<1>1. CASE SubmitLog BY <1>1 DEF SubmitLog
<1>2. CASE Refuse BY <1>2 DEF Refuse
<1>3. CASE SubmitReplay BY <1>3 DEF SubmitReplay
<1>4. CASE SubmitCape BY <1>4 DEF SubmitCape
<1>5. CASE Stage BY <1>5 DEF Stage
<1>6. CASE MakeIso BY <1>6 DEF MakeIso
<1>7. CASE MakeOverlay BY <1>7 DEF MakeOverlay
<1>8. CASE Boot BY <1>8 DEF Boot
<1>9. CASE Abort BY <1>9 DEF Abort
<1>10. CASE StatusOf BY <1>10 DEF StatusOf
<1>11. CASE CollectReplay BY <1>11 DEF CollectReplay
<1>12. CASE ReadSerial BY <1>12 DEF ReadSerial
<1>13. CASE PollVM BY <1>13 DEF PollVM
<1>14. CASE Dump BY <1>14 DEF Dump
<1>15. CASE PollTask BY <1>15 DEF PollTask
<1>16. CASE AwaitTask BY <1>16 DEF AwaitTask
<1>17. CASE FetchReport BY <1>17 DEF FetchReport
<1>18. CASE Check BY <1>18 DEF Check
<1>19. CASE Merge BY <1>19 DEF Merge
<1>20. CASE CollectLog BY <1>20 DEF CollectLog
<1>21. CASE Except BY <1>21 DEF Except
<1>22. CASE Release BY <1>22 DEF Release
<1>23. CASE Interrupt BY <1>23 DEF Interrupt
<1>24. CASE Kill BY <1>24 DEF Kill
<1>25. CASE TimePasses BY <1>25 DEF TimePasses, Waiting
<1>26. CASE Guest BY <1>26 DEF Guest
<1>27. CASE Analyse BY <1>27 DEF Analyse
<1>28. ASSUME NEW k \in Kinds, Ingest(k) PROVE Traced' BY <1>28, AfterKinds DEF Ingest, Bound
<1>29. ASSUME NEW k \in Kinds, Skip(k) PROVE Traced' BY <1>29, AfterKinds DEF Skip, Skips, Bound
<1>30. ASSUME NEW k \in Kinds, IngestFails(k) PROVE Traced' BY <1>30 DEF IngestFails
<1>31. ASSUME NEW k \in Kinds, Edit(k) PROVE Traced' BY <1>31 DEF Edit
<1> QED BY <1>1, <1>2, <1>3, <1>4, <1>5, <1>6, <1>7, <1>8, <1>9, <1>10, <1>11, <1>12, <1>13, <1>14, <1>15, <1>16, <1>17, <1>18, <1>19, <1>20, <1>21, <1>22, <1>23, <1>24, <1>25, <1>26, <1>27, <1>28, <1>29, <1>30, <1>31 DEF RunNext, Controller

\* Every step keeps the invariant, and it holds at the start.
LEMMA IInvStep == IInv /\ [RunNext]_runVars => IInv'
<1> SUFFICES ASSUME IInv, [RunNext]_runVars PROVE IInv'
    OBVIOUS
<1>1. CASE RunNext BY <1>1, TypeStep, OwnedStep, MergedStep, TracedStep DEF IInv
<1>2. CASE UNCHANGED runVars
    <2> USE <1>2 DEF IInv, runVars
    <2>1. SandboxTypeOK' BY DEF SandboxTypeOK
    <2>2. Owned' BY DEF Owned
    <2>3. Merged' BY DEF Merged, TraceTaken
    <2>4. Traced' BY DEF Traced
    <2> QED BY <2>1, <2>2, <2>3, <2>4
<1> QED BY <1>1, <1>2

LEMMA IInvInit == RunInit => IInv
<1> SUFFICES ASSUME RunInit PROVE IInv
    OBVIOUS
<1> NoBundle \in [Kinds -> Content]
    BY DEF NoBundle, Content
<1> [Kinds -> Content \ {"edited"}] \subseteq [Kinds -> Content]
    OBVIOUS
<1>1. bundle \in [Kinds -> Content] /\ file \in [Kinds -> Content]
    <2>1. bundle = NoBundle BY DEF RunInit
    <2>2. CASE backend = "replay"
        <3>1. file \in [Kinds -> Content \ {"edited"}]
              BY <2>2 DEF RunInit
        <3> QED BY <2>1, <3>1
    <2>3. CASE backend # "replay"
        <3>1. file = NoBundle
              BY <2>3 DEF RunInit
        <3> QED BY <2>1, <3>1
    <2> QED BY <2>2, <2>3
<1>2. SandboxTypeOK
    <2>1. /\ backend \in Backends /\ pc = "log" /\ job = FALSE
          /\ staged = {} /\ store = {}
          /\ vm = "none" /\ disk = {} /\ serial = "nothing" /\ task = "none"
          /\ clock = 0 /\ raised = "no"
          BY DEF RunInit
    <2>2. pc \in Location BY <2>1 DEF Location
    <2>3. staged \subseteq Kinds \X Content /\ store \subseteq Kinds \X Content BY <2>1
    <2>4. clock \in 0 .. Deadline BY <2>1, DeadlineAssumption
    <2> QED BY <1>1, <2>1, <2>2, <2>3, <2>4 DEF SandboxTypeOK
<1>3. Owned BY DEF RunInit, Owned, Submitting, Handling, Kinds
<1>4. Merged BY DEF RunInit, Merged, TraceTaken
<1>5. Traced BY DEF RunInit, Traced, NoBundle, Kinds
<1> QED BY <1>2, <1>3, <1>4, <1>5 DEF IInv

\* IInv is what every reachable state satisfies; the theorems follow from it.
LEMMA Invariance == RunSpec => []IInv
BY IInvInit, IInvStep, PTL DEF RunSpec

\* Every component keeps to its values.
THEOREM SandboxTypeCorrect == RunSpec => []SandboxTypeOK
<1>1. IInv => SandboxTypeOK BY DEF IInv
<1> QED BY <1>1, Invariance, PTL

\* However a run fails, what it started is released when it is left.
THEOREM RunsAreReleased == RunSpec => []ReleasedWhenOver
<1>1. IInv => ReleasedWhenOver
      BY DEF IInv, Owned, ReleasedWhenOver, SandboxTypeOK
<1> QED BY <1>1, Invariance, PTL

\* A run that fails before its artifacts were all ingested leaves no evidence.
THEOREM MergesWhenAllTaken == RunSpec => []MergedWhenAllTaken
<1>1. IInv => MergedWhenAllTaken BY DEF IInv, Merged, TraceTaken, MergedWhenAllTaken
<1> QED BY <1>1, Invariance, PTL

\* No evidence of another sample, or of none, reaches the store.
THEOREM EvidenceIsOwn == RunSpec => []OnlyOwnEvidence
<1>1. IInv => OnlyOwnEvidence BY DEF IInv, Merged, OnlyOwnEvidence
<1> QED BY <1>1, Invariance, PTL

\* A QEMU run that can be published holds its guest's trace.
THEOREM PublishedRunsAreObserved == RunSpec => []PublishedRunIsObserved
<1>1. IInv => PublishedRunIsObserved BY DEF IInv, Traced, PublishedRunIsObserved
<1> QED BY <1>1, Invariance, PTL

=============================================================================
