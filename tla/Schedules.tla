------------------------------ MODULE Schedules ------------------------------
(***************************************************************************)
(* Recurring schedules, retention, and the encrypted samples they share.   *)
(*                                                                         *)
(*   - POST /api/jobs stores the sample, then inserts the row;             *)
(*   - POST /api/jobs/{id}/schedule (PlatformStore.schedule) looks whether *)
(*     the sample is there and later inserts the schedule;                 *)
(*   - tick_schedules(), run by every claim, copies the sample of each due *)
(*     schedule into the directory of a new job, inside one BEGIN          *)
(*     IMMEDIATE transaction;                                              *)
(*   - retain() of worker.py selects finished jobs, then removes their     *)
(*     directories and marks them expired one after the other.             *)
(*                                                                         *)
(* Files are no part of a transaction: they change at once and survive a   *)
(* rollback.  A row of the jobs table is reduced to what matters here;     *)
(* JobStore has the rest of its life.  The clock is that of the schedules: *)
(* left[s] is next_due - now, negative when overdue.                       *)
(***************************************************************************)
EXTENDS Integers, FiniteSets

CONSTANTS
    Jobs, Slots,   \* job identifiers and schedule identifiers (uuid4)
    Workers,       \* processes that claim, hence tick
    Interval,      \* interval_seconds, in ticks
    MaxOverdue,    \* bound on how far past next_due the model looks
    BatchLimit,    \* schedules one tick handles (LIMIT 100)
    MaxCrashes,    \* bound on process deaths
    NoJob, NoSlot, NoWorker

ASSUME IntervalAssumption == Interval \in Nat \ {0}
ASSUME OverdueAssumption  == MaxOverdue \in Nat
ASSUME BatchAssumption    == BatchLimit \in Nat \ {0}
ASSUME CrashAssumption    == MaxCrashes \in Nat
ASSUME NullAssumption     == NoJob \notin Jobs /\ NoSlot \notin Slots /\ NoWorker \notin Workers

VARIABLES
    row,           \* the status of a job, reduced
    sample,        \* the jobs whose samples/<sha256>.zip exists
    fresh,         \* identifiers never drawn
    src, enabled, left,      \* the schedules table
    uploads,       \* stored samples whose row is still to come
    asked,         \* a scheduling request between its checks and its INSERT
    lock,          \* the worker whose tick holds SQLite's write lock
    todo,          \* due schedules that tick has yet to look at
    off, made,     \* its uncommitted UPDATEs and INSERTs: slots, <<slot, job>>
    copy,          \* the <<slot, job>> whose archive it is copying
    spent,         \* ticks since it read the clock
    doomed,        \* rows retain() has selected and not dealt with
    removed,       \* the one of them whose directory is gone already
    since,         \* ticks since a schedule last ran or was created
    crashes

tickVars     == <<lock, todo, off, made, copy, spent>>
scheduleVars == <<src, enabled, left, asked, since>>
retainVars   == <<doomed, removed>>
vars == <<row, sample, fresh, uploads, src, enabled, left, asked, lock, todo, off, made,
          copy, spent, doomed, removed, since, crashes>>

NoCopy == <<NoSlot, NoJob>>

\* "live" is queued, running or cancelling; "finished" completed, failed or
\* cancelled.
Rows == {"absent", "live", "finished", "expired"}

TypeOK ==
    /\ row     \in [Jobs -> Rows]
    /\ sample  \subseteq Jobs
    /\ fresh   \subseteq Jobs
    /\ uploads \subseteq Jobs
    /\ src     \in [Slots -> Jobs \cup {NoJob}]
    /\ enabled \in [Slots -> BOOLEAN]
    /\ left    \in [Slots -> (-MaxOverdue) .. Interval]
    /\ asked   \in [Slots -> Jobs \cup {NoJob}]
    /\ lock    \in Workers \cup {NoWorker}
    /\ todo    \subseteq Slots
    /\ off     \subseteq Slots
    /\ made    \subseteq Slots \X Jobs
    /\ copy    \in (Slots \X Jobs) \cup {NoCopy}
    /\ spent   \in 0 .. Interval
    /\ doomed  \subseteq Jobs
    /\ removed \in Jobs \cup {NoJob}
    /\ since   \in [Slots -> 0 .. 2 * Interval]
    /\ crashes \in 0 .. MaxCrashes

Init ==
    /\ row     = [j \in Jobs |-> "absent"]
    /\ sample  = {}
    /\ fresh   = Jobs
    /\ uploads = {}
    /\ src     = [s \in Slots |-> NoJob]
    /\ enabled = [s \in Slots |-> FALSE]
    /\ left    = [s \in Slots |-> 0]
    /\ asked   = [s \in Slots |-> NoJob]
    /\ lock    = NoWorker
    /\ todo    = {}
    /\ off     = {}
    /\ made    = {}
    /\ copy    = NoCopy
    /\ spent   = 0
    /\ doomed  = {}
    /\ removed = NoJob
    /\ since   = [s \in Slots |-> 0]
    /\ crashes = 0

-----------------------------------------------------------------------------
\* The clock; a transaction may stay open while it goes on.
Tick ==
    /\ left'  = [s \in Slots |-> IF enabled[s] /\ left[s] > -MaxOverdue THEN left[s] - 1 ELSE left[s]]
    /\ since' = [s \in Slots |-> IF enabled[s] /\ since[s] < 2 * Interval THEN since[s] + 1 ELSE since[s]]
    /\ spent' = IF lock # NoWorker /\ spent < Interval THEN spent + 1 ELSE spent
    /\ UNCHANGED <<row, sample, fresh, uploads, src, enabled, asked, lock, todo, off, made,
                   copy, doomed, removed, crashes>>

-----------------------------------------------------------------------------
\* submit(): the sample first, then the row.
StoreSample(j) ==
    /\ j \in fresh
    /\ fresh'   = fresh \ {j}
    /\ sample'  = sample \cup {j}
    /\ uploads' = uploads \cup {j}
    /\ UNCHANGED <<row, scheduleVars, tickVars, retainVars, crashes>>

InsertRow(j) ==
    /\ lock = NoWorker
    /\ j \in uploads
    /\ row'     = [row EXCEPT ![j] = "live"]
    /\ uploads' = uploads \ {j}
    /\ UNCHANGED <<sample, fresh, scheduleVars, tickVars, retainVars, crashes>>

\* External: JobStore decides the job.
FinishJob(j) ==
    /\ lock = NoWorker
    /\ row[j] = "live"
    /\ row' = [row EXCEPT ![j] = "finished"]
    /\ UNCHANGED <<sample, fresh, uploads, scheduleVars, tickVars, retainVars, crashes>>

-----------------------------------------------------------------------------
\* schedule(): the checks, and the INSERT in a later transaction.  A slot is
\* named when the request starts; unschedule() disables it for good.
AskSchedule(s, j) ==
    /\ src[s] = NoJob /\ asked[s] = NoJob
    /\ row[j] # "absent" /\ j \in sample
    /\ asked' = [asked EXCEPT ![s] = j]
    /\ UNCHANGED <<row, sample, fresh, uploads, src, enabled, left, since, tickVars,
                   retainVars, crashes>>

InsertSchedule(s) ==
    /\ lock = NoWorker
    /\ asked[s] # NoJob
    /\ src'     = [src EXCEPT ![s] = asked[s]]
    /\ enabled' = [enabled EXCEPT ![s] = TRUE]
    /\ left'    = [left EXCEPT ![s] = Interval]
    /\ since'   = [since EXCEPT ![s] = 0]
    /\ asked'   = [asked EXCEPT ![s] = NoJob]
    /\ UNCHANGED <<row, sample, fresh, uploads, tickVars, retainVars, crashes>>

Unschedule(s) ==
    /\ lock = NoWorker
    /\ enabled[s]
    /\ enabled' = [enabled EXCEPT ![s] = FALSE]
    /\ UNCHANGED <<row, sample, fresh, uploads, src, left, asked, since, tickVars,
                   retainVars, crashes>>

-----------------------------------------------------------------------------
\* tick_schedules(): BEGIN IMMEDIATE takes the write lock, then the due rows
\* are read.  (A tick that finds none due changes nothing.)
Due == {s \in Slots : enabled[s] /\ left[s] <= 0}

Batches == {T \in SUBSET Due : /\ Cardinality(T) <= BatchLimit
                               /\ Cardinality(T) < BatchLimit => T = Due}

TickBegin(w) ==
    /\ lock = NoWorker
    /\ Due # {}
    /\ lock'  = w
    /\ todo' \in Batches
    /\ spent' = 0
    /\ UNCHANGED <<row, sample, fresh, uploads, scheduleVars, off, made, copy,
                   retainVars, crashes>>

\* The source archive is gone: the schedule is switched off.
TickDisableForgotten(s) ==                                                   \* mutant
    /\ copy = NoCopy
    /\ s \in todo /\ src[s] \notin sample
    /\ todo' = todo \ {s}
    /\ UNCHANGED <<row, sample, fresh, uploads, scheduleVars, lock, off, made, copy, spent,
                   retainVars, crashes>>

TickDisable(s) ==
    /\ copy = NoCopy
    /\ s \in todo /\ src[s] \notin sample
    /\ off'  = off \cup {s}
    /\ todo' = todo \ {s}
    /\ UNCHANGED <<row, sample, fresh, uploads, scheduleVars, lock, made, copy, spent,
                   retainVars, crashes>>

\* The source archive is there: a new job directory is made for it ...
TickCopy(s, j) ==
    /\ copy = NoCopy
    /\ s \in todo /\ src[s] \in sample
    /\ j \in fresh
    /\ fresh' = fresh \ {j}
    /\ copy'  = <<s, j>>
    /\ todo'  = todo \ {s}
    /\ UNCHANGED <<row, sample, uploads, scheduleVars, lock, off, made, spent,
                   retainVars, crashes>>

\* ... and the archive copied, if it is still there.
TickCopied ==
    /\ copy # NoCopy /\ src[copy[1]] \in sample
    /\ sample' = sample \cup {copy[2]}
    /\ made'   = made \cup {copy}
    /\ copy'   = NoCopy
    /\ UNCHANGED <<row, fresh, uploads, scheduleVars, lock, todo, off, spent,
                   retainVars, crashes>>

\* COMMIT: the new jobs are queued, their schedules move on from the time the
\* tick read the clock, and the ones without a source are disabled.
Ran(s) == \E j \in Jobs : <<s, j>> \in made

NextDueCatchesUp(s) == IF left[s] + Interval - spent > -MaxOverdue           \* mutant
                       THEN left[s] + Interval - spent ELSE -MaxOverdue

NextDue(s) == Interval - spent

TickCommit ==
    /\ lock # NoWorker /\ todo = {} /\ copy = NoCopy
    /\ row'     = [j \in Jobs |-> IF \E s \in Slots : <<s, j>> \in made THEN "live" ELSE row[j]]
    /\ left'    = [s \in Slots |-> IF Ran(s) THEN NextDue(s) ELSE left[s]]
    /\ since'   = [s \in Slots |-> IF Ran(s) THEN spent ELSE since[s]]
    /\ enabled' = [s \in Slots |-> enabled[s] /\ s \notin off]
    /\ lock'    = NoWorker
    /\ off'     = {}
    /\ made'    = {}
    /\ spent'   = 0
    /\ UNCHANGED <<sample, fresh, uploads, src, asked, todo, copy, retainVars, crashes>>

\* ROLLBACK: copyfile raises because the archive went away after is_file(), or
\* the worker dies.  The exception leaves claim() and ends the worker; the
\* files already copied stay behind without a row.
RollBack ==
    /\ lock' = NoWorker /\ todo' = {} /\ off' = {} /\ made' = {} /\ copy' = NoCopy /\ spent' = 0
    /\ UNCHANGED <<row, sample, fresh, uploads, scheduleVars, retainVars>>

TickFails ==
    /\ copy # NoCopy /\ src[copy[1]] \notin sample
    /\ RollBack
    /\ UNCHANGED crashes

WorkerDies ==
    /\ lock # NoWorker
    /\ crashes < MaxCrashes
    /\ crashes' = crashes + 1
    /\ RollBack

-----------------------------------------------------------------------------
\* retain(): the SELECT is a transaction of its own.  Which finished rows are
\* past the cutoff is left open.
RetainableLive == {j \in Jobs : row[j] \in {"live", "finished"}}             \* mutant
                    \ {src[s] : s \in {t \in Slots : enabled[t]}}

Retainable == {j \in Jobs : row[j] = "finished"}
                \ {src[s] : s \in {t \in Slots : enabled[t]}}

RetainSelect(S) ==
    /\ doomed = {}
    /\ S # {} /\ S \subseteq Retainable
    /\ doomed' = S
    /\ UNCHANGED <<row, sample, fresh, uploads, scheduleVars, tickVars, removed, crashes>>

RetainRemoveIgnoresErrors(j) ==                                              \* mutant
    /\ removed = NoJob
    /\ j \in doomed
    /\ sample'  \in {sample, sample \ {j}}
    /\ removed' = j
    /\ UNCHANGED <<row, fresh, uploads, scheduleVars, tickVars, doomed, crashes>>

RetainRemove(j) ==
    /\ removed = NoJob
    /\ j \in doomed
    /\ sample'  = sample \ {j}
    /\ removed' = j
    /\ UNCHANGED <<row, fresh, uploads, scheduleVars, tickVars, doomed, crashes>>

RetainExpire ==
    /\ lock = NoWorker
    /\ removed # NoJob
    /\ row'     = [row EXCEPT ![removed] = "expired"]
    /\ doomed'  = doomed \ {removed}
    /\ removed' = NoJob
    /\ UNCHANGED <<sample, fresh, uploads, scheduleVars, tickVars, crashes>>

RetainDies ==
    /\ doomed # {}
    /\ crashes < MaxCrashes
    /\ crashes' = crashes + 1
    /\ doomed'  = {}
    /\ removed' = NoJob
    /\ UNCHANGED <<row, sample, fresh, uploads, scheduleVars, tickVars>>

\* The API dies with what its requests were doing.
ApiDies ==
    /\ uploads # {} \/ \E s \in Slots : asked[s] # NoJob
    /\ crashes < MaxCrashes
    /\ crashes' = crashes + 1
    /\ uploads' = {}
    /\ asked'   = [s \in Slots |-> NoJob]
    /\ UNCHANGED <<row, sample, fresh, src, enabled, left, since, tickVars, retainVars>>

-----------------------------------------------------------------------------
Ticking ==
    \/ \E w \in Workers : TickBegin(w)
    \/ \E s \in Slots : TickDisable(s)
    \/ \E s \in Slots, j \in Jobs : TickCopy(s, j)
    \/ TickCopied \/ TickFails \/ TickCommit

Requests ==
    \/ \E j \in Jobs : StoreSample(j) \/ InsertRow(j) \/ FinishJob(j)
    \/ \E s \in Slots, j \in Jobs : AskSchedule(s, j)
    \/ \E s \in Slots : InsertSchedule(s) \/ Unschedule(s)

Retaining ==
    \/ \E S \in SUBSET Jobs : RetainSelect(S)
    \/ \E j \in Jobs : RetainRemove(j)
    \/ RetainExpire

Next == Tick \/ Ticking \/ Requests \/ Retaining \/ WorkerDies \/ RetainDies \/ ApiDies

Spec == Init /\ [][Next]_vars

\* Time passes, and workers keep claiming: serve_worker() claims every two
\* seconds at the latest and is restarted when an exception ends it.
FairSpec == Spec /\ WF_vars(Tick) /\ WF_vars(Ticking)

-----------------------------------------------------------------------------
\* A job that is queued or being executed has its sample on disk: the row
\* comes after the file, whether it was uploaded or copied for a schedule,
\* and retention, racing with both, removes files of finished jobs only.
LiveJobHasSample == \A j \in Jobs : row[j] = "live" => j \in sample

\* An expired job has left no sample behind, whenever retain() was interrupted.
ExpiredJobHasNone == \A j \in Jobs : row[j] = "expired" => j \notin sample

\* Runs of a schedule are never less than an interval apart, counted from the
\* time of one tick's clock to the next, however overdue the schedule is and
\* whichever workers tick: missed intervals coalesce into one run.
RunsApart ==
    [][\A s \in Slots :
          (\E j \in Jobs : <<s, j>> \in made /\ row[j] = "absent" /\ row'[j] = "live")
             => since[s] - spent >= Interval]_vars

\* A schedule whose source sample is gone switches itself off in the end, even
\* if the sample vanishes while a tick is copying it.
BrokenScheduleStops ==
    \A s \in Slots :
        (enabled[s] /\ src[s] \notin sample) ~> (~enabled[s] \/ fresh = {})

\* docs/platform.md: the source samples of recurring schedules "remain
\* retained while the schedule is enabled".
SourceRetained == \A s \in Slots : enabled[s] => src[s] \in sample
=============================================================================
