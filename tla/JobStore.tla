------------------------------ MODULE JobStore ------------------------------
(***************************************************************************)
(* The `jobs' table of sandworm/platform/store.py and the transactions     *)
(* that change it.  Every operation of PlatformStore on that table is one  *)
(* SQLite transaction (`with self.connect()'), hence one action here.      *)
(*                                                                         *)
(* The callers are left open: any worker may claim at any time, and any    *)
(* caller may present any lease it could ever have been given, fresh or    *)
(* long lost.  LocalWorkers constrains the callers to what run_once does.  *)
(*                                                                         *)
(* Time is kept relative to the wall clock, so that it needs no bound:     *)
(*   wait[j] = due - now        (0 once the job is due)                    *)
(*   age[j]  = now - heartbeat  (saturates just beyond the stale limit)    *)
(*   ahead[j] = the jobs whose `due' is earlier than that of j             *)
(* A lease is secrets.token_hex(24), never drawn twice: the lease of the   *)
(* n-th claim of a job is named n, and 0 is the NULL of an unclaimed row.  *)
(* result[j] is the `attempt' field of the result column, 0 for `{}'.      *)
(* error[j] "none" is the empty string.                                    *)
(***************************************************************************)
EXTENDS Integers, FiniteSets

CONSTANTS
    Jobs,          \* job identifiers (uuid4)
    Workers,       \* values of the `worker' column
    Workspaces,    \* tenants
    WorkspaceOf,   \* the workspace a job was submitted in
    Scope,         \* the workspaces a worker claims from (its `workspace' argument)
    StaleTicks,    \* stale_seconds, in ticks of the clock
    MaxDelay,      \* bound on the delay of a submission, in ticks
    MaxAttempts,   \* claims a job may use up (3 in the code)
    NoWorker       \* the NULL of the `worker' column

ASSUME WorkspaceAssumption == WorkspaceOf \in [Jobs -> Workspaces]
ASSUME ScopeAssumption     == Scope \in [Workers -> SUBSET Workspaces]
ASSUME StaleAssumption     == StaleTicks \in Nat
ASSUME DelayAssumption     == MaxDelay \in Nat
ASSUME AttemptsAssumption  == MaxAttempts \in Nat \ {0}
ASSUME NoWorkerAssumption  == NoWorker \notin Workers

VARIABLES
    status, wait, ahead, worker, lease, age, attempts, error, result,
    doomed         \* rows a running retain() has selected and not yet expired

vars == <<status, wait, ahead, worker, lease, age, attempts, error, result, doomed>>

-----------------------------------------------------------------------------
\* The life of a row.  "absent" stands for a row not inserted yet.
Held     == {"running", "cancelling"}
Finished == {"completed", "failed", "cancelled"}
Final    == Finished \cup {"expired"}
Status   == {"absent", "queued"} \cup Held \cup Final

Errors   == {"none", "worker lease expired", "attempt failed"}
Leases   == 1 .. MaxAttempts

\* Every column holds a value the code can write to it.
TypeOK ==
    /\ status   \in [Jobs -> Status]
    /\ wait     \in [Jobs -> 0 .. MaxDelay]
    /\ ahead    \in [Jobs -> SUBSET Jobs]
    /\ worker   \in [Jobs -> Workers \cup {NoWorker}]
    /\ lease    \in [Jobs -> Nat]
    /\ age      \in [Jobs -> 0 .. StaleTicks + 1]
    /\ attempts \in [Jobs -> Nat]
    /\ error    \in [Jobs -> Errors]
    /\ result   \in [Jobs -> Nat]
    /\ doomed   \subseteq Jobs

Init ==
    /\ status   = [j \in Jobs |-> "absent"]
    /\ wait     = [j \in Jobs |-> 0]
    /\ ahead    = [j \in Jobs |-> {}]
    /\ worker   = [j \in Jobs |-> NoWorker]
    /\ lease    = [j \in Jobs |-> 0]
    /\ age      = [j \in Jobs |-> 0]
    /\ attempts = [j \in Jobs |-> 0]
    /\ error    = [j \in Jobs |-> "none"]
    /\ result   = [j \in Jobs |-> 0]
    /\ doomed   = {}

-----------------------------------------------------------------------------
\* The clock.
Tick ==
    /\ wait' = [j \in Jobs |-> IF wait[j] > 0 THEN wait[j] - 1 ELSE 0]
    /\ age'  = [j \in Jobs |-> IF age[j] > StaleTicks THEN age[j] ELSE age[j] + 1]
    /\ UNCHANGED <<status, ahead, worker, lease, attempts, error, result, doomed>>

-----------------------------------------------------------------------------
\* enqueue(): one INSERT.  A row due no later than the new one is ahead of it;
\* rows due later have the new one ahead of them.  Rows that fall due within
\* the same tick stay unordered.
Known        == {j \in Jobs : status[j] # "absent"}
DueBefore(d) == {k \in Known : wait[k] < d \/ wait[k] = 0}
DueAfter(d)  == {k \in Known : wait[k] > d}

Enqueue(j, d) ==
    /\ status[j] = "absent"
    /\ status' = [status EXCEPT ![j] = "queued"]
    /\ wait'   = [wait EXCEPT ![j] = d]
    /\ ahead'  = [k \in Jobs |-> CASE k = j           -> DueBefore(d)
                                   [] k \in DueAfter(d) -> ahead[k] \cup {j}
                                   [] OTHER           -> ahead[k]]
    /\ UNCHANGED <<worker, lease, age, attempts, error, result, doomed>>

\* cancel(): a queued job is cancelled at once, a running one is asked to stop;
\* on any other status the UPDATE matches no row.
AfterCancel(s) == IF s = "running" THEN "cancelling" ELSE "cancelled"

Cancel(j) ==
    /\ status[j] \in {"queued", "running"}
    /\ status' = [status EXCEPT ![j] = AfterCancel(@)]
    /\ UNCHANGED <<wait, ahead, worker, lease, age, attempts, error, result, doomed>>

-----------------------------------------------------------------------------
\* claim(): one transaction sweeps the rows, of every workspace, whose worker
\* has been silent for too long, then hands out the earliest due row.  (The
\* tick_schedules() call before it is a transaction of its own, whose inserts
\* are Enqueue(j, 0) steps here; module Schedules has it in full.)
LostTooSoon == {j \in Jobs : status[j] \in Held /\ age[j] >= StaleTicks}     \* mutant

Lost == {j \in Jobs : status[j] \in Held /\ age[j] > StaleTicks}

AfterLossOneMore(j) ==                                                       \* mutant
    IF status[j] = "cancelling" THEN "cancelled"
    ELSE IF attempts[j] > MaxAttempts THEN "failed" ELSE "queued"
AfterLossForgetsCancel(j) ==                                                 \* mutant
    IF attempts[j] >= MaxAttempts THEN "failed" ELSE "queued"

AfterLoss(j) ==
    IF status[j] = "cancelling" THEN "cancelled"
    ELSE IF attempts[j] >= MaxAttempts THEN "failed" ELSE "queued"

Swept == [j \in Jobs |-> IF j \in Lost THEN AfterLoss(j) ELSE status[j]]

MarkLost == error' = [j \in Jobs |-> IF j \in Lost THEN "worker lease expired" ELSE error[j]]

Ready(w) == {j \in Jobs : /\ Swept[j] = "queued"
                          /\ wait[j] = 0
                          /\ WorkspaceOf[j] \in Scope[w]}

Front(w) == {j \in Ready(w) : ahead[j] \cap Ready(w) = {}}

\* Nothing to hand out: the sweep is committed all the same.
ClaimNothing(w) ==
    /\ Ready(w) = {}
    /\ status' = Swept
    /\ MarkLost
    /\ UNCHANGED <<wait, ahead, worker, lease, age, attempts, result, doomed>>

LeaseReused(j) == IF lease[j] = 0 THEN 1 ELSE lease[j]                         \* mutant

FreshLease(j) == attempts[j] + 1

ClaimJob(w, j) ==
    /\ j \in Front(w)
    /\ status'   = [Swept EXCEPT ![j] = "running"]
    /\ worker'   = [worker EXCEPT ![j] = w]
    /\ lease'    = [lease EXCEPT ![j] = FreshLease(j)]
    /\ age'      = [age EXCEPT ![j] = 0]
    /\ attempts' = [attempts EXCEPT ![j] = @ + 1]
    /\ MarkLost
    /\ UNCHANGED <<wait, ahead, result, doomed>>

-----------------------------------------------------------------------------
\* heartbeat(): the UPDATE looks at the lease only, whatever the status; the
\* reply is the status of the row if the lease is still its own.
Heartbeat(j, l) ==
    /\ age' = IF lease[j] = l THEN [age EXCEPT ![j] = 0] ELSE age
    /\ UNCHANGED <<status, wait, ahead, worker, lease, attempts, error, result, doomed>>

HeartbeatReply(j, l) == IF lease[j] = l THEN status[j] ELSE "lost"

\* finish(): writes the outcome only for the lease of the row and only while
\* the row is held; otherwise no row matches and it returns False.  `told' says
\* whether the caller passes a result or an error.
AcceptsUnfenced(j, l) == status[j] \in Held                                 \* mutant

Accepts(j, l) == lease[j] = l /\ status[j] \in Held

Outcome(j, told) ==
    IF status[j] = "cancelling" THEN "cancelled"
    ELSE IF told = "success" THEN "completed" ELSE "failed"

Finish(j, l, told) ==
    \/ /\ Accepts(j, l)
       /\ status' = [status EXCEPT ![j] = Outcome(j, told)]
       /\ result' = [result EXCEPT ![j] = IF told = "success" THEN l ELSE 0]
       /\ error'  = [error EXCEPT ![j] = IF told = "success" THEN "none" ELSE "attempt failed"]
       /\ UNCHANGED <<wait, ahead, worker, lease, age, attempts, doomed>>
    \/ /\ ~Accepts(j, l)
       /\ UNCHANGED vars

-----------------------------------------------------------------------------
\* retain() of worker.py reads the rows to expire in one transaction and
\* expires them one by one in others, without looking at their status again.
\* Which finished rows are older than the cutoff and the source of no
\* schedule is left open here.
RetainableUnfinished == {j \in Jobs : status[j] \in Finished \cup {"cancelling"}}  \* mutant

Retainable == {j \in Jobs : status[j] \in Finished}

RetainSelect(S) ==
    /\ S # {} /\ S \subseteq Retainable
    /\ doomed' = doomed \cup S
    /\ UNCHANGED <<status, wait, ahead, worker, lease, age, attempts, error, result>>

RetainExpire(j) ==
    /\ j \in doomed
    /\ status' = [status EXCEPT ![j] = "expired"]
    /\ result' = [result EXCEPT ![j] = 0]
    /\ doomed' = doomed \ {j}
    /\ UNCHANGED <<wait, ahead, worker, lease, age, attempts, error>>

RetainCrash ==
    /\ doomed # {}
    /\ doomed' = {}
    /\ UNCHANGED <<status, wait, ahead, worker, lease, age, attempts, error, result>>

Retain == (\E S \in SUBSET Jobs : RetainSelect(S)) \/ (\E j \in Jobs : RetainExpire(j)) \/ RetainCrash

-----------------------------------------------------------------------------
Next ==
    \/ Tick
    \/ \E j \in Jobs, d \in 0 .. MaxDelay : Enqueue(j, d)
    \/ \E j \in Jobs : Cancel(j)
    \/ \E w \in Workers : ClaimNothing(w)
    \/ \E w \in Workers, j \in Jobs : ClaimJob(w, j)
    \/ \E j \in Jobs, l \in Leases : Heartbeat(j, l)
    \/ \E j \in Jobs, l \in Leases, told \in {"success", "error"} : Finish(j, l, told)
    \/ Retain

Spec == Init /\ [][Next]_vars

-----------------------------------------------------------------------------
\* A job is never executed more often than the retry limit allows, and never
\* waits in the queue with no attempt left: the sweep of claim() counts the
\* claim that was lost before it requeues.
AttemptsBounded ==
    \A j \in Jobs : /\ attempts[j] <= MaxAttempts
                    /\ status[j] = "queued" => attempts[j] < MaxAttempts

\* A completed job shows the result of its latest claim and no error, however
\* many workers lost it before and whatever the sweeps wrote to its row.
CompletedIsPublished ==
    \A j \in Jobs : status[j] = "completed" => /\ result[j] = attempts[j]
                                               /\ result[j] > 0
                                               /\ error[j] = "none"

\* A result reaches a row only as the output of the claim that holds the row
\* in that very state: a worker whose job was handed on, swept, finished or
\* expired writes nothing (header of store.py, finish()).
FencedPublication ==
    [][\A j \in Jobs : result'[j] \notin {result[j], 0}
          => status[j] \in Held /\ result'[j] = attempts[j]]_vars

\* The outcome of a finished job is immutable; retention alone may retire it,
\* and retires nothing else, although its UPDATE does not check the status.
FinalStaysFinal ==
    [][\A j \in Jobs :
          /\ status[j] \in Final
               => \/ /\ status'[j] = status[j]
                     /\ result'[j] = result[j]
                     /\ error'[j] = error[j]
                  \/ status'[j] = "expired"
          /\ status'[j] = "expired" => status[j] \in Final]_vars

\* Once a running job is asked to stop it can only become cancelled: neither a
\* late result nor the sweep after a lost worker revives or completes it.
CancellationSticks ==
    [][\A j \in Jobs : status[j] = "cancelling" => status'[j] \in {"cancelling", "cancelled"}]_vars

\* A worker heard of within the last StaleTicks keeps its job against every
\* other claim, the first tick after its own claim included.
LeaseHonoured ==
    [][\A j \in Jobs : status[j] \in Held /\ age[j] <= StaleTicks
          => /\ lease'[j] = lease[j]
             /\ status'[j] # "queued"]_vars

\* No claim overtakes a job that was due earlier, even one that was lost and
\* returns to the queue by the sweep of that same claim.
ClaimsInDueOrder ==
    [][\A w \in Workers, j, k \in Jobs :
          worker'[k] = w /\ lease'[k] # lease[k] /\ j \in ahead[k] /\ wait[j] = 0
             /\ WorkspaceOf[j] \in Scope[w]
          => status'[j] # "queued"]_vars

-----------------------------------------------------------------------------
\* The user's view of a row: public() and output().
Phase(s) == IF s \in {"queued", "running"} THEN "open"
            ELSE IF s = "cancelling" THEN "stopping" ELSE s

Served(j) == IF status[j] = "completed" THEN result[j] ELSE 0

Contract == INSTANCE JobContract WITH
    phase  <- [j \in Jobs |-> Phase(status[j])],
    served <- [j \in Jobs |-> Served(j)]

\* Retries, sweeps and late callers are invisible to the user: a job is decided
\* once, a request to stop is never overtaken by a result, and what is served
\* stays what it is.
KeepsContract == Contract!Spec
=============================================================================
