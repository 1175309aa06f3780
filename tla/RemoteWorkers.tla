--------------------------- MODULE RemoteWorkers ---------------------------
(***************************************************************************)
(* Workers on other machines: remote_worker() of platform/remote.py and    *)
(* the /api/worker handlers of platform/api.py it calls, over JobStore.    *)
(*                                                                         *)
(* A remote process holds no database: every step is an HTTP request, and  *)
(* any answer that is not 200 (or never arrives) raises out of the loop    *)
(* and ends the process.  The server keeps executing a request whose       *)
(* client is gone, so an upload is an actor of its own: posts holds the    *)
(* uploads in progress.  A local worker of the same store serves the queue *)
(* besides; LocalWorkers has it in full.                                   *)
(*                                                                         *)
(* worker_lease() reads the row, then renews the lease in a transaction of *)
(* its own.  They are one step here: a process only presents the lease its *)
(* account was given, so the row's worker is that account as long as the   *)
(* lease is the row's, and later changes are those of the second one.      *)
(***************************************************************************)
EXTENDS JobStore

CONSTANTS
    Remotes,       \* remote processes
    AccountOf,     \* "remote:" + the id of the account whose key a process uses
    Local,         \* the name of a local worker
    Deadline,      \* 900 seconds, in ticks
    MaxFaults,     \* bound on lost answers, deaths of processes and of the API
    NoJob

ASSUME AccountAssumption  == AccountOf \in [Remotes -> Workers \ {Local}]
ASSUME LocalAssumption    == Local \in Workers
ASSUME DeadlineAssumption == Deadline \in Nat
ASSUME FaultAssumption    == MaxFaults \in Nat
ASSUME NoJobAssumption    == NoJob \notin Jobs

VARIABLES
    pc, cur, token, err, ran,  \* the local variables of each remote process
    child,         \* the child process of a lease, on the remote machine
    posts,         \* the uploads the API is working on
    saved,         \* attempts/<lease> on the server
    faults

remoteVars == <<pc, cur, token, err, ran, child, posts, saved, faults>>
allVars    == <<vars, remoteVars>>

Attempts == Jobs \X Leases
Mine(w)  == <<cur[w], token[w]>>

\* "done" is exit status 0, "broken" any other end.
Process  == {"none", "running", "done", "broken"}
Location == {"idle", "claimed", "fetched", "watching", "beating", "stopping", "raising",
             "reporting", "posting", "dead"}

\* Where the handler of an upload is: before worker_lease(), before and within
\* persist_run() and the reports, before finish().
Post == [by: Remotes, job: Jobs, lease: Leases, told: {"success", "error"},
         at: {"check", "save", "saving", "finish"}]

\* Processes, uploads and stored results are well typed.
RemoteTypeOK ==
    /\ TypeOK
    /\ pc     \in [Remotes -> Location]
    /\ cur    \in [Remotes -> Jobs \cup {NoJob}]
    /\ token  \in [Remotes -> 0 .. MaxAttempts]
    /\ err    \in [Remotes -> BOOLEAN]
    /\ ran    \in [Remotes -> 0 .. Deadline + 1]
    /\ child  \in [Attempts -> Process]
    /\ posts  \subseteq Post
    /\ saved  \in [Attempts -> {"none", "partial", "whole"}]
    /\ faults \in 0 .. MaxFaults

RemoteInit ==
    /\ Init
    /\ pc     = [w \in Remotes |-> "idle"]
    /\ cur    = [w \in Remotes |-> NoJob]
    /\ token  = [w \in Remotes |-> 0]
    /\ err    = [w \in Remotes |-> FALSE]
    /\ ran    = [w \in Remotes |-> 0]
    /\ child  = [a \in Attempts |-> "none"]
    /\ posts  = {}
    /\ saved  = [a \in Attempts |-> "none"]
    /\ faults = 0

\* The loop starts over with a new lease and a new temporary directory, or the
\* process is gone.
Leaves(w, l) ==
    /\ pc'    = [pc EXCEPT ![w] = l]
    /\ cur'   = [cur EXCEPT ![w] = NoJob]
    /\ token' = [token EXCEPT ![w] = 0]
    /\ err'   = [err EXCEPT ![w] = FALSE]
    /\ ran'   = [ran EXCEPT ![w] = 0]

Goes(w, l) ==
    /\ pc' = [pc EXCEPT ![w] = l]
    /\ UNCHANGED <<cur, token, ran>>

Fault == faults < MaxFaults /\ faults' = faults + 1

-----------------------------------------------------------------------------
\* worker_lease(): the row must be claimed by this account, and the heartbeat
\* it sends must find the lease in force.
Entitled(w, j, l) == worker[j] = AccountOf[w] /\ HeartbeatReply(j, l) \in Held

Renew(w, j, l) == IF worker[j] = AccountOf[w] THEN Heartbeat(j, l) ELSE UNCHANGED vars

-----------------------------------------------------------------------------
\* POST /api/worker/claim.
Idle(w) ==
    /\ pc[w] = "idle"
    /\ ClaimNothing(AccountOf[w])
    /\ UNCHANGED remoteVars

Take(w, j) ==
    /\ pc[w] = "idle"
    /\ ClaimJob(AccountOf[w], j)
    /\ pc'    = [pc EXCEPT ![w] = "claimed"]
    /\ cur'   = [cur EXCEPT ![w] = j]
    /\ token' = [token EXCEPT ![w] = lease'[j]]
    /\ UNCHANGED <<err, ran, child, posts, saved, faults>>

\* The claim is committed and its answer lost: nobody knows of the lease.
TakeUnheard(w, j) ==
    /\ pc[w] = "idle"
    /\ ClaimJob(AccountOf[w], j)
    /\ Fault
    /\ Leaves(w, "dead")
    /\ UNCHANGED <<child, posts, saved>>

\* POST .../sample: the download, its identity check and its encrypted copy.
Fetch(w) ==
    /\ pc[w] = "claimed"
    /\ Renew(w, cur[w], token[w])
    /\ IF Entitled(w, cur[w], token[w])
       THEN Goes(w, "fetched") /\ UNCHANGED err
       ELSE Leaves(w, "dead")
    /\ UNCHANGED <<child, posts, saved, faults>>

Launch(w) ==
    /\ pc[w] = "fetched"
    /\ Goes(w, "watching")
    /\ child' = [child EXCEPT ![Mine(w)] = "running"]
    /\ UNCHANGED <<vars, err, posts, saved, faults>>

\* The child ends by itself, watched or not.
Exit(a) ==
    /\ child[a] = "running"
    /\ \E how \in {"done", "broken"} : child' = [child EXCEPT ![a] = how]
    /\ UNCHANGED <<vars, pc, cur, token, err, ran, posts, saved, faults>>

\* POST .../heartbeat with a living child: worker_lease(), then a second
\* heartbeat whose reply is the answer.
Beat(w) ==
    /\ pc[w] = "watching"
    /\ child[Mine(w)] = "running"
    /\ Renew(w, cur[w], token[w])
    /\ Goes(w, IF Entitled(w, cur[w], token[w]) THEN "beating" ELSE "raising")
    /\ UNCHANGED <<err, child, posts, saved, faults>>

GivesUpOnlyOnReply(w) == HeartbeatReply(cur[w], token[w]) # "running"        \* mutant

GivesUp(w) == HeartbeatReply(cur[w], token[w]) # "running" \/ ran[w] > Deadline

BeatAnswer(w) ==
    /\ pc[w] = "beating"
    /\ Heartbeat(cur[w], token[w])
    /\ Goes(w, IF GivesUp(w) THEN "stopping" ELSE "watching")
    /\ err' = [err EXCEPT ![w] = GivesUp(w)]
    /\ UNCHANGED <<child, posts, saved, faults>>

ChildGone(w) ==
    /\ pc[w] = "watching"
    /\ child[Mine(w)] # "running"
    /\ Goes(w, "reporting")
    /\ UNCHANGED <<vars, err, child, posts, saved, faults>>

\* The `finally' block: KILL, join.  After a refused or failed request the
\* exception goes on and ends the process.
KillChild(w) == child' = [child EXCEPT ![Mine(w)] = IF @ = "running" THEN "broken" ELSE @]

StopChild(w) ==
    /\ pc[w] = "stopping"
    /\ KillChild(w)
    /\ Goes(w, "reporting")
    /\ UNCHANGED <<vars, err, posts, saved, faults>>

RaiseLeavesChild(w) ==                                                       \* mutant
    /\ pc[w] = "raising"
    /\ Leaves(w, "dead")
    /\ UNCHANGED <<vars, child, posts, saved, faults>>

Raise(w) ==
    /\ pc[w] = "raising"
    /\ KillChild(w)
    /\ Leaves(w, "dead")
    /\ UNCHANGED <<vars, posts, saved, faults>>

\* POST .../result is sent.
Verdict(w) == IF ~err[w] /\ child[Mine(w)] = "done" THEN "success" ELSE "error"

Report(w) ==
    /\ pc[w] = "reporting"
    /\ posts' = posts \cup {[by |-> w, job |-> cur[w], lease |-> token[w],
                             told |-> Verdict(w), at |-> "check"]}
    /\ Goes(w, "posting")
    /\ UNCHANGED <<vars, err, child, saved, faults>>

-----------------------------------------------------------------------------
\* worker_result().  Its answer reaches the process if it still waits.
Awaited(p) == pc[p.by] = "posting" /\ Mine(p.by) = <<p.job, p.lease>>

Advance(p, stage) ==
    /\ posts' = (posts \ {p}) \cup {[p EXCEPT !.at = stage]}
    /\ UNCHANGED <<pc, cur, token, err, ran>>

\* 200 sends the process back to the head of its loop, 409 ends it.
Answer(p, ok) ==
    /\ posts' = posts \ {p}
    /\ IF Awaited(p) THEN Leaves(p.by, IF ok THEN "idle" ELSE "dead")
                     ELSE UNCHANGED <<pc, cur, token, err, ran>>

PostCheck(p) ==
    /\ p.at = "check"
    /\ Renew(p.by, p.job, p.lease)
    /\ IF Entitled(p.by, p.job, p.lease)
       THEN Advance(p, IF p.told = "error" THEN "finish" ELSE "save")
       ELSE Answer(p, FALSE)
    /\ UNCHANGED <<child, saved, faults>>

\* persist_run(), write_report() and findings.json: many files, in two steps.
SaveBegin(p) ==
    /\ p.at = "save"
    /\ saved' = [saved EXCEPT ![<<p.job, p.lease>>] = "partial"]
    /\ Advance(p, "saving")
    /\ UNCHANGED <<vars, child, faults>>

SaveEnd(p) ==
    /\ p.at = "saving"
    /\ saved' = [saved EXCEPT ![<<p.job, p.lease>>] = "whole"]
    /\ Advance(p, "finish")
    /\ UNCHANGED <<vars, child, faults>>

\* finish(): a failed one is a 409, except that nobody looks at the answer for
\* an error.
PublishableWhileSaving(p) == p.at \in {"saving", "finish"}                    \* mutant

Publishable(p) == p.at = "finish"

PostFinish(p) ==
    /\ Publishable(p)
    /\ Finish(p.job, p.lease, p.told)
    /\ Answer(p, p.told = "error" \/ Accepts(p.job, p.lease))
    /\ UNCHANGED <<child, saved, faults>>

-----------------------------------------------------------------------------
\* External: a request times out or a process dies, with its child or leaving
\* it behind; the upload it waits for goes on.
Die(w) ==
    /\ Fault
    /\ pc[w] # "dead"
    /\ \/ child' = child
       \/ pc[w] \in {"watching", "beating", "stopping", "raising"} /\ KillChild(w)
    /\ Leaves(w, "dead")
    /\ UNCHANGED <<vars, posts, saved>>

\* External: the API dies.  Its uploads end where they are, and the processes
\* waiting for them get an error.
ApiDies ==
    /\ Fault
    /\ posts # {}
    /\ posts' = {}
    /\ pc'    = [w \in Remotes |-> IF pc[w] = "posting" THEN "dead" ELSE pc[w]]
    /\ cur'   = [w \in Remotes |-> IF pc[w] = "posting" THEN NoJob ELSE cur[w]]
    /\ token' = [w \in Remotes |-> IF pc[w] = "posting" THEN 0 ELSE token[w]]
    /\ err'   = [w \in Remotes |-> IF pc[w] = "posting" THEN FALSE ELSE err[w]]
    /\ ran'   = [w \in Remotes |-> IF pc[w] = "posting" THEN 0 ELSE ran[w]]
    /\ UNCHANGED <<vars, child, saved>>

Restart(w) ==
    /\ pc[w] = "dead"
    /\ pc' = [pc EXCEPT ![w] = "idle"]
    /\ UNCHANGED <<vars, cur, token, err, ran, child, posts, saved, faults>>

TimePasses ==
    /\ Tick
    /\ ran' = [w \in Remotes |-> IF pc[w] \in {"watching", "beating"} /\ ran[w] <= Deadline
                                 THEN ran[w] + 1 ELSE ran[w]]
    /\ UNCHANGED <<pc, cur, token, err, child, posts, saved, faults>>

\* What a local worker reports in the end (LocalWorkers).
LocalReports == \E j \in Jobs, told \in {"success", "error"} : worker[j] = Local /\ Finish(j, lease[j], told)

\* The clients of the API, the retention command and the local worker.
Others ==
    /\ \/ \E j \in Jobs, d \in 0 .. MaxDelay : Enqueue(j, d)
       \/ \E j \in Jobs : Cancel(j)
       \/ Retain
       \/ \E j \in Jobs : ClaimJob(Local, j)
       \/ \E j \in Jobs : worker[j] = Local /\ Heartbeat(j, lease[j])
       \/ LocalReports
    /\ UNCHANGED remoteVars

\* What a remote process does, and what the API does for one.
Work(w) ==
    \/ Idle(w) \/ (\E j \in Jobs : Take(w, j)) \/ Fetch(w) \/ Launch(w)
    \/ Beat(w) \/ BeatAnswer(w) \/ ChildGone(w) \/ StopChild(w) \/ Raise(w) \/ Report(w)

Serve == \E p \in posts : PostCheck(p) \/ SaveBegin(p) \/ SaveEnd(p) \/ PostFinish(p)

RemoteNext ==
    \/ TimePasses
    \/ Others
    \/ \E w \in Remotes : Work(w) \/ Die(w) \/ Restart(w)
    \/ \E w \in Remotes, j \in Jobs : TakeUnheard(w, j)
    \/ Serve
    \/ ApiDies
    \/ \E a \in Attempts : Exit(a)

RemoteSpec == RemoteInit /\ [][RemoteNext]_allVars

\* Time passes, processes that can go on do so, dead ones are started again and
\* the API executes what it was asked.  A child owes nothing.
RemoteFairSpec ==
    /\ RemoteSpec
    /\ WF_allVars(TimePasses)
    /\ WF_allVars(Serve)
    /\ WF_allVars(LocalReports /\ UNCHANGED remoteVars)
    /\ \A w \in Remotes : WF_allVars(Work(w)) /\ WF_allVars(Restart(w))

-----------------------------------------------------------------------------
\* What is served for a remotely analysed job is a complete upload of what a
\* child that ended cleanly wrote, even if the API died in the middle of an
\* earlier upload or the job changed hands during this one.
ServedUploadIsWhole ==
    \A j \in Jobs : status[j] = "completed" /\ worker[j] # Local
        => saved[<<j, result[j]>>] = "whole" /\ child[<<j, result[j]>>] = "done"

\* A process handles jobs of the workspace of its key only, and so does the API
\* on its behalf (the workspace boundary of docs/platform.md).
StaysInWorkspace ==
    /\ \A w \in Remotes : cur[w] # NoJob => WorkspaceOf[cur[w]] \in Scope[AccountOf[w]]
    /\ \A p \in posts : WorkspaceOf[p.job] \in Scope[AccountOf[p.by]]

\* An upload in progress is the only one that can still be accepted for its job:
\* neither another upload, nor the process of another lease, can publish.
OneAcceptableUpload ==
    \A p \in posts : Accepts(p.job, p.lease) =>
        /\ \A q \in posts \ {p} : q.job = p.job => ~Accepts(q.job, q.lease)
        /\ \A w \in Remotes : cur[w] = p.job /\ Accepts(cur[w], token[w]) => w = p.by

\* Whatever ends the watch of a child, an answer or a refused request, ends the
\* child, unless the process itself dies.
WatchEndsChild ==
    faults = 0 => \A a \in Attempts : child[a] = "running" =>
        \E w \in Remotes : pc[w] \in {"watching", "beating", "stopping", "raising"} /\ Mine(w) = a

\* A job within reach of the remote processes is decided even if answers get
\* lost and the API dies during uploads, whoever else takes it in between.
DecidesEveryJob == Contract!EveryJobDecided
=============================================================================
