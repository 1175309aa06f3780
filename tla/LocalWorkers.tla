---------------------------- MODULE LocalWorkers ----------------------------
(***************************************************************************)
(* sandworm/platform/worker.py: several local worker processes serving the *)
(* one jobs table of JobStore.  Each runs serve_worker(), a loop around    *)
(* run_once(): claim a job, start a child process for the attempt, renew   *)
(* the lease while the child lives, stop it when the job is no longer      *)
(* running for this lease or its deadline has passed, and report.          *)
(*                                                                         *)
(* A worker takes its steps at its own pace while the clock goes on, so a  *)
(* stalled worker finds its job swept, handed on, or finished by another.  *)
(* A worker may also die at any point; its child may go on alone (a child  *)
(* calls setsid) or be killed with it (KillMode=control-group).            *)
(***************************************************************************)
EXTENDS JobStore

CONSTANTS
    Deadline,      \* options["timeout"], in ticks
    MaxCrashes,    \* bound on the number of worker deaths
    NoJob

ASSUME DeadlineAssumption == Deadline \in Nat
ASSUME CrashAssumption    == MaxCrashes \in Nat
ASSUME NoJobAssumption    == NoJob \notin Jobs

VARIABLES
    pc,            \* where each worker is in run_once
    cur, token,    \* the job and the lease it claimed
    err,           \* whether the watch loop set `error'
    ran,           \* ticks since its child started
    attempt,       \* the child process of a lease, and its attempts/<lease> directory
    crashes

workerVars == <<pc, cur, token, err, ran, attempt, crashes>>
allVars    == <<vars, workerVars>>

Attempts == Jobs \X Leases
Mine(w)  == <<cur[w], token[w]>>

\* "done" is exit status 0 with findings.json written, "broken" any other end.
Process  == {"none", "running", "done", "broken"}
Location == {"idle", "claimed", "watching", "stopping", "reporting", "dead"}

\* Workers at a job know it and its lease; the table is well typed.
WorkersTypeOK ==
    /\ TypeOK
    /\ pc      \in [Workers -> Location]
    /\ cur     \in [Workers -> Jobs \cup {NoJob}]
    /\ token   \in [Workers -> 0 .. MaxAttempts]
    /\ err     \in [Workers -> BOOLEAN]
    /\ ran     \in [Workers -> 0 .. Deadline + 1]
    /\ attempt \in [Attempts -> Process]
    /\ crashes \in 0 .. MaxCrashes

WorkersInit ==
    /\ Init
    /\ pc      = [w \in Workers |-> "idle"]
    /\ cur     = [w \in Workers |-> NoJob]
    /\ token   = [w \in Workers |-> 0]
    /\ err     = [w \in Workers |-> FALSE]
    /\ ran     = [w \in Workers |-> 0]
    /\ attempt = [a \in Attempts |-> "none"]
    /\ crashes = 0

-----------------------------------------------------------------------------
\* run_once() up to child.start(): the claim, then the attempt directory and
\* the child.  Without a job the worker sleeps and asks again.  The local
\* variables of run_once have their initial value whenever it returns.
Idle(w) ==
    /\ pc[w] = "idle"
    /\ ClaimNothing(w)
    /\ UNCHANGED workerVars

Take(w, j) ==
    /\ pc[w] = "idle"
    /\ ClaimJob(w, j)
    /\ pc'    = [pc EXCEPT ![w] = "claimed"]
    /\ cur'   = [cur EXCEPT ![w] = j]
    /\ token' = [token EXCEPT ![w] = lease'[j]]
    /\ UNCHANGED <<err, ran, attempt, crashes>>

Launch(w) ==
    /\ pc[w] = "claimed"
    /\ pc'      = [pc EXCEPT ![w] = "watching"]
    /\ attempt' = [attempt EXCEPT ![Mine(w)] = "running"]
    /\ UNCHANGED <<vars, cur, token, err, ran, crashes>>

\* The child ends by itself, watched or not.
Exit(a) ==
    /\ attempt[a] = "running"
    /\ \E how \in {"done", "broken"} : attempt' = [attempt EXCEPT ![a] = how]
    /\ UNCHANGED <<vars, pc, cur, token, err, ran, crashes>>

\* One turn of the watch loop with a living child: heartbeat, then decide.
GivesUpOnlyOnReply(w) == HeartbeatReply(cur[w], token[w]) # "running"        \* mutant

GivesUp(w) == HeartbeatReply(cur[w], token[w]) # "running" \/ ran[w] > Deadline

Poll(w) ==
    /\ pc[w] = "watching"
    /\ attempt[Mine(w)] = "running"
    /\ Heartbeat(cur[w], token[w])
    /\ pc'  = [pc EXCEPT ![w] = IF GivesUp(w) THEN "stopping" ELSE "watching"]
    /\ err' = [err EXCEPT ![w] = GivesUp(w)]
    /\ UNCHANGED <<cur, token, ran, attempt, crashes>>

\* The loop ends without a heartbeat once the child is gone.
ChildGone(w) ==
    /\ pc[w] = "watching"
    /\ attempt[Mine(w)] # "running"
    /\ pc' = [pc EXCEPT ![w] = "reporting"]
    /\ UNCHANGED <<vars, cur, token, err, ran, attempt, crashes>>

\* The `finally' block: TERM, three seconds, KILL, join.
StopChildUnjoined(w) ==                                                      \* mutant
    /\ pc[w] = "stopping"
    /\ pc' = [pc EXCEPT ![w] = "reporting"]
    /\ UNCHANGED <<vars, cur, token, err, ran, attempt, crashes>>

StopChild(w) ==
    /\ pc[w] = "stopping"
    /\ pc'      = [pc EXCEPT ![w] = "reporting"]
    /\ attempt' = [attempt EXCEPT ![Mine(w)] = IF @ = "running" THEN "broken" ELSE @]
    /\ UNCHANGED <<vars, cur, token, err, ran, crashes>>

\* The rest of run_once: the child's exit status and findings.json decide what
\* finish() is told; its answer is not looked at.
VerdictWithoutExit(w) == IF err[w] THEN "error" ELSE "success"               \* mutant

Verdict(w) == IF ~err[w] /\ attempt[Mine(w)] = "done" THEN "success" ELSE "error"

Report(w) ==
    /\ pc[w] = "reporting"
    /\ Finish(cur[w], token[w], Verdict(w))
    /\ pc'    = [pc EXCEPT ![w] = "idle"]
    /\ cur'   = [cur EXCEPT ![w] = NoJob]
    /\ token' = [token EXCEPT ![w] = 0]
    /\ err'   = [err EXCEPT ![w] = FALSE]
    /\ ran'   = [ran EXCEPT ![w] = 0]
    /\ UNCHANGED <<attempt, crashes>>

-----------------------------------------------------------------------------
\* External: a worker dies, with its child or leaving it behind, and systemd
\* starts another in its place (Restart=on-failure).
Die(w) ==
    /\ crashes < MaxCrashes
    /\ crashes' = crashes + 1
    /\ pc[w] # "dead"
    /\ pc'    = [pc EXCEPT ![w] = "dead"]
    /\ cur'   = [cur EXCEPT ![w] = NoJob]
    /\ token' = [token EXCEPT ![w] = 0]
    /\ \/ attempt' = attempt
       \/ /\ pc[w] \in {"watching", "stopping"} /\ attempt[Mine(w)] = "running"
          /\ attempt' = [attempt EXCEPT ![Mine(w)] = "broken"]
    /\ err'   = [err EXCEPT ![w] = FALSE]
    /\ ran'   = [ran EXCEPT ![w] = 0]
    /\ UNCHANGED vars

Restart(w) ==
    /\ pc[w] = "dead"
    /\ pc' = [pc EXCEPT ![w] = "idle"]
    /\ UNCHANGED <<vars, cur, token, err, ran, attempt, crashes>>

TimePasses ==
    /\ Tick
    /\ ran' = [w \in Workers |-> IF pc[w] = "watching" /\ ran[w] <= Deadline
                                 THEN ran[w] + 1 ELSE ran[w]]
    /\ UNCHANGED <<pc, cur, token, err, attempt, crashes>>

\* What the API and the retention command do to the table.
Clients ==
    /\ \/ \E j \in Jobs, d \in 0 .. MaxDelay : Enqueue(j, d)
       \/ \E j \in Jobs : Cancel(j)
       \/ Retain
    /\ UNCHANGED workerVars

\* What the program of a worker does; children and deaths are not its doing.
Work(w) ==
    \/ Idle(w) \/ (\E j \in Jobs : Take(w, j)) \/ Launch(w)
    \/ Poll(w) \/ ChildGone(w) \/ StopChild(w) \/ Report(w)

WorkersNext ==
    \/ TimePasses
    \/ Clients
    \/ \E w \in Workers : Work(w) \/ Die(w) \/ Restart(w)
    \/ \E a \in Attempts : Exit(a)

WorkersSpec == WorkersInit /\ [][WorkersNext]_allVars

\* Time passes, a worker that can go on does so, and a dead one is started
\* again.  A child owes nothing: it may hang for ever.
WorkersFairSpec ==
    /\ WorkersSpec
    /\ WF_allVars(TimePasses)
    /\ \A w \in Workers : WF_allVars(Work(w)) /\ WF_allVars(Restart(w))

-----------------------------------------------------------------------------
\* What a completed job serves is the finished output of a child that exited
\* cleanly: no process is still writing there, and no killed or failed attempt
\* is ever served.
ServedOutputIsFinished ==
    \A j \in Jobs : status[j] = "completed" => attempt[<<j, result[j]>>] = "done"

\* Every claim finds its attempts/<lease> directory unused (it is made without
\* exist_ok), so no two children ever write to the same one.
AttemptIsFresh ==
    \A w \in Workers :
        pc[w] = "claimed" => /\ attempt[Mine(w)] = "none"
                             /\ \A v \in Workers \ {w} : Mine(v) # Mine(w)

\* At most one worker at a time can still publish for a job; all the others at
\* work on it have lost their lease for good.
OnePublisher ==
    \A v, w \in Workers :
        /\ v # w /\ cur[v] = cur[w] /\ cur[v] # NoJob
        => ~(Accepts(cur[v], token[v]) /\ Accepts(cur[w], token[w]))

\* Without a death no child outlives the watch of its worker: whatever ends the
\* watch, a lost lease, a cancellation or the deadline, ends the child first.
Watched(a) == \E w \in Workers : pc[w] \in {"watching", "stopping"} /\ Mine(w) = a

NoChildOutlivesItsWatch ==
    crashes = 0 => \A a \in Attempts : attempt[a] = "running" => Watched(a)

-----------------------------------------------------------------------------
\* Whatever crashes, stalls and hangs, every job is decided ...
DecidesEveryJob == Contract!EveryJobDecided

\* ... and every accepted request to stop is taken, even when the worker that
\* should take it is gone: the next claim of any other one does.
TakesEveryStop == Contract!EveryStopTaken
=============================================================================
