------------------------- MODULE LocalWorkersProofs -------------------------
(***************************************************************************)
(* The local workers use the jobs table as its specification allows, so    *)
(* all that JobStoreProofs shows of the table holds with them; and what    *)
(* they publish is the finished output of one child, whatever the number   *)
(* of workers, jobs, retries, deaths and stalls.                           *)
(***************************************************************************)
EXTENDS LocalWorkers, JobStoreProofs

AtWork(w) == pc[w] \in {"claimed", "watching", "stopping", "reporting"}

\* A worker at work holds a lease that was really granted.
HoldsGrantedLease ==
    \A w \in Workers :
        IF AtWork(w) THEN cur[w] \in Jobs /\ token[w] \in 1 .. attempts[cur[w]]
                     ELSE cur[w] = NoJob

\* No two workers ever hold the same lease.
LeasesDisjoint ==
    \A v, w \in Workers : v # w /\ AtWork(v) /\ AtWork(w) => Mine(v) # Mine(w)

\* Only granted leases have a process, and a worker about to start one has none yet.
ProcessesGranted ==
    /\ \A j \in Jobs, l \in Leases : attempt[<<j, l>>] # "none" => l <= attempts[j]
    /\ \A w \in Workers : pc[w] = "claimed" => attempt[Mine(w)] = "none"

WInv ==
    /\ WorkersTypeOK
    /\ HoldsGrantedLease
    /\ LeasesDisjoint
    /\ ProcessesGranted
    /\ ServedOutputIsFinished
    /\ NoChildOutlivesItsWatch

-----------------------------------------------------------------------------
\* Every step of the workers is a step of the table or leaves it alone.
LEMMA WorkersStep == ASSUME WInv, [WorkersNext]_allVars PROVE [Next]_vars
  <1>1. ASSUME NEW w \in Workers, Work(w) PROVE [Next]_vars
    <2>1. CASE Poll(w)
      <3>1. cur[w] \in Jobs /\ token[w] \in 1 .. attempts[cur[w]] /\ token[w] \in 0 .. MaxAttempts
        BY <2>1 DEF Poll, WInv, WorkersTypeOK, HoldsGrantedLease, AtWork
      <3>2. token[w] \in Leases
        BY <3>1 DEF Leases, WInv, WorkersTypeOK, TypeOK
      <3>3. QED
        BY <2>1, <3>1, <3>2 DEF Poll, Next
    <2>2. CASE Report(w)
      <3>1. cur[w] \in Jobs /\ token[w] \in 1 .. attempts[cur[w]] /\ token[w] \in 0 .. MaxAttempts
        BY <2>2 DEF Report, WInv, WorkersTypeOK, HoldsGrantedLease, AtWork
      <3>2. token[w] \in Leases
        BY <3>1 DEF Leases, WInv, WorkersTypeOK, TypeOK
      <3>3. QED
        BY <2>2, <3>1, <3>2 DEF Report, Verdict, Next
    <2>3. QED
      BY <1>1, <2>1, <2>2 DEF Work, Idle, Take, Launch, ChildGone, StopChild, Next
  <1>2. QED
    BY <1>1 DEF WorkersNext, allVars, TimePasses, Clients, Die, Restart, Exit, Next

LEMMA InitWInv == WorkersInit => WInv
  <1> SUFFICES ASSUME WorkersInit PROVE WInv
    OBVIOUS
  <1>1. WorkersTypeOK
    BY AttemptsAssumption, DeadlineAssumption, CrashAssumption, InitIInv
    DEF WorkersInit, WorkersTypeOK, IInv, Location, Process
  <1>2. HoldsGrantedLease /\ LeasesDisjoint /\ ProcessesGranted
    BY DEF WorkersInit, HoldsGrantedLease, LeasesDisjoint, ProcessesGranted, AtWork, Attempts
  <1>3. ServedOutputIsFinished /\ NoChildOutlivesItsWatch
    BY DEF WorkersInit, Init, ServedOutputIsFinished, NoChildOutlivesItsWatch
  <1>4. QED
    BY <1>1, <1>2, <1>3 DEF WInv

-----------------------------------------------------------------------------
LEMMA NextWInv ==
    ASSUME IInv, IInv', WInv, [WorkersNext]_allVars
    PROVE  WInv'
  <1> USE DEF WorkersTypeOK, HoldsGrantedLease, LeasesDisjoint, ProcessesGranted, AtWork, Mine
  <1>0. TypeOK' /\ [Next]_vars /\ \A j \in Jobs : attempts'[j] >= attempts[j]
    BY WorkersStep, AttemptsGrow DEF IInv
  <1>1. ASSUME UNCHANGED <<pc, cur, token, err, attempt, crashes>>,
               ran' \in [Workers -> 0 .. Deadline + 1], Quiet
        PROVE  WInv'
    <2>1. WorkersTypeOK' /\ LeasesDisjoint' /\ NoChildOutlivesItsWatch'
      BY <1>0, <1>1 DEF WInv, NoChildOutlivesItsWatch, Watched
    <2>2. HoldsGrantedLease' /\ ProcessesGranted'
      BY <1>0, <1>1 DEF WInv, TypeOK, Leases
    <2>3. ServedOutputIsFinished'
      BY <1>1 DEF WInv, ServedOutputIsFinished, Quiet
    <2>4. QED
      BY <2>1, <2>2, <2>3 DEF WInv
  <1>2. CASE TimePasses
    BY <1>1, <1>2, QuietTable, DeadlineAssumption DEF TimePasses, WInv
  <1>3. CASE Clients \/ UNCHANGED allVars
    BY <1>1, <1>3, QuietTable DEF Clients, workerVars, allVars, WInv
  <1>4. ASSUME NEW w \in Workers, Idle(w) PROVE WInv'
    BY <1>1, <1>4, QuietTable DEF Idle, workerVars, WInv
  <1>5. ASSUME NEW w \in Workers, NEW j \in Jobs, Take(w, j) PROVE WInv'
    <2>1. /\ attempts'[j] = attempts[j] + 1 /\ lease'[j] = attempts[j] + 1
          /\ attempts[j] \in Nat /\ attempts[j] + 1 <= MaxAttempts
      BY <1>5, <1>0 DEF Take, ClaimJob, FreshLease, IInv, TypeOK, AttemptsBounded
    <2>2. /\ pc' = [pc EXCEPT ![w] = "claimed"]
          /\ cur' = [cur EXCEPT ![w] = j]
          /\ token' = [token EXCEPT ![w] = attempts[j] + 1]
          /\ UNCHANGED <<err, ran, attempt, crashes>>
      BY <1>5, <2>1 DEF Take
    <2>3. WorkersTypeOK'
      BY <1>0, <2>1, <2>2 DEF WInv, Location
    <2>4. HoldsGrantedLease'
      BY <1>0, <2>1, <2>2 DEF WInv, TypeOK
    <2>5. LeasesDisjoint'
      BY <2>1, <2>2 DEF WInv
    <2>6. ProcessesGranted'
      <3>1. \A i \in Jobs, l \in Leases : attempt'[<<i, l>>] # "none" => l <= attempts'[i]
        BY <1>0, <2>2 DEF WInv, TypeOK, Leases
      <3>2. attempt[<<j, attempts[j] + 1>>] = "none"
        BY <2>1 DEF WInv, Leases, TypeOK
      <3>3. QED
        BY <2>2, <3>1, <3>2 DEF WInv
    <2>7. ServedOutputIsFinished'
      BY <1>5, <2>2, QuietTable DEF Take, WInv, ServedOutputIsFinished, Quiet
    <2>8. NoChildOutlivesItsWatch'
      BY <1>5, <2>2 DEF Take, WInv, NoChildOutlivesItsWatch, Watched
    <2>9. QED
      BY <2>3, <2>4, <2>5, <2>6, <2>7, <2>8 DEF WInv
  <1>6. ASSUME NEW w \in Workers, Launch(w) PROVE WInv'
    <2>1. /\ pc[w] = "claimed" /\ attempt[Mine(w)] = "none" /\ Mine(w) \in Attempts
          /\ cur[w] \in Jobs
      BY <1>6 DEF Launch, WInv, Attempts, Leases, TypeOK
    <2>2. /\ pc' = [pc EXCEPT ![w] = "watching"]
          /\ attempt' = [attempt EXCEPT ![<<cur[w], token[w]>>] = "running"]
          /\ UNCHANGED <<vars, cur, token, err, ran, crashes>>
      BY <1>6 DEF Launch
    <2>3. WorkersTypeOK' /\ HoldsGrantedLease' /\ LeasesDisjoint'
      BY <1>0, <2>1, <2>2 DEF WInv, Location, Process, vars
    <2>4. ProcessesGranted'
      <3>1. \A j \in Jobs, l \in Leases : attempt'[<<j, l>>] # "none" => l <= attempts'[j]
        BY <2>1, <2>2 DEF WInv, Attempts, vars, Leases, TypeOK
      <3>2. ASSUME NEW v \in Workers, pc'[v] = "claimed" PROVE attempt'[Mine(v)'] = "none"
        <4>1. v # w /\ pc[v] = "claimed"
          BY <2>1, <2>2, <3>2 DEF WInv
        <4>2. Mine(v) # Mine(w)
          BY <2>1, <4>1 DEF WInv
        <4>3. QED
          BY <2>1, <2>2, <4>1, <4>2 DEF WInv
      <3>3. QED
        BY <3>1, <3>2
    <2>5. ServedOutputIsFinished'
      BY <2>1, <2>2 DEF WInv, ServedOutputIsFinished, vars
    <2>6. NoChildOutlivesItsWatch'
      BY <2>1, <2>2 DEF WInv, NoChildOutlivesItsWatch, Watched
    <2>7. QED
      BY <2>3, <2>4, <2>5, <2>6 DEF WInv
  <1>7. ASSUME NEW a \in Attempts, Exit(a) PROVE WInv'
    <2>1. PICK how \in {"done", "broken"} : attempt' = [attempt EXCEPT ![a] = how]
      BY <1>7 DEF Exit
    <2>2. attempt[a] = "running" /\ UNCHANGED <<vars, pc, cur, token, err, ran, crashes>>
      BY <1>7 DEF Exit
    <2>3. WorkersTypeOK' /\ HoldsGrantedLease' /\ LeasesDisjoint'
      BY <1>0, <2>1, <2>2 DEF WInv, Process, vars
    <2>4. ProcessesGranted' /\ ServedOutputIsFinished'
      BY <2>1, <2>2 DEF WInv, ServedOutputIsFinished, vars
    <2>5. NoChildOutlivesItsWatch'
      BY <2>1, <2>2 DEF WInv, NoChildOutlivesItsWatch, Watched
    <2>6. QED
      BY <2>3, <2>4, <2>5 DEF WInv
  <1>8. ASSUME NEW w \in Workers, Poll(w) PROVE WInv'
    <2>1. cur[w] \in Jobs /\ token[w] \in Leases
      BY <1>8 DEF Poll, WInv, Leases, TypeOK
    <2>2. Quiet /\ UNCHANGED attempts
      BY <1>8, <2>1, QuietTable DEF Poll, Heartbeat
    <2>3. /\ pc[w] = "watching" /\ pc'[w] \in {"watching", "stopping"}
          /\ \A v \in Workers \ {w} : pc'[v] = pc[v]
          /\ UNCHANGED <<cur, token, ran, attempt, crashes>>
      BY <1>8 DEF Poll, WInv
    <2>4. WorkersTypeOK'
      <3>1. pc' \in [Workers -> Location]
        BY <1>8 DEF Poll, WInv, Location
      <3>2. err' \in [Workers -> BOOLEAN]
        BY <1>8, ZenonT(30) DEF Poll, WInv, GivesUp
      <3>3. QED
        BY <1>0, <2>3, <3>1, <3>2 DEF WInv
    <2>5. HoldsGrantedLease' /\ LeasesDisjoint' /\ ProcessesGranted'
      BY <2>2, <2>3 DEF WInv
    <2>6. ServedOutputIsFinished' /\ NoChildOutlivesItsWatch'
      BY <2>2, <2>3 DEF WInv, ServedOutputIsFinished, Quiet, NoChildOutlivesItsWatch, Watched
    <2>7. QED
      BY <2>4, <2>5, <2>6 DEF WInv
  <1>9. ASSUME NEW w \in Workers, ChildGone(w) PROVE WInv'
    BY <1>0, <1>9 DEF ChildGone, WInv, Location, vars, ServedOutputIsFinished,
                      NoChildOutlivesItsWatch, Watched
  <1>10. ASSUME NEW w \in Workers, StopChild(w) PROVE WInv'
    <2>1. /\ pc[w] = "stopping" /\ pc' = [pc EXCEPT ![w] = "reporting"]
          /\ attempt' = [attempt EXCEPT ![Mine(w)] = IF @ = "running" THEN "broken" ELSE @]
          /\ UNCHANGED <<vars, cur, token, err, ran, crashes>>
      BY <1>10 DEF StopChild
    <2>2. Mine(w) \in Attempts
      BY <2>1 DEF WInv, Attempts, Leases, TypeOK
    <2>3. \A a \in Attempts : /\ attempt'[a] = attempt[a] \/ (attempt[a] = "running" /\ attempt'[a] = "broken")
                              /\ a = Mine(w) => attempt'[a] # "running"
      BY <2>1, <2>2 DEF WInv
    <2>4. WorkersTypeOK' /\ HoldsGrantedLease' /\ LeasesDisjoint'
      BY <1>0, <2>1 DEF WInv, Process, Location, vars
    <2>5. ProcessesGranted' /\ ServedOutputIsFinished'
      BY <2>1, <2>2, <2>3 DEF WInv, ServedOutputIsFinished, vars, Attempts
    <2>6. NoChildOutlivesItsWatch'
      BY <2>1, <2>3 DEF WInv, NoChildOutlivesItsWatch, Watched
    <2>7. QED
      BY <2>4, <2>5, <2>6 DEF WInv
  <1>11. ASSUME NEW w \in Workers, Report(w) PROVE WInv'
    <2>1. /\ pc[w] = "reporting" /\ pc' = [pc EXCEPT ![w] = "idle"]
          /\ cur' = [cur EXCEPT ![w] = NoJob] /\ token' = [token EXCEPT ![w] = 0]
          /\ err' = [err EXCEPT ![w] = FALSE] /\ ran' = [ran EXCEPT ![w] = 0]
          /\ UNCHANGED <<attempt, crashes>>
      BY <1>11 DEF Report
    <2>2. UNCHANGED attempts
      BY <1>11 DEF Report, Finish, vars
    <2>3. WorkersTypeOK'
      BY <1>0, <2>1, AttemptsAssumption, DeadlineAssumption DEF WInv, Location
    <2>4. HoldsGrantedLease' /\ LeasesDisjoint' /\ ProcessesGranted'
      BY <2>1, <2>2 DEF WInv
    <2>5. ServedOutputIsFinished'
      <3>1. cur[w] \in Jobs
        BY <2>1 DEF WInv
      <3>2. CASE Accepts(cur[w], token[w])
        <4>1. /\ status' = [status EXCEPT ![cur[w]] = Outcome(cur[w], Verdict(w))]
              /\ result' = [result EXCEPT ![cur[w]] = IF Verdict(w) = "success" THEN token[w] ELSE 0]
          BY <1>11, <3>2 DEF Report, Finish
        <4>2. Outcome(cur[w], Verdict(w)) = "completed"
                => Verdict(w) = "success" /\ attempt[Mine(w)] = "done"
          BY DEF Outcome, Verdict
        <4>3. QED
          BY <2>1, <3>1, <4>1, <4>2 DEF WInv, ServedOutputIsFinished, TypeOK
      <3>3. CASE ~Accepts(cur[w], token[w])
        BY <1>11, <2>1, <3>3 DEF Report, Finish, vars, WInv, ServedOutputIsFinished
      <3>4. QED
        BY <3>2, <3>3
    <2>6. NoChildOutlivesItsWatch'
      BY <2>1 DEF WInv, NoChildOutlivesItsWatch, Watched
    <2>7. QED
      BY <2>3, <2>4, <2>5, <2>6 DEF WInv
  <1>12. ASSUME NEW w \in Workers, Die(w) PROVE WInv'
    <2>1. /\ pc' = [pc EXCEPT ![w] = "dead"]
          /\ cur' = [cur EXCEPT ![w] = NoJob] /\ token' = [token EXCEPT ![w] = 0]
          /\ err' = [err EXCEPT ![w] = FALSE] /\ ran' = [ran EXCEPT ![w] = 0]
          /\ crashes < MaxCrashes /\ crashes' = crashes + 1 /\ UNCHANGED vars
      BY <1>12 DEF Die
    <2>2. /\ attempt' \in [Attempts -> Process]
          /\ \A a \in Attempts : attempt'[a] = attempt[a] \/ (attempt[a] = "running" /\ attempt'[a] = "broken")
      BY <1>12 DEF Die, WInv, Process
    <2>3. WorkersTypeOK'
      BY <1>0, <2>1, <2>2, AttemptsAssumption, DeadlineAssumption, CrashAssumption
      DEF WInv, Location
    <2>4. HoldsGrantedLease' /\ LeasesDisjoint'
      BY <2>1 DEF WInv, vars
    <2>5. ProcessesGranted'
      <3>1. \A j \in Jobs, l \in Leases : attempt'[<<j, l>>] # "none" => l <= attempts'[j]
        BY <2>1, <2>2 DEF WInv, Attempts, vars
      <3>2. ASSUME NEW v \in Workers, pc'[v] = "claimed" PROVE attempt'[Mine(v)'] = "none"
        <4>1. pc[v] = "claimed" /\ Mine(v)' = Mine(v) /\ Mine(v) \in Attempts
          BY <2>1, <3>2 DEF WInv, Attempts, Leases, TypeOK
        <4>2. QED
          BY <2>2, <4>1 DEF WInv
      <3>3. QED
        BY <3>1, <3>2
    <2>6. ServedOutputIsFinished' /\ NoChildOutlivesItsWatch'
      <3>1. \A j \in Jobs : status[j] = "completed" => <<j, result[j]>> \in Attempts
        BY DEF IInv, CompletedIsPublished, AttemptsBounded, TypeOK, Attempts, Leases
      <3>2. QED
        BY <2>1, <2>2, <3>1 DEF WInv, ServedOutputIsFinished, NoChildOutlivesItsWatch, vars
    <2>7. QED
      BY <2>3, <2>4, <2>5, <2>6 DEF WInv
  <1>13. ASSUME NEW w \in Workers, Restart(w) PROVE WInv'
    BY <1>0, <1>13 DEF Restart, WInv, Location, vars, ServedOutputIsFinished,
                       NoChildOutlivesItsWatch, Watched
  <1>14. QED
    BY <1>2, <1>3, <1>4, <1>5, <1>6, <1>7, <1>8, <1>9, <1>10, <1>11, <1>12, <1>13
    DEF WorkersNext, Work

LEMMA WorkersInvariance == WorkersSpec => [](IInv /\ WInv)
  <1>1. WorkersInit => IInv /\ WInv
    BY InitIInv, InitWInv DEF WorkersInit
  <1>2. IInv /\ WInv /\ [WorkersNext]_allVars => (IInv /\ WInv)'
    BY WorkersStep, NextIInv, NextWInv
  <1>3. QED
    BY <1>1, <1>2, PTL DEF WorkersSpec

\* The local workers implement the open table of JobStore: whatever holds there
\* for every caller holds with them.
THEOREM WorkersImplementStore == WorkersSpec => Spec
  <1>1. WorkersInit => Init
    BY DEF WorkersInit
  <1>2. WInv /\ [WorkersNext]_allVars => [Next]_vars
    BY WorkersStep
  <1>3. QED
    BY <1>1, <1>2, WorkersInvariance, PTL DEF WorkersSpec, Spec

\* Hence the workers and the table together keep the contract with the user.
THEOREM WorkersKeepContract == WorkersSpec => KeepsContract
  BY WorkersImplementStore, StoreKeepsContract

\* Every worker holds a lease that was granted to it, and the table is typed.
THEOREM WorkersTypeCorrect == WorkersSpec => []WorkersTypeOK
  <1>1. WInv => WorkersTypeOK
    BY DEF WInv
  <1>2. QED
    BY <1>1, WorkersInvariance, PTL

\* A completed job serves the finished output of a child that exited cleanly.
THEOREM ServedIsFinished == WorkersSpec => []ServedOutputIsFinished
  <1>1. WInv => ServedOutputIsFinished
    BY DEF WInv
  <1>2. QED
    BY <1>1, WorkersInvariance, PTL

\* No two children ever write to one attempt directory.
THEOREM AttemptsAreFresh == WorkersSpec => []AttemptIsFresh
  <1>1. ASSUME WInv PROVE AttemptIsFresh
    <2>1. ASSUME NEW w \in Workers, pc[w] = "claimed", NEW v \in Workers \ {w}
          PROVE  Mine(v) # Mine(w)
      <3>1. CASE AtWork(v)
        BY <1>1, <2>1, <3>1 DEF WInv, LeasesDisjoint, AtWork
      <3>2. CASE ~AtWork(v)
        BY <1>1, <2>1, <3>2, NoJobAssumption DEF WInv, HoldsGrantedLease, AtWork, Mine
      <3>3. QED
        BY <3>1, <3>2
    <2>2. QED
      BY <1>1, <2>1 DEF AttemptIsFresh, WInv, ProcessesGranted
  <1>2. QED
    BY <1>1, WorkersInvariance, PTL

\* At most one worker can still publish for a job.
THEOREM AtMostOnePublisher == WorkersSpec => []OnePublisher
  <1>1. ASSUME WInv PROVE OnePublisher
    <2>1. ASSUME NEW v \in Workers, NEW w \in Workers, v # w, cur[v] = cur[w], cur[v] # NoJob,
                 Accepts(cur[v], token[v]), Accepts(cur[w], token[w])
          PROVE  FALSE
      BY <1>1, <2>1 DEF WInv, HoldsGrantedLease, LeasesDisjoint, Mine, Accepts
    <2>2. QED
      BY <2>1 DEF OnePublisher
  <1>2. QED
    BY <1>1, WorkersInvariance, PTL

\* Without a death no child outlives the watch of its worker.
THEOREM ChildrenAreWatched == WorkersSpec => []NoChildOutlivesItsWatch
  <1>1. WInv => NoChildOutlivesItsWatch
    BY DEF WInv
  <1>2. QED
    BY <1>1, WorkersInvariance, PTL
=============================================================================
