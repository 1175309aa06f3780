--------------------------- MODULE JobStoreProofs ---------------------------
(***************************************************************************)
(* The safety of the jobs table, for any number of jobs, workers and       *)
(* workspaces, any stale limit and any retry limit, and whatever its       *)
(* callers do.                                                             *)
(***************************************************************************)
EXTENDS JobStore, TLAPS

\* The lease of a row is the one of its latest claim: what fencing rests on.
LeaseIsLatest == \A j \in Jobs : lease[j] = attempts[j]

\* A row not inserted yet has used up no claim.
AbsentIsBlank == \A j \in Jobs : status[j] = "absent" => attempts[j] = 0

\* What retention is about to expire is finished, and stays so.
DoomedIsFinal == \A j \in doomed : status[j] \in Final

IInv ==
    /\ TypeOK
    /\ LeaseIsLatest
    /\ AbsentIsBlank
    /\ AttemptsBounded
    /\ CompletedIsPublished
    /\ DoomedIsFinal

-----------------------------------------------------------------------------
\* The sweep of a claim keeps every status in its type, touches held rows only,
\* puts back only rows with a claim left, and completes none.
LEMMA SweptFacts ==
    ASSUME TypeOK, NEW j \in Jobs
    PROVE  /\ Swept[j] \in Status
           /\ j \notin Lost => Swept[j] = status[j]
           /\ j \in Lost => /\ status[j] \in Held
                            /\ age[j] > StaleTicks
                            /\ Swept[j] \in {"cancelled", "failed", "queued"}
                            /\ Swept[j] = "queued" => attempts[j] < MaxAttempts
                            /\ status[j] = "cancelling" => Swept[j] = "cancelled"
  BY AttemptsAssumption DEF TypeOK, Swept, Lost, AfterLoss, Status, Held, Final, Finished

LEMMA InitIInv == Init => IInv
  BY StaleAssumption, DelayAssumption, AttemptsAssumption
  DEF Init, IInv, TypeOK, LeaseIsLatest, AbsentIsBlank, AttemptsBounded,
      CompletedIsPublished, DoomedIsFinal, Status, Errors

LEMMA NextIInv == IInv /\ [Next]_vars => IInv'
  <1> SUFFICES ASSUME IInv, [Next]_vars PROVE IInv'
    OBVIOUS
  <1> USE StaleAssumption, DelayAssumption, AttemptsAssumption
  <1>1. CASE Tick
    BY <1>1 DEF Tick, IInv, TypeOK, LeaseIsLatest, AbsentIsBlank, AttemptsBounded,
                CompletedIsPublished, DoomedIsFinal
  <1>2. ASSUME NEW j \in Jobs, NEW d \in 0 .. MaxDelay, Enqueue(j, d) PROVE IInv'
    <2>1. TypeOK'
      BY <1>2 DEF Enqueue, IInv, TypeOK, Status, DueBefore, DueAfter, Known
    <2>2. QED
      BY <1>2, <2>1 DEF Enqueue, IInv, TypeOK, LeaseIsLatest, AbsentIsBlank,
                        AttemptsBounded, CompletedIsPublished, DoomedIsFinal, Final, Finished
  <1>3. ASSUME NEW j \in Jobs, Cancel(j) PROVE IInv'
    BY <1>3 DEF Cancel, AfterCancel, IInv, TypeOK, LeaseIsLatest, AbsentIsBlank,
                AttemptsBounded, CompletedIsPublished, DoomedIsFinal, Status, Held, Final, Finished
  <1>4. ASSUME NEW w \in Workers, ClaimNothing(w) PROVE IInv'
    <2>1. \A j \in Jobs : status'[j] = Swept[j]
      BY <1>4 DEF ClaimNothing
    <2>2. TypeOK'
      <3>1. status' \in [Jobs -> Status]
        BY <1>4, SweptFacts DEF ClaimNothing, IInv, Swept
      <3>2. QED
        BY <1>4, <3>1 DEF ClaimNothing, MarkLost, IInv, TypeOK, Errors
    <2>3. QED
      BY <1>4, <2>1, <2>2, SweptFacts
      DEF ClaimNothing, MarkLost, IInv, TypeOK, LeaseIsLatest, AbsentIsBlank, AttemptsBounded,
          CompletedIsPublished, DoomedIsFinal, Held, Final, Finished
  <1>5. ASSUME NEW w \in Workers, NEW j \in Jobs, ClaimJob(w, j) PROVE IInv'
    <2>1. Swept[j] = "queued"
      BY <1>5 DEF ClaimJob, Front, Ready
    <2>2. attempts[j] < MaxAttempts /\ status[j] \in {"queued", "running"}
      BY <2>1, SweptFacts DEF IInv, AttemptsBounded, Held
    <2>3. status' \in [Jobs -> Status] /\ status'[j] = "running"
          /\ \A k \in Jobs \ {j} : status'[k] = Swept[k]
      <3>1. Swept \in [Jobs -> Status]
        BY SweptFacts DEF IInv, Swept
      <3>2. QED
        BY <1>5, <3>1 DEF ClaimJob, Status, Held
    <2>4. /\ attempts' \in [Jobs -> Nat] /\ lease' \in [Jobs -> Nat]
          /\ attempts'[j] = attempts[j] + 1 /\ lease'[j] = attempts[j] + 1
          /\ \A k \in Jobs \ {j} : attempts'[k] = attempts[k] /\ lease'[k] = lease[k]
      BY <1>5 DEF ClaimJob, FreshLease, IInv, TypeOK
    <2>5. TypeOK'
      <3>1. worker' \in [Jobs -> Workers \cup {NoWorker}] /\ age' \in [Jobs -> 0 .. StaleTicks + 1]
        BY <1>5 DEF ClaimJob, IInv, TypeOK
      <3>2. error' \in [Jobs -> Errors]
        BY <1>5 DEF ClaimJob, MarkLost, IInv, TypeOK, Errors
      <3>3. QED
        BY <1>5, <2>3, <2>4, <3>1, <3>2 DEF ClaimJob, IInv, TypeOK
    <2>6. LeaseIsLatest' /\ AbsentIsBlank' /\ AttemptsBounded'
      BY <2>2, <2>3, <2>4, SweptFacts
      DEF IInv, TypeOK, LeaseIsLatest, AbsentIsBlank, AttemptsBounded
    <2>7. CompletedIsPublished' /\ DoomedIsFinal'
      BY <1>5, <2>2, <2>3, <2>4, SweptFacts
      DEF ClaimJob, MarkLost, IInv, CompletedIsPublished, DoomedIsFinal, TypeOK, Held, Final, Finished
    <2>8. QED
      BY <2>5, <2>6, <2>7 DEF IInv
  <1>6. ASSUME NEW j \in Jobs, NEW l \in Leases, Heartbeat(j, l) PROVE IInv'
    BY <1>6 DEF Heartbeat, IInv, TypeOK, LeaseIsLatest, AbsentIsBlank, AttemptsBounded,
                CompletedIsPublished, DoomedIsFinal
  <1>7. ASSUME NEW j \in Jobs, NEW l \in Leases, NEW told \in {"success", "error"}, Finish(j, l, told) PROVE IInv'
    <2>1. CASE Accepts(j, l)
      <3>1. /\ status' = [status EXCEPT ![j] = Outcome(j, told)]
            /\ result' = [result EXCEPT ![j] = IF told = "success" THEN l ELSE 0]
            /\ error'  = [error EXCEPT ![j] = IF told = "success" THEN "none" ELSE "attempt failed"]
            /\ UNCHANGED <<wait, ahead, worker, lease, age, attempts, doomed>>
        BY <1>7, <2>1 DEF Finish
      <3>2. l \in Nat /\ l > 0 /\ l = attempts[j] /\ status[j] \in Held
        BY <2>1 DEF Accepts, Leases, IInv, LeaseIsLatest
      <3>3. Outcome(j, told) \in Finished /\ (Outcome(j, told) = "completed" => told = "success")
        BY DEF Outcome, Finished
      <3>4. j \notin doomed
        BY <3>2 DEF IInv, DoomedIsFinal, Held, Final, Finished
      <3>5. TypeOK'
        BY <3>1, <3>2, <3>3 DEF IInv, TypeOK, Status, Final, Errors
      <3>6. LeaseIsLatest' /\ AbsentIsBlank' /\ AttemptsBounded'
        BY <3>1, <3>2, <3>3
        DEF IInv, TypeOK, LeaseIsLatest, AbsentIsBlank, AttemptsBounded, Finished
      <3>7. CompletedIsPublished'
        BY <3>1, <3>2, <3>3 DEF IInv, TypeOK, CompletedIsPublished
      <3>8. DoomedIsFinal'
        BY <3>1, <3>4 DEF IInv, TypeOK, DoomedIsFinal
      <3>9. QED
        BY <3>5, <3>6, <3>7, <3>8 DEF IInv
    <2>2. CASE ~Accepts(j, l)
      BY <1>7, <2>2 DEF Finish, vars, IInv, TypeOK, LeaseIsLatest, AbsentIsBlank,
                        AttemptsBounded, CompletedIsPublished, DoomedIsFinal
    <2>3. QED
      BY <2>1, <2>2
  <1>8. CASE Retain
    <2>1. ASSUME NEW S \in SUBSET Jobs, RetainSelect(S) PROVE IInv'
      BY <2>1 DEF RetainSelect, Retainable, IInv, TypeOK, LeaseIsLatest, AbsentIsBlank,
                  AttemptsBounded, CompletedIsPublished, DoomedIsFinal, Final
    <2>2. ASSUME NEW j \in Jobs, RetainExpire(j) PROVE IInv'
      BY <2>2 DEF RetainExpire, IInv, TypeOK, LeaseIsLatest, AbsentIsBlank,
                  AttemptsBounded, CompletedIsPublished, DoomedIsFinal, Status, Final
    <2>3. CASE RetainCrash
      BY <2>3 DEF RetainCrash, IInv, TypeOK, LeaseIsLatest, AbsentIsBlank,
                  AttemptsBounded, CompletedIsPublished, DoomedIsFinal
    <2>4. QED
      BY <1>8, <2>1, <2>2, <2>3 DEF Retain
  <1>9. CASE UNCHANGED vars
    BY <1>9 DEF vars, IInv, TypeOK, LeaseIsLatest, AbsentIsBlank, AttemptsBounded,
                CompletedIsPublished, DoomedIsFinal
  <1>10. QED
    BY <1>1, <1>2, <1>3, <1>4, <1>5, <1>6, <1>7, <1>8, <1>9 DEF Next

LEMMA Invariance == Spec => []IInv
  BY InitIInv, NextIInv, PTL DEF Spec

\* Every column of the table keeps its type.
THEOREM TypeCorrect == Spec => []TypeOK
  <1>1. IInv => TypeOK
    BY DEF IInv
  <1>2. QED
    BY <1>1, Invariance, PTL

\* No job is executed more often than the retry limit, and none waits in the
\* queue without an attempt left.
THEOREM RetriesBounded == Spec => []AttemptsBounded
  <1>1. IInv => AttemptsBounded
    BY DEF IInv
  <1>2. QED
    BY <1>1, Invariance, PTL

\* A completed job shows the result of its latest claim and no error.
THEOREM CompletedShowsLatest == Spec => []CompletedIsPublished
  <1>1. IInv => CompletedIsPublished
    BY DEF IInv
  <1>2. QED
    BY <1>1, Invariance, PTL

-----------------------------------------------------------------------------
\* What one step does to one row, read off the actions once for the theorems
\* about steps below.
RowStep(k) ==
    \/ /\ status'[k] = status[k] /\ result'[k] = result[k] /\ error'[k] = error[k]
       /\ lease'[k] = lease[k]
    \/ /\ status[k] = "absent" /\ status'[k] = "queued"
       /\ result'[k] = result[k] /\ lease'[k] = lease[k]
    \/ /\ status[k] = "queued" /\ status'[k] = "cancelled"
       /\ result'[k] = result[k] /\ lease'[k] = lease[k]
    \/ /\ status[k] = "running" /\ status'[k] = "cancelling"
       /\ result'[k] = result[k] /\ lease'[k] = lease[k]
    \/ /\ k \in Lost /\ status[k] = "running" /\ status'[k] \in {"queued", "failed"}
       /\ result'[k] = result[k] /\ lease'[k] = lease[k]
    \/ /\ k \in Lost /\ status[k] = "cancelling" /\ status'[k] = "cancelled"
       /\ result'[k] = result[k] /\ lease'[k] = lease[k]
    \/ /\ status[k] = "queued" \/ (k \in Lost /\ status[k] = "running")
       /\ status'[k] = "running" /\ result'[k] = result[k]
    \/ /\ status[k] \in Held /\ lease'[k] = lease[k]
       /\ result'[k] \in {0, attempts[k]}
       /\ status[k] = "cancelling" => status'[k] = "cancelled"
       /\ status[k] = "running" => \/ status'[k] = "failed"
                                   \/ status'[k] = "completed" /\ result'[k] = attempts[k]
                                                               /\ attempts[k] > 0
    \/ /\ status[k] \in Final /\ status'[k] = "expired" /\ result'[k] = 0
       /\ lease'[k] = lease[k]

LEMMA StepsOfRows ==
    ASSUME IInv, [Next]_vars, NEW k \in Jobs
    PROVE  RowStep(k)
  <1>1. CASE Tick
    BY <1>1 DEF Tick, RowStep
  <1>2. ASSUME NEW j \in Jobs, NEW d \in 0 .. MaxDelay, Enqueue(j, d) PROVE RowStep(k)
    BY <1>2 DEF Enqueue, RowStep, IInv, TypeOK
  <1>3. ASSUME NEW j \in Jobs, Cancel(j) PROVE RowStep(k)
    BY <1>3 DEF Cancel, AfterCancel, RowStep, IInv, TypeOK
  <1>4. ASSUME NEW w \in Workers, ClaimNothing(w) PROVE RowStep(k)
    BY <1>4, SweptFacts DEF ClaimNothing, MarkLost, RowStep, IInv, Held, Swept, AfterLoss
  <1>5. ASSUME NEW w \in Workers, NEW j \in Jobs, ClaimJob(w, j) PROVE RowStep(k)
    <2>1. Swept[j] = "queued"
      BY <1>5 DEF ClaimJob, Front, Ready
    <2>2. CASE k = j
      <3>1. status'[k] = "running" /\ result'[k] = result[k]
        BY <1>5, <2>2 DEF ClaimJob, Swept
      <3>2. status[k] = "queued" \/ (k \in Lost /\ status[k] = "running")
        BY <2>1, <2>2, SweptFacts DEF IInv, Held
      <3>3. QED
        BY <3>1, <3>2 DEF RowStep
    <2>3. CASE k # j
      <3>1. /\ status'[k] = Swept[k] /\ result'[k] = result[k] /\ lease'[k] = lease[k]
            /\ k \notin Lost => error'[k] = error[k]
        BY <1>5, <2>3 DEF ClaimJob, MarkLost, Swept, IInv, TypeOK
      <3>2. QED
        BY <3>1, SweptFacts DEF RowStep, IInv, Held, Swept, AfterLoss
    <2>4. QED
      BY <2>2, <2>3
  <1>6. ASSUME NEW j \in Jobs, NEW l \in Leases, Heartbeat(j, l) PROVE RowStep(k)
    BY <1>6 DEF Heartbeat, RowStep
  <1>7. ASSUME NEW j \in Jobs, NEW l \in Leases, NEW told \in {"success", "error"},
               Finish(j, l, told)
        PROVE  RowStep(k)
    <2>1. CASE Accepts(j, l)
      <3>1. /\ status' = [status EXCEPT ![j] = Outcome(j, told)]
            /\ result' = [result EXCEPT ![j] = IF told = "success" THEN l ELSE 0]
            /\ error'  = [error EXCEPT ![j] = IF told = "success" THEN "none" ELSE "attempt failed"]
            /\ lease' = lease
        BY <1>7, <2>1 DEF Finish
      <3>2. l \in Nat /\ l > 0 /\ l = attempts[j] /\ status[j] \in Held
        BY <2>1 DEF Accepts, Leases, IInv, LeaseIsLatest
      <3>3. QED
        BY <3>1, <3>2 DEF RowStep, Outcome, IInv, TypeOK, Held
    <2>2. CASE ~Accepts(j, l)
      BY <1>7, <2>2 DEF Finish, vars, RowStep
    <2>3. QED
      BY <2>1, <2>2
  <1>8. CASE Retain
    <2>1. ASSUME NEW S \in SUBSET Jobs, RetainSelect(S) PROVE RowStep(k)
      BY <2>1 DEF RetainSelect, RowStep
    <2>2. ASSUME NEW j \in Jobs, RetainExpire(j) PROVE RowStep(k)
      BY <2>2 DEF RetainExpire, RowStep, IInv, TypeOK, DoomedIsFinal
    <2>3. CASE RetainCrash
      BY <2>3 DEF RetainCrash, RowStep
    <2>4. QED
      BY <1>8, <2>1, <2>2, <2>3 DEF Retain
  <1>9. CASE UNCHANGED vars
    BY <1>9 DEF vars, RowStep
  <1>10. QED
    BY <1>1, <1>2, <1>3, <1>4, <1>5, <1>6, <1>7, <1>8, <1>9 DEF Next

-----------------------------------------------------------------------------
\* A result reaches a row only from the claim that holds it in that state.
THEOREM Fencing == Spec => FencedPublication
  <1>1. ASSUME IInv, [Next]_vars, NEW j \in Jobs, result'[j] \notin {result[j], 0}
        PROVE  status[j] \in Held /\ result'[j] = attempts[j]
    BY <1>1, StepsOfRows DEF RowStep
  <1>2. IInv /\ [Next]_vars =>
            [\A j \in Jobs : result'[j] \notin {result[j], 0}
                => status[j] \in Held /\ result'[j] = attempts[j]]_vars
    BY <1>1
  <1>3. QED
    BY <1>2, Invariance, PTL DEF Spec, FencedPublication

\* A finished job is immutable until retention retires it, and retention
\* retires finished jobs only.
THEOREM FinalIsFinal == Spec => FinalStaysFinal
  <1>1. ASSUME IInv, [Next]_vars, NEW j \in Jobs
        PROVE  /\ status[j] \in Final
                    => \/ /\ status'[j] = status[j]
                          /\ result'[j] = result[j]
                          /\ error'[j] = error[j]
                       \/ status'[j] = "expired"
               /\ status'[j] = "expired" => status[j] \in Final
    BY <1>1, StepsOfRows DEF RowStep, Final, Finished, Held
  <1>2. IInv /\ [Next]_vars =>
            [\A j \in Jobs :
                /\ status[j] \in Final
                     => \/ /\ status'[j] = status[j]
                           /\ result'[j] = result[j]
                           /\ error'[j] = error[j]
                        \/ status'[j] = "expired"
                /\ status'[j] = "expired" => status[j] \in Final]_vars
    BY <1>1
  <1>3. QED
    BY <1>2, Invariance, PTL DEF Spec, FinalStaysFinal

\* A cancellation that was accepted is never undone or overtaken.
THEOREM CancellationIsFinal == Spec => CancellationSticks
  <1>1. ASSUME IInv, [Next]_vars, NEW j \in Jobs, status[j] = "cancelling"
        PROVE  status'[j] \in {"cancelling", "cancelled"}
    BY <1>1, StepsOfRows DEF RowStep, Final, Finished, Held
  <1>2. IInv /\ [Next]_vars =>
            [\A j \in Jobs : status[j] = "cancelling"
                => status'[j] \in {"cancelling", "cancelled"}]_vars
    BY <1>1
  <1>3. QED
    BY <1>2, Invariance, PTL DEF Spec, CancellationSticks

\* No claim takes a job from a worker heard of within the stale limit.
THEOREM LeasesAreHonoured == Spec => LeaseHonoured
  <1>1. ASSUME IInv, [Next]_vars, NEW j \in Jobs, status[j] \in Held, age[j] <= StaleTicks
        PROVE  lease'[j] = lease[j] /\ status'[j] # "queued"
    <2>1. j \notin Lost
      BY <1>1, StaleAssumption DEF Lost, IInv, TypeOK
    <2>2. QED
      BY <1>1, <2>1, StepsOfRows DEF RowStep, Final, Finished, Held
  <1>2. IInv /\ [Next]_vars =>
            [\A j \in Jobs : status[j] \in Held /\ age[j] <= StaleTicks
                => /\ lease'[j] = lease[j]
                   /\ status'[j] # "queued"]_vars
    BY <1>1
  <1>3. QED
    BY <1>2, Invariance, PTL DEF Spec, LeaseHonoured

\* No claim overtakes a job that was due earlier and stays in the queue.
THEOREM NoOvertaking == Spec => ClaimsInDueOrder
  <1>1. ASSUME IInv, [Next]_vars, NEW w \in Workers, NEW j \in Jobs, NEW k \in Jobs,
               worker'[k] = w, lease'[k] # lease[k], j \in ahead[k], wait[j] = 0,
               WorkspaceOf[j] \in Scope[w]
        PROVE  status'[j] # "queued"
    <2>1. PICK v \in Workers, i \in Jobs : ClaimJob(v, i)
      BY <1>1 DEF Next, Tick, Enqueue, Cancel, ClaimNothing, Heartbeat, Finish, Retain,
                  RetainSelect, RetainExpire, RetainCrash, vars
    <2>2. i = k /\ v = w
      BY <1>1, <2>1 DEF ClaimJob, IInv, TypeOK
    <2>3. j \notin Ready(w)
      BY <1>1, <2>1, <2>2 DEF ClaimJob, Front
    <2>4. Swept[j] # "queued"
      BY <1>1, <2>3 DEF Ready
    <2>5. status'[j] = "running" \/ status'[j] = Swept[j]
      BY <2>1 DEF ClaimJob, Swept
    <2>6. QED
      BY <2>4, <2>5
  <1>2. IInv /\ [Next]_vars =>
            [\A w \in Workers, j, k \in Jobs :
                worker'[k] = w /\ lease'[k] # lease[k] /\ j \in ahead[k] /\ wait[j] = 0
                   /\ WorkspaceOf[j] \in Scope[w]
                => status'[j] # "queued"]_vars
    BY <1>1
  <1>3. QED
    BY <1>2, Invariance, PTL DEF Spec, ClaimsInDueOrder

\* The table implements the contract with the user: its retries and sweeps map
\* to stuttering, and every other step to a step of the contract.
THEOREM StoreKeepsContract == Spec => KeepsContract
  <1>1. Init => Contract!Init
    BY DEF Init, Contract!Init, Phase, Served
  <1>2. ASSUME IInv, [Next]_vars
        PROVE  [Contract!Next]_<<[j \in Jobs |-> Phase(status[j])], [j \in Jobs |-> Served(j)]>>
    <2>1. ASSUME NEW j \in Jobs
          PROVE  \/ /\ Phase(status'[j]) = Phase(status[j])
                    /\ Served(j)' = Served(j)
                 \/ /\ Phase(status[j]) = "absent" /\ Phase(status'[j]) = "open"
                    /\ Served(j)' = 0
                 \/ /\ Phase(status[j]) = "open" /\ Phase(status'[j]) = "stopping"
                    /\ Served(j)' = 0
                 \/ /\ Phase(status[j]) = "open" /\ Phase(status'[j]) = "completed"
                    /\ Served(j)' > 0
                 \/ /\ Phase(status[j]) = "open" /\ Phase(status'[j]) = "failed"
                    /\ Served(j)' = 0
                 \/ /\ Phase(status[j]) \in {"open", "stopping"} /\ Phase(status'[j]) = "cancelled"
                    /\ Served(j)' = 0
                 \/ /\ Phase(status[j]) \in Contract!Decided \cup {"expired"}
                    /\ Phase(status'[j]) = "expired" /\ Served(j)' = 0
      BY <1>2, <2>1, StepsOfRows
      DEF RowStep, Phase, Served, Held, Final, Finished, Contract!Decided
    <2>2. ASSUME NEW j \in Jobs
          PROVE  Contract!Step(j) \/ UNCHANGED <<Phase(status[j]), Served(j)>>
      BY <2>1, <2>2
      DEF Contract!Step, Contract!Submit, Contract!AskStop, Contract!Complete, Contract!Fail,
          Contract!Stop, Contract!Retire, Contract!Decided, Phase, Served
    <2>3. QED
      BY <2>2 DEF Contract!Next
  <1>3. QED
    BY <1>1, <1>2, Invariance, PTL DEF Spec, KeepsContract, Contract!Spec

-----------------------------------------------------------------------------
\* Only finish() completes a row, no completed row changes hands, and no
\* operation lowers a claim count: facts for the modules of the callers.
Quiet == \A k \in Jobs : status'[k] = "completed" => /\ status[k] = "completed"
                                                     /\ result'[k] = result[k]
                                                     /\ worker'[k] = worker[k]

LEMMA QuietTable ==
    ASSUME IInv,
           \/ Tick
           \/ \E j \in Jobs, d \in 0 .. MaxDelay : Enqueue(j, d)
           \/ \E j \in Jobs : Cancel(j)
           \/ \E w \in Workers : ClaimNothing(w)
           \/ \E w \in Workers, j \in Jobs : ClaimJob(w, j)
           \/ \E j \in Jobs, l \in Leases : Heartbeat(j, l)
           \/ Retain
           \/ UNCHANGED vars
    PROVE  Quiet
  <1>1. CASE Tick \/ UNCHANGED vars \/ \E j \in Jobs, l \in Leases : Heartbeat(j, l)
    BY <1>1 DEF Tick, vars, Heartbeat, Quiet
  <1>2. ASSUME NEW j \in Jobs, NEW d \in 0 .. MaxDelay, Enqueue(j, d) PROVE Quiet
    BY <1>2 DEF Enqueue, Quiet, IInv, TypeOK
  <1>3. ASSUME NEW j \in Jobs, Cancel(j) PROVE Quiet
    BY <1>3 DEF Cancel, AfterCancel, Quiet, IInv, TypeOK
  <1>4. ASSUME NEW w \in Workers, ClaimNothing(w) PROVE Quiet
    BY <1>4, SweptFacts DEF ClaimNothing, Quiet, IInv
  <1>5. ASSUME NEW w \in Workers, NEW j \in Jobs, ClaimJob(w, j) PROVE Quiet
    <2>1. ASSUME NEW k \in Jobs, status'[k] = "completed"
          PROVE  status[k] = "completed" /\ result'[k] = result[k] /\ worker'[k] = worker[k]
      <3>1. k # j /\ status'[k] = Swept[k]
        BY <1>5, <2>1 DEF ClaimJob, Swept
      <3>2. status[k] = "completed"
        BY <2>1, <3>1, SweptFacts DEF IInv
      <3>3. QED
        BY <1>5, <3>1, <3>2 DEF ClaimJob, IInv, TypeOK
    <2>2. QED
      BY <2>1 DEF Quiet
  <1>6. CASE Retain
    BY <1>6 DEF Retain, RetainSelect, RetainExpire, RetainCrash, Quiet, IInv, TypeOK
  <1>7. QED
    BY <1>1, <1>2, <1>3, <1>4, <1>5, <1>6

LEMMA AttemptsGrow ==
    ASSUME IInv, [Next]_vars
    PROVE  \A j \in Jobs : attempts'[j] >= attempts[j]
  <1>1. \/ UNCHANGED attempts
        \/ \E w \in Workers, j \in Jobs : ClaimJob(w, j)
    BY DEF Next, Tick, Enqueue, Cancel, ClaimNothing, Heartbeat, Finish,
           Retain, RetainSelect, RetainExpire, RetainCrash, vars
  <1>2. ASSUME NEW w \in Workers, NEW j \in Jobs, ClaimJob(w, j)
        PROVE  \A k \in Jobs : attempts'[k] >= attempts[k]
    BY <1>2 DEF ClaimJob, IInv, TypeOK
  <1>3. QED
    BY <1>1, <1>2 DEF IInv, TypeOK
=============================================================================
