------------------------ MODULE RemoteWorkersProofs ------------------------
(***************************************************************************)
(* Remote processes use the jobs table as its specification allows, so all *)
(* that JobStoreProofs shows of the table holds with them; and what is     *)
(* served for a job they analysed is one whole upload, whatever requests   *)
(* get lost and whoever dies.                                              *)
(***************************************************************************)
EXTENDS RemoteWorkers, JobStoreProofs

AtWork(w) == pc[w] \notin {"idle", "dead"}

\* A row names a worker only after a claim.
ClaimedHasLease == \A j \in Jobs : worker[j] # NoWorker => lease[j] > 0

\* A process at work holds a lease that was really granted for a job of its
\* workspace, an upload carries one, and only granted leases have a child or files.
Granted ==
    /\ \A w \in Remotes :
          IF AtWork(w) THEN /\ cur[w] \in Jobs /\ token[w] \in 1 .. attempts[cur[w]]
                            /\ WorkspaceOf[cur[w]] \in Scope[AccountOf[w]]
                       ELSE cur[w] = NoJob
    /\ \A p \in posts : p.lease <= attempts[p.job] /\ WorkspaceOf[p.job] \in Scope[AccountOf[p.by]]
    /\ \A j \in Jobs, l \in Leases : child[<<j, l>>] # "none" => l <= attempts[j]

\* Every lease is in one hand: that of a process at work, or after it that of
\* the upload it waits for or has left behind.
OneHand ==
    /\ \A v, w \in Remotes : v # w /\ AtWork(v) /\ AtWork(w) => Mine(v) # Mine(w)
    /\ \A p, q \in posts : p.job = q.job /\ p.lease = q.lease => p = q
    /\ \A p \in posts, w \in Remotes :
          AtWork(w) /\ Mine(w) = <<p.job, p.lease>> => w = p.by /\ pc[w] = "posting"

\* The upload of a success belongs to a child that ended cleanly, and is whole
\* when it is about to be published.
UploadsWhole ==
    \A p \in posts : p.told = "success" =>
        /\ child[<<p.job, p.lease>>] = "done"
        /\ p.at = "finish" => saved[<<p.job, p.lease>>] = "whole"

\* Nobody holds the lease of a published upload any more.
Settled ==
    \A j \in Jobs : status[j] = "completed" /\ worker[j] # Local =>
        /\ \A p \in posts : <<p.job, p.lease>> # <<j, result[j]>>
        /\ \A w \in Remotes : AtWork(w) => Mine(w) # <<j, result[j]>>

RInv ==
    /\ RemoteTypeOK
    /\ ClaimedHasLease
    /\ Granted
    /\ OneHand
    /\ UploadsWhole
    /\ Settled
    /\ ServedUploadIsWhole
    /\ WatchEndsChild

-----------------------------------------------------------------------------
LEMMA LeaseInHand ==
    ASSUME IInv, RInv, NEW w \in Remotes, AtWork(w)
    PROVE  /\ cur[w] \in Jobs /\ token[w] \in Leases
           /\ token[w] \in 1 .. attempts[cur[w]]
           /\ Mine(w) = <<cur[w], token[w]>> /\ Mine(w) \in Attempts
  <1>1. cur[w] \in Jobs /\ token[w] \in 1 .. attempts[cur[w]] /\ token[w] \in 0 .. MaxAttempts
    BY DEF RInv, Granted, RemoteTypeOK
  <1>2. token[w] \in Leases
    BY <1>1, AttemptsAssumption DEF Leases, IInv, TypeOK
  <1>3. QED
    BY <1>1, <1>2 DEF Mine, Attempts

LEMMA LocalLease ==
    ASSUME IInv, RInv, NEW j \in Jobs, worker[j] = Local
    PROVE  lease[j] \in Leases
  BY LocalAssumption, NoWorkerAssumption, AttemptsAssumption
  DEF IInv, RInv, TypeOK, LeaseIsLatest, AttemptsBounded, ClaimedHasLease, Leases

LEMMA RenewStep ==
    ASSUME NEW w \in Remotes, NEW j \in Jobs, NEW l \in Leases, Renew(w, j, l)
    PROVE  (\E i \in Jobs, m \in Leases : Heartbeat(i, m)) \/ UNCHANGED vars
  BY DEF Renew

\* Every step of the remote processes, and of the API for them, is a step of
\* the table or leaves it alone.
LEMMA RemoteStep == ASSUME IInv, RInv, [RemoteNext]_allVars PROVE [Next]_vars
  <1>1. ASSUME NEW w \in Remotes, Work(w) PROVE [Next]_vars
    <2>1. CASE Idle(w) \/ \E j \in Jobs : Take(w, j)
      BY <2>1, AccountAssumption DEF Idle, Take, Next
    <2>2. CASE Fetch(w) \/ Beat(w)
      BY <2>2, LeaseInHand, RenewStep DEF Fetch, Beat, AtWork, Next
    <2>3. CASE BeatAnswer(w)
      BY <2>3, LeaseInHand DEF BeatAnswer, AtWork, Next
    <2>4. CASE Launch(w) \/ ChildGone(w) \/ StopChild(w) \/ Raise(w) \/ Report(w)
      BY <2>4 DEF Launch, ChildGone, StopChild, Raise, Report
    <2>5. QED
      BY <1>1, <2>1, <2>2, <2>3, <2>4 DEF Work
  <1>2. ASSUME NEW p \in posts, PostCheck(p) \/ SaveBegin(p) \/ SaveEnd(p) \/ PostFinish(p)
        PROVE  [Next]_vars
    <2>1. p.by \in Remotes /\ p.job \in Jobs /\ p.lease \in Leases /\ p.told \in {"success", "error"}
      BY DEF RInv, RemoteTypeOK, Post
    <2>2. QED
      BY <1>2, <2>1, RenewStep DEF PostCheck, SaveBegin, SaveEnd, PostFinish, Next
  <1>3. CASE Others
    BY <1>3, LocalAssumption, LocalLease DEF Others, LocalReports, Next
  <1>4. ASSUME NEW w \in Remotes, NEW j \in Jobs, TakeUnheard(w, j) PROVE [Next]_vars
    BY <1>4, AccountAssumption DEF TakeUnheard, Next
  <1>5. CASE TimePasses \/ ApiDies \/ (\E a \in Attempts : Exit(a)) \/ UNCHANGED allVars
    BY <1>5 DEF TimePasses, ApiDies, Exit, allVars, Next
  <1>6. ASSUME NEW w \in Remotes, Die(w) \/ Restart(w) PROVE [Next]_vars
    BY <1>6 DEF Die, Restart
  <1>7. QED
    BY <1>1, <1>2, <1>3, <1>4, <1>5, <1>6 DEF RemoteNext, Serve

LEMMA ClaimsLeaveLeases ==
    ASSUME IInv, RInv, [Next]_vars
    PROVE  ClaimedHasLease'
  <1>1. CASE \E w \in Workers, j \in Jobs : ClaimJob(w, j)
    BY <1>1 DEF ClaimJob, FreshLease, IInv, TypeOK, RInv, ClaimedHasLease
  <1>2. CASE UNCHANGED <<worker, lease>>
    BY <1>2 DEF RInv, ClaimedHasLease
  <1>3. QED
    BY <1>1, <1>2 DEF Next, Tick, Enqueue, Cancel, ClaimNothing, Heartbeat, Finish,
                      Retain, RetainSelect, RetainExpire, RetainCrash, vars

-----------------------------------------------------------------------------
\* What most steps have in common.  No row completes but by the local worker,
\* leases only leave the hands they are in, and no finished child changes.
Kept ==
    \A k \in Jobs : status'[k] = "completed" =>
        \/ worker'[k] = Local
        \/ status[k] = "completed" /\ result'[k] = result[k] /\ worker'[k] = worker[k]

HandsShrink ==
    /\ posts' \subseteq posts
    /\ \A w \in Remotes :
          IF AtWork(w)' THEN /\ AtWork(w) /\ cur'[w] = cur[w] /\ token'[w] = token[w]
                             /\ pc[w] = "posting" => pc'[w] = "posting"
                        ELSE cur'[w] = NoJob

ChildrenEnd ==
    \A a \in Attempts : \/ child'[a] = child[a]
                        \/ child[a] = "running" /\ child'[a] \in {"done", "broken"}

Safe == Granted /\ OneHand /\ UploadsWhole /\ Settled /\ ServedUploadIsWhole

LEMMA CompletedAttempt ==
    ASSUME IInv, NEW j \in Jobs, status[j] = "completed"
    PROVE  <<j, result[j]>> \in Attempts
  BY AttemptsAssumption DEF IInv, CompletedIsPublished, AttemptsBounded, TypeOK, Attempts, Leases

LEMMA PostAttempt ==
    ASSUME RInv, NEW p \in posts
    PROVE  /\ p.by \in Remotes /\ p.job \in Jobs /\ p.lease \in Leases
           /\ p.told \in {"success", "error"} /\ <<p.job, p.lease>> \in Attempts
  BY DEF RInv, RemoteTypeOK, Post, Attempts

LEMMA ShrinkHands ==
    ASSUME IInv, IInv', RInv, \A j \in Jobs : attempts'[j] >= attempts[j],
           HandsShrink, ChildrenEnd, saved' = saved
    PROVE  Granted' /\ OneHand' /\ UploadsWhole'
  <1>1. Granted'
    <2>1. ASSUME NEW w \in Remotes
          PROVE  IF AtWork(w)' THEN /\ cur'[w] \in Jobs /\ token'[w] \in 1 .. attempts'[cur'[w]]
                                    /\ WorkspaceOf[cur'[w]] \in Scope[AccountOf[w]]
                               ELSE cur'[w] = NoJob
      BY DEF HandsShrink, RInv, Granted, IInv, TypeOK
    <2>2. ASSUME NEW p \in posts'
          PROVE  p.lease <= attempts'[p.job] /\ WorkspaceOf[p.job] \in Scope[AccountOf[p.by]]
      <3>1. p \in posts
        BY DEF HandsShrink
      <3>2. p.job \in Jobs /\ p.lease \in Leases
        BY <3>1, PostAttempt
      <3>3. attempts[p.job] \in Nat /\ attempts'[p.job] \in Nat /\ attempts'[p.job] >= attempts[p.job]
        BY <3>2 DEF IInv, TypeOK
      <3>4. QED
        BY <3>1, <3>2, <3>3 DEF RInv, Granted, Leases
    <2>3. ASSUME NEW j \in Jobs, NEW l \in Leases, child'[<<j, l>>] # "none"
          PROVE  l <= attempts'[j]
      <3>1. child[<<j, l>>] # "none"
        BY <2>3 DEF ChildrenEnd, Attempts
      <3>2. QED
        BY <3>1 DEF RInv, Granted, IInv, TypeOK, Leases
    <2>4. QED
      BY <2>1, <2>2, <2>3 DEF Granted, AtWork
  <1>2. OneHand'
    BY DEF HandsShrink, RInv, OneHand, AtWork, Mine
  <1>3. UploadsWhole'
    BY PostAttempt DEF HandsShrink, ChildrenEnd, RInv, UploadsWhole
  <1>4. QED
    BY <1>1, <1>2, <1>3

LEMMA ShrinkKeeps ==
    ASSUME IInv, IInv', RInv, \A j \in Jobs : attempts'[j] >= attempts[j],
           Kept, HandsShrink, ChildrenEnd, saved' = saved
    PROVE  Safe'
  <1>1. Settled'
    BY DEF HandsShrink, Kept, RInv, Settled, AtWork, Mine
  <1>2. ServedUploadIsWhole'
    <2>1. ASSUME NEW j \in Jobs, status'[j] = "completed", worker'[j] # Local
          PROVE  saved'[<<j, result'[j]>>] = "whole" /\ child'[<<j, result'[j]>>] = "done"
      <3>1. status[j] = "completed" /\ result'[j] = result[j] /\ worker[j] # Local
        BY <2>1 DEF Kept
      <3>2. <<j, result[j]>> \in Attempts
        BY <3>1, CompletedAttempt
      <3>3. QED
        BY <3>1, <3>2 DEF RInv, ServedUploadIsWhole, ChildrenEnd
    <2>2. QED
      BY <2>1 DEF ServedUploadIsWhole
  <1>3. QED
    BY <1>1, <1>2, ShrinkHands DEF Safe

-----------------------------------------------------------------------------
LEMMA InitRInv == RemoteInit => RInv
  <1> SUFFICES ASSUME RemoteInit PROVE RInv
    OBVIOUS
  <1>1. RemoteTypeOK
    BY InitIInv, AttemptsAssumption, DeadlineAssumption, FaultAssumption
    DEF RemoteInit, RemoteTypeOK, IInv, Location, Process, Post
  <1>2. ClaimedHasLease /\ Settled /\ ServedUploadIsWhole
    BY DEF RemoteInit, Init, ClaimedHasLease, Settled, ServedUploadIsWhole
  <1>3. Granted /\ OneHand /\ UploadsWhole /\ WatchEndsChild
    BY DEF RemoteInit, Granted, OneHand, UploadsWhole, WatchEndsChild, AtWork, Attempts
  <1>4. QED
    BY <1>1, <1>2, <1>3 DEF RInv

LEMMA QuietIsKept == Quiet => Kept
  BY DEF Quiet, Kept

LEMMA RenewIsQuiet ==
    ASSUME IInv, NEW w \in Remotes, NEW j \in Jobs, NEW l \in Leases, Renew(w, j, l)
    PROVE  Kept
  BY RenewStep, QuietTable, QuietIsKept

\* The steps of the table that the model leaves to others complete rows of the
\* local worker only.
LEMMA OthersKept == ASSUME IInv, RInv, Others PROVE Kept
  <1>1. ASSUME NEW j \in Jobs, NEW told \in {"success", "error"}, worker[j] = Local,
               Finish(j, lease[j], told)
        PROVE  Kept
    <2>1. CASE Accepts(j, lease[j])
      <3>1. /\ status' = [status EXCEPT ![j] = Outcome(j, told)]
            /\ result' = [result EXCEPT ![j] = IF told = "success" THEN lease[j] ELSE 0]
            /\ UNCHANGED worker
        BY <1>1, <2>1 DEF Finish
      <3>2. QED
        BY <1>1, <3>1 DEF Kept, IInv, TypeOK
    <2>2. CASE ~Accepts(j, lease[j])
      BY <1>1, <2>2 DEF Finish, vars, Kept
    <2>3. QED
      BY <2>1, <2>2
  <1>2. CASE \/ \E j \in Jobs, d \in 0 .. MaxDelay : Enqueue(j, d)
             \/ \E j \in Jobs : Cancel(j)
             \/ Retain
             \/ \E w \in Workers, j \in Jobs : ClaimJob(w, j)
             \/ \E j \in Jobs, l \in Leases : Heartbeat(j, l)
    BY <1>2, QuietTable, QuietIsKept
  <1>3. QED
    BY <1>1, <1>2, LocalAssumption, LocalLease DEF Others, LocalReports

-----------------------------------------------------------------------------
\* A process leaves its loop body, or goes on within it.
LEMMA LeavesFacts ==
    ASSUME RInv, NEW w \in Remotes, NEW l \in {"idle", "dead"}, Leaves(w, l), posts' \subseteq posts
    PROVE  /\ HandsShrink
           /\ pc' \in [Remotes -> Location] /\ cur' \in [Remotes -> Jobs \cup {NoJob}]
           /\ token' \in [Remotes -> 0 .. MaxAttempts] /\ err' \in [Remotes -> BOOLEAN]
           /\ ran' \in [Remotes -> 0 .. Deadline + 1]
  <1>1. /\ pc' \in [Remotes -> Location] /\ cur' \in [Remotes -> Jobs \cup {NoJob}]
        /\ token' \in [Remotes -> 0 .. MaxAttempts] /\ err' \in [Remotes -> BOOLEAN]
        /\ ran' \in [Remotes -> 0 .. Deadline + 1]
    BY AttemptsAssumption, DeadlineAssumption DEF Leaves, RInv, RemoteTypeOK, Location
  <1>2. HandsShrink
    BY DEF Leaves, HandsShrink, AtWork, RInv, RemoteTypeOK, Granted
  <1>3. QED
    BY <1>1, <1>2

LEMMA GoesFacts ==
    ASSUME RInv, NEW w \in Remotes, NEW l \in Location \ {"idle", "dead"}, Goes(w, l),
           AtWork(w), pc[w] # "posting", posts' \subseteq posts
    PROVE  HandsShrink /\ pc' \in [Remotes -> Location]
  BY DEF Goes, HandsShrink, AtWork, RInv, RemoteTypeOK, Granted

LEMMA KillFacts ==
    ASSUME RInv, NEW w \in Remotes, KillChild(w) \/ child' = child
    PROVE  ChildrenEnd /\ child' \in [Attempts -> Process]
  BY DEF KillChild, ChildrenEnd, RInv, RemoteTypeOK, Process

\* Where no process leaves its watch, the children in it stay watched.
LEMMA WatchKept ==
    ASSUME RInv, faults' = faults, ChildrenEnd,
           \A w \in Remotes : pc[w] \in {"watching", "beating", "stopping", "raising"} =>
              \/ /\ pc'[w] \in {"watching", "beating", "stopping", "raising"}
                 /\ cur'[w] = cur[w] /\ token'[w] = token[w]
              \/ \A a \in Attempts : a = Mine(w) => child'[a] # "running"
    PROVE  WatchEndsChild'
  BY DEF RInv, WatchEndsChild, ChildrenEnd, Mine

-----------------------------------------------------------------------------
\* The steps of a process, one lemma each for those that put a lease in a hand.
LEMMA TakeKeeps ==
    ASSUME IInv, IInv', RInv, NEW w \in Remotes, NEW j \in Jobs, Take(w, j)
    PROVE  RemoteTypeOK' /\ Safe' /\ WatchEndsChild'
  <1>1. /\ attempts'[j] = attempts[j] + 1 /\ lease'[j] = attempts[j] + 1
        /\ attempts[j] \in Nat /\ attempts[j] + 1 <= MaxAttempts
        /\ \A k \in Jobs : attempts'[k] \in Nat /\ attempts[k] \in Nat /\ attempts'[k] >= attempts[k]
    BY DEF Take, ClaimJob, FreshLease, IInv, TypeOK, AttemptsBounded
  <1>2. /\ pc[w] = "idle" /\ pc' = [pc EXCEPT ![w] = "claimed"]
        /\ cur' = [cur EXCEPT ![w] = j]
        /\ token' = [token EXCEPT ![w] = attempts[j] + 1]
        /\ UNCHANGED <<err, ran, child, posts, saved, faults>>
    BY <1>1 DEF Take
  <1>3. WorkspaceOf[j] \in Scope[AccountOf[w]] /\ AccountOf[w] \in Workers
    BY AccountAssumption DEF Take, ClaimJob, Front, Ready
  <1>4. Kept
    BY <1>3, QuietTable, QuietIsKept DEF Take
  <1>5. RemoteTypeOK'
    BY <1>1, <1>2 DEF RInv, RemoteTypeOK, Location, IInv
  <1>6. Granted'
    <2>1. ASSUME NEW v \in Remotes
          PROVE  IF AtWork(v)' THEN /\ cur'[v] \in Jobs /\ token'[v] \in 1 .. attempts'[cur'[v]]
                                    /\ WorkspaceOf[cur'[v]] \in Scope[AccountOf[v]]
                               ELSE cur'[v] = NoJob
      BY <1>1, <1>2, <1>3 DEF RInv, RemoteTypeOK, Granted, AtWork
    <2>2. ASSUME NEW p \in posts'
          PROVE  p.lease <= attempts'[p.job] /\ WorkspaceOf[p.job] \in Scope[AccountOf[p.by]]
      <3>1. p \in posts
        BY <1>2
      <3>2. p.job \in Jobs /\ p.lease \in Leases
        BY <3>1, PostAttempt
      <3>3. QED
        BY <1>1, <3>1, <3>2 DEF RInv, Granted, Leases
    <2>3. ASSUME NEW i \in Jobs, NEW l \in Leases, child'[<<i, l>>] # "none"
          PROVE  l <= attempts'[i]
      BY <1>1, <1>2, <2>3 DEF RInv, Granted, Leases
    <2>4. QED
      BY <2>1, <2>2, <2>3 DEF Granted, AtWork
  <1>7. OneHand'
    <2>1. ASSUME NEW v \in Remotes, v # w, AtWork(v) PROVE Mine(v) # <<j, attempts[j] + 1>>
      BY <1>1, <2>1 DEF RInv, Granted, Mine
    <2>2. ASSUME NEW p \in posts PROVE <<p.job, p.lease>> # <<j, attempts[j] + 1>>
      <3>1. p.job \in Jobs /\ p.lease \in Leases
        BY PostAttempt
      <3>2. QED
        BY <1>1, <3>1 DEF RInv, Granted, Leases
    <2>3. QED
      BY <1>2, <2>1, <2>2 DEF RInv, OneHand, RemoteTypeOK, AtWork, Mine
  <1>8. UploadsWhole'
    BY <1>2 DEF RInv, UploadsWhole
  <1>9. Settled'
    <2>1. ASSUME NEW k \in Jobs, status'[k] = "completed", worker'[k] # Local
          PROVE  /\ \A p \in posts' : <<p.job, p.lease>> # <<k, result'[k]>>
                 /\ \A v \in Remotes : AtWork(v)' => Mine(v)' # <<k, result'[k]>>
      <3>1. status[k] = "completed" /\ result'[k] = result[k] /\ worker[k] # Local
        BY <1>4, <2>1 DEF Kept
      <3>2. result[k] = attempts[k]
        BY <3>1 DEF IInv, CompletedIsPublished
      <3>3. QED
        BY <1>1, <1>2, <3>1, <3>2 DEF RInv, Settled, RemoteTypeOK, AtWork, Mine
    <2>2. QED
      BY <2>1 DEF Settled, AtWork, Mine
  <1>10. ServedUploadIsWhole'
    BY <1>2, <1>4 DEF Kept, RInv, ServedUploadIsWhole
  <1>11. WatchEndsChild'
    BY <1>2 DEF RInv, RemoteTypeOK, WatchEndsChild, Mine
  <1>12. QED
    BY <1>5, <1>6, <1>7, <1>8, <1>9, <1>10, <1>11 DEF Safe

LEMMA LaunchKeeps ==
    ASSUME IInv, IInv', RInv, NEW w \in Remotes, Launch(w)
    PROVE  RemoteTypeOK' /\ Safe' /\ WatchEndsChild'
  <1>1. /\ pc[w] = "fetched" /\ pc' = [pc EXCEPT ![w] = "watching"]
        /\ child' = [child EXCEPT ![<<cur[w], token[w]>>] = "running"]
        /\ UNCHANGED <<vars, cur, token, ran, err, posts, saved, faults>>
    BY DEF Launch, Goes, Mine
  <1>2. /\ cur[w] \in Jobs /\ token[w] \in Leases /\ token[w] <= attempts[cur[w]]
        /\ <<cur[w], token[w]>> \in Attempts
    BY <1>1, LeaseInHand DEF AtWork
  <1>3. RemoteTypeOK'
    BY <1>1, <1>2 DEF RInv, RemoteTypeOK, Location, Process, IInv
  <1>4. Granted'
    <2>1. ASSUME NEW i \in Jobs, NEW l \in Leases, child'[<<i, l>>] # "none"
          PROVE  l <= attempts'[i]
      BY <1>1, <1>2, <2>1 DEF RInv, Granted, RemoteTypeOK, Attempts, vars
    <2>2. QED
      BY <1>1, <2>1 DEF RInv, Granted, AtWork, RemoteTypeOK, vars
  <1>5. OneHand'
    BY <1>1 DEF RInv, OneHand, AtWork, Mine, RemoteTypeOK
  <1>6. UploadsWhole'
    <2>1. ASSUME NEW p \in posts PROVE <<p.job, p.lease>> # <<cur[w], token[w]>>
      BY <1>1 DEF RInv, OneHand, AtWork, Mine
    <2>2. QED
      BY <1>1, <2>1, PostAttempt DEF RInv, UploadsWhole, RemoteTypeOK
  <1>7. Settled'
    BY <1>1 DEF RInv, Settled, AtWork, Mine, RemoteTypeOK, vars
  <1>8. ServedUploadIsWhole'
    <2>1. ASSUME NEW j \in Jobs, status[j] = "completed", worker[j] # Local
          PROVE  child'[<<j, result[j]>>] = "done"
      <3>1. <<j, result[j]>> \in Attempts /\ <<j, result[j]>> # <<cur[w], token[w]>>
        BY <1>1, <2>1, CompletedAttempt DEF RInv, Settled, AtWork, Mine
      <3>2. QED
        BY <1>1, <2>1, <3>1 DEF RInv, ServedUploadIsWhole, RemoteTypeOK
    <2>2. QED
      BY <1>1, <2>1 DEF RInv, ServedUploadIsWhole, vars
  <1>9. WatchEndsChild'
    <2>1. ASSUME NEW a \in Attempts, a # <<cur[w], token[w]>> PROVE child'[a] = child[a]
      BY <1>1, <2>1 DEF RInv, RemoteTypeOK
    <2>2. QED
      BY <1>1, <2>1 DEF RInv, RemoteTypeOK, WatchEndsChild, Mine
  <1>10. QED
    BY <1>3, <1>4, <1>5, <1>6, <1>7, <1>8, <1>9 DEF Safe

\* From the process to the upload the lease passes within one step.
LEMMA ReportKeeps ==
    ASSUME IInv, IInv', RInv, NEW w \in Remotes, Report(w)
    PROVE  RemoteTypeOK' /\ Safe' /\ WatchEndsChild'
  <1> DEFINE n == [by |-> w, job |-> cur[w], lease |-> token[w], told |-> Verdict(w), at |-> "check"]
  <1>1. /\ pc[w] = "reporting" /\ pc' = [pc EXCEPT ![w] = "posting"]
        /\ posts' = posts \cup {n}
        /\ UNCHANGED <<vars, cur, token, ran, err, child, saved, faults>>
    BY DEF Report, Goes
  <1>2. /\ cur[w] \in Jobs /\ token[w] \in Leases /\ token[w] <= attempts[cur[w]]
        /\ WorkspaceOf[cur[w]] \in Scope[AccountOf[w]]
    BY <1>1, LeaseInHand DEF AtWork, RInv, Granted
  <1>3. Verdict(w) \in {"success", "error"} /\ (Verdict(w) = "success" => child[<<cur[w], token[w]>>] = "done")
    BY DEF Verdict, Mine
  <1>4. /\ n \in Post /\ n.by = w /\ n.job = cur[w] /\ n.lease = token[w] /\ n.told = Verdict(w)
        /\ n.at = "check"
    BY <1>2, <1>3 DEF Post
  <1> HIDE DEF n
  <1>5. RemoteTypeOK'
    BY <1>1, <1>4 DEF RInv, RemoteTypeOK, Location, IInv
  <1>6. Granted'
    BY <1>1, <1>2, <1>4 DEF RInv, Granted, AtWork, RemoteTypeOK, vars
  <1>7. OneHand'
    <2>1. ASSUME NEW q \in posts PROVE ~(q.job = n.job /\ q.lease = n.lease)
      BY <1>1, <1>4 DEF RInv, OneHand, AtWork, Mine
    <2>2. ASSUME NEW v \in Remotes, AtWork(v), Mine(v) = <<n.job, n.lease>> PROVE v = w
      BY <1>1, <1>4, <2>2 DEF RInv, OneHand, AtWork, Mine
    <2>3. \A v \in Remotes : AtWork(v)' <=> AtWork(v)
      BY <1>1 DEF AtWork, RInv, RemoteTypeOK
    <2>4. \A v \in Remotes : Mine(v)' = Mine(v)
      BY <1>1 DEF Mine
    <2>5. \A v \in Remotes : pc[v] = "posting" \/ v = w => pc'[v] = "posting"
      BY <1>1 DEF RInv, RemoteTypeOK
    <2>6. \A u, v \in Remotes : u # v /\ AtWork(u)' /\ AtWork(v)' => Mine(u)' # Mine(v)'
      BY <2>3, <2>4 DEF RInv, OneHand
    <2>7. \A p, q \in posts' : p.job = q.job /\ p.lease = q.lease => p = q
      BY <1>1, <2>1 DEF RInv, OneHand
    <2>8. \A p \in posts', v \in Remotes :
             AtWork(v)' /\ Mine(v)' = <<p.job, p.lease>> => v = p.by /\ pc'[v] = "posting"
      BY <1>1, <1>4, <2>2, <2>3, <2>4, <2>5 DEF RInv, OneHand
    <2>9. QED
      BY <2>6, <2>7, <2>8 DEF OneHand
  <1>8. UploadsWhole'
    BY <1>1, <1>3, <1>4 DEF RInv, UploadsWhole
  <1>9. Settled'
    <2>1. ASSUME NEW j \in Jobs, status[j] = "completed", worker[j] # Local
          PROVE  <<n.job, n.lease>> # <<j, result[j]>>
      BY <1>1, <1>4, <2>1 DEF RInv, Settled, AtWork, Mine
    <2>2. QED
      BY <1>1, <2>1 DEF RInv, Settled, AtWork, Mine, RemoteTypeOK, vars
  <1>10. ServedUploadIsWhole' /\ WatchEndsChild'
    BY <1>1 DEF RInv, ServedUploadIsWhole, WatchEndsChild, Mine, RemoteTypeOK, vars
  <1>11. QED
    BY <1>5, <1>6, <1>7, <1>8, <1>9, <1>10 DEF Safe

-----------------------------------------------------------------------------
\* An upload goes on: it stays in the same hand.
LEMMA AdvanceKeeps ==
    ASSUME IInv, IInv', RInv, NEW p \in posts, NEW stage \in {"save", "saving", "finish"},
           Advance(p, stage), UNCHANGED <<child, faults>>, Kept,
           \A j \in Jobs : attempts'[j] >= attempts[j],
           saved' \in [Attempts -> {"none", "partial", "whole"}],
           \A a \in Attempts : a # <<p.job, p.lease>> => saved'[a] = saved[a],
           p.told = "success" /\ stage = "finish" => saved'[<<p.job, p.lease>>] = "whole"
    PROVE  RemoteTypeOK' /\ Safe' /\ WatchEndsChild'
  <1> DEFINE n == [p EXCEPT !.at = stage]
  <1>1. posts' = (posts \ {p}) \cup {n} /\ UNCHANGED <<pc, cur, token, err, ran>>
    BY DEF Advance
  <1>2. p \in Post
    BY DEF RInv, RemoteTypeOK
  <1>3. /\ n \in Post /\ n.by = p.by /\ n.job = p.job /\ n.lease = p.lease /\ n.told = p.told
        /\ n.at = stage
    BY <1>2 DEF Post
  <1> HIDE DEF n
  <1>4. RemoteTypeOK'
    BY <1>1, <1>3 DEF RInv, RemoteTypeOK, IInv
  <1>5. Granted'
    <2>1. ASSUME NEW w \in Remotes
          PROVE  IF AtWork(w)' THEN /\ cur'[w] \in Jobs /\ token'[w] \in 1 .. attempts'[cur'[w]]
                                    /\ WorkspaceOf[cur'[w]] \in Scope[AccountOf[w]]
                               ELSE cur'[w] = NoJob
      BY <1>1 DEF RInv, Granted, AtWork, IInv, TypeOK
    <2>2. ASSUME NEW q \in posts
          PROVE  q.lease <= attempts'[q.job] /\ WorkspaceOf[q.job] \in Scope[AccountOf[q.by]]
      <3>1. q.job \in Jobs /\ q.lease \in Leases
        BY PostAttempt
      <3>2. attempts[q.job] \in Nat /\ attempts'[q.job] \in Nat /\ attempts'[q.job] >= attempts[q.job]
        BY <3>1 DEF IInv, TypeOK
      <3>3. QED
        BY <3>1, <3>2 DEF RInv, Granted, Leases
    <2>3. ASSUME NEW j \in Jobs, NEW l \in Leases, child[<<j, l>>] # "none"
          PROVE  l <= attempts'[j]
      BY <2>3 DEF RInv, Granted, IInv, TypeOK, Leases
    <2>4. QED
      BY <1>1, <1>3, <2>1, <2>2, <2>3 DEF Granted, AtWork
  <1>6. OneHand'
    BY <1>1, <1>3 DEF RInv, OneHand, AtWork, Mine
  <1>7. UploadsWhole'
    <2>1. ASSUME NEW q \in posts \ {p}
          PROVE  <<q.job, q.lease>> \in Attempts /\ <<q.job, q.lease>> # <<p.job, p.lease>>
      BY PostAttempt DEF RInv, OneHand
    <2>2. QED
      BY <1>1, <1>3, <2>1 DEF RInv, UploadsWhole
  <1>8. Settled'
    BY <1>1, <1>3 DEF Kept, RInv, Settled, AtWork, Mine
  <1>9. ServedUploadIsWhole'
    <2>1. ASSUME NEW j \in Jobs, status'[j] = "completed", worker'[j] # Local
          PROVE  saved'[<<j, result'[j]>>] = "whole" /\ child'[<<j, result'[j]>>] = "done"
      <3>1. status[j] = "completed" /\ result'[j] = result[j] /\ worker[j] # Local
        BY <2>1 DEF Kept
      <3>2. <<j, result[j]>> \in Attempts /\ <<j, result[j]>> # <<p.job, p.lease>>
        BY <3>1, CompletedAttempt DEF RInv, Settled
      <3>3. QED
        BY <3>1, <3>2 DEF RInv, ServedUploadIsWhole
    <2>2. QED
      BY <2>1 DEF ServedUploadIsWhole
  <1>10. WatchEndsChild'
    BY <1>1 DEF RInv, WatchEndsChild, Mine
  <1>11. QED
    BY <1>4, <1>5, <1>6, <1>7, <1>8, <1>9, <1>10 DEF Safe

\* An upload is answered: its lease is in no hand any more.
LEMMA AnswerFacts ==
    ASSUME RInv, NEW p \in posts, NEW ok \in BOOLEAN, Answer(p, ok), UNCHANGED <<child, faults>>
    PROVE  /\ HandsShrink /\ posts' = posts \ {p} /\ WatchEndsChild'
           /\ pc' \in [Remotes -> Location] /\ cur' \in [Remotes -> Jobs \cup {NoJob}]
           /\ token' \in [Remotes -> 0 .. MaxAttempts] /\ err' \in [Remotes -> BOOLEAN]
           /\ ran' \in [Remotes -> 0 .. Deadline + 1]
           /\ \A w \in Remotes : AtWork(w)' => Mine(w)' # <<p.job, p.lease>>
  <1>1. p.by \in Remotes /\ posts' = posts \ {p}
    BY PostAttempt DEF Answer
  <1>2. CASE Awaited(p)
    <2>1. PICK l \in {"idle", "dead"} : Leaves(p.by, l)
      BY <1>2 DEF Answer
    <2>2. WatchEndsChild'
      BY <1>1, <1>2, <2>1 DEF Awaited, Leaves, RInv, RemoteTypeOK, WatchEndsChild, Mine
    <2>3. \A w \in Remotes : AtWork(w)' => AtWork(w) /\ w # p.by /\ Mine(w)' = Mine(w)
      BY <1>1, <2>1 DEF Leaves, AtWork, Mine, RInv, RemoteTypeOK
    <2>4. \A w \in Remotes : AtWork(w)' => Mine(w)' # <<p.job, p.lease>>
      BY <2>3 DEF RInv, OneHand
    <2>5. QED
      BY <1>1, <2>1, <2>2, <2>4, LeavesFacts
  <1>3. CASE ~Awaited(p)
    <2>1. UNCHANGED <<pc, cur, token, err, ran>>
      BY <1>3 DEF Answer
    <2>2. \A w \in Remotes : AtWork(w)' => Mine(w)' # <<p.job, p.lease>>
      BY <1>3, <2>1 DEF RInv, OneHand, Awaited, AtWork, Mine
    <2>3. HandsShrink /\ WatchEndsChild'
      BY <1>1, <2>1 DEF HandsShrink, AtWork, Mine, RInv, Granted, WatchEndsChild
    <2>4. QED
      BY <1>1, <2>1, <2>2, <2>3 DEF RInv, RemoteTypeOK
  <1>4. QED
    BY <1>2, <1>3

LEMMA FinishKeeps ==
    ASSUME IInv, IInv', RInv, NEW p \in posts, PostFinish(p),
           \A j \in Jobs : attempts'[j] >= attempts[j]
    PROVE  RemoteTypeOK' /\ Safe' /\ WatchEndsChild'
  <1> DEFINE ok == p.told = "error" \/ Accepts(p.job, p.lease)
  <1>1. Finish(p.job, p.lease, p.told) /\ Answer(p, ok) /\ UNCHANGED <<child, saved, faults>>
    BY DEF PostFinish
  <1>2. p.at = "finish" /\ p.job \in Jobs /\ ok \in BOOLEAN
    BY PostAttempt DEF PostFinish, Publishable
  <1> HIDE DEF ok
  <1>3. RemoteTypeOK' /\ HandsShrink /\ WatchEndsChild' /\ ChildrenEnd /\ posts' = posts \ {p}
    BY <1>1, <1>2, AnswerFacts DEF RInv, RemoteTypeOK, IInv, ChildrenEnd
  <1>4. Granted' /\ OneHand' /\ UploadsWhole'
    BY <1>1, <1>3, ShrinkHands
  <1>5. CASE ~Accepts(p.job, p.lease)
    <2>1. Kept
      BY <1>1, <1>5 DEF Finish, vars, Kept
    <2>2. QED
      BY <1>1, <1>3, <2>1, ShrinkKeeps
  <1>6. CASE Accepts(p.job, p.lease)
    <2>1. /\ status' = [status EXCEPT ![p.job] = Outcome(p.job, p.told)]
          /\ result' = [result EXCEPT ![p.job] = IF p.told = "success" THEN p.lease ELSE 0]
          /\ worker' = worker
      BY <1>1, <1>6 DEF Finish
    <2>2. Outcome(p.job, p.told) = "completed" => p.told = "success"
      BY DEF Outcome
    <2>3. ASSUME NEW j \in Jobs, status'[j] = "completed", worker'[j] # Local
          PROVE  /\ saved'[<<j, result'[j]>>] = "whole" /\ child'[<<j, result'[j]>>] = "done"
                 /\ \A q \in posts' : <<q.job, q.lease>> # <<j, result'[j]>>
                 /\ \A w \in Remotes : AtWork(w)' => Mine(w)' # <<j, result'[j]>>
      <3>1. CASE j = p.job
        <4>1. p.told = "success" /\ result'[j] = p.lease
          BY <1>2, <2>1, <2>2, <2>3, <3>1 DEF IInv, TypeOK
        <4>2. saved[<<j, p.lease>>] = "whole" /\ child[<<j, p.lease>>] = "done"
          BY <1>2, <3>1, <4>1 DEF RInv, UploadsWhole
        <4>3. \A q \in posts' : <<q.job, q.lease>> # <<j, p.lease>>
          BY <1>3, <3>1 DEF RInv, OneHand
        <4>4. \A w \in Remotes : AtWork(w)' => Mine(w)' # <<j, p.lease>>
          BY <1>1, <1>2, <3>1, AnswerFacts
        <4>5. QED
          BY <1>1, <4>1, <4>2, <4>3, <4>4
      <3>2. CASE j # p.job
        <4>1. status[j] = "completed" /\ result'[j] = result[j] /\ worker[j] # Local
          BY <2>1, <2>3, <3>2 DEF IInv, TypeOK
        <4>2. saved[<<j, result[j]>>] = "whole" /\ child[<<j, result[j]>>] = "done"
          BY <4>1 DEF RInv, ServedUploadIsWhole
        <4>3. \A q \in posts' : <<q.job, q.lease>> # <<j, result[j]>>
          BY <1>3, <4>1 DEF RInv, Settled
        <4>4. ASSUME NEW w \in Remotes, AtWork(w)' PROVE Mine(w)' # <<j, result[j]>>
          BY <1>3, <4>1, <4>4 DEF RInv, Settled, HandsShrink, Mine
        <4>5. QED
          BY <1>1, <4>1, <4>2, <4>3, <4>4
      <3>3. QED
        BY <3>1, <3>2
    <2>4. Settled' /\ ServedUploadIsWhole'
      BY <2>3 DEF Settled, ServedUploadIsWhole, AtWork, Mine
    <2>5. QED
      BY <1>3, <1>4, <2>4 DEF Safe
  <1>7. QED
    BY <1>5, <1>6

LEMMA ServeKeeps ==
    ASSUME IInv, IInv', RInv, NEW p \in posts, \A j \in Jobs : attempts'[j] >= attempts[j],
           PostCheck(p) \/ SaveBegin(p) \/ SaveEnd(p) \/ PostFinish(p)
    PROVE  RemoteTypeOK' /\ Safe' /\ WatchEndsChild'
  <1>0. /\ p.by \in Remotes /\ p.job \in Jobs /\ p.lease \in Leases
        /\ p.told \in {"success", "error"} /\ <<p.job, p.lease>> \in Attempts
    BY PostAttempt
  <1>1. CASE PostCheck(p)
    <2>1. Kept
      BY <1>0, <1>1, RenewIsQuiet DEF PostCheck
    <2>2. CASE Entitled(p.by, p.job, p.lease)
      <3>1. PICK stage \in {"save", "finish"} :
               Advance(p, stage) /\ (p.told = "success" => stage = "save")
        BY <1>0, <1>1, <2>2 DEF PostCheck
      <3>2. UNCHANGED <<child, faults, saved>> /\ saved \in [Attempts -> {"none", "partial", "whole"}]
        BY <1>1 DEF PostCheck, RInv, RemoteTypeOK
      <3>3. QED
        BY <2>1, <3>1, <3>2, AdvanceKeeps
    <2>3. CASE ~Entitled(p.by, p.job, p.lease)
      <3>1. Answer(p, FALSE) /\ UNCHANGED <<child, saved, faults>>
        BY <1>1, <2>3 DEF PostCheck
      <3>2. RemoteTypeOK' /\ HandsShrink /\ WatchEndsChild' /\ ChildrenEnd
        BY <3>1, AnswerFacts DEF RInv, RemoteTypeOK, IInv, ChildrenEnd
      <3>3. QED
        BY <2>1, <3>1, <3>2, ShrinkKeeps
    <2>4. QED
      BY <2>2, <2>3
  <1>2. CASE SaveBegin(p) \/ SaveEnd(p)
    <2>1. PICK stage \in {"saving", "finish"} :
             /\ Advance(p, stage)
             /\ saved' = [saved EXCEPT ![<<p.job, p.lease>>] = IF stage = "finish" THEN "whole" ELSE "partial"]
      BY <1>2 DEF SaveBegin, SaveEnd
    <2>2. UNCHANGED <<vars, child, faults>>
      BY <1>2 DEF SaveBegin, SaveEnd
    <2>3. /\ saved' \in [Attempts -> {"none", "partial", "whole"}]
          /\ \A a \in Attempts : a # <<p.job, p.lease>> => saved'[a] = saved[a]
          /\ stage = "finish" => saved'[<<p.job, p.lease>>] = "whole"
      BY <1>0, <2>1 DEF RInv, RemoteTypeOK
    <2>4. Kept
      BY <2>2 DEF vars, Kept
    <2>5. QED
      BY <2>1, <2>2, <2>3, <2>4, AdvanceKeeps
  <1>3. CASE PostFinish(p)
    BY <1>3, FinishKeeps
  <1>4. QED
    BY <1>1, <1>2, <1>3

-----------------------------------------------------------------------------
LEMMA WorkKeeps ==
    ASSUME IInv, IInv', RInv, NEW w \in Remotes, Work(w),
           \A j \in Jobs : attempts'[j] >= attempts[j]
    PROVE  RemoteTypeOK' /\ Safe' /\ WatchEndsChild'
  <1> USE DEF AtWork
  <1>1. CASE Idle(w)
    <2>1. Kept /\ UNCHANGED remoteVars
      BY <1>1, AccountAssumption, QuietTable, QuietIsKept DEF Idle
    <2>2. HandsShrink /\ ChildrenEnd /\ saved' = saved
      BY <2>1 DEF remoteVars, HandsShrink, ChildrenEnd, RInv, Granted
    <2>3. RemoteTypeOK' /\ WatchEndsChild'
      BY <2>1 DEF remoteVars, RInv, RemoteTypeOK, IInv, WatchEndsChild, Mine
    <2>4. QED
      BY <2>1, <2>2, <2>3, ShrinkKeeps
  <1>2. ASSUME NEW j \in Jobs, Take(w, j) PROVE RemoteTypeOK' /\ Safe' /\ WatchEndsChild'
    BY <1>2, TakeKeeps
  <1>3. CASE Fetch(w)
    <2>1. Kept
      BY <1>3, LeaseInHand, RenewIsQuiet DEF Fetch
    <2>2. pc[w] = "claimed" /\ UNCHANGED <<child, posts, saved, faults>>
      BY <1>3 DEF Fetch
    <2>3. \/ Goes(w, "fetched") /\ UNCHANGED err
          \/ Leaves(w, "dead")
      BY <1>3 DEF Fetch
    <2>4. HandsShrink /\ ChildrenEnd
      BY <2>2, <2>3, LeavesFacts, GoesFacts DEF ChildrenEnd, Location
    <2>5. RemoteTypeOK'
      BY <2>2, <2>3, LeavesFacts, GoesFacts DEF Goes, Location, RInv, RemoteTypeOK, IInv
    <2>6. WatchEndsChild'
      BY <2>2, <2>3, <2>4, WatchKept DEF Goes, Leaves, RInv, RemoteTypeOK
    <2>7. QED
      BY <2>1, <2>2, <2>4, <2>5, <2>6, ShrinkKeeps
  <1>4. CASE Launch(w)
    BY <1>4, LaunchKeeps
  <1>5. CASE Beat(w) \/ BeatAnswer(w) \/ ChildGone(w)
    <2>1. Kept
      BY <1>5, LeaseInHand, RenewIsQuiet, QuietTable, QuietIsKept DEF Beat, BeatAnswer, ChildGone
    <2>2. /\ pc[w] \in {"watching", "beating"}
          /\ \E l \in {"beating", "raising", "stopping", "watching", "reporting"} :
                Goes(w, l) /\ (l = "reporting" => child[Mine(w)] # "running")
          /\ UNCHANGED <<child, posts, saved, faults>>
      BY <1>5 DEF Beat, BeatAnswer, ChildGone
    <2>3. err' \in [Remotes -> BOOLEAN]
      <3>1. err' = err \/ err' = [err EXCEPT ![w] = GivesUp(w)]
        BY <1>5 DEF Beat, BeatAnswer, ChildGone
      <3>2. GivesUp(w) \in BOOLEAN
        BY DEF GivesUp
      <3>3. QED
        BY <3>1, <3>2, ZenonT(30) DEF RInv, RemoteTypeOK
    <2>4. HandsShrink /\ ChildrenEnd /\ pc' \in [Remotes -> Location]
      BY <2>2, GoesFacts DEF ChildrenEnd, Location
    <2>5. RemoteTypeOK'
      BY <2>2, <2>3, <2>4 DEF Goes, RInv, RemoteTypeOK, IInv
    <2>6. WatchEndsChild'
      BY <2>2, <2>4, WatchKept DEF Goes, RInv, RemoteTypeOK
    <2>7. QED
      BY <2>1, <2>2, <2>4, <2>5, <2>6, ShrinkKeeps
  <1>6. CASE StopChild(w) \/ Raise(w)
    <2>1. Kept /\ UNCHANGED <<vars, posts, saved, faults>> /\ KillChild(w)
      BY <1>6 DEF StopChild, Raise, vars, Kept
    <2>2. /\ pc[w] \in {"stopping", "raising"}
          /\ (Goes(w, "reporting") /\ UNCHANGED err) \/ Leaves(w, "dead")
      BY <1>6 DEF StopChild, Raise
    <2>3. ChildrenEnd /\ child' \in [Attempts -> Process]
      BY <2>1, KillFacts
    <2>4. HandsShrink
      BY <2>1, <2>2, LeavesFacts, GoesFacts DEF Location
    <2>5. RemoteTypeOK'
      BY <2>1, <2>2, <2>3, LeavesFacts, GoesFacts DEF Goes, Location, RInv, RemoteTypeOK, IInv
    <2>6. \A a \in Attempts : a = Mine(w) => child'[a] # "running"
      BY <2>1 DEF KillChild, RInv, RemoteTypeOK
    <2>7. WatchEndsChild'
      BY <2>1, <2>2, <2>3, <2>6, WatchKept DEF Goes, Leaves, RInv, RemoteTypeOK
    <2>8. QED
      BY <2>1, <2>3, <2>4, <2>5, <2>7, ShrinkKeeps
  <1>7. CASE Report(w)
    BY <1>7, ReportKeeps
  <1>8. QED
    BY <1>1, <1>2, <1>3, <1>4, <1>5, <1>6, <1>7 DEF Work

LEMMA NextRInv ==
    ASSUME IInv, IInv', RInv, [RemoteNext]_allVars
    PROVE  RInv'
  <1>0. [Next]_vars /\ ClaimedHasLease' /\ \A j \in Jobs : attempts'[j] >= attempts[j]
    BY RemoteStep, ClaimsLeaveLeases, AttemptsGrow
  <1> SUFFICES RemoteTypeOK' /\ Safe' /\ WatchEndsChild'
    BY <1>0 DEF RInv, Safe
  <1>1. ASSUME NEW w \in Remotes, Work(w) PROVE RemoteTypeOK' /\ Safe' /\ WatchEndsChild'
    BY <1>0, <1>1, WorkKeeps
  <1>2. CASE Serve
    BY <1>0, <1>2, ServeKeeps DEF Serve
  <1>3. CASE TimePasses
    <2>1. Kept /\ UNCHANGED <<pc, cur, token, err, child, posts, saved, faults>>
      BY <1>3, QuietTable, QuietIsKept DEF TimePasses
    <2>2. ran' \in [Remotes -> 0 .. Deadline + 1]
      BY <1>3, DeadlineAssumption DEF TimePasses, RInv, RemoteTypeOK
    <2>3. HandsShrink /\ ChildrenEnd
      BY <2>1 DEF HandsShrink, ChildrenEnd, RInv, Granted, AtWork
    <2>4. RemoteTypeOK' /\ WatchEndsChild'
      BY <2>1, <2>2 DEF RInv, RemoteTypeOK, IInv, WatchEndsChild, Mine
    <2>5. QED
      BY <1>0, <2>1, <2>3, <2>4, ShrinkKeeps
  <1>4. CASE Others \/ UNCHANGED allVars
    <2>1. Kept /\ UNCHANGED <<pc, cur, token, err, ran, child, posts, saved, faults>>
      BY <1>4, OthersKept DEF Others, LocalReports, allVars, vars, remoteVars, Kept
    <2>2. HandsShrink /\ ChildrenEnd
      BY <2>1 DEF HandsShrink, ChildrenEnd, RInv, Granted, AtWork
    <2>3. RemoteTypeOK' /\ WatchEndsChild'
      BY <2>1 DEF RInv, RemoteTypeOK, IInv, WatchEndsChild, Mine
    <2>4. QED
      BY <1>0, <2>1, <2>2, <2>3, ShrinkKeeps
  <1>5. ASSUME NEW w \in Remotes, Die(w) \/ Restart(w) PROVE RemoteTypeOK' /\ Safe' /\ WatchEndsChild'
    <2>1. UNCHANGED <<vars, posts, saved>> /\ (KillChild(w) \/ child' = child)
      BY <1>5 DEF Die, Restart
    <2>2. Kept
      BY <2>1 DEF vars, Kept
    <2>3. ChildrenEnd /\ child' \in [Attempts -> Process]
      BY <2>1, KillFacts
    <2>4. CASE Die(w)
      <3>1. Leaves(w, "dead") /\ faults < MaxFaults /\ faults' = faults + 1
        BY <2>4 DEF Die, Fault
      <3>2. HandsShrink /\ RemoteTypeOK'
        BY <2>1, <2>3, <3>1, LeavesFacts, FaultAssumption DEF RInv, RemoteTypeOK, IInv
      <3>3. WatchEndsChild'
        BY <3>1 DEF WatchEndsChild, RInv, RemoteTypeOK
      <3>4. QED
        BY <1>0, <2>1, <2>2, <2>3, <3>2, <3>3, ShrinkKeeps
    <2>5. CASE Restart(w)
      <3>1. /\ pc[w] = "dead" /\ pc' = [pc EXCEPT ![w] = "idle"]
            /\ UNCHANGED <<cur, token, err, ran, child, faults>>
        BY <2>5 DEF Restart
      <3>2. HandsShrink /\ RemoteTypeOK'
        BY <2>1, <3>1 DEF HandsShrink, AtWork, Location, RInv, RemoteTypeOK, Granted, IInv
      <3>3. WatchEndsChild'
        BY <2>3, <3>1, WatchKept DEF RInv, RemoteTypeOK
      <3>4. QED
        BY <1>0, <2>1, <2>2, <2>3, <3>2, <3>3, ShrinkKeeps
    <2>6. QED
      BY <1>5, <2>4, <2>5
  <1>6. ASSUME NEW w \in Remotes, NEW j \in Jobs, TakeUnheard(w, j)
        PROVE  RemoteTypeOK' /\ Safe' /\ WatchEndsChild'
    <2>1. Kept
      BY <1>6, AccountAssumption, QuietTable, QuietIsKept DEF TakeUnheard
    <2>2. /\ Leaves(w, "dead") /\ faults < MaxFaults /\ faults' = faults + 1
          /\ UNCHANGED <<child, posts, saved>>
      BY <1>6 DEF TakeUnheard, Fault
    <2>3. HandsShrink /\ ChildrenEnd /\ RemoteTypeOK'
      BY <2>2, LeavesFacts, FaultAssumption DEF ChildrenEnd, RInv, RemoteTypeOK, IInv
    <2>4. WatchEndsChild'
      BY <2>2 DEF WatchEndsChild, RInv, RemoteTypeOK
    <2>5. QED
      BY <1>0, <2>1, <2>2, <2>3, <2>4, ShrinkKeeps
  <1>7. CASE ApiDies
    <2>1. /\ UNCHANGED <<vars, child, saved>> /\ posts' = {}
          /\ faults < MaxFaults /\ faults' = faults + 1
      BY <1>7 DEF ApiDies, Fault
    <2>2. Kept /\ ChildrenEnd
      BY <2>1 DEF vars, Kept, ChildrenEnd
    <2>3. HandsShrink
      BY <1>7 DEF ApiDies, HandsShrink, AtWork, RInv, RemoteTypeOK, Granted
    <2>4. err' \in [Remotes -> BOOLEAN]
      BY <1>7, ZenonT(30) DEF ApiDies, RInv, RemoteTypeOK
    <2>5. /\ pc' \in [Remotes -> Location] /\ cur' \in [Remotes -> Jobs \cup {NoJob}]
          /\ token' \in [Remotes -> 0 .. MaxAttempts] /\ ran' \in [Remotes -> 0 .. Deadline + 1]
      BY <1>7, AttemptsAssumption, DeadlineAssumption DEF ApiDies, Location, RInv, RemoteTypeOK
    <2>6. RemoteTypeOK'
      BY <2>1, <2>4, <2>5, FaultAssumption DEF RInv, RemoteTypeOK, IInv
    <2>7. WatchEndsChild'
      BY <2>1 DEF WatchEndsChild, RInv, RemoteTypeOK
    <2>8. QED
      BY <1>0, <2>1, <2>2, <2>3, <2>6, <2>7, ShrinkKeeps
  <1>8. ASSUME NEW a \in Attempts, Exit(a) PROVE RemoteTypeOK' /\ Safe' /\ WatchEndsChild'
    <2>1. PICK how \in {"done", "broken"} : child' = [child EXCEPT ![a] = how]
      BY <1>8 DEF Exit
    <2>2. child[a] = "running" /\ UNCHANGED <<vars, pc, cur, token, err, ran, posts, saved, faults>>
      BY <1>8 DEF Exit
    <2>3. Kept /\ ChildrenEnd /\ HandsShrink
      BY <2>1, <2>2 DEF vars, Kept, ChildrenEnd, HandsShrink, AtWork, RInv, Granted, RemoteTypeOK
    <2>4. RemoteTypeOK'
      BY <2>1, <2>2 DEF RInv, RemoteTypeOK, Process, IInv
    <2>5. WatchEndsChild'
      BY <2>2, <2>3, WatchKept
    <2>6. QED
      BY <1>0, <2>2, <2>3, <2>4, <2>5, ShrinkKeeps
  <1>9. QED
    BY <1>1, <1>2, <1>3, <1>4, <1>5, <1>6, <1>7, <1>8 DEF RemoteNext

LEMMA RemoteInvariance == RemoteSpec => [](IInv /\ RInv)
  <1>1. RemoteInit => IInv /\ RInv
    BY InitIInv, InitRInv DEF RemoteInit
  <1>2. IInv /\ RInv /\ [RemoteNext]_allVars => (IInv /\ RInv)'
    BY RemoteStep, NextIInv, NextRInv
  <1>3. QED
    BY <1>1, <1>2, PTL DEF RemoteSpec

-----------------------------------------------------------------------------
\* Remote processes and the API implement the open table of JobStore: whatever
\* holds there for every caller holds with them.
THEOREM RemoteImplementsStore == RemoteSpec => Spec
  <1>1. RemoteInit => Init
    BY DEF RemoteInit
  <1>2. IInv /\ RInv /\ [RemoteNext]_allVars => [Next]_vars
    BY RemoteStep
  <1>3. QED
    BY <1>1, <1>2, RemoteInvariance, PTL DEF RemoteSpec, Spec

\* Hence they keep the contract with the user.
THEOREM RemoteKeepsContract == RemoteSpec => KeepsContract
  BY RemoteImplementsStore, StoreKeepsContract

\* Processes, uploads and stored results keep their types.
THEOREM RemoteTypeCorrect == RemoteSpec => []RemoteTypeOK
  <1>1. RInv => RemoteTypeOK
    BY DEF RInv
  <1>2. QED
    BY <1>1, RemoteInvariance, PTL

\* What is served for a remotely analysed job is one whole upload of what a
\* child that ended cleanly wrote.
THEOREM ServedUploadsAreWhole == RemoteSpec => []ServedUploadIsWhole
  <1>1. RInv => ServedUploadIsWhole
    BY DEF RInv
  <1>2. QED
    BY <1>1, RemoteInvariance, PTL

\* Processes and uploads stay within the workspace of their key.
THEOREM WorkspacesAreKept == RemoteSpec => []StaysInWorkspace
  <1>1. ASSUME RInv PROVE StaysInWorkspace
    <2>1. \A w \in Remotes : cur[w] # NoJob => WorkspaceOf[cur[w]] \in Scope[AccountOf[w]]
      BY <1>1 DEF RInv, Granted
    <2>2. \A p \in posts : WorkspaceOf[p.job] \in Scope[AccountOf[p.by]]
      BY <1>1 DEF RInv, Granted
    <2>3. QED
      BY <2>1, <2>2 DEF StaysInWorkspace
  <1>2. QED
    BY <1>1, RemoteInvariance, PTL

\* An upload in progress that can be accepted excludes every other one.
THEOREM UploadsExclude == RemoteSpec => []OneAcceptableUpload
  <1>1. ASSUME RInv PROVE OneAcceptableUpload
    <2>1. ASSUME NEW p \in posts, Accepts(p.job, p.lease), NEW q \in posts \ {p}, q.job = p.job
          PROVE  ~Accepts(q.job, q.lease)
      BY <1>1, <2>1 DEF RInv, OneHand, Accepts
    <2>2. ASSUME NEW p \in posts, Accepts(p.job, p.lease),
                 NEW w \in Remotes, cur[w] = p.job, Accepts(cur[w], token[w])
          PROVE  w = p.by
      <3>1. cur[w] # NoJob /\ token[w] = p.lease
        BY <1>1, <2>2, PostAttempt, NoJobAssumption DEF Accepts
      <3>2. AtWork(w)
        BY <1>1, <3>1 DEF RInv, Granted
      <3>3. QED
        BY <1>1, <2>2, <3>1, <3>2 DEF RInv, OneHand, Mine
    <2>3. QED
      BY <2>1, <2>2 DEF OneAcceptableUpload
  <1>2. QED
    BY <1>1, RemoteInvariance, PTL

\* Whatever ends a watch ends the child, unless the process dies.
THEOREM WatchesEndChildren == RemoteSpec => []WatchEndsChild
  <1>1. RInv => WatchEndsChild
    BY DEF RInv
  <1>2. QED
    BY <1>1, RemoteInvariance, PTL
=============================================================================
