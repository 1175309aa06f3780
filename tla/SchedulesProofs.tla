--------------------------- MODULE SchedulesProofs ---------------------------
(***************************************************************************)
(* The samples of jobs and the spacing of scheduled runs, for any number   *)
(* of jobs, schedules and workers, any interval, and any crashes.          *)
(***************************************************************************)
EXTENDS Schedules, TLAPS

\* The jobs whose files some process is preparing are nobody else's.
Preparing ==
    /\ \A j \in fresh   : row[j] = "absent" /\ j \notin sample
    /\ \A j \in uploads : row[j] = "absent" /\ j \in sample /\ j \notin fresh
    /\ \A s \in Slots, j \in Jobs : <<s, j>> \in made =>
          row[j] = "absent" /\ j \in sample /\ j \notin fresh /\ j \notin uploads
    /\ \A s \in Slots, j \in Jobs : copy = <<s, j>> =>
          row[j] = "absent" /\ j \notin fresh /\ j \notin uploads

\* Retention only ever deals with finished jobs.
Retiring ==
    /\ \A j \in doomed : row[j] = "finished"
    /\ removed # NoJob => removed \in doomed /\ removed \notin sample

SampleInv ==
    /\ TypeOK
    /\ Preparing
    /\ Retiring
    /\ LiveJobHasSample
    /\ ExpiredJobHasNone

\* A schedule the open tick deals with.
Pending(s) == s \in todo \/ Ran(s) \/ \E j \in Jobs : copy = <<s, j>>

\* The schedules a tick deals with stay enabled as long as it holds the write
\* lock, and were due when it read the clock; the others are due no earlier than
\* an interval after their last run.
Spacing ==
    /\ \A s \in Slots : Pending(s) => /\ lock # NoWorker
                                      /\ enabled[s]
                                      /\ since[s] >= Interval + spent
    /\ \A s \in Slots : enabled[s] => since[s] >= Interval \/ since[s] + left[s] >= Interval

-----------------------------------------------------------------------------
LEMMA NoCopyIsNone == ASSUME NEW s \in Slots, NEW j \in Jobs PROVE NoCopy # <<s, j>>
  BY NullAssumption DEF NoCopy

LEMMA InitSampleInv == Init => SampleInv
  <1> SUFFICES ASSUME Init PROVE SampleInv
    OBVIOUS
  <1>1. TypeOK
    <2>1. 0 \in (-MaxOverdue) .. Interval /\ 0 \in 0 .. 2 * Interval /\ 0 \in 0 .. Interval /\ 0 \in 0 .. MaxCrashes
      BY IntervalAssumption, OverdueAssumption, CrashAssumption
    <2>2. left \in [Slots -> (-MaxOverdue) .. Interval] /\ since \in [Slots -> 0 .. 2 * Interval]
      BY <2>1 DEF Init
    <2>3. QED
      BY <2>1, <2>2 DEF Init, TypeOK, Rows
  <1>2. Preparing /\ Retiring /\ LiveJobHasSample /\ ExpiredJobHasNone
    BY NoCopyIsNone DEF Init, Preparing, Retiring, LiveJobHasSample, ExpiredJobHasNone
  <1>3. QED
    BY <1>1, <1>2 DEF SampleInv

LEMMA NextSampleInv == ASSUME SampleInv, [Next]_vars PROVE SampleInv'
  <1> USE IntervalAssumption, OverdueAssumption, CrashAssumption, NullAssumption
      DEF SampleInv, scheduleVars, tickVars, retainVars
  <1>1. CASE Tick
    BY <1>1 DEF Tick, TypeOK, Preparing, Retiring, LiveJobHasSample, ExpiredJobHasNone
  <1>2. ASSUME NEW j \in Jobs, StoreSample(j) PROVE SampleInv'
    BY <1>2 DEF StoreSample, TypeOK, Preparing, Retiring, LiveJobHasSample, ExpiredJobHasNone
  <1>3. ASSUME NEW j \in Jobs, InsertRow(j) PROVE SampleInv'
    BY <1>3 DEF InsertRow, TypeOK, Rows, Preparing, Retiring, LiveJobHasSample, ExpiredJobHasNone
  <1>4. ASSUME NEW j \in Jobs, FinishJob(j) PROVE SampleInv'
    BY <1>4 DEF FinishJob, TypeOK, Rows, Preparing, Retiring, LiveJobHasSample, ExpiredJobHasNone
  <1>5. ASSUME NEW s \in Slots, NEW j \in Jobs, AskSchedule(s, j) PROVE SampleInv'
    BY <1>5 DEF AskSchedule, TypeOK, Preparing, Retiring, LiveJobHasSample, ExpiredJobHasNone
  <1>6. ASSUME NEW s \in Slots, InsertSchedule(s) PROVE SampleInv'
    BY <1>6 DEF InsertSchedule, TypeOK, Preparing, Retiring, LiveJobHasSample, ExpiredJobHasNone
  <1>7. ASSUME NEW s \in Slots, Unschedule(s) PROVE SampleInv'
    BY <1>7 DEF Unschedule, TypeOK, Preparing, Retiring, LiveJobHasSample, ExpiredJobHasNone
  <1>8. ASSUME NEW w \in Workers, TickBegin(w) PROVE SampleInv'
    BY <1>8 DEF TickBegin, Batches, Due, TypeOK, Preparing, Retiring, LiveJobHasSample, ExpiredJobHasNone
  <1>9. ASSUME NEW s \in Slots, TickDisable(s) PROVE SampleInv'
    BY <1>9 DEF TickDisable, TypeOK, Preparing, Retiring, LiveJobHasSample, ExpiredJobHasNone
  <1>10. ASSUME NEW s \in Slots, NEW j \in Jobs, TickCopy(s, j) PROVE SampleInv'
    BY <1>10 DEF TickCopy, TypeOK, Preparing, Retiring, LiveJobHasSample, ExpiredJobHasNone
  <1>11. CASE TickCopied
    <2>1. PICK s \in Slots, j \in Jobs : copy = <<s, j>>
      BY <1>11 DEF TickCopied, TypeOK
    <2>2. QED
      BY <1>11, <2>1 DEF TickCopied, NoCopy, TypeOK, Preparing, Retiring, LiveJobHasSample, ExpiredJobHasNone
  <1>12. CASE TickCommit
    <2>1. TypeOK'
      BY <1>12 DEF TickCommit, NextDue, TypeOK, Rows
    <2>2. \A j \in Jobs : \/ row'[j] = row[j]
                          \/ row'[j] = "live" /\ row[j] = "absent" /\ j \in sample
                             /\ j \notin fresh /\ j \notin uploads
      BY <1>12 DEF TickCommit, Preparing
    <2>3. sample' = sample /\ fresh' = fresh /\ uploads' = uploads /\ made' = {} /\ copy' = NoCopy
          /\ doomed' = doomed /\ removed' = removed
      BY <1>12 DEF TickCommit
    <2>4. QED
      BY <2>1, <2>2, <2>3 DEF TypeOK, NoCopy, Preparing, Retiring, LiveJobHasSample, ExpiredJobHasNone
  <1>13. CASE TickFails \/ WorkerDies
    BY <1>13 DEF TickFails, WorkerDies, RollBack, NoCopy, TypeOK, Preparing, Retiring,
                 LiveJobHasSample, ExpiredJobHasNone
  <1>14. ASSUME NEW S \in SUBSET Jobs, RetainSelect(S) PROVE SampleInv'
    BY <1>14 DEF RetainSelect, Retainable, TypeOK, Preparing, Retiring, LiveJobHasSample, ExpiredJobHasNone
  <1>15. ASSUME NEW j \in Jobs, RetainRemove(j) PROVE SampleInv'
    BY <1>15 DEF RetainRemove, TypeOK, Preparing, Retiring, LiveJobHasSample, ExpiredJobHasNone
  <1>16. CASE RetainExpire
    BY <1>16 DEF RetainExpire, TypeOK, Rows, Preparing, Retiring, LiveJobHasSample, ExpiredJobHasNone
  <1>17. CASE RetainDies \/ ApiDies
    BY <1>17 DEF RetainDies, ApiDies, TypeOK, Preparing, Retiring, LiveJobHasSample, ExpiredJobHasNone
  <1>18. CASE UNCHANGED vars
    BY <1>18 DEF vars, TypeOK, Preparing, Retiring, LiveJobHasSample, ExpiredJobHasNone
  <1>19. QED
    BY <1>1, <1>2, <1>3, <1>4, <1>5, <1>6, <1>7, <1>8, <1>9, <1>10, <1>11, <1>12, <1>13,
       <1>14, <1>15, <1>16, <1>17, <1>18 DEF Next, Ticking, Requests, Retaining

LEMMA SampleInvariance == Spec => []SampleInv
  BY InitSampleInv, NextSampleInv, PTL DEF Spec

-----------------------------------------------------------------------------
LEMMA InitSpacing == Init => Spacing
  BY NoCopyIsNone DEF Init, Spacing, Pending, Ran

LEMMA NextSpacing == ASSUME TypeOK, Spacing, [Next]_vars PROVE Spacing'
  <1> DEFINE Spaced(s) == since[s] >= Interval \/ since[s] + left[s] >= Interval
  <1> USE IntervalAssumption, OverdueAssumption
  <1>1. CASE Tick
    <2>1. \A s \in Slots : Pending(s)' <=> Pending(s)
      BY <1>1 DEF Tick, Pending, Ran
    <2>2. ASSUME NEW s \in Slots, Pending(s)
          PROVE  lock' # NoWorker /\ enabled'[s] /\ since'[s] >= Interval + spent'
      <3>1. enabled[s] /\ lock # NoWorker /\ since[s] >= Interval + spent
        BY <2>2 DEF Spacing
      <3>2. /\ since'[s] = IF since[s] < 2 * Interval THEN since[s] + 1 ELSE since[s]
            /\ spent' = IF spent < Interval THEN spent + 1 ELSE spent
            /\ enabled' = enabled /\ lock' = lock
        BY <1>1, <3>1 DEF Tick
      <3>3. since[s] \in 0 .. 2 * Interval /\ spent \in 0 .. Interval /\ Interval \in Nat
        BY DEF TypeOK
      <3>4. QED
        BY <3>1, <3>2, <3>3
    <2>3. ASSUME NEW s \in Slots, enabled'[s] PROVE Spaced(s)'
      BY <1>1, <2>3 DEF Tick, Spacing, TypeOK
    <2>4. QED
      BY <2>1, <2>2, <2>3 DEF Spacing
  <1>2. CASE Requests \/ Retaining \/ RetainDies \/ ApiDies \/ UNCHANGED vars
    <2>1. CASE UNCHANGED <<lock, todo, made, copy, spent, enabled, since, left>>
      BY <2>1 DEF Spacing, Pending, Ran
    <2>2. ASSUME NEW s \in Slots, InsertSchedule(s) \/ Unschedule(s) PROVE Spacing'
      <3>1. \A t \in Slots : ~Pending(t)
        BY <2>2 DEF InsertSchedule, Unschedule, Spacing
      <3>2. \A t \in Slots : ~Pending(t)'
        BY <2>2, <3>1 DEF InsertSchedule, Unschedule, tickVars, Pending, Ran
      <3>3. ASSUME NEW t \in Slots, enabled'[t] PROVE Spaced(t)'
        BY <2>2, <3>3 DEF InsertSchedule, Unschedule, Spacing, TypeOK
      <3>4. QED
        BY <3>2, <3>3 DEF Spacing
    <2>3. QED
      BY <1>2, <2>1, <2>2
      DEF Requests, Retaining, RetainDies, ApiDies, vars, StoreSample, InsertRow, FinishJob,
          AskSchedule, RetainSelect, RetainRemove, RetainExpire, scheduleVars, tickVars
  <1>3. ASSUME NEW w \in Workers, TickBegin(w) PROVE Spacing'
    <2>1. todo' \subseteq Due
      BY <1>3 DEF TickBegin, Batches
    <2>2. \A s \in Slots : ~Pending(s)
      BY <1>3 DEF TickBegin, Spacing
    <2>3. ASSUME NEW s \in Slots, Pending(s)' PROVE s \in Due
      BY <1>3, <2>1, <2>2, <2>3 DEF TickBegin, Pending, Ran
    <2>4. ASSUME NEW s \in Slots, s \in Due PROVE enabled[s] /\ since[s] >= Interval
      BY <2>4 DEF Due, Spacing, TypeOK
    <2>5. lock' = w /\ w # NoWorker /\ spent' = 0 /\ UNCHANGED <<enabled, since, left>>
      BY <1>3, NullAssumption DEF TickBegin, scheduleVars
    <2>6. QED
      BY <2>3, <2>4, <2>5 DEF Spacing, TypeOK
  <1>4. CASE (\E s \in Slots : TickDisable(s)) \/ (\E s \in Slots, j \in Jobs : TickCopy(s, j)) \/ TickCopied
    <2>1. ASSUME NEW s \in Slots, TickDisable(s) PROVE \A t \in Slots : Pending(t)' => Pending(t)
      BY <2>1 DEF TickDisable, Pending, Ran
    <2>2. ASSUME NEW s \in Slots, NEW j \in Jobs, TickCopy(s, j)
          PROVE  \A t \in Slots : Pending(t)' => Pending(t)
      BY <2>2 DEF TickCopy, Pending, Ran
    <2>3. ASSUME TickCopied PROVE \A t \in Slots : Pending(t)' => Pending(t)
      BY <2>3, NoCopyIsNone DEF TickCopied, Pending, Ran
    <2>4. UNCHANGED <<lock, enabled, since, left, spent>>
      BY <1>4 DEF TickDisable, TickCopy, TickCopied, scheduleVars
    <2>5. QED
      BY <1>4, <2>1, <2>2, <2>3, <2>4 DEF Spacing
  <1>5. CASE TickCommit
    <2>1. \A s \in Slots : ~Pending(s)'
      BY <1>5, NoCopyIsNone DEF TickCommit, Pending, Ran
    <2>2. ASSUME NEW s \in Slots, enabled'[s] PROVE Spaced(s)'
      BY <1>5, <2>2 DEF TickCommit, NextDue, Spacing, TypeOK
    <2>3. QED
      BY <2>1, <2>2 DEF Spacing
  <1>6. CASE TickFails \/ WorkerDies
    <2>1. \A s \in Slots : ~Pending(s)'
      BY <1>6, NoCopyIsNone DEF TickFails, WorkerDies, RollBack, Pending, Ran
    <2>2. UNCHANGED <<enabled, since, left>>
      BY <1>6 DEF TickFails, WorkerDies, RollBack, scheduleVars
    <2>3. QED
      BY <2>1, <2>2 DEF Spacing
  <1>7. QED
    BY <1>1, <1>2, <1>3, <1>4, <1>5, <1>6 DEF Next, Ticking

LEMMA SpacingInvariance == Spec => []Spacing
  <1>1. SampleInv /\ Spacing /\ [Next]_vars => Spacing'
    BY NextSpacing DEF SampleInv
  <1>2. QED
    BY <1>1, InitSpacing, SampleInvariance, PTL DEF Spec

-----------------------------------------------------------------------------
\* Samples, jobs, schedules and the state of a tick keep their types.
THEOREM SchedulesTypeCorrect == Spec => []TypeOK
  <1>1. SampleInv => TypeOK
    BY DEF SampleInv
  <1>2. QED
    BY <1>1, SampleInvariance, PTL

\* A job that is queued or executed has its sample, whatever retention, ticks
\* and crashes do.
THEOREM LiveJobsHaveSamples == Spec => []LiveJobHasSample
  <1>1. SampleInv => LiveJobHasSample
    BY DEF SampleInv
  <1>2. QED
    BY <1>1, SampleInvariance, PTL

\* An expired job has left no sample behind.
THEOREM ExpiredJobsHaveNone == Spec => []ExpiredJobHasNone
  <1>1. SampleInv => ExpiredJobHasNone
    BY DEF SampleInv
  <1>2. QED
    BY <1>1, SampleInvariance, PTL

\* Runs of one schedule are at least an interval apart.
THEOREM ScheduledRunsApart == Spec => RunsApart
  <1>1. ASSUME TypeOK, Spacing, NEW s \in Slots, NEW j \in Jobs, <<s, j>> \in made
        PROVE  since[s] - spent >= Interval
    <2>1. since[s] >= Interval + spent
      BY <1>1 DEF Spacing, Pending, Ran
    <2>2. QED
      BY <1>1, <2>1, IntervalAssumption DEF TypeOK
  <1>2. SampleInv /\ Spacing /\ [Next]_vars =>
            [\A s \in Slots :
                (\E j \in Jobs : <<s, j>> \in made /\ row[j] = "absent" /\ row'[j] = "live")
                   => since[s] - spent >= Interval]_vars
    BY <1>1 DEF SampleInv
  <1>3. QED
    BY <1>2, SampleInvariance, SpacingInvariance, PTL DEF Spec, RunsApart
=============================================================================
