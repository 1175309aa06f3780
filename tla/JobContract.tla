----------------------------- MODULE JobContract -----------------------------
(***************************************************************************)
(* What a user of the platform is promised about one submitted sample: it  *)
(* gets exactly one outcome, a request to stop wins over every result that *)
(* comes after it, and what is served never changes until it is retired.   *)
(*                                                                         *)
(* phase[j] is the status shown by GET /api/jobs/{id} without its retries: *)
(* a job in the queue, being executed, or back in the queue after a worker *)
(* was lost is "open".  served[j] is the attempt whose files output() of   *)
(* api.py serves, 0 when it answers 409.                                   *)
(***************************************************************************)
EXTENDS Naturals

CONSTANT Jobs

VARIABLES phase, served

Decided == {"completed", "failed", "cancelled"}
Phases  == {"absent", "open", "stopping", "expired"} \cup Decided

-----------------------------------------------------------------------------
Submit(j)  == phase[j] = "absent" /\ phase'[j] = "open" /\ served'[j] = 0

AskStop(j) == phase[j] = "open" /\ phase'[j] = "stopping" /\ served'[j] = 0

Complete(j) == phase[j] = "open" /\ phase'[j] = "completed" /\ served'[j] > 0

Fail(j)    == phase[j] = "open" /\ phase'[j] = "failed" /\ served'[j] = 0

Stop(j)    == phase[j] \in {"open", "stopping"} /\ phase'[j] = "cancelled" /\ served'[j] = 0

Retire(j)  == phase[j] \in Decided /\ phase'[j] = "expired" /\ served'[j] = 0

Step(j) == Submit(j) \/ AskStop(j) \/ Complete(j) \/ Fail(j) \/ Stop(j) \/ Retire(j)

Init == \A j \in Jobs : phase[j] = "absent" /\ served[j] = 0

\* Jobs are independent: one transaction may take several of them a step on.
Next == \A j \in Jobs : Step(j) \/ UNCHANGED <<phase[j], served[j]>>

Spec == Init /\ [][Next]_<<phase, served>>

-----------------------------------------------------------------------------
\* Every submitted job is decided in the end.
EveryJobDecided == \A j \in Jobs : phase[j] \in {"open", "stopping"} ~> phase[j] \in Decided \cup {"expired"}

\* A request to stop takes effect.
EveryStopTaken == \A j \in Jobs : phase[j] = "stopping" ~> phase[j] \in {"cancelled", "expired"}
=============================================================================
