------------------------------- MODULE MCCore -------------------------------
(***************************************************************************)
(* The queue and the sandbox, for TLC: JobStore with two jobs in two       *)
(* workspaces, one worker that claims from both (run_once) and one         *)
(* confined to the first (the remote claim); and SandboxRun.  They share   *)
(* no variable, so a behaviour is one of either part, while the other      *)
(* stays where it starts.                                                  *)
(***************************************************************************)
EXTENDS JobStore, SandboxRun, TLC

CONSTANTS j1, j2, local, remote

VARIABLE part

bothVars == <<part, vars, runVars>>

(* Beside the queue no run is to be waited for. *)
NoRun ==
    /\ backend = "qemu" /\ pc = "over" /\ job = FALSE
    /\ bundle = NoBundle /\ file = NoBundle /\ staged = {} /\ store = {}
    /\ vm = "none" /\ disk = {} /\ serial = "nothing" /\ task = "none"
    /\ clock = 0 /\ raised = "no"

CoreInit ==
    /\ Init
    /\ \/ part = "queue" /\ NoRun
       \/ part = "sandbox" /\ RunInit

QueueDoes(A)   == part = "queue" /\ A /\ UNCHANGED <<part, runVars>>
SandboxDoes(A) == part = "sandbox" /\ A /\ UNCHANGED <<part, vars>>

(* A sandbox run comes to an end. *)
RunOver == pc \in {"over", "killed"} /\ UNCHANGED runVars

CoreNext == QueueDoes(Next) \/ SandboxDoes(RunNext) \/ SandboxDoes(RunOver)

(* The fairness is that of SandboxRun!FairRunSpec. *)
CoreSpec ==
    /\ CoreInit /\ [][CoreNext]_bothVars
    /\ WF_bothVars(SandboxDoes(Controller)) /\ WF_bothVars(SandboxDoes(TimePasses))

-----------------------------------------------------------------------------
MCJobs        == {j1, j2}
MCWorkers     == {local, remote}
MCWorkspaces  == {"lab", "guest"}
MCWorkspaceOf == (j1 :> "lab") @@ (j2 :> "guest")
MCScope       == (local :> MCWorkspaces) @@ (remote :> {"lab"})
=============================================================================
