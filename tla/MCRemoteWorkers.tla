-------------------------- MODULE MCRemoteWorkers --------------------------
(***************************************************************************)
(* RemoteWorkers for TLC: two remote processes that share the key of one   *)
(* account, and a local worker.                                            *)
(***************************************************************************)
EXTENDS RemoteWorkers, TLC

CONSTANTS j1, j2, r1, r2, labKey, guestKey, local

MCWorkspaces  == {"lab", "guest"}
MCWorkspaceOf == [j \in Jobs |-> IF j = j2 THEN "guest" ELSE "lab"]
MCScope       == (local :> MCWorkspaces) @@ (labKey :> {"lab"}) @@ (guestKey :> {"guest"})

MCOneKey == [w \in Remotes |-> labKey]
=============================================================================
