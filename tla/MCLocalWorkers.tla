--------------------------- MODULE MCLocalWorkers ---------------------------
(***************************************************************************)
(* LocalWorkers for TLC.  Local workers claim from every workspace, so one *)
(* workspace is enough.                                                    *)
(***************************************************************************)
EXTENDS LocalWorkers

CONSTANTS j1, w1, w2, lab

MCWorkspaceOf == [j \in Jobs |-> lab]
MCScope       == [w \in Workers |-> {lab}]
=============================================================================
