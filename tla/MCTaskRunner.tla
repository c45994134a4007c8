---------------------------- MODULE MCTaskRunner ----------------------------
(***************************************************************************)
(* A small instance of TaskRunner: two slots, and a goroutine more than    *)
(* they allow.                                                             *)
(***************************************************************************)
EXTENDS TaskRunner

CONSTANTS t1, t2, t3

MCTasks == {t1, t2, t3}
=============================================================================
