----------------------------- MODULE MCStartup -----------------------------
(* Small instances of Startup for TLC.                                     *)
EXTENDS Startup, TLC

CONSTANTS a, b, b1

(* Two commands that start at the same time, one of them with its child.   *)
MCParent == (a :> None) @@ (b :> None) @@ (b1 :> b)
=============================================================================
