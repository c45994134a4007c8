------------------------- MODULE SyncPromiseProofs -------------------------
(***************************************************************************)
(* What a full sync promises, step by step, is a promise about every state *)
(* in which a result is published; the detailed sync refines those steps.  *)
(***************************************************************************)
EXTENDS SyncPromise, TLAPS

LEMMA PublishedNext == ASSUME Published, [Next]_vars PROVE Published'
<1>1. CASE Begin \/ Resume
  BY <1>1 DEF Begin, Resume, Published
<1>2. CASE Lose \/ Stop \/ UNCHANGED vars
  BY <1>2 DEF Lose, Stop, vars, Published, Within
<1>3. CASE Complete
  BY <1>3 DEF Complete, Published, Within
<1>4. CASE Change
  BY <1>4 DEF Change, Published, Within
<1> QED BY <1>1, <1>2, <1>3, <1>4 DEF Next

(* A published result lies between what was there all along its sync and   *)
(* what was there at some time of it, for ever after, lost grants excepted *)
(* (syncer.go 276-458, sync_runs.go 293-319).                              *)
THEOREM PublishedIsTrue == Spec => []Published
<1>1. Init => Published
  BY DEF Init, Published
<1> QED BY <1>1, PublishedNext, PTL DEF Spec
=============================================================================
