---------------------------- MODULE SyncPromise ----------------------------
(***************************************************************************)
(* What a full sync promises, whoever changes Vault meanwhile: no snapshot *)
(* of it, but a set of resources and grants between those that were there  *)
(* all along and those that were there at some time, and all at once, when *)
(* the sync completes.  It may stop and go on, and it may lose grants, in  *)
(* which case they are promised no more.                                   *)
(***************************************************************************)
CONSTANT Nothing  \* no result

VARIABLES truth,    \* the resources and grants of Vault
          always,   \* what Vault has had all along the sync
          ever,     \* what it has had at some time of it
          syncing,  \* the sync is in progress
          lossy,    \* it has lost grants
          result    \* what the last sync published, or Nothing

vars == <<truth, always, ever, syncing, lossy, result>>

Within(x, y) == x.resources \subseteq y.resources /\ x.grants \subseteq y.grants

(* A sync may know less than the truth, and more, from before it began.    *)
Frames == Within(always, truth) /\ Within(truth, ever)

Init == Frames /\ ~syncing /\ ~lossy /\ result = Nothing

Begin == /\ ~syncing /\ syncing'
         /\ Frames'
         /\ ~lossy' /\ result' = Nothing
         /\ UNCHANGED truth

Resume == /\ ~syncing /\ syncing'
          /\ result = Nothing
          /\ UNCHANGED <<truth, always, ever, lossy, result>>

Lose == /\ syncing /\ lossy'
        /\ UNCHANGED <<truth, always, ever, syncing, result>>

Stop == /\ syncing /\ ~syncing'
        /\ UNCHANGED <<truth, always, ever, lossy, result>>

Complete == /\ syncing /\ ~syncing'
            /\ always.resources \subseteq result'.resources
            /\ lossy \/ always.grants \subseteq result'.grants
            /\ Within(result', ever)
            /\ UNCHANGED <<truth, always, ever, lossy>>

Change == /\ Frames'
          /\ Within(always', always) /\ Within(ever, ever')
          /\ UNCHANGED <<syncing, lossy, result>>

Next == Begin \/ Resume \/ Lose \/ Stop \/ Complete \/ Change

Spec == Init /\ [][Next]_vars

(* So what was published stays, until the next sync, a true account of the *)
(* sync that published it: nothing in it was never there, and of what was  *)
(* there all along only grants that the sync lost are missing.             *)
Published ==
  result # Nothing => /\ always.resources \subseteq result.resources
                      /\ lossy \/ always.grants \subseteq result.grants
                      /\ Within(result, ever)
=============================================================================
