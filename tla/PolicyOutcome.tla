--------------------------- MODULE PolicyOutcome ---------------------------
(***************************************************************************)
(* PolicyBuilder seen by the operator of test/grant-revoke.sh, who grants, *)
(* revokes and syncs, and expects the outcome of a call that succeeded to  *)
(* last until it is called off.                                            *)
(***************************************************************************)
EXTENDS PolicyBuilder

(* A user who does not exist is no user without policies.                  *)
ASSUME AbsentAssumption == \A S \in SUBSET Policies : S # Absent

VARIABLES settled,  \* user, policy -> what the last successful call settled
          expect    \* worker, user -> settled[user][job.policy] when its
                    \* Grants call began, while nothing calls it off

ovars == <<vars, settled, expect>>

Verdict(op) == IF op = "Grant" THEN "granted" ELSE "revoked"
Contradicts(j, verdict) == verdict # Verdict(j.op)

OInit == /\ Init
         /\ settled = [u \in Users |-> [p \in Policies |-> "open"]]
         /\ expect = [w \in Workers |-> [u \in Users |-> "open"]]

(* A call that begins calls off the opposite outcome for its user and      *)
(* policy: from here on it may take effect at any moment.                  *)
OpenFor(j, u, p, verdict) ==
  IF j.op # "Grants" /\ j.user = u /\ j.policy = p /\ Contradicts(j, verdict)
  THEN "open" ELSE verdict

OCall(w) ==
  \E j \in Jobs :
    /\ Claim(w, j) \/ NextGrants(w, j)
    /\ settled' = [u \in Users |-> [p \in Policies |-> OpenFor(j, u, p, settled[u][p])]]
    /\ expect' = [x \in Workers |-> [u \in Users |->
         IF x = w THEN IF j.op = "Grants" THEN settled[u][j.policy] ELSE "open"
         ELSE IF job[x] = Nothing THEN "open"
         ELSE OpenFor(j, u, job[x].policy, expect[x][u])]]

(* A POST that succeeded settles its user and policy, unless another call  *)
(* on the same user is in progress: that one may have read the user before *)
(* this POST and overwrite it.                                             *)
Contested(w) == \E x \in Workers \ {w} : /\ Running(x)
                                         /\ job[x].op # "Grants"
                                         /\ job[x].user = job[w].user

OStep(w) ==
  /\ Step(w)
  /\ settled' = IF pc[w] = "use" /\ pc'[w] = "done"
                THEN [settled EXCEPT ![job[w].user][job[w].policy] =
                        IF Contested(w) THEN "open" ELSE Verdict(job[w].op)]
                ELSE settled
  /\ UNCHANGED expect

OReturn(w) == (Release(w) \/ EndSync(w)) /\ UNCHANGED <<settled, expect>>

OAdminWrite(u) ==
  /\ AdminWrite(u)
  /\ settled' = [settled EXCEPT ![u] = [p \in Policies |-> "open"]]
  /\ expect' = [w \in Workers |-> [expect[w] EXCEPT ![u] = "open"]]

ONext == \/ \E w \in Workers : OCall(w) \/ OStep(w) \/ OReturn(w)
         \/ (Crash \/ \E u \in Users : Expire(u)) /\ UNCHANGED <<settled, expect>>
         \/ \E u \in Users : OAdminWrite(u)

OSpec == OInit /\ [][ONext]_ovars

(* A call in progress goes on: its goroutine is scheduled, and a request   *)
(* without an answer is given up after five minutes (uhttp/client.go 70).  *)
OFairSpec == OSpec /\ \A w \in Workers : WF_ovars(OStep(w))

(* A policy granted with success stays, and one revoked with success stays *)
(* away, until a call or another client of Vault says otherwise, whatever  *)
(* is done about the user's other policies (grant-revoke.sh 24-26, 40-42;  *)
(* policy.go 132-203).                                                     *)
SettledHolds ==
  \A u \in Users, p \in Policies :
    /\ settled[u][p] = "granted" => vault[u] # Absent /\ p \in PoliciesIn(vault[u])
    /\ settled[u][p] = "revoked" /\ vault[u] # Absent => p \notin PoliciesIn(vault[u])

(* A report of the grants of a policy agrees with what was settled before  *)
(* it began (grant-revoke.sh 24-26 "Check for grant before revoking",      *)
(* 40-42 "Check grant was revoked"; policy.go 85-130).                     *)
ReportsAgree ==
  \A w \in Workers : pc[w] = "done" /\ job[w].op = "Grants" =>
    \A u \in Users : /\ expect[w][u] = "granted" => u \in found[w]
                     /\ expect[w][u] = "revoked" => u \notin found[w]

(* PolicyAssignment, seen through the cache and the read-modify-write.     *)
Assigned == [u \in Users |-> IF vault[u] = Absent THEN Absent ELSE PoliciesIn(vault[u])]
Status == [w \in Workers |-> IF Running(w) THEN "pending" ELSE pc[w]]
Reported == [w \in Workers |-> IF pc[w] = "done" THEN found[w] ELSE {}]

Promise == INSTANCE PolicyAssignment WITH
             assigned <- Assigned, status <- Status, report <- Reported

(* In a process per task, with no other writer while it runs, every call   *)
(* is atomic: grants, revocations and reports implement PolicyAssignment.  *)
AtomicCalls == Promise!Spec

(* A call of a builder ends: it returns a result or an error, whatever the *)
(* users listed, the cache and the faults (policy.go 105-122).             *)
CallsEnd == \A w \in Workers : Running(w) ~> ~Running(w)
=============================================================================
