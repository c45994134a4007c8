-------------------------- MODULE PolicyAssignment --------------------------
(***************************************************************************)
(* What provisioning promises: the policies of a user are a set, a Grant   *)
(* adds one policy to it, a Revoke takes one out, each in one indivisible  *)
(* step between the call and its result; a report of the grants of a       *)
(* policy lists the users that hold it at one instant; and a call whose    *)
(* principal is not a user fails without effect.  A call that fails for    *)
(* any other reason took effect completely or not at all.                  *)
(***************************************************************************)
CONSTANTS Users, Policies, Workers, Absent, Nothing

VARIABLES assigned,   \* user -> set of policies, or Absent
          status,     \* worker -> "idle", "pending", "done" or "failed"
          job,        \* worker -> the call it serves, or Nothing
          report      \* worker -> the users reported to hold job.policy

vars == <<assigned, status, job, report>>

Jobs == [op : {"Grant", "Revoke"}, user : Users \cup {Nothing}, policy : Policies]
          \cup [op : {"Grants"}, user : {Nothing}, policy : Policies]

Init == /\ assigned \in [Users -> (SUBSET Policies) \cup {Absent}]
        /\ status = [w \in Workers |-> "idle"]
        /\ job = [w \in Workers |-> Nothing]
        /\ report = [w \in Workers |-> {}]

Begin(w) == /\ status[w] # "pending"
            /\ \E j \in Jobs :
                 /\ job' = [job EXCEPT ![w] = j]
                 /\ status' = [status EXCEPT ![w] =
                      IF j.op # "Grants" /\ j.user = Nothing THEN "failed" ELSE "pending"]
            /\ report' = [report EXCEPT ![w] = {}]
            /\ UNCHANGED assigned

Effect(j) == IF j.op = "Grant" THEN assigned[j.user] \cup {j.policy}
                               ELSE assigned[j.user] \ {j.policy}

Assign(j) == /\ j.op # "Grants"
             /\ assigned[j.user] # Absent
             /\ assigned' = [assigned EXCEPT ![j.user] = Effect(j)]

Serve(w) == /\ status[w] = "pending"
            /\ status' = [status EXCEPT ![w] = "done"]
            /\ \/ /\ Assign(job[w])
                  /\ UNCHANGED report
               \/ /\ job[w].op = "Grants"
                  /\ report' = [report EXCEPT ![w] =
                       {u \in Users : assigned[u] # Absent /\ job[w].policy \in assigned[u]}]
                  /\ UNCHANGED assigned
            /\ UNCHANGED job

Fail(w) == /\ status[w] = "pending"
           /\ status' = [status EXCEPT ![w] = "failed"]
           /\ Assign(job[w]) \/ UNCHANGED assigned
           /\ UNCHANGED <<job, report>>

Release(w) == /\ status[w] \in {"done", "failed"}
              /\ status' = [status EXCEPT ![w] = "idle"]
              /\ job' = [job EXCEPT ![w] = Nothing]
              /\ report' = [report EXCEPT ![w] = {}]
              /\ UNCHANGED assigned

OtherWriter(u) == /\ \E v \in (SUBSET Policies) \cup {Absent} :
                       assigned' = [assigned EXCEPT ![u] = v]
                  /\ UNCHANGED <<status, job, report>>

Next == \/ \E w \in Workers : Begin(w) \/ Serve(w) \/ Fail(w) \/ Release(w)
        \/ \E u \in Users : OtherWriter(u)

Spec == Init /\ [][Next]_vars
=============================================================================
