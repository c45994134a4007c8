--------------------------- MODULE PolicyBuilder ---------------------------
(***************************************************************************)
(* Provisioning and reporting of Vault policies: policyBuilder.Grant,      *)
(* Revoke and Grants (pkg/connector/policy.go) over the client's GetUser,  *)
(* GetUsers and UpdateUserPolicy (pkg/client/client.go), the SDK's HTTP    *)
(* response cache (uhttp), and the task runner that calls them.            *)
(*                                                                         *)
(* Vault's userpass store maps a user to its list of token policies.  A    *)
(* Grant or a Revoke is a read-modify-write of that list over HTTP: a GET, *)
(* which the cache may answer, then a POST of the whole new list, which    *)
(* leaves the cache alone.  Every worker runs one call at a time.          *)
(***************************************************************************)
EXTENDS Sequences, Naturals, FiniteSets, VaultClient

CONSTANTS Users, Policies,
          Workers,         \* the task slots of the runner
          AdminLists,      \* lists of policies other clients of Vault write
          OneShot,         \* TRUE: a process per task; FALSE: daemon mode
          CacheOn,         \* TRUE: memory cache; FALSE: no-op cache
          AdminInterferes, \* TRUE: other clients write while tasks run
          Absent,          \* the user does not exist
          Garbled,         \* a body that is not a user's and does not decode
          Nothing          \* no value (a nil)

NoDup(s) == \A i, j \in DOMAIN s : s[i] = s[j] => i = j
PoliciesIn(s) == {s[i] : i \in DOMAIN s}

ASSUME ModesAssumption ==
  /\ OneShot \in BOOLEAN /\ CacheOn \in BOOLEAN /\ AdminInterferes \in BOOLEAN
  /\ OneShot => \A w, x \in Workers : w = x

ASSUME ValuesAssumption ==
  /\ AdminLists \subseteq Seq(Policies)
  /\ \A s \in AdminLists : NoDup(s)
  /\ Absent \notin Seq(Policies)
  /\ Nothing \notin Seq(Policies) \cup {Absent}
  /\ Garbled \notin Seq(Policies) \cup {Nothing}
  /\ Nothing \notin Users

VARIABLES vault,   \* user -> token_policies held by Vault, or Absent
          cache,   \* user -> body of the cached GET of the user, or Nothing
          pc,      \* worker -> where its call stands
          job,     \* worker -> the call, or Nothing
          at,      \* worker -> the user whose GET is in progress, or Nothing
          view,    \* worker -> the body GetUser has in hand, or Nothing
          todo,    \* worker -> users a Grants call has still to look at
          found    \* worker -> users a Grants call reports so far

vars == <<vault, cache, pc, job, at, view, todo, found>>

(* Calls: user = Nothing in a Grant or a Revoke stands for a principal     *)
(* whose resource type is not "user".                                      *)
Jobs == [op : {"Grant", "Revoke"}, user : Users \cup {Nothing}, policy : Policies]
          \cup [op : {"Grants"}, user : {Nothing}, policy : Policies]

Stages == {"idle", "list", "next", "get", "wire", "fill", "use", "done", "failed"}
Ended == {"done", "failed"}
Running(w) == pc[w] \notin Ended \cup {"idle"}

EmptyCache == [u \in Users |-> Nothing]

-----------------------------------------------------------------------------
(* The lists Grant and Revoke compute.                                     *)

(* slices.IndexFunc, when the policy is there.                             *)
IndexOf(s, p) == CHOOSE i \in DOMAIN s :
                   s[i] = p /\ \A j \in DOMAIN s : j < i => s[j] # p

(* Mutants: the policy taken out is not the one found; the new list holds  *)
(* the new policy only; a policy the user has is added again.              *)
RemoveNextIndex(s, i) == [k \in 1..(Len(s) - 1) |-> IF k <= i THEN s[k] ELSE s[k + 1]]
GrantedAlone(s, p) == <<p>>
GrantedAgain(s, p) == Append(s, p)

RemoveIndex(s, i) == [k \in 1..(Len(s) - 1) |-> IF k < i THEN s[k] ELSE s[k + 1]]

Granted(s, p) == IF p \in PoliciesIn(s) THEN s ELSE Append(s, p)
Revoked(s, p) == IF p \in PoliciesIn(s) THEN RemoveIndex(s, IndexOf(s, p)) ELSE s

Updated(s, j) == IF j.op = "Grant" THEN Granted(s, j.policy) ELSE Revoked(s, j.policy)

-----------------------------------------------------------------------------
Init == /\ vault \in [Users -> AdminLists \cup {Absent}]
        /\ cache = EmptyCache
        /\ pc = [w \in Workers |-> "idle"]
        /\ job = [w \in Workers |-> Nothing]
        /\ at = [w \in Workers |-> Nothing]
        /\ view = [w \in Workers |-> Nothing]
        /\ todo = [w \in Workers |-> {}]
        /\ found = [w \in Workers |-> {}]

Goto(w, stage) == pc' = [pc EXCEPT ![w] = stage]

(* Mutant: the type of the principal is not looked at.                     *)
FirstStageUnchecked(j) == IF j.op = "Grants" THEN "list" ELSE "get"

(* Where a call begins: Grant and Revoke refuse a principal that is not a  *)
(* user before any request is made.                                        *)
FirstStage(j) == CASE j.op = "Grants" -> "list"
                   [] j.op # "Grants" /\ j.user = Nothing -> "failed"
                   [] OTHER -> "get"

Begin(w, j) == /\ job' = [job EXCEPT ![w] = j]
               /\ at' = [at EXCEPT ![w] = j.user]
               /\ view' = [view EXCEPT ![w] = Nothing]
               /\ todo' = [todo EXCEPT ![w] = {}]
               /\ found' = [found EXCEPT ![w] = {}]
               /\ Goto(w, FirstStage(j))

(* Mutant: a new process inherits the cache of the last one.               *)
ClaimKeepingCache(w, j) == /\ pc[w] = "idle"
                           /\ Begin(w, j)
                           /\ UNCHANGED <<vault, cache>>

(* The runner takes a task.  In one-shot mode the task is the first of a   *)
(* new process, whose cache is empty.                                      *)
Claim(w, j) == /\ pc[w] = "idle"
               /\ Begin(w, j)
               /\ cache' = IF OneShot THEN EmptyCache ELSE cache
               /\ UNCHANGED vault

(* A call that returned: the worker goes back to the runner.  A sync that  *)
(* failed ends here too, without clearing the cache.                       *)
Release(w) == /\ pc[w] = "failed" \/ (pc[w] = "done" /\ job[w].op # "Grants")
              /\ Goto(w, "idle")
              /\ job' = [job EXCEPT ![w] = Nothing]
              /\ at' = [at EXCEPT ![w] = Nothing]
              /\ view' = [view EXCEPT ![w] = Nothing]
              /\ todo' = [todo EXCEPT ![w] = {}]
              /\ found' = [found EXCEPT ![w] = {}]
              /\ UNCHANGED <<vault, cache>>

(* The sync task asks for the grants of its next policy, or, when a call   *)
(* failed, repeats it or skips it with a warning; it stays in its process  *)
(* and keeps the cache.                                                    *)
NextGrants(w, j) == /\ pc[w] \in Ended
                    /\ job[w].op = "Grants"
                    /\ j.op = "Grants"
                    /\ Begin(w, j)
                    /\ UNCHANGED <<vault, cache>>

(* The sync completed, its last call skipped perhaps: Cleanup clears the   *)
(* caches and the worker is freed.                                         *)
EndSync(w) == /\ pc[w] \in Ended
              /\ job[w].op = "Grants"
              /\ Goto(w, "idle")
              /\ job' = [job EXCEPT ![w] = Nothing]
              /\ at' = [at EXCEPT ![w] = Nothing]
              /\ view' = [view EXCEPT ![w] = Nothing]
              /\ todo' = [todo EXCEPT ![w] = {}]
              /\ found' = [found EXCEPT ![w] = {}]
              /\ cache' = EmptyCache
              /\ UNCHANGED vault

-----------------------------------------------------------------------------
(* Grants: LIST the users, then GET each of them.                          *)

ListUsers(w) == /\ pc[w] = "list"
                /\ \/ /\ todo' = [todo EXCEPT ![w] = {u \in Users : vault[u] # Absent}]
                      /\ Goto(w, "next")
                   \/ /\ \E r \in ReadFaults : RequestStatus(r) # "OK"
                      /\ Goto(w, "failed")
                      /\ UNCHANGED todo
                /\ UNCHANGED <<vault, cache, job, at, view, found>>

(* Mutant: the loop over the users does not advance.                       *)
NextUserAgain(w) == /\ pc[w] = "next"
                    /\ \E u \in todo[w] : at' = [at EXCEPT ![w] = u]
                    /\ Goto(w, "get")
                    /\ UNCHANGED <<vault, cache, job, view, todo, found>>

NextUser(w) == /\ pc[w] = "next"
               /\ \E u \in todo[w] : /\ at' = [at EXCEPT ![w] = u]
                                     /\ todo' = [todo EXCEPT ![w] = @ \ {u}]
               /\ Goto(w, "get")
               /\ UNCHANGED <<vault, cache, job, view, found>>

(* Mutant: every policy of a user is taken for the one asked about.        *)
ReportAny(w) == /\ pc[w] = "use"
                /\ job[w].op = "Grants"
                /\ found' = [found EXCEPT ![w] = @ \cup {at[w]}]
                /\ view' = [view EXCEPT ![w] = Nothing]
                /\ at' = [at EXCEPT ![w] = Nothing]
                /\ Goto(w, "next")
                /\ UNCHANGED <<vault, cache, job, todo>>

Report(w) == /\ pc[w] = "use"
             /\ job[w].op = "Grants"
             /\ found' = [found EXCEPT ![w] =
                  IF job[w].policy \in PoliciesIn(view[w]) THEN @ \cup {at[w]} ELSE @]
             /\ view' = [view EXCEPT ![w] = Nothing]
             /\ at' = [at EXCEPT ![w] = Nothing]
             /\ Goto(w, "next")
             /\ UNCHANGED <<vault, cache, job, todo>>

(* Mutant: the loop ends one user early.                                   *)
ReturnGrantsEarly(w) == /\ pc[w] = "next"
                        /\ Cardinality(todo[w]) <= 1
                        /\ Goto(w, "done")
                        /\ UNCHANGED <<vault, cache, job, at, view, todo, found>>

ReturnGrants(w) == /\ pc[w] = "next"
                   /\ todo[w] = {}
                   /\ Goto(w, "done")
                   /\ UNCHANGED <<vault, cache, job, at, view, todo, found>>

-----------------------------------------------------------------------------
(* GetUser through BaseHttpClient.Do.                                      *)

Return(w, list) == /\ Goto(w, "use")
                   /\ view' = [view EXCEPT ![w] = list]

(* A 200, which goes into the cache before anything looks at its body.     *)
Answered(w, body) == /\ Goto(w, "fill")
                     /\ view' = [view EXCEPT ![w] = body]

(* An answer from the cache is put there again, as one of Vault's is: its  *)
(* hour begins anew, and it outlives a clearing in between.                *)
CacheHit(w) == /\ pc[w] = "get"
               /\ cache[at[w]] # Nothing
               /\ Answered(w, cache[at[w]])
               /\ UNCHANGED <<vault, cache, job, at, todo, found>>

CacheMiss(w) == /\ pc[w] = "get"
                /\ cache[at[w]] = Nothing
                /\ Goto(w, "wire")
                /\ UNCHANGED <<vault, cache, job, at, view, todo, found>>

(* Vault's answer to a GET of a user.                                      *)
GetReply(u) == IF vault[u] = Absent THEN Reply("404", "noerrors") ELSE Reply("200", "data")

BodyOf(r, u) == IF r.body = "garbled" THEN Garbled ELSE vault[u]

(* Mutant: the error of the request is not looked at.                      *)
FetchWithoutErrors(w, r) ==
  \/ Cacheable(r) /\ Answered(w, BodyOf(r, at[w]))
  \/ ~Cacheable(r) /\ Return(w, << >>)

(* The GET reaches Vault.  A 404 without errors is an empty user to the    *)
(* caller, and is not cached.                                              *)
FetchWith(w, r) ==
  \/ Cacheable(r) /\ Answered(w, BodyOf(r, at[w]))
  \/ /\ ~Cacheable(r) /\ RequestStatus(r) = "OK"
     /\ Return(w, << >>)
  \/ /\ ~Cacheable(r) /\ RequestStatus(r) # "OK"
     /\ Goto(w, "failed")
     /\ UNCHANGED view

Fetch(w) == /\ pc[w] = "wire"
            /\ \E r \in {GetReply(at[w])} \cup ReadFaults : FetchWith(w, r)
            /\ UNCHANGED <<vault, cache, job, at, todo, found>>

(* Mutant: a body that does not decode is a user without policies.         *)
DecodeAnything(w) == Return(w, IF view[w] = Garbled THEN << >> ELSE view[w])

(* GetUser decodes the body it was given.                                  *)
Decode(w) == IF view[w] = Garbled
             THEN Goto(w, "failed") /\ view' = [view EXCEPT ![w] = Nothing]
             ELSE Return(w, view[w])

(* Mutant: the answer is kept although caching is off.                     *)
FillAnyway(w) == /\ pc[w] = "fill"
                 /\ cache' = [cache EXCEPT ![at[w]] = view[w]]
                 /\ Decode(w)
                 /\ UNCHANGED <<vault, job, at, todo, found>>

Fill(w) == /\ pc[w] = "fill"
           /\ cache' = IF CacheOn THEN [cache EXCEPT ![at[w]] = view[w]] ELSE cache
           /\ Decode(w)
           /\ UNCHANGED <<vault, job, at, todo, found>>

-----------------------------------------------------------------------------
(* UpdateUserPolicy: the POST of the new list.                             *)

(* Vault answers 204, or 400 "missing password" for a user it lacks.       *)
PostReply(u) == IF vault[u] = Absent THEN Reply("400", "errors") ELSE Reply("204", "data")

Apply(w) == vault' = IF vault[at[w]] = Absent THEN vault
                     ELSE [vault EXCEPT ![at[w]] = Updated(view[w], job[w])]

Post(w) == /\ pc[w] = "use"
           /\ job[w].op # "Grants"
           /\ \/ /\ Apply(w)
                 /\ Goto(w, IF RequestStatus(PostReply(at[w])) = "OK" THEN "done" ELSE "failed")
              \/ \E r \in FaultReplies :      \* the request or its answer is lost
                   /\ RequestStatus(r) # "OK"
                   /\ Goto(w, "failed")
                   /\ UNCHANGED vault \/ (r.code = "timeout" /\ Apply(w))
           /\ view' = [view EXCEPT ![w] = Nothing]
           /\ UNCHANGED <<cache, job, at, todo, found>>

-----------------------------------------------------------------------------
(* The process dies: every call in progress is lost, the cache with it.    *)
Crash == /\ \E w \in Workers : Running(w)
         /\ pc' = [w \in Workers |-> IF Running(w) THEN "failed" ELSE pc[w]]
         /\ cache' = EmptyCache
         /\ view' = [w \in Workers |-> Nothing]
         /\ UNCHANGED <<vault, job, at, todo, found>>

(* The cache drops an entry: an hour passed, or its size limit is reached. *)
Expire(u) == /\ cache[u] # Nothing
             /\ cache' = [cache EXCEPT ![u] = Nothing]
             /\ UNCHANGED <<vault, pc, job, at, view, todo, found>>

(* Another client of Vault creates, changes or deletes a user.             *)
AdminWrite(u) == /\ AdminInterferes \/ \A w \in Workers : pc[w] = "idle"
                 /\ \E v \in AdminLists \cup {Absent} :
                      vault' = [vault EXCEPT ![u] = v]
                 /\ UNCHANGED <<cache, pc, job, at, view, todo, found>>

Step(w) == \/ ListUsers(w) \/ NextUser(w) \/ Report(w) \/ ReturnGrants(w)
           \/ CacheHit(w) \/ CacheMiss(w) \/ Fetch(w) \/ Fill(w)
           \/ Post(w)

Call(w) == \E j \in Jobs : Claim(w, j) \/ NextGrants(w, j)

Worker(w) == Call(w) \/ Step(w) \/ Release(w) \/ EndSync(w)

Environment == Crash \/ \E u \in Users : Expire(u) \/ AdminWrite(u)

Next == (\E w \in Workers : Worker(w)) \/ Environment

Spec == Init /\ [][Next]_vars

-----------------------------------------------------------------------------
(* The type of every variable: a list of policies of any length may be     *)
(* read, cached or stored ...                                              *)
Lists == Seq(Policies)
DataTypes == /\ vault \in [Users -> Lists \cup {Absent}]
             /\ cache \in [Users -> Lists \cup {Garbled, Nothing}]
             /\ pc \in [Workers -> Stages]
             /\ job \in [Workers -> Jobs \cup {Nothing}]
             /\ at \in [Workers -> Users \cup {Nothing}]
             /\ view \in [Workers -> Lists \cup {Garbled, Nothing}]
             /\ todo \in [Workers -> SUBSET Users]
             /\ found \in [Workers -> SUBSET Users]

(* ... and what a call has in hand at each stage: the user it reads, the   *)
(* list GetUser returned, and, for a Grant or a Revoke, that the user read *)
(* is the principal of the call.                                           *)
StageType(w) ==
  /\ pc[w] # "idle" => job[w] \in Jobs
  /\ pc[w] \in {"list", "next"} => job[w].op = "Grants"
  /\ pc[w] \in {"get", "wire", "fill", "use"} =>
       at[w] \in Users /\ (job[w].op # "Grants" => at[w] = job[w].user)
  /\ pc[w] = "fill" => view[w] \in Lists \cup {Garbled}
  /\ pc[w] = "use" => view[w] \in Lists

TypeOK == DataTypes /\ \A w \in Workers : StageType(w)

(* No list anywhere names a policy twice (policy.go 152-157, 190-195): the *)
(* list Grant posts is built from a GET that may be stale, and Revoke      *)
(* takes out one occurrence only, so a duplicate made by any interleaving  *)
(* of grants would survive a revocation.                                   *)
NoDuplicates == /\ \A u \in Users : vault[u] # Absent => NoDup(vault[u])
                /\ \A u \in Users : cache[u] \in Lists => NoDup(cache[u])
                /\ \A w \in Workers : view[w] \in Lists => NoDup(view[w])

=============================================================================
