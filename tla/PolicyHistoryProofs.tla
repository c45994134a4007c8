------------------------ MODULE PolicyHistoryProofs ------------------------
(***************************************************************************)
(* What calls running side by side over a cache nothing invalidates still  *)
(* guarantee, for any number of users, policies and workers.               *)
(***************************************************************************)
EXTENDS PolicyHistory, PolicyBuilderProofs

(* What is inductive besides the properties: Vault's lists are in the      *)
(* history; the answer a call has yet to put into the cache is a list of   *)
(* Vault, not the empty list GetUser makes of a missing user; and between  *)
(* two users a Grants call has no list in hand, which would pass for the   *)
(* list of the next.                                                       *)
HeldNow == \A u \in Users : vault[u] \in held[u]
FillWasHeld == \A w \in Workers :
  pc[w] = "fill" /\ view[w] \in Lists => view[w] \in held[at[w]]

BetweenUsers == \A w \in Workers : pc[w] \in {"list", "next"} => view[w] = Nothing

HInv == HeldNow /\ FillWasHeld /\ BetweenUsers /\ ViewsWereHeld /\ ReportsWereTrue

LEMMA HistoryGrows ==
  ASSUME Remember
  PROVE  \A u \in Users : held[u] \subseteq held'[u] /\ vault'[u] \in held'[u]
BY DEF Remember

(* Where the values of a step come from decides whether it keeps the       *)
(* invariant: what is cached, viewed or reported afterwards was before, or *)
(* was held.                                                               *)
LEMMA CacheKept ==
  ASSUME HInv, Remember,
         \A u \in Users : cache'[u] \in Lists => cache'[u] = cache[u] \/ cache'[u] \in held[u]
  PROVE  \A u \in Users : cache'[u] \in Lists => cache'[u] \in held'[u]
BY HistoryGrows DEF HInv, ViewsWereHeld

LEMMA ViewKept ==
  ASSUME HInv, Remember, TypeOK, NEW x \in Workers,
         view'[x] = view[x], at'[x] = at[x], pc'[x] = "fill" => pc[x] = "fill"
  PROVE  /\ pc'[x] = "fill" /\ view'[x] \in Lists => view'[x] \in held'[at'[x]]
         /\ view'[x] \in Lists => /\ at'[x] # Nothing
                                   /\ \E v \in held'[at'[x]] : view'[x] = ListOf(v)
<1>1. at[x] # Nothing => at[x] \in Users
  BY DEF TypeOK, DataTypes
<1>2. pc[x] = "fill" => at[x] \in Users
  BY DEF TypeOK, StageType
<1>3. view[x] \in Lists => at[x] \in Users /\ \E v \in held[at[x]] : view[x] = ListOf(v)
  BY <1>1 DEF HInv, ViewsWereHeld
<1> QED BY <1>1, <1>2, <1>3, HistoryGrows, ValuesAssumption DEF HInv, FillWasHeld

LEMMA ReportKept ==
  ASSUME HInv, Remember, TypeOK, NEW x \in Workers,
         found'[x] = {} \/ (found'[x] = found[x] /\ job'[x] = job[x])
  PROVE  \A u \in found'[x] : \E v \in held'[u] : job'[x].policy \in PoliciesIn(ListOf(v))
<1>1. found[x] \subseteq Users
  BY DEF TypeOK, DataTypes
<1> QED BY <1>1, HistoryGrows DEF HInv, ReportsWereTrue

(* The invariant after a step, worker by worker.                           *)
WorkerInv(x) ==
  /\ pc[x] = "fill" /\ view[x] \in Lists => view[x] \in held[at[x]]
  /\ pc[x] \in {"list", "next"} => view[x] = Nothing
  /\ view[x] \in Lists => at[x] # Nothing /\ \E v \in held[at[x]] : view[x] = ListOf(v)
  /\ \A u \in found[x] : \E v \in held[u] : job[x].policy \in PoliciesIn(ListOf(v))

LEMMA ByWorker ==
  ASSUME Remember, \A x \in Workers : WorkerInv(x)',
         \A u \in Users : cache'[u] \in Lists => cache'[u] \in held'[u]
  PROVE  HInv'
BY HistoryGrows DEF HInv, HeldNow, FillWasHeld, BetweenUsers, ViewsWereHeld, ReportsWereTrue, WorkerInv

LEMMA OthersKept ==
  ASSUME HInv, Remember, TypeOK, NEW x \in Workers,
         view'[x] = view[x], at'[x] = at[x], pc'[x] = pc[x],
         found'[x] = found[x], job'[x] = job[x]
  PROVE  WorkerInv(x)'
BY ViewKept, ReportKept DEF WorkerInv, HInv, BetweenUsers

(* A worker that takes up a call, or is vacated, has nothing in hand.      *)
LEMMA EmptyHanded ==
  ASSUME NEW x \in Workers, pc'[x] # "fill", view'[x] = Nothing, found'[x] = {}
  PROVE  WorkerInv(x)'
BY NoLists DEF WorkerInv

-----------------------------------------------------------------------------
LEMMA CallKeeps ==
  ASSUME HInv, TypeOK, Remember, NEW w \in Workers,
         Call(w) \/ Release(w) \/ EndSync(w)
  PROVE  HInv'
<1>1. PICK stage \in {"list", "failed", "get", "idle"} : pc' = [pc EXCEPT ![w] = stage]
  BY DEF Call, Claim, NextGrants, Begin, FirstStage, Release, EndSync, Goto
<1>2. /\ view' = [view EXCEPT ![w] = Nothing] /\ found' = [found EXCEPT ![w] = {}]
      /\ cache' = EmptyCache \/ cache' = cache
      /\ \A x \in Workers \ {w} : at'[x] = at[x] /\ job'[x] = job[x]
  BY DEF Call, Claim, NextGrants, Begin, Release, EndSync, TypeOK, DataTypes
<1>3. ASSUME NEW x \in Workers PROVE WorkerInv(x)'
  <2>1. CASE x = w
    BY <1>1, <1>2, <2>1, EmptyHanded DEF TypeOK, DataTypes
  <2>2. CASE x # w
    BY <1>1, <1>2, <2>2, OthersKept DEF TypeOK, DataTypes
  <2> QED BY <2>1, <2>2
<1>4. \A u \in Users : cache'[u] \in Lists => cache'[u] = cache[u]
  BY <1>2, NoLists DEF EmptyCache
<1> QED BY <1>3, <1>4, CacheKept, ByWorker

LEMMA StepKeeps ==
  ASSUME HInv, TypeOK, Remember, NEW w \in Workers, Step(w)
  PROVE  HInv'
<1> USE NoLists DEF TypeOK, DataTypes, Goto
<1>1. \A x \in Workers \ {w} : /\ pc'[x] = pc[x] /\ at'[x] = at[x] /\ view'[x] = view[x]
                               /\ found'[x] = found[x] /\ job'[x] = job[x]
  BY DEF Step, ListUsers, NextUser, Report, ReturnGrants, CacheHit, CacheMiss, Return,
         Answered, Fetch, FetchWith, Fill, Decode, Post
<1>2. \A x \in Workers \ {w} : WorkerInv(x)'
  BY <1>1, OthersKept
<1>3. job'[w] = job[w] /\ (~Report(w) => found'[w] = found[w])
  BY DEF Step, ListUsers, NextUser, Report, ReturnGrants, CacheHit, CacheMiss, Return,
         Fetch, Fill, Post
<1>4. CASE ListUsers(w) \/ ReturnGrants(w) \/ CacheMiss(w)
  <2>1. view' = view /\ at' = at /\ cache' = cache /\ found' = found /\ job' = job /\ pc'[w] # "fill"
    BY <1>4 DEF ListUsers, ReturnGrants, CacheMiss
  <2>2. pc'[w] \in {"list", "next"} => pc[w] = "list"
    BY <1>4 DEF ListUsers, ReturnGrants, CacheMiss
  <2>3. pc'[w] \in {"list", "next"} => view'[w] = Nothing
    BY <2>1, <2>2 DEF HInv, BetweenUsers
  <2>4. WorkerInv(w)'
    BY <2>1, <2>3, ViewKept, ReportKept DEF WorkerInv
  <2> QED BY <1>2, <2>1, <2>4, CacheKept, ByWorker
<1>5. CASE NextUser(w)
  <2>1. cache' = cache /\ found' = found /\ pc'[w] # "fill" /\ view'[w] = Nothing
    BY <1>5 DEF NextUser, HInv, BetweenUsers
  <2>2. WorkerInv(w)'
    BY <1>3, <2>1, ReportKept DEF WorkerInv
  <2> QED BY <1>2, <2>1, <2>2, CacheKept, ByWorker
<1>6. CASE Report(w)
  <2>1. /\ cache' = cache /\ view'[w] = Nothing /\ pc'[w] # "fill"
        /\ found'[w] = IF job[w].policy \in PoliciesIn(view[w]) THEN found[w] \cup {at[w]} ELSE found[w]
    BY <1>6 DEF Report
  <2>2. at[w] \in Users /\ \E v \in held[at[w]] : view[w] = ListOf(v)
    BY <1>6 DEF Report, StageType, HInv, ViewsWereHeld
  <2>3. \A u \in found[w] : \E v \in held'[u] : job[w].policy \in PoliciesIn(ListOf(v))
    BY HistoryGrows DEF HInv, ReportsWereTrue
  <2>4. WorkerInv(w)'
    BY <1>3, <2>1, <2>2, <2>3, HistoryGrows DEF WorkerInv
  <2> QED BY <1>2, <2>1, <2>4, CacheKept, ByWorker
<1>7. CASE CacheHit(w)
  <2>1. /\ cache' = cache /\ at' = at /\ view'[w] = cache[at[w]] /\ pc'[w] = "fill"
        /\ at[w] \in Users /\ found' = found
    BY <1>7 DEF CacheHit, Answered, StageType
  <2>2. cache[at[w]] \in Lists => cache[at[w]] \in held'[at[w]] \ {Absent}
    BY <2>1, HistoryGrows DEF HInv, ViewsWereHeld
  <2>3. WorkerInv(w)'
    BY <1>3, <2>1, <2>2, ReportKept, ValuesAssumption DEF WorkerInv, ListOf
  <2> QED BY <1>2, <2>1, <2>3, CacheKept, ByWorker
<1>8. CASE Fetch(w)
  <2>1. PICK r \in {GetReply(at[w])} \cup ReadFaults : FetchWith(w, r)
    BY <1>8 DEF Fetch
  <2>2. at[w] \in Users /\ at' = at /\ cache' = cache /\ found' = found
    BY <1>8 DEF Fetch, StageType
  <2>3. vault[at[w]] \in held'[at[w]]
    BY <2>2, HistoryGrows DEF HInv, HeldNow
  <2>4. CASE Cacheable(r)
    <3>1. /\ pc'[w] = "fill"
          /\ view'[w] \in Lists => vault[at[w]] # Absent /\ view'[w] = vault[at[w]]
      BY <1>8, <2>1, <2>2, <2>4, GetReplies DEF Fetch, FetchWith, Answered
    <3>2. WorkerInv(w)'
      BY <1>3, <2>2, <2>3, <3>1, ReportKept, ValuesAssumption DEF WorkerInv, ListOf
    <3> QED BY <1>2, <2>2, <3>2, CacheKept, ByWorker
  <2>5. CASE ~Cacheable(r) /\ RequestStatus(r) = "OK"
    <3>1. pc'[w] = "use" /\ view'[w] = << >>
      BY <1>8, <2>1, <2>5 DEF Fetch, FetchWith, Return
    <3>2. r = GetReply(at[w]) /\ vault[at[w]] = Absent
      BY <2>1, <2>5 DEF GetReply, ReadFaults, FaultReplies, Cacheable, Reply, RequestStatus, DoStatus
    <3>3. WorkerInv(w)'
      BY <1>3, <2>2, <2>3, <3>1, <3>2, ReportKept, ValuesAssumption DEF WorkerInv, ListOf
    <3> QED BY <1>2, <2>2, <3>3, CacheKept, ByWorker
  <2>6. CASE ~Cacheable(r) /\ RequestStatus(r) # "OK"
    <3>1. pc'[w] = "failed" /\ view' = view
      BY <1>8, <2>1, <2>6 DEF Fetch, FetchWith
    <3>2. WorkerInv(w)'
      BY <1>3, <2>2, <3>1, ViewKept, ReportKept DEF WorkerInv
    <3> QED BY <1>2, <2>2, <3>2, CacheKept, ByWorker
  <2> QED BY <2>4, <2>5, <2>6
<1>9. CASE Fill(w)
  <2>1. /\ at' = at /\ found' = found
        /\ at[w] \in Users /\ (view[w] \in Lists => view[w] \in held[at[w]])
        /\ cache' = cache \/ cache' = [cache EXCEPT ![at[w]] = view[w]]
    BY <1>9 DEF Fill, StageType, HInv, FillWasHeld
  <2>2. pc'[w] \in {"use", "failed"} /\ view'[w] \in {view[w], Nothing}
    BY <1>9 DEF Fill, Decode, Return
  <2>3. CASE view'[w] = view[w]
    <3>1. WorkerInv(w)'
      BY <1>3, <2>1, <2>2, <2>3, ViewKept, ReportKept DEF WorkerInv
    <3>2. \A u \in Users : cache'[u] \in Lists => cache'[u] = cache[u] \/ cache'[u] \in held[u]
      BY <2>1
    <3> QED BY <1>2, <3>1, <3>2, CacheKept, ByWorker
  <2>4. CASE view'[w] = Nothing
    <3>1. WorkerInv(w)'
      BY <1>3, <2>1, <2>2, <2>4, ReportKept DEF WorkerInv
    <3>2. \A u \in Users : cache'[u] \in Lists => cache'[u] = cache[u] \/ cache'[u] \in held[u]
      BY <2>1
    <3> QED BY <1>2, <3>1, <3>2, CacheKept, ByWorker
  <2> QED BY <2>2, <2>3, <2>4
<1>10. CASE Post(w)
  <2>1. view'[w] = Nothing /\ pc'[w] # "fill" /\ cache' = cache /\ found' = found
    BY <1>10 DEF Post
  <2>2. WorkerInv(w)'
    BY <1>3, <2>1, ReportKept DEF WorkerInv
  <2> QED BY <1>2, <2>1, <2>2, CacheKept, ByWorker
<1> QED BY <1>4, <1>5, <1>6, <1>7, <1>8, <1>9, <1>10 DEF Step

(* A crash, an expiry and another writer take nothing from the history,    *)
(* and give no worker a list.                                              *)
LEMMA EnvironmentKeeps ==
  ASSUME HInv, TypeOK, Remember, Environment
  PROVE  HInv'
<1> USE DEF TypeOK, DataTypes
<1>1. CASE Crash
  <2>1. \A x \in Workers : view'[x] = Nothing /\ found'[x] = found[x] /\ job'[x] = job[x]
    BY <1>1 DEF Crash
  <2>2. \A x \in Workers : pc'[x] # "fill"
    BY <1>1 DEF Crash, Running, Ended
  <2>3. \A x \in Workers : WorkerInv(x)'
    BY NoLists, <2>1, <2>2, ReportKept DEF WorkerInv
  <2>4. \A u \in Users : cache'[u] \notin Lists
    BY <1>1, NoLists DEF Crash, EmptyCache
  <2> QED BY <2>3, <2>4, ByWorker
<1>2. CASE \E u \in Users : Expire(u) \/ AdminWrite(u)
  <2>1. pc' = pc /\ view' = view /\ at' = at /\ found' = found /\ job' = job
    BY <1>2 DEF Expire, AdminWrite
  <2>2. \A x \in Workers : WorkerInv(x)'
    BY <2>1, OthersKept
  <2>3. \A u \in Users : cache'[u] \in Lists => cache'[u] = cache[u]
    BY <1>2, NoLists DEF Expire, AdminWrite
  <2> QED BY <2>2, <2>3, CacheKept, ByWorker
<1> QED BY <1>1, <1>2 DEF Environment

LEMMA StutterKeeps ==
  ASSUME HInv, UNCHANGED hvars
  PROVE  HInv'
<1> USE DEF hvars, vars
<1>1. HeldNow' /\ FillWasHeld' /\ BetweenUsers'
  BY DEF HInv, HeldNow, FillWasHeld, BetweenUsers
<1>2. ViewsWereHeld' /\ ReportsWereTrue'
  BY DEF HInv, ViewsWereHeld, ReportsWereTrue
<1> QED BY <1>1, <1>2 DEF HInv

(* PolicyHistory only watches PolicyBuilder.                               *)
LEMMA HistoryWatches == HSpec => Spec
<1>1. HInit => Init
  BY DEF HInit
<1>2. [HNext]_hvars => [Next]_vars
  BY DEF HNext, hvars
<1> QED BY <1>1, <1>2, PTL DEF HSpec, Spec

LEMMA HistoryTypes == HSpec => [](TypeOK /\ NoDuplicates)
BY HistoryWatches, TypeCorrect, NeverDuplicates, PTL

LEMMA Derivation == HSpec => []HInv
<1>1. HInit => HInv
  BY NoLists DEF HInit, Init, EmptyCache, HInv, HeldNow, FillWasHeld, BetweenUsers,
         ViewsWereHeld, ReportsWereTrue
<1>2. TypeOK /\ HInv /\ [HNext]_hvars => HInv'
  BY CallKeeps, StepKeeps, EnvironmentKeeps, StutterKeeps DEF HNext, Next, Worker
<1> QED BY <1>1, <1>2, HistoryTypes, PTL DEF HSpec

(* A list that a call works on, or that the cache holds, is one Vault held *)
(* for that very user, whichever calls filled, cleared or expired the      *)
(* cache in the meantime (client.go 504-526, wrapper.go 296-306).          *)
THEOREM ListsComeFromVault == HSpec => []ViewsWereHeld
<1>1. HInv => ViewsWereHeld
  BY DEF HInv
<1> QED BY <1>1, Derivation, PTL

(* A user that a Grants call reports held the policy at some time          *)
(* (policy.go 105-122): reports may be stale, they invent nothing.         *)
THEOREM ReportsInventNothing == HSpec => []ReportsWereTrue
<1>1. HInv => ReportsWereTrue
  BY DEF HInv
<1> QED BY <1>1, Derivation, PTL

-----------------------------------------------------------------------------
(* Taking out the place of a policy takes out the policy, and nothing      *)
(* else, when the list names it once.                                      *)
LEMMA RemoveIndexEffect ==
  ASSUME NEW s \in Lists, NoDup(s), NEW i \in DOMAIN s
  PROVE  PoliciesIn(RemoveIndex(s, i)) = PoliciesIn(s) \ {s[i]}
<1> DEFINE n == Len(s)
           t == RemoveIndex(s, i)
<1>1. n \in Nat /\ DOMAIN s = 1..n /\ i \in 1..n /\ n - 1 \in Nat
  BY DEF Lists
<1>2. DOMAIN t = 1..(n - 1) /\ \A k \in 1..(n - 1) : t[k] = IF k < i THEN s[k] ELSE s[k + 1]
  BY DEF RemoveIndex
<1>3. \A j, k \in 1..n : s[j] = s[k] => j = k
  BY <1>1 DEF NoDup
<1> HIDE DEF n, t
<1>4. ASSUME NEW k \in 1..(n - 1)
      PROVE  t[k] \in PoliciesIn(s) \ {s[i]}
  <2>1. \E j \in 1..n : j # i /\ t[k] = s[j]
    BY <1>1, <1>2
  <2> QED BY <1>1, <1>3, <2>1 DEF PoliciesIn
<1>5. ASSUME NEW j \in 1..n, s[j] # s[i]
      PROVE  \E k \in 1..(n - 1) : t[k] = s[j]
  <2>1. CASE j < i
    BY <1>1, <1>2, <2>1
  <2>2. CASE j > i
    <3>1. j - 1 \in 1..(n - 1) /\ ~(j - 1 < i) /\ (j - 1) + 1 = j
      BY <1>1, <2>2
    <3> QED BY <1>2, <3>1
  <2> QED BY <1>1, <1>5, <2>1, <2>2
<1>6. PoliciesIn(t) \subseteq PoliciesIn(s) \ {s[i]}
  BY <1>2, <1>4 DEF PoliciesIn
<1>7. PoliciesIn(s) \ {s[i]} \subseteq PoliciesIn(t)
  BY <1>1, <1>2, <1>5 DEF PoliciesIn
<1> QED BY <1>6, <1>7 DEF t

(* What Grant and Revoke post: the list in hand, with one policy more or   *)
(* one less.                                                               *)
LEMMA UpdatedEffect ==
  ASSUME NEW s \in Lists, NoDup(s), NEW j \in Jobs
  PROVE  PoliciesIn(Updated(s, j)) = IF j.op = "Grant" THEN PoliciesIn(s) \cup {j.policy}
                                                       ELSE PoliciesIn(s) \ {j.policy}
<1> DEFINE p == j.policy
<1> HIDE DEF p
<1>1. PoliciesIn(Granted(s, p)) = PoliciesIn(s) \cup {p}
  <2>1. CASE p \in PoliciesIn(s)
    BY <2>1 DEF Granted
  <2>2. CASE p \notin PoliciesIn(s)
    <3> DEFINE t == Append(s, p)
    <3>1. /\ DOMAIN t = 1..(Len(s) + 1)
          /\ DOMAIN s = 1..Len(s) /\ Len(s) \in Nat
          /\ t[Len(s) + 1] = p
          /\ \A k \in 1..Len(s) : t[k] = s[k]
      BY DEF Lists
    <3> HIDE DEF t
    <3>2. PoliciesIn(t) = PoliciesIn(s) \cup {p}
      BY <3>1 DEF PoliciesIn
    <3> QED BY <2>2, <3>2 DEF Granted, t
  <2> QED BY <2>1, <2>2
<1>2. PoliciesIn(Revoked(s, p)) = PoliciesIn(s) \ {p}
  <2>1. CASE p \in PoliciesIn(s)
    BY <2>1, IndexOfFound, RemoveIndexEffect DEF Revoked, Lists
  <2>2. CASE p \notin PoliciesIn(s)
    BY <2>2 DEF Revoked
  <2> QED BY <2>1, <2>2
<1> QED BY <1>1, <1>2 DEF Updated, p

(* Only the POST of a worker writes.                                       *)
LEMMA OnlyPostWrites ==
  ASSUME TypeOK, NEW w \in Workers, Worker(w), NEW u \in Users, vault'[u] # vault[u]
  PROVE  /\ u = at[w] /\ vault[u] # Absent /\ pc[w] = "use" /\ job[w].op # "Grants"
         /\ vault'[u] = Updated(view[w], job[w])
<1>1. vault' # vault
  OBVIOUS
<1>2. Post(w)
  BY <1>1 DEF Worker, Call, Claim, NextGrants, Release, EndSync, Step, ListUsers, NextUser,
              Report, ReturnGrants, CacheHit, CacheMiss, Fetch, Fill
<1> QED BY <1>1, <1>2 DEF Post, Apply, TypeOK, DataTypes

(* What a call writes, it writes to the user it names, who exists, and it  *)
(* is what Vault held for that user at some time with the one policy of    *)
(* the call added or taken out (policy.go 144-159, 181-197).               *)
THEOREM WritesAddOrTakeOne == HSpec => WritesDeriveFromHeld
<1> DEFINE A == \A u \in Users : vault'[u] # vault[u] =>
                  \A w \in Workers : Worker(w) =>
                    /\ job[w].user = u
                    /\ vault[u] # Absent
                    /\ \E v \in held[u] : PoliciesIn(vault'[u]) = Effect(job[w], v)
<1>1. TypeOK /\ NoDuplicates /\ HInv => A
  <2> SUFFICES ASSUME TypeOK, NoDuplicates, HInv, NEW u \in Users, vault'[u] # vault[u],
                      NEW w \in Workers, Worker(w)
               PROVE  /\ job[w].user = u
                      /\ vault[u] # Absent
                      /\ \E v \in held[u] : PoliciesIn(vault'[u]) = Effect(job[w], v)
    OBVIOUS
  <2>1. /\ u = at[w] /\ vault[u] # Absent /\ pc[w] = "use" /\ job[w].op # "Grants"
        /\ vault'[u] = Updated(view[w], job[w])
    BY OnlyPostWrites
  <2>2. job[w] \in Jobs /\ job[w].user = u /\ view[w] \in Lists
    BY <2>1 DEF TypeOK, StageType
  <2>4. PICK v \in held[u] : view[w] = ListOf(v)
    BY <2>1, <2>2 DEF HInv, ViewsWereHeld
  <2>5. PoliciesIn(vault'[u]) = Effect(job[w], v)
    BY <2>1, <2>2, <2>4, UpdatedEffect DEF NoDuplicates, Effect
  <2> QED BY <2>1, <2>2, <2>5
<1>2. TypeOK /\ NoDuplicates /\ HInv /\ [HNext]_hvars => [A]_hvars
  BY <1>1
<1> QED BY <1>2, HistoryTypes, Derivation, PTL DEF HSpec, WritesDeriveFromHeld
=============================================================================
