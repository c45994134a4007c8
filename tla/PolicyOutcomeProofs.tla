------------------------ MODULE PolicyOutcomeProofs ------------------------
(***************************************************************************)
(* For any users, policies and workers: what the operator was told of a    *)
(* call lasts, and what a report says agrees with it, in a process per     *)
(* task and in a daemon without the cache; and in a process per task that  *)
(* no other client disturbs, every call is atomic.                         *)
(***************************************************************************)
EXTENDS PolicyOutcome, PolicyBuilderProofs

(* A verdict on a policy, and a list of policies that bears it out.        *)
Verdicts == {"open", "granted", "revoked"}
Agrees(verdict, p, list) == /\ verdict = "granted" => p \in PoliciesIn(list)
                            /\ verdict = "revoked" => p \notin PoliciesIn(list)

(* What GetUser makes of a value of Vault.                                 *)
ListIn(v) == IF v = Absent THEN << >> ELSE v

Changing(w) == Running(w) /\ job[w].op # "Grants"
Reporting(w) == Running(w) /\ job[w].op = "Grants"
Holding(w) == pc[w] \in {"fill", "use"} /\ view[w] # Garbled

(* The process of w looks at its cache, or may yet.                        *)
Busy(w) == Running(w) \/ (pc[w] # "idle" /\ job[w].op = "Grants")

OTypes == /\ settled \in [Users -> [Policies -> Verdicts]]
          /\ expect \in [Workers -> [Users -> Verdicts]]

(* A Grant or a Revoke in progress has called off the opposite verdict,    *)
(* and the list it is about to change bears out the verdicts on the other  *)
(* policies.                                                               *)
ChangeInv(w) ==
  Changing(w) =>
    /\ settled[job[w].user][job[w].policy] \in {"open", Verdict(job[w].op)}
    /\ Holding(w) => \A q \in Policies \ {job[w].policy} : Agrees(settled[at[w]][q], q, view[w])

(* A Grants call in progress: Vault bears out what is expected of it, and  *)
(* so does what it has found and the list it holds, with the users it has  *)
(* still to look at.                                                       *)
Progress(w) ==
  \A u \in Users :
    /\ expect[w][u] = "granted" => \/ pc[w] = "list"
                                   \/ u \in todo[w] \cup found[w]
                                   \/ pc[w] # "next" /\ at[w] = u
    /\ expect[w][u] = "revoked" => u \notin found[w]

ReportInv(w) ==
  Reporting(w) =>
    /\ \A u \in Users : Agrees(expect[w][u], job[w].policy, ListIn(vault[u]))
    /\ Progress(w)
    /\ Holding(w) => Agrees(expect[w][at[w]], job[w].policy, view[w])

(* A Grant or a Revoke x beside a Grants call w does not disappoint it.    *)
PairInv(w, x) ==
  Reporting(w) /\ Changing(x) =>
    /\ job[x].policy = job[w].policy =>
         expect[w][job[x].user] \in {"open", Verdict(job[x].op)}
    /\ job[x].policy # job[w].policy /\ Holding(x) =>
         Agrees(expect[w][at[x]], job[w].policy, view[x])

(* In a process of its own, a call may trust the cache.                    *)
CacheInv(w) ==
  OneShot /\ Busy(w) =>
    /\ \A u \in Users : cache[u] \in Lists => \A q \in Policies : Agrees(settled[u][q], q, cache[u])
    /\ Running(w) /\ Holding(w) => \A q \in Policies : Agrees(settled[at[w]][q], q, view[w])
    /\ Reporting(w) => \A u \in Users : cache[u] \in Lists =>
                         Agrees(expect[w][u], job[w].policy, cache[u])

NoCacheInv == ~CacheOn => cache = EmptyCache

OInv == /\ OTypes /\ SettledHolds /\ ReportsAgree /\ NoCacheInv
        /\ \A w \in Workers : ChangeInv(w) /\ ReportInv(w) /\ CacheInv(w)
        /\ \A w, x \in Workers : PairInv(w, x)

(* In a process per task, while no other client writes, what a call has    *)
(* read is what Vault has, to the end of the call.                         *)
AtomicInv(w) ==
  /\ Busy(w) => \A u \in Users : cache[u] \in Lists => cache[u] = ListIn(vault[u])
  /\ Holding(w) => view[w] = ListIn(vault[at[w]])
  /\ pc[w] # "idle" /\ job[w].op # "Grants" => found[w] = {}
  /\ Reporting(w) => \A u \in Users :
       /\ job[w].policy \in PoliciesIn(ListIn(vault[u])) => \/ pc[w] = "list"
                                                            \/ u \in todo[w] \cup found[w]
                                                            \/ pc[w] # "next" /\ at[w] = u
       /\ u \in found[w] => job[w].policy \in PoliciesIn(ListIn(vault[u]))
AllAtomic == \A w \in Workers : AtomicInv(w)

-----------------------------------------------------------------------------
(* The lists Grant and Revoke post, as sets of policies.                   *)
LEMMA GrantedPolicies ==
  ASSUME NEW S, NEW s \in Seq(S), NEW p \in S
  PROVE  PoliciesIn(Granted(s, p)) = PoliciesIn(s) \cup {p}
<1>1. CASE p \in PoliciesIn(s)
  BY <1>1 DEF Granted
<1>2. CASE p \notin PoliciesIn(s)
  <2> DEFINE t == Append(s, p)
  <2>1. /\ DOMAIN t = 1..(Len(s) + 1) /\ DOMAIN s = 1..Len(s) /\ Len(s) \in Nat
        /\ t[Len(s) + 1] = p /\ \A k \in 1..Len(s) : t[k] = s[k]
    OBVIOUS
  <2> HIDE DEF t
  <2>2. \A k \in DOMAIN t : k = Len(s) + 1 \/ k \in DOMAIN s
    BY <2>1
  <2>3. \A k \in DOMAIN s : k \in DOMAIN t
    BY <2>1
  <2>4. Len(s) + 1 \in DOMAIN t
    BY <2>1
  <2>5. PoliciesIn(t) = PoliciesIn(s) \cup {p}
    BY <2>1, <2>2, <2>3, <2>4 DEF PoliciesIn
  <2> QED BY <1>2, <2>5 DEF Granted, t
<1> QED BY <1>1, <1>2

(* A Revoke takes out one occurrence, which is all there is of the policy. *)
LEMMA RevokedPolicies ==
  ASSUME NEW S, NEW s \in Seq(S), NEW p, NoDup(s)
  PROVE  PoliciesIn(Revoked(s, p)) = PoliciesIn(s) \ {p}
<1>1. CASE p \notin PoliciesIn(s)
  BY <1>1 DEF Revoked
<1>2. CASE p \in PoliciesIn(s)
  <2> DEFINE i == IndexOf(s, p)
             r == RemoveIndex(s, i)
  <2>1. /\ i \in 1..Len(s) /\ s[i] = p /\ Len(s) \in Nat /\ DOMAIN s = 1..Len(s)
    BY <1>2, IndexOfFound
  <2> HIDE DEF i
  <2>2. /\ DOMAIN r = 1..(Len(s) - 1)
        /\ \A k \in DOMAIN r : r[k] = IF k < i THEN s[k] ELSE s[k + 1]
    BY DEF RemoveIndex
  <2> HIDE DEF r
  <2>3. \A k \in 1..Len(s) : s[k] = p => k = i
    BY <2>1 DEF NoDup
  <2>4. ASSUME NEW k \in DOMAIN r  PROVE r[k] \in PoliciesIn(s) \ {p}
    <3>1. CASE k < i
      <4>1. k \in 1..Len(s) /\ k # i
        BY <2>1, <2>2, <3>1
      <4> QED BY <2>1, <2>2, <2>3, <3>1, <4>1 DEF PoliciesIn
    <3>2. CASE ~(k < i)
      <4>1. k + 1 \in 1..Len(s) /\ k + 1 # i
        BY <2>1, <2>2, <3>2
      <4> QED BY <2>1, <2>2, <2>3, <3>2, <4>1 DEF PoliciesIn
    <3> QED BY <3>1, <3>2
  <2>5. ASSUME NEW k \in DOMAIN s, s[k] # p  PROVE s[k] \in PoliciesIn(r)
    <3>1. CASE k < i
      <4>1. k \in DOMAIN r
        BY <2>1, <2>2, <3>1
      <4> QED BY <2>2, <3>1, <4>1 DEF PoliciesIn
    <3>2. CASE k > i
      <4>1. k - 1 \in DOMAIN r /\ ~(k - 1 < i) /\ k - 1 + 1 = k
        BY <2>1, <2>2, <3>2
      <4>2. r[k - 1] = s[k]
        BY <2>2, <4>1
      <4> QED BY <4>1, <4>2 DEF PoliciesIn
    <3> QED BY <2>1, <2>5, <3>1, <3>2
  <2>6. PoliciesIn(r) = PoliciesIn(s) \ {p}
    <3>1. PoliciesIn(r) \subseteq PoliciesIn(s) \ {p}
      BY <2>4 DEF PoliciesIn
    <3>2. PoliciesIn(s) \ {p} \subseteq PoliciesIn(r)
      BY <2>5 DEF PoliciesIn
    <3> QED BY <3>1, <3>2
  <2> QED BY <1>2, <2>6 DEF Revoked, r, i
<1> QED BY <1>1, <1>2

LEMMA UpdatedPolicies ==
  ASSUME NEW s \in Lists, NEW j \in Jobs, NoDup(s)
  PROVE  PoliciesIn(Updated(s, j)) = IF j.op = "Grant" THEN PoliciesIn(s) \cup {j.policy}
                                     ELSE PoliciesIn(s) \ {j.policy}
<1>1. j.policy \in Policies
  BY DEF Jobs
<1>2. s \in Seq(Policies)
  BY DEF Lists
<1>3. PoliciesIn(Granted(s, j.policy)) = PoliciesIn(s) \cup {j.policy}
  BY <1>1, <1>2, GrantedPolicies
<1>4. PoliciesIn(Revoked(s, j.policy)) = PoliciesIn(s) \ {j.policy}
  BY <1>2, RevokedPolicies
<1> QED BY <1>3, <1>4 DEF Updated

(* So the new list bears out the verdict of its call, and what the old one *)
(* bore out of the other policies.                                         *)
LEMMA UpdatedAgrees ==
  ASSUME NEW s \in Lists, NEW j \in Jobs, j.op # "Grants", NoDup(s), NEW q, NEW verdict,
         IF q = j.policy THEN verdict \in {"open", Verdict(j.op)} ELSE Agrees(verdict, q, s)
  PROVE  Agrees(verdict, q, Updated(s, j))
<1>1. j.op \in {"Grant", "Revoke"}
  BY DEF Jobs
<1> QED BY <1>1, UpdatedPolicies DEF Agrees, Verdict

LEMMA EmptyList == << >> \in Lists /\ PoliciesIn(<< >>) = {} /\ NoDup(<< >>)
  BY DEF Lists, PoliciesIn, NoDup

(* The answer of Vault to a GET, when no fault comes between.              *)
LEMMA FetchAnswers ==
  ASSUME NEW w, NEW r \in {GetReply(at[w])} \cup ReadFaults, FetchWith(w, r), TypeOK,
         w \in Workers, pc[w] = "wire"
  PROVE  \/ pc' = [pc EXCEPT ![w] = "failed"] /\ view' = view
         \/ pc' = [pc EXCEPT ![w] = "fill"] /\ view' = [view EXCEPT ![w] = Garbled]
         \/ /\ \E stage \in {"fill", "use"} : pc' = [pc EXCEPT ![w] = stage]
            /\ view' = [view EXCEPT ![w] = ListIn(vault[at[w]])]
<1>1. at[w] \in Users
  BY DEF TypeOK, StageType
<1>2. CASE Cacheable(r)
  BY <1>1, <1>2, GetReplies DEF FetchWith, Answered, Goto, ListIn
<1>3. CASE ~Cacheable(r) /\ RequestStatus(r) = "OK"
  <2>1. r = GetReply(at[w]) /\ vault[at[w]] = Absent
    BY <1>3 DEF ReadFaults, FaultReplies, GetReply, Reply, RequestStatus, DoStatus, Cacheable
  <2> QED BY <1>3, <2>1 DEF FetchWith, Return, Goto, ListIn
<1>4. CASE ~Cacheable(r) /\ RequestStatus(r) # "OK"
  BY <1>4 DEF FetchWith, Goto
<1> QED BY <1>2, <1>3, <1>4

-----------------------------------------------------------------------------
(* A list that w may go by, for the user whose GET is in progress.         *)
Sound(w, list) ==
  /\ Changing(w) =>
       /\ \A q \in Policies \ {job[w].policy} : Agrees(settled[at[w]][q], q, list)
       /\ \A x \in Workers : Reporting(x) /\ job[w].policy # job[x].policy =>
                               Agrees(expect[x][at[w]], job[x].policy, list)
  /\ Reporting(w) => Agrees(expect[w][at[w]], job[w].policy, list)
  /\ OneShot => \A q \in Policies : Agrees(settled[at[w]][q], q, list)

LEMMA Stages4 ==
  ASSUME TypeOK, NEW w \in Workers
  PROVE  /\ Changing(w) => /\ pc[w] \in {"get", "wire", "fill", "use"}
                           /\ at[w] \in Users /\ at[w] = job[w].user
         /\ Running(w) => job[w] \in Jobs /\ job[w].policy \in Policies
         /\ pc[w] \in {"get", "wire", "fill", "use"} => Running(w) /\ at[w] \in Users
         /\ Holding(w) => Running(w) /\ at[w] \in Users /\ view[w] \in Lists
  BY DEF TypeOK, DataTypes, StageType, Changing, Running, Stages, Ended, Holding, Jobs

LEMMA VaultIsSound ==
  ASSUME TypeOK, OInv, NEW w \in Workers, pc[w] \in {"get", "wire", "fill", "use"}
  PROVE  Sound(w, ListIn(vault[at[w]]))
<1>1. at[w] \in Users
  BY Stages4
<1>2. \A u \in Users, p \in Policies : Agrees(settled[u][p], p, ListIn(vault[u]))
  BY EmptyList DEF OInv, SettledHolds, Agrees, ListIn
<1>3. \A x \in Workers : Reporting(x) => Agrees(expect[x][at[w]], job[x].policy, ListIn(vault[at[w]]))
  BY <1>1 DEF OInv, ReportInv
<1> QED BY <1>1, <1>2, <1>3 DEF Sound

LEMMA HeldIsSound ==
  ASSUME TypeOK, OInv, NEW w \in Workers, Holding(w)
  PROVE  Sound(w, view[w])
<1>1. Running(w)
  BY Stages4
<1>2. Changing(w) => \A q \in Policies \ {job[w].policy} : Agrees(settled[at[w]][q], q, view[w])
  BY DEF OInv, ChangeInv
<1>3. Changing(w) => \A x \in Workers : Reporting(x) /\ job[w].policy # job[x].policy =>
                       Agrees(expect[x][at[w]], job[x].policy, view[w])
  BY DEF OInv, PairInv
<1>4. Reporting(w) => Agrees(expect[w][at[w]], job[w].policy, view[w])
  BY DEF OInv, ReportInv
<1>5. OneShot => \A q \in Policies : Agrees(settled[at[w]][q], q, view[w])
  BY <1>1 DEF OInv, CacheInv, Busy
<1> QED BY <1>2, <1>3, <1>4, <1>5 DEF Sound

(* The cache is of use to one process alone.                               *)
LEMMA CachedIsSound ==
  ASSUME TypeOK, OInv, OneShot \/ ~CacheOn, NEW w \in Workers,
         pc[w] \in {"get", "wire", "fill", "use"}, cache[at[w]] \in Lists
  PROVE  Sound(w, cache[at[w]]) /\ OneShot
<1>1. Running(w) /\ at[w] \in Users
  BY Stages4
<1>2. CacheOn
  BY <1>1, NoLists DEF OInv, NoCacheInv, EmptyCache
<1>3. \A x \in Workers : x = w
  BY <1>2, ModesAssumption
<1>4. /\ \A q \in Policies : Agrees(settled[at[w]][q], q, cache[at[w]])
      /\ Reporting(w) => Agrees(expect[w][at[w]], job[w].policy, cache[at[w]])
  BY <1>1, <1>2 DEF OInv, CacheInv, Busy
<1>5. Changing(w) => ~Reporting(w)
  BY DEF Changing, Reporting
<1> QED BY <1>2, <1>3, <1>4, <1>5 DEF Sound

(* The report of w, were it done.                                          *)
ReportAgrees(w) ==
  pc[w] = "done" /\ job[w].op = "Grants" =>
    \A u \in Users : /\ expect[w][u] = "granted" => u \in found[w]
                     /\ expect[w][u] = "revoked" => u \notin found[w]

(* A step of a call that neither settles nor writes anything.              *)
OthersStay(w) ==
  /\ UNCHANGED <<vault, settled, expect, job>>
  /\ \A x \in Workers \ {w} : /\ pc'[x] = pc[x] /\ at'[x] = at[x] /\ view'[x] = view[x]
                              /\ todo'[x] = todo[x] /\ found'[x] = found[x]

LEMMA QuietStep ==
  ASSUME TypeOK, TypeOK', OInv, OneShot \/ ~CacheOn, NEW w \in Workers, Running(w), OthersStay(w),
         Holding(w)' => at'[w] = at[w] /\ Sound(w, view'[w]),
         \A u \in Users : cache'[u] \in Lists =>
           cache'[u] = cache[u] \/ (u = at[w] /\ Sound(w, cache'[u])),
         NoCacheInv', Reporting(w)' => Progress(w)', ReportAgrees(w)'
  PROVE  OInv'
<1>1. UNCHANGED <<vault, settled, expect, job>>
  BY DEF OthersStay
<1>2. \A x \in Workers \ {w} : /\ pc'[x] = pc[x] /\ at'[x] = at[x] /\ view'[x] = view[x]
                               /\ todo'[x] = todo[x] /\ found'[x] = found[x]
  BY DEF OthersStay
<1>3. OTypes' /\ SettledHolds'
  BY <1>1 DEF OInv, OTypes, SettledHolds
<1>4. \A x \in Workers : /\ Changing(x)' => Changing(x)
                         /\ Reporting(x)' => Reporting(x)
  BY <1>1, <1>2 DEF Changing, Reporting, Running
<1>5. \A x \in Workers \ {w} : Holding(x)' => Holding(x)
  BY <1>2 DEF Holding
<1>6. ReportsAgree'
  <2>1. ASSUME NEW x \in Workers  PROVE ReportAgrees(x)'
    <3>1. CASE x = w
      BY <3>1
    <3>2. CASE x # w
      BY <1>1, <1>2, <3>2 DEF OInv, ReportsAgree, ReportAgrees
    <3> QED BY <3>1, <3>2
  <2> QED BY <2>1 DEF ReportsAgree, ReportAgrees
<1>7. ASSUME NEW x \in Workers  PROVE ChangeInv(x)'
  <2>1. CASE x = w
    BY <1>1, <1>4, <2>1 DEF OInv, ChangeInv, Sound
  <2>2. CASE x # w
    BY <1>1, <1>2, <1>4, <1>5, <2>2 DEF OInv, ChangeInv
  <2> QED BY <2>1, <2>2
<1>8. ASSUME NEW x \in Workers  PROVE ReportInv(x)'
  <2>1. CASE x = w
    BY <1>1, <1>4, <2>1 DEF OInv, ReportInv, Sound
  <2>2. CASE x # w
    BY <1>1, <1>2, <1>4, <1>5, <2>2 DEF OInv, ReportInv, Progress
  <2> QED BY <2>1, <2>2
<1>9. ASSUME NEW x \in Workers  PROVE CacheInv(x)'
  <2> SUFFICES ASSUME OneShot  PROVE CacheInv(x)'
    BY DEF CacheInv
  <2>1. x = w
    BY ModesAssumption
  <2>2. /\ \A u \in Users : cache[u] \in Lists => \A q \in Policies : Agrees(settled[u][q], q, cache[u])
        /\ Reporting(w) => \A u \in Users : cache[u] \in Lists =>
                             Agrees(expect[w][u], job[w].policy, cache[u])
    BY DEF OInv, CacheInv, Busy
  <2>3. \A u \in Users : cache'[u] \in Lists =>
          /\ \A q \in Policies : Agrees(settled[u][q], q, cache'[u])
          /\ Reporting(w) => Agrees(expect[w][u], job[w].policy, cache'[u])
    BY <2>2 DEF Sound
  <2>4. Holding(w)' => \A q \in Policies : Agrees(settled[at'[w]][q], q, view'[w])
    BY DEF Sound
  <2> QED BY <1>1, <1>4, <2>1, <2>3, <2>4 DEF CacheInv
<1>10. ASSUME NEW x \in Workers, NEW y \in Workers  PROVE PairInv(x, y)'
  <2>1. CASE y = w
    <3>1. Holding(w)' /\ Changing(w) /\ Reporting(x) /\ job[w].policy # job[x].policy =>
            at'[w] = at[w] /\ Agrees(expect[x][at[w]], job[x].policy, view'[w])
      BY DEF Sound
    <3> QED BY <1>1, <1>4, <2>1, <3>1 DEF OInv, PairInv
  <2>2. CASE y # w
    BY <1>1, <1>2, <1>4, <1>5, <2>2 DEF OInv, PairInv
  <2> QED BY <2>1, <2>2
<1> QED BY <1>3, <1>6, <1>7, <1>8, <1>9, <1>10 DEF OInv

(* The steps of a Grants call that make no request of a single user.       *)
LEMMA LoopSteps ==
  ASSUME TypeOK, TypeOK', OInv, OneShot \/ ~CacheOn, NEW w \in Workers,
         ListUsers(w) \/ NextUser(w) \/ ReturnGrants(w) \/ Report(w), UNCHANGED <<settled, expect>>
  PROVE  OInv'
<1> USE DEF TypeOK, DataTypes, Goto
<1>1. /\ Running(w) /\ OthersStay(w) /\ cache' = cache /\ job' = job
      /\ pc'[w] \in {"next", "get", "done", "failed"} /\ ~Holding(w)'
  BY DEF ListUsers, NextUser, ReturnGrants, Report, Running, Ended, OthersStay, Holding
<1>2. /\ pc[w] \in {"list", "next", "use"} /\ job[w].op = "Grants" /\ Progress(w)
      /\ \A u \in Users : Agrees(expect[w][u], job[w].policy, ListIn(vault[u]))
      /\ Holding(w) => Agrees(expect[w][at[w]], job[w].policy, view[w])
  BY <1>1 DEF ListUsers, NextUser, ReturnGrants, Report, StageType, OInv, ReportInv, Reporting
<1>3. NoCacheInv'
  BY <1>1 DEF OInv, NoCacheInv
<1>4. (Reporting(w)' => Progress(w)') /\ ReportAgrees(w)'
  <2>1. CASE ListUsers(w)
    <3>1. pc'[w] \in {"next", "failed"} /\ found' = found /\ expect' = expect
          /\ (pc'[w] = "next" => todo'[w] = {u \in Users : vault[u] # Absent})
      BY <2>1 DEF ListUsers
    <3>2. \A u \in Users : expect[w][u] = "granted" => vault[u] # Absent
      BY <1>2, EmptyList DEF Agrees, ListIn
    <3> QED BY <1>2, <3>1, <3>2 DEF Reporting, Running, Ended, Progress, ReportAgrees
  <2>2. CASE NextUser(w)
    <3>1. /\ pc[w] = "next" /\ pc'[w] = "get" /\ found' = found /\ expect' = expect
          /\ \E u \in todo[w] : at'[w] = u /\ todo'[w] = todo[w] \ {u}
      BY <2>2 DEF NextUser
    <3> QED BY <1>2, <3>1 DEF Progress, ReportAgrees
  <2>3. CASE ReturnGrants(w)
    <3>1. pc[w] = "next" /\ pc'[w] = "done" /\ found' = found /\ expect' = expect /\ todo[w] = {}
      BY <2>3 DEF ReturnGrants
    <3> QED BY <1>2, <3>1 DEF Progress, ReportAgrees, Reporting, Running, Ended
  <2>4. CASE Report(w)
    <3>1. /\ pc[w] = "use" /\ pc'[w] = "next" /\ todo' = todo /\ expect' = expect
          /\ found'[w] = IF job[w].policy \in PoliciesIn(view[w]) THEN found[w] \cup {at[w]} ELSE found[w]
      BY <2>4 DEF Report
    <3>2. view[w] \in Lists /\ view[w] # Garbled
      BY <3>1, NoLists DEF StageType
    <3>3. Agrees(expect[w][at[w]], job[w].policy, view[w])
      BY <1>2, <3>1, <3>2 DEF Holding
    <3> QED BY <1>2, <3>1, <3>3 DEF Progress, ReportAgrees, Agrees
  <2> QED BY <2>1, <2>2, <2>3, <2>4
<1> HIDE DEF TypeOK, DataTypes, Goto
<1> QED BY <1>1, <1>3, <1>4, QuietStep

(* The steps of GetUser.                                                   *)
LEMMA GetUserSteps ==
  ASSUME TypeOK, TypeOK', OInv, OneShot \/ ~CacheOn, NEW w \in Workers,
         CacheHit(w) \/ CacheMiss(w) \/ Fetch(w) \/ Fill(w), UNCHANGED <<settled, expect>>
  PROVE  OInv'
<1>1. pc[w] \in {"get", "wire", "fill"} /\ pc[w] \in {"get", "wire", "fill", "use"}
  BY DEF CacheHit, CacheMiss, Fetch, Fill
<1>2. Running(w) /\ at[w] \in Users
  BY <1>1, Stages4
<1>3. /\ UNCHANGED <<vault, job, at, todo, found>> /\ at'[w] = at[w]
      /\ \A x \in Workers \ {w} : pc'[x] = pc[x] /\ view'[x] = view[x]
      /\ pc'[w] \in {"wire", "fill", "use", "failed"}
  <2>1. CASE CacheHit(w) \/ CacheMiss(w)
    BY <2>1 DEF CacheHit, CacheMiss, Answered, Goto, TypeOK, DataTypes
  <2>2. CASE Fetch(w)
    <3>1. PICK r \in {GetReply(at[w])} \cup ReadFaults : FetchWith(w, r)
      BY <2>2 DEF Fetch
    <3> QED BY <2>2, <3>1 DEF Fetch, FetchWith, Answered, Return, Goto, TypeOK, DataTypes
  <2>3. CASE Fill(w)
    BY <2>3 DEF Fill, Decode, Return, Goto, TypeOK, DataTypes
  <2> QED BY <2>1, <2>2, <2>3
<1>4. OthersStay(w)
  BY <1>3 DEF OthersStay
<1>5. Holding(w)' => Sound(w, view'[w])
  <2>1. CASE CacheHit(w)
    <3>1. view'[w] = cache[at[w]] /\ cache[at[w]] # Nothing
      BY <2>1 DEF CacheHit, Answered, TypeOK, DataTypes
    <3>2. CASE cache[at[w]] = Garbled
      BY <3>1, <3>2 DEF Holding
    <3>3. CASE cache[at[w]] \in Lists
      BY <1>1, <3>1, <3>3, CachedIsSound
    <3> QED BY <1>2, <3>1, <3>2, <3>3 DEF TypeOK, DataTypes
  <2>2. CASE CacheMiss(w)
    BY <2>2 DEF CacheMiss, Goto, Holding, TypeOK, DataTypes
  <2>3. CASE Fetch(w)
    <3>1. PICK r \in {GetReply(at[w])} \cup ReadFaults : FetchWith(w, r)
      BY <2>3 DEF Fetch
    <3>2. pc[w] = "wire"
      BY <2>3 DEF Fetch
    <3>3. \/ pc' = [pc EXCEPT ![w] = "failed"] /\ view' = view
          \/ pc' = [pc EXCEPT ![w] = "fill"] /\ view' = [view EXCEPT ![w] = Garbled]
          \/ view' = [view EXCEPT ![w] = ListIn(vault[at[w]])]
      BY <3>1, <3>2, FetchAnswers
    <3>4. pc'[w] = "failed" \/ view'[w] = Garbled \/ view'[w] = ListIn(vault[at[w]])
      BY <3>3 DEF TypeOK, DataTypes
    <3>5. Sound(w, ListIn(vault[at[w]]))
      BY <1>1, VaultIsSound
    <3> QED BY <3>4, <3>5 DEF Holding
  <2>4. CASE Fill(w)
    <3>1. Holding(w)' => Holding(w) /\ view'[w] = view[w]
      BY <2>4 DEF Fill, Decode, Return, Goto, Holding, TypeOK, DataTypes
    <3> QED BY <3>1, HeldIsSound
  <2> QED BY <2>1, <2>2, <2>3, <2>4
<1>6. /\ NoCacheInv'
      /\ \A u \in Users : cache'[u] \in Lists =>
           cache'[u] = cache[u] \/ (u = at[w] /\ Sound(w, cache'[u]))
  <2>1. CASE cache' = cache
    BY <2>1 DEF OInv, NoCacheInv
  <2>2. CASE Fill(w) /\ CacheOn
    <3>1. pc[w] = "fill" /\ cache' = [cache EXCEPT ![at[w]] = view[w]]
      BY <2>2 DEF Fill
    <3>2. view[w] \in Lists => Sound(w, view[w])
      BY <3>1, NoLists, HeldIsSound DEF Holding
    <3> QED BY <2>2, <3>1, <3>2 DEF NoCacheInv, TypeOK, DataTypes
  <2> QED BY <2>1, <2>2 DEF CacheHit, CacheMiss, Fetch, Fill
<1>7. Reporting(w)' => Progress(w)'
  <2>1. Reporting(w)' => Reporting(w)
    BY <1>2, <1>3 DEF Reporting
  <2>2. Reporting(w) => Progress(w)
    BY DEF OInv, ReportInv
  <2>3. expect' = expect /\ pc[w] \notin {"list", "next"} /\ pc'[w] \notin {"list", "next"}
    BY <1>1, <1>3
  <2> QED BY <1>3, <2>1, <2>2, <2>3 DEF Progress
<1>8. ReportAgrees(w)'
  BY <1>3 DEF ReportAgrees
<1> QED BY <1>2, <1>3, <1>4, <1>5, <1>6, <1>7, <1>8, QuietStep

(* What a POST does to Vault: the list goes in, or nothing changes, and    *)
(* only a list that went in is answered with success.                      *)
LEMMA PostWrites ==
  ASSUME TypeOK, NEW w \in Workers, Post(w)
  PROVE  LET u == at[w]  new == Updated(view[w], job[w])
         IN  /\ u \in Users /\ u = job[w].user /\ job[w] \in Jobs /\ Changing(w) /\ Holding(w)
             /\ view[w] \in Lists /\ new \in Lists /\ pc[w] = "use"
             /\ vault' = vault \/ (vault[u] # Absent /\ vault' = [vault EXCEPT ![u] = new])
             /\ \/ pc' = [pc EXCEPT ![w] = "failed"]
                \/ /\ pc' = [pc EXCEPT ![w] = "done"]
                   /\ vault[u] # Absent /\ vault' = [vault EXCEPT ![u] = new]
<1> DEFINE u == at[w]
           j == job[w]
           new == Updated(view[w], job[w])
<1>1. /\ pc[w] = "use" /\ j.op # "Grants" /\ u \in Users /\ u = j.user /\ j \in Jobs
      /\ view[w] \in Lists /\ view[w] # Garbled
  BY NoLists DEF Post, TypeOK, StageType
<1>2. Changing(w) /\ Holding(w)
  BY <1>1 DEF Changing, Holding, Running, Ended
<1>3. new \in Lists
  BY <1>1, UpdatedType
<1>4. /\ vault' = vault \/ (vault[u] # Absent /\ vault' = [vault EXCEPT ![u] = new])
      /\ pc' = [pc EXCEPT ![w] = "done"] \/ pc' = [pc EXCEPT ![w] = "failed"]
      /\ pc' = [pc EXCEPT ![w] = "done"] =>
           vault[u] # Absent /\ vault' = [vault EXCEPT ![u] = new]
  <2>1. ASSUME Apply(w)
        PROVE  vault' = vault \/ (vault[u] # Absent /\ vault' = [vault EXCEPT ![u] = new])
    BY <2>1 DEF Apply
  <2>2. CASE /\ Apply(w)
             /\ Goto(w, IF RequestStatus(PostReply(at[w])) = "OK" THEN "done" ELSE "failed")
    <3>1. CASE vault[u] = Absent
      <4>1. RequestStatus(PostReply(at[w])) # "OK"
        BY <3>1 DEF PostReply, Reply, RequestStatus, DoStatus
      <4>2. pc' = [pc EXCEPT ![w] = "failed"]
        BY <2>2, <4>1 DEF Goto
      <4>3. pc' # [pc EXCEPT ![w] = "done"]
        BY <4>2 DEF TypeOK, DataTypes
      <4> QED BY <2>1, <2>2, <4>2, <4>3
    <3>2. CASE vault[u] # Absent
      <4>1. vault' = [vault EXCEPT ![u] = new]
        BY <2>2, <3>2 DEF Apply
      <4> QED BY <2>2, <3>2, <4>1 DEF Goto
    <3> QED BY <3>1, <3>2
  <2>3. CASE /\ pc' = [pc EXCEPT ![w] = "failed"]
             /\ UNCHANGED vault \/ Apply(w)
    <3>1. pc' # [pc EXCEPT ![w] = "done"]
      BY <2>3 DEF TypeOK, DataTypes
    <3> QED BY <2>1, <2>3, <3>1
  <2> QED BY <2>2, <2>3 DEF Post, Goto
<1> QED BY <1>1, <1>2, <1>3, <1>4

(* ... and to the verdicts: the list it writes bears out everything that   *)
(* is settled of its user.                                                 *)
LEMMA PostEffect ==
  ASSUME TypeOK, TypeOK', NoDuplicates, OInv, NEW w \in Workers, Post(w), OStep(w)
  PROVE  LET u == at[w]  new == Updated(view[w], job[w])
         IN  /\ u \in Users /\ u = job[w].user /\ job[w] \in Jobs /\ Changing(w) /\ Holding(w)
             /\ new \in Lists
             /\ vault' = vault \/ (vault[u] # Absent /\ vault' = [vault EXCEPT ![u] = new])
             /\ \/ pc'[w] = "failed" /\ settled' = settled
                \/ /\ pc'[w] = "done" /\ vault[u] # Absent /\ vault' = [vault EXCEPT ![u] = new]
                   /\ settled' = [settled EXCEPT ![u][job[w].policy] =
                                    IF Contested(w) THEN "open" ELSE Verdict(job[w].op)]
             /\ \A q \in Policies : Agrees(settled'[u][q], q, new)
<1> DEFINE u == at[w]
           j == job[w]
           new == Updated(view[w], job[w])
<1>1. /\ pc[w] = "use" /\ j.op # "Grants" /\ u \in Users /\ u = j.user /\ j \in Jobs
      /\ view[w] \in Lists
  BY PostWrites DEF Changing
<1>2. Changing(w) /\ Holding(w)
  BY PostWrites
<1>3. new \in Lists
  BY PostWrites
<1>4. /\ vault' = vault \/ (vault[u] # Absent /\ vault' = [vault EXCEPT ![u] = new])
      /\ \/ pc' = [pc EXCEPT ![w] = "failed"]
         \/ /\ pc' = [pc EXCEPT ![w] = "done"]
            /\ vault[u] # Absent /\ vault' = [vault EXCEPT ![u] = new]
  BY PostWrites
<1>5. settled \in [Users -> [Policies -> Verdicts]] /\ j.policy \in Policies /\ j.op \in {"Grant", "Revoke"}
  BY <1>1 DEF OInv, OTypes, Jobs
<1>6. \/ pc'[w] = "failed" /\ settled' = settled
      \/ /\ pc'[w] = "done" /\ vault[u] # Absent /\ vault' = [vault EXCEPT ![u] = new]
         /\ settled' = [settled EXCEPT ![u][j.policy] = IF Contested(w) THEN "open" ELSE Verdict(j.op)]
  BY <1>1, <1>4 DEF OStep, TypeOK, DataTypes
<1>7. \A q \in Policies : Agrees(settled'[u][q], q, new)
  <2> SUFFICES ASSUME NEW q \in Policies  PROVE Agrees(settled'[u][q], q, new)
    OBVIOUS
  <2>1. NoDup(view[w])
    BY <1>1 DEF NoDuplicates
  <2>2. /\ settled[u][j.policy] \in {"open", Verdict(j.op)}
        /\ q # j.policy => Agrees(settled[u][q], q, view[w])
    BY <1>1, <1>2 DEF OInv, ChangeInv
  <2>3. settled'[u][q] = settled[u][q] \/ (q = j.policy /\ settled'[u][q] \in {"open", Verdict(j.op)})
    BY <1>1, <1>5, <1>6
  <2>4. IF q = j.policy THEN settled'[u][q] \in {"open", Verdict(j.op)}
        ELSE Agrees(settled'[u][q], q, view[w])
    BY <2>2, <2>3
  <2> QED BY <1>1, <2>1, <2>4, UpdatedAgrees
<1> QED BY <1>1, <1>2, <1>3, <1>4, <1>6, <1>7, <1>5 DEF TypeOK, DataTypes

LEMMA PostStep ==
  ASSUME TypeOK, TypeOK', NoDuplicates, OInv, OneShot \/ ~CacheOn, NEW w \in Workers,
         Post(w), OStep(w)
  PROVE  OInv'
<1> DEFINE u == at[w]
           j == job[w]
           new == Updated(view[w], job[w])
<1>1. /\ u \in Users /\ u = j.user /\ j \in Jobs /\ Changing(w) /\ Holding(w) /\ new \in Lists
      /\ j.policy \in Policies /\ j.op \in {"Grant", "Revoke"}
  BY PostEffect DEF Jobs, Changing
<1>2. vault' = vault \/ (vault[u] # Absent /\ vault' = [vault EXCEPT ![u] = new])
  BY PostEffect
<1>3. \/ pc'[w] = "failed" /\ settled' = settled
      \/ /\ pc'[w] = "done" /\ vault[u] # Absent /\ vault' = [vault EXCEPT ![u] = new]
         /\ settled' = [settled EXCEPT ![u][j.policy] = IF Contested(w) THEN "open" ELSE Verdict(j.op)]
  BY PostEffect
<1>4. \A q \in Policies : Agrees(settled'[u][q], q, new)
  BY PostEffect
<1>5. UNCHANGED <<cache, job, at, todo, found, expect>>
  BY DEF Post, OStep
<1>6. \A x \in Workers \ {w} : pc'[x] = pc[x] /\ view'[x] = view[x]
  BY DEF Post, Goto, TypeOK, DataTypes
<1> HIDE DEF new
<1>7. ~Running(w)' /\ ~Changing(w)' /\ ~Reporting(w)' /\ ~Busy(w)'
  BY <1>1, <1>3, <1>5 DEF Running, Changing, Reporting, Busy, Ended
<1>8. OTypes'
  <2>1. settled \in [Users -> [Policies -> Verdicts]] /\ expect' = expect
        /\ expect \in [Workers -> [Users -> Verdicts]]
    BY <1>5 DEF OInv, OTypes
  <2>2. (IF Contested(w) THEN "open" ELSE Verdict(j.op)) \in Verdicts
    BY DEF Verdicts, Verdict
  <2> DEFINE verdict == IF Contested(w) THEN "open" ELSE Verdict(j.op)
  <2> HIDE DEF verdict, u, j
  <2>3. [settled EXCEPT ![u][j.policy] = verdict] \in [Users -> [Policies -> Verdicts]]
    BY <1>1, <2>1, <2>2 DEF verdict
  <2>4. settled' = settled \/ settled' = [settled EXCEPT ![u][j.policy] = verdict]
    BY <1>3 DEF verdict
  <2>5. settled' \in [Users -> [Policies -> Verdicts]]
    BY <2>1, <2>3, <2>4
  <2> QED BY <2>1, <2>5 DEF OTypes
<1>9. SettledHolds'
  <2>1. \A v \in Users \ {u} : vault'[v] = vault[v] /\ settled'[v] = settled[v]
    BY <1>1, <1>2, <1>3 DEF TypeOK, DataTypes, OInv, OTypes
  <2>2. CASE vault'[u] = new
    <3>1. new # Absent
      BY <1>1, NoLists
    <3> QED BY <1>4, <2>1, <2>2, <3>1 DEF OInv, SettledHolds, Agrees
  <2>3. CASE vault' = vault /\ settled' = settled
    BY <2>3 DEF OInv, SettledHolds
  <2> QED BY <1>1, <1>2, <1>3, <2>2, <2>3 DEF TypeOK, DataTypes
<1>10. ReportsAgree'
  <2> SUFFICES ASSUME NEW x \in Workers  PROVE ReportAgrees(x)'
    BY DEF ReportsAgree, ReportAgrees
  <2>1. CASE x = w
    BY <1>1, <1>5, <2>1 DEF ReportAgrees
  <2>2. CASE x # w
    BY <1>5, <1>6, <2>2 DEF OInv, ReportsAgree, ReportAgrees
  <2> QED BY <2>1, <2>2
<1>11. ASSUME NEW x \in Workers, x # w
       PROVE  /\ Running(x)' = Running(x) /\ Changing(x)' = Changing(x) /\ Reporting(x)' = Reporting(x)
              /\ Holding(x)' = Holding(x)
  BY <1>5, <1>6, <1>11 DEF Running, Changing, Reporting, Holding
<1>12. ASSUME NEW x \in Workers  PROVE ChangeInv(x)'
  <2>1. CASE x = w
    BY <1>7, <2>1 DEF ChangeInv
  <2>2. CASE x # w
    <3> SUFFICES ASSUME Changing(x)  PROVE ChangeInv(x)'
      BY <1>11, <2>2 DEF ChangeInv
    <3>1. at[x] = job[x].user /\ at[x] \in Users /\ job[x].policy \in Policies
      BY Stages4 DEF Changing
    <3>2. at[x] = u => Contested(w)
      BY <1>1, <2>2, <3>1 DEF Contested, Changing
    <3>3. \A q \in Policies : settled'[at[x]][q] \in {"open", settled[at[x]][q]}
      BY <1>1, <1>3, <3>1, <3>2 DEF OInv, OTypes
    <3>4. /\ settled[at[x]][job[x].policy] \in {"open", Verdict(job[x].op)}
          /\ Holding(x) => \A q \in Policies \ {job[x].policy} : Agrees(settled[at[x]][q], q, view[x])
      BY <3>1 DEF OInv, ChangeInv
    <3>5. settled'[at[x]][job[x].policy] \in {"open", Verdict(job[x].op)}
      BY <3>1, <3>3, <3>4
    <3>6. Holding(x) => \A q \in Policies \ {job[x].policy} : Agrees(settled'[at[x]][q], q, view[x])
      BY <3>3, <3>4 DEF Agrees
    <3> QED BY <1>5, <1>6, <1>11, <2>2, <3>1, <3>5, <3>6 DEF ChangeInv
  <2> QED BY <2>1, <2>2
<1>13. ASSUME NEW x \in Workers  PROVE ReportInv(x)'
  <2>1. CASE x = w
    BY <1>7, <2>1 DEF ReportInv
  <2>2. CASE x # w
    <3> SUFFICES ASSUME Reporting(x)  PROVE ReportInv(x)'
      BY <1>11, <2>2 DEF ReportInv
    <3> DEFINE p == job[x].policy
    <3>1. /\ \A v \in Users : Agrees(expect[x][v], p, ListIn(vault[v]))
          /\ Progress(x)
          /\ Holding(x) => Agrees(expect[x][at[x]], p, view[x])
      BY DEF OInv, ReportInv
    <3>2. Agrees(expect[x][u], p, new)
      <4>1. NoDup(view[w]) /\ view[w] \in Lists
        BY <1>1, Stages4 DEF NoDuplicates
      <4>2. /\ j.policy = p => expect[x][u] \in {"open", Verdict(j.op)}
            /\ j.policy # p => Agrees(expect[x][u], p, view[w])
        BY <1>1 DEF OInv, PairInv
      <4>3. j.op # "Grants"
        BY <1>1
      <4> QED BY <1>1, <4>1, <4>2, <4>3, UpdatedAgrees DEF new
    <3>3. ASSUME NEW v \in Users  PROVE Agrees(expect[x][v], p, ListIn(vault'[v]))
      <4>1. CASE vault'[v] = vault[v]
        BY <3>1, <4>1
      <4>2. CASE v = u /\ vault'[v] = new
        BY <1>1, <3>2, <4>2, NoLists DEF ListIn
      <4> QED BY <1>1, <1>2, <4>1, <4>2 DEF TypeOK, DataTypes
    <3>4. Progress(x)'
      BY <1>5, <1>6, <2>2, <3>1 DEF Progress
    <3> QED BY <1>5, <1>6, <1>11, <2>2, <3>1, <3>3, <3>4 DEF ReportInv
  <2> QED BY <2>1, <2>2
<1>14. ASSUME NEW x \in Workers  PROVE CacheInv(x)'
  BY <1>7, ModesAssumption DEF CacheInv
<1>15. ASSUME NEW x \in Workers, NEW y \in Workers  PROVE PairInv(x, y)'
  <2>1. CASE x = w \/ y = w
    BY <1>7, <2>1 DEF PairInv
  <2>2. CASE x # w /\ y # w
    BY <1>5, <1>6, <1>11, <2>2 DEF OInv, PairInv
  <2> QED BY <2>1, <2>2
<1>16. NoCacheInv'
  BY <1>5 DEF OInv, NoCacheInv
<1> QED BY <1>8, <1>9, <1>10, <1>12, <1>13, <1>14, <1>15, <1>16 DEF OInv

-----------------------------------------------------------------------------
(* A verdict that is called off asks nothing of a list any more.           *)
LEMMA Weaker ==
  ASSUME NEW verdict, NEW p, NEW list, NEW left \in {"open", verdict}, Agrees(verdict, p, list)
  PROVE  Agrees(left, p, list)
BY DEF Agrees

(* What the beginning of a call leaves of the verdicts.                    *)
LEMMA CallOpens ==
  ASSUME TypeOK, OInv, NEW w \in Workers, NEW j \in Jobs,
         settled' = [u \in Users |-> [p \in Policies |-> OpenFor(j, u, p, settled[u][p])]],
         expect' = [x \in Workers |-> [u \in Users |->
           IF x = w THEN IF j.op = "Grants" THEN settled[u][j.policy] ELSE "open"
           ELSE IF job[x] = Nothing THEN "open"
           ELSE OpenFor(j, u, job[x].policy, expect[x][u])]]
  PROVE  /\ OTypes'
         /\ \A u \in Users, p \in Policies : settled'[u][p] \in {"open", settled[u][p]}
         /\ \A x \in Workers \ {w}, u \in Users : expect'[x][u] \in {"open", expect[x][u]}
         /\ j.op = "Grants" => \A u \in Users : expect'[w][u] = settled[u][j.policy]
         /\ j.op # "Grants" /\ j.user \in Users =>
              /\ settled'[j.user][j.policy] \in {"open", Verdict(j.op)}
              /\ \A x \in Workers \ {w} : job[x].policy = j.policy =>
                   expect'[x][j.user] \in {"open", Verdict(j.op)}
<1>1. settled \in [Users -> [Policies -> Verdicts]] /\ expect \in [Workers -> [Users -> Verdicts]]
  BY DEF OInv, OTypes
<1>2. \A u, p, verdict : OpenFor(j, u, p, verdict) \in {"open", verdict}
  BY DEF OpenFor
<1>3. j.op # "Grants" => \A verdict : OpenFor(j, j.user, j.policy, verdict) \in {"open", Verdict(j.op)}
  BY DEF OpenFor, Contradicts
<1>4. "open" \in Verdicts /\ j.policy \in Policies
  BY DEF Verdicts, Jobs
<1>5. \A u \in Users, p \in Policies : settled'[u][p] = OpenFor(j, u, p, settled[u][p])
  OBVIOUS
<1>6. \A u \in Users, p \in Policies : settled'[u][p] \in {"open", settled[u][p]}
  BY <1>2, <1>5
<1>7. \A u \in Users, p \in Policies : settled'[u][p] \in Verdicts
  BY <1>1, <1>4, <1>6
<1>8. settled' \in [Users -> [Policies -> Verdicts]]
  <2>1. \A u \in Users : [p \in Policies |-> OpenFor(j, u, p, settled[u][p])] \in [Policies -> Verdicts]
    BY <1>5, <1>7
  <2> QED BY <2>1
<1>9. ASSUME NEW x \in Workers \ {w}, NEW u \in Users
      PROVE  /\ expect'[x][u] \in {"open", expect[x][u]}
             /\ j.op # "Grants" /\ u = j.user /\ job[x].policy = j.policy =>
                  expect'[x][u] \in {"open", Verdict(j.op)}
  <2>1. expect'[x][u] = IF job[x] = Nothing THEN "open" ELSE OpenFor(j, u, job[x].policy, expect[x][u])
    OBVIOUS
  <2> QED BY <1>2, <1>3, <2>1
<1>10. ASSUME NEW u \in Users
       PROVE  expect'[w][u] = IF j.op = "Grants" THEN settled[u][j.policy] ELSE "open"
  OBVIOUS
<1>11. expect' \in [Workers -> [Users -> Verdicts]]
  <2>1. ASSUME NEW x \in Workers, NEW u \in Users  PROVE expect'[x][u] \in Verdicts
    <3>1. settled[u][j.policy] \in Verdicts /\ expect[x][u] \in Verdicts
      BY <1>1, <1>4
    <3>2. CASE x = w
      BY <1>4, <1>10, <3>1, <3>2
    <3>3. CASE x # w
      BY <1>4, <1>9, <3>1, <3>3
    <3> QED BY <3>2, <3>3
  <2> DEFINE e(x, u) == IF x = w THEN IF j.op = "Grants" THEN settled[u][j.policy] ELSE "open"
                        ELSE IF job[x] = Nothing THEN "open"
                        ELSE OpenFor(j, u, job[x].policy, expect[x][u])
  <2>2. \A x \in Workers, u \in Users : e(x, u) \in Verdicts
    BY <2>1
  <2>3. expect' = [x \in Workers |-> [u \in Users |-> e(x, u)]]
    OBVIOUS
  <2> HIDE DEF e
  <2> QED BY <2>2, <2>3
<1>12. j.op # "Grants" /\ j.user \in Users => settled'[j.user][j.policy] \in {"open", Verdict(j.op)}
  BY <1>3, <1>4, <1>5
<1> QED BY <1>6, <1>8, <1>9, <1>10, <1>11, <1>12 DEF OTypes

LEMMA CallBegins ==
  ASSUME TypeOK, TypeOK', OInv, OneShot \/ ~CacheOn, NEW w \in Workers, OCall(w)
  PROVE  OInv'
<1>1. PICK j \in Jobs :
        /\ Claim(w, j) \/ NextGrants(w, j)
        /\ settled' = [u \in Users |-> [p \in Policies |-> OpenFor(j, u, p, settled[u][p])]]
        /\ expect' = [x \in Workers |-> [u \in Users |->
             IF x = w THEN IF j.op = "Grants" THEN settled[u][j.policy] ELSE "open"
             ELSE IF job[x] = Nothing THEN "open"
             ELSE OpenFor(j, u, job[x].policy, expect[x][u])]]
  BY DEF OCall
<1>2. /\ OTypes'
      /\ \A u \in Users, p \in Policies : settled'[u][p] \in {"open", settled[u][p]}
      /\ \A x \in Workers \ {w}, u \in Users : expect'[x][u] \in {"open", expect[x][u]}
      /\ j.op = "Grants" => \A u \in Users : expect'[w][u] = settled[u][j.policy]
  BY <1>1, CallOpens
<1>3. j.op # "Grants" /\ j.user \in Users =>
        /\ settled'[j.user][j.policy] \in {"open", Verdict(j.op)}
        /\ \A x \in Workers \ {w} : job[x].policy = j.policy =>
             expect'[x][j.user] \in {"open", Verdict(j.op)}
  BY <1>1, CallOpens
<1>4. /\ vault' = vault /\ Begin(w, j)
      /\ \/ cache' = EmptyCache
         \/ cache' = cache /\ (OneShot => pc[w] # "idle" /\ job[w].op = "Grants")
  BY <1>1 DEF Claim, NextGrants, Ended
<1>5. /\ pc'[w] = FirstStage(j) /\ job'[w] = j /\ found'[w] = {}
      /\ \A x \in Workers \ {w} : /\ pc'[x] = pc[x] /\ at'[x] = at[x] /\ view'[x] = view[x]
                                  /\ todo'[x] = todo[x] /\ found'[x] = found[x] /\ job'[x] = job[x]
  BY <1>4 DEF Begin, Goto, TypeOK, DataTypes
<1>6. /\ j.op = "Grants" => pc'[w] = "list"
      /\ j.op # "Grants" => pc'[w] \in {"get", "failed"} /\ (pc'[w] = "get" => j.user \in Users)
      /\ pc'[w] \in {"list", "get", "failed"} /\ j.policy \in Policies
  BY <1>5 DEF FirstStage, Jobs
<1>7. ~Holding(w)' /\ (Changing(w)' => j.op # "Grants" /\ j.user \in Users) /\ (Reporting(w)' => j.op = "Grants")
  BY <1>5, <1>6 DEF Holding, Changing, Reporting, Running, Ended
<1> HIDE <1>1
<1>8. ASSUME NEW x \in Workers, x # w
      PROVE  /\ Running(x)' = Running(x) /\ Changing(x)' = Changing(x) /\ Reporting(x)' = Reporting(x)
             /\ Holding(x)' = Holding(x)
  BY <1>5, <1>8 DEF Running, Changing, Reporting, Holding
<1>9. SettledHolds'
  BY <1>2, <1>4 DEF OInv, SettledHolds
<1>10. ReportsAgree'
  <2> SUFFICES ASSUME NEW x \in Workers  PROVE ReportAgrees(x)'
    BY DEF ReportsAgree, ReportAgrees
  <2>1. CASE x = w
    BY <1>6, <2>1 DEF ReportAgrees
  <2>2. CASE x # w
    BY <1>2, <1>5, <2>2 DEF OInv, ReportsAgree, ReportAgrees
  <2> QED BY <2>1, <2>2
<1>11. ASSUME NEW x \in Workers  PROVE ChangeInv(x)'
  <2>1. CASE x = w
    BY <1>3, <1>5, <1>7, <2>1 DEF ChangeInv
  <2>2. CASE x # w
    <3> SUFFICES ASSUME Changing(x)  PROVE ChangeInv(x)'
      BY <1>8, <2>2 DEF ChangeInv
    <3>1. at[x] = job[x].user /\ at[x] \in Users /\ job[x].policy \in Policies
      BY Stages4 DEF Changing
    <3>2. /\ settled[at[x]][job[x].policy] \in {"open", Verdict(job[x].op)}
          /\ Holding(x) => \A q \in Policies \ {job[x].policy} : Agrees(settled[at[x]][q], q, view[x])
      BY <3>1 DEF OInv, ChangeInv
    <3>3. settled'[at[x]][job[x].policy] \in {"open", Verdict(job[x].op)}
      BY <1>2, <3>1, <3>2
    <3>4. Holding(x) => \A q \in Policies \ {job[x].policy} : Agrees(settled'[at[x]][q], q, view[x])
      BY <1>2, <3>1, <3>2, Weaker
    <3> QED BY <1>5, <1>8, <2>2, <3>1, <3>3, <3>4 DEF ChangeInv
  <2> QED BY <2>1, <2>2
<1>12. ASSUME NEW x \in Workers  PROVE ReportInv(x)'
  <2>1. CASE x = w /\ Reporting(w)'
    <3>1. j.op = "Grants" /\ pc'[w] = "list"
      BY <1>6, <1>7, <2>1
    <3>2. \A u \in Users : Agrees(settled[u][j.policy], j.policy, ListIn(vault[u]))
      BY <1>6, EmptyList DEF OInv, SettledHolds, Agrees, ListIn
    <3>3. Progress(w)'
      BY <1>5, <3>1 DEF Progress
    <3> QED BY <1>2, <1>4, <1>5, <1>7, <2>1, <3>1, <3>2, <3>3 DEF ReportInv
  <2>2. CASE x # w /\ Reporting(x)
    <3>1. /\ \A u \in Users : Agrees(expect[x][u], job[x].policy, ListIn(vault[u]))
          /\ Progress(x)
          /\ Holding(x) => at[x] \in Users /\ Agrees(expect[x][at[x]], job[x].policy, view[x])
      BY <2>2, Stages4 DEF OInv, ReportInv
    <3>2. \A u \in Users : Agrees(expect'[x][u], job[x].policy, ListIn(vault[u]))
      BY <1>2, <2>2, <3>1, Weaker
    <3>3. Holding(x) => Agrees(expect'[x][at[x]], job[x].policy, view[x])
      BY <1>2, <2>2, <3>1, Weaker
    <3>4. Progress(x)'
      BY <1>2, <1>5, <2>2, <3>1 DEF Progress
    <3> QED BY <1>4, <1>5, <1>8, <2>2, <3>2, <3>3, <3>4 DEF ReportInv
  <2> QED BY <1>8, <2>1, <2>2 DEF ReportInv
<1>13. ASSUME NEW x \in Workers  PROVE CacheInv(x)'
  <2> SUFFICES ASSUME OneShot  PROVE CacheInv(x)'
    BY DEF CacheInv
  <2>1. x = w
    BY ModesAssumption
  <2>2. CASE cache' = EmptyCache
    <3>1. \A u \in Users : cache'[u] \notin Lists
      BY <2>2, NoLists DEF EmptyCache
    <3> QED BY <1>7, <2>1, <3>1 DEF CacheInv
  <2>3. CASE cache' = cache /\ pc[w] # "idle" /\ job[w].op = "Grants"
    <3>1. \A u \in Users : cache[u] \in Lists => \A q \in Policies : Agrees(settled[u][q], q, cache[u])
      BY <2>3 DEF OInv, CacheInv, Busy
    <3>2. \A u \in Users : cache[u] \in Lists => \A q \in Policies : Agrees(settled'[u][q], q, cache[u])
      BY <1>2, <3>1, Weaker
    <3>3. Reporting(w)' => \A u \in Users : cache[u] \in Lists =>
                             Agrees(expect'[w][u], job'[w].policy, cache[u])
      BY <1>2, <1>5, <1>6, <1>7, <3>1
    <3> QED BY <1>7, <2>1, <2>3, <3>2, <3>3 DEF CacheInv
  <2> QED BY <1>4, <2>2, <2>3
<1>14. ASSUME NEW x \in Workers, NEW y \in Workers  PROVE PairInv(x, y)'
  <2> SUFFICES ASSUME Reporting(x)', Changing(y)'  PROVE PairInv(x, y)'
    BY DEF PairInv
  <2>1. CASE x = w /\ y = w
    BY <1>7, <2>1
  <2>2. CASE x = w /\ y # w
    <3>1. Changing(y) /\ j.op = "Grants"
      BY <1>7, <1>8, <2>2
    <3>2. at[y] = job[y].user /\ at[y] \in Users /\ job[y].policy \in Policies
      BY <3>1, Stages4 DEF Changing
    <3>3. /\ settled[at[y]][job[y].policy] \in {"open", Verdict(job[y].op)}
          /\ Holding(y) => \A q \in Policies \ {job[y].policy} : Agrees(settled[at[y]][q], q, view[y])
      BY <3>1, <3>2 DEF OInv, ChangeInv
    <3> QED BY <1>2, <1>5, <1>6, <1>8, <2>2, <3>1, <3>2, <3>3 DEF PairInv
  <2>3. CASE x # w /\ y = w
    BY <1>3, <1>5, <1>7, <2>3 DEF PairInv
  <2>4. CASE x # w /\ y # w
    <3>1. Reporting(x) /\ Changing(y) /\ Holding(y)' = Holding(y)
      BY <1>8, <2>4
    <3>2. at[y] = job[y].user /\ at[y] \in Users
      BY <3>1, Stages4
    <3>3. /\ job[y].policy = job[x].policy => expect[x][at[y]] \in {"open", Verdict(job[y].op)}
          /\ job[y].policy # job[x].policy /\ Holding(y) => Agrees(expect[x][at[y]], job[x].policy, view[y])
      BY <3>1, <3>2 DEF OInv, PairInv
    <3>4. expect'[x][at[y]] \in {"open", expect[x][at[y]]}
      BY <1>2, <2>4, <3>2
    <3>5. job[y].policy # job[x].policy /\ Holding(y) => Agrees(expect'[x][at[y]], job[x].policy, view[y])
      BY <3>3, <3>4, Weaker
    <3>6. job[y].policy = job[x].policy => expect'[x][at[y]] \in {"open", Verdict(job[y].op)}
      BY <3>3, <3>4
    <3> QED BY <1>5, <2>4, <3>1, <3>2, <3>5, <3>6 DEF PairInv
  <2> QED BY <2>1, <2>2, <2>3, <2>4
<1>15. NoCacheInv'
  BY <1>4 DEF OInv, NoCacheInv
<1> QED BY <1>2, <1>9, <1>10, <1>11, <1>12, <1>13, <1>14, <1>15 DEF OInv

(* A call that returns, and the death of the process.                      *)
LEMMA CallReturns ==
  ASSUME TypeOK, TypeOK', OInv, NEW w \in Workers, OReturn(w)
  PROVE  OInv'
<1>1. /\ UNCHANGED <<vault, settled, expect>>
      /\ cache' \in {cache, EmptyCache}
      /\ pc'[w] = "idle"
      /\ \A x \in Workers \ {w} : /\ pc'[x] = pc[x] /\ at'[x] = at[x] /\ view'[x] = view[x]
                                  /\ todo'[x] = todo[x] /\ found'[x] = found[x] /\ job'[x] = job[x]
  BY DEF OReturn, Release, EndSync, Goto, TypeOK, DataTypes
<1>2. ~Changing(w)' /\ ~Reporting(w)' /\ ~Busy(w)'
  BY <1>1 DEF Changing, Reporting, Busy, Running
<1>3. ASSUME NEW x \in Workers, x # w
      PROVE  /\ Running(x)' = Running(x) /\ Changing(x)' = Changing(x) /\ Reporting(x)' = Reporting(x)
             /\ Holding(x)' = Holding(x)
  BY <1>1, <1>3 DEF Running, Changing, Reporting, Holding
<1>4. OTypes' /\ SettledHolds' /\ NoCacheInv'
  BY <1>1 DEF OInv, OTypes, SettledHolds, NoCacheInv
<1>5. ReportsAgree'
  <2> SUFFICES ASSUME NEW x \in Workers  PROVE ReportAgrees(x)'
    BY DEF ReportsAgree, ReportAgrees
  <2> QED BY <1>1 DEF OInv, ReportsAgree, ReportAgrees
<1>6. ASSUME NEW x \in Workers  PROVE ChangeInv(x)' /\ ReportInv(x)' /\ CacheInv(x)'
  <2>1. CacheInv(x)'
    BY <1>2, ModesAssumption DEF CacheInv
  <2>2. CASE x = w
    BY <1>2, <2>1, <2>2 DEF ChangeInv, ReportInv
  <2>3. CASE x # w
    BY <1>1, <1>3, <2>1, <2>3 DEF OInv, ChangeInv, ReportInv, Progress
  <2> QED BY <2>2, <2>3
<1>7. ASSUME NEW x \in Workers, NEW y \in Workers  PROVE PairInv(x, y)'
  BY <1>1, <1>2, <1>3 DEF OInv, PairInv
<1> QED BY <1>4, <1>5, <1>6, <1>7 DEF OInv

LEMMA ProcessDies ==
  ASSUME TypeOK, TypeOK', OInv, Crash, UNCHANGED <<settled, expect>>
  PROVE  OInv'
<1>1. /\ UNCHANGED <<vault, settled, expect, job, found>> /\ cache' = EmptyCache
      /\ \A x \in Workers : ~Running(x)' /\ (pc'[x] = "done" => pc[x] = "done")
  BY DEF Crash, Running, Ended
<1>2. \A x \in Workers : ~Changing(x)' /\ ~Reporting(x)'
  BY <1>1 DEF Changing, Reporting
<1>3. \A u \in Users : cache'[u] \notin Lists
  BY <1>1, NoLists DEF EmptyCache
<1>4. OTypes' /\ SettledHolds' /\ NoCacheInv'
  BY <1>1 DEF OInv, OTypes, SettledHolds, NoCacheInv
<1>5. ReportsAgree'
  BY <1>1 DEF OInv, ReportsAgree
<1>6. ASSUME NEW x \in Workers  PROVE CacheInv(x)'
  BY <1>1, <1>2, <1>3 DEF CacheInv
<1> QED BY <1>2, <1>4, <1>5, <1>6 DEF OInv, ChangeInv, ReportInv, PairInv

LEMMA EntryExpires ==
  ASSUME TypeOK, OInv, NEW u \in Users, Expire(u), UNCHANGED <<settled, expect>>
  PROVE  OInv'
<1>1. /\ UNCHANGED <<vault, settled, expect, pc, job, at, view, todo, found>>
      /\ cache[u] # Nothing /\ cache' = [cache EXCEPT ![u] = Nothing]
  BY DEF Expire
<1>2. \A v \in Users : cache'[v] \in Lists => cache'[v] = cache[v]
  BY <1>1, NoLists DEF TypeOK, DataTypes
<1>3. NoCacheInv'
  BY <1>1 DEF OInv, NoCacheInv, EmptyCache
<1>4. OTypes' /\ SettledHolds' /\ ReportsAgree'
  BY <1>1 DEF OInv, OTypes, SettledHolds, ReportsAgree
<1>5. ASSUME NEW x \in Workers  PROVE CacheInv(x)'
  BY <1>1, <1>2 DEF OInv, CacheInv, Busy, Reporting, Running, Holding
<1>6. ASSUME NEW x \in Workers  PROVE ChangeInv(x)' /\ ReportInv(x)'
  BY <1>1 DEF OInv, ChangeInv, ReportInv, Progress, Changing, Reporting, Running, Holding
<1>7. ASSUME NEW x \in Workers, NEW y \in Workers  PROVE PairInv(x, y)'
  BY <1>1 DEF OInv, PairInv, Changing, Reporting, Running, Holding
<1> QED BY <1>3, <1>4, <1>5, <1>6, <1>7 DEF OInv

(* Another client's write calls off everything settled of its user.        *)
LEMMA OtherWrites ==
  ASSUME TypeOK, OInv, NEW u \in Users, OAdminWrite(u)
  PROVE  OInv'
<1>1. /\ UNCHANGED <<cache, pc, job, at, view, todo, found>>
      /\ \A v \in Users \ {u} : vault'[v] = vault[v]
  BY DEF OAdminWrite, AdminWrite, TypeOK, DataTypes
<1>2. settled \in [Users -> [Policies -> Verdicts]] /\ expect \in [Workers -> [Users -> Verdicts]]
      /\ "open" \in Verdicts
  BY DEF OInv, OTypes, Verdicts
<1>3. /\ settled' \in [Users -> [Policies -> Verdicts]]
      /\ \A v \in Users, q \in Policies : settled'[v][q] = IF v = u THEN "open" ELSE settled[v][q]
  <2>1. [p \in Policies |-> "open"] \in [Policies -> Verdicts]
    BY <1>2
  <2> QED BY <1>2, <2>1 DEF OAdminWrite
<1>4. /\ expect' \in [Workers -> [Users -> Verdicts]]
      /\ \A x \in Workers, v \in Users : expect'[x][v] = IF v = u THEN "open" ELSE expect[x][v]
  <2>1. \A x \in Workers : [expect[x] EXCEPT ![u] = "open"] \in [Users -> Verdicts]
    BY <1>2
  <2> QED BY <1>2, <2>1 DEF OAdminWrite
<1>5. /\ \A v \in Users, q \in Policies : settled'[v][q] \in {"open", settled[v][q]}
      /\ \A x \in Workers, v \in Users : expect'[x][v] \in {"open", expect[x][v]}
  BY <1>3, <1>4
<1>6. \A x \in Workers : /\ Running(x)' = Running(x) /\ Changing(x)' = Changing(x)
                         /\ Reporting(x)' = Reporting(x) /\ Holding(x)' = Holding(x) /\ Busy(x)' = Busy(x)
  BY <1>1 DEF Running, Changing, Reporting, Holding, Busy
<1>7. OTypes' /\ NoCacheInv'
  BY <1>1, <1>3, <1>4 DEF OInv, OTypes, NoCacheInv
<1>8. SettledHolds'
  BY <1>1, <1>3 DEF OInv, SettledHolds
<1>9. ReportsAgree'
  BY <1>1, <1>5 DEF OInv, ReportsAgree
<1>10. ASSUME NEW x \in Workers  PROVE ChangeInv(x)'
  <2> SUFFICES ASSUME Changing(x)  PROVE ChangeInv(x)'
    BY <1>6 DEF ChangeInv
  <2>1. at[x] = job[x].user /\ at[x] \in Users /\ job[x].policy \in Policies
    BY Stages4 DEF Changing
  <2>2. /\ settled[at[x]][job[x].policy] \in {"open", Verdict(job[x].op)}
        /\ Holding(x) => \A q \in Policies \ {job[x].policy} : Agrees(settled[at[x]][q], q, view[x])
    BY <2>1 DEF OInv, ChangeInv
  <2>3. settled'[at[x]][job[x].policy] \in {"open", Verdict(job[x].op)}
    BY <1>5, <2>1, <2>2
  <2>4. Holding(x) => \A q \in Policies \ {job[x].policy} : Agrees(settled'[at[x]][q], q, view[x])
    BY <1>5, <2>1, <2>2, Weaker
  <2> QED BY <1>1, <1>6, <2>1, <2>3, <2>4 DEF ChangeInv
<1>11. ASSUME NEW x \in Workers  PROVE ReportInv(x)'
  <2> SUFFICES ASSUME Reporting(x)  PROVE ReportInv(x)'
    BY <1>6 DEF ReportInv
  <2>1. /\ \A v \in Users : Agrees(expect[x][v], job[x].policy, ListIn(vault[v]))
        /\ Progress(x)
        /\ Holding(x) => at[x] \in Users /\ Agrees(expect[x][at[x]], job[x].policy, view[x])
    BY Stages4 DEF OInv, ReportInv
  <2>2. \A v \in Users : Agrees(expect'[x][v], job[x].policy, ListIn(vault'[v]))
    BY <1>1, <1>4, <2>1 DEF Agrees
  <2>3. Holding(x) => Agrees(expect'[x][at[x]], job[x].policy, view[x])
    BY <1>5, <2>1, Weaker
  <2>4. Progress(x)'
    BY <1>1, <1>5, <2>1 DEF Progress
  <2> QED BY <1>1, <1>6, <2>2, <2>3, <2>4 DEF ReportInv
<1>12. ASSUME NEW x \in Workers  PROVE CacheInv(x)'
  <2> SUFFICES ASSUME OneShot, Busy(x)  PROVE CacheInv(x)'
    BY <1>6 DEF CacheInv
  <2>1. /\ \A v \in Users : cache[v] \in Lists => \A q \in Policies : Agrees(settled[v][q], q, cache[v])
        /\ Running(x) /\ Holding(x) => \A q \in Policies : Agrees(settled[at[x]][q], q, view[x])
        /\ Reporting(x) => \A v \in Users : cache[v] \in Lists =>
                             Agrees(expect[x][v], job[x].policy, cache[v])
        /\ Holding(x) => at[x] \in Users
    BY Stages4 DEF OInv, CacheInv
  <2>2. \A v \in Users : cache[v] \in Lists => \A q \in Policies : Agrees(settled'[v][q], q, cache[v])
    BY <1>5, <2>1, Weaker
  <2>3. Running(x) /\ Holding(x) => \A q \in Policies : Agrees(settled'[at[x]][q], q, view[x])
    BY <1>5, <2>1, Weaker
  <2>4. Reporting(x) => \A v \in Users : cache[v] \in Lists =>
                          Agrees(expect'[x][v], job[x].policy, cache[v])
    BY <1>5, <2>1, Weaker
  <2> QED BY <1>1, <1>6, <2>2, <2>3, <2>4 DEF CacheInv
<1>13. ASSUME NEW x \in Workers, NEW y \in Workers  PROVE PairInv(x, y)'
  <2> SUFFICES ASSUME Reporting(x), Changing(y)  PROVE PairInv(x, y)'
    BY <1>6 DEF PairInv
  <2>1. at[y] = job[y].user /\ at[y] \in Users
    BY Stages4
  <2>2. /\ job[y].policy = job[x].policy => expect[x][at[y]] \in {"open", Verdict(job[y].op)}
        /\ job[y].policy # job[x].policy /\ Holding(y) => Agrees(expect[x][at[y]], job[x].policy, view[y])
    BY <2>1 DEF OInv, PairInv
  <2>3. expect'[x][at[y]] \in {"open", expect[x][at[y]]}
    BY <1>5, <2>1
  <2>4. job[y].policy # job[x].policy /\ Holding(y) => Agrees(expect'[x][at[y]], job[x].policy, view[y])
    BY <2>2, <2>3, Weaker
  <2>5. job[y].policy = job[x].policy => expect'[x][at[y]] \in {"open", Verdict(job[y].op)}
    BY <2>2, <2>3
  <2> QED BY <1>1, <1>6, <2>1, <2>4, <2>5 DEF PairInv
<1> QED BY <1>7, <1>8, <1>9, <1>10, <1>11, <1>12, <1>13 DEF OInv

-----------------------------------------------------------------------------
(* The verdicts are history: underneath, the builder runs as it does.      *)
LEMMA BuilderRuns == OSpec => Spec
<1>1. OInit => Init
  BY DEF OInit
<1>2. [ONext]_ovars => [Next]_vars
  BY DEF ONext, ovars, OCall, OStep, OReturn, OAdminWrite, Next, Worker, Call, Environment
<1> QED BY <1>1, <1>2, PTL DEF OSpec, Spec

LEMMA OInvHolds ==
  ASSUME OneShot \/ ~CacheOn
  PROVE  OSpec => []OInv
<1>1. OInit => OInv
  <2> SUFFICES ASSUME OInit  PROVE OInv
    OBVIOUS
  <2>1. OTypes
    BY DEF OInit, OTypes, Verdicts
  <2>2. SettledHolds
    BY DEF OInit, SettledHolds
  <2>3. \A w \in Workers : pc[w] = "idle"
    BY DEF OInit, Init
  <2>4. ReportsAgree /\ NoCacheInv
    BY <2>3 DEF ReportsAgree, NoCacheInv, OInit, Init
  <2>5. \A w \in Workers : ~Changing(w) /\ ~Reporting(w) /\ ~Busy(w)
    BY <2>3 DEF Changing, Reporting, Busy, Running
  <2> QED BY <2>1, <2>2, <2>4, <2>5 DEF OInv, ChangeInv, ReportInv, CacheInv, PairInv
<1>2. TypeOK /\ TypeOK' /\ NoDuplicates /\ OInv /\ [ONext]_ovars => OInv'
  <2> SUFFICES ASSUME TypeOK, TypeOK', NoDuplicates, OInv, [ONext]_ovars  PROVE OInv'
    OBVIOUS
  <2>1. ASSUME NEW w \in Workers, OStep(w)  PROVE OInv'
    <3>1. CASE Post(w)
      BY <2>1, <3>1, PostStep
    <3>2. CASE ListUsers(w) \/ NextUser(w) \/ ReturnGrants(w) \/ Report(w)
      <4>1. UNCHANGED <<settled, expect>>
        BY <2>1, <3>2 DEF OStep, TypeOK, DataTypes, StageType, ListUsers, NextUser, ReturnGrants,
                          Report, Goto
      <4> QED BY <3>2, <4>1, LoopSteps
    <3>3. CASE CacheHit(w) \/ CacheMiss(w) \/ Fetch(w) \/ Fill(w)
      <4>1. pc[w] # "use"
        BY <3>3 DEF CacheHit, CacheMiss, Fetch, Fill
      <4>2. UNCHANGED <<settled, expect>>
        BY <2>1, <4>1 DEF OStep
      <4> QED BY <3>3, <4>2, GetUserSteps
    <3> QED BY <2>1, <3>1, <3>2, <3>3 DEF OStep, Step
  <2>2. CASE UNCHANGED ovars
    BY <2>2 DEF ovars, vars, OInv, OTypes, SettledHolds, ReportsAgree, NoCacheInv, ChangeInv,
                ReportInv, CacheInv, PairInv, Progress, Changing, Reporting, Holding, Busy, Running
  <2> QED BY <2>1, <2>2, CallBegins, CallReturns, ProcessDies, EntryExpires, OtherWrites DEF ONext
<1> QED BY <1>1, <1>2, BuilderRuns, TypeCorrect, NeverDuplicates, PTL DEF OSpec

(* In a process per task, whatever the cache and the other writers do, and *)
(* in a daemon whose cache is off, with any number of calls at once: what  *)
(* a call settled with success holds until something calls it off          *)
(* (policy.go 132-203).  The daemon with its cache loses a grant: that     *)
(* case is what the assumption leaves out, and what DaemonLosesGrant shows.*)
THEOREM OutcomeLasts ==
  ASSUME OneShot \/ ~CacheOn
  PROVE  OSpec => []SettledHolds
<1>1. OInv => SettledHolds
  BY DEF OInv
<1> QED BY <1>1, OInvHolds, PTL

(* In the same modes, a report of the grants of a policy names everyone    *)
(* whose grant had been settled when it began, and nobody whose revocation *)
(* had, as long as nothing called it off meanwhile (policy.go 85-130).     *)
THEOREM ReportsRight ==
  ASSUME OneShot \/ ~CacheOn
  PROVE  OSpec => []ReportsAgree
<1>1. OInv => ReportsAgree
  BY DEF OInv
<1> QED BY <1>1, OInvHolds, PTL

-----------------------------------------------------------------------------
(* One process, and nobody else who writes.                                *)
Alone == OneShot /\ ~AdminInterferes

LEMMA AtomicLoop ==
  ASSUME TypeOK, AllAtomic, Alone, NEW w \in Workers,
         ListUsers(w) \/ NextUser(w) \/ ReturnGrants(w) \/ Report(w)
  PROVE  AtomicInv(w)'
<1> USE DEF TypeOK, DataTypes, Goto
<1>1. /\ UNCHANGED <<vault, cache, job>> /\ Running(w) /\ Reporting(w) /\ ~Holding(w)'
      /\ pc'[w] \in {"next", "get", "done", "failed"}
  BY DEF ListUsers, NextUser, ReturnGrants, Report, Running, Ended, Reporting, Holding, StageType
<1> DEFINE p == job[w].policy
<1>2. /\ \A u \in Users : cache[u] \in Lists => cache[u] = ListIn(vault[u])
      /\ Holding(w) => view[w] = ListIn(vault[at[w]])
      /\ \A u \in Users :
           /\ p \in PoliciesIn(ListIn(vault[u])) => \/ pc[w] = "list"
                                                    \/ u \in todo[w] \cup found[w]
                                                    \/ pc[w] # "next" /\ at[w] = u
           /\ u \in found[w] => p \in PoliciesIn(ListIn(vault[u]))
  BY <1>1 DEF AllAtomic, AtomicInv, Busy
<1>3. ASSUME Reporting(w)', NEW u \in Users
      PROVE  /\ p \in PoliciesIn(ListIn(vault[u])) => \/ pc'[w] = "list"
                                                      \/ u \in todo'[w] \cup found'[w]
                                                      \/ pc'[w] # "next" /\ at'[w] = u
             /\ u \in found'[w] => p \in PoliciesIn(ListIn(vault[u]))
  <2>1. CASE ListUsers(w)
    <3>1. p \in PoliciesIn(ListIn(vault[u])) => vault[u] # Absent
      BY EmptyList DEF ListIn
    <3>2. pc'[w] = "next" /\ todo'[w] = {v \in Users : vault[v] # Absent} /\ found' = found
      BY <1>3, <2>1 DEF ListUsers, Reporting, Running, Ended
    <3> QED BY <1>2, <3>1, <3>2
  <2>2. CASE NextUser(w)
    <3>1. /\ pc[w] = "next" /\ pc'[w] = "get" /\ found' = found
          /\ \E v \in todo[w] : at'[w] = v /\ todo'[w] = todo[w] \ {v}
      BY <2>2 DEF NextUser
    <3> QED BY <1>2, <3>1
  <2>3. CASE ReturnGrants(w)
    BY <1>3, <2>3 DEF ReturnGrants, Reporting, Running, Ended
  <2>4. CASE Report(w)
    <3>1. /\ pc[w] = "use" /\ pc'[w] = "next" /\ todo' = todo
          /\ found'[w] = IF p \in PoliciesIn(view[w]) THEN found[w] \cup {at[w]} ELSE found[w]
      BY <2>4 DEF Report
    <3>2. view[w] \in Lists /\ view[w] # Garbled
      BY <3>1, NoLists DEF StageType
    <3>3. view[w] = ListIn(vault[at[w]])
      BY <1>2, <3>1, <3>2 DEF Holding
    <3> QED BY <1>2, <3>1, <3>3
  <2> QED BY <2>1, <2>2, <2>3, <2>4
<1>4. job'[w].op = "Grants"
  BY <1>1 DEF Reporting
<1> QED BY <1>1, <1>2, <1>3, <1>4 DEF AtomicInv

LEMMA AtomicGetUser ==
  ASSUME TypeOK, AllAtomic, Alone, NEW w \in Workers,
         CacheHit(w) \/ CacheMiss(w) \/ Fetch(w) \/ Fill(w)
  PROVE  AtomicInv(w)'
<1>1. pc[w] \in {"get", "wire", "fill"} /\ pc[w] \in {"get", "wire", "fill", "use"}
  BY DEF CacheHit, CacheMiss, Fetch, Fill
<1>2. Running(w) /\ at[w] \in Users
  BY <1>1, Stages4
<1>3. /\ UNCHANGED <<vault, job, at, todo, found>>
      /\ pc'[w] \in {"wire", "fill", "use", "failed"}
  <2>1. CASE CacheHit(w) \/ CacheMiss(w)
    BY <2>1 DEF CacheHit, CacheMiss, Answered, Goto, TypeOK, DataTypes
  <2>2. CASE Fetch(w)
    <3>1. PICK r \in {GetReply(at[w])} \cup ReadFaults : FetchWith(w, r)
      BY <2>2 DEF Fetch
    <3> QED BY <2>2, <3>1 DEF Fetch, FetchWith, Answered, Return, Goto, TypeOK, DataTypes
  <2>3. CASE Fill(w)
    BY <2>3 DEF Fill, Decode, Return, Goto, TypeOK, DataTypes
  <2> QED BY <2>1, <2>2, <2>3
<1>4. /\ \A u \in Users : cache[u] \in Lists => cache[u] = ListIn(vault[u])
      /\ Holding(w) => view[w] = ListIn(vault[at[w]])
  BY <1>2 DEF AllAtomic, AtomicInv, Busy
<1>5. Holding(w)' => view'[w] = ListIn(vault[at[w]])
  <2>1. CASE CacheHit(w)
    <3>1. view'[w] = cache[at[w]] /\ cache[at[w]] # Nothing
      BY <2>1 DEF CacheHit, Answered, TypeOK, DataTypes
    <3> QED BY <1>2, <1>4, <3>1 DEF Holding, TypeOK, DataTypes
  <2>2. CASE CacheMiss(w)
    BY <2>2 DEF CacheMiss, Goto, Holding, TypeOK, DataTypes
  <2>3. CASE Fetch(w)
    <3>1. PICK r \in {GetReply(at[w])} \cup ReadFaults : FetchWith(w, r)
      BY <2>3 DEF Fetch
    <3>2. pc[w] = "wire"
      BY <2>3 DEF Fetch
    <3>3. \/ pc' = [pc EXCEPT ![w] = "failed"] /\ view' = view
          \/ pc' = [pc EXCEPT ![w] = "fill"] /\ view' = [view EXCEPT ![w] = Garbled]
          \/ view' = [view EXCEPT ![w] = ListIn(vault[at[w]])]
      BY <3>1, <3>2, FetchAnswers
    <3> QED BY <3>3 DEF Holding, TypeOK, DataTypes
  <2>4. CASE Fill(w)
    <3>1. Holding(w)' => Holding(w) /\ view'[w] = view[w]
      BY <2>4 DEF Fill, Decode, Return, Goto, Holding, TypeOK, DataTypes
    <3> QED BY <1>4, <3>1
  <2> QED BY <2>1, <2>2, <2>3, <2>4
<1>6. \A u \in Users : cache'[u] \in Lists => cache'[u] = ListIn(vault[u])
  <2>1. CASE cache' = cache
    BY <1>4, <2>1
  <2>2. CASE Fill(w) /\ CacheOn
    <3>1. pc[w] = "fill" /\ cache' = [cache EXCEPT ![at[w]] = view[w]]
      BY <2>2 DEF Fill
    <3>2. view[w] \in Lists => view[w] = ListIn(vault[at[w]])
      BY <1>4, <3>1, NoLists DEF Holding
    <3> QED BY <1>4, <3>1, <3>2 DEF TypeOK, DataTypes
  <2> QED BY <2>1, <2>2 DEF CacheHit, CacheMiss, Fetch, Fill
<1>7. Reporting(w)' => Reporting(w)
  BY <1>2, <1>3 DEF Reporting
<1>8. pc[w] # "idle" /\ pc[w] \notin {"list", "next"} /\ pc'[w] \notin {"list", "next"} /\ at' = at
  BY <1>1, <1>3
<1> QED BY <1>3, <1>5, <1>6, <1>7, <1>8 DEF AllAtomic, AtomicInv

LEMMA AtomicInvHolds ==
  ASSUME Alone
  PROVE  Spec => []AllAtomic
<1>1. Init => AllAtomic
  BY DEF Init, AllAtomic, AtomicInv, Busy, Running, Holding, Reporting
<1>2. TypeOK /\ TypeOK' /\ AllAtomic /\ [Next]_vars => AllAtomic'
  <2> SUFFICES ASSUME TypeOK, TypeOK', AllAtomic, [Next]_vars  PROVE AllAtomic'
    OBVIOUS
  <2>1. \A w, x \in Workers : w = x
    BY ModesAssumption DEF Alone
  <2>2. ASSUME NEW w \in Workers, Step(w)  PROVE AtomicInv(w)'
    <3>1. CASE Post(w)
      <4>1. pc'[w] \in Ended /\ job' = job /\ job[w].op # "Grants" /\ found' = found /\ pc[w] = "use"
        BY <3>1 DEF Post, Goto, TypeOK, DataTypes, Ended
      <4> QED BY <4>1 DEF AllAtomic, AtomicInv, Busy, Running, Holding, Reporting, Ended
    <3> QED BY <2>2, <3>1, AtomicLoop, AtomicGetUser DEF Step
  <2>3. ASSUME NEW w \in Workers, NEW j \in Jobs, Claim(w, j) \/ NextGrants(w, j)
        PROVE  AtomicInv(w)'
    <3>1. /\ pc'[w] = FirstStage(j) /\ job'[w] = j /\ found'[w] = {} /\ vault' = vault
          /\ FirstStage(j) \in {"list", "get", "failed"}
          /\ j.op = "Grants" => FirstStage(j) = "list"
      BY <2>3 DEF Claim, NextGrants, Begin, Goto, FirstStage, TypeOK, DataTypes
    <3>2. \A u \in Users : cache'[u] \in Lists => cache'[u] = ListIn(vault[u])
      <4>1. CASE cache' = EmptyCache
        BY <4>1, NoLists DEF EmptyCache
      <4>2. CASE NextGrants(w, j)
        BY <4>2 DEF NextGrants, Ended, AllAtomic, AtomicInv, Busy
      <4> QED BY <2>3, <4>1, <4>2 DEF Claim, Alone
    <3> QED BY <3>1, <3>2 DEF AtomicInv, Holding, Reporting, Running, Ended
  <2>4. ASSUME NEW w \in Workers, Release(w) \/ EndSync(w)  PROVE AtomicInv(w)'
    <3>1. pc'[w] = "idle"
      BY <2>4 DEF Release, EndSync, Goto, TypeOK, DataTypes
    <3> QED BY <3>1 DEF AtomicInv, Busy, Running, Holding, Reporting
  <2>5. ASSUME Crash, NEW w \in Workers  PROVE AtomicInv(w)'
    <3>1. /\ UNCHANGED <<vault, job, found>> /\ cache' = EmptyCache
          /\ ~Running(w)' /\ (pc'[w] # "idle" => pc[w] # "idle") /\ pc'[w] \notin {"fill", "use"}
      BY <2>5 DEF Crash, Running, Ended
    <3> QED BY <3>1, NoLists DEF AllAtomic, AtomicInv, EmptyCache, Reporting, Holding
  <2>6. ASSUME NEW u \in Users, Expire(u), NEW w \in Workers  PROVE AtomicInv(w)'
    <3>1. /\ UNCHANGED <<vault, pc, job, at, view, todo, found>>
          /\ \A v \in Users : cache'[v] \in Lists => cache'[v] = cache[v]
      BY <2>6, NoLists DEF Expire, TypeOK, DataTypes
    <3> QED BY <3>1 DEF AllAtomic, AtomicInv, Busy, Running, Holding, Reporting
  <2>7. ASSUME NEW u \in Users, AdminWrite(u), NEW w \in Workers  PROVE AtomicInv(w)'
    <3>1. pc'[w] = "idle"
      BY <2>7 DEF AdminWrite, Alone
    <3> QED BY <3>1 DEF AtomicInv, Busy, Running, Holding, Reporting
  <2>8. CASE UNCHANGED vars
    BY <2>8 DEF vars, AllAtomic, AtomicInv, Busy, Running, Holding, Reporting
  <2>9. CASE \E w \in Workers : Worker(w)
    <3>1. PICK w \in Workers : Worker(w)
      BY <2>9
    <3>2. AtomicInv(w)'
      BY <2>2, <2>3, <2>4, <3>1 DEF Worker, Call
    <3> QED BY <2>1, <3>2 DEF AllAtomic
  <2> QED BY <2>5, <2>6, <2>7, <2>8, <2>9 DEF Next, Environment, AllAtomic
<1> QED BY <1>1, <1>2, TypeCorrect, PTL DEF Spec

-----------------------------------------------------------------------------
(* The refinement: each step is one of PolicyAssignment, or none.          *)

(* A step that moves w only moves the abstract state of w only.            *)
LEMMA OneMoves ==
  ASSUME TypeOK, NEW w \in Workers, pc' \in [Workers -> Stages], found' \in [Workers -> SUBSET Users],
         \A x \in Workers \ {w} : pc'[x] = pc[x] /\ found'[x] = found[x],
         NEW status, Status'[w] = status, NEW report, Reported'[w] = report
  PROVE  Status' = [Status EXCEPT ![w] = status] /\ Reported' = [Reported EXCEPT ![w] = report]
<1>1. \A x \in Workers \ {w} : Status'[x] = Status[x] /\ Reported'[x] = Reported[x]
  BY DEF Status, Reported, Running
<1>2. DOMAIN Status = Workers /\ DOMAIN Reported = Workers
  BY DEF Status, Reported
<1>3. \A x \in Workers : /\ Status'[x] = [Status EXCEPT ![w] = status][x]
                         /\ Reported'[x] = [Reported EXCEPT ![w] = report][x]
  BY <1>1, <1>2
<1>4. /\ Status = [x \in Workers |-> Status[x]]
      /\ Status' = [x \in Workers |-> Status'[x]]
      /\ Reported = [x \in Workers |-> Reported[x]]
      /\ Reported' = [x \in Workers |-> Reported'[x]]
  BY DEF Status, Reported
<1> HIDE DEF Status, Reported
<1> QED BY <1>3, <1>4

LEMMA WorkerMoves ==
  ASSUME TypeOK, TypeOK', NEW w \in Workers, Worker(w)
  PROVE  /\ pc' \in [Workers -> Stages] /\ found' \in [Workers -> SUBSET Users]
         /\ \A x \in Workers \ {w} : pc'[x] = pc[x] /\ found'[x] = found[x]
<1> USE DEF TypeOK, DataTypes, Goto
<1>1. pc' \in [Workers -> Stages] /\ found' \in [Workers -> SUBSET Users]
  OBVIOUS
<1>2. CASE Step(w)
  <2>1. CASE Fetch(w)
    BY <2>1 DEF Fetch, FetchWith, Answered, Return
  <2>2. CASE ~Fetch(w)
    BY <1>2, <2>2 DEF Step, ListUsers, NextUser, Report, ReturnGrants, CacheHit, CacheMiss, Fill,
                      Post, Answered, Decode, Return
  <2> QED BY <2>1, <2>2
<1>3. CASE Release(w) \/ EndSync(w)
  BY <1>3 DEF Release, EndSync
<1>4. CASE Call(w)
  BY <1>4 DEF Call, Claim, NextGrants, Begin
<1> QED BY <1>1, <1>2, <1>3, <1>4 DEF Worker

LEMMA BeginPromised ==
  ASSUME TypeOK, TypeOK', NEW w \in Workers, Call(w)
  PROVE  Promise!Begin(w)
<1>1. PICK j \in Jobs : Claim(w, j) \/ NextGrants(w, j)
  BY DEF Call
<1>2. /\ pc[w] \in Ended \cup {"idle"} /\ vault' = vault /\ job' = [job EXCEPT ![w] = j]
      /\ pc'[w] = FirstStage(j)
  BY <1>1 DEF Claim, NextGrants, Begin, Goto, Ended, TypeOK, DataTypes
<1>3. Status[w] # "pending" /\ Assigned' = Assigned
  BY <1>2 DEF Status, Assigned, Running, Ended
<1>4. /\ Status'[w] = IF j.op # "Grants" /\ j.user = Nothing THEN "failed" ELSE "pending"
      /\ Reported'[w] = {}
  <2>1. pc'[w] = IF j.op = "Grants" THEN "list" ELSE IF j.user = Nothing THEN "failed" ELSE "get"
    BY <1>2 DEF FirstStage
  <2> QED BY <2>1 DEF Status, Reported, Running, Ended
<1>5. /\ Status' = [Status EXCEPT ![w] = IF j.op # "Grants" /\ j.user = Nothing THEN "failed"
                                         ELSE "pending"]
      /\ Reported' = [Reported EXCEPT ![w] = {}]
  BY <1>4, WorkerMoves, OneMoves DEF Worker
<1>6. j \in Promise!Jobs
  BY DEF Jobs, Promise!Jobs
<1> QED BY <1>2, <1>3, <1>5, <1>6 DEF Promise!Begin

LEMMA ReleasePromised ==
  ASSUME TypeOK, TypeOK', NEW w \in Workers, Release(w) \/ EndSync(w)
  PROVE  Promise!Release(w)
<1>1. /\ pc[w] \in Ended /\ vault' = vault /\ job' = [job EXCEPT ![w] = Nothing] /\ pc'[w] = "idle"
  BY DEF Release, EndSync, Goto, Ended, TypeOK, DataTypes
<1>2. /\ Status[w] \in {"done", "failed"} /\ Assigned' = Assigned
      /\ Status'[w] = "idle" /\ Reported'[w] = {}
  BY <1>1 DEF Status, Reported, Assigned, Running, Ended
<1>3. Status' = [Status EXCEPT ![w] = "idle"] /\ Reported' = [Reported EXCEPT ![w] = {}]
  BY <1>2, WorkerMoves, OneMoves DEF Worker
<1> QED BY <1>1, <1>2, <1>3 DEF Promise!Release

(* A step between the beginning of a call and its result.                  *)
LEMMA MiddlePromised ==
  ASSUME TypeOK, TypeOK', NEW w \in Workers, Step(w), ~Post(w), ~ReturnGrants(w)
  PROVE  UNCHANGED Promise!vars \/ Promise!Fail(w)
<1>1. /\ UNCHANGED <<vault, job>> /\ Running(w)
      /\ pc'[w] \in {"next", "get", "wire", "fill", "use", "failed"}
  <2>1. CASE Fetch(w)
    BY <2>1 DEF Fetch, FetchWith, Answered, Return, Goto, TypeOK, DataTypes, Running, Ended
  <2>2. CASE ~Fetch(w)
    BY <2>2 DEF Step, ListUsers, NextUser, Report, CacheHit, CacheMiss, Fill, Answered, Decode,
                Return, Goto, TypeOK, DataTypes, Running, Ended
  <2> QED BY <2>1, <2>2
<1>2. Assigned' = Assigned /\ Status[w] = "pending" /\ Reported[w] = {} /\ Reported'[w] = {}
      /\ Status'[w] \in {"pending", "failed"}
  BY <1>1 DEF Assigned, Status, Reported, Running, Ended
<1>3. /\ Status' = [Status EXCEPT ![w] = Status'[w]]
      /\ Reported' = [Reported EXCEPT ![w] = Reported'[w]]
  BY WorkerMoves, OneMoves DEF Worker
<1>4. /\ Reported' = Reported
      /\ Status'[w] = "pending" => Status' = Status
  <2>1. /\ Status = [x \in Workers |-> Status[x]]
        /\ Reported = [x \in Workers |-> Reported[x]]
    BY DEF Status, Reported
  <2> HIDE DEF Status, Reported
  <2> QED BY <1>2, <1>3, <2>1
<1> QED BY <1>1, <1>2, <1>3, <1>4 DEF Promise!vars, Promise!Fail

(* A report is what Vault has at the moment it is returned.                *)
LEMMA ReportPromised ==
  ASSUME TypeOK, TypeOK', AllAtomic, NEW w \in Workers, ReturnGrants(w)
  PROVE  Promise!Serve(w)
<1>1. /\ UNCHANGED <<vault, job, found>> /\ pc[w] = "next" /\ todo[w] = {} /\ pc'[w] = "done"
      /\ job[w].op = "Grants" /\ Running(w) /\ Reporting(w)
  BY DEF ReturnGrants, Goto, TypeOK, DataTypes, StageType, Running, Ended, Reporting
<1>2. Assigned' = Assigned /\ Status[w] = "pending" /\ Status'[w] = "done" /\ Reported'[w] = found[w]
  BY <1>1 DEF Assigned, Status, Reported, Running, Ended
<1>3. Status' = [Status EXCEPT ![w] = "done"] /\ Reported' = [Reported EXCEPT ![w] = found[w]]
  BY <1>2, WorkerMoves, OneMoves DEF Worker, Step
<1>4. \A u \in Users : u \in found[w] <=> job[w].policy \in PoliciesIn(ListIn(vault[u]))
  BY <1>1 DEF AllAtomic, AtomicInv
<1>5. ASSUME NEW u \in Users
      PROVE  u \in found[w] <=> Assigned[u] # Absent /\ job[w].policy \in Assigned[u]
  <2>1. CASE vault[u] = Absent
    BY <1>4, <2>1, EmptyList DEF ListIn, Assigned
  <2>2. CASE vault[u] # Absent
    <3>1. PoliciesIn(vault[u]) \in SUBSET Policies
      BY <2>2 DEF TypeOK, DataTypes, Lists, PoliciesIn
    <3> QED BY <1>4, <2>2, <3>1, AbsentAssumption DEF ListIn, Assigned
  <2> QED BY <2>1, <2>2
<1>6. found[w] = {u \in Users : Assigned[u] # Absent /\ job[w].policy \in Assigned[u]}
  <2>1. found[w] \subseteq Users
    BY DEF TypeOK, DataTypes
  <2> QED BY <1>5, <2>1
<1> QED BY <1>1, <1>2, <1>3, <1>6 DEF Promise!Serve

(* A POST assigns the policy to what Vault has, or nothing.                *)
LEMMA PostPromised ==
  ASSUME TypeOK, TypeOK', NoDuplicates, AllAtomic, NEW w \in Workers, Post(w)
  PROVE  Promise!Serve(w) \/ Promise!Fail(w)
<1> DEFINE u == at[w]
           j == job[w]
           new == Updated(view[w], job[w])
<1>1. /\ u \in Users /\ u = j.user /\ j \in Jobs /\ Changing(w) /\ Holding(w) /\ pc[w] = "use"
      /\ view[w] \in Lists /\ new \in Lists /\ job' = job /\ found' = found
  BY PostWrites DEF Post
<1>2. /\ vault' = vault \/ (vault[u] # Absent /\ vault' = [vault EXCEPT ![u] = new])
      /\ \/ pc'[w] = "failed"
         \/ pc'[w] = "done" /\ vault[u] # Absent /\ vault' = [vault EXCEPT ![u] = new]
  BY PostWrites DEF TypeOK, DataTypes
<1>3. ASSUME vault[u] # Absent, vault' = [vault EXCEPT ![u] = new]
      PROVE  Promise!Assign(j)
  <2>1. view[w] = vault[u]
    BY <1>1, <1>3 DEF AllAtomic, AtomicInv, ListIn
  <2>2. NoDup(view[w])
    BY <1>1 DEF NoDuplicates
  <2>3. PoliciesIn(new) = IF j.op = "Grant" THEN PoliciesIn(vault[u]) \cup {j.policy}
                          ELSE PoliciesIn(vault[u]) \ {j.policy}
    BY <1>1, <2>1, <2>2, UpdatedPolicies
  <2>4. new # Absent /\ Assigned[u] = PoliciesIn(vault[u])
    BY <1>1, <1>3, NoLists DEF Assigned
  <2>5. PoliciesIn(vault[u]) # Absent
    <3>1. PoliciesIn(vault[u]) \in SUBSET Policies
      BY <1>1, <2>1 DEF Lists, PoliciesIn
    <3> QED BY <3>1, AbsentAssumption
  <2>6. PoliciesIn(new) = Promise!Effect(j)
    BY <1>1, <2>3, <2>4 DEF Promise!Effect
  <2>7. \A v \in Users : Assigned'[v] = IF v = u THEN PoliciesIn(new) ELSE Assigned[v]
    BY <1>1, <1>3, <2>4 DEF Assigned, TypeOK, DataTypes
  <2>8. Assigned = [v \in Users |-> Assigned[v]] /\ Assigned' = [v \in Users |-> Assigned'[v]]
    BY DEF Assigned
  <2>9. Assigned' = [Assigned EXCEPT ![u] = PoliciesIn(new)]
    <3> HIDE DEF Assigned, u, new
    <3> QED BY <1>1, <2>7, <2>8
  <2> QED BY <1>1, <2>4, <2>5, <2>6, <2>9 DEF Promise!Assign, Changing
<1>4. vault' = vault => Assigned' = Assigned
  BY DEF Assigned
<1>5. Status[w] = "pending" /\ Status'[w] = pc'[w] /\ Reported[w] = {} /\ Reported'[w] = {}
  <2>1. found[w] = {}
    BY <1>1 DEF AllAtomic, AtomicInv, Changing
  <2> QED BY <1>1, <1>2, <2>1 DEF Status, Reported, Running, Ended
<1>6. Status' = [Status EXCEPT ![w] = pc'[w]] /\ Reported' = [Reported EXCEPT ![w] = {}]
  BY <1>5, WorkerMoves, OneMoves DEF Worker, Step
<1>7. Reported' = Reported
  <2>1. Reported = [x \in Workers |-> Reported[x]]
    BY DEF Reported
  <2> HIDE DEF Reported
  <2> QED BY <1>5, <1>6, <2>1
<1>8. CASE pc'[w] = "failed"
  BY <1>1, <1>2, <1>3, <1>4, <1>5, <1>6, <1>7, <1>8 DEF Promise!Fail
<1>9. CASE pc'[w] = "done" /\ vault[u] # Absent /\ vault' = [vault EXCEPT ![u] = new]
  BY <1>1, <1>3, <1>5, <1>6, <1>7, <1>9 DEF Promise!Serve
<1> QED BY <1>2, <1>8, <1>9

LEMMA CrashPromised ==
  ASSUME Alone, TypeOK, TypeOK', Crash
  PROVE  \E w \in Workers : Promise!Fail(w)
<1>1. PICK w \in Workers : Running(w)
  BY DEF Crash
<1>2. Workers = {w}
  BY ModesAssumption DEF Alone
<1>3. pc'[w] = "failed" /\ UNCHANGED <<vault, job, found>>
  BY <1>1 DEF Crash
<1>4. /\ Assigned' = Assigned /\ Status[w] = "pending" /\ Status'[w] = "failed"
      /\ Reported[w] = {} /\ Reported'[w] = {}
  BY <1>1, <1>3 DEF Assigned, Status, Reported, Running, Ended
<1>5. Status' = [Status EXCEPT ![w] = "failed"] /\ Reported' = Reported
  BY <1>2, <1>4 DEF Status, Reported
<1> QED BY <1>3, <1>4, <1>5 DEF Promise!Fail

LEMMA OtherPromised ==
  ASSUME TypeOK, TypeOK', NEW u \in Users, AdminWrite(u)
  PROVE  Promise!OtherWriter(u)
<1>1. PICK v \in AdminLists \cup {Absent} : vault' = [vault EXCEPT ![u] = v]
  BY DEF AdminWrite
<1> DEFINE a == IF v = Absent THEN Absent ELSE PoliciesIn(v)
<1>2. a \in (SUBSET Policies) \cup {Absent}
  BY ValuesAssumption DEF PoliciesIn
<1>3. Assigned' = [Assigned EXCEPT ![u] = a]
  BY <1>1 DEF Assigned, TypeOK, DataTypes
<1>4. UNCHANGED <<Status, job, Reported>>
  BY DEF AdminWrite, Status, Reported, Running
<1> QED BY <1>2, <1>3, <1>4 DEF Promise!OtherWriter

(* In a process per task that no other client disturbs while it runs, each *)
(* grant, revocation and report is one indivisible step between its call   *)
(* and its result, through every fault, crash and expiry of the cache; a   *)
(* call that fails took effect completely or not at all, on what Vault had *)
(* at that moment (policy.go 85-203; client.go 581-616).                   *)
THEOREM Atomic ==
  ASSUME OneShot, ~AdminInterferes
  PROVE  OSpec => AtomicCalls
<1>1. Alone
  BY DEF Alone
<1>2. Init => Promise!Init
  <2> SUFFICES ASSUME Init  PROVE Promise!Init
    OBVIOUS
  <2>1. \A u \in Users : Assigned[u] \in (SUBSET Policies) \cup {Absent}
    BY ValuesAssumption DEF Init, Assigned, PoliciesIn
  <2>2. Assigned \in [Users -> (SUBSET Policies) \cup {Absent}]
    BY <2>1 DEF Assigned
  <2>3. /\ Status = [w \in Workers |-> "idle"]
        /\ Reported = [w \in Workers |-> {}]
    BY DEF Init, Status, Reported, Running
  <2> QED BY <2>2, <2>3 DEF Init, Promise!Init
<1>3. TypeOK /\ TypeOK' /\ NoDuplicates /\ AllAtomic /\ [Next]_vars => [Promise!Next]_(Promise!vars)
  <2> SUFFICES ASSUME TypeOK, TypeOK', NoDuplicates, AllAtomic, [Next]_vars
               PROVE  [Promise!Next]_(Promise!vars)
    OBVIOUS
  <2>1. ASSUME NEW w \in Workers, Worker(w)  PROVE [Promise!Next]_(Promise!vars)
    BY <2>1, BeginPromised, ReleasePromised, MiddlePromised, ReportPromised, PostPromised
       DEF Worker, Promise!Next
  <2>2. CASE Crash
    BY <1>1, <2>2, CrashPromised DEF Promise!Next
  <2>3. ASSUME NEW u \in Users, Expire(u)  PROVE [Promise!Next]_(Promise!vars)
    BY <2>3 DEF Expire, Promise!vars, Assigned, Status, Reported, Running
  <2>4. ASSUME NEW u \in Users, AdminWrite(u)  PROVE [Promise!Next]_(Promise!vars)
    BY <2>4, OtherPromised DEF Promise!Next
  <2>5. CASE UNCHANGED vars
    BY <2>5 DEF vars, Promise!vars, Assigned, Status, Reported, Running
  <2> QED BY <2>1, <2>2, <2>3, <2>4, <2>5 DEF Next, Environment
<1>4. Spec => AtomicCalls
  BY <1>1, <1>2, <1>3, AtomicInvHolds, TypeCorrect, NeverDuplicates, PTL
     DEF Spec, AtomicCalls, Promise!Spec
<1> QED BY <1>4, BuilderRuns, PTL
=============================================================================
