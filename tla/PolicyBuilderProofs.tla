------------------------ MODULE PolicyBuilderProofs ------------------------
(***************************************************************************)
(* Type correctness of PolicyBuilder, and that no list of policies ever    *)
(* holds a policy twice, for any number of users, policies and workers, in *)
(* every mode.                                                             *)
(***************************************************************************)
EXTENDS PolicyBuilder, WellFoundedInduction, TLAPS

(* RemoveIndex takes the element at i out and keeps the others in order.   *)
LEMMA RemoveIndexType ==
  ASSUME NEW S, NEW s \in Seq(S), NEW i \in DOMAIN s
  PROVE  RemoveIndex(s, i) \in Seq(S)
<1>1. i \in 1..Len(s) /\ Len(s) \in Nat
  OBVIOUS
<1>2. Len(s) - 1 \in Nat
  BY <1>1
<1>3. \A k \in 1..(Len(s) - 1) : (IF k < i THEN s[k] ELSE s[k + 1]) \in S
  BY <1>1
<1>4. \A n \in Nat : \A f \in [1..n -> S] : f \in Seq(S)
  OBVIOUS
<1> QED BY <1>2, <1>3, <1>4 DEF RemoveIndex

(* IndexOf finds the first place of a policy that is in the list.          *)
LEMMA IndexOfFound ==
  ASSUME NEW S, NEW s \in Seq(S), NEW p, p \in PoliciesIn(s)
  PROVE  IndexOf(s, p) \in DOMAIN s /\ s[IndexOf(s, p)] = p
<1> DEFINE T == {k \in DOMAIN s : s[k] = p}
           R == OpToRel(<, Nat)
<1>1. T # {} /\ T \subseteq Nat
  BY DEF PoliciesIn
<1>2. PICK i \in T : \A j \in T : <<j, i>> \notin R
  <2> HIDE DEF T, R
  <2> QED BY <1>1, NatLessThanWellFounded, WFMin DEF R
<1>3. \A j \in DOMAIN s : j < i => s[j] # p
  <2> SUFFICES ASSUME NEW j \in DOMAIN s, j < i, s[j] = p
               PROVE  FALSE
    OBVIOUS
  <2>1. j \in T /\ i \in Nat /\ j \in Nat
    BY <1>1
  <2>2. <<j, i>> \in R
    BY <2>1 DEF OpToRel
  <2> QED BY <1>2, <2>1, <2>2
<1> QED BY <1>2, <1>3 DEF IndexOf

(* The list Grant or Revoke posts is a list of policies.                   *)
LEMMA UpdatedType ==
  ASSUME NEW s \in Lists, NEW j \in Jobs, j.op # "Grants"
  PROVE  Updated(s, j) \in Lists
<1>1. j.policy \in Policies
  BY DEF Jobs
<1>2. Granted(s, j.policy) \in Lists
  BY <1>1 DEF Granted, Lists
<1>3. Revoked(s, j.policy) \in Lists
  <2>1. CASE j.policy \in PoliciesIn(s)
    BY <2>1, IndexOfFound, RemoveIndexType DEF Revoked, Lists
  <2>2. CASE j.policy \notin PoliciesIn(s)
    BY <2>2 DEF Revoked
  <2> QED BY <2>1, <2>2
<1> QED BY <1>2, <1>3 DEF Updated

(* A Grant adds a policy only when it is not there yet, and a Revoke only  *)
(* takes one out: neither makes a duplicate.                               *)
LEMMA UpdatedNoDup ==
  ASSUME NEW s \in Lists, NEW j \in Jobs, NoDup(s)
  PROVE  NoDup(Updated(s, j))
<1> DEFINE p == j.policy
<1> HIDE DEF p
<1>1. NoDup(Granted(s, p))
  <2>1. CASE p \in PoliciesIn(s)
    BY <2>1 DEF Granted
  <2>2. CASE p \notin PoliciesIn(s)
    <3> DEFINE t == Append(s, p)
    <3>1. Granted(s, p) = t
      BY <2>2 DEF Granted
    <3>2. /\ DOMAIN t = 1..(Len(s) + 1)
          /\ DOMAIN s = 1..Len(s) /\ Len(s) \in Nat
          /\ t[Len(s) + 1] = p
          /\ \A k \in 1..Len(s) : t[k] = s[k] /\ s[k] # p
      BY <2>2 DEF PoliciesIn, Lists
    <3> HIDE DEF t
    <3>3. NoDup(t)
      BY <3>2 DEF NoDup
    <3> QED BY <3>1, <3>3
  <2> QED BY <2>1, <2>2
<1>2. NoDup(Revoked(s, p))
  <2>1. CASE p \notin PoliciesIn(s)
    BY <2>1 DEF Revoked
  <2>2. CASE p \in PoliciesIn(s)
    <3> DEFINE i == IndexOf(s, p)
    <3>1. i \in 1..Len(s) /\ Len(s) \in Nat /\ DOMAIN s = 1..Len(s)
      BY <2>2, IndexOfFound DEF Lists
    <3>2. Revoked(s, p) = RemoveIndex(s, i)
      BY <2>2 DEF Revoked
    <3> HIDE DEF i
    <3>3. NoDup(RemoveIndex(s, i))
      BY <3>1 DEF NoDup, RemoveIndex
    <3> QED BY <3>2, <3>3
  <2> QED BY <2>1, <2>2
<1> QED BY <1>1, <1>2 DEF Updated, p

-----------------------------------------------------------------------------
(* A 200 whose body decodes is Vault's, and says that the user exists.     *)
LEMMA GetReplies ==
  ASSUME NEW u \in Users, NEW r \in {GetReply(u)} \cup ReadFaults, Cacheable(r)
  PROVE  BodyOf(r, u) = Garbled \/ (BodyOf(r, u) = vault[u] /\ vault[u] # Absent)
BY DEF GetReply, ReadFaults, FaultReplies, Cacheable, Reply, BodyOf

LEMMA BeginTypes ==
  ASSUME TypeOK, NEW w \in Workers, NEW j \in Jobs, Begin(w, j),
         vault' = vault, cache' \in [Users -> Lists \cup {Garbled, Nothing}]
  PROVE  TypeOK'
<1>1. j.user \in Users \cup {Nothing} /\ (j.op = "Grants" => j.user = Nothing)
  BY DEF Jobs
<1>2. FirstStage(j) \in {"list", "failed", "get"}
  BY DEF FirstStage
<1>3. DataTypes'
  BY <1>1, <1>2 DEF TypeOK, DataTypes, Begin, Goto, Stages
<1>4. ASSUME NEW x \in Workers, x # w
      PROVE  job'[x] = job[x] /\ pc'[x] = pc[x] /\ at'[x] = at[x] /\ view'[x] = view[x]
  BY <1>4 DEF TypeOK, DataTypes, Begin, Goto
<1>5. job'[w] = j /\ pc'[w] = FirstStage(j) /\ at'[w] = j.user
  BY DEF TypeOK, DataTypes, Begin, Goto
<1>6. (FirstStage(j) = "list" => j.op = "Grants")
      /\ (FirstStage(j) = "get" => j.user \in Users)
  BY <1>1 DEF FirstStage
<1>7. ASSUME NEW x \in Workers
      PROVE  StageType(x)'
  <2>1. CASE x = w
    BY <2>1, <1>2, <1>5, <1>6 DEF StageType
  <2>2. CASE x # w
    BY <2>2, <1>4 DEF TypeOK, StageType
  <2> QED BY <2>1, <2>2
<1> QED BY <1>3, <1>7 DEF TypeOK

(* Vacating a worker, as Release and EndSync do.                           *)
LEMMA VacateTypes ==
  ASSUME TypeOK, NEW w \in Workers, Release(w) \/ EndSync(w)
  PROVE  TypeOK'
<1>1. DataTypes'
  BY DEF TypeOK, DataTypes, Release, EndSync, Goto, Stages, EmptyCache
<1>2. ASSUME NEW x \in Workers
      PROVE  StageType(x)'
  BY DEF TypeOK, DataTypes, StageType, Release, EndSync, Goto
<1> QED BY <1>1, <1>2 DEF TypeOK

LEMMA StepTypes ==
  ASSUME TypeOK, NEW w \in Workers, Step(w)
  PROVE  TypeOK'
<1> USE DEF TypeOK, DataTypes, StageType, Goto
<1>1. CASE ListUsers(w)
  BY <1>1 DEF ListUsers, Stages
<1>2. CASE NextUser(w)
  BY <1>2 DEF NextUser, Stages
<1>3. CASE Report(w)
  BY <1>3 DEF Report, Stages
<1>4. CASE ReturnGrants(w)
  BY <1>4 DEF ReturnGrants, Stages
<1>5. CASE CacheHit(w)
  BY <1>5 DEF CacheHit, Answered, Stages
<1>6. CASE CacheMiss(w)
  BY <1>6 DEF CacheMiss, Stages
<1>7. CASE Fetch(w)
  <2>1. PICK r \in {GetReply(at[w])} \cup ReadFaults : FetchWith(w, r)
    BY <1>7 DEF Fetch
  <2>2. at[w] \in Users
    BY <1>7 DEF Fetch
  <2>3. CASE Cacheable(r)
    <3>1. BodyOf(r, at[w]) \in Lists \cup {Garbled}
      BY <2>1, <2>2, <2>3, GetReplies
    <3> QED BY <1>7, <2>1, <2>3, <3>1 DEF Fetch, FetchWith, Answered, Stages
  <2>4. CASE ~Cacheable(r)
    <3>1. << >> \in Lists
      BY DEF Lists
    <3> QED BY <1>7, <2>1, <2>4, <3>1 DEF Fetch, FetchWith, Return, Stages
  <2> QED BY <2>3, <2>4
<1>8. CASE Fill(w)
  BY <1>8 DEF Fill, Decode, Return, Stages
<1>9. CASE Post(w)
  BY <1>9, UpdatedType DEF Post, Apply, Stages
<1> QED BY <1>1, <1>2, <1>3, <1>4, <1>5, <1>6, <1>7, <1>8, <1>9 DEF Step

LEMMA EnvironmentTypes ==
  ASSUME TypeOK, Environment
  PROVE  TypeOK'
<1> USE DEF TypeOK, DataTypes, StageType
<1>1. CASE Crash
  BY <1>1 DEF Crash, EmptyCache, Running, Ended, Stages
<1>2. CASE \E u \in Users : Expire(u)
  BY <1>2 DEF Expire
<1>3. CASE \E u \in Users : AdminWrite(u)
  BY <1>3, ValuesAssumption DEF AdminWrite, Lists
<1> QED BY <1>1, <1>2, <1>3 DEF Environment

(* Type correctness: every variable keeps its type, and every call has in  *)
(* hand what its stage needs (policy.go 85-203).                           *)
THEOREM TypeCorrect == Spec => []TypeOK
<1>1. Init => TypeOK
  BY ValuesAssumption DEF Init, TypeOK, DataTypes, StageType, EmptyCache, Stages, Lists
<1>2. TypeOK /\ [Next]_vars => TypeOK'
  <2> SUFFICES ASSUME TypeOK, [Next]_vars
               PROVE  TypeOK'
    OBVIOUS
  <2>1. ASSUME NEW w \in Workers, NEW j \in Jobs, Claim(w, j)
        PROVE  TypeOK'
    BY <2>1, BeginTypes DEF Claim, EmptyCache, TypeOK, DataTypes
  <2>2. ASSUME NEW w \in Workers, NEW j \in Jobs, NextGrants(w, j)
        PROVE  TypeOK'
    BY <2>2, BeginTypes DEF NextGrants, TypeOK, DataTypes
  <2>3. CASE UNCHANGED vars
    BY <2>3 DEF vars, TypeOK, DataTypes, StageType
  <2> QED
    BY <2>1, <2>2, <2>3, StepTypes, VacateTypes, EnvironmentTypes
    DEF Next, Worker, Call
<1> QED BY <1>1, <1>2, PTL DEF Spec

-----------------------------------------------------------------------------
LEMMA NoLists == {Absent, Garbled, Nothing} \cap Lists = {}
BY ValuesAssumption DEF Lists

LEMMA StepNoDup ==
  ASSUME TypeOK, NoDuplicates, NEW w \in Workers, Step(w)
  PROVE  NoDuplicates'
<1> USE NoLists DEF TypeOK, DataTypes, Goto
<1>1. CASE ListUsers(w) \/ NextUser(w) \/ ReturnGrants(w) \/ CacheMiss(w)
  BY <1>1 DEF NoDuplicates, ListUsers, NextUser, ReturnGrants, CacheMiss
<1>2. CASE Report(w)
  BY <1>2 DEF NoDuplicates, Report
<1>3. CASE CacheHit(w)
  BY <1>3 DEF NoDuplicates, CacheHit, Answered, StageType
<1>4. CASE Fetch(w)
  <2>1. PICK r \in {GetReply(at[w])} \cup ReadFaults : FetchWith(w, r)
    BY <1>4 DEF Fetch
  <2>2. at[w] \in Users
    BY <1>4 DEF Fetch, StageType
  <2>3. CASE Cacheable(r)
    <3> DEFINE body == BodyOf(r, at[w])
    <3>1. body = Garbled \/ (body = vault[at[w]] /\ vault[at[w]] # Absent)
      BY <2>1, <2>2, <2>3, GetReplies
    <3> HIDE DEF body
    <3>2. body \in Lists => NoDup(body)
      BY <2>2, <3>1 DEF NoDuplicates
    <3>3. cache' = cache /\ vault' = vault /\ view' = [view EXCEPT ![w] = body]
      BY <1>4, <2>1, <2>3 DEF Fetch, FetchWith, Answered, body
    <3> QED BY <3>2, <3>3 DEF NoDuplicates
  <2>4. CASE ~Cacheable(r)
    <3>1. NoDup(<< >>)
      BY DEF NoDup
    <3> QED BY <1>4, <2>1, <2>4, <3>1 DEF NoDuplicates, Fetch, FetchWith, Return
  <2> QED BY <2>3, <2>4
<1>5. CASE Fill(w)
  BY <1>5 DEF NoDuplicates, Fill, Decode, Return, StageType
<1>6. CASE Post(w)
  <2>1. /\ at[w] \in Users /\ view[w] \in Lists /\ job[w] \in Jobs
    BY <1>6 DEF Post, StageType
  <2>2. NoDup(Updated(view[w], job[w]))
    BY <2>1, UpdatedNoDup, ValuesAssumption DEF NoDuplicates, Lists
  <2>3. /\ vault' = vault \/ vault' = [vault EXCEPT ![at[w]] = Updated(view[w], job[w])]
        /\ cache' = cache /\ view' = [view EXCEPT ![w] = Nothing]
    BY <1>6 DEF Post, Apply
  <2> QED BY <2>1, <2>2, <2>3 DEF NoDuplicates
<1> QED BY <1>1, <1>2, <1>3, <1>4, <1>5, <1>6 DEF Step

(* No interleaving of grants, revocations, reports, faults and other       *)
(* writers ever puts a policy twice into the list of a user, into the      *)
(* cache or into the list a call works on (policy.go 144-159, 181-197), as *)
(* long as the other writers write none.                                   *)
THEOREM NeverDuplicates == Spec => []NoDuplicates
<1>1. Init => NoDuplicates
  BY NoLists, ValuesAssumption DEF Init, NoDuplicates, EmptyCache
<1>2. TypeOK /\ NoDuplicates /\ [Next]_vars => NoDuplicates'
  <2> SUFFICES ASSUME TypeOK, NoDuplicates, [Next]_vars
               PROVE  NoDuplicates'
    OBVIOUS
  <2> USE NoLists DEF NoDuplicates, TypeOK, DataTypes
  <2>1. ASSUME NEW w \in Workers, NEW j \in Jobs, Claim(w, j) \/ NextGrants(w, j)
        PROVE  NoDuplicates'
    BY <2>1 DEF Claim, NextGrants, Begin, EmptyCache
  <2>2. ASSUME NEW w \in Workers, Release(w) \/ EndSync(w)
        PROVE  NoDuplicates'
    BY <2>2 DEF Release, EndSync, EmptyCache
  <2>3. CASE Crash
    BY <2>3 DEF Crash, EmptyCache
  <2>4. ASSUME NEW u \in Users, Expire(u)
        PROVE  NoDuplicates'
    BY <2>4 DEF Expire
  <2>5. ASSUME NEW u \in Users, AdminWrite(u)
        PROVE  NoDuplicates'
    BY <2>5, ValuesAssumption DEF AdminWrite
  <2>6. CASE UNCHANGED vars
    BY <2>6 DEF vars
  <2> QED
    BY <2>1, <2>2, <2>3, <2>4, <2>5, <2>6, StepNoDup
    DEF Next, Worker, Call, Environment
<1> QED BY <1>1, <1>2, TypeCorrect, PTL DEF Spec
=============================================================================
