--------------------------- MODULE FullSyncProofs ---------------------------
(***************************************************************************)
(* For any types, names, and bounds on changes and warnings: a full sync   *)
(* keeps the promise of SyncPromise.  The inductive invariant says that    *)
(* what Vault has had all along is stored, or that an action still on the  *)
(* stack, and on any checkpoint the sync may be resumed from, will see to  *)
(* it; and that whatever a Grants call or a cached answer says was true at *)
(* some time of the sync.                                                  *)
(***************************************************************************)
EXTENDS FullSync, FiniteSetTheorems, SequenceTheorems, TLAPS

-----------------------------------------------------------------------------
(* The stack, and each checkpoint, is in the order in which Init pushes.   *)
Rank == [Init |-> 1, ResourceTypes |-> 2, Resources |-> 3, Entitlements |-> 4,
         Grants |-> 5, Expansion |-> 6]

InOrder(s) == /\ \A i, j \in DOMAIN s : i <= j => Rank[s[i].op] <= Rank[s[j].op]
              /\ \A i \in DOMAIN s : s[i].op = "Init" => s = Begin

(* The actions of A still have all the work of op before them, or may      *)
(* still find resources.                                                   *)
Due(A, op) == {All("Init"), All(op)} \cap A # {}
Opening == {"Init", "ResourceTypes"}
Listing(A) == \E a \in A : a.op \in Opening \cup {"Resources"}

PageOf(a) == PageIndex(getToken(a.page, a.type)) + 1
StoredIn(d) == ToSet(d.resources)
Entitled(d) == {r \in StoredIn(d) : r[1] \in WithEntitlement}

(* An action for one resource is for one that is stored.                   *)
TargetsStored(A, d) ==
  \A a \in A : a.op \in {"Entitlements", "Grants"} /\ a.type # Nothing =>
    <<a.type, a.name>> \in StoredIn(d)

(* No entitlements or grants are synced while resources may be found.      *)
LaterStagesDue(A) ==
  /\ Listing(A) => Due(A, "Entitlements") /\ Due(A, "Grants")
  /\ (\E a \in A : a.op \in Opening) => Due(A, "Resources")

TypesCovered(A, d) == d.types # << >> \/ Due(A, "ResourceTypes")

EntitlementsCovered(A, d) ==
  /\ d.entitlements \subseteq Entitled(d)
  /\ \A r \in Entitled(d) : \/ r \in d.entitlements
                            \/ Due(A, "Entitlements")
                            \/ Action("Entitlements", r[1], r[2], Nothing) \in A

ResourcesCovered(A, d, listed) ==
  \A x \in listed : \A t \in Types : \A i \in DOMAIN Pages[t] :
    x[1] = Pages[t][i] =>
      \/ ResourceOf(t, x[2]) \in StoredIn(d)
      \/ Due(A, "Resources")
      \/ \E a \in A : a.op = "Resources" /\ a.type = t /\ PageOf(a) <= i

GrantsCovered(A, d, grants) ==
  \A g \in grants : <<"policy", g[1]>> \in StoredIn(d) =>
    \/ g \in d.grants
    \/ Due(A, "Grants")
    \/ Action("Grants", "policy", g[1], Nothing) \in A

(* With d stored and the actions of A left, a sync misses nothing.         *)
Complete(A, d, known, lossy) ==
  /\ TargetsStored(A, d) /\ LaterStagesDue(A) /\ TypesCovered(A, d)
  /\ EntitlementsCovered(A, d)
  /\ ResourcesCovered(A, d, known.listed)
  /\ lossy \/ GrantsCovered(A, d, known.grants)

Covers(s, d, known, lossy) == InOrder(s) /\ Complete(ToSet(s), d, known, lossy)

(* So it is for the stack and the checkpoint of a sync in progress, for    *)
(* the saved file of one that failed, and for one that completed.          *)
Covered ==
  /\ phase = "running" => /\ Covers(stack, data, always, skipped)
                          /\ Covers(token, data, always, skipped)
                          /\ Listing(ToSet(stack)) => Listing(ToSet(token))
  /\ file.open => Covers(file.token, file.data, always, skipped)
  /\ phase = "done" => ~file.open /\ Covers(<< >>, file.data, always, skipped)

(* Vault is, now, between what it always and what it ever was.             *)
Frames == /\ always.listed \subseteq Listed /\ Listed \subseteq ever.listed
          /\ always.grants \subseteq Truth.grants /\ Truth.grants \subseteq ever.grants

(* And so is what the cache knows of it, or is about to know.              *)
Fits(k, names, least, most) ==
  IF k \in Users
  THEN \A p \in Policies : /\ p \in names => <<p, k>> \in most.grants
                           /\ <<p, k>> \in least.grants => p \in names
  ELSE \A n \in NamesAt[k] : /\ n \in names => <<k, n>> \in most.listed
                             /\ <<k, n>> \in least.listed => n \in names

KnownFits == /\ \A k \in Users \cup ReadByGet :
                  cache[k] \notin {Nothing, Garbled} => Fits(k, cache[k], always, ever)
             /\ flight # Nothing /\ flight.body # Garbled =>
                  Fits(flight.of, flight.body, always, ever)

(* A Grants call has found only users that held the policy at some time,   *)
(* and still has those to read that it must not miss.                      *)
ReadingFits ==
  reading # Nothing =>
    /\ {current.name} \X reading.found \subseteq ever.grants
    /\ \A g \in always.grants :
         g[1] = current.name => g[2] \in reading.todo \cup reading.found

StoredOnce == IsInjective(data.resources) /\ IsInjective(file.data.resources)

SyncInv == /\ TypeOK /\ Frames /\ KnownFits /\ ReadingFits
           /\ NothingInvented /\ StoredOnce /\ Covered

-----------------------------------------------------------------------------
(* Sequences.                                                              *)
LEMMA InToSet ==
  ASSUME NEW S, NEW s \in Seq(S)
  PROVE  /\ \A x : x \in ToSet(s) <=> \E i \in 1..Len(s) : x = s[i]
         /\ \A i \in 1..Len(s) : s[i] \in ToSet(s)
<1>1. DOMAIN s = 1..Len(s)
  OBVIOUS
<1> QED BY <1>1 DEF ToSet

LEMMA HeadAndTail ==
  ASSUME NEW S, NEW s \in Seq(S)
  PROVE  /\ ToSet(s) \subseteq S
         /\ s # << >> => ToSet(s) = {Head(s)} \cup ToSet(Tail(s))
<1>1. DOMAIN s = 1..Len(s) /\ \A i \in 1..Len(s) : s[i] \in S
  OBVIOUS
<1>2. ASSUME s # << >>
      PROVE  ToSet(s) = {Head(s)} \cup ToSet(Tail(s))
  <2>1. /\ Tail(s) \in Seq(S) /\ Len(Tail(s)) = Len(s) - 1 /\ Len(s) \in Nat \ {0}
        /\ \A i \in 1..Len(Tail(s)) : Tail(s)[i] = s[i + 1]
        /\ Head(s) = s[1]
    BY <1>2
  <2>2. \A i \in 1..Len(s) : s[i] \in {s[1]} \cup ToSet(Tail(s))
    <3> TAKE i \in 1..Len(s)
    <3>1. CASE i # 1
      <4>1. i - 1 \in 1..Len(Tail(s)) /\ s[i] = Tail(s)[i - 1]
        BY <2>1, <3>1
      <4> QED BY <2>1, <4>1, InToSet
    <3> QED BY <3>1
  <2>3. \A i \in 1..Len(Tail(s)) : Tail(s)[i] \in ToSet(s)
    <3> TAKE i \in 1..Len(Tail(s))
    <3>1. i + 1 \in 1..Len(s)
      BY <2>1
    <3> QED BY <2>1, <3>1, <1>1 DEF ToSet
  <2>4. s[1] \in ToSet(s)
    BY <2>1, <1>1 DEF ToSet
  <2> QED BY <1>1, <2>1, <2>2, <2>3, <2>4 DEF ToSet
<1> QED BY <1>1, <1>2 DEF ToSet

LEMMA ReverseConcat ==
  ASSUME NEW S, NEW a \in Seq(S), NEW s \in Seq(S)
  PROVE  LET r == Reverse(a) \o s IN
         /\ r \in Seq(S) /\ Len(r) = Len(a) + Len(s)
         /\ \A i \in 1..Len(r) : r[i] = IF i <= Len(a) THEN a[Len(a) - i + 1] ELSE s[i - Len(a)]
         /\ ToSet(r) = ToSet(a) \cup ToSet(s)
<1> DEFINE r == Reverse(a) \o s
<1>1. /\ Reverse(a) \in Seq(S) /\ Len(Reverse(a)) = Len(a)
      /\ \A i \in 1..Len(a) : Reverse(a)[i] = a[Len(a) - i + 1]
  BY DEF Reverse
<1>2. /\ r \in Seq(S) /\ Len(r) = Len(a) + Len(s)
      /\ \A i \in 1..Len(r) : r[i] = IF i <= Len(a) THEN a[Len(a) - i + 1] ELSE s[i - Len(a)]
  BY <1>1
<1> HIDE DEF r
<1>3. ASSUME NEW i \in 1..Len(r)  PROVE r[i] \in ToSet(a) \cup ToSet(s)
  <2>1. CASE i <= Len(a)
    <3>1. Len(a) - i + 1 \in DOMAIN a
      BY <2>1
    <3> QED BY <3>1, <2>1, <1>2 DEF ToSet
  <2>2. CASE ~ i <= Len(a)
    <3>1. i - Len(a) \in DOMAIN s
      BY <2>2, <1>2
    <3> QED BY <3>1, <2>2, <1>2 DEF ToSet
  <2> QED BY <2>1, <2>2
<1>4. ASSUME NEW i \in 1..Len(a)  PROVE a[i] \in ToSet(r)
  <2> DEFINE k == Len(a) - i + 1
  <2>1. k \in 1..Len(r) /\ k <= Len(a) /\ Len(a) - k + 1 = i
    BY <1>2
  <2>2. r[k] = a[i]
    BY <2>1, <1>2
  <2> QED BY <2>1, <2>2, <1>2, InToSet
<1>5. ASSUME NEW i \in 1..Len(s)  PROVE s[i] \in ToSet(r)
  <2>1. Len(a) + i \in 1..Len(r) /\ r[Len(a) + i] = s[i]
    BY <1>2
  <2> QED BY <2>1, <1>2 DEF ToSet
<1>6. ToSet(r) = ToSet(a) \cup ToSet(s)
  <2>1. ASSUME NEW x \in ToSet(r)  PROVE x \in ToSet(a) \cup ToSet(s)
    <3>1. PICK i \in 1..Len(r) : x = r[i]
      BY <2>1, <1>2, InToSet
    <3> QED BY <3>1, <1>3
  <2>2. ASSUME NEW x \in ToSet(a) \cup ToSet(s)  PROVE x \in ToSet(r)
    BY <1>4, <1>5, InToSet
  <2> QED BY <2>1, <2>2
<1> QED BY <1>2, <1>6 DEF r

LEMMA ReverseConcatSet ==
  ASSUME NEW S, NEW a \in Seq(S), NEW s \in Seq(S)
  PROVE  Reverse(a) \o s \in Seq(S) /\ ToSet(Reverse(a) \o s) = ToSet(a) \cup ToSet(s)
  BY ReverseConcat

(* SetToSeq lists a finite set, each element once.                         *)
LEMMA SetToSeqLists ==
  ASSUME NEW S, IsFiniteSet(S)
  PROVE  SetToSeq(S) \in Seq(S) /\ ToSet(SetToSeq(S)) = S /\ IsInjective(SetToSeq(S))
<1> DEFINE n == Cardinality(S)
           f == SetToSeq(S)
<1>1. n \in Nat /\ ExistsBijection(1..n, S)
  BY FS_CardinalityType
<1>2. PICK g \in [1..n -> S] : IsInjective(g)
  BY <1>1 DEF ExistsBijection, Bijection, Injection, IsInjective
<1>3. f \in [1..n -> S] /\ IsInjective(f)
  BY <1>2 DEF SetToSeq
<1>4. f \in Injection(1..n, S)
  BY <1>3 DEF Injection, IsInjective
<1>5. Cardinality(1..n) = n
  BY <1>1, FS_Interval
<1>6. f \in Surjection(1..n, S)
  BY <1>4, <1>5, FS_Injection
<1>7. ToSet(f) = S
  BY <1>3, <1>6 DEF Surjection, ToSet
<1>8. f \in Seq(S)
  BY <1>1, <1>3, SeqDef
<1> QED BY <1>3, <1>7, <1>8

(* An order of a finite set is a sequence of all of it.                    *)
LEMMA OrdersList ==
  ASSUME NEW S, IsFiniteSet(S), NEW s \in Orders(S)
  PROVE  s \in Seq(S) /\ ToSet(s) = S
<1> DEFINE n == Cardinality(S)
<1>1. n \in Nat /\ Cardinality(1..n) = n
  BY FS_CardinalityType, FS_Interval
<1>2. s \in [1..n -> S] /\ IsInjective(s)
  BY DEF Orders, IsInjective
<1>3. s \in Surjection(1..n, S)
  BY <1>1, <1>2, FS_Injection DEF Injection
<1>4. ToSet(s) = S
  BY <1>2, <1>3 DEF Surjection, ToSet
<1>5. s \in Seq(S)
  BY <1>1, <1>2, SeqDef
<1> QED BY <1>4, <1>5

(* A list without repetitions, extended by a set of new elements.          *)
LEMMA ConcatInjective ==
  ASSUME NEW S, NEW a \in Seq(S), NEW b \in Seq(S), IsInjective(a), IsInjective(b),
         ToSet(a) \cap ToSet(b) = {}
  PROVE  a \o b \in Seq(S) /\ IsInjective(a \o b) /\ ToSet(a \o b) = ToSet(a) \cup ToSet(b)
<1> DEFINE c == a \o b
<1>1. /\ c \in Seq(S) /\ Len(c) = Len(a) + Len(b)
      /\ \A i \in 1..Len(c) : c[i] = IF i <= Len(a) THEN a[i] ELSE b[i - Len(a)]
      /\ Len(a) \in Nat /\ Len(b) \in Nat
  OBVIOUS
<1>2. \A i \in 1..Len(a) : a[i] \in ToSet(a) /\ c[i] = a[i] /\ i \in 1..Len(c)
  BY <1>1 DEF ToSet
<1>3. \A i \in 1..Len(b) : b[i] \in ToSet(b) /\ c[Len(a) + i] = b[i] /\ Len(a) + i \in 1..Len(c)
  BY <1>1 DEF ToSet
<1>4. \A i \in 1..Len(c) : i > Len(a) => i - Len(a) \in 1..Len(b)
  BY <1>1
<1>5. IsInjective(c)
  <2> SUFFICES ASSUME NEW i \in 1..Len(c), NEW j \in 1..Len(c), c[i] = c[j]
               PROVE  i = j
    BY <1>1 DEF IsInjective
  <2>1. CASE i <= Len(a) /\ j <= Len(a)
    BY <2>1, <1>1 DEF IsInjective
  <2>2. CASE i > Len(a) /\ j > Len(a)
    <3>1. i - Len(a) = j - Len(a)
      BY <2>2, <1>1, <1>4 DEF IsInjective
    <3> QED BY <3>1, <1>1
  <2>3. CASE i <= Len(a) /\ j > Len(a)
    BY <2>3, <1>1, <1>2, <1>3, <1>4
  <2>4. CASE i > Len(a) /\ j <= Len(a)
    BY <2>4, <1>1, <1>2, <1>3, <1>4
  <2> QED BY <2>1, <2>2, <2>3, <2>4, <1>1
<1>6. ToSet(c) = ToSet(a) \cup ToSet(b)
  <2>1. \A i \in 1..Len(c) : c[i] \in ToSet(a) \cup ToSet(b)
    BY <1>1, <1>2, <1>3, <1>4
  <2>2. \A i \in 1..Len(a) : a[i] \in ToSet(c)
    BY <1>1, <1>2, InToSet
  <2>3. \A i \in 1..Len(b) : b[i] \in ToSet(c)
    BY <1>1, <1>3, InToSet
  <2>4. ASSUME NEW x \in ToSet(c)  PROVE x \in ToSet(a) \cup ToSet(b)
    <3>1. DOMAIN c = 1..Len(c)
      BY <1>1
    <3>2. PICK i \in DOMAIN c : x = c[i]
      BY <2>4 DEF ToSet
    <3> QED BY <3>1, <3>2, <2>1
  <2>5. ASSUME NEW x \in ToSet(a) \cup ToSet(b)  PROVE x \in ToSet(c)
    BY <2>2, <2>3, InToSet
  <2> QED BY <2>4, <2>5
<1> QED BY <1>1, <1>5, <1>6

-----------------------------------------------------------------------------
(* Pages, resources and actions.                                           *)
LEMMA PagesOfTypes ==
  ASSUME NEW t \in Types
  PROVE  /\ Len(Pages[t]) \in {1, 2} /\ DOMAIN Pages[t] = 1..Len(Pages[t])
         /\ \A i \in DOMAIN Pages[t] : Pages[t][i] \in Endpoints
<1>1. Types \subseteq ResourceTypes
  BY SyncAssumption
<1>2. Len(Pages[t]) \in {1, 2} /\ DOMAIN Pages[t] = 1..Len(Pages[t])
  BY <1>1 DEF ResourceTypes, Pages, UserList, RoleList, PolicyList, SecretList,
     AuthMethodList, GroupList, EntityList
<1>3. \A i \in DOMAIN Pages[t] : Pages[t][i] \in Endpoints
  BY DEF Endpoints, PagesOf
<1> QED BY <1>2, <1>3

(* No two types share a page.                                              *)
LEMMA PagesDiffer ==
  ASSUME NEW t \in Types, NEW u \in Types, NEW i \in DOMAIN Pages[t], NEW j \in DOMAIN Pages[u],
         Pages[t][i] = Pages[u][j]
  PROVE  t = u
<1>1. t \in ResourceTypes /\ u \in ResourceTypes
  BY SyncAssumption
<1>2. \A x \in ResourceTypes : \A k \in DOMAIN Pages[x] :
        Pages[x][k] \in CASE x = "user" -> {"auth/userpass/users"}
                          [] x = "role" -> {"auth/approle/role"}
                          [] x = "policy" -> {"sys/policy"}
                          [] x = "secret" -> {"kv", "secret/metadata"}
                          [] x = "auth_method" -> {"sys/auth"}
                          [] x = "group" -> {"identity/group/id"}
                          [] x = "entity" -> {"identity/entity/id"}
  BY DEF ResourceTypes, Pages, UserList, RoleList, PolicyList, SecretList,
     AuthMethodList, GroupList, EntityList
<1> QED BY <1>1, <1>2 DEF ResourceTypes

LEMMA TypeAtPage ==
  ASSUME NEW t \in Types, NEW i \in DOMAIN Pages[t]
  PROVE  TypeAt[Pages[t][i]] = t
<1> DEFINE e == Pages[t][i]
           u == CHOOSE u \in Types : e \in PagesOf(u)
<1>1. e \in PagesOf(t) /\ e \in Endpoints
  BY DEF PagesOf, Endpoints
<1>2. u \in Types /\ e \in PagesOf(u)
  BY <1>1
<1>3. u = t
  BY <1>2, PagesDiffer DEF PagesOf
<1> QED BY <1>1, <1>3 DEF TypeAt

LEMMA ResourcesAtPage ==
  ASSUME NEW t \in Types, NEW i \in DOMAIN Pages[t], NEW names
  PROVE  ResourcesAt(Pages[t][i], names) = {ResourceOf(t, n) : n \in names}
  BY TypeAtPage DEF ResourcesAt

(* A resource of the type policy is a policy.                              *)
LEMMA PolicyResources ==
  ASSUME NEW r \in Resources
  PROVE  r = <<r[1], r[2]>> /\ r[1] \in Types /\ (r[1] = "policy" => r[2] \in Policies)
<1>1. PICK e \in Endpoints : r \in ResourcesAt(e, NamesAt[e])
  BY DEF Resources
<1>2. PICK t \in Types : \E i \in DOMAIN Pages[t] : e = Pages[t][i]
  BY <1>1 DEF Endpoints, PagesOf
<1>3. PICK n \in NamesAt[e] : r = ResourceOf(t, n)
  <2>1. ResourcesAt(e, NamesAt[e]) = {ResourceOf(t, n) : n \in NamesAt[e]}
    BY <1>2, ResourcesAtPage
  <2> QED BY <1>1, <2>1
<1>4. t = "policy" => e = "sys/policy"
  BY <1>2 DEF Pages, PolicyList
<1> QED BY <1>3, <1>4 DEF ResourceOf, Policies

LEMMA NothingIsNoType == Nothing \notin Types \cup {"policy"}
  BY SyncAssumption, NothingAssumption DEF ResourceTypes

LEMMA ActionKinds ==
  ASSUME NEW a \in Actions
  PROVE  /\ a.op \in DOMAIN Rank /\ Rank[a.op] \in 1..6
         /\ a.type = Nothing => a = All(a.op)
         /\ a.type # Nothing =>
              \/ /\ a.op = "Resources" /\ a.type \in Types /\ a.page \in PageTokens(a.type)
                 /\ a = Action("Resources", a.type, Nothing, a.page)
              \/ /\ a.op \in {"Entitlements", "Grants"} /\ <<a.type, a.name>> \in Resources
                 /\ a = Action(a.op, a.type, a.name, Nothing)
<1> DEFINE ops == {"Init", "ResourceTypes", "Resources", "Entitlements", "Grants", "Expansion"}
<1>1. CASE \E op \in ops : a = All(op)
  BY <1>1 DEF All, Action, Rank
<1>2. CASE \E t \in Types : \E k \in PageTokens(t) : a = Action("Resources", t, Nothing, k)
  BY <1>2, NothingIsNoType DEF Action, Rank
<1>3. CASE \E op \in {"Entitlements", "Grants"} : \E r \in Resources :
             a = Action(op, r[1], r[2], Nothing)
  <2>1. PICK op \in {"Entitlements", "Grants"}, r \in Resources : a = Action(op, r[1], r[2], Nothing)
    BY <1>3
  <2>2. r = <<r[1], r[2]>> /\ r[1] # Nothing
    BY PolicyResources, NothingIsNoType
  <2> QED BY <2>1, <2>2 DEF Action, Rank
<1> QED BY <1>1, <1>2, <1>3 DEF Actions

LEMMA Alls ==
  ASSUME NEW op \in DOMAIN Rank
  PROVE  All(op) \in Actions /\ All(op).op = op /\ All(op).type = Nothing
  BY DEF Actions, All, Action, Rank

LEMMA PageActions ==
  ASSUME NEW t \in Types, NEW k \in PageTokens(t)
  PROVE  LET a == Action("Resources", t, Nothing, k)
         IN  a \in Actions /\ a.op = "Resources" /\ a.type = t /\ a.page = k /\ a.type # Nothing
  BY NothingIsNoType DEF Actions, Action

LEMMA ResourceActions ==
  ASSUME NEW op \in {"Entitlements", "Grants"}, NEW r \in Resources
  PROVE  LET a == Action(op, r[1], r[2], Nothing)
         IN  /\ a \in Actions /\ a.op = op /\ a.type = r[1] /\ a.name = r[2]
             /\ a.type # Nothing /\ <<a.type, a.name>> = r
  BY NothingIsNoType, PolicyResources DEF Actions, Action

(* The page an action reads, and the token it leads to.                    *)
LEMMA PagesInTurn ==
  ASSUME NEW t \in Types, NEW k \in PageTokens(t)
  PROVE  LET i == PageIndex(getToken(k, t)) IN
         /\ i \in 0..(Len(Pages[t]) - 1)
         /\ k = Nothing => i = 0
         /\ \A j \in 1..(Len(Pages[t]) - 1) : k = PageBag(t, j) => i = j
         /\ i + 1 = Len(Pages[t]) => NextPageToken(t, k) = Nothing
         /\ i + 1 < Len(Pages[t]) => /\ NextPageToken(t, k) # Nothing
                                     /\ NextPageToken(t, k) = PageBag(t, i + 1)
<1> DEFINE n == Len(Pages[t])
           i == PageIndex(getToken(k, t))
<1>1. n \in {1, 2}
  BY PagesOfTypes
<1>2. \/ k = Nothing
      \/ \E j \in 1..(n - 1) : k = PageBag(t, j)
  BY DEF PageTokens
<1>3. /\ getToken(k, t).states = << >> /\ getToken(k, t).current = PageState(IF k = Nothing THEN Nothing ELSE i, t)
      /\ i \in 0..(n - 1) /\ (k = Nothing => i = 0)
      /\ \A j \in 1..(n - 1) : k = PageBag(t, j) => i = j
  <2>3. \A j \in 1..(n - 1) : PageBag(t, j) # Nothing
    BY <1>1, NothingAssumption
  <2>1. CASE k = Nothing
    BY <1>1, <2>1, <2>3 DEF getToken, Unmarshal, NoStates, Push, PageState, PageIndex
  <2>2. ASSUME NEW j \in 1..(n - 1), k = PageBag(t, j)
        PROVE  getToken(k, t) = k /\ k.states = << >> /\ k.current = PageState(j, t) /\ k # Nothing
               /\ i = j
               /\ \A l \in 1..(n - 1) : k = PageBag(t, l) => i = l
    <3>1. k # Nothing /\ PageState(j, t) # Nothing /\ j # Nothing
      BY <2>2, <1>1, NothingAssumption
    <3>2. k.states = << >> /\ k.current = PageState(j, t)
      BY <2>2 DEF PageBag
    <3>3. getToken(k, t) = k
      BY <3>1, <3>2 DEF getToken, Unmarshal
    <3>4. i = j
      BY <3>1, <3>2, <3>3 DEF PageIndex, PageState
    <3> QED BY <2>2, <3>1, <3>2, <3>3, <3>4 DEF PageBag, PageState
  <2> QED BY <1>1, <1>2, <2>1, <2>2
<1>4. \A next : NextOf(getToken(k, t), next) = IF next = Nothing THEN NoStates ELSE PageBag(t, next)
  BY <1>3 DEF NextOf, Pop, Push, NoStates, PageBag, PageState
<1>5. NextToken(t, i) = IF i + 1 = n THEN Nothing ELSE i + 1
  BY <1>1, <1>3 DEF NextToken
<1>6. CASE i + 1 = n
  BY <1>4, <1>5, <1>6, <1>3, <1>1 DEF NextPageToken, Marshal, NoStates
<1>7. CASE i + 1 < n
  <2>1. i + 1 \in 1..n /\ i + 1 # Nothing
    BY <1>7, <1>1, <1>3, NothingAssumption
  <2>2. PageBag(t, i + 1) # Nothing /\ PageBag(t, i + 1).current # Nothing
    BY <2>1, NothingAssumption DEF PageBag
  <2>3. NextPageToken(t, k) = PageBag(t, i + 1)
    BY <1>4, <1>5, <1>7, <2>1, <2>2 DEF NextPageToken, Marshal
  <2> QED BY <2>2, <2>3, <1>3, <1>7
<1> QED BY <1>1, <1>3, <1>6, <1>7

-----------------------------------------------------------------------------
(* Complete, as actions are done with and the store grows.                 *)
LEMMA CompleteGrows ==
  ASSUME NEW A, NEW d, NEW d2, NEW known, NEW lossy, Complete(A, d, known, lossy),
         d.types # << >> => d2.types # << >>,
         StoredIn(d) \subseteq StoredIn(d2), StoredIn(d) = StoredIn(d2) \/ Listing(A),
         d.entitlements \subseteq d2.entitlements, d2.entitlements \subseteq Entitled(d2),
         d.grants \subseteq d2.grants
  PROVE  Complete(A, d2, known, lossy)
<1>1. TargetsStored(A, d2) /\ LaterStagesDue(A) /\ TypesCovered(A, d2)
  BY DEF Complete, TargetsStored, TypesCovered
<1>2. EntitlementsCovered(A, d2)
  BY DEF Complete, EntitlementsCovered, LaterStagesDue, Entitled
<1>3. ResourcesCovered(A, d2, known.listed)
  BY DEF Complete, ResourcesCovered
<1>4. lossy \/ GrantsCovered(A, d2, known.grants)
  BY DEF Complete, GrantsCovered, LaterStagesDue
<1> QED BY <1>1, <1>2, <1>3, <1>4 DEF Complete

LEMMA CompleteForLess ==
  ASSUME NEW A, NEW d, NEW known, NEW known2, NEW lossy, NEW lossy2,
         Complete(A, d, known, lossy), lossy => lossy2,
         known2.listed \subseteq known.listed, known2.grants \subseteq known.grants
  PROVE  Complete(A, d, known2, lossy2)
<1>1. ResourcesCovered(A, d, known2.listed)
  BY DEF Complete, ResourcesCovered
<1>2. lossy2 \/ GrantsCovered(A, d, known2.grants)
  BY DEF Complete, GrantsCovered
<1> QED BY <1>1, <1>2 DEF Complete

(* What a stage may count on when its first action h is at the top: the    *)
(* stages before it are through.                                           *)
Ahead(h, T) == /\ h \in Actions /\ T \subseteq Actions
               /\ \A a \in T : Rank[h.op] <= Rank[a.op] /\ a.op # "Init"

LEMMA Ranks ==
  /\ DOMAIN Rank = {"Init", "ResourceTypes", "Resources", "Entitlements", "Grants", "Expansion"}
  /\ Rank["Init"] = 1 /\ Rank["ResourceTypes"] = 2 /\ Rank["Resources"] = 3
  /\ Rank["Entitlements"] = 4 /\ Rank["Grants"] = 5 /\ Rank["Expansion"] = 6
  /\ \A op \in DOMAIN Rank : Rank[op] \in 1..6
  BY DEF Rank

LEMMA StageBegins ==
  ASSUME NEW h, NEW T, Ahead(h, T), NEW op \in DOMAIN Rank,
         Rank[op] < Rank[h.op]
  PROVE  /\ \A a \in {h} \cup T : a.op # op
         /\ h.op # "Init" => ~Due({h} \cup T, op)
<1>1. \A a \in {h} \cup T : a.op # op
  <2>0. h \in Actions /\ h.op \in DOMAIN Rank
    BY ActionKinds DEF Ahead
  <2>1. Rank[h.op] \in Int /\ Rank[op] \in Int
    BY <2>0, Ranks
  <2>2. \A a \in T : a.op # op
    BY <2>1 DEF Ahead
  <2> QED BY <2>1, <2>2
<1>2. h.op # "Init" => \A a \in {h} \cup T : a.op # "Init"
  BY DEF Ahead
<1> QED BY <1>1, <1>2, Alls, Ranks DEF Due

LEMMA StillDue ==
  ASSUME NEW h, NEW T, Ahead(h, T), NEW P, NEW op \in DOMAIN Rank, Due({h} \cup T, op),
         h.op \notin {"Init", op} \/ h.type # Nothing
  PROVE  Due(P \cup T, op)
  BY Alls, Ranks DEF Due

LEMMA AfterInit ==
  ASSUME NEW d, NEW known, NEW lossy, Complete({All("Init")}, d, known, lossy)
  PROVE  Complete({All("Expansion"), All("Grants"), All("Entitlements"), All("Resources"),
                   All("ResourceTypes")}, d, known, lossy)
<1> DEFINE A == {All("Expansion"), All("Grants"), All("Entitlements"), All("Resources"),
                 All("ResourceTypes")}
<1>1. \A op \in {"Grants", "Entitlements", "Resources", "ResourceTypes"} : Due(A, op)
  BY DEF Due
<1>2. \A a \in A : a.type = Nothing
  BY Alls, Ranks
<1>3. d.entitlements \subseteq Entitled(d)
  BY DEF Complete, EntitlementsCovered
<1> HIDE DEF A
<1>4. TargetsStored(A, d) /\ LaterStagesDue(A) /\ TypesCovered(A, d)
  BY <1>1, <1>2 DEF TargetsStored, LaterStagesDue, TypesCovered
<1>5. EntitlementsCovered(A, d)
  BY <1>1, <1>3 DEF EntitlementsCovered
<1>6. ResourcesCovered(A, d, known.listed) /\ GrantsCovered(A, d, known.grants)
  BY <1>1 DEF ResourcesCovered, GrantsCovered
<1>7. Complete(A, d, known, lossy)
  BY <1>4, <1>5, <1>6 DEF Complete
<1> QED BY <1>7 DEF A

(* An action that is done with, of a stage that is not Init, leaves what   *)
(* the stages before it and after it do.                                   *)
LEMMA AfterResourceTypes ==
  ASSUME NEW T, NEW d, NEW known, NEW lossy, Ahead(All("ResourceTypes"), T),
         Complete({All("ResourceTypes")} \cup T, d, known, lossy), d.types # << >>
  PROVE  Complete(T, d, known, lossy)
<1> DEFINE h == All("ResourceTypes")
           A == {h} \cup T
<1>1. h.op = "ResourceTypes" /\ h.type = Nothing /\ h \in Actions
  BY Alls, Ranks
<1>2. \A op \in {"Grants", "Entitlements", "Resources"} : Due(A, op) => Due(T, op)
  <2> TAKE op \in {"Grants", "Entitlements", "Resources"}
  <2>1. Due(A, op) => Due({} \cup T, op)
    BY <1>1, StillDue, Ranks
  <2> QED BY <2>1
<1>3. \A op \in {"Grants", "Entitlements", "Resources"} : Due(T, op)
  BY <1>1, <1>2 DEF Complete, LaterStagesDue, Listing, Opening
<1>4. TargetsStored(T, d) /\ EntitlementsCovered(T, d)
  BY <1>3 DEF Complete, TargetsStored, EntitlementsCovered
<1> QED BY <1>3, <1>4 DEF Complete, LaterStagesDue, TypesCovered, ResourcesCovered, GrantsCovered

LEMMA AfterResources ==
  ASSUME NEW T, NEW d, NEW known, NEW lossy, Ahead(All("Resources"), T),
         Complete({All("Resources")} \cup T, d, known, lossy)
  PROVE  /\ d.types # << >>
         /\ Complete({Action("Resources", t, Nothing, Nothing) : t \in Types} \cup T,
                     d, known, lossy)
<1> DEFINE h == All("Resources")
           A == {h} \cup T
           P == {Action("Resources", t, Nothing, Nothing) : t \in Types}
           B == P \cup T
<1>1. h.op = "Resources" /\ h.type = Nothing /\ h \in Actions
  BY Alls, Ranks
<1>2. \A op \in {"Init", "ResourceTypes"} : Rank[op] < Rank[h.op] /\ op \in DOMAIN Rank
  BY <1>1, Ranks
<1>3. \A a \in A : a.op \notin {"Init", "ResourceTypes"}
  BY <1>2, StageBegins
<1>4. d.types # << >>
  <2>1. ~Due(A, "ResourceTypes")
    BY <1>1, <1>2, StageBegins
  <2> QED BY <2>1 DEF Complete, TypesCovered
<1>5. Due(B, "Entitlements") /\ Due(B, "Grants")
  <2>1. Due(A, "Entitlements") /\ Due(A, "Grants")
    BY <1>1 DEF Complete, LaterStagesDue, Listing
  <2> QED BY <2>1, <1>1, StillDue, Ranks
<1>6. \A a \in P : a.op = "Resources" /\ a \in Actions
  BY PageActions DEF PageTokens
<1>7. TargetsStored(B, d) /\ LaterStagesDue(B) /\ EntitlementsCovered(B, d)
  <2>1. \A a \in B : a.op \notin Opening
    BY <1>3, <1>6 DEF Opening
  <2> QED BY <1>5, <1>6, <2>1 DEF Complete, TargetsStored, LaterStagesDue, EntitlementsCovered
<1>8. ResourcesCovered(B, d, known.listed)
  <2> SUFFICES ASSUME NEW t \in Types, NEW i \in DOMAIN Pages[t]
               PROVE  \E a \in P : a.op = "Resources" /\ a.type = t /\ PageOf(a) <= i
    BY DEF ResourcesCovered
  <2> DEFINE a == Action("Resources", t, Nothing, Nothing)
  <2>1. a \in P /\ a.op = "Resources" /\ a.type = t /\ a.page = Nothing
    BY PageActions DEF PageTokens
  <2>2. PageOf(a) = 1
    BY <2>1, PagesInTurn DEF PageOf, PageTokens
  <2> QED BY <2>1, <2>2, PagesOfTypes
<1>9. Complete(B, d, known, lossy)
  BY <1>4, <1>5, <1>7, <1>8 DEF Complete, TypesCovered, GrantsCovered
<1> QED BY <1>4, <1>9

(* A page is listed: its resources are stored, and the next is up.         *)
NextPageAction(t, k) ==
  IF NextPageToken(t, k) = Nothing THEN {}
  ELSE {Action("Resources", t, Nothing, NextPageToken(t, k))}

LEMMA NextPageActionType ==
  ASSUME NEW t \in Types, NEW k \in PageTokens(t)
  PROVE  /\ \A a \in NextPageAction(t, k) : /\ a \in Actions /\ a.op = "Resources"
                                            /\ a.type = t /\ a.type # Nothing
         /\ PageOf(Action("Resources", t, Nothing, k)) \in DOMAIN Pages[t]
         /\ \A i \in DOMAIN Pages[t] :
              PageOf(Action("Resources", t, Nothing, k)) < i =>
                \E a \in NextPageAction(t, k) : PageOf(a) <= i
<1> DEFINE i == PageIndex(getToken(k, t))
           n == Len(Pages[t])
           h == Action("Resources", t, Nothing, k)
           next == Action("Resources", t, Nothing, PageBag(t, i + 1))
<1>1. n \in {1, 2} /\ DOMAIN Pages[t] = 1..n /\ i \in 0..(n - 1)
  BY PagesOfTypes, PagesInTurn
<1>2. PageOf(h) = i + 1
  BY PageActions DEF PageOf
<1>3. CASE i + 1 = n
  <2>1. NextPageAction(t, k) = {}
    BY <1>3, PagesInTurn DEF NextPageAction
  <2> QED BY <2>1, <1>1, <1>2, <1>3
<1>4. CASE i + 1 < n
  <2>1. NextPageAction(t, k) = {next} /\ PageBag(t, i + 1) \in PageTokens(t)
    BY <1>1, <1>4, PagesInTurn DEF NextPageAction, PageTokens
  <2>2. /\ next \in Actions /\ next.op = "Resources" /\ next.type = t /\ next.type # Nothing
        /\ next.page = PageBag(t, i + 1)
    BY <2>1, PageActions
  <2>3. PageIndex(getToken(PageBag(t, i + 1), t)) = i + 1
    BY <2>1, <1>1, <1>4, PagesInTurn
  <2>4. PageOf(next) = i + 2
    BY <2>2, <2>3, <1>1 DEF PageOf
  <2> QED BY <2>1, <2>2, <2>4, <1>1, <1>2
<1> QED BY <1>1, <1>3, <1>4

LEMMA AfterPage ==
  ASSUME NEW T, NEW d, NEW known, NEW lossy, NEW t \in Types, NEW k \in PageTokens(t),
         Ahead(Action("Resources", t, Nothing, k), T),
         Complete({Action("Resources", t, Nothing, k)} \cup T, d, known, lossy),
         \A x \in known.listed :
           x[1] = Pages[t][PageOf(Action("Resources", t, Nothing, k))] =>
             ResourceOf(t, x[2]) \in StoredIn(d)
  PROVE  Complete(NextPageAction(t, k) \cup T, d, known, lossy)
<1> DEFINE h == Action("Resources", t, Nothing, k)
           A == {h} \cup T
           P == NextPageAction(t, k)
           B == P \cup T
<1>1. h \in Actions /\ h.op = "Resources" /\ h.type = t /\ h.type # Nothing
  BY PageActions
<1>2. /\ \A a \in P : a.op = "Resources" /\ a.type = t
      /\ PageOf(h) \in DOMAIN Pages[t]
      /\ \A i \in DOMAIN Pages[t] : PageOf(h) < i => \E a \in P : PageOf(a) <= i
  BY NextPageActionType
<1> HIDE DEF h, P
<1>3. \A op \in DOMAIN Rank : Due(A, op) => Due(B, op)
  BY <1>1, StillDue DEF h
<1>4. Due(B, "Entitlements") /\ Due(B, "Grants")
  BY <1>1, <1>3, Ranks DEF Complete, LaterStagesDue, Listing, h
<1>5. TargetsStored(B, d) /\ LaterStagesDue(B) /\ EntitlementsCovered(B, d)
  BY <1>2, <1>3, <1>4, Ranks DEF Complete, TargetsStored, LaterStagesDue, EntitlementsCovered,
     Opening, h
<1>6. ResourcesCovered(B, d, known.listed)
  <2> SUFFICES ASSUME NEW x \in known.listed, NEW u \in Types, NEW i \in DOMAIN Pages[u],
                      x[1] = Pages[u][i], ResourceOf(u, x[2]) \notin StoredIn(d),
                      ~Due(B, "Resources")
               PROVE  \E a \in B : a.op = "Resources" /\ a.type = u /\ PageOf(a) <= i
    BY DEF ResourcesCovered
  <2>1. ~Due(A, "Resources")
    BY <1>3, Ranks
  <2>2. PICK a \in A : a.op = "Resources" /\ a.type = u /\ PageOf(a) <= i
    BY <2>1 DEF Complete, ResourcesCovered, h
  <2>3. CASE a = h
    <3>1. t = u /\ PageOf(h) # i
      BY <1>1, <2>2, <2>3 DEF h
    <3>2. PageOf(h) < i
      BY <3>1, <2>2, <2>3, <1>2, PagesOfTypes
    <3> QED BY <3>1, <3>2, <1>2
  <2> QED BY <2>2, <2>3
<1>7. TypesCovered(B, d)
  BY <1>3, Ranks DEF Complete, TypesCovered, h
<1> QED BY <1>4, <1>5, <1>6, <1>7 DEF Complete, GrantsCovered, h, P

(* The actions for each resource.                                          *)
EachOf(op, d) == {Action(op, r[1], r[2], Nothing) : r \in StoredIn(d)}

LEMMA AfterAllEntitlements ==
  ASSUME NEW T, NEW d, NEW known, NEW lossy, StoredIn(d) \subseteq Resources,
         Ahead(All("Entitlements"), T),
         Complete({All("Entitlements")} \cup T, d, known, lossy)
  PROVE  Complete(EachOf("Entitlements", d) \cup T, d, known, lossy)
<1> DEFINE h == All("Entitlements")
           A == {h} \cup T
           P == EachOf("Entitlements", d)
           B == P \cup T
<1>1. h \in Actions /\ h.op = "Entitlements" /\ h.type = Nothing
  BY Alls, Ranks
<1>2. \A a \in P : a.op = "Entitlements" /\ <<a.type, a.name>> \in StoredIn(d)
  BY ResourceActions DEF EachOf
<1> HIDE DEF h, P
<1>3. \A op \in Opening \cup {"Resources"} : op \in DOMAIN Rank /\ Rank[op] < Rank[h.op]
  BY <1>1, Ranks DEF Opening
<1>4. /\ \A a \in B : a.op \notin Opening \cup {"Resources"}
      /\ \A op \in Opening \cup {"Resources"} : ~Due(A, op)
  <2>1. Ahead(h, T)
    BY DEF h
  <2>2. \A op \in Opening \cup {"Resources"} : \A a \in A : a.op # op
    BY <2>1, <1>3, StageBegins
  <2> QED BY <2>1, <2>2, <1>1, <1>2, <1>3, StageBegins DEF Opening
<1>5. TargetsStored(B, d) /\ LaterStagesDue(B) /\ TypesCovered(B, d)
  BY <1>2, <1>4 DEF Complete, TargetsStored, LaterStagesDue, Listing, TypesCovered, Opening, h
<1>6. EntitlementsCovered(B, d)
  BY DEF Complete, EntitlementsCovered, Entitled, EachOf, P
<1>7. ResourcesCovered(B, d, known.listed)
  BY <1>1, <1>4 DEF Complete, ResourcesCovered, h
<1>8. lossy \/ GrantsCovered(B, d, known.grants)
  <2>1. Due(A, "Grants") => Due(B, "Grants")
    BY <1>1, StillDue, Ranks DEF h
  <2>2. \A p : Action("Grants", "policy", p, Nothing) # h
    BY <1>1 DEF Action
  <2> QED BY <2>1, <2>2 DEF Complete, GrantsCovered, h
<1> QED BY <1>5, <1>6, <1>7, <1>8 DEF Complete, P

LEMMA AfterAllGrants ==
  ASSUME NEW T, NEW d, NEW known, NEW lossy, StoredIn(d) \subseteq Resources,
         Ahead(All("Grants"), T),
         Complete({All("Grants")} \cup T, d, known, lossy)
  PROVE  Complete(EachOf("Grants", d) \cup T, d, known, lossy)
<1> DEFINE h == All("Grants")
           A == {h} \cup T
           P == EachOf("Grants", d)
           B == P \cup T
           before == Opening \cup {"Resources", "Entitlements"}
<1>1. h \in Actions /\ h.op = "Grants" /\ h.type = Nothing
  BY Alls, Ranks
<1>2. \A a \in P : a.op = "Grants" /\ <<a.type, a.name>> \in StoredIn(d)
  BY ResourceActions DEF EachOf
<1> HIDE DEF h, P
<1>3. \A op \in before : op \in DOMAIN Rank /\ Rank[op] < Rank[h.op]
  BY <1>1, Ranks DEF Opening
<1>4. /\ \A a \in A \cup B : a.op \notin before
      /\ \A op \in before : ~Due(A, op)
  <2>1. Ahead(h, T)
    BY DEF h
  <2>2. \A op \in before : \A a \in A : a.op # op
    BY <2>1, <1>3, StageBegins
  <2> QED BY <2>1, <2>2, <1>1, <1>2, <1>3, StageBegins DEF Opening
<1>5. TargetsStored(B, d) /\ LaterStagesDue(B) /\ TypesCovered(B, d)
  BY <1>2, <1>4 DEF Complete, TargetsStored, LaterStagesDue, Listing, TypesCovered, Opening, h
<1>6. EntitlementsCovered(B, d)
  <2>1. \A type, n : Action("Entitlements", type, n, Nothing) # h
    BY <1>1 DEF Action
  <2> QED BY <2>1, <1>4 DEF Complete, EntitlementsCovered, h
<1>7. ResourcesCovered(B, d, known.listed)
  BY <1>1, <1>4 DEF Complete, ResourcesCovered, h
<1>8. GrantsCovered(B, d, known.grants)
  <2>1. \A g : <<"policy", g[1]>> \in StoredIn(d) => Action("Grants", "policy", g[1], Nothing) \in P
    BY DEF EachOf, P
  <2> QED BY <2>1 DEF GrantsCovered
<1> QED BY <1>5, <1>6, <1>7, <1>8 DEF Complete, P

LEMMA AfterEntitlement ==
  ASSUME NEW h, NEW T, NEW d, NEW known, NEW lossy, Ahead(h, T),
         h.op = "Entitlements", h.type # Nothing, StoredIn(d) \subseteq Resources,
         Complete({h} \cup T, d, known, lossy),
         h.type \in WithEntitlement => <<h.type, h.name>> \in d.entitlements
  PROVE  Complete(T, d, known, lossy)
<1>1. \A op \in DOMAIN Rank : Due({h} \cup T, op) => Due(T, op)
  <2> TAKE op \in DOMAIN Rank
  <2>1. Due({h} \cup T, op) => Due({} \cup T, op)
    BY StillDue
  <2> QED BY <2>1
<1>2. TargetsStored(T, d) /\ LaterStagesDue(T) /\ TypesCovered(T, d)
  BY <1>1, Ranks DEF Complete, TargetsStored, LaterStagesDue, Listing, TypesCovered
<1>3. EntitlementsCovered(T, d)
  <2> SUFFICES ASSUME NEW r \in Entitled(d), r \notin d.entitlements, ~Due(T, "Entitlements")
               PROVE  Action("Entitlements", r[1], r[2], Nothing) \in T
    BY DEF Complete, EntitlementsCovered
  <2>1. Action("Entitlements", r[1], r[2], Nothing) \in {h} \cup T
    BY <1>1, Ranks DEF Complete, EntitlementsCovered
  <2>2. CASE Action("Entitlements", r[1], r[2], Nothing) = h
    <3>1. h.type = r[1] /\ h.name = r[2]
      BY <2>2 DEF Action
    <3>2. r = <<r[1], r[2]>> /\ r[1] \in WithEntitlement
      BY PolicyResources DEF Entitled
    <3> QED BY <3>1, <3>2
  <2> QED BY <2>1, <2>2
<1>4. ResourcesCovered(T, d, known.listed)
  BY <1>1, Ranks DEF Complete, ResourcesCovered
<1>5. lossy \/ GrantsCovered(T, d, known.grants)
  <2>1. \A p : Action("Grants", "policy", p, Nothing) # h
    BY DEF Action
  <2> QED BY <2>1, <1>1, Ranks DEF Complete, GrantsCovered
<1> QED BY <1>2, <1>3, <1>4, <1>5 DEF Complete

LEMMA AfterGrants ==
  ASSUME NEW h, NEW T, NEW d, NEW known, NEW lossy, NEW lossy2, Ahead(h, T),
         h.op = "Grants", h.type # Nothing,
         Complete({h} \cup T, d, known, lossy), lossy => lossy2,
         \/ lossy2 \/ h.type # "policy"
         \/ \A g \in known.grants : g[1] = h.name => g \in d.grants
  PROVE  Complete(T, d, known, lossy2)
<1>1. \A op \in DOMAIN Rank : Due({h} \cup T, op) => Due(T, op)
  <2> TAKE op \in DOMAIN Rank
  <2>1. Due({h} \cup T, op) => Due({} \cup T, op)
    BY StillDue
  <2> QED BY <2>1
<1>2. TargetsStored(T, d) /\ LaterStagesDue(T) /\ TypesCovered(T, d)
  BY <1>1, Ranks DEF Complete, TargetsStored, LaterStagesDue, Listing, TypesCovered
<1>3. EntitlementsCovered(T, d)
  <2>1. \A type, n : Action("Entitlements", type, n, Nothing) # h
    BY DEF Action
  <2> QED BY <2>1, <1>1, Ranks DEF Complete, EntitlementsCovered
<1>4. ResourcesCovered(T, d, known.listed)
  BY <1>1, Ranks DEF Complete, ResourcesCovered
<1>5. ASSUME ~lossy2  PROVE GrantsCovered(T, d, known.grants)
  <2> SUFFICES ASSUME NEW g \in known.grants, <<"policy", g[1]>> \in StoredIn(d),
                      g \notin d.grants, ~Due(T, "Grants")
               PROVE  Action("Grants", "policy", g[1], Nothing) \in T
    BY DEF GrantsCovered
  <2>1. Action("Grants", "policy", g[1], Nothing) \in {h} \cup T
    BY <1>1, <1>5, Ranks DEF Complete, GrantsCovered
  <2>2. Action("Grants", "policy", g[1], Nothing) # h
    BY <1>5 DEF Action
  <2> QED BY <2>1, <2>2
<1> QED BY <1>2, <1>3, <1>4, <1>5 DEF Complete

LEMMA AfterExpansion ==
  ASSUME NEW h, NEW T, NEW d, NEW known, NEW lossy, Ahead(h, T), h.op = "Expansion",
         Complete({h} \cup T, d, known, lossy)
  PROVE  Complete(T, d, known, lossy)
<1> DEFINE done == DOMAIN Rank \ {"Expansion"}
<1>1. \A op \in done : Due({h} \cup T, op) => Due(T, op)
  <2> TAKE op \in done
  <2>1. Due({h} \cup T, op) => Due({} \cup T, op)
    BY StillDue
  <2> QED BY <2>1
<1>3. \A type, n : \A op \in {"Entitlements", "Grants"} : Action(op, type, n, Nothing) # h
  BY DEF Action
<1>4. {"ResourceTypes", "Resources", "Entitlements", "Grants"} \subseteq done
  BY Ranks
<1>5. TargetsStored(T, d) /\ LaterStagesDue(T) /\ TypesCovered(T, d)
  BY <1>1, <1>4 DEF Complete, TargetsStored, LaterStagesDue, Listing, TypesCovered
<1>6. EntitlementsCovered(T, d) /\ (lossy \/ GrantsCovered(T, d, known.grants))
  BY <1>1, <1>3, <1>4 DEF Complete, EntitlementsCovered, GrantsCovered
<1>7. ResourcesCovered(T, d, known.listed)
  BY <1>1, <1>4 DEF Complete, ResourcesCovered
<1> QED BY <1>5, <1>6, <1>7 DEF Complete

-----------------------------------------------------------------------------
(* The order of the stack.                                                 *)
LEMMA HeadIsAhead ==
  ASSUME NEW s \in Seq(Actions), s # << >>, InOrder(s)
  PROVE  Ahead(Head(s), ToSet(Tail(s))) /\ ToSet(s) = {Head(s)} \cup ToSet(Tail(s))
<1>1. /\ ToSet(s) = {Head(s)} \cup ToSet(Tail(s)) /\ ToSet(s) \subseteq Actions
      /\ Head(s) = s[1] /\ Tail(s) \in Seq(Actions) /\ Len(Tail(s)) = Len(s) - 1
      /\ \A i \in 1..Len(Tail(s)) : Tail(s)[i] = s[i + 1]
      /\ DOMAIN s = 1..Len(s)
  BY HeadAndTail
<1>2. ASSUME NEW a \in ToSet(Tail(s))
      PROVE  Rank[Head(s).op] <= Rank[a.op] /\ a.op # "Init"
  <2>0. Tail(s) \in Seq(Actions)
    BY <1>1
  <2>1. PICK i \in 1..Len(Tail(s)) : a = Tail(s)[i]
    BY <2>0, InToSet
  <2>2. i + 1 \in DOMAIN s /\ 1 \in DOMAIN s /\ 1 <= i + 1 /\ a = s[i + 1]
    BY <1>1, <2>1
  <2>3. s # Begin
    <3>1. Len(s) # 1
      BY <1>1, <2>1
    <3>2. Len(Begin) = 1
      BY DEF Begin
    <3> QED BY <3>1, <3>2, Zenon
  <2> QED BY <1>1, <2>2, <2>3 DEF InOrder
<1> QED BY <1>1, <1>2 DEF Ahead

LEMMA PushKeepsOrder ==
  ASSUME NEW s \in Seq(Actions), s # << >>, InOrder(s), NEW a \in Seq(Actions),
         Head(s).op # "Init", \A x \in ToSet(a) : x.op = Head(s).op
  PROVE  InOrder(Reverse(a) \o Tail(s))
<1> DEFINE r == Reverse(a) \o Tail(s)
           n == Len(a)
<1>1. /\ Head(s) = s[1] /\ Tail(s) \in Seq(Actions) /\ Len(Tail(s)) = Len(s) - 1
      /\ \A i \in 1..Len(Tail(s)) : Tail(s)[i] = s[i + 1]
      /\ DOMAIN s = 1..Len(s) /\ Len(s) \in Nat \ {0} /\ n \in Nat
  OBVIOUS
<1>2. /\ r \in Seq(Actions) /\ Len(r) = n + (Len(s) - 1) /\ DOMAIN r = 1..Len(r)
      /\ \A i \in 1..Len(r) : r[i] = IF i <= n THEN a[n - i + 1] ELSE Tail(s)[i - n]
  <2>1. Tail(s) \in Seq(Actions)
    BY <1>1
  <2>2. /\ r \in Seq(Actions) /\ Len(r) = Len(a) + Len(Tail(s))
        /\ \A i \in 1..Len(r) : r[i] = IF i <= Len(a) THEN a[Len(a) - i + 1]
                                       ELSE Tail(s)[i - Len(a)]
    BY <2>1, ReverseConcat
  <2> QED BY <1>1, <2>2
<1> HIDE DEF r
<1>3. ASSUME NEW i \in 1..Len(r), i <= n  PROVE r[i].op = Head(s).op
  <2>1. n - i + 1 \in 1..n
    BY <1>1, <1>3
  <2>2. a[n - i + 1] \in ToSet(a)
    BY <2>1, InToSet
  <2> QED BY <1>2, <1>3, <2>2
<1>4. ASSUME NEW i \in 1..Len(r), i > n  PROVE i - n + 1 \in 2..Len(s) /\ r[i] = s[i - n + 1]
  BY <1>1, <1>2, <1>4
<1>5. \A i \in DOMAIN s : Rank[s[1].op] <= Rank[s[i].op] /\ s[i].op # "Init"
  <2>1. s # Begin
    BY <1>1 DEF Begin, All, Action
  <2> QED BY <1>1, <2>1 DEF InOrder
<1>6. Rank[Head(s).op] \in Int
  <2>1. Head(s) \in Actions
    BY <1>1
  <2>2. Head(s).op \in DOMAIN Rank
    BY <2>1, ActionKinds
  <2> QED BY <2>2, Ranks
<1>7. ASSUME NEW i \in DOMAIN r, NEW j \in DOMAIN r, i <= j
      PROVE  Rank[r[i].op] <= Rank[r[j].op]
  <2>1. CASE j <= n
    <3>1. i <= n
      BY <1>7, <2>1, <1>1, <1>2
    <3> QED BY <3>1, <2>1, <1>2, <1>3, <1>6
  <2>2. CASE i <= n /\ j > n
    <3>1. j - n + 1 \in DOMAIN s /\ r[j] = s[j - n + 1]
      BY <1>4, <2>2, <1>1, <1>2
    <3>2. r[i].op = s[1].op
      BY <1>3, <2>2, <1>1, <1>2
    <3> QED BY <3>1, <3>2, <1>5
  <2>3. CASE i > n
    <3>1. j > n /\ i - n + 1 <= j - n + 1
      BY <1>7, <2>3, <1>1, <1>2
    <3>2. i - n + 1 \in DOMAIN s /\ r[i] = s[i - n + 1]
      BY <1>4, <2>3, <1>1, <1>2
    <3>3. j - n + 1 \in DOMAIN s /\ r[j] = s[j - n + 1]
      BY <1>4, <3>1, <1>1, <1>2
    <3> QED BY <3>1, <3>2, <3>3 DEF InOrder
  <2> QED BY <2>1, <2>2, <2>3, <1>1, <1>2
<1>8. ASSUME NEW i \in DOMAIN r  PROVE r[i].op # "Init"
  <2>1. CASE i <= n
    BY <2>1, <1>2, <1>3
  <2>2. CASE i > n
    <3>1. i - n + 1 \in DOMAIN s /\ r[i] = s[i - n + 1]
      BY <1>4, <2>2, <1>1, <1>2
    <3> QED BY <3>1, <1>5
  <2> QED BY <2>1, <2>2, <1>1, <1>2
<1>9. InOrder(r)
  BY <1>7, <1>8 DEF InOrder
<1> QED BY <1>9 DEF r

Stages == <<All("Expansion"), All("Grants"), All("Entitlements"), All("Resources"),
            All("ResourceTypes")>>

LEMMA InitKeepsOrder ==
  LET r == Reverse(Stages) \o Tail(Begin)
  IN  /\ r \in Seq(Actions) /\ r # << >> /\ InOrder(r)
      /\ ToSet(r) = {All("Expansion"), All("Grants"), All("Entitlements"), All("Resources"),
                     All("ResourceTypes")}
      /\ ToSet(Begin) = {All("Init")} /\ Begin \in Seq(Actions) /\ Begin # << >> /\ InOrder(Begin)
<1> DEFINE r == Reverse(Stages) \o Tail(Begin)
<1>1. \A op \in {"Init", "Expansion", "Grants", "Entitlements", "Resources", "ResourceTypes"} :
        All(op) \in Actions /\ All(op).op = op
  BY Alls, Ranks
<1>2. /\ Begin \in Seq(Actions) /\ Begin # << >> /\ Tail(Begin) = << >> /\ Len(Begin) = 1
      /\ Begin[1] = All("Init")
  BY <1>1 DEF Begin
<1>3. Stages \in Seq(Actions) /\ Len(Stages) = 5
  BY <1>1 DEF Stages
<1>4. /\ r \in Seq(Actions) /\ Len(r) = 5 /\ ToSet(r) = ToSet(Stages)
      /\ \A i \in 1..5 : r[i] = Stages[5 - i + 1]
  <2> DEFINE e == Tail(Begin)
  <2>1. e \in Seq(Actions) /\ Len(e) = 0
    BY <1>2
  <2> HIDE DEF e
  <2>2. /\ r \in Seq(Actions) /\ Len(r) = Len(Stages) + Len(e)
        /\ \A i \in 1..Len(r) : r[i] = IF i <= Len(Stages) THEN Stages[Len(Stages) - i + 1]
                                       ELSE e[i - Len(Stages)]
        /\ ToSet(r) = ToSet(Stages) \cup ToSet(e)
    BY <2>1, <1>3, ReverseConcat DEF e
  <2>3. ToSet(e) = {}
    BY <1>2 DEF e, ToSet
  <2> QED BY <1>3, <2>1, <2>2, <2>3
<1>5. /\ r[1] = All("ResourceTypes") /\ r[2] = All("Resources") /\ r[3] = All("Entitlements")
      /\ r[4] = All("Grants") /\ r[5] = All("Expansion")
  BY <1>4 DEF Stages
<1> HIDE DEF r
<1>6. \A i \in 1..5 : r[i].op # "Init" /\ Rank[r[i].op] = i + 1
  BY <1>1, <1>5, Ranks
<1>7. InOrder(r)
  BY <1>4, <1>6 DEF InOrder
<1>8. InOrder(Begin) /\ ToSet(Begin) = {All("Init")}
  <2>1. DOMAIN Begin = {1}
    BY <1>2
  <2>2. Rank[All("Init").op] <= Rank[All("Init").op]
    BY <1>1, Ranks
  <2> QED BY <1>2, <2>1, <2>2 DEF InOrder, ToSet
<1>9. ToSet(Stages) = {All("Expansion"), All("Grants"), All("Entitlements"), All("Resources"),
                       All("ResourceTypes")}
  BY DEF Stages, ToSet
<1> QED BY <1>2, <1>4, <1>7, <1>8, <1>9 DEF r

-----------------------------------------------------------------------------
(* What a request returns, and what it leaves in the cache.                *)
(* A list of names that fits what Vault had, under the names of k.         *)
Good(k, names, least, most) == names \in SUBSET NamesOf(k) /\ Fits(k, names, least, most)

CacheOK == /\ cache = [k \in Users \cup ReadByGet |-> cache[k]]
           /\ \A k \in Users \cup ReadByGet :
                cache[k] \in {Nothing, Garbled} \/ Good(k, cache[k], always, ever)
           /\ flight # Nothing =>
                /\ flight = [of |-> flight.of, body |-> flight.body]
                /\ flight.of \in Users \cup ReadByGet
                /\ flight.body = Garbled \/ Good(flight.of, flight.body, always, ever)

LEMMA CacheIsOK == TypeOK /\ KnownFits => CacheOK
  BY DEF TypeOK, KnownFits, CacheOK, Good, NamesOf, MayKeep

LEMMA Statuses ==
  /\ RequestStatus(Reply("404", "errors")) = "NotFound"
  /\ RequestStatus(Reply("404", "noerrors")) = "OK"
  /\ RequestStatus(Reply("200", "data")) = "OK"
  BY DEF RequestStatus, Reply, DoStatus

LEMMA EndpointAnswers ==
  ASSUME TypeOK, Frames, NEW e \in Endpoints, RequestStatus(ListReply(e)) = "OK"
  PROVE  /\ BodyOf(ListReply(e), content[e]) = ListedAt(e)
         /\ Good(e, ListedAt(e), always, ever)
<1>1. content[e] # Unmounted
  BY Statuses, SyncAssumption DEF ListReply
<1>2. BodyOf(ListReply(e), content[e]) = ListedAt(e) /\ ListedAt(e) = content[e]
  BY <1>1 DEF ListReply, BodyOf, Reply, ListedAt
<1>3. content[e] \in SUBSET NamesAt[e]
  BY <1>1 DEF TypeOK, MayList
<1>4. \A n : n \in ListedAt(e) <=> <<e, n>> \in Listed
  BY DEF Listed
<1>5. e \notin Users
  BY SyncAssumption
<1> QED BY <1>2, <1>3, <1>4, <1>5 DEF Good, NamesOf, Fits, Frames

LEMMA UserAnswers ==
  ASSUME TypeOK, Frames, NEW u \in Users
  PROVE  /\ u \in ListedUsers => Good(u, assigned[u], always, ever)
         /\ RequestStatus(UserReply(u)) = "OK" => Good(u, BodyOf(UserReply(u), assigned[u]), always, ever)
<1>1. \A p \in Policies : <<p, u>> \in Truth.grants <=> u \in ListedUsers /\ p \in assigned[u]
  BY DEF Truth
<1>2. ASSUME u \in ListedUsers  PROVE Good(u, assigned[u], always, ever)
  BY <1>1, <1>2 DEF Good, NamesOf, Fits, Frames, TypeOK
<1>3. ASSUME u \notin ListedUsers  PROVE Good(u, {}, always, ever)
  BY <1>1, <1>3 DEF Good, NamesOf, Fits, Frames
<1>4. RequestStatus(UserReply(u)) = "OK" =>
        BodyOf(UserReply(u), assigned[u]) = IF u \in ListedUsers THEN assigned[u] ELSE {}
  BY DEF UserReply, RequestStatus, Reply, DoStatus, BodyOf
<1> QED BY <1>2, <1>3, <1>4

LEMMA Succeeded ==
  ASSUME CacheOK, NEW k, NEW reply, NEW truth, Succeed(k, reply, truth),
         RequestStatus(reply) = "OK" => Good(k, BodyOf(reply, truth), always, ever),
         UNCHANGED <<always, ever, flight>>
  PROVE  Good(k, Result(k, reply, truth), always, ever) /\ CacheOK'
<1>2. Good(k, Result(k, reply, truth), always, ever)
  BY DEF Succeed, Result, Hit, CacheOK
<1>3. CASE UNCHANGED cache
  BY <1>2, <1>3 DEF CacheOK
<1>4. CASE ~Hit(k) /\ RequestStatus(reply) = "OK" /\ Keep(k, reply, BodyOf(reply, truth))
  BY <1>2, <1>4 DEF CacheOK, Keep
<1> QED BY <1>2, <1>3, <1>4 DEF Succeed

(* A request that fails leaves nothing to go by.                           *)
LEMMA Broke ==
  ASSUME CacheOK, NEW k, NEW reply, NEW truth, NEW t, Break(k, reply, truth, t),
         reply.code = "200" => RequestStatus(reply) = "OK",
         UNCHANGED <<always, ever, flight>>
  PROVE  CacheOK' /\ (Retry(t) \/ Fail(t) \/ (Skip(t) /\ current.op = "Grants"))
<1>2. PICK r \in IF Hit(k) THEN {Reply("200", "garbled")} ELSE {reply} \cup ReadFaults :
        /\ RequestStatus(r) # "OK"
        /\ Handle(RequestStatus(r), t)
        /\ \/ cache' = EmptyCache
           \/ Keep(k, r, BodyOf(r, truth))
  BY DEF Break
<1>3. Cacheable(r) => BodyOf(r, truth) = Garbled
  <2>1. r.code = "200" => r = reply \/ r.body = "garbled"
    BY <1>2 DEF ReadFaults, FaultReplies, Reply
  <2> QED BY <2>1, <1>2 DEF Cacheable, BodyOf
<1>4. CacheOK'
  <2>1. CASE cache' = EmptyCache
    BY <2>1 DEF CacheOK, EmptyCache
  <2>2. CASE Keep(k, r, BodyOf(r, truth))
    BY <1>3, <2>2 DEF CacheOK, Keep
  <2> QED BY <1>2, <2>1, <2>2
<1>5. Retry(t) \/ Fail(t) \/ (Skip(t) /\ current.op = "Grants")
  BY <1>2 DEF Handle
<1> QED BY <1>4, <1>5

LEMMA Replies ==
  ASSUME NEW e, NEW u
  PROVE  /\ ListReply(e).code = "200" => RequestStatus(ListReply(e)) = "OK"
         /\ UserReply(u).code = "200" => RequestStatus(UserReply(u)) = "OK"
  BY DEF ListReply, UserReply, Reply, RequestStatus, DoStatus

-----------------------------------------------------------------------------
(* A step of a sync in progress.                                           *)
Grows(d, d2, A) ==
  /\ d2 \in MayStore
  /\ d.types # << >> => d2.types # << >>
  /\ StoredIn(d) \subseteq StoredIn(d2) /\ (StoredIn(d) = StoredIn(d2) \/ Listing(A))
  /\ d.entitlements \subseteq d2.entitlements /\ d2.entitlements \subseteq Entitled(d2)
  /\ d.grants \subseteq d2.grants

Honest(d, known) == /\ StoredIn(d) \subseteq ResourcesOf(known.listed)
                    /\ d.grants \subseteq known.grants
                    /\ IsInjective(d.resources)

Advances ==
  /\ phase' = "running" /\ UNCHANGED file
  /\ stack' \in Seq(Actions) /\ Covers(stack', data', always, skipped')
  /\ Listing(ToSet(stack')) => Listing(ToSet(stack))
  /\ Grows(data, data', ToSet(stack)) /\ Honest(data', ever)
  /\ token' # << >> /\ token' \in {token, stack, stack'}
  /\ skipped' \in {skipped, TRUE}
  /\ warnings' \in 0..(MaxWarnings + 1)

(* What a sync in progress has to start a step from.                       *)
LEMMA Running ==
  ASSUME SyncInv, phase = "running", stack # << >>, NEW t \in Tokens
  PROVE  /\ stack \in Seq(Actions) /\ InOrder(stack) /\ current \in Actions
         /\ Complete(ToSet(stack), data, always, skipped)
         /\ Ahead(current, ToSet(Tail(stack)))
         /\ ToSet(stack) = {current} \cup ToSet(Tail(stack))
         /\ data \in MayStore /\ Grows(data, data, ToSet(stack)) /\ Honest(data, ever)
         /\ StoredIn(data) \subseteq Resources
         /\ t # << >> /\ t \in {token, stack}
<1>1. /\ stack \in Seq(Actions) /\ InOrder(stack) /\ Complete(ToSet(stack), data, always, skipped)
      /\ data \in MayStore /\ token # << >>
  BY DEF SyncInv, TypeOK, Covered, Covers
<1>2. current \in Actions
  BY <1>1 DEF current
<1>3. Ahead(current, ToSet(Tail(stack))) /\ ToSet(stack) = {current} \cup ToSet(Tail(stack))
  BY <1>1, HeadIsAhead DEF current
<1>4. Grows(data, data, ToSet(stack))
  BY <1>1 DEF Grows, Complete, EntitlementsCovered
<1>5. Honest(data, ever)
  BY DEF SyncInv, NothingInvented, StoredOnce, Honest, StoredIn
<1>6. StoredIn(data) \subseteq Resources
  BY <1>1, HeadAndTail DEF MayStore, StoredIn
<1> QED BY <1>1, <1>2, <1>3, <1>4, <1>5, <1>6 DEF Tokens

LEMMA Pushed ==
  ASSUME stack \in Seq(Actions), stack # << >>, InOrder(stack),
         NEW a \in Seq(Actions), FinishAndPush(a),
         current.op # "Init", \A x \in ToSet(a) : x.op = current.op
  PROVE  /\ stack' \in Seq(Actions) /\ InOrder(stack')
         /\ ToSet(stack') = ToSet(a) \cup ToSet(Tail(stack))
         /\ Listing(ToSet(stack')) => Listing(ToSet(stack))
<1>1. stack' \in Seq(Actions) /\ ToSet(stack') = ToSet(a) \cup ToSet(Tail(stack))
  <2>1. Tail(stack) \in Seq(Actions)
    OBVIOUS
  <2>2. stack' = Reverse(a) \o Tail(stack)
    BY DEF FinishAndPush
  <2>3. /\ Reverse(a) \o Tail(stack) \in Seq(Actions)
        /\ ToSet(Reverse(a) \o Tail(stack)) = ToSet(a) \cup ToSet(Tail(stack))
    BY <2>1, ReverseConcatSet
  <2> QED BY <2>2, <2>3, Zenon
<1>2. InOrder(stack')
  BY PushKeepsOrder DEF FinishAndPush, current
<1>3. ToSet(stack) = {current} \cup ToSet(Tail(stack))
  BY HeadAndTail DEF current
<1> QED BY <1>1, <1>2, <1>3 DEF Listing

LEMMA Popped ==
  ASSUME stack \in Seq(Actions), stack # << >>, InOrder(stack), Finish, current.op # "Init"
  PROVE  /\ stack' \in Seq(Actions) /\ InOrder(stack')
         /\ ToSet(stack') = ToSet(Tail(stack))
         /\ Listing(ToSet(stack')) => Listing(ToSet(stack))
<1>1. << >> \in Seq(Actions) /\ ToSet(<< >>) = {}
  BY DEF ToSet
<1>2. \A x \in ToSet(<< >>) : x.op = current.op
  BY <1>1
<1> QED BY <1>1, <1>2, Pushed DEF Finish

(* An advance keeps the part of the invariant that is about the sync.      *)
SyncPart == /\ phase \in {"idle", "running", "done", "failed"}
            /\ {stack, token, file.token} \subseteq Seq(Actions)
            /\ token # << >> /\ file.token # << >>
            /\ phase # "running" => stack = << >>
            /\ {data, file.data} \subseteq MayStore
            /\ file = [data |-> file.data, token |-> file.token, open |-> file.open]
            /\ file.open \in BOOLEAN
            /\ warnings \in 0..(MaxWarnings + 1)
            /\ skipped \in BOOLEAN
            /\ NothingInvented /\ StoredOnce /\ Covered

LEMMA AdvancesKeeps ==
  ASSUME SyncInv, phase = "running", Advances, UNCHANGED <<always, ever>>
  PROVE  SyncPart'
<1>1. /\ stack \in Seq(Actions) /\ token \in Seq(Actions)
      /\ Covers(stack, data, always, skipped) /\ Covers(token, data, always, skipped)
      /\ Listing(ToSet(stack)) => Listing(ToSet(token))
  BY DEF SyncInv, TypeOK, Covered
<1>2. skipped => skipped'
  BY Zenon DEF Advances
<1>3. \A s \in {stack, token} : Covers(s, data', always, skipped')
  <2> SUFFICES ASSUME NEW s \in {stack, token}
               PROVE  Covers(s, data', always, skipped')
    OBVIOUS
  <2>1. Covers(s, data, always, skipped) /\ (Listing(ToSet(stack)) => Listing(ToSet(s)))
    BY <1>1
  <2>2. Complete(ToSet(s), data', always, skipped)
    BY <2>1, CompleteGrows DEF Advances, Grows, Covers
  <2> QED BY <1>2, <2>1, <2>2, CompleteForLess DEF Covers
<1>4. Covers(token', data', always, skipped') /\ (Listing(ToSet(stack')) => Listing(ToSet(token')))
  BY <1>1, <1>3 DEF Advances
<1>5. file'.open => Covers(file'.token, file'.data, always, skipped')
  <2>1. file.open => Covers(file.token, file.data, always, skipped)
    BY DEF SyncInv, Covered
  <2> QED BY <1>2, <2>1, CompleteForLess DEF Advances, Covers
<1>6. Covered'
  BY <1>4, <1>5 DEF Covered, Advances
<1>7. NothingInvented' /\ StoredOnce'
  BY DEF SyncInv, Advances, NothingInvented, StoredOnce, Honest, StoredIn
<1>8. {stack', token', file'.token} \subseteq Seq(Actions) /\ {data', file'.data} \subseteq MayStore
  BY <1>1 DEF SyncInv, TypeOK, Advances, Grows
<1> QED BY <1>6, <1>7, <1>8 DEF SyncInv, TypeOK, Advances, SyncPart

-----------------------------------------------------------------------------
(* Every action of the loop advances, or the run of the sync ends.         *)
LEMMA InitAdvances ==
  ASSUME SyncInv, NEW t \in Tokens, InitOp(t)
  PROVE  Advances
<1>1. /\ phase = "running" /\ stack # << >> /\ current.op = "Init" /\ UNCHANGED data
      /\ FinishAndPush(Stages) /\ (Goes(t) \/ Goes(stack'))
  BY DEF InitOp, At, Stages
<1>2. /\ stack \in Seq(Actions) /\ InOrder(stack) /\ Complete(ToSet(stack), data, always, skipped)
      /\ Grows(data, data, ToSet(stack)) /\ Honest(data, ever)
      /\ t # << >> /\ t \in {token, stack}
  BY <1>1, Running
<1>3. stack = Begin
  <2>1. 1 \in DOMAIN stack /\ stack[1] = current
    BY <1>1, <1>2 DEF current
  <2> QED BY <1>1, <1>2, <2>1 DEF InOrder
<1>4. /\ stack' \in Seq(Actions) /\ stack' # << >> /\ InOrder(stack')
      /\ ToSet(stack') = {All("Expansion"), All("Grants"), All("Entitlements"),
                          All("Resources"), All("ResourceTypes")}
      /\ ToSet(stack) = {All("Init")}
  BY <1>1, <1>3, InitKeepsOrder DEF FinishAndPush
<1>5. Complete(ToSet(stack'), data, always, skipped)
  BY <1>2, <1>4, AfterInit
<1>6. Listing(ToSet(stack))
  BY <1>4, Alls, Ranks DEF Listing, Opening
<1>7. UNCHANGED <<file, warnings, skipped>> /\ phase' = phase /\ token' \in {t, stack'}
  BY <1>1 DEF Goes
<1> QED BY <1>1, <1>2, <1>4, <1>5, <1>6, <1>7 DEF Advances, Covers, SyncInv, TypeOK

(* What is left to show of an action, once its effects are known.          *)
LEMMA GoesAdvances ==
  ASSUME SyncInv, NEW t \in Tokens, phase = "running", stack # << >>, current.op # "Init",
         NEW a \in Seq(Actions), FinishAndPush(a), \A x \in ToSet(a) : x.op = current.op,
         Goes(t), Grows(data, data', ToSet(stack)), Honest(data', ever),
         Complete(ToSet(a) \cup ToSet(Tail(stack)), data', always, skipped)
  PROVE  Advances
<1>1. /\ stack \in Seq(Actions) /\ InOrder(stack) /\ t # << >> /\ t \in {token, stack}
  BY Running
<1>2. /\ stack' \in Seq(Actions) /\ InOrder(stack')
      /\ ToSet(stack') = ToSet(a) \cup ToSet(Tail(stack))
      /\ Listing(ToSet(stack')) => Listing(ToSet(stack))
  BY <1>1, Pushed
<1>3. UNCHANGED <<file, warnings, skipped>> /\ phase' = phase /\ token' = t
  BY DEF Goes
<1> QED BY <1>1, <1>2, <1>3 DEF Advances, Covers, SyncInv, TypeOK

LEMMA NoActions == << >> \in Seq(Actions) /\ ToSet(<< >>) = {}
  BY DEF ToSet

LEMMA FinishAdvances ==
  ASSUME SyncInv, NEW t \in Tokens, phase = "running", stack # << >>, current.op # "Init",
         Finish, Goes(t), Grows(data, data', ToSet(stack)), Honest(data', ever),
         Complete(ToSet(Tail(stack)), data', always, skipped)
  PROVE  Advances
<1>1. \A x \in ToSet(<< >>) : x.op = current.op
  BY NoActions
<1>2. ToSet(<< >>) \cup ToSet(Tail(stack)) = ToSet(Tail(stack))
  BY NoActions
<1> QED BY <1>1, <1>2, NoActions, GoesAdvances DEF Finish

LEMMA TypesAreFinite == IsFiniteSet(Types) /\ \A s \in Orders(Types) : s # << >>
<1>1. Types \subseteq ResourceTypes /\ "user" \in Types
  BY SyncAssumption
<1>2. IsFiniteSet(ResourceTypes)
  <2>1. \A S, x : IsFiniteSet(S) => IsFiniteSet(S \cup {x})
    BY FS_AddElement
  <2>2. IsFiniteSet({} \cup {"user"} \cup {"role"} \cup {"policy"} \cup {"secret"}
                       \cup {"auth_method"} \cup {"group"} \cup {"entity"})
    BY <2>1, FS_EmptySet
  <2>3. ResourceTypes = {} \cup {"user"} \cup {"role"} \cup {"policy"} \cup {"secret"}
                           \cup {"auth_method"} \cup {"group"} \cup {"entity"}
    BY DEF ResourceTypes
  <2> QED BY <2>2, <2>3
<1>3. IsFiniteSet(Types)
  BY <1>1, <1>2, FS_Subset
<1>4. ASSUME NEW s \in Orders(Types)  PROVE s # << >>
  BY <1>1, <1>3, OrdersList, NoActions
<1> QED BY <1>3, <1>4

LEMMA ResourceTypesAdvances ==
  ASSUME SyncInv, NEW t \in Tokens, SyncResourceTypes(t)
  PROVE  Advances
<1>1. /\ phase = "running" /\ stack # << >> /\ current.op = "ResourceTypes"
      /\ Finish /\ Goes(t)
  BY DEF SyncResourceTypes, At
<1>2. /\ data' = [data EXCEPT !.types = data'.types] /\ data'.types \in Orders(Types)
      /\ data'.types # << >>
  <2>1. CASE data.types = << >>
    BY <2>1, TypesAreFinite DEF SyncResourceTypes, Store, MayStore, SyncInv, TypeOK
  <2>2. CASE data.types # << >>
    BY <2>2 DEF SyncResourceTypes, MayStore, SyncInv, TypeOK
  <2> QED BY <2>1, <2>2
<1>3. /\ current \in Actions /\ Complete(ToSet(stack), data, always, skipped)
      /\ Ahead(current, ToSet(Tail(stack)))
      /\ ToSet(stack) = {current} \cup ToSet(Tail(stack))
      /\ Grows(data, data, ToSet(stack)) /\ Honest(data, ever) /\ data \in MayStore
  BY <1>1, Running
<1>4. Grows(data, data', ToSet(stack)) /\ Honest(data', ever)
  <2>1. StoredIn(data') = StoredIn(data)
    BY <1>2, <1>3 DEF MayStore, StoredIn
  <2> QED BY <2>1, <1>2, <1>3 DEF Grows, Honest, MayStore, Entitled
<1>5. current = All("ResourceTypes")
  BY <1>1, <1>3, ActionKinds
<1>6. Complete(ToSet(stack), data', always, skipped)
  BY <1>3, <1>4, CompleteGrows DEF Grows
<1>7. Complete(ToSet(Tail(stack)), data', always, skipped)
  BY <1>2, <1>3, <1>5, <1>6, AfterResourceTypes
<1> QED BY <1>1, <1>4, <1>7, FinishAdvances

LEMMA ResourcesAdvances ==
  ASSUME SyncInv, NEW t \in Tokens, SyncResources(t)
  PROVE  Advances
<1> DEFINE a == [i \in DOMAIN data.types |-> Action("Resources", data.types[i], Nothing, Nothing)]
           P == {Action("Resources", type, Nothing, Nothing) : type \in Types}
<1>1. /\ phase = "running" /\ stack # << >> /\ current.op = "Resources" /\ current.type = Nothing
      /\ FinishAndPush(a) /\ Goes(t) /\ UNCHANGED data
  BY DEF SyncResources, At
<1>2. /\ current \in Actions /\ Complete(ToSet(stack), data, always, skipped)
      /\ Ahead(current, ToSet(Tail(stack)))
      /\ ToSet(stack) = {current} \cup ToSet(Tail(stack))
      /\ Grows(data, data, ToSet(stack)) /\ Honest(data, ever) /\ data \in MayStore
  BY <1>1, Running
<1>3. current = All("Resources")
  BY <1>1, <1>2, ActionKinds
<1>4. data.types # << >> /\ Complete(P \cup ToSet(Tail(stack)), data, always, skipped)
  BY <1>2, <1>3, AfterResources
<1>5. data.types \in Seq(Types) /\ ToSet(data.types) = Types
  BY <1>2, <1>4, TypesAreFinite, OrdersList DEF MayStore
<1>6. a \in Seq(Actions) /\ ToSet(a) = P /\ \A x \in P : x.op = "Resources"
  <2>1. \A type \in Types : Action("Resources", type, Nothing, Nothing) \in Actions
    BY PageActions DEF PageTokens
  <2>2. a \in Seq(Actions) /\ DOMAIN a = DOMAIN data.types
    BY <1>5, <2>1
  <2>3. ToSet(a) = P
    BY <1>5, <2>2 DEF ToSet
  <2> QED BY <2>2, <2>3 DEF Action
<1> HIDE DEF a, P
<1>7. Complete(ToSet(a) \cup ToSet(Tail(stack)), data', always, skipped)
  BY <1>1, <1>4, <1>6
<1>8. Grows(data, data', ToSet(stack)) /\ Honest(data', ever)
  BY <1>1, <1>2
<1> QED BY <1>1, <1>6, <1>7, <1>8, GoesAdvances

LEMMA ForEachAdvances ==
  ASSUME SyncInv, NEW t \in Tokens, ForEachResource(t)
  PROVE  Advances
<1> DEFINE a == [i \in DOMAIN data.resources |->
                   Action(current.op, data.resources[i][1], data.resources[i][2], Nothing)]
           P == EachOf(current.op, data)
<1>1. /\ phase = "running" /\ stack # << >> /\ current.op \in {"Entitlements", "Grants"}
      /\ current.type = Nothing /\ FinishAndPush(a) /\ Goes(t) /\ UNCHANGED data
  BY DEF ForEachResource, At
<1>2. /\ current \in Actions /\ Complete(ToSet(stack), data, always, skipped)
      /\ Ahead(current, ToSet(Tail(stack)))
      /\ ToSet(stack) = {current} \cup ToSet(Tail(stack))
      /\ Grows(data, data, ToSet(stack)) /\ Honest(data, ever) /\ data \in MayStore
      /\ StoredIn(data) \subseteq Resources
  BY <1>1, Running
<1>3. current = All(current.op)
  BY <1>1, <1>2, ActionKinds
<1>4. Complete(P \cup ToSet(Tail(stack)), data, always, skipped)
  BY <1>1, <1>2, <1>3, AfterAllEntitlements, AfterAllGrants
<1>5. a \in Seq(Actions) /\ ToSet(a) = P /\ \A x \in P : x.op = current.op
  <2>1. data.resources \in Seq(Resources)
    BY <1>2 DEF MayStore
  <2>2. \A r \in Resources : Action(current.op, r[1], r[2], Nothing) \in Actions
    BY <1>1, ResourceActions
  <2>3. a \in Seq(Actions) /\ DOMAIN a = DOMAIN data.resources
    BY <2>1, <2>2
  <2>4. ToSet(a) = P
    BY <2>1, <2>3 DEF ToSet, EachOf, StoredIn
  <2> QED BY <2>3, <2>4 DEF Action, EachOf
<1> HIDE DEF a, P
<1>6. Complete(ToSet(a) \cup ToSet(Tail(stack)), data', always, skipped)
  BY <1>1, <1>4, <1>5
<1>7. Grows(data, data', ToSet(stack)) /\ Honest(data', ever)
  BY <1>1, <1>2
<1> QED BY <1>1, <1>5, <1>6, <1>7, GoesAdvances

(* A page that is listed: its resources are stored, once each.             *)
LEMMA ResourcesAreFinite ==
  ASSUME NEW e \in Endpoints, NEW names \in SUBSET NamesAt[e]
  PROVE  IsFiniteSet(ResourcesAt(e, names)) /\ ResourcesAt(e, names) \subseteq Resources
<1> DEFINE R == ResourcesAt(e, names)
<1>1. PICK t \in Types : \E i \in DOMAIN Pages[t] : e = Pages[t][i]
  BY DEF Endpoints, PagesOf
<1>2. R = {ResourceOf(t, n) : n \in names} /\ ResourcesAt(e, NamesAt[e]) = {ResourceOf(t, n) : n \in NamesAt[e]}
  BY <1>1, ResourcesAtPage
<1>3. IsFiniteSet(names)
  BY SyncAssumption, FS_Subset
<1> DEFINE f == [n \in names |-> ResourceOf(t, n)]
<1>4. f \in Surjection(names, R)
  BY <1>2 DEF Surjection
<1>5. IsFiniteSet(R)
  BY <1>3, <1>4, FS_Surjection
<1>6. R \subseteq Resources
  BY <1>2 DEF Resources
<1> QED BY <1>5, <1>6

LEMMA PutResourcesStores ==
  ASSUME data \in MayStore, NEW R, IsFiniteSet(R), R \subseteq Resources, PutResources(R),
         IsInjective(data.resources)
  PROVE  /\ data' \in MayStore /\ StoredIn(data') = StoredIn(data) \cup R
         /\ IsInjective(data'.resources)
         /\ data' = [data EXCEPT !.resources = data'.resources]
<1> DEFINE new == R \ StoredIn(data)
           b == SetToSeq(new)
<1>1. /\ b \in Seq(new) /\ ToSet(b) = new /\ IsInjective(b)
  BY FS_Difference, SetToSeqLists
<1>2. data.resources \in Seq(Resources) /\ b \in Seq(Resources)
  BY <1>1 DEF MayStore
<1> HIDE DEF b
<1>3. /\ data.resources \o b \in Seq(Resources) /\ IsInjective(data.resources \o b)
      /\ ToSet(data.resources \o b) = ToSet(data.resources) \cup ToSet(b)
  BY <1>1, <1>2, ConcatInjective DEF StoredIn
<1>4. data' = [data EXCEPT !.resources = data.resources \o b]
  BY DEF PutResources, Store, StoredIn, b
<1>5. data'.resources = data.resources \o b
  BY <1>4 DEF MayStore
<1> QED BY <1>1, <1>3, <1>4, <1>5 DEF MayStore, StoredIn

LEMMA ListedIsResource ==
  ASSUME NEW t \in Types, NEW i \in DOMAIN Pages[t], NEW n, NEW listed,
         <<Pages[t][i], n>> \in listed
  PROVE  ResourceOf(t, n) \in ResourcesOf(listed)
<1>1. TypeAt[Pages[t][i]] = t
  BY TypeAtPage
<1>2. \E x \in listed : ResourceOf(TypeAt[x[1]], x[2]) = ResourceOf(t, n)
  BY <1>1
<1> QED BY <1>2 DEF ResourcesOf

(* The successful part of ListResources.                                   *)
PageListed(t) ==
  LET e == EndpointOf(current.type, current.page) IN
  /\ Succeed(e, ListReply(e), content[e])
  /\ PutResources(ResourcesAt(e, Result(e, ListReply(e), content[e])))
  /\ NextPage(current.type, current.page)
  /\ Goes(t)

LEMMA ListingAdvances ==
  ASSUME SyncInv, NEW t \in Tokens, At("Resources"), current.type # Nothing, PageListed(t),
         UNCHANGED <<always, ever, flight>>
  PROVE  Advances /\ CacheOK'
<1> DEFINE type == current.type
           k == current.page
           e == EndpointOf(type, k)
           names == Result(e, ListReply(e), content[e])
           R == ResourcesAt(e, names)
           T == ToSet(Tail(stack))
<1>1. /\ phase = "running" /\ stack # << >> /\ current.op = "Resources" /\ Goes(t)
  BY DEF PageListed, At
<1>2. /\ current \in Actions /\ Complete(ToSet(stack), data, always, skipped)
      /\ Ahead(current, T)
      /\ ToSet(stack) = {current} \cup T
      /\ Grows(data, data, ToSet(stack)) /\ Honest(data, ever) /\ data \in MayStore
  BY <1>1, Running
<1>3. /\ type \in Types /\ k \in PageTokens(type)
      /\ current = Action("Resources", type, Nothing, k)
  BY <1>1, <1>2, ActionKinds
<1>4. /\ PageOf(current) \in DOMAIN Pages[type] /\ e = Pages[type][PageOf(current)]
      /\ e \in Endpoints
  <2>1. PageOf(current) \in DOMAIN Pages[type]
    BY <1>3, NextPageActionType
  <2>2. e = Pages[type][PageOf(current)]
    BY DEF EndpointOf, PageOf
  <2> QED BY <1>3, <2>1, <2>2, PagesOfTypes
<1>5. Good(e, names, always, ever) /\ CacheOK'
  <2>1. RequestStatus(ListReply(e)) = "OK" =>
          Good(e, BodyOf(ListReply(e), content[e]), always, ever)
    BY <1>4, EndpointAnswers DEF SyncInv
  <2>2. Succeed(e, ListReply(e), content[e])
    BY DEF PageListed
  <2> QED BY <2>1, <2>2, CacheIsOK, Succeeded DEF SyncInv
<1>6. /\ names \in SUBSET NamesAt[e]
      /\ \A n \in NamesAt[e] : /\ n \in names => <<e, n>> \in ever.listed
                               /\ <<e, n>> \in always.listed => n \in names
  <2>1. e \notin Users
    BY <1>4, SyncAssumption
  <2> QED BY <1>5, <2>1 DEF Good, NamesOf, Fits
<1>7. /\ IsFiniteSet(R) /\ R \subseteq Resources /\ R = {ResourceOf(type, n) : n \in names}
  BY <1>3, <1>4, <1>6, ResourcesAreFinite, ResourcesAtPage
<1>8. /\ data' \in MayStore /\ StoredIn(data') = StoredIn(data) \cup R
      /\ IsInjective(data'.resources)
      /\ data' = [data EXCEPT !.resources = data'.resources]
  <2>1. PutResources(R)
    BY DEF PageListed
  <2>2. IsInjective(data.resources)
    BY <1>2 DEF Honest
  <2> HIDE DEF R
  <2> QED BY <1>2, <1>7, <2>1, <2>2, PutResourcesStores
<1>9. R \subseteq ResourcesOf(ever.listed)
  <2> SUFFICES ASSUME NEW n \in names  PROVE ResourceOf(type, n) \in ResourcesOf(ever.listed)
    BY <1>7
  <2>1. <<e, n>> \in ever.listed
    BY <1>6
  <2> QED BY <1>3, <1>4, <2>1, ListedIsResource
<1> HIDE DEF R, names, e
<1>10. Grows(data, data', ToSet(stack)) /\ Honest(data', ever)
  <2>1. Listing(ToSet(stack))
    BY <1>1, <1>2 DEF Listing
  <2>2. /\ data'.types = data.types /\ data'.entitlements = data.entitlements
        /\ data'.grants = data.grants
    BY <1>2, <1>8 DEF MayStore
  <2> QED BY <1>2, <1>8, <1>9, <2>1, <2>2 DEF Grows, Honest, Entitled
<1>11. Complete(ToSet(stack), data', always, skipped)
  BY <1>2, <1>10, CompleteGrows DEF Grows
<1>12. Complete(NextPageAction(type, k) \cup T, data', always, skipped)
  <2>1. ASSUME NEW x \in always.listed, x[1] = Pages[type][PageOf(current)]
        PROVE  ResourceOf(type, x[2]) \in StoredIn(data')
    <3>1. x = <<e, x[2]>> /\ x[2] \in NamesAt[e]
      <4>1. x \in Listed
        BY DEF SyncInv, Frames
      <4>2. PICK e2 \in Endpoints : x \in {e2} \X ListedAt(e2)
        BY <4>1 DEF Listed
      <4>3. x = <<e, x[2]>> /\ x[2] \in ListedAt(e)
        BY <1>4, <2>1, <4>2
      <4> QED BY <1>4, <4>3 DEF ListedAt, SyncInv, TypeOK, MayList
    <3>2. x[2] \in names
      BY <1>6, <3>1
    <3> QED BY <1>7, <1>8, <3>2
  <2> QED BY <1>2, <1>3, <1>11, <2>1, AfterPage
<1>13. PICK a \in Seq(Actions) : FinishAndPush(a) /\ ToSet(a) = NextPageAction(type, k)
  <2>1. NextPage(type, k)
    BY DEF PageListed
  <2>2. CASE NextPageToken(type, k) = Nothing
    BY <2>1, <2>2, NoActions DEF NextPage, Finish, NextPageAction
  <2>3. CASE NextPageToken(type, k) # Nothing
    <3> DEFINE next == Action("Resources", type, Nothing, NextPageToken(type, k))
    <3>1. next \in Actions
      BY <2>3, <1>3, NextPageActionType DEF NextPageAction
    <3> HIDE DEF next
    <3>2. << next >> \in Seq(Actions) /\ ToSet(<< next >>) = {next}
      BY <3>1 DEF ToSet
    <3> QED BY <2>1, <2>3, <3>2 DEF NextPage, NextPageAction, next
  <2> QED BY <2>2, <2>3
<1>14. \A x \in ToSet(a) : x.op = current.op
  BY <1>1, <1>3, <1>13, NextPageActionType
<1>15. Advances
  <2>1. Complete(ToSet(a) \cup ToSet(Tail(stack)), data', always, skipped)
    BY <1>12, <1>13
  <2>2. current.op # "Init"
    BY <1>1
  <2> QED BY <1>1, <1>10, <1>13, <1>14, <2>1, <2>2, GoesAdvances
<1> QED BY <1>5, <1>15

-----------------------------------------------------------------------------
LEMMA EntitlementsAdvances ==
  ASSUME SyncInv, NEW t \in Tokens, Entitlements(t)
  PROVE  Advances
<1> DEFINE r == <<current.type, current.name>>
           T == ToSet(Tail(stack))
<1>1. /\ phase = "running" /\ stack # << >> /\ current.op = "Entitlements"
      /\ current.type # Nothing /\ Finish /\ Goes(t)
  BY DEF Entitlements, At
<1>2. /\ current \in Actions /\ Complete(ToSet(stack), data, always, skipped)
      /\ Ahead(current, T)
      /\ ToSet(stack) = {current} \cup T
      /\ Grows(data, data, ToSet(stack)) /\ Honest(data, ever) /\ data \in MayStore
      /\ StoredIn(data) \subseteq Resources
  BY <1>1, Running
<1>3. r \in StoredIn(data)
  BY <1>1, <1>2 DEF Complete, TargetsStored
<1>4. /\ data' = [data EXCEPT !.entitlements = data'.entitlements]
      /\ data'.entitlements \in {data.entitlements, data.entitlements \cup {r}}
      /\ current.type \in WithEntitlement => r \in data'.entitlements
      /\ current.type \notin WithEntitlement => data'.entitlements = data.entitlements
  <2>1. CASE current.type \in WithEntitlement
    BY <2>1, <1>2 DEF Entitlements, Store, MayStore
  <2>2. CASE current.type \notin WithEntitlement
    BY <2>2, <1>2 DEF Entitlements, MayStore
  <2> QED BY <2>1, <2>2
<1>5. /\ data' \in MayStore /\ StoredIn(data') = StoredIn(data)
      /\ data'.types = data.types /\ data'.grants = data.grants
      /\ data'.resources = data.resources
  BY <1>2, <1>3, <1>4 DEF MayStore, StoredIn
<1>6. Grows(data, data', ToSet(stack)) /\ Honest(data', ever)
  <2>1. data'.entitlements \subseteq Entitled(data')
    BY <1>2, <1>3, <1>4, <1>5 DEF Grows, Entitled
  <2> QED BY <1>2, <1>4, <1>5, <2>1 DEF Grows, Honest
<1>7. Complete(ToSet(stack), data', always, skipped)
  BY <1>2, <1>6, CompleteGrows DEF Grows
<1>8. Complete(T, data', always, skipped)
  BY <1>1, <1>2, <1>4, <1>5, <1>7, AfterEntitlement
<1> QED BY <1>1, <1>6, <1>8, FinishAdvances

LEMMA NoGrantsAdvances ==
  ASSUME SyncInv, NEW t \in Tokens, NoGrants(t)
  PROVE  Advances
<1> DEFINE T == ToSet(Tail(stack))
<1>1. /\ phase = "running" /\ stack # << >> /\ current.op = "Grants"
      /\ current.type # Nothing /\ current.type # "policy" /\ Finish /\ Goes(t) /\ UNCHANGED data
  BY DEF NoGrants, At
<1>2. /\ Complete(ToSet(stack), data, always, skipped)
      /\ Ahead(current, T) /\ ToSet(stack) = {current} \cup T
      /\ Grows(data, data, ToSet(stack)) /\ Honest(data, ever)
  BY <1>1, Running
<1>3. Complete(T, data, always, skipped)
  BY <1>1, <1>2, AfterGrants
<1> QED BY <1>1, <1>2, <1>3, FinishAdvances

LEMMA ExpansionAdvances ==
  ASSUME SyncInv, NEW t \in Tokens, Expansion(t)
  PROVE  Advances
<1> DEFINE T == ToSet(Tail(stack))
<1>1. /\ phase = "running" /\ stack # << >> /\ current.op = "Expansion"
      /\ Finish /\ Goes(t) /\ UNCHANGED data
  BY DEF Expansion, At
<1>2. /\ Complete(ToSet(stack), data, always, skipped)
      /\ Ahead(current, T) /\ ToSet(stack) = {current} \cup T
      /\ Grows(data, data, ToSet(stack)) /\ Honest(data, ever)
  BY <1>1, Running
<1>3. Complete(T, data, always, skipped)
  BY <1>1, <1>2, AfterExpansion
<1> QED BY <1>1, <1>2, <1>3, FinishAdvances

(* The Grants of a policy, from the LIST of the users to PutGrants.        *)
ReadingOK ==
  reading # Nothing => /\ phase = "running" /\ stack # << >>
                       /\ current.op = "Grants" /\ current.type = "policy"
                       /\ reading \in [todo : SUBSET Users, found : SUBSET Users]
                       /\ warnings <= MaxWarnings
                       /\ {current.name} \X reading.found \subseteq ever.grants
                       /\ \A g \in always.grants :
                            g[1] = current.name => g[2] \in reading.todo \cup reading.found

LEMMA ReadingIsOK == TypeOK /\ ReadingFits => ReadingOK
  BY DEF TypeOK, ReadingFits, ReadingOK

(* The current action of a Grants call is that of a policy.                *)
LEMMA CurrentPolicy ==
  ASSUME SyncInv, phase = "running", stack # << >>, current.op = "Grants",
         current.type = "policy", current.type # Nothing
  PROVE  current.name \in Policies
<1>1. PICK t \in Tokens : TRUE
  BY DEF Tokens
<1>2. current \in Actions
  BY Running
<1>3. <<current.type, current.name>> \in Resources
  BY <1>2, ActionKinds
<1> QED BY <1>3, PolicyResources

LEMMA RetryAdvances ==
  ASSUME SyncInv, NEW t \in Tokens, phase = "running", stack # << >>, Retry(t)
  PROVE  Advances
<1>1. /\ stack \in Seq(Actions) /\ InOrder(stack)
      /\ Complete(ToSet(stack), data, always, skipped)
      /\ Grows(data, data, ToSet(stack)) /\ Honest(data, ever)
      /\ t # << >> /\ t \in {token, stack}
  BY Running
<1>2. UNCHANGED <<phase, stack, data, file, warnings, skipped>> /\ token' = t
  BY DEF Retry
<1> QED BY <1>1, <1>2 DEF Advances, Covers, SyncInv, TypeOK

LEMMA ReadsAdvances ==
  ASSUME SyncInv, NEW t \in Tokens, phase = "running", stack # << >>,
         NEW todo, NEW found, Reads(t, todo, found)
  PROVE  Advances
<1>1. /\ stack \in Seq(Actions) /\ InOrder(stack)
      /\ Complete(ToSet(stack), data, always, skipped)
      /\ Grows(data, data, ToSet(stack)) /\ Honest(data, ever)
      /\ t # << >> /\ t \in {token, stack}
  BY Running
<1>2. UNCHANGED <<phase, stack, data, file, warnings, skipped>> /\ token' = t
  BY DEF Reads
<1> QED BY <1>1, <1>2 DEF Advances, Covers, SyncInv, TypeOK

LEMMA SkipAdvances ==
  ASSUME SyncInv, NEW t \in Tokens, phase = "running", stack # << >>, current.op = "Grants",
         current.type # Nothing, warnings <= MaxWarnings, Skip(t)
  PROVE  Advances
<1> DEFINE T == ToSet(Tail(stack))
<1>1. /\ stack \in Seq(Actions) /\ InOrder(stack)
      /\ Complete(ToSet(stack), data, always, skipped)
      /\ Ahead(current, T) /\ ToSet(stack) = {current} \cup T
      /\ Grows(data, data, ToSet(stack)) /\ Honest(data, ever)
      /\ t # << >> /\ t \in {token, stack}
  BY Running
<1>2. /\ Finish /\ UNCHANGED <<phase, data, file>> /\ token' = t /\ skipped' = TRUE
      /\ warnings' = warnings + 1
  BY DEF Skip
<1>3. /\ stack' \in Seq(Actions) /\ InOrder(stack') /\ ToSet(stack') = T
      /\ Listing(ToSet(stack')) => Listing(ToSet(stack))
  BY <1>1, <1>2, Popped
<1>4. Complete(T, data, always, TRUE)
  BY <1>1, AfterGrants
<1>5. warnings' \in 0..(MaxWarnings + 1)
  BY <1>2, SyncAssumption DEF SyncInv, TypeOK
<1> QED BY <1>1, <1>2, <1>3, <1>4, <1>5 DEF Advances, Covers

LEMMA PutGrantsAdvances ==
  ASSUME SyncInv, NEW t \in Tokens, PutGrants(t)
  PROVE  Advances
<1> DEFINE T == ToSet(Tail(stack))
           new == {current.name} \X reading.found
<1>1. /\ reading # Nothing /\ reading.todo = {} /\ Finish /\ token' = t
      /\ Store("grants", data.grants \cup new)
      /\ UNCHANGED <<phase, file, warnings, skipped>>
  BY DEF PutGrants
<1>2. /\ phase = "running" /\ stack # << >> /\ current.op = "Grants" /\ current.type = "policy"
      /\ reading.found \subseteq Users
      /\ new \subseteq ever.grants
      /\ \A g \in always.grants : g[1] = current.name => g[2] \in reading.todo \cup reading.found
  BY <1>1, ReadingIsOK DEF SyncInv, ReadingOK
<1>3. /\ stack \in Seq(Actions) /\ InOrder(stack) /\ current \in Actions
      /\ Complete(ToSet(stack), data, always, skipped)
      /\ Ahead(current, T) /\ ToSet(stack) = {current} \cup T
      /\ Grows(data, data, ToSet(stack)) /\ Honest(data, ever) /\ data \in MayStore
      /\ t # << >> /\ t \in {token, stack}
  BY <1>2, Running
<1>4. current.type # Nothing
  BY <1>2, NothingIsNoType
<1>5. new \subseteq Policies \X Users
  BY <1>2, <1>4, CurrentPolicy
<1>6. /\ data' \in MayStore /\ StoredIn(data') = StoredIn(data)
      /\ data'.types = data.types /\ data'.entitlements = data.entitlements
      /\ data'.resources = data.resources /\ data'.grants = data.grants \cup new
  BY <1>1, <1>3, <1>5 DEF Store, MayStore, StoredIn
<1>7. Grows(data, data', ToSet(stack)) /\ Honest(data', ever)
  BY <1>2, <1>3, <1>6 DEF Grows, Honest, Entitled
<1>8. Complete(ToSet(stack), data', always, skipped)
  BY <1>3, <1>7, CompleteGrows DEF Grows
<1>9. \A g \in always.grants : g[1] = current.name => g \in data'.grants
  <2> SUFFICES ASSUME NEW g \in always.grants, g[1] = current.name
               PROVE  g \in new
    BY <1>6
  <2>1. g = <<g[1], g[2]>> /\ g[2] \in reading.found
    BY <1>1, <1>2 DEF SyncInv, TypeOK, MayKnow
  <2> QED BY <2>1
<1>10. Complete(T, data', always, skipped)
  BY <1>2, <1>3, <1>8, <1>9, AfterGrants, <1>4
<1>11. /\ stack' \in Seq(Actions) /\ InOrder(stack') /\ ToSet(stack') = T
       /\ Listing(ToSet(stack')) => Listing(ToSet(stack))
  BY <1>1, <1>2, <1>3, Popped
<1> QED BY <1>1, <1>2, <1>3, <1>7, <1>10, <1>11 DEF Advances, Covers, SyncInv, TypeOK

(* A request that fails is made again, or skipped, or ends the sync.       *)
LEMMA BreakAdvances ==
  ASSUME SyncInv, NEW t \in Tokens, phase = "running", stack # << >>, warnings <= MaxWarnings,
         current.type # Nothing, NEW k, NEW reply, NEW truth, Break(k, reply, truth, t),
         reply.code = "200" => RequestStatus(reply) = "OK",
         UNCHANGED <<always, ever, flight>>
  PROVE  CacheOK' /\ ((Advances /\ reading' = Nothing) \/ Fail(t))
<1>1. CacheOK' /\ (Retry(t) \/ Fail(t) \/ (Skip(t) /\ current.op = "Grants"))
  BY CacheIsOK, Broke DEF SyncInv
<1>2. ASSUME Retry(t)  PROVE Advances /\ reading' = Nothing
  BY <1>2, RetryAdvances DEF Retry
<1>3. ASSUME Skip(t), current.op = "Grants"  PROVE Advances /\ reading' = Nothing
  BY <1>3, SkipAdvances DEF Skip
<1> QED BY <1>1, <1>2, <1>3

UserEndpoint == "auth/userpass/users"

LEMMA UsersAreListed ==
  ASSUME SyncInv
  PROVE  UserEndpoint \in Endpoints /\ ~Hit(UserEndpoint) /\ Users = NamesAt[UserEndpoint]
<1>1. UserEndpoint \in Endpoints
  <2>1. "user" \in Types /\ 1 \in DOMAIN Pages["user"] /\ Pages["user"][1] = UserEndpoint
    BY SyncAssumption DEF Pages, UserList, UserEndpoint
  <2> QED BY <2>1 DEF Endpoints, PagesOf
<1>2. UserEndpoint \notin Users \cup ReadByGet
  BY <1>1, SyncAssumption DEF ReadByGet, UserEndpoint
<1>3. DOMAIN cache = Users \cup ReadByGet
  BY DEF SyncInv, TypeOK
<1> QED BY <1>1, <1>2, <1>3 DEF Hit, Users, UserEndpoint

LEMMA ListUsersAdvances ==
  ASSUME SyncInv, NEW t \in Tokens, ListUsers(t), UNCHANGED <<always, ever, flight>>
  PROVE  CacheOK' /\ ((Advances /\ ReadingOK') \/ Fail(t))
<1> DEFINE e == UserEndpoint
           names == Result(e, ListReply(e), content[e])
<1>1. /\ phase = "running" /\ stack # << >> /\ current.op = "Grants" /\ current.type = "policy"
      /\ warnings <= MaxWarnings /\ current.type # Nothing
  BY NothingIsNoType DEF ListUsers, At
<1>2. ASSUME Succeed(e, ListReply(e), content[e]), Reads(t, names, {})
      PROVE  CacheOK' /\ Advances /\ ReadingOK'
  <2>1. e \in Endpoints /\ ~Hit(e) /\ Users = NamesAt[e]
    BY UsersAreListed
  <2>2. RequestStatus(ListReply(e)) = "OK"
    BY <1>2, <2>1 DEF Succeed
  <2>3. names = ListedAt(e) /\ Good(e, ListedAt(e), always, ever)
    BY <2>1, <2>2, EndpointAnswers DEF SyncInv, Result
  <2>4. CacheOK'
    BY <1>2, <2>1, <2>3, CacheIsOK, Succeeded, EndpointAnswers DEF SyncInv
  <2>5. names \subseteq Users
    BY <2>1, <2>3, SyncAssumption DEF Good, NamesOf
  <2>6. \A g \in always.grants : g[2] \in names
    BY <2>3 DEF SyncInv, Frames, Truth, ListedUsers, UserEndpoint
  <2> HIDE DEF names
  <2>7. /\ UNCHANGED <<phase, stack, warnings>> /\ current' = current
        /\ reading' = [todo |-> names, found |-> {}]
    BY <1>2 DEF Reads, current
  <2>8. ReadingOK'
    BY <1>1, <2>5, <2>6, <2>7 DEF ReadingOK
  <2>9. Advances
    BY <1>1, <1>2, ReadsAdvances
  <2> QED BY <2>4, <2>8, <2>9
<1>3. ASSUME Break(e, ListReply(e), content[e], t)
      PROVE  CacheOK' /\ ((Advances /\ ReadingOK') \/ Fail(t))
  BY <1>1, <1>3, BreakAdvances, Replies DEF ReadingOK
<1>4. \/ Succeed(e, ListReply(e), content[e]) /\ Reads(t, names, {})
      \/ Break(e, ListReply(e), content[e], t)
  BY DEF ListUsers, UserEndpoint
<1> QED BY <1>2, <1>3, <1>4

LEMMA ReadUserAdvances ==
  ASSUME SyncInv, NEW t \in Tokens, NEW u \in Users, ReadUser(t, u),
         UNCHANGED <<always, ever, flight>>
  PROVE  CacheOK' /\ ((Advances /\ ReadingOK') \/ Fail(t))
<1> DEFINE names == Result(u, UserReply(u), assigned[u])
           todo == reading.todo \ {u}
           found == IF Holds(u) THEN reading.found \cup {u} ELSE reading.found
<1>1. reading # Nothing /\ u \in reading.todo
  BY DEF ReadUser
<1>2. /\ phase = "running" /\ stack # << >> /\ current.op = "Grants" /\ current.type = "policy"
      /\ reading \in [todo : SUBSET Users, found : SUBSET Users]
      /\ warnings <= MaxWarnings /\ current.type # Nothing
      /\ {current.name} \X reading.found \subseteq ever.grants
      /\ \A g \in always.grants : g[1] = current.name => g[2] \in reading.todo \cup reading.found
  BY <1>1, ReadingIsOK, NothingIsNoType DEF SyncInv, ReadingOK
<1>3. ASSUME Succeed(u, UserReply(u), assigned[u]), Reads(t, todo, found)
      PROVE  CacheOK' /\ Advances /\ ReadingOK'
  <2>1. Good(u, names, always, ever) /\ CacheOK'
    BY <1>3, CacheIsOK, Succeeded, UserAnswers DEF SyncInv
  <2>2. current.name \in Policies
    BY <1>2, CurrentPolicy
  <2>3. /\ Holds(u) => <<current.name, u>> \in ever.grants
        /\ <<current.name, u>> \in always.grants => Holds(u)
    BY <2>1, <2>2 DEF Good, Fits, Holds
  <2>4. \A g \in always.grants : g = <<g[1], g[2]>>
    BY DEF SyncInv, TypeOK, MayKnow
  <2>5. /\ todo \subseteq Users /\ found \subseteq Users
        /\ {current.name} \X found \subseteq ever.grants
        /\ \A g \in always.grants : g[1] = current.name => g[2] \in todo \cup found
    <3>1. todo \subseteq Users /\ found \subseteq Users
      BY <1>2
    <3>2. {current.name} \X found \subseteq ever.grants
      BY <1>2, <2>3
    <3>3. ASSUME NEW g \in always.grants, g[1] = current.name
          PROVE  g[2] \in todo \cup found
      <4>1. g[2] \in reading.todo \cup reading.found
        BY <1>2, <3>3
      <4>2. g[2] = u => Holds(u)
        BY <2>3, <2>4, <3>3
      <4> QED BY <4>1, <4>2
    <3> QED BY <3>1, <3>2, <3>3
  <2> HIDE DEF todo, found
  <2>6. /\ UNCHANGED <<phase, stack, warnings>> /\ current' = current
        /\ reading' = [todo |-> todo, found |-> found]
    BY <1>3 DEF Reads, current
  <2>7. ReadingOK'
    BY <1>2, <2>5, <2>6 DEF ReadingOK
  <2>8. Advances
    BY <1>2, <1>3, ReadsAdvances
  <2> QED BY <2>1, <2>7, <2>8
<1>4. ASSUME Break(u, UserReply(u), assigned[u], t)
      PROVE  CacheOK' /\ ((Advances /\ ReadingOK') \/ Fail(t))
  BY <1>2, <1>4, BreakAdvances, Replies DEF ReadingOK
<1>5. \/ Succeed(u, UserReply(u), assigned[u]) /\ Reads(t, todo, found)
      \/ Break(u, UserReply(u), assigned[u], t)
  BY DEF ReadUser
<1> QED BY <1>3, <1>4, <1>5

-----------------------------------------------------------------------------
(* An iteration of the loop advances, or fails.                            *)
LEMMA CacheStays ==
  ASSUME CacheOK, cache' \in {cache, EmptyCache}, UNCHANGED <<always, ever, flight>>
  PROVE  CacheOK'
  BY DEF CacheOK, EmptyCache

LEMMA IterateKeeps ==
  ASSUME SyncInv, NEW t \in Tokens, Iterate(t), UNCHANGED <<always, ever, flight>>
  PROVE  /\ CacheOK' /\ phase = "running" /\ stack # << >>
         /\ (Advances /\ ReadingOK') \/ Fail(t)
<1> DEFINE Goal == /\ CacheOK' /\ phase = "running" /\ stack # << >>
                   /\ (Advances /\ ReadingOK') \/ Fail(t)
<1>1. ASSUME phase = "running", stack # << >>, Advances, cache' = cache, reading' = Nothing
      PROVE  Goal
  <2>1. CacheOK'
    BY <1>1, CacheIsOK, CacheStays DEF SyncInv
  <2> QED BY <1>1, <2>1 DEF ReadingOK
<1>2. CASE InitOp(t)
  <2>1. phase = "running" /\ stack # << >> /\ cache' = cache /\ reading' = Nothing
    BY <1>2 DEF InitOp, At, Goes
  <2> QED BY <1>1, <1>2, <2>1, InitAdvances
<1>3. CASE SyncResourceTypes(t)
  <2>1. phase = "running" /\ stack # << >> /\ cache' = cache /\ reading' = Nothing
    BY <1>3 DEF SyncResourceTypes, At, Goes
  <2> QED BY <1>1, <1>3, <2>1, ResourceTypesAdvances
<1>4. CASE SyncResources(t)
  <2>1. phase = "running" /\ stack # << >> /\ cache' = cache /\ reading' = Nothing
    BY <1>4 DEF SyncResources, At, Goes
  <2> QED BY <1>1, <1>4, <2>1, ResourcesAdvances
<1>5. CASE ListResources(t)
  <2> DEFINE e == EndpointOf(current.type, current.page)
  <2>1. /\ phase = "running" /\ stack # << >> /\ warnings <= MaxWarnings /\ reading = Nothing
        /\ At("Resources") /\ current.type # Nothing
    BY <1>5 DEF ListResources, At
  <2>2. CASE PageListed(t)
    <3>1. reading' = Nothing
      BY <2>1, <2>2 DEF PageListed, Goes
    <3>2. Advances /\ CacheOK'
      BY <2>1, <2>2, ListingAdvances
    <3> QED BY <2>1, <3>1, <3>2 DEF ReadingOK
  <2>3. CASE Break(e, ListReply(e), content[e], t)
    BY <2>1, <2>3, BreakAdvances, Replies DEF ReadingOK
  <2> QED BY <1>5, <2>2, <2>3 DEF ListResources, PageListed
<1>6. CASE ForEachResource(t)
  <2>1. phase = "running" /\ stack # << >> /\ cache' = cache /\ reading' = Nothing
    BY <1>6 DEF ForEachResource, At, Goes
  <2> QED BY <1>1, <1>6, <2>1, ForEachAdvances
<1>7. CASE Entitlements(t)
  <2>1. phase = "running" /\ stack # << >> /\ cache' = cache /\ reading' = Nothing
    BY <1>7 DEF Entitlements, At, Goes
  <2> QED BY <1>1, <1>7, <2>1, EntitlementsAdvances
<1>8. CASE NoGrants(t)
  <2>1. phase = "running" /\ stack # << >> /\ cache' = cache /\ reading' = Nothing
    BY <1>8 DEF NoGrants, At, Goes
  <2> QED BY <1>1, <1>8, <2>1, NoGrantsAdvances
<1>9. CASE ListUsers(t)
  <2>1. phase = "running" /\ stack # << >>
    BY <1>9 DEF ListUsers, At
  <2> QED BY <1>9, <2>1, ListUsersAdvances
<1>10. ASSUME NEW u \in Users, ReadUser(t, u)  PROVE Goal
  <2>1. phase = "running" /\ stack # << >>
    BY <1>10, ReadingIsOK DEF ReadUser, SyncInv, ReadingOK
  <2> QED BY <1>10, <2>1, ReadUserAdvances
<1>11. CASE PutGrants(t)
  <2>1. phase = "running" /\ stack # << >> /\ cache' = cache /\ reading' = Nothing
    BY <1>11, ReadingIsOK DEF PutGrants, SyncInv, ReadingOK
  <2> QED BY <1>1, <1>11, <2>1, PutGrantsAdvances
<1>12. CASE Expansion(t)
  <2>1. phase = "running" /\ stack # << >> /\ cache' = cache /\ reading' = Nothing
    BY <1>12 DEF Expansion, At, Goes
  <2> QED BY <1>1, <1>12, <2>1, ExpansionAdvances
<1>13. CASE StopEarly(t)
  <2>1. phase = "running" /\ stack # << >> /\ cache' \in {cache, EmptyCache} /\ Fail(t)
    BY <1>13 DEF StopEarly
  <2> QED BY <2>1, CacheIsOK, CacheStays DEF SyncInv
<1> QED BY <1>2, <1>3, <1>4, <1>5, <1>6, <1>7, <1>8, <1>9, <1>10, <1>11, <1>12, <1>13 DEF Iterate

(* A run of the sync that is over leaves nothing but a file that can be    *)
(* resumed, or one that is complete.                                       *)
LEMMA EmptyIsOK ==
  /\ EmptyData \in MayStore /\ StoredIn(EmptyData) = {} /\ IsInjective(EmptyData.resources)
  /\ EmptyData.grants = {} /\ EmptyData.entitlements = {} /\ EmptyData.types = << >>
  /\ Begin \in Seq(Actions) /\ Begin # << >>
  /\ \A known, lossy : Covers(Begin, EmptyData, known, lossy)
<1>1. /\ EmptyData.types = << >> /\ EmptyData.resources = << >>
      /\ EmptyData.entitlements = {} /\ EmptyData.grants = {}
  BY DEF EmptyData
<1>2. EmptyData \in MayStore
  BY DEF EmptyData, MayStore
<1>3. StoredIn(EmptyData) = {} /\ IsInjective(EmptyData.resources)
  BY <1>1, NoActions DEF StoredIn, IsInjective
<1>4. /\ Begin \in Seq(Actions) /\ Begin # << >> /\ InOrder(Begin) /\ ToSet(Begin) = {All("Init")}
  BY InitKeepsOrder
<1>5. ASSUME NEW known, NEW lossy  PROVE Complete({All("Init")}, EmptyData, known, lossy)
  <2>1. \A op : Due({All("Init")}, op)
    BY DEF Due
  <2>2. All("Init").type = Nothing
    BY Alls, Ranks
  <2> QED BY <1>1, <1>3, <2>1, <2>2 DEF Complete, TargetsStored, LaterStagesDue, TypesCovered,
        EntitlementsCovered, Entitled, ResourcesCovered, GrantsCovered
<1> QED BY <1>1, <1>2, <1>3, <1>4, <1>5 DEF Covers

LEMMA NoFileIsOK ==
  /\ NoFile.data = EmptyData /\ NoFile.token = Begin /\ NoFile.open = FALSE
  /\ NoFile = [data |-> NoFile.data, token |-> NoFile.token, open |-> NoFile.open]
  BY DEF NoFile

(* The run ends and its file is f.                                         *)
LEMMA LeaveKeeps ==
  ASSUME SyncInv, NEW result \in {"done", "failed"}, Leave(result),
         file'.data \in MayStore, file'.token \in Seq(Actions), file'.token # << >>,
         file' = [data |-> file'.data, token |-> file'.token, open |-> file'.open],
         file'.open \in BOOLEAN, Honest(file'.data, ever),
         file'.open => Covers(file'.token, file'.data, always, skipped),
         result = "done" => ~file'.open /\ Covers(<< >>, file'.data, always, skipped),
         UNCHANGED <<always, ever, skipped>>
  PROVE  SyncPart' /\ ReadingOK'
<1>1. /\ phase' = result /\ stack' = << >> /\ token' = Begin /\ data' = EmptyData
      /\ reading' = Nothing /\ warnings' = 0
  BY DEF Leave
<1>2. data' \in MayStore /\ token' \in Seq(Actions) /\ token' # << >> /\ Honest(data', ever)
  BY <1>1, EmptyIsOK DEF Honest
<1>3. NothingInvented' /\ StoredOnce'
  BY <1>2 DEF NothingInvented, StoredOnce, Honest, StoredIn
<1>4. Covered'
  BY <1>1 DEF Covered
<1>5. warnings' \in 0..(MaxWarnings + 1)
  BY <1>1, SyncAssumption
<1> QED BY <1>1, <1>2, <1>3, <1>4, <1>5, NoActions DEF SyncPart, ReadingOK, SyncInv, TypeOK

VaultPart == /\ content \in [Endpoints -> Lists] /\ \A e \in Endpoints : MayList(e, content[e])
             /\ assigned \in [Users -> SUBSET Policies]
             /\ changes \in 0..MaxChanges
             /\ always \in MayKnow /\ ever \in MayKnow /\ Frames

LEMMA Parts == SyncInv <=> VaultPart /\ CacheOK /\ SyncPart /\ ReadingOK
<1>1. SyncInv => VaultPart /\ CacheOK /\ SyncPart /\ ReadingOK
  <2> SUFFICES ASSUME SyncInv  PROVE VaultPart /\ CacheOK /\ SyncPart /\ ReadingOK
    OBVIOUS
  <2>1. CacheOK /\ ReadingOK
    BY CacheIsOK, ReadingIsOK DEF SyncInv
  <2>2. VaultPart
    BY DEF SyncInv, TypeOK, VaultPart
  <2>3. SyncPart
    BY DEF SyncInv, TypeOK, SyncPart
  <2> QED BY <2>1, <2>2, <2>3
<1>2. ASSUME VaultPart, CacheOK, SyncPart, ReadingOK  PROVE SyncInv
  <2>1. KnownFits
    BY <1>2 DEF KnownFits, CacheOK, Good
  <2>2. /\ \A k \in Users \cup ReadByGet : cache[k] \in MayKeep(k)
        /\ cache = [k \in Users \cup ReadByGet |-> cache[k]]
        /\ flight # Nothing => /\ flight = [of |-> flight.of, body |-> flight.body]
                               /\ flight.of \in Users \cup ReadByGet
                               /\ flight.body \in {Garbled} \cup SUBSET NamesOf(flight.of)
    BY <1>2 DEF CacheOK, Good, NamesOf, MayKeep
  <2>3. ReadingFits
    BY <1>2 DEF ReadingOK, ReadingFits
  <2>4. reading # Nothing => /\ phase = "running" /\ stack # << >>
                             /\ current.op = "Grants" /\ current.type = "policy"
                             /\ reading \in [todo : SUBSET Users, found : SUBSET Users]
                             /\ warnings <= MaxWarnings
    BY <1>2 DEF ReadingOK
  <2>5. TypeOK
    BY <1>2, <2>2, <2>4 DEF TypeOK, VaultPart, SyncPart
  <2> QED BY <1>2, <2>1, <2>3, <2>5 DEF SyncInv, VaultPart, SyncPart
<1> QED BY <1>1, <1>2

LEMMA VaultStays ==
  ASSUME VaultPart, UNCHANGED <<vaultVars, always, ever>>
  PROVE  VaultPart'
<1>1. UNCHANGED <<content, assigned, changes, always, ever>>
  BY DEF vaultVars
<1>2. Frames'
  BY <1>1 DEF VaultPart, Frames, Truth, Listed, ListedUsers, ListedAt
<1> QED BY <1>1, <1>2 DEF VaultPart

LEMMA SyncStays ==
  ASSUME SyncPart, ReadingOK,
         UNCHANGED <<phase, stack, token, data, file, reading, warnings, history>>
  PROVE  SyncPart' /\ ReadingOK'
<1>1. UNCHANGED <<phase, stack, token, data, file, reading, warnings, always, ever, skipped>>
  BY DEF history
<1>2. UNCHANGED <<NothingInvented, StoredOnce, Covered, current>>
  BY <1>1 DEF NothingInvented, StoredOnce, Covered, current
<1>3. SyncPart'
  BY <1>1, <1>2 DEF SyncPart
<1>4. ReadingOK'
  BY <1>1, <1>2 DEF ReadingOK
<1> QED BY <1>3, <1>4

LEMMA FailKeeps ==
  ASSUME SyncInv, phase = "running", stack # << >>, NEW t \in Tokens, Fail(t),
         UNCHANGED <<always, ever>>
  PROVE  SyncPart' /\ ReadingOK'
<1>1. Leave("failed") /\ skipped' = skipped
  BY DEF Fail
<1>2. CASE OneShot
  <2>1. file' = [data |-> data, token |-> t, open |-> TRUE]
    BY <1>2 DEF Fail
  <2>2. data \in MayStore /\ Honest(data, ever) /\ t \in {token, stack} /\ t # << >>
    BY Running
  <2>3. t \in Seq(Actions) /\ Covers(t, data, always, skipped)
    BY <2>2 DEF SyncInv, TypeOK, Covered
  <2>4. file'.data = data /\ file'.token = t /\ file'.open = TRUE
    BY <2>1
  <2> QED BY <1>1, <2>1, <2>2, <2>3, <2>4, LeaveKeeps
<1>3. CASE ~OneShot
  <2>1. file' = NoFile
    BY <1>3 DEF Fail
  <2>2. Honest(EmptyData, ever)
    BY EmptyIsOK DEF Honest
  <2> QED BY <1>1, <2>1, <2>2, EmptyIsOK, NoFileIsOK, LeaveKeeps
<1> QED BY <1>2, <1>3

LEMMA EndSyncKeeps ==
  ASSUME SyncInv, EndSync, UNCHANGED <<always, ever, flight>>
  PROVE  SyncPart' /\ ReadingOK' /\ CacheOK'
<1>1. /\ phase = "running" /\ stack = << >> /\ Leave("done") /\ skipped' = skipped
      /\ file' = [data |-> data, token |-> token, open |-> FALSE] /\ cache' = EmptyCache
  BY DEF EndSync
<1>2. /\ data \in MayStore /\ token \in Seq(Actions) /\ token # << >>
      /\ Covers(<< >>, data, always, skipped) /\ Honest(data, ever)
  BY <1>1 DEF SyncInv, TypeOK, Covered, NothingInvented, StoredOnce, Honest, StoredIn
<1>3. file'.data = data /\ file'.token = token /\ file'.open = FALSE
  BY <1>1
<1>4. SyncPart' /\ ReadingOK'
  BY <1>1, <1>2, <1>3, LeaveKeeps
<1> QED BY <1>1, <1>4, CacheIsOK, CacheStays DEF SyncInv

LEMMA CrashKeeps ==
  ASSUME SyncInv, Crash
  PROVE  SyncInv'
<1>1. /\ phase = "running" /\ Leave("failed") /\ cache' = EmptyCache /\ flight' = Nothing
      /\ UNCHANGED <<vaultVars, file, history, always, ever, skipped>>
  BY DEF Crash, history
<1>2. SyncPart' /\ ReadingOK'
  <2>1. /\ file.data \in MayStore /\ file.token \in Seq(Actions) /\ file.token # << >>
        /\ file = [data |-> file.data, token |-> file.token, open |-> file.open]
        /\ file.open \in BOOLEAN /\ Honest(file.data, ever)
        /\ file.open => Covers(file.token, file.data, always, skipped)
    BY DEF SyncInv, TypeOK, NothingInvented, StoredOnce, Honest, StoredIn, Covered
  <2> QED BY <1>1, <2>1, LeaveKeeps
<1>3. CacheOK'
  BY <1>1 DEF CacheOK, EmptyCache
<1>4. VaultPart'
  BY <1>1, Parts, VaultStays
<1>5. (VaultPart /\ CacheOK /\ SyncPart /\ ReadingOK)' => SyncInv'
  BY Parts, PTL
<1> QED BY <1>2, <1>3, <1>4, <1>5

-----------------------------------------------------------------------------
(* A sync begins or goes on; the cache and Vault change under it.          *)
VaultOK == /\ content \in [Endpoints -> Lists] /\ \A e \in Endpoints : MayList(e, content[e])
           /\ assigned \in [Users -> SUBSET Policies]

LEMMA TruthIsKnown == VaultOK => Truth \in MayKnow /\ Truth.listed = Listed
<1> SUFFICES ASSUME VaultOK  PROVE Truth \in MayKnow /\ Truth.listed = Listed
  OBVIOUS
<1>1. "user" \in Types /\ UserEndpoint \in Endpoints
  <2>1. "user" \in Types /\ 1 \in DOMAIN Pages["user"] /\ Pages["user"][1] = UserEndpoint
    BY SyncAssumption DEF Pages, UserList, UserEndpoint
  <2> QED BY <2>1 DEF Endpoints, PagesOf
<1>2. \A e \in Endpoints : ListedAt(e) \subseteq NamesAt[e]
  BY DEF VaultOK, MayList, ListedAt
<1>3. ListedUsers \subseteq Users
  BY <1>1, <1>2 DEF ListedUsers, Users, UserEndpoint
<1>4. Listed \subseteq Endpoints \X Names
  <2>1. \A e \in Endpoints : ListedAt(e) \subseteq Names
    BY <1>2 DEF Names
  <2> QED BY <2>1 DEF Listed
<1> QED BY <1>3, <1>4 DEF Truth, MayKnow

LEMMA GoodStays ==
  ASSUME NEW k, NEW names, NEW least, NEW most, NEW least2, NEW most2, Good(k, names, least, most),
         least2.listed \subseteq least.listed, least2.grants \subseteq least.grants,
         most.listed \subseteq most2.listed, most.grants \subseteq most2.grants
  PROVE  Good(k, names, least2, most2)
  BY DEF Good, Fits

LEMMA CacheFits ==
  ASSUME CacheOK, NEW least, NEW most,
         \A k \in Users \cup ReadByGet : \A names \in Answers(k) :
           Good(k, names, always, ever) => Good(k, names, least, most),
         always' = least, ever' = most, UNCHANGED <<cache, flight>>
  PROVE  CacheOK'
<1>1. \A k \in Users \cup ReadByGet : cache[k] \in {Nothing, Garbled} \/ Good(k, cache[k], least, most)
  <2> SUFFICES ASSUME NEW k \in Users \cup ReadByGet, cache[k] \notin {Nothing, Garbled}
               PROVE  Good(k, cache[k], least, most)
    OBVIOUS
  <2>1. k \in DOMAIN cache
    BY DEF CacheOK
  <2>2. <<k, cache[k]>> \in Known
    BY <2>1 DEF Known
  <2>3. cache[k] \in Answers(k)
    BY <2>2 DEF Answers
  <2> QED BY <2>3 DEF CacheOK
<1>2. ASSUME flight # Nothing, flight.body # Garbled
      PROVE  Good(flight.of, flight.body, least, most)
  <2>1. <<flight.of, flight.body>> \in Known
    BY <1>2 DEF Known
  <2>2. flight.body # Nothing
    <3>1. flight.body \subseteq NamesOf(flight.of) /\ flight.of \in Users \cup ReadByGet
      BY <1>2 DEF CacheOK, Good
    <3>2. NamesOf(flight.of) \subseteq Policies \cup Names
      BY <3>1 DEF NamesOf, Names, ReadByGet
    <3> QED BY <3>1, <3>2, NothingAssumption
  <2>3. flight.body \in Answers(flight.of)
    BY <1>2, <2>1, <2>2 DEF Answers
  <2> QED BY <1>2, <2>3 DEF CacheOK
<1> QED BY <1>1, <1>2 DEF CacheOK

LEMMA SaidFits ==
  ASSUME NEW k \in Users \cup ReadByGet, NEW names \in SUBSET NamesOf(k), names \in Answers(k)
  PROVE  Good(k, names, Without(Truth, Said(FALSE)), Union(Truth, Said(TRUE)))
<1> DEFINE least == Without(Truth, Said(FALSE))
           most == Union(Truth, Said(TRUE))
<1>1. /\ least.listed = Truth.listed \ Said(FALSE).listed
      /\ least.grants = Truth.grants \ Said(FALSE).grants
      /\ most.listed = Truth.listed \cup Said(TRUE).listed
      /\ most.grants = Truth.grants \cup Said(TRUE).grants
  BY DEF Truth, Without, Union
<1>2. CASE k \in Users
  <2>1. \A p \in Policies : /\ p \in names => <<p, k>> \in Said(TRUE).grants
                            /\ p \notin names => <<p, k>> \in Said(FALSE).grants
    BY <1>2 DEF Said
  <2> HIDE DEF least, most
  <2>2. Good(k, names, least, most)
    BY <1>1, <1>2, <2>1 DEF Good, Fits
  <2> QED BY <2>2 DEF least, most
<1>3. CASE k \notin Users
  <2>1. k \in ReadByGet /\ NamesAt[k] \subseteq Names
    BY <1>3 DEF ReadByGet, Names
  <2>2. \A n \in NamesAt[k] : /\ n \in names => <<k, n>> \in Said(TRUE).listed
                              /\ n \notin names => <<k, n>> \in Said(FALSE).listed
    BY <2>1 DEF Said
  <2> HIDE DEF least, most
  <2>3. Good(k, names, least, most)
    BY <1>1, <1>3, <2>2 DEF Good, Fits
  <2> QED BY <2>3 DEF least, most
<1> QED BY <1>2, <1>3

LEMMA FramesSync ==
  ASSUME Truth \in MayKnow, Truth.listed = Listed
  PROVE  LET least == Without(Truth, Said(FALSE))
             most == Union(Truth, Said(TRUE))
         IN  /\ least \in MayKnow /\ most \in MayKnow
             /\ least.listed \subseteq Listed /\ Listed \subseteq most.listed
             /\ least.grants \subseteq Truth.grants /\ Truth.grants \subseteq most.grants
<1>1. ReadByGet \subseteq Endpoints
  BY DEF ReadByGet
<1> QED BY <1>1 DEF Without, Union, Said, MayKnow

LEMMA SyncKeeps ==
  ASSUME SyncInv, Sync
  PROVE  SyncInv'
<1>1. /\ VaultPart /\ CacheOK /\ SyncPart /\ ReadingOK
      /\ phase # "running" /\ phase' = "running" /\ UNCHANGED <<vaultVars, cache, flight, warnings>>
      /\ UNCHANGED <<content, assigned, changes>>
      /\ file.token \in Seq(Actions) /\ file.token # << >> /\ file.data \in MayStore
  BY Parts DEF Sync, vaultVars, SyncInv, TypeOK
<1>2. ReadingOK'
  BY <1>1 DEF ReadingOK, Sync
<1>3. CASE Resume
  <2>1. /\ file.open
        /\ data' = file.data /\ token' = file.token /\ stack' = file.token /\ file' = file
        /\ UNCHANGED <<always, ever, skipped>>
    BY <1>3 DEF Resume, history
  <2>2. VaultPart' /\ CacheOK'
    BY <1>1, <2>1, VaultStays, CacheStays
  <2>3. Covers(file.token, file.data, always, skipped)
    BY <2>1 DEF SyncInv, Covered
  <2>4. Covered'
    BY <1>1, <2>1, <2>3 DEF Covered
  <2>5. NothingInvented' /\ StoredOnce'
    BY <2>1 DEF SyncInv, NothingInvented, StoredOnce
  <2>6. SyncPart'
    BY <1>1, <2>1, <2>4, <2>5 DEF SyncPart
  <2> QED BY <1>2, <2>2, <2>6, Parts, PTL
<1>4. CASE StartAnew
  <2> DEFINE least == Without(Truth, Said(FALSE))
             most == Union(Truth, Said(TRUE))
  <2>1. /\ data' = EmptyData /\ token' = Begin /\ stack' = Begin /\ file' = NoFile
        /\ always' = least /\ ever' = most /\ skipped' = FALSE
    BY <1>4 DEF StartAnew
  <2>2. Truth \in MayKnow /\ Truth.listed = Listed
    BY <1>1, TruthIsKnown DEF VaultPart, VaultOK
  <2>3. /\ least \in MayKnow /\ most \in MayKnow
        /\ least.listed \subseteq Listed /\ Listed \subseteq most.listed
        /\ least.grants \subseteq Truth.grants /\ Truth.grants \subseteq most.grants
    BY <2>2, FramesSync
  <2>4. CacheOK'
    <3>1. \A k \in Users \cup ReadByGet : \A names \in Answers(k) :
            Good(k, names, always, ever) => Good(k, names, least, most)
      BY SaidFits DEF Good
    <3> HIDE DEF least, most
    <3> QED BY <1>1, <2>1, <3>1, CacheFits
  <2> HIDE DEF least, most
  <2>5. VaultPart'
    <3>1. Listed' = Listed /\ Truth' = Truth
      BY <1>1 DEF Truth, Listed, ListedUsers, ListedAt
    <3> QED BY <1>1, <2>1, <2>3, <3>1 DEF VaultPart, Frames
  <2>6. Covered'
    BY <2>1, <1>1, EmptyIsOK, NoFileIsOK DEF Covered
  <2>7. NothingInvented' /\ StoredOnce'
    <3>1. /\ ToSet(data'.resources) = {} /\ data'.grants = {} /\ IsInjective(data'.resources)
          /\ file'.data = data'
      BY <2>1, EmptyIsOK, NoFileIsOK DEF StoredIn
    <3> QED BY <3>1 DEF NothingInvented, StoredOnce
  <2>8. SyncPart'
    BY <1>1, <2>1, <2>6, <2>7, EmptyIsOK, NoFileIsOK DEF SyncPart
  <2> QED BY <1>2, <2>4, <2>5, <2>8, Parts, PTL
<1> QED BY <1>3, <1>4 DEF Sync

LEMMA ExpireKeeps ==
  ASSUME SyncInv, Expire
  PROVE  SyncInv'
<1>1. /\ VaultPart /\ CacheOK /\ SyncPart /\ ReadingOK
      /\ UNCHANGED <<vaultVars, flight, phase, stack, token, data, file, reading, warnings, history>>
      /\ UNCHANGED <<always, ever, flight>>
  BY Parts DEF Expire, history
<1>2. CacheOK'
  BY <1>1 DEF Expire, CacheOK
<1>3. VaultPart' /\ SyncPart' /\ ReadingOK'
  BY <1>1, VaultStays, SyncStays
<1> QED BY <1>2, <1>3, Parts, PTL

LEMMA TaskKeepsKeeps ==
  ASSUME SyncInv, TaskKeeps
  PROVE  SyncInv'
<1>1. /\ VaultPart /\ CacheOK /\ SyncPart /\ ReadingOK
      /\ UNCHANGED <<vaultVars, phase, stack, token, data, file, reading, warnings, history>>
      /\ UNCHANGED <<always, ever>>
      /\ flight # Nothing /\ flight' = Nothing /\ cache' = [cache EXCEPT ![flight.of] = flight.body]
  BY Parts DEF TaskKeeps, history
<1>2. CacheOK'
  BY <1>1 DEF CacheOK
<1>3. VaultPart' /\ SyncPart' /\ ReadingOK'
  BY <1>1, VaultStays, SyncStays
<1> QED BY <1>2, <1>3, Parts, PTL

LEMMA TaskGetsKeeps ==
  ASSUME SyncInv, TaskGets
  PROVE  SyncInv'
<1>1. /\ VaultPart /\ CacheOK /\ SyncPart /\ ReadingOK
      /\ UNCHANGED <<vaultVars, cache, phase, stack, token, data, file, reading, warnings, history>>
      /\ UNCHANGED <<always, ever>>
  BY Parts DEF TaskGets, history
<1>2. PICK k \in DOMAIN cache : \E body \in IF Hit(k) THEN {cache[k]} ELSE {Truly(k), Garbled} :
        (Hit(k) \/ k \in ListedUsers \cup ReadByGet) /\ flight' = [of |-> k, body |-> body]
  BY DEF TaskGets
<1>3. PICK body \in IF Hit(k) THEN {cache[k]} ELSE {Truly(k), Garbled} :
        (Hit(k) \/ k \in ListedUsers \cup ReadByGet) /\ flight' = [of |-> k, body |-> body]
  BY <1>2
<1>7. k \in Users \cup ReadByGet
  BY <1>1 DEF CacheOK
<1>4. body = Garbled \/ Good(k, body, always, ever)
  <2>1. CASE Hit(k)
    BY <1>1, <1>3, <1>7, <2>1 DEF CacheOK, Hit
  <2>2. CASE ~Hit(k) /\ k \in Users
    <3>1. k \notin ReadByGet
      BY <2>2, SyncAssumption DEF ReadByGet
    <3> QED BY <1>3, <2>2, <3>1, UserAnswers DEF SyncInv, Truly
  <2>3. CASE ~Hit(k) /\ k \notin Users
    <3>1. k \in Endpoints /\ k \notin Mountable
      BY <1>7, <2>3 DEF ReadByGet, Mountable
    <3>2. content[k] # Unmounted
      BY <3>1 DEF SyncInv, TypeOK, MayList
    <3>3. RequestStatus(ListReply(k)) = "OK" /\ ListedAt(k) = content[k]
      BY <3>2, Statuses DEF ListReply, ListedAt
    <3>4. Good(k, content[k], always, ever)
      BY <3>1, <3>3, EndpointAnswers DEF SyncInv
    <3> QED BY <1>3, <2>3, <3>4 DEF Truly
  <2> QED BY <1>7, <2>1, <2>2, <2>3
<1>5. CacheOK'
  BY <1>1, <1>3, <1>4, <1>7 DEF CacheOK
<1>6. VaultPart' /\ SyncPart' /\ ReadingOK'
  BY <1>1, VaultStays, SyncStays
<1> QED BY <1>5, <1>6, Parts, PTL

(* Vault changes: the sync has less to find and more that it may find.     *)
LEMMA ChangedVault ==
  ASSUME VaultPart, Change
  PROVE  VaultPart' /\ /\ always'.listed \subseteq always.listed
                       /\ always'.grants \subseteq always.grants
                       /\ ever.listed \subseteq ever'.listed
                       /\ ever.grants \subseteq ever'.grants
<1>1. VaultOK'
  <2>1. ASSUME NEW e \in Endpoints, NEW list \in Lists, MayList(e, list),
               content' = [content EXCEPT ![e] = list], assigned' = assigned
        PROVE  VaultOK'
    BY <2>1 DEF VaultPart, VaultOK
  <2>2. ASSUME NEW u \in Users, NEW s \in SUBSET Policies,
               assigned' = [assigned EXCEPT ![u] = s], content' = content
        PROVE  VaultOK'
    BY <2>2 DEF VaultPart, VaultOK
  <2> QED BY <2>1, <2>2 DEF Change
<1>2. Truth' \in MayKnow /\ Truth'.listed = Listed'
  <2>1. (Truth \in MayKnow /\ Truth.listed = Listed)'
    BY <1>1, TruthIsKnown, PTL
  <2> QED BY <2>1
<1>3. /\ always' = Common(always, Truth') /\ ever' = Union(ever, Truth')
      /\ changes' = changes + 1 /\ changes < MaxChanges
  BY DEF Change
<1>4. /\ always'.listed = always.listed \cap Truth'.listed
      /\ always'.grants = always.grants \cap Truth'.grants
      /\ ever'.listed = ever.listed \cup Truth'.listed
      /\ ever'.grants = ever.grants \cup Truth'.grants
      /\ always' \in MayKnow /\ ever' \in MayKnow
  <2> DEFINE new == Truth'
  <2>1. always \in MayKnow /\ ever \in MayKnow /\ new \in MayKnow
    BY <1>2 DEF VaultPart
  <2> HIDE DEF new
  <2>2. always' = Common(always, new) /\ ever' = Union(ever, new)
    BY <1>3 DEF new
  <2>3. /\ always'.listed = always.listed \cap new.listed
        /\ always'.grants = always.grants \cap new.grants
        /\ ever'.listed = ever.listed \cup new.listed
        /\ ever'.grants = ever.grants \cup new.grants
        /\ always' \in MayKnow /\ ever' \in MayKnow
    BY <2>1, <2>2 DEF Common, Union, MayKnow
  <2> QED BY <2>3 DEF new
<1>5. changes' \in 0..MaxChanges
  BY <1>3, SyncAssumption DEF VaultPart
<1>6. Frames'
  BY <1>2, <1>4 DEF Frames
<1> QED BY <1>1, <1>4, <1>5, <1>6 DEF VaultPart, VaultOK

LEMMA ChangeKeeps ==
  ASSUME SyncInv, Change
  PROVE  SyncInv'
<1>1. /\ VaultPart /\ CacheOK /\ SyncPart /\ ReadingOK
      /\ UNCHANGED <<cache, flight, phase, stack, token, data, file, reading, warnings, skipped>>
  BY Parts DEF Change
<1>2. /\ VaultPart'
      /\ always'.listed \subseteq always.listed /\ always'.grants \subseteq always.grants
      /\ ever.listed \subseteq ever'.listed /\ ever.grants \subseteq ever'.grants
  BY <1>1, ChangedVault
<1>3. CacheOK'
  <2>1. \A k \in Users \cup ReadByGet : \A names \in Answers(k) :
          Good(k, names, always, ever) => Good(k, names, always', ever')
    BY <1>2, GoodStays
  <2> QED BY <1>1, <2>1, CacheFits
<1>4. ReadingOK'
  <2>1. current' = current
    BY <1>1 DEF current
  <2> QED BY <1>1, <1>2, <2>1 DEF ReadingOK
<1>5. \A s, d : Covers(s, d, always, skipped) => Covers(s, d, always', skipped)
  BY <1>2, CompleteForLess DEF Covers
<1>6. Covered'
  BY <1>1, <1>5 DEF Covered, SyncPart
<1>7. NothingInvented' /\ StoredOnce'
  <2>1. ResourcesOf(ever.listed) \subseteq ResourcesOf(ever'.listed)
    BY <1>2 DEF ResourcesOf
  <2> QED BY <1>1, <1>2, <2>1 DEF SyncPart, NothingInvented, StoredOnce
<1>8. SyncPart'
  BY <1>1, <1>6, <1>7 DEF SyncPart
<1> QED BY <1>2, <1>3, <1>4, <1>8, Parts, PTL

-----------------------------------------------------------------------------
(* The invariant is inductive.                                             *)
LEMMA InitInv == Init => SyncInv
<1> SUFFICES ASSUME Init  PROVE SyncInv
  OBVIOUS
<1>1. VaultOK
  BY DEF Init, VaultOK
<1>2. Truth \in MayKnow /\ Truth.listed = Listed
  BY <1>1, TruthIsKnown
<1>3. always = Truth /\ ever = Truth /\ changes = 0
  BY DEF Init
<1>4. VaultPart
  <2>1. Frames
    BY <1>2, <1>3 DEF Frames
  <2> QED BY <1>1, <1>2, <1>3, <2>1, SyncAssumption DEF VaultPart, VaultOK
<1>5. CacheOK
  BY DEF Init, CacheOK, EmptyCache
<1>6. ReadingOK
  BY DEF Init, ReadingOK
<1>7. SyncPart
  <2>1. /\ phase = "idle" /\ stack = << >> /\ token = Begin /\ data = EmptyData /\ file = NoFile
        /\ warnings = 0 /\ skipped = FALSE
    BY DEF Init
  <2>2. Covered
    BY <2>1, NoFileIsOK DEF Covered
  <2>3. /\ ToSet(data.resources) = {} /\ data.grants = {} /\ IsInjective(data.resources)
        /\ file.data = data
    BY <2>1, EmptyIsOK, NoFileIsOK DEF StoredIn
  <2>4. NothingInvented /\ StoredOnce
    BY <2>3 DEF NothingInvented, StoredOnce
  <2>5. /\ {stack, token, file.token} \subseteq Seq(Actions)
        /\ token # << >> /\ file.token # << >> /\ {data, file.data} \subseteq MayStore
    BY <2>1, EmptyIsOK, NoFileIsOK, NoActions
  <2>6. /\ file = [data |-> file.data, token |-> file.token, open |-> file.open]
        /\ file.open \in BOOLEAN
    BY <2>1, NoFileIsOK
  <2>7. warnings \in 0..(MaxWarnings + 1)
    BY <2>1, SyncAssumption
  <2> QED BY <2>1, <2>2, <2>4, <2>5, <2>6, <2>7 DEF SyncPart
<1> QED BY <1>4, <1>5, <1>6, <1>7, Parts

LEMMA StepKeeps ==
  ASSUME SyncInv, Step
  PROVE  SyncInv'
<1>1. /\ VaultPart /\ UNCHANGED <<vaultVars, flight, always, ever>>
  BY Parts DEF Step
<1>2. VaultPart'
  BY <1>1, VaultStays
<1>3. ASSUME NEW t \in Tokens, Iterate(t)  PROVE CacheOK' /\ SyncPart' /\ ReadingOK'
  <2>1. /\ CacheOK' /\ phase = "running" /\ stack # << >>
        /\ (Advances /\ ReadingOK') \/ Fail(t)
    BY <1>1, <1>3, IterateKeeps
  <2>2. CASE Advances /\ ReadingOK'
    BY <1>1, <2>1, <2>2, AdvancesKeeps
  <2>3. CASE Fail(t)
    BY <1>1, <2>1, <2>3, FailKeeps
  <2> QED BY <2>1, <2>2, <2>3
<1>4. ASSUME EndSync  PROVE CacheOK' /\ SyncPart' /\ ReadingOK'
  BY <1>1, <1>4, EndSyncKeeps
<1>5. CacheOK' /\ SyncPart' /\ ReadingOK'
  BY <1>3, <1>4 DEF Step
<1> QED BY <1>2, <1>5, Parts, PTL

LEMMA StutterKeeps ==
  ASSUME SyncInv, UNCHANGED vars
  PROVE  SyncInv'
<1>1. /\ VaultPart /\ CacheOK /\ SyncPart /\ ReadingOK
      /\ UNCHANGED <<vaultVars, cache, flight, phase, stack, token, data, file, reading,
                     warnings, history>>
      /\ UNCHANGED <<always, ever, flight>>
  BY Parts DEF vars, history
<1>2. VaultPart' /\ SyncPart' /\ ReadingOK' /\ CacheOK'
  BY <1>1, VaultStays, SyncStays, CacheStays
<1> QED BY <1>2, Parts, PTL

LEMMA NextInv == SyncInv /\ [Next]_vars => SyncInv'
  BY SyncKeeps, StepKeeps, CrashKeeps, ExpireKeeps, TaskGetsKeeps, TaskKeepsKeeps, ChangeKeeps,
     StutterKeeps DEF Next

(* What the sync stores, what it may yet store and what it must not miss   *)
(* are related as SyncInv says, in every reachable state.                  *)
THEOREM Invariant == Spec => []SyncInv
  BY InitInv, NextInv, PTL DEF Spec

(* Every variable of a sync has its type, whatever it met: a checkpoint, a *)
(* file and a stack hold only actions the syncer pushes, for resources     *)
(* that Vault may list, and a Grants call in progress is that of a policy  *)
(* at the top of the stack (syncer.go 276-458).                            *)
THEOREM TypeCorrect == Spec => []TypeOK
<1>1. SyncInv => TypeOK
  BY DEF SyncInv
<1> QED BY <1>1, Invariant, PTL

(* Nothing is ever stored, by a sync in progress or in its file, that      *)
(* Vault did not have at some time of that very sync (policy.go 109-122,   *)
(* syncer.go 600-670).                                                     *)
THEOREM Truthful == Spec => []NothingInvented
<1>1. SyncInv => NothingInvented
  BY DEF SyncInv
<1> QED BY <1>1, Invariant, PTL

-----------------------------------------------------------------------------
(* What a sync that completed has stored.                                  *)
LEMMA InjectiveLength ==
  ASSUME NEW S, NEW s \in Seq(S), IsInjective(s)
  PROVE  Cardinality(ToSet(s)) = Len(s)
<1>1. Len(s) \in Nat /\ DOMAIN s = 1..Len(s)
  OBVIOUS
<1>2. s \in [1..Len(s) -> ToSet(s)]
  BY <1>1 DEF ToSet
<1>3. s \in Bijection(1..Len(s), ToSet(s))
  BY <1>1, <1>2 DEF Bijection, Injection, Surjection, IsInjective, ToSet
<1>4. ExistsBijection(1..Len(s), ToSet(s))
  BY <1>3 DEF ExistsBijection
<1> QED BY <1>1, <1>4, FS_CountingElements

LEMMA Completed ==
  ASSUME SyncInv, NEW d \in MayStore, Covers(<< >>, d, always, skipped)
  PROVE  /\ ResourcesOf(always.listed) \subseteq StoredIn(d)
         /\ ~skipped => \A g \in always.grants : <<"policy", g[1]>> \in StoredIn(d) => g \in d.grants
         /\ d.entitlements = Entitled(d)
<1>1. Complete({}, d, always, skipped)
  BY NoActions DEF Covers
<1>2. \A op : ~Due({}, op)
  BY DEF Due
<1>3. ResourcesOf(always.listed) \subseteq StoredIn(d)
  <2> SUFFICES ASSUME NEW x \in always.listed, NEW r \in ResourcesAt(x[1], {x[2]})
               PROVE  r \in StoredIn(d)
    BY DEF ResourcesOf, ResourcesAt
  <2>1. x[1] \in Endpoints
    BY DEF SyncInv, TypeOK, MayKnow
  <2>2. PICK t \in Types : \E i \in DOMAIN Pages[t] : x[1] = Pages[t][i]
    BY <2>1 DEF Endpoints, PagesOf
  <2>3. ResourcesAt(x[1], {x[2]}) = {ResourceOf(t, n) : n \in {x[2]}}
    BY <2>2, ResourcesAtPage
  <2>4. ResourceOf(t, x[2]) \in StoredIn(d)
    BY <1>1, <1>2, <2>2 DEF Complete, ResourcesCovered
  <2> QED BY <2>3, <2>4
<1>4. ~skipped => \A g \in always.grants : <<"policy", g[1]>> \in StoredIn(d) => g \in d.grants
  BY <1>1, <1>2 DEF Complete, GrantsCovered
<1>5. d.entitlements = Entitled(d)
  BY <1>1, <1>2 DEF Complete, EntitlementsCovered
<1> QED BY <1>3, <1>4, <1>5

LEMMA PublishedIsCovered ==
  ASSUME SyncInv, phase = "done"
  PROVE  Covers(<< >>, file.data, always, skipped) /\ file.data \in MayStore
  BY DEF SyncInv, TypeOK, Covered

(* When a sync completes, the resources that have an entitlement are       *)
(* those stored, the ones a resumed run found included, and none is stored *)
(* twice (syncer.go 636-670, 736-823).                                     *)
THEOREM EntitledAndOnce == Spec => []EntitlementsMatch
<1>1. SyncInv => EntitlementsMatch
  <2> SUFFICES ASSUME SyncInv, phase = "done"
               PROVE  /\ file.data.entitlements = Entitled(file.data)
                      /\ Cardinality(StoredIn(file.data)) = Len(file.data.resources)
    BY DEF EntitlementsMatch, Entitled, StoredIn
  <2>1. file.data.entitlements = Entitled(file.data) /\ file.data \in MayStore
    BY PublishedIsCovered, Completed
  <2>2. file.data.resources \in Seq(Resources) /\ IsInjective(file.data.resources)
    BY <2>1 DEF MayStore, SyncInv, StoredOnce
  <2> QED BY <2>1, <2>2, InjectiveLength DEF StoredIn
<1> QED BY <1>1, Invariant, PTL

(* What Vault has all along a sync is stored when it completes, whatever   *)
(* errors it retried, failures it was resumed from and crashes it          *)
(* survived, and however old the checkpoint it was resumed from: all       *)
(* resources, and the grants unless an action was skipped (syncer.go       *)
(* 276-458; the List of every builder; policy.go 85-130).                  *)
THEOREM Thorough == Spec => []NothingMissed
<1>1. SyncInv => NothingMissed
  <2> SUFFICES ASSUME SyncInv, phase = "done"
               PROVE  /\ ResourcesOf(always.listed) \subseteq StoredIn(file.data)
                      /\ ~skipped => \A g \in always.grants :
                           <<"policy", g[1]>> \in ResourcesOf(always.listed) => g \in file.data.grants
    BY DEF NothingMissed, StoredIn
  <2> QED BY PublishedIsCovered, Completed
<1> QED BY <1>1, Invariant, PTL

-----------------------------------------------------------------------------
(* The refinement: each step of the sync is one of SyncPromise, or none.   *)
EverResult == [resources |-> ResourcesOf(ever.listed), grants |-> ever.grants]
SyncResult == IF phase # "done" THEN Nothing
              ELSE [resources |-> StoredIn(file.data), grants |-> file.data.grants]

LEMMA ResourcesGrow ==
  ASSUME NEW x, NEW y, x.listed \subseteq y.listed, x.grants \subseteq y.grants
  PROVE  Promise!Within(AsResources(x), AsResources(y))
<1>1. ResourcesOf(x.listed) \subseteq ResourcesOf(y.listed)
  BY DEF ResourcesOf
<1> QED BY <1>1 DEF Promise!Within, AsResources

LEMMA PromiseFrames == VaultPart => Promise!Frames
<1> SUFFICES ASSUME VaultPart  PROVE Promise!Frames
  OBVIOUS
<1>1. Truth.listed = Listed
  BY DEF Truth
<1>2. Promise!Within(AsResources(always), AsResources(Truth))
  BY <1>1, ResourcesGrow DEF VaultPart, Frames
<1>3. Promise!Within(AsResources(Truth), EverResult)
  <2>1. ResourcesOf(Truth.listed) \subseteq ResourcesOf(ever.listed)
    BY <1>1 DEF VaultPart, Frames, ResourcesOf
  <2> QED BY <2>1 DEF Promise!Within, AsResources, EverResult, VaultPart, Frames
<1> QED BY <1>2, <1>3 DEF Promise!Frames, EverResult

LEMMA TruthStays ==
  ASSUME UNCHANGED <<content, assigned>>
  PROVE  AsResources(Truth)' = AsResources(Truth)
  BY DEF AsResources, Truth, Listed, ListedUsers, ListedAt

LEMMA HistoryStays ==
  ASSUME UNCHANGED <<always, ever>>
  PROVE  AsResources(always)' = AsResources(always) /\ EverResult' = EverResult
  BY DEF AsResources, EverResult

LEMMA NothingPromised ==
  ASSUME UNCHANGED <<content, assigned, always, ever, phase, file, skipped>>
  PROVE  UNCHANGED Promise!vars
  BY TruthStays, HistoryStays DEF Promise!vars, EverResult, StoredIn

LEMMA InitPromises == ASSUME Init PROVE Promise!Init
<1>1. Promise!Frames
  BY InitInv, Parts, PromiseFrames
<1>2. phase = "idle" /\ skipped = FALSE
  BY DEF Init
<1> QED BY <1>1, <1>2 DEF Promise!Init

LEMMA SyncPromises ==
  ASSUME SyncInv, SyncInv', Sync
  PROVE  Promise!Begin \/ Promise!Resume
<1>1. /\ phase # "running" /\ phase' = "running" /\ UNCHANGED <<content, assigned>>
  BY DEF Sync, vaultVars
<1>2. AsResources(Truth)' = AsResources(Truth)
  BY <1>1, TruthStays
<1>3. CASE Resume
  <2>1. UNCHANGED <<always, ever, skipped>> /\ phase # "done"
    BY <1>3 DEF Resume, history, SyncInv, Covered
  <2> QED BY <1>1, <1>2, <2>1, HistoryStays DEF Promise!Resume, EverResult
<1>4. CASE StartAnew
  <2>1. Promise!Frames'
    BY Parts, PromiseFrames, PTL
  <2>2. skipped' = FALSE
    BY <1>4 DEF StartAnew
  <2> QED BY <1>1, <1>2, <2>1, <2>2 DEF Promise!Begin
<1> QED BY <1>3, <1>4 DEF Sync

LEMMA StopPromises ==
  ASSUME phase = "running", phase' = "failed", UNCHANGED <<content, assigned, always, ever, skipped>>
  PROVE  Promise!Stop
  BY TruthStays, HistoryStays DEF Promise!Stop, EverResult

LEMMA EndPromises ==
  ASSUME SyncInv, SyncInv', EndSync, UNCHANGED <<content, assigned, always, ever>>
  PROVE  Promise!Complete
<1>1. /\ phase = "running" /\ phase' = "done" /\ skipped' = skipped
      /\ stack = << >> /\ file'.data = data
  BY DEF EndSync, Leave
<1>2. Covers(<< >>, data, always, skipped) /\ data \in MayStore
  BY <1>1 DEF SyncInv, TypeOK, Covered
<1>3. /\ ResourcesOf(always.listed) \subseteq StoredIn(data)
      /\ ~skipped => \A g \in always.grants : <<"policy", g[1]>> \in StoredIn(data) => g \in data.grants
      /\ StoredIn(data) \subseteq ResourcesOf(ever.listed) /\ data.grants \subseteq ever.grants
  BY <1>2, Completed DEF SyncInv, NothingInvented, StoredIn
<1>4. SyncResult' = [resources |-> StoredIn(data), grants |-> data.grants]
  BY <1>1 DEF SyncResult, StoredIn
<1>5. /\ AsResources(always).resources \subseteq SyncResult'.resources
      /\ skipped \/ AsResources(always).grants \subseteq SyncResult'.grants
      /\ Promise!Within(SyncResult', EverResult')
  BY <1>3, <1>4, HistoryStays DEF AsResources, Promise!Within, EverResult
<1> QED BY <1>1, <1>5, TruthStays, HistoryStays
     DEF Promise!Complete, EverResult, SyncResult, StoredIn

LEMMA ChangePromises ==
  ASSUME SyncInv, SyncInv', Change
  PROVE  Promise!Change
<1>1. Promise!Frames'
  BY Parts, PromiseFrames, PTL
<1>2. /\ always'.listed \subseteq always.listed /\ always'.grants \subseteq always.grants
      /\ ever.listed \subseteq ever'.listed /\ ever.grants \subseteq ever'.grants
  BY Parts, ChangedVault
<1>3. Promise!Within(AsResources(always)', AsResources(always))
  <2>1. AsResources(always)' = AsResources(always')
    BY DEF AsResources
  <2> QED BY <1>2, <2>1, ResourcesGrow
<1>4. Promise!Within(EverResult, EverResult')
  <2>1. ResourcesOf(ever.listed) \subseteq ResourcesOf(ever'.listed)
    BY <1>2 DEF ResourcesOf
  <2> QED BY <1>2, <2>1 DEF Promise!Within, EverResult
<1>5. UNCHANGED <<phase, file, skipped>>
  BY DEF Change
<1> QED BY <1>1, <1>3, <1>4, <1>5 DEF Promise!Change, EverResult

LEMMA StepPromises ==
  ASSUME SyncInv, SyncInv', Step
  PROVE  [Promise!Next]_(Promise!vars)
<1>1. UNCHANGED <<content, assigned, always, ever, flight>>
  BY DEF Step, vaultVars
<1>2. ASSUME NEW t \in Tokens, Iterate(t)  PROVE [Promise!Next]_(Promise!vars)
  <2>1. phase = "running" /\ (Advances \/ Fail(t))
    BY <1>1, <1>2, IterateKeeps
  <2>2. CASE Fail(t)
    <3>1. phase' = "failed" /\ skipped' = skipped
      BY <2>2 DEF Fail, Leave
    <3> QED BY <1>1, <2>1, <3>1, StopPromises DEF Promise!Next
  <2>3. CASE Advances
    <3>1. phase' = "running" /\ UNCHANGED file /\ (skipped' = skipped \/ skipped' = TRUE)
      BY <2>3, Zenon DEF Advances
    <3>2. CASE skipped' = skipped
      BY <1>1, <2>1, <3>1, <3>2, NothingPromised
    <3>3. CASE skipped' = TRUE
      <4>1. Promise!Lose
        BY <1>1, <2>1, <3>1, <3>3, TruthStays, HistoryStays DEF Promise!Lose, EverResult
      <4> QED BY <4>1 DEF Promise!Next
    <3> QED BY <3>1, <3>2, <3>3
  <2> QED BY <2>1, <2>2, <2>3
<1>3. ASSUME EndSync  PROVE [Promise!Next]_(Promise!vars)
  BY <1>1, <1>3, EndPromises DEF Promise!Next
<1> QED BY <1>2, <1>3 DEF Step

LEMMA NextPromises ==
  ASSUME SyncInv, SyncInv', [Next]_vars
  PROVE  [Promise!Next]_(Promise!vars)
<1>1. CASE Sync
  BY <1>1, SyncPromises DEF Promise!Next
<1>2. CASE Step
  BY <1>2, StepPromises
<1>3. CASE Crash
  <2>1. phase = "running" /\ phase' = "failed" /\ UNCHANGED <<content, assigned, always, ever, skipped>>
    BY <1>3 DEF Crash, Leave, vaultVars, history
  <2> QED BY <2>1, StopPromises DEF Promise!Next
<1>4. CASE Expire \/ TaskGets \/ TaskKeeps \/ UNCHANGED vars
  <2>1. UNCHANGED <<content, assigned, always, ever, phase, file, skipped>>
    BY <1>4 DEF Expire, TaskGets, TaskKeeps, vars, vaultVars, history
  <2> QED BY <2>1, NothingPromised
<1>5. CASE Change
  BY <1>5, ChangePromises DEF Promise!Next
<1> QED BY <1>1, <1>2, <1>3, <1>4, <1>5 DEF Next

(* The sync implements SyncPromise: what it publishes appears in one step, *)
(* at its completion, lies between the always and the ever of that very    *)
(* sync, resumptions included, and is not touched until the next one       *)
(* begins (syncer.go 276-458, sync_runs.go 293-319).                       *)
THEOREM Refines == Spec => KeepsPromise
<1>1. Init => Promise!Init
  BY InitPromises
<1>2. SyncInv /\ SyncInv' /\ [Next]_vars => [Promise!Next]_(Promise!vars)
  BY NextPromises
<1> QED BY <1>1, <1>2, Invariant, PTL DEF Spec, KeepsPromise, Promise!Spec
=============================================================================
