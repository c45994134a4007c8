------------------------------ MODULE FullSync ------------------------------
(***************************************************************************)
(* A full sync: the SDK's syncer (baton-sdk pkg/sync) pages through the    *)
(* connector's List, Entitlements and Grants (pkg/connector/*.go over      *)
(* pkg/client/client.go) and stores what they return.  Its work is a stack *)
(* of actions, checkpointed into the store now and then, and the store     *)
(* reaches the disk when the sync ends, well or badly.  A failed sync is   *)
(* resumed from the file by the next one-shot process; in daemon mode each *)
(* sync has a file of its own, but the process and its HTTP cache live on. *)
(*                                                                         *)
(* One step is an iteration of the syncer's loop, except that the requests *)
(* of a Grants call are a step each.                                       *)
(***************************************************************************)
EXTENDS Naturals, Sequences, FiniteSets, SequencesExt, VaultClient, Pagination

CONSTANTS Types,        \* the resource types synced
          NamesAt,      \* endpoint -> the names it may list
          Stripped,     \* path of an auth method -> the path without its slashes
          OneShot,      \* TRUE: a process per sync; FALSE: daemon mode
          MaxWarnings,  \* warnings a sync survives (10 in the code)
          MaxChanges,   \* bound: changes other clients make to Vault
          Unmounted,    \* what an endpoint lists when Vault has no such mount
          Garbled       \* a body that is cached and does not decode

(* The endpoints the List of each builder reads, one page each.            *)
UserList == <<"auth/userpass/users">>
RoleList == <<"auth/approle/role">>
PolicyList == <<"sys/policy">>
SecretList == <<"kv", "secret/metadata">>
AuthMethodList == <<"sys/auth">>
GroupList == <<"identity/group/id">>
EntityList == <<"identity/entity/id">>

ResourceTypes == {"user", "role", "policy", "secret", "auth_method", "group", "entity"}

Pages == [user |-> UserList, role |-> RoleList, policy |-> PolicyList,
          secret |-> SecretList, auth_method |-> AuthMethodList,
          group |-> GroupList, entity |-> EntityList]

PagesOf(t) == {Pages[t][i] : i \in DOMAIN Pages[t]}
Endpoints == UNION {PagesOf(t) : t \in Types}
Mountable == {"auth/userpass/users", "auth/approle/role", "kv", "secret/metadata"}
ReadByGet == {"sys/policy", "sys/auth"} \cap Endpoints   \* the others by LIST

Names == UNION {NamesAt[e] : e \in Endpoints}
Users == NamesAt["auth/userpass/users"]
Policies == NamesAt["sys/policy"]

(* The resource a builder makes of a name that Vault lists: the name is    *)
(* its ID, but of the path of an auth method every slash is taken out.     *)
ResourceOf(type, n) == <<type, IF type = "auth_method" THEN Stripped[n] ELSE n>>
TypeAt == [e \in Endpoints |-> CHOOSE t \in Types : e \in PagesOf(t)]
ResourcesAt(e, names) == {ResourceOf(TypeAt[e], n) : n \in names}

ASSUME SyncAssumption ==
  /\ "user" \in Types /\ Types \subseteq ResourceTypes
  /\ Endpoints \subseteq DOMAIN NamesAt
  /\ \A e \in Endpoints : IsFiniteSet(NamesAt[e])
  /\ Unmounted # {}
  /\ Users \cap Endpoints = {}  \* the URL of a user is not that of an endpoint
  /\ \A n \in NamesAt["sys/auth"] : Stripped[n] \in NamesAt["sys/auth"]
  /\ OneShot \in BOOLEAN /\ MaxWarnings \in Nat /\ MaxChanges \in Nat

VARIABLES content,   \* endpoint -> the names Vault lists there, or Unmounted
          assigned,  \* user -> its policies
          changes,   \* how often another client has changed Vault
          cache,     \* user or endpoint -> the cached answer of its GET, or Nothing
          flight,    \* the answer another task is about to cache: of and body, or Nothing
          phase,     \* "idle", "running", "done" or "failed"
          stack,     \* the actions left, the current one first
          token,     \* the stack last checkpointed
          data,      \* what the sync has stored
          file,      \* the saved store: data, token, open (the sync is unfinished)
          reading,   \* the Grants call in progress, or Nothing
          warnings,  \* how many actions this run of the sync skipped
          always,    \* history: what Vault has had all along this sync
          ever,      \* history: what Vault has had at some time of this sync
          skipped    \* history: some run of the sync skipped an action

vaultVars == <<content, assigned, changes>>
history == <<always, ever, skipped>>
vars == <<vaultVars, cache, flight, phase, stack, token, data, file, reading, warnings, history>>

(* Actions of the syncer: for everything (no type), for the resources of a *)
(* type (no name), or for one resource.                                    *)
Action(op, type, name, page) == [op |-> op, type |-> type, name |-> name, page |-> page]
All(op) == Action(op, Nothing, Nothing, Nothing)
Begin == <<All("Init")>>

EmptyData == [types |-> << >>, resources |-> << >>, entitlements |-> {}, grants |-> {}]
NoFile == [data |-> EmptyData, token |-> Begin, open |-> FALSE]
EmptyCache == [k \in Users \cup ReadByGet |-> Nothing]

(* What Vault has: the names it lists, where, and the policies of users.   *)
ListedAt(e) == IF content[e] = Unmounted THEN {} ELSE content[e]
Listed == UNION {{e} \X ListedAt(e) : e \in Endpoints}
ListedUsers == ListedAt("auth/userpass/users")
Truth == [listed |-> Listed,
          grants |-> {g \in Policies \X ListedUsers : g[1] \in assigned[g[2]]}]

(* What the cache, or an answer on its way into it, says Vault has and has *)
(* not; one that is garbled says nothing.                                  *)
Known == {<<k, cache[k]>> : k \in DOMAIN cache}
           \cup (IF flight = Nothing THEN {} ELSE {<<flight.of, flight.body>>})
Answers(k) == {x[2] : x \in {x \in Known : x[1] = k}} \ {Nothing, Garbled}
Said(has) ==
  [listed |-> {x \in ReadByGet \X Names : \E a \in Answers(x[1]) : (x[2] \in a) = has},
   grants |-> {g \in Policies \X Users : \E a \in Answers(g[2]) : (g[1] \in a) = has}]

(* The resources a sync stores for what is listed.                         *)
ResourcesOf(listed) == {ResourceOf(TypeAt[x[1]], x[2]) : x \in listed}

Union(x, y) == [f \in DOMAIN x |-> x[f] \cup y[f]]
Common(x, y) == [f \in DOMAIN x |-> x[f] \cap y[f]]
Without(x, y) == [f \in DOMAIN x |-> x[f] \ y[f]]

(* What Vault may list.  Its sys/ endpoints are always there and never     *)
(* empty: they list at least what is built in.                             *)
Lists == {Unmounted} \cup UNION {SUBSET NamesAt[e] : e \in Endpoints}
MayList(e, list) == IF list = Unmounted THEN e \in Mountable
                    ELSE list \subseteq NamesAt[e] /\ (e \in ReadByGet => list # {})

(* The connector started: enableStores has mounted all stores but secret/. *)
Init == /\ content \in [Endpoints -> Lists]
        /\ \A e \in Endpoints : MayList(e, content[e])
        /\ \A e \in Endpoints \ {"secret/metadata"} : content[e] # Unmounted
        /\ assigned \in [Users -> SUBSET Policies]
        /\ changes = 0
        /\ cache = EmptyCache /\ flight = Nothing
        /\ phase = "idle"
        /\ stack = << >> /\ token = Begin
        /\ data = EmptyData /\ file = NoFile
        /\ reading = Nothing /\ warnings = 0
        /\ always = Truth /\ ever = Truth /\ skipped = FALSE

-----------------------------------------------------------------------------
(* The stack of actions.                                                   *)
current == Head(stack)

(* FinishAction, then a PushAction for each: the last one is on top.       *)
FinishAndPush(actions) == stack' = Reverse(actions) \o Tail(stack)
Finish == FinishAndPush(<< >>)

(* Mutant: the action is popped before the checkpoint.                     *)
TokensPopped == IF reading = Nothing /\ stack # << >> THEN {token, Tail(stack)} ELSE {token}

(* The token after the checkpoint of the loop, which is left out when the  *)
(* last one was made less than ten seconds ago.                            *)
Tokens == IF reading = Nothing THEN {token, stack} ELSE {token}

(* Mutant: the stack outlives the run of the sync.                         *)
LeaveStack(result) == /\ phase' = result
                      /\ stack' = stack /\ token' = Begin /\ data' = EmptyData
                      /\ reading' = Nothing /\ warnings' = 0

(* The run of the sync is over, and what it had in memory is gone.         *)
Leave(result) == /\ phase' = result
                 /\ stack' = << >> /\ token' = Begin /\ data' = EmptyData
                 /\ reading' = Nothing /\ warnings' = 0

(* The sync returns an error: closing the store saves the file, which the  *)
(* next task of a daemon does not look at.  A one-shot process exits.      *)
Fail(t) ==
  /\ Leave("failed")
  /\ file' = IF OneShot THEN [data |-> data, token |-> t, open |-> TRUE] ELSE NoFile
  /\ UNCHANGED skipped

(* What the loop makes of an error.                                        *)
Transient == {"Unavailable", "DeadlineExceeded"}

Skip(t) == /\ Finish
           /\ warnings' = warnings + 1
           /\ skipped' = TRUE
           /\ reading' = Nothing
           /\ token' = t
           /\ UNCHANGED <<phase, data, file>>

Retry(t) == /\ reading' = Nothing
            /\ token' = t
            /\ UNCHANGED <<phase, stack, data, file, warnings, skipped>>

(* Mutant: whatever is not found is skipped, lists too.                    *)
HandleLenient(status, t) ==
  CASE status = "NotFound" -> Skip(t)
    [] status \in Transient -> Retry(t)
    [] OTHER -> Fail(t)

Handle(status, t) ==
  CASE status = "NotFound" /\ current.op = "Grants" -> Skip(t)
    [] status \in Transient -> Retry(t)
    [] OTHER -> Fail(t)

-----------------------------------------------------------------------------
(* Requests to Vault.                                                      *)

ListReply(e) == CASE content[e] = Unmounted -> Reply("404", "errors")
                  [] content[e] = {} -> Reply("404", "noerrors")
                  [] OTHER -> Reply("200", "data")

UserReply(u) == CASE content["auth/userpass/users"] = Unmounted -> Reply("404", "errors")
                  [] u \notin ListedUsers -> Reply("404", "noerrors")
                  [] OTHER -> Reply("200", "data")

Hit(k) == k \in DOMAIN cache /\ cache[k] # Nothing

(* The body of an answer: what Vault has, or what a proxy made of it.      *)
BodyOf(r, truth) == CASE r.body = "garbled" -> Garbled
                      [] r.body = "data" -> truth
                      [] OTHER -> {}

(* The answer of a GET is kept, garbled or not, and one from the cache is  *)
(* kept again.                                                             *)
Keep(k, r, body) == cache' = IF k \in DOMAIN cache /\ Cacheable(r)
                             THEN [cache EXCEPT ![k] = body] ELSE cache

(* What a request that succeeds returns: from the cache, or from Vault.    *)
Result(k, reply, truth) == IF Hit(k) THEN cache[k] ELSE BodyOf(reply, truth)

Succeed(k, reply, truth) ==
  \/ Hit(k) /\ cache[k] # Garbled /\ UNCHANGED cache
  \/ ~Hit(k) /\ RequestStatus(reply) = "OK" /\ Keep(k, reply, BodyOf(reply, truth))

(* The request fails: the cached answer does not decode, or Vault's is an  *)
(* error, or a fault comes between.  A one-shot process that fails ends,   *)
(* and its cache with it.                                                  *)
Break(k, reply, truth, t) ==
  \E r \in IF Hit(k) THEN {Reply("200", "garbled")} ELSE {reply} \cup ReadFaults :
    /\ Hit(k) => cache[k] = Garbled
    /\ RequestStatus(r) # "OK"
    /\ Handle(RequestStatus(r), t)
    /\ IF OneShot /\ phase' = "failed" THEN cache' = EmptyCache
                                       ELSE Keep(k, r, BodyOf(r, truth))

-----------------------------------------------------------------------------
(* One disjunct of the loop per kind of action; t is its checkpoint.       *)

At(op) == /\ phase = "running"
          /\ stack # << >>
          /\ current.op = op
          /\ warnings <= MaxWarnings
          /\ reading = Nothing

Goes(t) == token' = t /\ UNCHANGED <<phase, file, reading, warnings, skipped>>

Store(field, value) == data' = [data EXCEPT ![field] = value]

(* Init checkpoints once more when it has pushed its actions.              *)
InitOp(t) == /\ At("Init")
             /\ FinishAndPush(<<All("Expansion"), All("Grants"), All("Entitlements"),
                                All("Resources"), All("ResourceTypes")>>)
             /\ Goes(t) \/ Goes(stack')
             /\ UNCHANGED <<cache, data>>

(* ListResourceTypes ranges over a map: any order, which the store keeps.  *)
Orders(S) == {s \in [1..Cardinality(S) -> S] : \A i, j \in DOMAIN s : s[i] = s[j] => i = j}

SyncResourceTypes(t) ==
  /\ At("ResourceTypes")
  /\ IF data.types = << >> THEN \E types \in Orders(Types) : Store("types", types)
                           ELSE UNCHANGED data
  /\ Finish
  /\ Goes(t) /\ UNCHANGED cache

SyncResources(t) ==
  /\ At("Resources") /\ current.type = Nothing
  /\ FinishAndPush([i \in DOMAIN data.types |-> Action("Resources", data.types[i], Nothing, Nothing)])
  /\ Goes(t) /\ UNCHANGED <<cache, data>>

(* The page a List reads: the token in its bag counts the endpoints, from  *)
(* none (""), which is 0.                                                  *)
PageIndex(bag) == IF bag.current.token = Nothing THEN 0 ELSE bag.current.token
EndpointOf(type, page) == Pages[type][PageIndex(getToken(page, type)) + 1]

(* Mutants: the first endpoint is the last; after the last, the first.     *)
NextTokenNone(type, i) == Nothing
NextTokenRound(type, i) == (i + 1) % Len(Pages[type])

(* What the client returns as the next token: the secrets have two pages,  *)
(* the other types one.                                                    *)
NextToken(type, i) == IF i = Len(Pages[type]) - 1 THEN Nothing ELSE i + 1

(* What List returns as the token of the next page.                        *)
NextPageToken(type, page) ==
  LET bag == getToken(page, type) IN Marshal(NextOf(bag, NextToken(type, PageIndex(bag))))

NextPage(type, page) ==
  IF NextPageToken(type, page) = Nothing THEN Finish
  ELSE FinishAndPush(<<Action("Resources", type, Nothing, NextPageToken(type, page))>>)

(* Mutant: a page listed again is stored again.                            *)
PutResourcesAgain(resources) == Store("resources", data.resources \o SetToSeq(resources))

(* Resources the store has already are not stored again.                   *)
PutResources(resources) ==
  Store("resources", data.resources \o SetToSeq(resources \ ToSet(data.resources)))

ListResources(t) ==
  /\ At("Resources") /\ current.type # Nothing
  /\ LET e == EndpointOf(current.type, current.page) IN
     \/ /\ Succeed(e, ListReply(e), content[e])
        /\ PutResources(ResourcesAt(e, Result(e, ListReply(e), content[e])))
        /\ NextPage(current.type, current.page)
        /\ Goes(t)
     \/ Break(e, ListReply(e), content[e], t)

(* SyncEntitlements and SyncGrants without a resource: an action for each. *)
ForEachResource(t) ==
  /\ At("Entitlements") \/ At("Grants")
  /\ current.type = Nothing
  /\ FinishAndPush([i \in DOMAIN data.resources |->
       Action(current.op, data.resources[i][1], data.resources[i][2], Nothing)])
  /\ Goes(t) /\ UNCHANGED <<cache, data>>

WithEntitlement == {"policy", "role"}

Entitlements(t) ==
  /\ At("Entitlements") /\ current.type # Nothing
  /\ IF current.type \in WithEntitlement
     THEN Store("entitlements", data.entitlements \cup {<<current.type, current.name>>})
     ELSE UNCHANGED data
  /\ Finish
  /\ Goes(t) /\ UNCHANGED cache

(* Only policies have grants.                                              *)
NoGrants(t) == /\ At("Grants") /\ current.type \notin {"policy", Nothing}
               /\ Finish
               /\ Goes(t) /\ UNCHANGED <<cache, data>>

(* The Grants of a policy: the LIST of the users, a GET of each, PutGrants.*)
Reads(t, todo, found) == /\ reading' = [todo |-> todo, found |-> found]
                         /\ token' = t
                         /\ UNCHANGED <<phase, stack, data, file, warnings, skipped>>

ListUsers(t) ==
  /\ At("Grants") /\ current.type = "policy"
  /\ LET e == "auth/userpass/users" IN
     \/ /\ Succeed(e, ListReply(e), content[e])
        /\ Reads(t, Result(e, ListReply(e), content[e]), {})
     \/ Break(e, ListReply(e), content[e], t)

(* Mutant: every user counts.                                              *)
HoldsAlways(u) == TRUE

Holds(u) == current.name \in Result(u, UserReply(u), assigned[u])

ReadUser(t, u) ==
  /\ reading # Nothing /\ u \in reading.todo
  /\ \/ /\ Succeed(u, UserReply(u), assigned[u])
        /\ Reads(t, reading.todo \ {u},
             IF Holds(u) THEN reading.found \cup {u} ELSE reading.found)
     \/ Break(u, UserReply(u), assigned[u], t)

PutGrants(t) == /\ reading # Nothing /\ reading.todo = {}
                /\ Store("grants", data.grants \cup ({current.name} \X reading.found))
                /\ Finish
                /\ reading' = Nothing
                /\ token' = t
                /\ UNCHANGED <<phase, file, warnings, skipped, cache>>

(* No grant of this connector is expandable.                               *)
Expansion(t) == /\ At("Expansion")
                /\ Finish
                /\ Goes(t) /\ UNCHANGED <<cache, data>>

(* The loop ends before the stack is empty: after too many warnings, or    *)
(* because the context of the task was cancelled.                          *)
StopEarly(t) == /\ phase = "running"
                /\ stack # << >> /\ reading = Nothing
                /\ Fail(t)
                /\ cache' = IF OneShot THEN EmptyCache ELSE cache

(* The stack is empty: EndSync, and Cleanup clears the HTTP cache.         *)
EndSync == /\ phase = "running"
           /\ stack = << >>
           /\ Leave("done")
           /\ file' = [data |-> data, token |-> token, open |-> FALSE]
           /\ cache' = EmptyCache
           /\ UNCHANGED skipped

Iterate(t) == \/ InitOp(t) \/ SyncResourceTypes(t) \/ SyncResources(t) \/ ListResources(t)
              \/ ForEachResource(t) \/ Entitlements(t) \/ NoGrants(t)
              \/ ListUsers(t) \/ (\E u \in Users : ReadUser(t, u)) \/ PutGrants(t)
              \/ Expansion(t) \/ StopEarly(t)

-----------------------------------------------------------------------------
(* A sync task: resume the unfinished sync of the file, or begin a new one,*)
(* which sees Vault as it is, or, for what is cached, as it was.  One that *)
(* began more than a week ago is not resumed.                              *)
Resume == /\ file.open
          /\ data' = file.data
          /\ token' = file.token
          /\ stack' = file.token
          /\ UNCHANGED <<file, history>>

StartAnew == /\ data' = EmptyData
             /\ token' = Begin
             /\ stack' = Begin
             /\ file' = NoFile
             /\ always' = Without(Truth, Said(FALSE))
             /\ ever' = Union(Truth, Said(TRUE))
             /\ skipped' = FALSE

Sync == /\ phase # "running"
        /\ phase' = "running"
        /\ Resume \/ StartAnew
        /\ UNCHANGED <<vaultVars, cache, flight, reading, warnings>>

(* The process dies.  What was stored since the file was saved is lost.    *)
Crash == /\ phase = "running"
         /\ Leave("failed")
         /\ cache' = EmptyCache /\ flight' = Nothing
         /\ UNCHANGED <<vaultVars, file, history>>

(* An entry of the cache expires or is evicted.                            *)
Expire == /\ \E k \in DOMAIN cache : /\ cache[k] # Nothing
                                     /\ cache' = [cache EXCEPT ![k] = Nothing]
          /\ UNCHANGED <<vaultVars, flight, phase, stack, token, data, file, reading,
                         warnings, history>>

(* Another task of the daemon, a grant, a revocation or a second sync, GETs*)
(* a user or an endpoint; its POST is a change of Vault like any other.    *)
(* The answer goes into the cache, where it may have come from, after      *)
(* whatever happens meanwhile.                                             *)
Truly(k) == IF k \in Users THEN assigned[k] ELSE content[k]

TaskGets == /\ ~OneShot /\ flight = Nothing
            /\ \E k \in DOMAIN cache : \E body \in IF Hit(k) THEN {cache[k]} ELSE {Truly(k), Garbled} :
                 /\ Hit(k) \/ k \in ListedUsers \cup ReadByGet
                 /\ flight' = [of |-> k, body |-> body]
            /\ UNCHANGED <<vaultVars, cache, phase, stack, token, data, file, reading,
                           warnings, history>>

TaskKeeps == /\ flight # Nothing
             /\ cache' = [cache EXCEPT ![flight.of] = flight.body]
             /\ flight' = Nothing
             /\ UNCHANGED <<vaultVars, phase, stack, token, data, file, reading,
                            warnings, history>>

(* Another client changes what an endpoint lists, or a user's policies.    *)
Change == /\ changes < MaxChanges
          /\ changes' = changes + 1
          /\ \/ /\ \E e \in Endpoints, list \in Lists :
                     MayList(e, list) /\ content' = [content EXCEPT ![e] = list]
                /\ UNCHANGED assigned
             \/ /\ \E u \in Users, s \in SUBSET Policies : assigned' = [assigned EXCEPT ![u] = s]
                /\ UNCHANGED content
          /\ always' = Common(always, Truth')
          /\ ever' = Union(ever, Truth')
          /\ UNCHANGED <<cache, flight, phase, stack, token, data, file, reading, warnings,
                         skipped>>

Step == (EndSync \/ \E t \in Tokens : Iterate(t))
          /\ UNCHANGED <<vaultVars, flight, always, ever>>

Next == Sync \/ Step \/ Crash \/ Expire \/ TaskGets \/ TaskKeeps \/ Change

Spec == Init /\ [][Next]_vars

(* The syncer's goroutine runs while a sync is in progress.                *)
FairSpec == Spec /\ WF_vars(Step)

-----------------------------------------------------------------------------
Resources == UNION {ResourcesAt(e, NamesAt[e]) : e \in Endpoints}

PageBag(t, i) == [states |-> << >>, current |-> PageState(i, t)]
PageTokens(t) == {Nothing} \cup {PageBag(t, i) : i \in 1..(Len(Pages[t]) - 1)}

Actions ==
  {All(op) : op \in {"Init", "ResourceTypes", "Resources", "Entitlements", "Grants", "Expansion"}}
    \cup {Action(op, r[1], r[2], Nothing) : op \in {"Entitlements", "Grants"}, r \in Resources}
    \cup UNION {{Action("Resources", t, Nothing, k) : k \in PageTokens(t)} : t \in Types}

(* Nothing is none of the values it stands beside.                         *)
ASSUME NothingAssumption ==
  /\ Nothing \notin ResourceTypes \cup Nat
  /\ \A t \in Types : \A i \in 1..Len(Pages[t]) : Nothing \notin {PageState(i, t), PageBag(t, i)}
  /\ \A S \in SUBSET (Policies \cup Names) : S # Nothing

MayStore == [types : {<< >>} \cup Orders(Types), resources : Seq(Resources),
             entitlements : SUBSET Resources, grants : SUBSET (Policies \X Users)]
MayKnow == [listed : SUBSET (Endpoints \X Names), grants : SUBSET (Policies \X Users)]
NamesOf(k) == IF k \in Users THEN Policies ELSE NamesAt[k]
MayKeep(k) == {Nothing, Garbled} \cup SUBSET NamesOf(k)

TypeOK ==
  /\ content \in [Endpoints -> Lists] /\ \A e \in Endpoints : MayList(e, content[e])
  /\ assigned \in [Users -> SUBSET Policies]
  /\ changes \in 0..MaxChanges
  /\ cache = [k \in Users \cup ReadByGet |-> cache[k]]
  /\ \A k \in Users \cup ReadByGet : cache[k] \in MayKeep(k)
  /\ flight # Nothing => /\ flight = [of |-> flight.of, body |-> flight.body]
                         /\ flight.of \in Users \cup ReadByGet
                         /\ flight.body \in {Garbled} \cup SUBSET NamesOf(flight.of)
  /\ phase \in {"idle", "running", "done", "failed"}
  /\ {stack, token, file.token} \subseteq Seq(Actions)
  /\ token # << >> /\ file.token # << >>
  /\ phase # "running" => stack = << >>
  /\ {data, file.data} \subseteq MayStore
  /\ file = [data |-> file.data, token |-> file.token, open |-> file.open]
  /\ file.open \in BOOLEAN
  /\ reading # Nothing => /\ phase = "running" /\ stack # << >>
                          /\ current.op = "Grants" /\ current.type = "policy"
                          /\ reading \in [todo : SUBSET Users, found : SUBSET Users]
                          /\ warnings <= MaxWarnings
  /\ warnings \in 0..(MaxWarnings + 1)
  /\ always \in MayKnow /\ ever \in MayKnow
  /\ skipped \in BOOLEAN

(* What Vault has all along a sync is stored when the sync completes: the  *)
(* resources of every page, and the grants unless their action was         *)
(* skipped, whatever errors it retried, failures it was resumed from and   *)
(* crashes it survived, and however old the checkpoint it was resumed from *)
(* (syncer.go 276-458; the List of every builder; policy.go 85-130).       *)
NothingMissed ==
  phase = "done" =>
    LET stored == ToSet(file.data.resources) IN
    /\ ResourcesOf(always.listed) \subseteq stored
    /\ ~skipped => \A g \in always.grants :
         <<"policy", g[1]>> \in ResourcesOf(always.listed) => g \in file.data.grants

(* The sync implements SyncPromise: what it publishes appears in one step, *)
(* at its completion, lies between the always and the ever of that very    *)
(* sync, resumptions included, and is not touched until the next one       *)
(* begins (syncer.go 276-458, sync_runs.go 293-319).                       *)
AsResources(x) ==
  LET resources == ResourcesOf(x.listed)
  IN [resources |-> resources, grants |-> {g \in x.grants : <<"policy", g[1]>> \in resources}]

Promise == INSTANCE SyncPromise WITH
  truth <- AsResources(Truth),
  always <- AsResources(always),
  ever <- [resources |-> ResourcesOf(ever.listed), grants |-> ever.grants],
  syncing <- phase = "running",
  lossy <- skipped,
  result <- IF phase # "done" THEN Nothing
            ELSE [resources |-> ToSet(file.data.resources), grants |-> file.data.grants]

KeepsPromise == Promise!Spec

(* Nothing is stored, by a sync in progress or in the file of one that     *)
(* ended, that Vault did not have at some time of that very sync           *)
(* (policy.go 109-122, syncer.go 600-670).                                 *)
NothingInvented ==
  \A d \in {data, file.data} : /\ ToSet(d.resources) \subseteq ResourcesOf(ever.listed)
                               /\ d.grants \subseteq ever.grants

(* When a sync completes, the resources that have an entitlement are those *)
(* stored, including the ones a resumed run found, and none is stored      *)
(* twice (syncer.go 636-670, 736-823).                                     *)
EntitlementsMatch ==
  phase = "done" =>
    LET stored == file.data.resources IN
    /\ file.data.entitlements = {r \in ToSet(stored) : r[1] \in WithEntitlement}
    /\ Cardinality(ToSet(stored)) = Len(stored)

(* A sync ends, unless it meets transient errors for ever (syncer.go       *)
(* 213-262): every page and every action is done with in the end.          *)
Retried == Step /\ stack # << >> /\ Retry(token')

SyncEnds == <>[][~Retried]_vars => (phase = "running" ~> phase # "running")
=============================================================================
