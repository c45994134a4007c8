# The HashiCorp Vault connector in TLA+

Formal models of `baton-hashicorp-vault`: a connector of the Baton SDK that
syncs Vault's users, roles, policies, secrets, auth methods, groups and
entities, and provisions the policies of userpass users. The modules are
translated from the connector's code (`pkg/connector`, `pkg/client`,
`cmd/baton-hashicorp-vault`) and from the parts of the vendored SDK that
drive it (`vendor/github.com/conductorone/baton-sdk/pkg`). Vault and the
network have no code here; they are modelled from what the client makes of
their answers and are marked *external* in `PROJECT.json`.

Contents: [parts](#the-parts-of-the-system), [hazards](#what-is-hard),
[modules](#the-modules), [runs](#the-runs), [findings](#findings),
[fairness](#fairness), [proofs](#proofs), [limits](#what-is-not-modelled),
[plan](#plan).

## The parts of the system

| part | code | state it keeps | operations | talks to |
|---|---|---|---|---|
| Connector start | `main.go`, `config.go`, `connector.go`, `client.go` `New`/`enableStores` | none after it returned | check the configuration, check three stores in turn, enable the missing ones; `Validate` | Vault `sys/auth`, `sys/mounts` |
| Vault client | `pkg/client/client.go` | base URL and token | LIST and GET of collections, `GetUser`, `UpdateUserPolicy`, `EnableAuthMethod` | HTTP wrapper |
| HTTP wrapper and cache | `uhttp/wrapper.go`, `gocache.go` | body of every GET answered 200, for an hour | look up, send, fill, clear all | Vault |
| Resource builders | `pkg/connector/*.go` | none | `List`, `Entitlements`, `Grants` per type | Vault client |
| Policy builder | `policy.go`, `helper.go` | none: a read-modify-write of the user's list in Vault | `Grant`, `Revoke`, `Grants` | Vault client |
| Connector builder | `connectorbuilder.go` | the builders by type | dispatch of calls; `Cleanup` clears the cache | builders, cache |
| Full sync | `sync/syncer.go`, `sync/state.go` | a stack of actions, the store of the sync | one action per loop iteration; checkpoint, retry, skip, resume | connector, C1Z store |
| Pagination bag | `pagination.go`, `helper.go` | a stack of page states, passed as a page token | push, pop, next, marshal | builders, syncer |
| C1Z store | `dotc1z/` | resources, entitlements, grants, the sync's token | put, list, checkpoint, start/end a sync | file |
| Task runner | `connectorrunner/runner.go` | a semaphore of three slots | one-shot: one task per process; daemon: three at a time; interrupt, close | task manager, connector wrapper |
| Connector wrapper | `internal/connector/connector.go` | client, connection and pipe to the child, under a mutex | start the child, dial it, close, end the parent when the child quits | child process |
| C1 task API, CLI | `tasks/c1api`, `cli` | remote queue; flags | only the outcomes of `Next` and the end of the command | |

How they interact. A command is a parent process and a child that serves gRPC.
Both run `getConnector`, hence `enableStores`, one after the other: the parent
starts the child when a task first asks the wrapper for a client. In **one-shot
mode** the process performs one task (a sync, a grant, a revocation) and ends;
its HTTP cache starts empty and dies with it. In **daemon mode** one process
serves tasks from a remote queue, three side by side, and they share one HTTP
cache. That cache answers GETs only, keeps any body that came with a 200 for
an hour since it was last *used* (every hit is cached again), is not told of a
POST, and is emptied by the `Cleanup` call at the end of a sync
that *succeeded*. A sync saves its store to a file when it ends, well or
badly, and the next one-shot sync resumes an unfinished one from its last
checkpoint, unless that one began more than a week ago; a daemon's syncs each
have a new file.

What makes each part correct, and where it is stated:

* policy builder: a call that succeeded changed the one policy of the one user
  it names and the change lasts (`SettledHolds`, `AtomicCalls`); nothing is
  written but a list Vault held, changed by the call (`WritesDeriveFromHeld`);
  no list ever has a policy twice (`NoDuplicates`); calls end (`CallsEnd`);
* `Grants`: a report is true of some instant (`AtomicCalls`), agrees with what
  was settled before it (`ReportsAgree`), or at least was true once
  (`ReportsWereTrue`);
* cache: an entry is the body Vault gave for that very user (`ViewsWereHeld`);
* start: a ready connector has its stores, whoever mounted them, and is not the
  empty client (`ReadyMeansMounted`), and losing a race is no failure
  (`OnlyFaultsFail`);
* full sync: it publishes, in one step, what was there all along
  (`NothingMissed`), nothing that never was (`NothingInvented`), both of them in
  `KeepsPromise`; entitlements and resources match (`EntitlementsMatch`), and it
  ends (`SyncEnds`);
* runner and wrapper: no path loses or duplicates a slot (`SlotsMatch`,
  `ClaimsHaveRoom`), one child is started (`StartsOnce`), and tasks, interrupts
  and the death of the child all come to an end (`TasksEnd`, `InterruptEnds`,
  `QuitEnds`).

## What is hard

`PROJECT.json` lists each hazard at its line. In short: the read of a
read-modify-write may come from a cache that nothing invalidates; tasks
interleave between it and the write; Vault changes between the LIST, the GETs
and the POST; a POST may have been carried out although its answer is lost;
404 means "empty" or "error" depending on the body; errors of the start are
dropped; commands mount the same stores at once; checkpoints are up to ten
seconds old and actions are popped before their results are stored; a failed
sync leaves its cached answers behind, and garbled ones stay as long as someone
meets them; a GET may fill the cache after another task cleared it; retries have
no limit; warnings are counted anew after a resumption; slots are given back on four paths, one of which never took one; the
wrapper dials the child under its mutex and without a timeout; the connection is
closed under the tasks that use it.

Some of these the models contain without a property that would catch them, since
the code lets them happen and a property has to except them: a dropped error of
the start (`trouble`), a skipped grants action and the warnings before a
resumption (`skipped`), two secrets of one name in two stores (resources are
compared by type and ID, as the code does), a child that cannot be started
(`child = "none"`). Their hazards name no property and say so.

## The modules

| module | what it is |
|---|---|
| `VaultClient` | what one answer of Vault becomes: `BaseHttpClient.Do`, `doRequest`, cacheability |
| `PolicyBuilder` | `Grant`, `Revoke`, `Grants`, request by request, with the cache, the workers, crashes and other clients of Vault |
| `PolicyHistory` | `PolicyBuilder` and every list each user has had |
| `PolicyOutcome` | `PolicyBuilder` and what successful calls have settled; its refinement of `PolicyAssignment` |
| `PolicyAssignment` | the abstract specification: policies of a user are a set, calls are atomic |
| `PolicyBuilderProofs` | type correctness and `NoDuplicates`, proved |
| `PolicyHistoryProofs` | the three properties of `PolicyHistory`, proved |
| `PolicyOutcomeProofs` | the two properties of `PolicyOutcome` and its refinement, proved |
| `Startup` | commands, with their children, from their configuration to `Validate` |
| `StartupProofs` | the invariants of `Startup`, proved |
| `Pagination` | the bag of page states and its tokens |
| `PaginationProofs` | a token brings back the page it was made for, proved |
| `FullSync` | the syncer's loop over every builder's `List`, `Entitlements` and `Grants`; its refinement of `SyncPromise` |
| `SyncPromise` | the abstract specification: what a sync may publish, and when |
| `SyncPromiseProofs` | what was published stays true of its sync, proved |
| `FullSyncProofs` | the safety properties of `FullSync` and its refinement, proved |
| `ConnectorWrapper` | the wrapper of the parent process, its mutex, and the child's life |
| `TaskRunner` | the runner's loop over `ConnectorWrapper`, its semaphore, tasks and end |
| `TaskRunnerProofs` | the invariants of `TaskRunner`, proved |
| `MCPolicyHistory`, `MCPolicyOutcome`, `MCStartup`, `MCFullSync`, `MCTaskRunner` | small instances for TLC |

`PolicyBuilder`, `Startup` and `FullSync` all extend `VaultClient`, so that an
answer means the same everywhere. `FullSync` extends `Pagination`, `TaskRunner`
extends `ConnectorWrapper`.

### VaultClient

A reply is a status code (or "timeout", "refused") and the kind of its body.
`DoStatus` is the gRPC code `Do` puts into its error; `RequestStatus` is what
`doRequest` returns: it reads the body of a 400 or a 404 and makes no error of
an empty `errors` array or of "path is already in use". `FaultReplies` are the
answers any request may meet when Vault, the network or a proxy misbehaves;
none of them carries out the request, except that a POST that times out may
have been. `ReadFaults` adds what only a request that decodes its answer can trip
over, a 200 that is not Vault's; `Cacheable` does not look at the body, as `Do`
does not.

### PolicyBuilder

| variable | in the code |
|---|---|
| `vault` | userpass users: `token_policies` of each, in order, or `Absent` |
| `cache` | the `GoCache` entry of `GET auth/userpass/users/<user>` |
| `pc`, `job` | where the worker's call stands; its arguments |
| `at`, `view` | `userId` (or the loop variable `user`), and `userInfo.Data.TokenPolicies` |
| `todo`, `found` | the users left in the loop of `Grants`; `rv` |

The stages of a GET are those between which another task can act: look-up
(`get`), on the wire (`wire`), answered but not yet in the cache (`fill`),
used (`use`). A hit goes through `fill` too, because `Do` caches again what it
took from the cache; `Decode` comes after it, so a garbled body is in the cache
by the time the call fails. `Grant` and `Revoke` run `get … use`, then `Post`; `Grants` runs
`list`, then per user `next`, `get … use`. The order in which users are listed
is arbitrary. `Nothing` as the principal stands for a principal that is no
user, which is refused before any request. A user that is not there answers
404 without errors: an empty list to `GetUser`, and not cached; the POST then
meets 400.

A sync is in this module the sequence of its `Grants` calls (`NextGrants`)
and its `Cleanup` (`EndSync`); after a failed call it repeats the call, skips it
with a warning, or fails, and a failed sync ends with `Release`. With
`OneShot` a worker that takes a task has an empty cache. `Crash` ends the calls
of all workers and empties the cache. `AdminWrite` is any other client of
Vault; with `AdminInterferes = FALSE` it acts between calls only. The lists it
writes have no duplicates, since Vault removes them from `token_policies`.

### PolicyHistory and PolicyOutcome

They add history variables and nothing that restricts the code. `held` is the
set of values `vault[user]` has had. `settled` is what the last successful
call said about a user and a policy, until an opposite call begins, another
client writes the user, or, at the moment of success, another call on the same
user is under way (`Contested`: two overlapping read-modify-writes may undo
one another even without a cache, as the comment there says; the property is
about calls that do not overlap). `expect` is a copy of it from the beginning
of a `Grants` call.

### Startup

Per process: `config` (is a `vault-token` given, and what is `vault-host`), `pc`,
`step` (which of the three stores `enableStores` is at), `trouble` (history: the
stores about which the process met a fault, and `"config"`). `Parent` says which
process starts which; a child has its parent's configuration, starts when the
parent is ready, and is the one that answers `Validate`. `Configure` is the check of the required fields and `Start` is
`getConnector` up to the first store; `connector.New` would go on with an empty
client where the token or the host is missing, and `ReadyMeansMounted` shows
that the required fields keep every process away from there. `Check` is `CheckAuthenticationMethod` and the
`if`s after it: only an error that names a 400 leads to `Enable`, any other is
dropped. `token = "denied"` is a token to which Vault answers 403.

### FullSync

| variable | in the code |
|---|---|
| `content`, `assigned` | what each endpoint of Vault lists (or `Unmounted`); policies of users |
| `cache` | `GoCache` entries of users, `sys/policy`, `sys/auth` (the other collections are LISTs, which are not cached) |
| `stack` | `state.actions` and `state.currentAction` |
| `token` | the sync token the store has, the last checkpoint |
| `data` | the open store of the sync |
| `file` | the `.c1z` file: written by `Close`, so after the end of a sync, good or bad, and not when the process is killed |
| `flight` | the answer another task or sync of the daemon holds and has yet to cache |
| `reading` | the `Grants` call in progress: users left to read and users found |
| `warnings` | the local slice of `Sync` |
| `always`, `ever`, `skipped` | history: what Vault had throughout, at some time, and whether a run of the sync skipped a `Grants` call |

A step is an iteration of the loop, except that a `Grants` call is a step per
request so that Vault can change inside it. The parameter `t` of every action
is the token after the `Checkpoint` the iteration began with: the stack or, if
the last checkpoint is younger than ten seconds, what it was. `Handle` is the
error handling of the loop: a NotFound from a `Grants` call is skipped with a
warning, Unavailable and DeadlineExceeded are retried, all others end the
sync. `StopEarly` is the end of the loop between two iterations, by a cancelled
context or too many warnings. `ListResourceTypes` ranges over a Go map, hence the arbitrary order;
resources come back in the order in which they were stored.

A page token is a bag (`Pagination`) whose token counts the endpoints of
`listEndpoints`. `TaskGets` and `TaskKeeps` are a GET of a grant, a revocation
or a second sync that runs beside this one: of a user, or of `sys/policy` or
`sys/auth`. Its answer may be older than the sync, or garbled, and enter the cache
at any later time; a POST is a `Change`.

`Resume` takes up the unfinished sync of the file. `StartAnew` begins a sync, with
or without such a file, since one that began more than a week ago is left alone.

For a new sync `always` and `ever` start from Vault as it is, weakened by what
the cache and the answer in flight say: a sync may store what a cached answer
claims and may miss what it denies. A run that resumes a sync keeps both, so what a completed sync must
contain ranges over all its runs.

Resources are identified by type and ID, as in the code, where the ID is the
listed name, or the path of an auth method without its slashes (`Stripped`, a
constant function that stands for `removeTrailingSlash`); `always` counts a
name per endpoint, so a secret moved from one secret store to the other in the
middle of a sync is not promised to be found.

`SyncPromise` says the same without any of the syncer's machinery: frames
(`always`, `ever`) around the truth, a sync that begins, is resumed, loses
grants, stops, or completes; what it publishes appears in the completing step,
lies within the frames and stays until the next sync begins. Its `truth` is what
`FullSync`'s `AsResources` makes of Vault: resources by type and ID, and only
the grants whose policy is a resource.

### ConnectorWrapper and TaskRunner

| variable | in the code |
|---|---|
| `cancelled` | the context of `Run` is done |
| `lock` | who holds `cw.mtx` for writing (readers hold it for one step only) |
| `client`, `stdin` | `cw.client` with `cw.conn`; `cw.serverStdin` |
| `child`, `waiter` | the child process; the goroutine behind `cmd.Wait` |
| `call` | how far each task is: looking for the client, starting the child, dialling, using the client, or without one |
| `oneShot`, `claimed` | the mode; the manager of a one-shot command has given its task |
| `held` | what is taken of the semaphore (`s.cur`) |
| `stop`, `loop` | `stopForLoop`; where `run` and, after it, the command are |
| `process` | running, or how it ended: exit 0, exit 1, a panic of the semaphore (`panicked`) or of a nil client (`crashed`) |

`Look` and `Read` are two steps, since `C` returns the field after the read lock
is gone. `RunServer` remembers the pipe before it starts the child. `Dial` ends
when the child serves or the context is done, and nothing else ends it: the
five-second context is not the one passed to `DialContext`. `Close` needs the
mutex; if an earlier step of it fails, as it does on a connection or a pipe that
is closed already, the fields keep their values. `Done` and `Timer` are both
enabled when the context is done and the timer has fired, as a Go `select` picks
either. The flag `stop` is read without synchronisation, so `Turn` is possible
after it was set. `NextFails`, `NextNone` and `NextTask` are the outcomes of
`Next`; the remote queue behind it is not modelled.

## The runs

All runs use the definitions as they are: a cfg gives constants values only.

| run | instance | question |
|---|---|---|
| `OneShot` | 2 users, 2 policies, 1 worker, cache, process per task; 181 016 states | are calls atomic (`AtomicCalls`), do outcomes last, do reports agree, do calls end |
| `NoCache` | 1 user, 2 policies, 2 workers, no cache, administrator at any time; symmetric workers; 86 429 states | is the interleaving alone harmless to calls that do not overlap |
| `Daemon` | 1 user, 2 policies, 2 workers, shared cache, administrator at any time; symmetric workers; 1.5 M states | what still holds in daemon mode: no duplicates, every write derives from a list Vault held, reports invent nothing |
| `DaemonLosesGrant` | `OneShot`'s instance in daemon mode | violated: a grant undoes an earlier grant |
| `Startup` | two commands, one with its child, any configuration, any subset of the stores mounted, any token; 148 785 states | do the stores get mounted, is the race harmless, does starting end |
| `Validate` | the same | violated: Validate succeeds with a denied token |
| `SyncGrants` | 1 user, 1 policy, 2 changes of Vault, no warnings tolerated, one-shot with resumption; 1.2 M states | does a sync resumed from old checkpoints keep the promise |
| `SyncDaemon` | 1 user, 1 policy, 3 changes, one warning tolerated, daemon with another task or sync beside it; 1.1 M states | the same over a cache left by failed syncs and filled by other tasks |
| `SyncEnds` | users, secrets and auth methods, one secret name at both endpoints, two auth paths that differ by a slash, Vault unchanged; 0.6 M states | are both pages read, does a sync end |
| `TaskRunner` | 2 slots, 3 tasks, both modes; 17 045 states | slots, the one child, and the end of tasks and process |
| `RunnerPanics` | the same | violated: the runner gives back a slot it does not hold |
| `ParentHangs` | the same | violated: the parent dials a dead child for ever |

Bounds. Tasks are never counted: workers take calls for ever, so any sequence
of grants, revocations and reports is within the runs. Two workers give every
pairwise interleaving; three would add chains, whose effect on one list is a
pair at a time. Two policies are needed for one grant to undo another; two
users to mix users (`OneShot`); the theorems about `PolicyHistory` and
`PolicyOutcome` hold for any number of each. What the instances leave out:
`OneShot` has one worker and no other client of Vault during a call, as a
command has, so `AtomicCalls` says nothing of other writers, which `NoCache` and
`Daemon` have; `Daemon` has one user, so that a write to the wrong user is ruled
out there by the theorem `WritesAddOrTakeOne` only; `SyncEnds` has no changes of
Vault, which the safety runs have. Three tasks on two slots let one wait in `Acquire` while
others hold every slot, and let two tasks look for the client at once; the
theorems cover any number. `Startup` needs a race between commands and a child
behind one of them; there is no third store-enabling command that could add
more than another loser of the race. Worker symmetry is sound since workers are
interchangeable and the symmetric runs check no liveness. `MaxChanges` bounds
the changes of other clients during the syncs, one before and one after any
point of interest; `MaxWarnings` is 10 in the code and 0 or 1 in
the runs: the limit is within reach, and with 1 a sync may also complete after
a skipped action. Seven resource types have five
shapes (with or without entitlements, grants, a second page, a cached list);
the runs use the types `user`, `policy`, `secret` and `auth_method`, which
between them have all of these.

## Findings

* `DaemonLosesGrant`: `Grant` computes the list to POST from a GET that the
  cache may answer (`policy.go` 145, `wrapper.go` 296), and a POST does not
  invalidate it. In daemon mode, granting p2 and then p1 to a user within the
  hour posts the user's list without p2, if the list was cached before the
  first grant, which the first grant's own GET sees to.
* `Validate`: `Connector.Validate` makes no request, contrary to its comment,
  and `enableStores` drops a 403.
* `RunnerPanics`: when `Acquire` fails because of an interrupt, the runner calls
  `Release(1)` for a slot it did not get (`runner.go` 144). With no task running
  the semaphore panics, "released more than held". `SlotsMatch` holds all the
  same while the runner loops: this is the last thing it does.
* `ParentHangs`: `C` gives `DialContext` the context of the run instead of the
  one with the five-second timeout its comment speaks of (`connector.go` 301-310).
  When the child quits before it serves, the dial goes on until an interrupt, and
  holds the mutex for which the goroutine waits that would have ended the parent
  (`Close`, 255). `TasksEnd` and `QuitEnds` except this one state, `Hung`, and
  show that it is the only way to get stuck.

Also seen while modelling, without a run of its own: for the reason of
`DaemonLosesGrant` the report of a daemon's sync may contradict a grant before it
(`ReportsAgree` is checked without a shared cache only). A garbled 200 to `GET
sys/policy` that reaches a daemon's cache fails its syncs for as long as one comes
every hour, each hit renewing the entry, since `Cleanup` follows successful syncs
only. The comment of `Sync` promises a checkpoint before each action, and the code
leaves it out within ten seconds of the last; `SyncGrants`, where any step may do
so, shows that completeness does not depend on it. After an interrupt the exit
code is 0 or 1, depending on who is first (`Exit`, `WaiterExits`).

## Fairness

`OFairSpec`: weak fairness of each worker's `Step`. A worker's goroutine is
scheduled by the Go runtime, and its HTTP request returns or is given up
after five minutes (`uhttp/client.go` 70); steps of the environment (crash,
expiry, other clients) and the arrival of tasks are not fair. `Startup`'s and
`FullSync`'s `FairSpec` assume the same of `getConnector` and of the loop of
the syncer. `TaskRunner`'s assumes it of the loop and of the child, which serves
or quits in the end (`ChildGoesOn`: a child that serves need never stop, but it
is killed with the context and ends when its pipe closes). Tasks, the deferred
`Close` and the goroutine behind `cmd.Wait` have strong fairness, because they
wait for a mutex others may take again and again, and Go's `RWMutex` starves
neither readers nor writers. A task that uses its client returns in the end:
its HTTP requests have a timeout. Liveness is stated under the weakest condition that is true:
`SyncEnds` assumes that transient errors stop, because the code retries them
without limit; `StartEnds`, that the process is not restarted for ever.

## Proofs

`PolicyBuilderProofs`, for any users, policies, workers, modes and
administrator lists that meet the two assumptions of `PolicyBuilder`
(`ModesAssumption`, `ValuesAssumption`: distinct "no value" constants, and
lists of other clients without duplicates):

* `TypeCorrect`: `Spec => []TypeOK`. `TypeOK` is inductive as it stands because
  it contains `StageType`: that a call in the stages of a GET has a user in
  hand, that it has a list when it is past it, and that the user read by a
  `Grant` or `Revoke` is its principal. Without these conjuncts the step of
  `Post` could write to no user at all.
* `NeverDuplicates`: `Spec => []NoDuplicates`. `NoDuplicates` speaks of Vault's
  lists, the cache's and the calls' at once, which makes it inductive given
  `TypeOK`: lists only move between the three, and a POST stores
  `Granted(view)` or `Revoked(view)`. That these two preserve types and the
  absence of duplicates is in lemmas of its own, whatever the list.

`PolicyHistoryProofs`, from the same two assumptions. `HSpec => Spec`, so what
is proved of `PolicyBuilder` holds here. The inductive invariant `HInv` is
`ViewsWereHeld` and `ReportsWereTrue` with three more conjuncts:

* `HeldNow`: the history has Vault's present lists, which a GET returns;
* `FillWasHeld`: the list about to enter the cache is one Vault held. By
  `ViewsWereHeld` alone it might be the empty list that `GetUser` makes of a
  missing user, which must never be cached;
* `BetweenUsers`: a `Grants` call between two users has no list in hand.
  `NextUser` sets `at` and leaves `view`, so a list left over would pass for
  the next user's.

Since most steps move a list without changing the history, the proof goes
worker by worker (`WorkerInv`), and lemmas say what a step need not disturb
(`CacheKept`, `ViewKept`, `ReportKept`, `OthersKept`). Theorems:

* `ListsComeFromVault`: `HSpec => []ViewsWereHeld`;
* `ReportsInventNothing`: `HSpec => []ReportsWereTrue`;
* `WritesAddOrTakeOne`: `HSpec => WritesDeriveFromHeld`, an action property:
  only `Post` writes, its list is in the history by `ViewsWereHeld`, and
  `UpdatedEffect` says that `Updated` adds or takes out one policy of the set.
  Taking out needs `NoDuplicates`: `RemoveIndex` removes one occurrence.

`StartupProofs`, for any number of processes (there is no assumption). The
inductive invariant `IInv` has `OnlyFaultsFail` and, for `ReadyMeansMounted`,

* `PassedMeansMounted`: the same for every store the process is past, which is
  what a process halfway through `enableStores` knows;
* `NewPassedNone`: a process that has yet to start is past none, which is
  needed where a restart forgets its `trouble`;
* `ConfiguredHasToken`: a process that got past the check of its configuration
  has a token (and `WithAddress` refuses the hosts that are none), so
  `connector.New` never keeps the empty client.

Theorems: `StartTypes`, `ReadyHasStores` and `RaceIsHarmless`. The last rests on
`EnableSucceeds`: the answer to enabling a store someone else enabled first is
no error.

`TaskRunnerProofs`, for any number of slots and any finite set of tasks
(`SlotsAssumption`, `WrapperAssumption`). The inductive invariant is in two parts.
For the wrapper, `WInv`: `TypeOK`, which says who may hold the mutex, with

* `LeftMeansCancelled`: a loop that was left has cancelled its context;
* `ChildIsKnown`: a child is never without a pipe that is remembered, nor is the
  pipe there without a client, unless the mutex is held by the task that dials
  or the run is over. Without it a second task could start a second child.

For the semaphore, `SInv`: `SlotsMatch`, `ClaimsHaveRoom` and `BusyMatches`, that
a one-shot command has a task exactly while its loop is in it. Theorems:
`RunnerTypes`, `NoSlotLeaks`, `EveryClaimHasRoom`, `OneChild`.

`PolicyOutcomeProofs`, from the assumptions of `PolicyBuilder` and
`AbsentAssumption` (a user that does not exist is no set of policies).
`OutcomeLasts` and `ReportsRight` hold under `OneShot \/ ~CacheOn`: a process
per task, or no cache. What is left out is the shared cache, where
`DaemonLosesGrant` refutes them. They need no assumption about other clients of
Vault, who may write at any time, and none about the number of calls in progress.
`Agrees` says that a list of policies bears out a verdict; the inductive
invariant `OInv` is the two properties with

* `ChangeInv`: a `Grant` or a `Revoke` in progress has called off the opposite
  verdict, and the list it is about to change bears out what is settled of the
  *other* policies of its user. A POST may then settle its own policy without
  upsetting another (`PostEffect`), and one whose answer was lost upsets nothing.
  `Contested` keeps this true of two calls on one user;
* `ReportInv`: Vault, the list in hand and `found` bear out what a `Grants` call
  is expected to report, and `Progress`, that a user it must name is found, or in
  `todo`, or being read;
* `PairInv`: a POST beside a `Grants` call does not disappoint it, the
  counterpart of `ChangeInv` for `expect`;
* `CacheInv`: in a process of its own, as long as it looks at its cache, what the
  cache says bears out what is settled. This one is false in a daemon;
* `NoCacheInv`: a cache that is off is empty.

`Sound` gathers what a list must bear out to be worked with: Vault's are
(`VaultIsSound`), the cache's in a process of its own (`CachedIsSound`), and a step
that only passes sound lists on keeps `OInv` (`QuietStep`), so that of the steps of
a call only `Post` needs an argument of its own.

`Atomic`, under `OneShot` and `~AdminInterferes`: `OSpec => AtomicCalls`, the
refinement of `PolicyAssignment`. Its invariant is `AllAtomic`: what the cache, or
the call, has of a user is what Vault has; a `Grants` call has found exactly the
users that have the policy, but for those it has still to read; a change has found none. One lemma
per kind of step says which abstract step it is: the beginning of a call is
`Begin`; `Post` is `Serve` or, when its answer is lost, `Fail` with or without
effect; the end of the loop over the users is `Serve`, with Vault as it is at that
moment; an error and the death of the process are `Fail`; all else is a stutter.

`FullSyncProofs`, for any resource types that include users, any finite sets of
names, and any bounds. `SyncAssumption` says of Vault that an endpoint lists
finitely many names and that its URL is not that of a user; `NothingAssumption`
that the nil of Go is not one of the values it stands beside. The inductive invariant `SyncInv` is
`TypeOK` and `NothingInvented` with

* `Covered`: with the data stored and the actions of the stack left, nothing is
  missed. The same is said of each checkpoint the sync may be resumed from, of the
  file of one that failed, and, with no actions left, of one that completed.
  `Complete` says it per kind of work: a name that was listed all along is stored,
  or the whole stage is still to come (`Due`), or an action for its type is left
  whose page is not past the name's; each stored resource with entitlements has them or an
  action of its own; each grant is stored or is due. `InOrder` says that a stack
  holds the stages in the order of `Init`, without which a stage could end before
  one that feeds it;
* a checkpoint is at least as early as the stack (`Listing(stack) =>
  Listing(token)`), so that a resumed run finds again what it lost;
* `Frames`, `KnownFits`, `ReadingFits`: Vault, the cache with the answer in flight,
  and the `Grants` call in progress lie between `always` and `ever`. A sync over a
  cache left by another is right for this reason;
* `StoredOnce`: no resource is in the store twice, though old checkpoints make it
  list again what it has.

What an action of the loop may do is one notion, `Advances`, and it keeps
`Covered` (`AdvancesKeeps`); one lemma per action says that it advances. Theorems: `Invariant`
(`Spec => []SyncInv`), `TypeCorrect`, `Truthful`, `EntitledAndOnce`, `Thorough`
and `Refines`, that each step is one of `SyncPromise` or a stutter: `EndSync` is
`Complete`, the start of a run `Begin` or `Resume`, its failure or death `Stop`, a
skipped action `Lose`, a change of Vault `Change`.

`SyncPromiseProofs`: `PublishedIsTrue`, that the steps of the abstract sync amount
to an invariant of every published result. Together with `Refines` it is what a
reader of a `.c1z` file may rely on.

`PaginationProofs`: `TokenRoundTrip`, for any bag with a current state. It assumes
that `Nothing` is no token, no state and no bag.

The proofs have one step per action. `SyncInv`, `OInv` and `AllAtomic` were checked
by TLC on the runs' instances before they were proved. Every safety property, action property and
refinement that a passing run checks is now a theorem. What is only model-checked is
liveness (`CallsEnd`, `StartEnds`, `SyncEnds`, `TasksEnd`, `InterruptEnds`,
`QuitEnds`), since fairness and ENABLED are beyond the proof system here.

## What is not modelled

* Formatting, logging, rate limiting, the file-backed cache variant, and the
  contents of a resource beyond its type and ID.
* `AddUsers`, `AddRoles`, `AddPolicy`, `AddSecrets` of the client: only the
  integration tests call them.
* Grant expansion, ETags, assets, child resources, previous syncs: the
  connector produces none of what they work on.
* The C1 API: its queue, heartbeats, uploads and `FinishTask`. `TaskRunner` has the
  outcomes of `Next` and of a task; what the service makes of them is not here.
* In `ForEachResource`, the paging of the store: the model lists it in one
  iteration. A page of the store has 10 000 entries (`dotc1z/sql_helpers.go` 19);
  beyond that the code pushes the actions of each page on top of those left.
* The check of `connectorbuilder.go` 443 that a page token differs from the one
  before: the tokens of this connector always do.
* In `PolicyBuilder`, which failures of `Grants` are skipped; there any may be.
  `FullSync` has the codes.
* Parsing of flags, environment and configuration files; TLS between the
  processes; the encoding of the configuration the child reads from its pipe.
* `pkg/mockdata`: literal data for the integration tests.

## Plan

Done: everything in the table of modules; every safety property of a passing run
is proved, and both refinements.

Next, in this order:

1. Proofs: the safety half of the liveness arguments, as theorems: that a `Grants`
   call reads each user once and every stage of a call leads on (`CallsEnd`), that
   an iteration of the syncer that does not retry shortens what is left of the
   stack or of a page (`SyncEnds`), and that no reachable state of the runner but
   `Hung` is stuck.
2. Proofs: `PublishedIsTrue` restated for `FullSync`.
3. Model: a full sync over `PolicyBuilder`'s workers in place of its
   `Grants`-only sync, if the state space allows.
