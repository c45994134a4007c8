-------------------------- MODULE TaskRunnerProofs --------------------------
(***************************************************************************)
(* For any number of slots and of tasks that come and go: the semaphore is *)
(* accounted for while the runner loops, no more tasks run than there are  *)
(* slots, and the wrapper starts one child.                                *)
(***************************************************************************)
EXTENDS TaskRunner, FiniteSetTheorems, TLAPS

(* A one-shot command has a task exactly while its loop is busy with it; a *)
(* daemon's loop never is.                                                 *)
BusyMatches == /\ oneShot => /\ loop = "busy" <=> Busy # {}
                             /\ \A t, u \in Busy : t = u
               /\ ~oneShot => loop # "busy"

(* A loop that was left has cancelled its context.                         *)
LeftMeansCancelled ==
  loop \in {"succeeded", "failed", "exit 0", "exit 1"} => cancelled

(* A child was started through a pipe that is still remembered, unless the *)
(* run is over; and the first to look for a client finds it.               *)
ChildIsKnown ==
  /\ ~stdin => child = "none" \/ cancelled
  /\ stdin /\ client = "nil" => \/ child = "none" \/ cancelled
                                \/ lock # Nobody /\ At(lock, "dial")
  /\ \A t \in Tasks : At(t, "dial") => stdin
  /\ \A t \in Tasks : At(t, "start") => client = "nil"

WInv == TypeOK /\ LeftMeansCancelled /\ ChildIsKnown /\ StartsOnce

-----------------------------------------------------------------------------
(* Neither the wrapper's steps nor Close let a task begin or end.          *)
LEMMA CallsStay ==
  ASSUME TypeOK, \/ \E t \in Tasks : C(t)
                 \/ Close
                 \/ UNCHANGED call
  PROVE  Busy' = Busy /\ call' \in [Tasks -> Stages]
<1>1. ASSUME NEW t \in Tasks, C(t)
      PROVE  Busy' = Busy /\ call' \in [Tasks -> Stages]
  <2>1. call[t] # "out" /\ \E stage \in Stages \ {"out"} : Goes(t, stage)
    BY <1>1 DEF C, Look, Read, Lock, RunServer, Dial, Fail, At, Stages, TypeOK
  <2> QED BY <2>1 DEF Goes, Busy, TypeOK, Stages
<1>2. CASE Close
  BY <1>2 DEF Close, Busy, TypeOK, Stages
<1>3. CASE UNCHANGED call
  BY <1>3 DEF Busy, TypeOK
<1> QED BY <1>1, <1>2, <1>3

(* A task that begins is one more, a task that ends one less.              *)
LEMMA BusyIsFinite == IsFiniteSet(Busy) /\ Cardinality(Busy) \in Nat
<1>1. Busy \subseteq Tasks /\ IsFiniteSet(Tasks)
  BY SlotsAssumption DEF Busy
<1> QED BY <1>1, FS_Subset, FS_CardinalityType

LEMMA BusyGrows ==
  ASSUME TypeOK, NEW t \in Tasks, At(t, "out"), Goes(t, "look")
  PROVE  Busy' = Busy \cup {t} /\ Cardinality(Busy') = Cardinality(Busy) + 1
<1>1. Busy' = Busy \cup {t} /\ t \notin Busy
  BY DEF Goes, At, Busy, TypeOK
<1> QED BY <1>1, BusyIsFinite, FS_AddElement

LEMMA BusyShrinks ==
  ASSUME TypeOK, NEW t \in Tasks, ~At(t, "out"), Goes(t, "out")
  PROVE  Busy' = Busy \ {t} /\ t \in Busy /\ Cardinality(Busy') = Cardinality(Busy) - 1
<1>1. Busy' = Busy \ {t} /\ t \in Busy
  BY DEF Goes, At, Busy, TypeOK
<1> QED BY <1>1, BusyIsFinite, FS_RemoveElement

-----------------------------------------------------------------------------
(* The steps of the runner that leave the wrapper alone but for a task's   *)
(* begin or end and the cancellation.                                      *)
RunnerStep == \/ LoopStep \/ Exit \/ WaiterExits \/ Interrupt
              \/ \E t \in Tasks : TaskEnds(t) \/ TaskPanics(t)

LEMMA RunnerStepsKeep ==
  ASSUME WInv, Alive, RunnerStep
  PROVE  /\ UNCHANGED <<lock, client, stdin, child, waiter>>
         /\ cancelled' \in {cancelled, TRUE}
         /\ \/ UNCHANGED call
            \/ \E t \in Tasks : At(t, "out") /\ Goes(t, "look")
            \/ \E t \in Tasks : /\ call[t] \in {"open", "closed", "failed"}
                               /\ Goes(t, "out")
BY DEF WInv, TypeOK, RunnerStep, LoopStep, Stop, Turn, Done, Timer, Acquire, AcquireFails,
       NextFails, NextNone, NextTask, Exit, WaiterExits, Interrupt, TaskEnds, TaskPanics,
       Return, WrapperStays, wrapperVars, Outcomes, At

(* What is held of the semaphore keeps its type: a step that gives back    *)
(* what it does not hold is the last of the process.                       *)
LEMMA HeldStep ==
  ASSUME TypeOK, Alive, RunnerStep
  PROVE  held' \in -1..Slots /\ (Alive' => held' >= 0)
<1>1. held \in 0..Slots /\ Slots \in Nat
  BY SlotsAssumption DEF TypeOK
<1>2. CASE Release
  BY <1>1, <1>2 DEF Release, Alive
<1>3. CASE held' = held + 1 /\ held < Slots
  BY <1>1, <1>3
<1>4. CASE UNCHANGED held
  BY <1>1, <1>4
<1>5. Release \/ (held' = held + 1 /\ held < Slots) \/ UNCHANGED held
  BY DEF RunnerStep, LoopStep, Stop, Turn, Done, Timer, Acquire, AcquireFails,
         NextFails, NextNone, NextTask, Exit, WaiterExits, Interrupt, TaskEnds, TaskPanics,
         runnerVars
<1> QED BY <1>2, <1>3, <1>4, <1>5

LEMMA LeftStep ==
  ASSUME TypeOK, LeftMeansCancelled, Alive, RunnerStep
  PROVE  LeftMeansCancelled' /\ oneShot' = oneShot
BY DEF LeftMeansCancelled, RunnerStep, LoopStep, Stop, Turn, Done, Timer, Acquire,
       AcquireFails, NextFails, NextNone, NextTask, Exit, WaiterExits, Interrupt, TaskEnds,
       TaskPanics, runnerVars, Return, TypeOK, WrapperStays, wrapperVars

(* Every step of Next, by what it does to the wrapper.                     *)
LEMMA Kinds ==
  ASSUME Next
  PROVE  \/ Alive /\ RunnerStep
         \/ \E t \in Tasks : Alive /\ C(t) /\ UNCHANGED runnerVars
         \/ Alive /\ RunnerCloses
         \/ Alive /\ (WaitReturns \/ WaiterCloses) /\ UNCHANGED runnerVars
         \/ Alive /\ ChildStep
BY DEF Next, LoopStep, EndStep, WaiterStep, ChildStep, TaskStep, RunnerStep, Interrupt

-----------------------------------------------------------------------------
(* The wrapper's invariant, one kind of step at a time.                    *)
LEMMA WrapperAtRunnerStep ==
  ASSUME WInv, Alive, RunnerStep
  PROVE  WInv'
<1>1. /\ UNCHANGED <<lock, client, stdin, child, waiter>>
      /\ cancelled' \in {cancelled, TRUE}
  BY RunnerStepsKeep
<1>2. /\ call' \in [Tasks -> Stages]
      /\ \A t \in Tasks : \/ call'[t] = call[t]
                          \/ call[t] \notin {"start", "dial"} /\ call'[t] \in {"look", "out"}
  BY RunnerStepsKeep DEF Goes, At, WInv, TypeOK, Stages
<1>3. TypeOK'
  BY <1>1, <1>2, HeldStep, LeftStep DEF WInv, TypeOK
<1>4. ChildIsKnown' /\ StartsOnce'
  BY <1>1, <1>2, WrapperAssumption DEF WInv, TypeOK, ChildIsKnown, StartsOnce, At
<1> QED BY <1>3, <1>4, LeftStep DEF WInv

LEMMA WrapperAtC ==
  ASSUME WInv, NEW t \in Tasks, C(t), UNCHANGED runnerVars
  PROVE  WInv'
<1> USE WrapperAssumption
<1>1. /\ UNCHANGED <<held, process, oneShot, loop, cancelled>>
      /\ call' \in [Tasks -> Stages]
  BY CallsStay DEF runnerVars, WInv, C, Look, Read, Lock, RunServer, Dial
<1>2. CASE Look(t) \/ Read(t)
  <2>1. /\ UNCHANGED <<lock, client, stdin, child, waiter>>
        /\ call[t] \notin {"start", "dial"}
        /\ \E stage \in Stages \ {"start", "dial"} : Goes(t, stage)
    BY <1>2 DEF Look, Read, At, Stages, WInv, TypeOK
  <2> QED BY <1>1, <2>1 DEF WInv, TypeOK, LeftMeansCancelled, ChildIsKnown, StartsOnce, At,
                            Goes, Alive
<1>3. CASE Lock(t)
  <2>1. /\ lock = Nobody /\ t # Nobody
        /\ UNCHANGED <<client, stdin, child, waiter>>
        /\ \A u \in Tasks : call[u] \notin {"start", "dial"}
        /\ \A u \in Tasks \ {t} : call'[u] = call[u]
    BY <1>3 DEF Lock, Goes, WInv, TypeOK
  <2>2. \/ client = "nil" /\ lock' = t /\ call'[t] = "start"
        \/ lock' = Nobody /\ call'[t] \in {"open", "closed"}
    BY <1>3, <2>1 DEF Lock, Goes, WInv, TypeOK
  <2>3. TypeOK'
    BY <1>1, <2>1, <2>2 DEF WInv, TypeOK, Alive
  <2>4. ChildIsKnown' /\ StartsOnce'
    BY <1>1, <2>1, <2>2 DEF WInv, ChildIsKnown, StartsOnce, At
  <2> QED BY <1>1, <2>3, <2>4 DEF WInv, LeftMeansCancelled
<1>4. CASE RunServer(t) \/ Dial(t)
  <2>1. /\ lock = t /\ t # Nobody /\ call[t] \in {"start", "dial"}
        /\ \A u \in Tasks \ {t} : call[u] \notin {"start", "dial"}
    BY <1>4 DEF RunServer, Dial, At, WInv, TypeOK
  <2>2. /\ stdin' \in BOOLEAN /\ client' \in {"nil", "open", "closed"}
        /\ child' \in {"none", "starting", "serving", "quit", "stopped"}
        /\ waiter' \in {"none", "waiting", "closing", "exiting"}
        /\ waiter' # "none" => child' # "none"
        /\ client' # "nil" => stdin' /\ child' # "none"
    BY <1>4 DEF RunServer, Dial, At, WInv, TypeOK, ChildIsKnown
  <2>3. \/ lock' = Nobody /\ (Goes(t, "failed") \/ Goes(t, "open"))
        \/ lock' = t /\ Goes(t, "dial")
    BY <1>4, <2>1 DEF RunServer, Dial, Fail
  <2>4. /\ lock' \in Tasks \cup {Nobody}
        /\ \A u \in Tasks : lock' = u <=> call'[u] \in {"start", "dial"}
        /\ \A u \in Tasks : call'[u] # "start"
    <3>1. \A u \in Tasks : u # t => call'[u] = call[u]
      BY <2>3 DEF Goes, WInv, TypeOK
    <3>2. CASE lock' = Nobody /\ call'[t] \in {"failed", "open"}
      BY <2>1, <3>1, <3>2
    <3>3. CASE lock' = t /\ call'[t] = "dial"
      BY <2>1, <3>1, <3>3
    <3>4. \/ lock' = Nobody /\ call'[t] \in {"failed", "open"}
          \/ lock' = t /\ call'[t] = "dial"
      BY <2>3 DEF Goes, WInv, TypeOK
    <3> QED BY <3>2, <3>3, <3>4
  <2>5. TypeOK'
    BY <1>1, <2>2, <2>4 DEF WInv, TypeOK, Alive
  <2>6. ~stdin' => child' = "none" \/ cancelled'
    BY <1>4 DEF RunServer, Dial, WInv, TypeOK, ChildIsKnown
  <2>7. stdin' /\ client' = "nil" =>
          child' = "none" \/ cancelled' \/ (lock' # Nobody /\ call'[lock'] = "dial")
    <3>1. CASE At(t, "start") /\ UNCHANGED <<child, cancelled>>
      BY <3>1 DEF WInv, ChildIsKnown, StartsOnce
    <3>2. CASE Goes(t, "dial") /\ lock' = t
      BY <2>1, <3>2 DEF Goes, WInv, TypeOK
    <3>3. CASE Dial(t)
      BY <3>3 DEF Dial
    <3> QED BY <1>4, <2>1, <3>1, <3>2, <3>3 DEF RunServer
  <2>8. \A u \in Tasks : call'[u] = "dial" => stdin'
    BY <1>4, <2>1, <2>3 DEF RunServer, Dial, Fail, Goes, WInv, TypeOK, ChildIsKnown, At
  <2> QED BY <1>1, <2>4, <2>5, <2>6, <2>7, <2>8
          DEF WInv, LeftMeansCancelled, ChildIsKnown, StartsOnce, At
<1> QED BY <1>2, <1>3, <1>4 DEF C

(* A Close that forgets the pipe is the runner's, at the end of the run.   *)
LEMMA WrapperAtClose ==
  ASSUME WInv, Close, UNCHANGED <<held, process, oneShot>>,
         LeftMeansCancelled', waiter' \in {waiter, "exiting"},
         waiter' = "exiting" => waiter # "none",
         cancelled \/ waiter = "closing"
  PROVE  WInv'
<1> USE WrapperAssumption
<1>1. /\ UNCHANGED <<cancelled, lock, child>>
      /\ call' \in [Tasks -> Stages]
      /\ \A t \in Tasks : \/ call'[t] = call[t]
                          \/ call[t] = "open" /\ call'[t] = "closed"
  BY CallsStay DEF Close, WInv, TypeOK
<1>2. lock = Nobody /\ \A t \in Tasks : call[t] \notin {"start", "dial"}
  BY DEF Close, WInv, TypeOK
<1>3. TypeOK'
  BY <1>1, <1>2 DEF Close, WInv, TypeOK, Alive
<1>4. ChildIsKnown' /\ StartsOnce'
  BY <1>1, <1>2 DEF Close, WInv, TypeOK, ChildIsKnown, StartsOnce, At
<1> QED BY <1>3, <1>4 DEF WInv

LEMMA WrapperAtChild ==
  ASSUME WInv, UNCHANGED runnerVars,
         ChildServes \/ ChildQuits \/ ChildStops \/ WaitReturns
  PROVE  WInv'
BY DEF ChildServes, ChildQuits, ChildStops, WaitReturns, runnerVars, WInv, TypeOK,
       LeftMeansCancelled, ChildIsKnown, StartsOnce, At, Alive

LEMMA WrapperInductive ==
  ASSUME WInv, [Next]_vars
  PROVE  WInv'
<1>1. CASE UNCHANGED vars
  BY <1>1 DEF vars, wrapperVars, runnerVars, WInv, TypeOK, LeftMeansCancelled, ChildIsKnown,
              StartsOnce, At, Alive
<1>2. CASE Alive /\ RunnerCloses
  <2>1. cancelled /\ LeftMeansCancelled' /\ UNCHANGED <<held, process, oneShot, waiter>>
    BY <1>2 DEF RunnerCloses, Close, WInv, LeftMeansCancelled
  <2>2. Close
    BY <1>2 DEF RunnerCloses
  <2> QED BY <2>1, <2>2, WrapperAtClose
<1>3. CASE WaiterCloses /\ UNCHANGED runnerVars
  BY <1>3, WrapperAtClose
     DEF WaiterCloses, Close, runnerVars, WInv, LeftMeansCancelled
<1> QED BY <1>1, <1>2, <1>3, Kinds, WrapperAtRunnerStep, WrapperAtC, WrapperAtChild
        DEF ChildStep

-----------------------------------------------------------------------------
(* The account of the slots, one kind of step at a time.                   *)
SInv == BusyMatches /\ SlotsMatch /\ ClaimsHaveRoom

LEMMA SlotsWhenBusyStays ==
  ASSUME TypeOK, SInv, Busy' = Busy, UNCHANGED <<held, oneShot, process>>,
         loop' = loop \/ (loop \in {"succeeded", "failed"} /\ loop' \in {"exit 0", "exit 1"})
  PROVE  SInv'
<1>1. CASE loop' = loop
  BY <1>1 DEF SInv, BusyMatches, SlotsMatch, ClaimsHaveRoom, Looping, Claiming, Alive
<1>2. CASE loop \in {"succeeded", "failed"} /\ loop' \in {"exit 0", "exit 1"}
  BY <1>2 DEF SInv, BusyMatches, SlotsMatch, ClaimsHaveRoom, Looping, Claiming, Alive
<1> QED BY <1>1, <1>2

LEMMA SlotsAtLoopStep ==
  ASSUME TypeOK, SInv, Alive, LoopStep
  PROVE  SInv'
<1> USE BusyIsFinite, SlotsAssumption
<1>1. Looping => held = Cardinality(Busy) + Claiming
  BY DEF SInv, SlotsMatch
<1>2. CASE Stop \/ Done
  BY <1>2, CallsStay DEF Stop, Done, Return, WrapperStays, SInv, BusyMatches, SlotsMatch,
       ClaimsHaveRoom, Looping, Claiming
<1>3. CASE Turn \/ Timer
  BY <1>3, CallsStay DEF Turn, Timer, wrapperVars, SInv, BusyMatches, SlotsMatch,
       ClaimsHaveRoom, Looping, Claiming, Alive
<1>4. CASE Acquire
  BY <1>1, <1>4, CallsStay DEF Acquire, wrapperVars, SInv, BusyMatches, SlotsMatch,
       ClaimsHaveRoom, Looping, Claiming, Alive
<1>5. CASE AcquireFails
  BY <1>5, CallsStay DEF AcquireFails, Return, WrapperStays, SInv, BusyMatches, SlotsMatch,
       ClaimsHaveRoom, Looping, Claiming
<1>6. CASE NextFails \/ NextNone
  BY <1>1, <1>6, CallsStay DEF NextFails, NextNone, Release, Return, WrapperStays, wrapperVars,
       SInv, BusyMatches, SlotsMatch, ClaimsHaveRoom, Looping, Claiming, Alive
<1>7. ASSUME NEW t \in Tasks, NextTask(t)
      PROVE  SInv'
  <2>1. Busy' = Busy \cup {t} /\ Cardinality(Busy') = Cardinality(Busy) + 1
    BY <1>7, BusyGrows DEF NextTask
  <2>2. BusyMatches'
    BY <1>7, <2>1 DEF NextTask, SInv, BusyMatches
  <2>3. Claiming = 1 /\ Claiming' = 0 /\ UNCHANGED held
    BY <1>7 DEF NextTask, Claiming
  <2>4. Looping
    BY <1>7 DEF NextTask, Looping
  <2> QED BY <1>1, <2>1, <2>2, <2>3, <2>4 DEF SInv, SlotsMatch, ClaimsHaveRoom
<1> QED BY <1>2, <1>3, <1>4, <1>5, <1>6, <1>7 DEF LoopStep

(* The task of a one-shot command that ends is the only one.               *)
LEMMA SlotsAtTaskEnds ==
  ASSUME TypeOK, SInv, Alive, NEW t \in Tasks, TaskEnds(t)
  PROVE  SInv'
<1> USE BusyIsFinite, SlotsAssumption
<1>1. ~At(t, "out")
  BY DEF TaskEnds, Outcomes, At
<1>2. /\ Busy' = Busy \ {t} /\ t \in Busy
      /\ Cardinality(Busy') = Cardinality(Busy) - 1
  BY <1>1, BusyShrinks DEF TaskEnds
<1>3. oneShot' = oneShot /\ Release
  BY DEF TaskEnds
<1>4. CASE ~oneShot /\ loop' = loop
  BY <1>2, <1>3, <1>4 DEF Release, SInv, BusyMatches, SlotsMatch, ClaimsHaveRoom, Looping,
       Claiming, Alive
<1>5. CASE oneShot /\ loop' \in {"top", "failed"}
  BY <1>2, <1>3, <1>5 DEF Release, SInv, BusyMatches, SlotsMatch, ClaimsHaveRoom, Looping,
       Claiming, Alive
<1>6. (~oneShot /\ loop' = loop) \/ (oneShot /\ loop' \in {"top", "failed"})
  BY DEF TaskEnds, Return
<1> QED BY <1>4, <1>5, <1>6

LEMMA SlotsInductive ==
  ASSUME TypeOK, SInv, [Next]_vars
  PROVE  SInv'
<1>1. CASE UNCHANGED vars
  BY <1>1, CallsStay, SlotsWhenBusyStays DEF vars, wrapperVars, runnerVars
<1>2. CASE Alive /\ RunnerStep
  <2>1. CASE LoopStep
    BY <1>2, <2>1, SlotsAtLoopStep
  <2>2. CASE \E t \in Tasks : TaskEnds(t)
    BY <1>2, <2>2, SlotsAtTaskEnds
  <2>3. CASE Exit \/ WaiterExits \/ \E t \in Tasks : TaskPanics(t)
    <3>1. Busy' = Busy /\ UNCHANGED <<held, oneShot, loop>> /\ ~Alive'
      BY <2>3, CallsStay DEF Exit, WaiterExits, TaskPanics, wrapperVars, Alive
    <3> QED BY <3>1 DEF SInv, BusyMatches, SlotsMatch, ClaimsHaveRoom, Looping, Claiming
  <2>4. CASE Interrupt
    BY <2>4, CallsStay, SlotsWhenBusyStays DEF Interrupt, WrapperStays, runnerVars
  <2> QED BY <1>2, <2>1, <2>2, <2>3, <2>4 DEF RunnerStep
<1>3. CASE /\ UNCHANGED runnerVars
           /\ (\E t \in Tasks : C(t)) \/ WaitReturns \/ WaiterCloses
  BY <1>3, CallsStay, SlotsWhenBusyStays DEF runnerVars, WaitReturns, WaiterCloses
<1>4. CASE RunnerCloses
  BY <1>4, CallsStay, SlotsWhenBusyStays DEF RunnerCloses
<1>5. CASE ChildStep
  BY <1>5, CallsStay, SlotsWhenBusyStays
     DEF ChildStep, ChildServes, ChildQuits, ChildStops, runnerVars
<1> QED BY <1>1, <1>2, <1>3, <1>4, <1>5, Kinds

-----------------------------------------------------------------------------
LEMMA Initially == ASSUME Init PROVE WInv /\ SInv
<1>1. Busy = {} /\ Cardinality(Busy) = 0
  BY FS_EmptySet DEF Init, WrapperInit, Busy
<1>2. TypeOK
  <2>1. held \in -1..Slots /\ held >= 0
    BY SlotsAssumption DEF Init
  <2>2. call \in [Tasks -> Stages]
    BY DEF Init, WrapperInit, Stages
  <2>3. \A t \in Tasks : lock = t <=> call[t] \in {"start", "dial"}
    BY WrapperAssumption DEF Init, WrapperInit
  <2> QED BY <2>1, <2>2, <2>3 DEF Init, WrapperInit, TypeOK
<1>3. LeftMeansCancelled /\ ChildIsKnown /\ StartsOnce
  BY DEF Init, WrapperInit, LeftMeansCancelled, ChildIsKnown, StartsOnce, At
<1>4. SInv
  BY <1>1, SlotsAssumption
     DEF Init, SInv, BusyMatches, SlotsMatch, ClaimsHaveRoom, Claiming
<1> QED BY <1>2, <1>3, <1>4 DEF WInv

LEMMA Inductive == Spec => [](WInv /\ SInv)
<1>1. WInv /\ SInv /\ [Next]_vars => (WInv /\ SInv)'
  BY WrapperInductive, SlotsInductive DEF WInv
<1> QED BY Initially, <1>1, PTL DEF Spec

(* Every variable keeps its type, the mutex is held by the task that       *)
(* starts or dials and by no other, and a process that gives back more     *)
(* than it holds is one that ends (runner.go 125-206, connector.go         *)
(* 195-375).                                                               *)
THEOREM RunnerTypes == Spec => []TypeOK
BY Inductive, PTL DEF WInv

(* While the loop runs, no path leaks a slot or gives one back twice, for  *)
(* any number of slots and tasks (runner.go 139-206).                      *)
THEOREM NoSlotLeaks == Spec => []SlotsMatch
BY Inductive, PTL DEF SInv

(* Whatever tasks come and go, a task is claimed only when a slot is free  *)
(* for it (runner.go 140).                                                 *)
THEOREM EveryClaimHasRoom == Spec => []ClaimsHaveRoom
BY Inductive, PTL DEF SInv

(* However many tasks ask for the first client at once, one child is       *)
(* started (connector.go 195-284).                                         *)
THEOREM OneChild == Spec => []StartsOnce
BY Inductive, PTL DEF WInv
=============================================================================
