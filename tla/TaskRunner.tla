----------------------------- MODULE TaskRunner -----------------------------
(***************************************************************************)
(* The task runner of the parent process (baton-sdk pkg/connectorrunner):  *)
(* a loop that takes a slot of a semaphore, asks the task manager for a    *)
(* task and runs it, in daemon mode in a goroutine of its own, until it is *)
(* interrupted, the connector fails, or a one-shot command is done.  Tasks *)
(* reach the connector through the wrapper of ConnectorWrapper.            *)
(***************************************************************************)
EXTENDS Integers, FiniteSets, ConnectorWrapper

CONSTANT Slots  \* tasks that run side by side (3 in the code)

ASSUME SlotsAssumption == Slots \in Nat \ {0} /\ IsFiniteSet(Tasks)

VARIABLES oneShot,  \* the mode: a task per process, or a daemon
          claimed,  \* the manager of a one-shot command has given its task
          held,     \* what is taken of the semaphore
          stop,     \* the flag a task sets that lost its connection
          loop,     \* where the loop is, and after it the end of the command
          process   \* "running", or how the process ended

runnerVars == <<oneShot, claimed, held, stop, loop, process>>
vars == <<wrapperVars, runnerVars>>

Init == /\ WrapperInit
        /\ oneShot \in BOOLEAN
        /\ claimed = FALSE /\ held = 0 /\ stop = FALSE
        /\ loop = "top" /\ process = "running"

Alive == process = "running"

Busy == {t \in Tasks : call[t] # "out"}

(* Release panics when nothing is held, which ends the process.            *)
Release == /\ held' = held - 1
           /\ process' = IF held = 0 THEN "panicked" ELSE process

(* run returns, and Run cancels its context: cancel(ErrSigTerm).           *)
Return(how) == loop' = how /\ cancelled' = TRUE

WrapperStays == UNCHANGED <<lock, client, stdin, child, waiter, call>>

-----------------------------------------------------------------------------
(* The flag is read without synchronisation: it may be seen late.          *)
Stop == /\ loop = "top" /\ stop
        /\ Return("failed")
        /\ WrapperStays /\ UNCHANGED <<oneShot, claimed, held, stop, process>>

Turn == /\ loop = "top" /\ loop' = "select"
        /\ UNCHANGED <<wrapperVars, oneShot, claimed, held, stop, process>>

(* The select: when both are ready, either is taken.                       *)
Done == /\ loop = "select" /\ cancelled
        /\ Return("succeeded")
        /\ WrapperStays /\ UNCHANGED <<oneShot, claimed, held, stop, process>>

Timer == /\ loop = "select" /\ loop' = "acquire"
         /\ UNCHANGED <<wrapperVars, oneShot, claimed, held, stop, process>>

(* Mutant: a task is claimed whether or not a slot is free.                *)
AcquireAnyway == /\ loop = "acquire"
                 /\ held' = held + 1 /\ loop' = "next"
                 /\ UNCHANGED <<wrapperVars, oneShot, claimed, stop, process>>

Acquire == /\ loop = "acquire" /\ ~cancelled /\ held < Slots
           /\ held' = held + 1 /\ loop' = "next"
           /\ UNCHANGED <<wrapperVars, oneShot, claimed, stop, process>>

(* Acquire fails and takes nothing; the runner gives back a slot for it.   *)
AcquireFails == /\ loop = "acquire" /\ cancelled
                /\ Release
                /\ Return("succeeded")
                /\ WrapperStays /\ UNCHANGED <<oneShot, claimed, stop>>

(* Mutant: the slot is kept when Next fails.                               *)
NextFailsHolding == /\ loop = "next" /\ ~oneShot
                    /\ loop' = "top"
                    /\ UNCHANGED <<wrapperVars, oneShot, claimed, held, stop, process>>

(* Next of a daemon's manager fails; the other managers never do.          *)
NextFails == /\ loop = "next" /\ ~oneShot
             /\ Release /\ loop' = "top"
             /\ UNCHANGED <<wrapperVars, oneShot, claimed, stop>>

NextNone == /\ loop = "next" /\ (oneShot => claimed)
            /\ Release
            /\ IF oneShot THEN Return("succeeded") ELSE loop' = "top" /\ UNCHANGED cancelled
            /\ WrapperStays /\ UNCHANGED <<oneShot, claimed, stop>>

(* The manager gives a task, which a one-shot command runs in the loop.    *)
NextTask(t) == /\ loop = "next" /\ (oneShot => ~claimed)
               /\ At(t, "out") /\ Goes(t, "look")
               /\ claimed' = oneShot
               /\ loop' = IF oneShot THEN "busy" ELSE "top"
               /\ UNCHANGED <<cancelled, lock, client, stdin, child, waiter,
                              oneShot, held, stop, process>>

(* A task that uses its client ends well or badly; one whose connection    *)
(* was closed may end with the error the runner looks for.                 *)
Outcomes(t) == CASE At(t, "open") -> {"fine", "error"}
                 [] At(t, "closed") -> {"fine", "error", "closing"}
                 [] At(t, "failed") -> {"error"}
                 [] OTHER -> {}

TaskEnds(t) == /\ \E outcome \in Outcomes(t) :
                    /\ stop' = (stop \/ (~oneShot /\ outcome = "closing"))
                    /\ CASE ~oneShot -> UNCHANGED <<loop, cancelled>>
                         [] oneShot /\ outcome = "fine" -> loop' = "top" /\ UNCHANGED cancelled
                         [] OTHER -> Return("failed")
               /\ Goes(t, "out")
               /\ Release
               /\ UNCHANGED <<lock, client, stdin, child, waiter, oneShot, claimed>>

(* A call of a nil client panics.                                          *)
TaskPanics(t) == /\ At(t, "nil") /\ process' = "crashed"
                 /\ UNCHANGED <<wrapperVars, oneShot, claimed, held, stop, loop>>

-----------------------------------------------------------------------------
(* The end of the command: the deferred Close of the runner, then exit.    *)
RunnerCloses == /\ loop \in {"succeeded", "failed"}
                /\ Close /\ UNCHANGED waiter
                /\ loop' = IF loop = "succeeded" THEN "exit 0" ELSE "exit 1"
                /\ UNCHANGED <<oneShot, claimed, held, stop, process>>

Exit == /\ loop \in {"exit 0", "exit 1"} /\ process' = loop
        /\ UNCHANGED <<wrapperVars, oneShot, claimed, held, stop, loop>>

(* os.Exit(1) after the child quit.                                        *)
WaiterExits == /\ waiter = "exiting" /\ process' = "exit 1"
               /\ UNCHANGED <<wrapperVars, oneShot, claimed, held, stop, loop>>

(* SIGINT.                                                                 *)
Interrupt == /\ Alive /\ ~cancelled /\ cancelled' = TRUE
             /\ WrapperStays /\ UNCHANGED runnerVars

-----------------------------------------------------------------------------
LoopStep == /\ Alive
            /\ \/ Stop \/ Turn \/ Done \/ Timer \/ Acquire \/ AcquireFails
               \/ NextFails \/ NextNone \/ \E t \in Tasks : NextTask(t)

TaskStep(t) == /\ Alive
               /\ (C(t) /\ UNCHANGED runnerVars) \/ TaskEnds(t) \/ TaskPanics(t)

EndStep == Alive /\ (RunnerCloses \/ Exit)

WaiterStep == /\ Alive
              /\ ((WaitReturns \/ WaiterCloses) /\ UNCHANGED runnerVars) \/ WaiterExits

ChildStep == Alive /\ (ChildServes \/ ChildQuits \/ ChildStops) /\ UNCHANGED runnerVars

Next == \/ LoopStep \/ EndStep \/ WaiterStep \/ ChildStep
        \/ \E t \in Tasks : TaskStep(t)
        \/ Interrupt

Spec == Init /\ [][Next]_vars

(* The goroutines run, the mutex starves nobody, and a child that starts   *)
(* serves or quits.                                                        *)
ChildGoesOn == ChildStep /\ (child = "serving" => cancelled \/ ~stdin)

FairSpec == /\ Spec
            /\ WF_vars(LoopStep) /\ WF_vars(ChildGoesOn)
            /\ \A t \in Tasks : SF_vars(TaskStep(t))
            /\ SF_vars(EndStep) /\ SF_vars(WaiterStep)

-----------------------------------------------------------------------------
Stages == {"out", "look", "read", "lock", "start", "dial",
           "open", "closed", "nil", "failed"}

TypeOK == /\ cancelled \in BOOLEAN /\ stdin \in BOOLEAN /\ oneShot \in BOOLEAN
          /\ client \in {"nil", "open", "closed"}
          /\ child \in {"none", "starting", "serving", "quit", "stopped"}
          /\ waiter \in {"none", "waiting", "closing", "exiting"}
          /\ call \in [Tasks -> Stages]
          /\ lock \in Tasks \cup {Nobody}
          /\ \A t \in Tasks : lock = t <=> call[t] \in {"start", "dial"}
          /\ waiter # "none" => child # "none"
          /\ client # "nil" => stdin /\ child # "none"
          /\ held \in -1..Slots /\ (Alive => held >= 0)

(* While the runner loops, what is taken of the semaphore is what the      *)
(* tasks and the claim in progress hold: no path of the loop leaks a slot  *)
(* or gives one back twice (runner.go 139-206).                            *)
Looping == Alive /\ loop \in {"top", "select", "acquire", "next", "busy"}
Claiming == IF loop = "next" THEN 1 ELSE 0
SlotsMatch == Looping => held = Cardinality(Busy) + Claiming

(* runner.go 140: "Acquire a worker slot before we call Next() so we don't *)
(* claim a task before we can actually process it."                        *)
ClaimsHaveRoom == Cardinality(Busy) + Claiming <= Slots

(* However many tasks ask for the first client at once, a child is started *)
(* once; "server is already running" is met only by a task that comes      *)
(* after a start that failed or was interrupted (connector.go 195-284).    *)
StartsOnce == \A t \in Tasks : At(t, "start") /\ stdin => (child = "none" \/ cancelled)

(* The dial waits for a child that is gone, and holds the mutex.           *)
Hung == /\ lock \in Tasks /\ At(lock, "dial")
        /\ child = "quit" /\ ~cancelled

(* An interrupted process ends, wherever its loop, its tasks, its child    *)
(* and the holder of the mutex are (runner.go 57-102, connector.go 308).   *)
InterruptEnds == cancelled ~> process # "running"

(* A task that was claimed ends, unless the process does or the child quit *)
(* under the dial (runner.go 103-115, 193-206).                            *)
TasksEnd == \A t \in Tasks : t \in Busy ~> (t \notin Busy \/ process # "running" \/ Hung)

(* When the child quits the parent does not live on without it, but for    *)
(* the same case (connector.go 251-261).                                   *)
QuitEnds == child = "quit" ~> (process # "running" \/ Hung)

(* semaphore.go 35-37: "On failure, returns ctx.Err() and leaves the       *)
(* semaphore unchanged"; 127 panics with "released more than held".        *)
ReleasesWhatIsHeld == process # "panicked"

(* connector.go 301-302: "The server won't start up immediately, so we may *)
(* need to retry connecting.  This allows retrying connecting for 5        *)
(* seconds every 500ms."                                                   *)
DialEnds == \A t \in Tasks : At(t, "dial") ~> (~At(t, "dial") \/ process # "running")
=============================================================================
