-------------------------- MODULE ConnectorWrapper --------------------------
(***************************************************************************)
(* The connector wrapper of the parent process (baton-sdk                  *)
(* internal/connector): it starts the child process that serves the        *)
(* connector when a task first asks for a client, hands the client to all  *)
(* tasks, and ends the parent when the child quits.  A mutex guards it.    *)
(***************************************************************************)
CONSTANTS Tasks,    \* the goroutines that may ask for a client
          Nobody    \* the mutex is free

ASSUME WrapperAssumption == Nobody \notin Tasks

VARIABLES cancelled,  \* the context of the run is cancelled
          lock,       \* who holds the mutex for writing
          client,     \* the wrapper's client: "nil", or its connection is "open" or "closed"
          stdin,      \* the wrapper has a pipe to a child
          child,      \* the child process
          waiter,     \* the goroutine that waits for the child to end
          call        \* task -> how far it is with its client

wrapperVars == <<cancelled, lock, client, stdin, child, waiter, call>>

WrapperInit == /\ cancelled = FALSE
               /\ lock = Nobody
               /\ client = "nil" /\ stdin = FALSE
               /\ child = "none" /\ waiter = "none"
               /\ call = [t \in Tasks |-> "out"]

At(t, stage) == call[t] = stage
Goes(t, stage) == call' = [call EXCEPT ![t] = stage]

-----------------------------------------------------------------------------
(* C: a look under the read lock.  The field is read a second time when    *)
(* the lock is already given back.                                         *)
Look(t) == /\ At(t, "look") /\ lock = Nobody
           /\ Goes(t, IF client = "nil" THEN "lock" ELSE "read")
           /\ UNCHANGED <<cancelled, lock, client, stdin, child, waiter>>

Read(t) == /\ At(t, "read") /\ Goes(t, client)
           /\ UNCHANGED <<cancelled, lock, client, stdin, child, waiter>>

(* Mutant: no second look under the write lock.                            *)
LockAnyway(t) == /\ At(t, "lock") /\ lock = Nobody
                 /\ lock' = t /\ Goes(t, "start")
                 /\ UNCHANGED <<cancelled, client, stdin, child, waiter>>

(* Another task may have made the client since.                            *)
Lock(t) == /\ At(t, "lock") /\ lock = Nobody
           /\ IF client = "nil" THEN lock' = t /\ Goes(t, "start")
                                ELSE Goes(t, client) /\ UNCHANGED lock
           /\ UNCHANGED <<cancelled, client, stdin, child, waiter>>

(* Mutant: an error leaves the mutex locked.                               *)
FailLocked(t) == Goes(t, "failed") /\ UNCHANGED lock

(* C returns an error, and the deferred Unlock runs.                       *)
Fail(t) == Goes(t, "failed") /\ lock' = Nobody

(* runServer.  Its pipe is remembered before the child is started.         *)
RunServer(t) ==
  /\ At(t, "start")
  /\ \/ Fail(t) /\ UNCHANGED <<stdin, child, waiter>>  \* already running, or no listener
     \/ /\ ~stdin /\ Fail(t)                           \* the child cannot be started
        /\ stdin' = TRUE /\ UNCHANGED <<child, waiter>>
     \/ /\ ~stdin /\ ~cancelled
        /\ stdin' = TRUE /\ child' = "starting" /\ waiter' = "waiting"
        /\ Goes(t, "dial") /\ UNCHANGED lock
  /\ UNCHANGED <<cancelled, client>>

(* Mutant: the dial does not look at its context.                          *)
DialOnly(t) == /\ At(t, "dial")
               /\ child = "serving" /\ client' = "open"
               /\ Goes(t, "open") /\ lock' = Nobody
               /\ UNCHANGED <<cancelled, stdin, child, waiter>>

(* A blocking dial ends when the child serves or the context is cancelled. *)
(* The timeout of five seconds is not that of the context it is given.     *)
Dial(t) == /\ At(t, "dial")
           /\ \/ child = "serving" /\ client' = "open" /\ Goes(t, "open") /\ lock' = Nobody
              \/ cancelled /\ Fail(t) /\ UNCHANGED client
           /\ UNCHANGED <<cancelled, stdin, child, waiter>>

C(t) == Look(t) \/ Read(t) \/ Lock(t) \/ RunServer(t) \/ Dial(t)

-----------------------------------------------------------------------------
(* Close: the connection is closed under every task that uses it.  It ends *)
(* early, and the fields keep their values, if the connection was closed   *)
(* before, or if the pipe was: by Wait, or as no child was started.        *)
Close == /\ lock = Nobody
         /\ call' = [t \in Tasks |-> IF call[t] = "open" THEN "closed" ELSE call[t]]
         /\ IF client # "closed" /\ (stdin => waiter = "waiting")
            THEN client' = "nil" /\ stdin' = FALSE
            ELSE /\ client' = IF client = "open" THEN "closed" ELSE client
                 /\ UNCHANGED stdin
         /\ UNCHANGED <<cancelled, lock, child>>

(* The child makes its own connector and serves, or quits with an error.   *)
ChildServes == /\ child = "starting" /\ child' = "serving"
               /\ UNCHANGED <<cancelled, lock, client, stdin, waiter, call>>

ChildQuits == /\ child \in {"starting", "serving"} /\ child' = "quit"
              /\ UNCHANGED <<cancelled, lock, client, stdin, waiter, call>>

(* It is killed with the context; it ends by itself when its pipe closes.  *)
ChildStops == /\ child \in {"starting", "serving"}
              /\ \/ cancelled /\ child' = "quit"
                 \/ ~stdin /\ child' = "stopped"
              /\ UNCHANGED <<cancelled, lock, client, stdin, waiter, call>>

(* Mutant: no error is noticed.                                            *)
WaitForgets == /\ waiter = "waiting" /\ child \in {"quit", "stopped"}
               /\ waiter' = "none"
               /\ UNCHANGED <<cancelled, lock, client, stdin, child, call>>

(* The goroutine behind cmd.Wait: only an error makes it end the parent.   *)
WaitReturns == /\ waiter = "waiting" /\ child \in {"quit", "stopped"}
               /\ waiter' = IF child = "quit" THEN "closing" ELSE "none"
               /\ UNCHANGED <<cancelled, lock, client, stdin, child, call>>

WaiterCloses == /\ waiter = "closing" /\ waiter' = "exiting"
                /\ Close
=============================================================================
