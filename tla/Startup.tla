------------------------------ MODULE Startup ------------------------------
(***************************************************************************)
(* Starting a connector: main (cmd/baton-hashicorp-vault/main.go) with the *)
(* fields of config.go, getConnector, connector.New, client.New and        *)
(* enableStores (pkg/client/client.go), which makes sure that Vault has    *)
(* the auth methods approle and userpass and the secret store kv, and then *)
(* the Validate call a sync begins with.                                   *)
(*                                                                         *)
(* A connector is a process.  A command is two of them: a parent, and the  *)
(* child that it starts, when it is ready itself, to serve its calls.      *)
(* Each runs getConnector, so the enableStores of commands that run at the *)
(* same time race.                                                         *)
(***************************************************************************)
EXTENDS Naturals, Sequences, VaultClient

CONSTANTS Connectors, Parent, None   \* Parent[c]: the process that starts c, or None

ASSUME ParentAssumption == Parent \in [Connectors -> Connectors \cup {None}]

(* The stores in the order enableStores looks at them.                     *)
StoreOrder == <<"approle", "userpass", "kv">>
Stores == {StoreOrder[i] : i \in DOMAIN StoreOrder}

VARIABLES mounted,   \* the stores Vault has
          token,     \* "valid", or "denied": Vault answers 403 to all it signs
          config,    \* connector -> whether it is given a vault-token, and
                     \* what vault-host is
          pc,        \* connector -> where getConnector stands
          step,      \* connector -> index in StoreOrder of the store at hand
          trouble    \* connector -> the stores one of whose requests met a
                     \* fault, and "config" when the configuration was refused

vars == <<mounted, token, config, pc, step, trouble>>

Configs == [token : BOOLEAN, host : {"none", "bad", "good"}]
Stages == {"new", "configured", "check", "enable", "ready", "validated", "failed"}

TypeOK == /\ mounted \subseteq Stores
          /\ token \in {"valid", "denied"}
          /\ config \in [Connectors -> Configs]
          /\ pc \in [Connectors -> Stages]
          /\ step \in [Connectors -> DOMAIN StoreOrder]
          /\ trouble \in [Connectors -> SUBSET (Stores \cup {"config"})]

Init == /\ mounted \in SUBSET Stores
        /\ token \in {"valid", "denied"}
        /\ config \in [Connectors -> Configs]
        /\ \A c \in Connectors : Parent[c] # None => config[c] = config[Parent[c]]
        /\ pc = [c \in Connectors |-> "new"]
        /\ step = [c \in Connectors |-> 1]
        /\ trouble = [c \in Connectors |-> {}]

Store(c) == StoreOrder[step[c]]

Goto(c, stage) == pc' = [pc EXCEPT ![c] = stage]

Refuse(c) == Goto(c, "failed") /\ trouble' = [trouble EXCEPT ![c] = {"config"}]

(* Mutant: the fields are not marked as required.                          *)
MissingNone(c) == FALSE

(* Both fields are required.                                               *)
Missing(c) == ~config[c].token \/ config[c].host = "none"

(* The process validates its configuration.  A child has its parent's,     *)
(* which passes its arguments and environment on.                          *)
Configure(c) == /\ pc[c] = "new"
                /\ Parent[c] # None => pc[Parent[c]] = "ready"
                /\ IF Missing(c) THEN Refuse(c)
                                 ELSE Goto(c, "configured") /\ UNCHANGED trouble
                /\ UNCHANGED <<mounted, token, config, step>>

(* client.New makes a client of its own and turns to the first store.      *)
MakeClient(c) == Goto(c, "check")

(* connector.New: without a token or a host the connector keeps the empty  *)
(* client it was given, which can make no request.                         *)
MakeConnector(c) == IF config[c].token /\ config[c].host # "none"
                    THEN MakeClient(c) ELSE Goto(c, "ready")

(* WithAddress refuses a host that is not a URL with a scheme and a host,  *)
(* an empty one too.                                                       *)
Start(c) == /\ pc[c] = "configured"
            /\ IF config[c].host = "good" THEN MakeConnector(c) /\ UNCHANGED trouble
                                          ELSE Refuse(c)
            /\ UNCHANGED <<mounted, token, config, step>>

(* What Vault answers to the requests about a store, faults aside.         *)
CheckReply(s) == IF s \in mounted THEN Reply("200", "data") ELSE Reply("400", "errors")
EnableReply(s) == IF s \in mounted THEN Reply("400", "inuse") ELSE Reply("204", "data")

Denied == Reply("403", "errors")
Answers(r, faults) == IF token = "denied" THEN {Denied} ELSE {r} \cup faults

(* Mutants: the loop goes one store too far; it never advances.            *)
ProceedTooFar(c) == IF step[c] <= Len(StoreOrder)
                    THEN Goto(c, "check") /\ step' = [step EXCEPT ![c] = @ + 1]
                    ELSE Goto(c, "ready") /\ UNCHANGED step
ProceedStuck(c) == Goto(c, "check") /\ UNCHANGED step

(* On to the next store, or the connector is ready.                        *)
Proceed(c) == IF step[c] < Len(StoreOrder)
              THEN Goto(c, "check") /\ step' = [step EXCEPT ![c] = @ + 1]
              ELSE Goto(c, "ready") /\ UNCHANGED step

Note(c, r, proper) == trouble' = IF r = proper THEN trouble
                                 ELSE [trouble EXCEPT ![c] = @ \cup {Store(c)}]

(* CheckAuthenticationMethod, and what enableStores makes of its result:   *)
(* an error that does not name a 400 is dropped, and the store with it.    *)
Check(c) == /\ pc[c] = "check"
            /\ \E r \in Answers(CheckReply(Store(c)), ReadFaults) :
                 /\ Note(c, r, CheckReply(Store(c)))
                 /\ IF RequestStatus(r) # "OK" /\ SaysBadRequest(r)
                    THEN Goto(c, "enable") /\ UNCHANGED step
                    ELSE Proceed(c)
            /\ UNCHANGED <<mounted, token, config>>

(* EnableAuthMethod: any error of the POST is the error of client.New.  A  *)
(* request whose answer never comes may have been carried out.             *)
Enable(c) == /\ pc[c] = "enable"
             /\ \E r \in Answers(EnableReply(Store(c)), FaultReplies) :
                  /\ Note(c, r, EnableReply(Store(c)))
                  /\ \/ r = EnableReply(Store(c)) /\ mounted' = mounted \cup {Store(c)}
                     \/ r.code = "timeout" /\ mounted' = mounted \cup {Store(c)}
                     \/ r # EnableReply(Store(c)) /\ UNCHANGED mounted
                  /\ IF RequestStatus(r) = "OK"
                     THEN Proceed(c)
                     ELSE Goto(c, "failed") /\ UNCHANGED step
             /\ UNCHANGED <<token, config>>

(* Connector.Validate, which a parent asks its child for, succeeds, and    *)
(* makes no request.                                                       *)
Validate(c) == /\ pc[c] = "ready" /\ Parent[c] # None
               /\ Goto(c, "validated")
               /\ UNCHANGED <<mounted, token, config, step, trouble>>

(* The process ends and is started again, with the same configuration.     *)
Restart(c) == /\ pc' = [pc EXCEPT ![c] = "new"]
              /\ step' = [step EXCEPT ![c] = 1]
              /\ trouble' = [trouble EXCEPT ![c] = {}]
              /\ UNCHANGED <<mounted, token, config>>

(* Another client of Vault mounts a store.                                 *)
AdminMount == /\ \E s \in Stores \ mounted : mounted' = mounted \cup {s}
              /\ UNCHANGED <<token, config, pc, step, trouble>>

Step(c) == Configure(c) \/ Start(c) \/ Check(c) \/ Enable(c) \/ Validate(c)

Next == (\E c \in Connectors : Step(c) \/ Restart(c)) \/ AdminMount

Spec == Init /\ [][Next]_vars

FairSpec == Spec /\ \A c \in Connectors : WF_vars(Step(c))

-----------------------------------------------------------------------------
(* A connector that is ready has every store but those about which it got  *)
(* an answer enableStores drops (main.go 44-73, connector.go 51-63,        *)
(* client.go 122-172): two connectors that enable the same stores at the   *)
(* same time do not make each other skip one, and none gets past           *)
(* connector.New with the empty client.                                    *)
ReadyMeansMounted ==
  \A c \in Connectors : pc[c] \in {"ready", "validated"} => Stores \ trouble[c] \subseteq mounted

(* A connector that fails to start met a fault or has a bad configuration  *)
(* (main.go 44-73, client.go 122-172, 419-422): losing the race to enable  *)
(* a store is not a failure.                                               *)
OnlyFaultsFail ==
  \A c \in Connectors : pc[c] = "failed" => trouble[c] # {}

(* Starting ends, with a connector or an error, for the child as soon as   *)
(* its parent got that far, unless processes are started again for ever    *)
(* (main.go 44-73, client.go 122-172).                                     *)
Ended(c) == \/ pc[c] \in {"validated", "failed"}
            \/ pc[c] = "ready" /\ Parent[c] = None

StartEnds ==
  <>[][\A c \in Connectors : ~Restart(c)]_vars =>
     \A c \in Connectors :
        <>(Ended(c) \/ (Parent[c] # None /\ pc[Parent[c]] = "failed"))

(* connector.go 44-45: Validate "should exercise any API credentials to be *)
(* sure that they are valid": it succeeds only with a token Vault accepts. *)
ValidateExercisesCredentials ==
  \A c \in Connectors : pc[c] = "validated" => token = "valid"
=============================================================================
