--------------------------- MODULE StartupProofs ---------------------------
(***************************************************************************)
(* However many connectors start at the same time: one that is ready has   *)
(* every store about which it met no fault, and none fails without one.    *)
(***************************************************************************)
EXTENDS Startup, TLAPS

(* What is inductive: of each store a connector has passed, it knows that  *)
(* Vault has it, or it met a fault about it, one that has yet to start     *)
(* has passed none, and one that is configured has a token, so that it is  *)
(* not ready without a look at the stores.                                 *)
Passed(c, i) == i < step[c] \/ pc[c] \in {"ready", "validated"}
PassedMeansMounted ==
  \A c \in Connectors : \A i \in DOMAIN StoreOrder :
     Passed(c, i) => StoreOrder[i] \in mounted \cup trouble[c]

Early == {"new", "configured"}
NewPassedNone == \A c \in Connectors : pc[c] \in Early => step[c] = 1
ConfiguredHasToken == \A c \in Connectors : pc[c] = "configured" => config[c].token

IInv == TypeOK /\ PassedMeansMounted /\ NewPassedNone /\ ConfiguredHasToken /\ OnlyFaultsFail

LEMMA Order == DOMAIN StoreOrder = 1..3 /\ Len(StoreOrder) = 3
BY DEF StoreOrder

(* The store at hand is one of the three.                                  *)
LEMMA StoreAtHand ==
  ASSUME TypeOK, NEW c \in Connectors
  PROVE  Store(c) \in Stores /\ Store(c) = StoreOrder[step[c]] /\ step[c] \in 1..3
BY Order DEF TypeOK, Store, Stores

(* What a connector makes of Vault's own answers: a check passes exactly   *)
(* when the store is mounted, and enabling a store succeeds even when      *)
(* someone else has been faster.                                           *)
LEMMA CheckOfMounted ==
  ASSUME NEW s, ~(RequestStatus(CheckReply(s)) # "OK" /\ SaysBadRequest(CheckReply(s)))
  PROVE  s \in mounted
BY DEF CheckReply, Reply, RequestStatus, DoStatus, SaysBadRequest

LEMMA EnableSucceeds ==
  ASSUME NEW s
  PROVE  RequestStatus(EnableReply(s)) = "OK"
<1>1. CASE s \in mounted
  BY <1>1 DEF EnableReply, Reply, RequestStatus
<1>2. CASE s \notin mounted
  BY <1>2 DEF EnableReply, Reply, RequestStatus, DoStatus
<1> QED BY <1>1, <1>2

(* Going on to the next store keeps the types, and passes no store but the *)
(* one at hand.                                                            *)
LEMMA ProceedPasses ==
  ASSUME TypeOK, NEW c \in Connectors, Proceed(c)
  PROVE  /\ pc' \in [Connectors -> Stages] /\ step' \in [Connectors -> DOMAIN StoreOrder]
         /\ pc'[c] \notin Early \cup {"failed"}
         /\ \A d \in Connectors \ {c} : pc'[d] = pc[d] /\ step'[d] = step[d]
         /\ \A i \in DOMAIN StoreOrder : Passed(c, i)' => Passed(c, i) \/ i = step[c]
<1>1. step[c] \in 1..3
  BY StoreAtHand
<1>2. CASE step[c] < 3
  <2>1. pc' = [pc EXCEPT ![c] = "check"] /\ step' = [step EXCEPT ![c] = step[c] + 1]
    BY <1>2, Order DEF Proceed, Goto
  <2> QED BY <1>1, <1>2, <2>1, Order DEF TypeOK, Stages, Passed, Early
<1>3. CASE ~(step[c] < 3)
  <2>1. pc' = [pc EXCEPT ![c] = "ready"] /\ step' = step /\ step[c] = 3
    BY <1>1, <1>3, Order DEF Proceed, Goto
  <2> QED BY <2>1, Order DEF TypeOK, Stages, Passed, Early
<1> QED BY <1>2, <1>3

LEMMA IInvInit == Init => IInv
BY Order DEF Init, IInv, TypeOK, PassedMeansMounted, NewPassedNone, ConfiguredHasToken,
             OnlyFaultsFail, Passed, Stages

(* An action of one connector that only adds to what is mounted, and whose *)
(* effect on the others is nothing, is judged by that connector alone.     *)
LEMMA OneConnector ==
  ASSUME IInv, TypeOK', NEW c \in Connectors, mounted \subseteq mounted',
         \A d \in Connectors \ {c} : /\ pc'[d] = pc[d] /\ step'[d] = step[d]
                                     /\ trouble'[d] = trouble[d],
         \A i \in DOMAIN StoreOrder : Passed(c, i)' => StoreOrder[i] \in mounted' \cup trouble'[c],
         pc'[c] = "failed" => trouble'[c] # {}, pc'[c] \in Early => step'[c] = 1,
         config' = config, pc'[c] = "configured" => config[c].token
  PROVE  IInv'
<1>1. PassedMeansMounted'
  <2> SUFFICES ASSUME NEW d \in Connectors, NEW i \in DOMAIN StoreOrder, Passed(d, i)'
               PROVE  StoreOrder[i] \in mounted' \cup trouble'[d]
    BY DEF PassedMeansMounted
  <2>1. CASE d = c
    BY <2>1
  <2>2. CASE d # c
    BY <2>2 DEF IInv, PassedMeansMounted, Passed
  <2> QED BY <2>1, <2>2
<1>2. OnlyFaultsFail' /\ NewPassedNone' /\ ConfiguredHasToken'
  BY DEF IInv, OnlyFaultsFail, NewPassedNone, ConfiguredHasToken
<1> QED BY <1>1, <1>2 DEF IInv

LEMMA CheckPreserves ==
  ASSUME IInv, NEW c \in Connectors, Check(c)
  PROVE  IInv'
<1> DEFINE s == Store(c)
<1>1. PICK r \in Answers(CheckReply(s), ReadFaults) :
        /\ Note(c, r, CheckReply(s))
        /\ IF RequestStatus(r) # "OK" /\ SaysBadRequest(r)
           THEN Goto(c, "enable") /\ UNCHANGED step
           ELSE Proceed(c)
  BY DEF Check
<1>2. UNCHANGED <<mounted, token, config>> /\ pc[c] = "check"
  BY DEF Check
<1>3. TypeOK /\ s \in Stores /\ s = StoreOrder[step[c]] /\ step[c] \in 1..3
  BY StoreAtHand DEF IInv
<1>4. /\ trouble' \in [Connectors -> SUBSET (Stores \cup {"config"})]
      /\ \A d \in Connectors \ {c} : trouble'[d] = trouble[d]
      /\ trouble[c] \subseteq trouble'[c]
      /\ r # CheckReply(s) => s \in trouble'[c]
  BY <1>1, <1>3 DEF Note, TypeOK
<1>5. CASE RequestStatus(r) # "OK" /\ SaysBadRequest(r)
  <2>1. pc' = [pc EXCEPT ![c] = "enable"] /\ step' = step
    BY <1>1, <1>5 DEF Goto
  <2>2. TypeOK'
    BY <1>2, <1>3, <1>4, <2>1 DEF TypeOK, Stages
  <2>3. \A i \in DOMAIN StoreOrder : Passed(c, i)' => StoreOrder[i] \in mounted' \cup trouble'[c]
    BY <1>2, <1>3, <1>4, <2>1 DEF IInv, PassedMeansMounted, Passed, TypeOK
  <2>4. /\ pc'[c] \notin Early \cup {"failed"}
        /\ \A d \in Connectors \ {c} : pc'[d] = pc[d] /\ step'[d] = step[d]
    BY <1>3, <2>1 DEF TypeOK, Early
  <2> QED BY <1>2, <1>4, <2>2, <2>3, <2>4, OneConnector DEF Early
<1>6. CASE ~(RequestStatus(r) # "OK" /\ SaysBadRequest(r))
  <2>1. Proceed(c)
    BY <1>1, <1>6
  <2>2. s \in mounted \cup trouble'[c]
    BY <1>4, <1>6, CheckOfMounted
  <2>3. TypeOK'
    BY <1>2, <1>3, <1>4, <2>1, ProceedPasses DEF TypeOK
  <2>4. \A i \in DOMAIN StoreOrder : Passed(c, i)' => StoreOrder[i] \in mounted' \cup trouble'[c]
    BY <1>2, <1>3, <1>4, <2>1, <2>2, ProceedPasses DEF IInv, PassedMeansMounted
  <2> QED BY <1>2, <1>3, <1>4, <2>1, <2>3, <2>4, ProceedPasses, OneConnector DEF Early
<1> QED BY <1>5, <1>6

LEMMA EnablePreserves ==
  ASSUME IInv, NEW c \in Connectors, Enable(c)
  PROVE  IInv'
<1> DEFINE s == Store(c)
<1>1. PICK r \in Answers(EnableReply(s), FaultReplies) :
        /\ Note(c, r, EnableReply(s))
        /\ \/ r = EnableReply(s) /\ mounted' = mounted \cup {s}
           \/ r.code = "timeout" /\ mounted' = mounted \cup {s}
           \/ r # EnableReply(s) /\ UNCHANGED mounted
        /\ IF RequestStatus(r) = "OK"
           THEN Proceed(c)
           ELSE Goto(c, "failed") /\ UNCHANGED step
  BY DEF Enable
<1>2. UNCHANGED <<token, config>> /\ pc[c] = "enable"
  BY DEF Enable
<1>3. TypeOK /\ s \in Stores /\ s = StoreOrder[step[c]] /\ step[c] \in 1..3
  BY StoreAtHand DEF IInv
<1>4. /\ trouble' \in [Connectors -> SUBSET (Stores \cup {"config"})]
      /\ \A d \in Connectors \ {c} : trouble'[d] = trouble[d]
      /\ trouble[c] \subseteq trouble'[c]
      /\ r # EnableReply(s) => s \in trouble'[c]
  BY <1>1, <1>3 DEF Note, TypeOK
<1>5. mounted \subseteq mounted' /\ mounted' \subseteq Stores /\ s \in mounted' \cup trouble'[c]
  BY <1>1, <1>3, <1>4 DEF TypeOK
<1>6. CASE RequestStatus(r) = "OK"
  <2>1. Proceed(c)
    BY <1>1, <1>6
  <2>2. TypeOK'
    BY <1>2, <1>3, <1>4, <1>5, <2>1, ProceedPasses DEF TypeOK
  <2>3. \A i \in DOMAIN StoreOrder : Passed(c, i)' => StoreOrder[i] \in mounted' \cup trouble'[c]
    BY <1>3, <1>4, <1>5, <2>1, ProceedPasses DEF IInv, PassedMeansMounted
  <2> QED BY <1>2, <1>3, <1>4, <1>5, <2>1, <2>2, <2>3, ProceedPasses, OneConnector DEF Early
<1>7. CASE RequestStatus(r) # "OK"
  <2>1. pc' = [pc EXCEPT ![c] = "failed"] /\ step' = step
    BY <1>1, <1>7 DEF Goto
  <2>2. s \in trouble'[c]
    BY <1>4, <1>7, EnableSucceeds
  <2>3. TypeOK'
    BY <1>2, <1>3, <1>4, <1>5, <2>1 DEF TypeOK, Stages
  <2>4. \A i \in DOMAIN StoreOrder : Passed(c, i)' => StoreOrder[i] \in mounted' \cup trouble'[c]
    BY <1>3, <1>4, <1>5, <2>1 DEF IInv, PassedMeansMounted, Passed, TypeOK
  <2>5. pc'[c] \notin Early /\ \A d \in Connectors \ {c} : pc'[d] = pc[d] /\ step'[d] = step[d]
    BY <1>3, <2>1 DEF TypeOK, Early
  <2> QED BY <1>2, <1>4, <1>5, <2>2, <2>3, <2>4, <2>5, OneConnector DEF Early
<1> QED BY <1>6, <1>7

LEMMA IInvNext == IInv /\ [Next]_vars => IInv'
<1> SUFFICES ASSUME IInv, [Next]_vars PROVE IInv'
  OBVIOUS
<1>8. ASSUME NEW c \in Connectors, Configure(c) PROVE IInv'
  <2>1. /\ UNCHANGED <<mounted, token, config, step>> /\ pc[c] = "new" /\ step[c] = 1
        /\ \/ pc' = [pc EXCEPT ![c] = "configured"] /\ UNCHANGED trouble /\ config[c].token
           \/ pc' = [pc EXCEPT ![c] = "failed"] /\ trouble' = [trouble EXCEPT ![c] = {"config"}]
    BY <1>8 DEF IInv, NewPassedNone, Early, Configure, Refuse, Missing, Goto
  <2>2. TypeOK'
    BY <2>1 DEF IInv, TypeOK, Stages
  <2>3. \A d \in Connectors \ {c} : pc'[d] = pc[d] /\ step'[d] = step[d] /\ trouble'[d] = trouble[d]
    BY <2>1 DEF IInv, TypeOK
  <2>4. ~\E i \in DOMAIN StoreOrder : Passed(c, i)'
    BY <2>1, Order DEF IInv, TypeOK, Passed
  <2>5. /\ pc'[c] = "configured" => config[c].token
        /\ pc'[c] = "failed" => trouble'[c] # {}
        /\ step'[c] = 1
    BY <2>1 DEF IInv, TypeOK
  <2> QED BY <2>1, <2>2, <2>3, <2>4, <2>5, OneConnector
<1>1. ASSUME NEW c \in Connectors, Start(c) PROVE IInv'
  <2>1. /\ UNCHANGED <<mounted, token, config, step>> /\ step[c] = 1
        /\ \/ pc' = [pc EXCEPT ![c] = "check"] /\ UNCHANGED trouble
           \/ pc' = [pc EXCEPT ![c] = "failed"] /\ trouble' = [trouble EXCEPT ![c] = {"config"}]
    BY <1>1 DEF IInv, NewPassedNone, ConfiguredHasToken, Early, Start,
              MakeConnector, MakeClient, Refuse, Goto
  <2>2. TypeOK'
    BY <2>1 DEF IInv, TypeOK, Stages
  <2>3. \A d \in Connectors \ {c} : pc'[d] = pc[d] /\ step'[d] = step[d] /\ trouble'[d] = trouble[d]
    BY <2>1 DEF IInv, TypeOK
  <2>4. ~\E i \in DOMAIN StoreOrder : Passed(c, i)'
    BY <2>1, Order DEF IInv, TypeOK, Passed
  <2>5. pc'[c] \notin Early /\ (pc'[c] = "failed" => trouble'[c] # {})
    BY <2>1 DEF IInv, TypeOK, Early
  <2> QED BY <2>1, <2>2, <2>3, <2>4, <2>5, OneConnector DEF Early
<1>2. ASSUME NEW c \in Connectors, Check(c) PROVE IInv'
  BY <1>2, CheckPreserves
<1>3. ASSUME NEW c \in Connectors, Enable(c) PROVE IInv'
  BY <1>3, EnablePreserves
<1>4. ASSUME NEW c \in Connectors, Validate(c) PROVE IInv'
  BY <1>4, Order DEF IInv, TypeOK, PassedMeansMounted, NewPassedNone, ConfiguredHasToken, Early,
              OnlyFaultsFail, Passed, Validate, Goto, Stages
<1>5. ASSUME NEW c \in Connectors, Restart(c) PROVE IInv'
  BY <1>5, Order DEF IInv, TypeOK, PassedMeansMounted, NewPassedNone, ConfiguredHasToken, Early,
              OnlyFaultsFail, Passed, Restart, Stages
<1>6. CASE AdminMount
  BY <1>6, Order DEF IInv, TypeOK, PassedMeansMounted, NewPassedNone, ConfiguredHasToken, Early,
              OnlyFaultsFail, Passed, AdminMount
<1>7. CASE UNCHANGED vars
  BY <1>7 DEF IInv, TypeOK, PassedMeansMounted, NewPassedNone, ConfiguredHasToken, Early,
              OnlyFaultsFail, Passed, vars
<1> QED BY <1>1, <1>2, <1>3, <1>4, <1>5, <1>6, <1>7, <1>8 DEF Next, Step

LEMMA IInvAlways == Spec => []IInv
BY IInvInit, IInvNext, PTL DEF Spec

(* Every variable keeps its type; the store at hand is one of the three.   *)
THEOREM StartTypes == Spec => []TypeOK
<1>1. IInv => TypeOK
  BY DEF IInv
<1> QED BY <1>1, IInvAlways, PTL

(* A ready connector has every store it met no fault about, however many   *)
(* others enable the same stores meanwhile (client.go 122-172).            *)
THEOREM ReadyHasStores == Spec => []ReadyMeansMounted
<1>1. IInv => ReadyMeansMounted
  BY DEF IInv, PassedMeansMounted, Passed, ReadyMeansMounted, Stores
<1> QED BY <1>1, IInvAlways, PTL

(* A connector fails to start only when a request of its own met a fault   *)
(* or its configuration is no good: never by losing the race (client.go    *)
(* 419-422).                                                               *)
THEOREM RaceIsHarmless == Spec => []OnlyFaultsFail
<1>1. IInv => OnlyFaultsFail
  BY DEF IInv
<1> QED BY <1>1, IInvAlways, PTL
=============================================================================
