--------------------------- MODULE PolicyHistory ---------------------------
(***************************************************************************)
(* PolicyBuilder with the history of Vault: every list of policies a user  *)
(* has had since the connector started.  It says what calls running side   *)
(* by side over a cache nothing invalidates still guarantee.               *)
(***************************************************************************)
EXTENDS PolicyBuilder

VARIABLE held     \* user -> every value vault[user] has had

hvars == <<vars, held>>

HInit == Init /\ held = [u \in Users |-> {vault[u]}]

Remember == held' = [u \in Users |-> held[u] \cup {vault'[u]}]

HNext == Next /\ Remember

HSpec == HInit /\ [][HNext]_hvars

(* What GetUser makes of a value of Vault: a user that does not exist has  *)
(* no policies.                                                            *)
ListOf(v) == IF v = Absent THEN << >> ELSE v

(* A list a call works on, or the cache holds, is one that Vault held for  *)
(* that very user, whichever calls filled, cleared or expired the cache in *)
(* the meantime, and whatever a proxy answered in Vault's place (client.go *)
(* 504-526, wrapper.go 296-306 and 386-391).                               *)
ViewsWereHeld ==
  /\ \A u \in Users : cache[u] \in Lists => cache[u] \in held[u]
  /\ \A w \in Workers : view[w] \in Lists =>
        /\ at[w] # Nothing
        /\ \E v \in held[at[w]] : view[w] = ListOf(v)

(* A user a Grants call reports held the policy at some time               *)
(* (policy.go 105-122): a report can be stale, it is never invented.       *)
ReportsWereTrue ==
  \A w \in Workers : \A u \in found[w] :
     \E v \in held[u] : job[w].policy \in PoliciesIn(ListOf(v))

(* Whatever a call writes, it writes to the user it names, who exists, and *)
(* it is what Vault held for that user at some time, with exactly the one  *)
(* policy of the call added or taken out (policy.go 144-159, 181-197;      *)
(* client.go 602-616).  No interleaving mixes users or invents a policy,   *)
(* although it may undo a concurrent change.                               *)
Effect(j, v) == IF j.op = "Grant" THEN PoliciesIn(ListOf(v)) \cup {j.policy}
                                  ELSE PoliciesIn(ListOf(v)) \ {j.policy}

WritesDeriveFromHeld ==
  [][\A u \in Users : vault'[u] # vault[u] =>
       \A w \in Workers : Worker(w) =>
         /\ job[w].user = u
         /\ vault[u] # Absent
         /\ \E v \in held[u] : PoliciesIn(vault'[u]) = Effect(job[w], v)]_hvars
=============================================================================
