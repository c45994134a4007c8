-------------------------- MODULE PaginationProofs --------------------------
(***************************************************************************)
(* A page token brings the next List to the page the last one meant, with  *)
(* whatever else is in its bag, for any tokens and types.                  *)
(***************************************************************************)
EXTENDS Pagination, TLAPS

PageStates(Tokens, Types) == [token : Tokens \cup {Nothing}, type : Types]
Bags(Tokens, Types) ==
  [states : Seq(PageStates(Tokens, Types)), current : PageStates(Tokens, Types) \cup {Nothing}]

(* Putting another token into the current state leaves the others.         *)
LEMMA NextKeepsTheRest ==
  ASSUME NEW S, Nothing \notin S, NEW bag \in [states : Seq(S), current : S],
         NEW n, n # Nothing, [bag.current EXCEPT !.token = n] \in S
  PROVE  NextOf(bag, n) = [states |-> bag.states,
                           current |-> [bag.current EXCEPT !.token = n]]
<1> DEFINE state == [bag.current EXCEPT !.token = n]
<1>1. NextOf(bag, n) = Push(Pop(bag), state)
  BY DEF NextOf
<1>2. CASE bag.states = << >>
  BY <1>1, <1>2 DEF Pop, Push, NoStates
<1>3. CASE bag.states # << >>
  <2>1. /\ Pop(bag).states = Front(bag.states) /\ Pop(bag).current = Last(bag.states)
        /\ Last(bag.states) \in S
        /\ Append(Front(bag.states), Last(bag.states)) = bag.states
    BY <1>3 DEF Pop, Front, Last
  <2> QED BY <1>1, <2>1 DEF Push
<1> QED BY <1>2, <1>3

(* The index List writes into its token is the one the next List reads,    *)
(* and none of the states below it is lost (helper.go 133-176,             *)
(* pagination.go 23-163).                                                  *)
THEOREM TokenRoundTrip ==
  ASSUME NEW Tokens, NEW Types, Nothing \notin Tokens,
         Nothing \notin PageStates(Tokens, Types), Nothing \notin Bags(Tokens, Types),
         NEW bag \in Bags(Tokens, Types), bag.current # Nothing,
         NEW n \in Tokens, NEW type \in Types
  PROVE  getToken(Marshal(NextOf(bag, n)), type)
           = [states |-> bag.states, current |-> [bag.current EXCEPT !.token = n]]
<1> DEFINE S == PageStates(Tokens, Types)
           state == [bag.current EXCEPT !.token = n]
           next == [states |-> bag.states, current |-> state]
<1>1. bag \in [states : Seq(S), current : S] /\ state \in S /\ n # Nothing
  BY DEF Bags, PageStates
<1>2. NextOf(bag, n) = next
  BY <1>1, NextKeepsTheRest
<1>3. next \in Bags(Tokens, Types) /\ next # Nothing /\ next.current # Nothing
  BY <1>1 DEF Bags
<1>4. Marshal(next) = next /\ getToken(next, type) = next
  BY <1>3 DEF Marshal, getToken, Unmarshal
<1> QED BY <1>2, <1>4
=============================================================================
