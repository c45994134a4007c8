----------------------------- MODULE Pagination -----------------------------
(***************************************************************************)
(* Page tokens (baton-sdk pkg/pagination, pkg/connector/helper.go).  A bag *)
(* is a stack of page states, the current one on top, and a page token is  *)
(* a bag as JSON.  Nothing stands for a nil state and for the empty token. *)
(***************************************************************************)
EXTENDS Sequences, SequencesExt

CONSTANT Nothing  \* no value

PageState(token, type) == [token |-> token, type |-> type]

NoStates == [states |-> << >>, current |-> Nothing]

Push(bag, state) ==
  [states |-> IF bag.current = Nothing THEN bag.states ELSE Append(bag.states, bag.current),
   current |-> state]

Pop(bag) == IF bag.states = << >> THEN NoStates
            ELSE [states |-> Front(bag.states), current |-> Last(bag.states)]

(* Next: the current state with another token, or without one popped.      *)
NextOf(bag, token) == IF token = Nothing THEN Pop(bag)
                      ELSE Push(Pop(bag), [bag.current EXCEPT !.token = token])

(* What is left when there is no current state is not written.             *)
Marshal(bag) == IF bag.current = Nothing THEN Nothing ELSE bag
Unmarshal(token) == IF token = Nothing THEN NoStates ELSE token

(* The bag a List works on: that of its token, or a new one for its type.  *)
getToken(token, type) ==
  LET bag == Unmarshal(token) IN
  IF bag.current = Nothing THEN Push(bag, PageState(Nothing, type)) ELSE bag
=============================================================================
