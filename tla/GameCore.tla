------------------------------ MODULE GameCore ------------------------------
(***************************************************************************)
(* What every game of arena.games is written with: the two seats, a rule's  *)
(* result, and the TransitionResult of one move (src/src/arena/core).       *)
(* Tuples that the code indexes from 0 (scores, piles, boards, hands) are   *)
(* functions over 0..n-1 here; dice, bids and events are sequences.         *)
(***************************************************************************)
EXTENDS Integers, Sequences, FiniteSets

VALID_SEATS == {0, 1}

\* Python's None where a seat could be.
NoSeat == -1

Other(seat) == IF seat = 0 THEN 1 ELSE 0

(***************************************************************************)
(* A RuleResult: Win(seat), Draw, or None while the game goes on.           *)
(***************************************************************************)
Win(seat) == [result_type |-> "Win", seat |-> seat]
Draw      == [result_type |-> "Draw", seat |-> NoSeat]
NoResult  == [result_type |-> "None", seat |-> NoSeat]

\* TransitionResult: the next state, the events of the move, its result.
Transition(state, events, result) ==
    [state |-> state, events |-> events, result |-> result]

\* One event of a one-element list the code appends to, or none of it.
When(condition, event) == IF condition THEN <<event>> ELSE <<>>
=============================================================================
