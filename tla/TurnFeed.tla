------------------------------ MODULE TurnFeed ------------------------------
(***************************************************************************)
(* What the broadcast of a match promises its readers, seats and           *)
(* spectators alike: a growing list of turns that each reader follows      *)
(* without a gap or a repetition, from the history it joined with on, and  *)
(* a last frame that leaves it with every turn.  A reader may stop at any  *)
(* time; nothing is promised to one that does.                             *)
(***************************************************************************)
EXTENDS Integers

CONSTANT Readers

VARIABLES
  turns,  \* how many turns the match has committed
  ended,  \* the match commits no more
  seen,   \* per reader, the turns it has been given; NotYet before its history
  last    \* the readers that were given the terminal frame

NotYet == -1

vars == <<turns, ended, seen, last>>

Init ==
  /\ turns = 0 /\ ended = FALSE
  /\ seen \in [Readers -> {NotYet, 0}] /\ last = {}

\* Turns are only added, and none once the match has ended.
Grow ==
  /\ ~ended
  /\ turns' \in Nat /\ turns' >= turns
  /\ ended' \in BOOLEAN
  /\ UNCHANGED <<seen, last>>

\* A reader is given a history: the first n turns, before any other.
Greet(r) ==
  /\ seen[r] = NotYet /\ r \notin last
  /\ \E n \in 0 .. turns : seen' = [seen EXCEPT ![r] = n]
  /\ UNCHANGED <<turns, ended, last>>

\* A reader is given the turn after the last one it has.
Follow(r) ==
  /\ r \notin last /\ seen[r] # NotYet /\ seen[r] < turns
  /\ seen' = [seen EXCEPT ![r] = @ + 1]
  /\ UNCHANGED <<turns, ended, last>>

\* The terminal frame carries the whole transcript, once.
Finish(r) ==
  /\ ended /\ r \notin last /\ seen[r] # NotYet
  /\ last' = last \cup {r}
  /\ seen' = [seen EXCEPT ![r] = turns]
  /\ UNCHANGED <<turns, ended>>

Next == Grow \/ \E r \in Readers : Greet(r) \/ Follow(r) \/ Finish(r)

Spec == Init /\ [][Next]_vars
=============================================================================
