----------------------------- MODULE ActionSlots -----------------------------
(***************************************************************************)
(* What reserve_action promises of one match: the actions of a match are   *)
(* read no faster than Cap in a Span, however they come, and none is       *)
(* refused or kept waiting for longer than that takes.  No window is       *)
(* remembered here: the rate is that of all the slots ever given.          *)
(***************************************************************************)
EXTENDS SlidingWindows, Functions

CONSTANTS Cap, Span

VARIABLES
  now,      \* the monotonic clock
  granted,  \* history: every slot given to the match
  over      \* the match is not registered: nobody reserves for it

vars == <<now, granted, over>>

Init == now \in Nat /\ granted = <<>> /\ over = TRUE

Tick == now' \in Nat /\ now' > now /\ UNCHANGED <<granted, over>>

\* The first moment from now on that keeps the rate.
Earliest(slot) ==
  /\ slot >= now /\ KeepsRate(Append(granted, slot), Span, Cap)
  /\ \A t \in now..(slot - 1) : ~KeepsRate(Append(granted, t), Span, Cap)

Reserve ==
  /\ ~over
  /\ \E slot \in Range(granted') : granted' = Append(granted, slot) /\ Earliest(slot)
  /\ UNCHANGED <<now, over>>

\* The match is created, and in the end evicted for good.
Open == over /\ granted = <<>> /\ over' = FALSE /\ UNCHANGED <<now, granted>>
Forget == ~over /\ over' = TRUE /\ UNCHANGED <<now, granted>>

Next == Tick \/ Reserve \/ Open \/ Forget

Spec == Init /\ [][Next]_vars
=============================================================================
