--------------------------- MODULE SlidingWindows ---------------------------
(***************************************************************************)
(* The sliding windows of rate_limits.py: a window is the sequence of the  *)
(* times it has granted, the oldest first.                                 *)
(***************************************************************************)
EXTENDS Integers, Sequences

\* How many of the leading times have fallen out of the trailing span.
Stale(w, now, span) ==
  CHOOSE k \in 0..Len(w) :
    /\ \A i \in 1..k : w[i] <= now - span
    /\ k = Len(w) \/ w[k + 1] > now - span

\* _prune
Pruned(w, now, span) == SubSeq(w, Stale(w, now, span) + 1, Len(w))

\* Mutant: a window of cap slots still has room.
SlotOneMore(w, now, span, cap) ==
  IF Len(w) <= cap THEN now
  ELSE LET next == w[Len(w) - cap + 1] + span IN IF next > now THEN next ELSE now

\* Mutant: the wait counts from the slot given last.
SlotAfterLast(w, now, span, cap) ==
  LET next == w[Len(w)] + span
  IN IF Len(w) < cap THEN now ELSE IF next > now THEN next ELSE now

\* reserve_action, on a pruned window: now, or when the window next has room.
Slot(w, now, span, cap) ==
  LET next == w[Len(w) - cap + 1] + span
  IN IF Len(w) < cap THEN now ELSE IF next > now THEN next ELSE now

\* The rate a window keeps: no cap + 1 grants within one span.
KeepsRate(granted, span, cap) ==
  \A i \in 1..(Len(granted) - cap) : granted[i + cap] >= granted[i] + span
=============================================================================
