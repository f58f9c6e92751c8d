---------------------------- MODULE MCSeatClaim -----------------------------
(* Small instances of SeatClaim for TLC. *)
EXTENDS SeatClaim, TLC

CONSTANTS c1, c2, c3, c4, alice, bob, carol

Play(s, resume) == [endpoint |-> "play", seat |-> s, resume |-> resume]
Watch == [endpoint |-> "spectate"]

FourConns == {c1, c2, c3, c4}
Everyone == {alice, bob, carol}

\* Alice comes for seat 0 and Bob for seat 1.  A second connection of Alice's
\* resumes; Carol claims seat 0 as well, or watches.
ClientsOf == (c1 :> alice) @@ (c2 :> bob) @@ (c3 :> alice) @@ (c4 :> carol)
AsksOf ==
  (c1 :> {Play(0, FALSE)}) @@
  (c2 :> {Play(1, FALSE)}) @@
  (c3 :> {Play(0, TRUE)}) @@
  (c4 :> {Play(0, FALSE), Watch})
=============================================================================
