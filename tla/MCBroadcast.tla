---------------------------- MODULE MCBroadcast -----------------------------
(* Small instances of Broadcast for TLC. *)
EXTENDS Broadcast

CONSTANT p

BothSeats == {<<0, 1>>, <<1, 1>>}
ASeatThatResumes == {<<0, 1>>, <<0, 2>>}

\* A seat that resumes; a spectator.
Readers == {ASeatThatResumes, {p}}

\* Both seats; a seat that resumes; a seat and a spectator.
Released == {BothSeats, ASeatThatResumes, {<<0, 1>>, p}}
=============================================================================
