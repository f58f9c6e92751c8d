-------------------------- MODULE MatchLifecycle ---------------------------
(***************************************************************************)
(* What a match promises, whoever drives it: it starts once, commits turns *)
(* only while it runs, ends once as finished or aborted, and its end is    *)
(* then told to all of its audience at once, exactly once.                 *)
(***************************************************************************)
EXTENDS Naturals

CONSTANT Audience     \* who must be told how the match ended

VARIABLES
  state,              \* RuntimeLifecycle
  turns,              \* committed turns
  told                \* who was sent the terminal frame

vars == <<state, turns, told>>

Ended == state \in {"finished", "aborted"}

TypeOK ==
  /\ state \in {"created", "running", "finished", "aborted"}
  /\ turns \in Nat
  /\ told \subseteq Audience

Init == state = "created" /\ turns = 0 /\ told = {}

\* The match starts: it runs, is over at once, or could not be set up.
Begin ==
  /\ state = "created"
  /\ \/ state' \in {"running", "finished"} /\ turns' \in Nat
     \/ state' = "aborted" /\ turns' = turns
  /\ UNCHANGED told

\* A step commits one turn or more, and may finish the match.
Play ==
  /\ state = "running"
  /\ turns' \in Nat /\ turns' > turns
  /\ state' \in {"running", "finished"}
  /\ UNCHANGED told

Abort ==
  /\ state = "running"
  /\ state' = "aborted"
  /\ UNCHANGED <<turns, told>>

\* Everyone is told in one step, or nobody is.
Tell ==
  /\ Ended /\ told = {}
  /\ told' = Audience
  /\ UNCHANGED <<state, turns>>

Next == Begin \/ Play \/ Abort \/ Tell

Safe == Init /\ [][Next]_vars

\* An ended match is eventually told.
Spec == Safe /\ WF_vars(Tell)
=============================================================================
