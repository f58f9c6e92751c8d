------------------------- MODULE MCTranscriptStore --------------------------
(* A small instance of TranscriptStore for TLC. *)
EXTENDS TranscriptStore, TLC

CONSTANTS m1, m2, m3, r1

Matches2 == {m1, m2}
Matches3 == {m1, m2, m3}
OneReader == {r1}
AllBackends == {"memory", "file", "sqlite"}

\* Two that fit together, one that is in the other's way, one too large.
TwoWeights == {w \in [Matches2 -> 1..3] : w[m1] = 1 \/ w[m2] = 1}

\* A read meets two faults or steps of the clock; the store alone, three and two.
Explored == mishaps + now <= 2 \/ \A r \in Readers : reader[r] = NoRead

Interchangeable == Permutations(Matches2)
=============================================================================
