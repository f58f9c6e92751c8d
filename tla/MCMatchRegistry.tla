--------------------------- MODULE MCMatchRegistry --------------------------
(* A small instance of MatchRegistry for TLC. *)
EXTENDS MatchRegistry, TLC

CONSTANTS a, b, c, m1, m2, m3

ThreeIps == {a, b, c}
ThreeIds == {m1, m2, m3}

\* Three matches share two slots; one match, played alone, takes six and more time.
Explored ==
  \/ now <= 2 /\ MapThenSumSet(LAMBDA m : Len(slots[m]), Ids) <= 2
  \/ Cardinality(Ids \ ids) <= 1 /\ posts <= 2

Interchangeable == Permutations(ThreeIds) \union Permutations(ThreeIps)
=============================================================================
