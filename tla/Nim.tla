-------------------------------- MODULE Nim --------------------------------
(***************************************************************************)
(* Normal-play Nim (src/src/arena/games/nim): a seat takes objects from one *)
(* pile, and the seat that takes the last one wins.  The winner stays       *)
(* current_seat, which is how result() finds it in the state alone.         *)
(***************************************************************************)
EXTENDS GameCore

NimConfigs == [game : {"nim"}, num_piles : 1..20, max_pile_size : 1..100]

\* NimState.__post_init__: what load_state and every move must satisfy.
NimState(s) ==
    /\ DOMAIN s.piles # {}
    /\ \A i \in DOMAIN s.piles : s.piles[i] >= 0
    /\ s.current_seat \in VALID_SEATS

\* A TakeObjects a seat can name at all, in a game of this config.
NimActions(c) == [pile_index : 0..c.num_piles, count : 1..(c.max_pile_size + 1)]

NimInitial(c) ==
    [piles |-> [i \in 0..(c.num_piles - 1) |-> c.max_pile_size],
     current_seat |-> 0]

NimEmpty(piles) == \A i \in DOMAIN piles : piles[i] = 0

NimResult(s) == IF NimEmpty(s.piles) THEN Win(s.current_seat) ELSE NoResult

NimTerminal(s) == NimResult(s) # NoResult

NimLegal(s, seat) ==
    IF NimTerminal(s) \/ seat # s.current_seat
    THEN {}
    ELSE UNION {{[pile_index |-> i, count |-> n] : n \in 1..s.piles[i]} :
                    i \in DOMAIN s.piles}

NimValid(s, seat, a) ==
    /\ ~NimTerminal(s)
    /\ seat = s.current_seat
    /\ a.pile_index \in DOMAIN s.piles
    /\ a.count \in 1..s.piles[a.pile_index]

NimApply(s, seat, a) ==
    LET piles == [s.piles EXCEPT ![a.pile_index] = @ - a.count]
        over  == NimEmpty(piles)
        taken == [event_type |-> "NimObjectsTaken", seat |-> seat,
                  pile_index |-> a.pile_index, count |-> a.count,
                  remaining |-> piles]
    IN Transition([piles |-> piles,
                   current_seat |-> IF over THEN seat ELSE Other(seat)],
                  <<taken>> \o When(over, [event_type |-> "NimMatchWon",
                                           winner_seat |-> seat]),
                  IF over THEN Win(seat) ELSE NoResult)
=============================================================================
