-------------------------------- MODULE Pig --------------------------------
(***************************************************************************)
(* Pig (src/src/arena/games/pig): a seat rolls, adding to its turn total,   *)
(* or holds and banks it; a 1 busts the turn.  A chosen roll makes the      *)
(* state a chance node until the die lands.  target_score rides in the      *)
(* state, so the result is derivable from the state alone.                  *)
(***************************************************************************)
EXTENDS GameCore

MAX_TARGET_SCORE == 1000
DIE_FACES == 6
BUST_FACE == 1

PigConfigs == [game : {"pig"}, target_score : 1..MAX_TARGET_SCORE]

PigActions == [choice : {"roll", "hold"}]

PigWinners(s) == {seat \in VALID_SEATS : s.scores[seat] >= s.target_score}

\* PigState.__post_init__.
PigState(s) ==
    /\ DOMAIN s.scores = VALID_SEATS
    /\ \A seat \in VALID_SEATS : s.scores[seat] >= 0
    /\ s.current_seat \in VALID_SEATS
    /\ s.turn_total >= 0
    /\ s.roll_pending \in BOOLEAN
    /\ s.target_score \in 1..MAX_TARGET_SCORE
    /\ PigWinners(s) # VALID_SEATS
    /\ PigWinners(s) # {} =>
          /\ PigWinners(s) = {s.current_seat}
          /\ s.turn_total = 0
          /\ ~s.roll_pending

PigInitial(c) ==
    [scores |-> [seat \in VALID_SEATS |-> 0], current_seat |-> 0,
     turn_total |-> 0, roll_pending |-> FALSE, target_score |-> c.target_score]

\* The first seat, in seat order, at its target.
PigResult(s) ==
    IF s.scores[0] >= s.target_score THEN Win(0)
    ELSE IF s.scores[1] >= s.target_score THEN Win(1)
    ELSE NoResult

PigTerminal(s) == PigResult(s) # NoResult

PigChance(s) == s.roll_pending /\ ~PigTerminal(s)

\* Mutant: a hold with nothing to bank is offered.
PigLegalHold(s, seat) ==
    IF PigTerminal(s) \/ s.roll_pending \/ seat # s.current_seat THEN {} ELSE PigActions

PigLegal(s, seat) ==
    IF PigTerminal(s) \/ s.roll_pending \/ seat # s.current_seat
    THEN {}
    ELSE {a \in PigActions : a.choice = "hold" => s.turn_total # 0}

PigValid(s, seat, a) ==
    /\ ~PigTerminal(s)
    /\ ~s.roll_pending
    /\ seat = s.current_seat
    /\ ~(a.choice = "hold" /\ s.turn_total = 0)

PigApply(s, seat, a) ==
    LET score == s.scores[seat] + s.turn_total
        won   == score >= s.target_score
        held  == [s EXCEPT !.scores[seat] = score,
                           !.turn_total = 0,
                           !.current_seat = IF won THEN @ ELSE Other(seat)]
    IN IF a.choice = "roll"
       THEN Transition([s EXCEPT !.roll_pending = TRUE],
                       <<[event_type |-> "PigRollChosen", seat |-> seat]>>,
                       NoResult)
       ELSE Transition(held,
                       <<[event_type |-> "PigHeld", seat |-> seat,
                          banked |-> s.turn_total, score |-> score]>>
                           \o When(won, [event_type |-> "PigMatchWon",
                                         winner_seat |-> seat]),
                       PigResult(held))

\* What a die can show; sample_chance draws one of them.
PigOutcomes == [face : 1..DIE_FACES]

\* apply_chance refuses a roll nobody is waiting for, and a face off the die.
PigOutcomeValid(s, o) == PigChance(s) /\ o \in PigOutcomes

PigApplyChance(s, o) ==
    LET bust == o.face = BUST_FACE
        next == [s EXCEPT !.roll_pending = FALSE,
                          !.turn_total = IF bust THEN 0 ELSE @ + o.face,
                          !.current_seat = IF bust THEN Other(@) ELSE @]
    IN Transition(next,
                  <<[event_type |-> "PigDieRolled", seat |-> s.current_seat,
                     face |-> o.face, busted |-> bust,
                     turn_total |-> next.turn_total]>>,
                  NoResult)
=============================================================================
