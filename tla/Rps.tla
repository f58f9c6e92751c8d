-------------------------------- MODULE Rps --------------------------------
(***************************************************************************)
(* Rock-Paper-Scissors (src/src/arena/games/rps): both seats act in every   *)
(* round, so apply_action always refuses and a round is one joint turn.     *)
(* The first seat to target_wins takes the match; at max_rounds the seat    *)
(* with more wins does, and equal wins are a draw.                          *)
(***************************************************************************)
EXTENDS GameCore

SHAPES == {"rock", "paper", "scissors"}
BEATS == [rock |-> "scissors", paper |-> "rock", scissors |-> "paper"]
MAX_TARGET_WINS == 10
MAX_ROUNDS_CAP == 100

RpsConfigs == [game : {"rps"}, target_wins : 1..MAX_TARGET_WINS,
               max_rounds : 1..MAX_ROUNDS_CAP]

RpsActions == [shape : SHAPES]

\* The seat whose throw beats the other's, NoSeat for a tie.
RoundWinner(throws) ==
    IF throws[0] = throws[1] THEN NoSeat
    ELSE IF BEATS[throws[0]] = throws[1] THEN 0 ELSE 1

\* last_round is a sequence of at most one RoundResult.
RpsRound(r) ==
    /\ DOMAIN r.throws = VALID_SEATS
    /\ \A seat \in VALID_SEATS : r.throws[seat] \in SHAPES
    /\ r.winner = RoundWinner(r.throws)

\* RpsState.__post_init__.
RpsState(s) ==
    /\ s.target_wins \in 1..MAX_TARGET_WINS
    /\ s.max_rounds \in 1..MAX_ROUNDS_CAP
    /\ DOMAIN s.wins = VALID_SEATS
    /\ \A seat \in VALID_SEATS : s.wins[seat] \in 0..s.target_wins
    /\ s.rounds_played \in 0..s.max_rounds
    /\ s.wins[0] + s.wins[1] <= s.rounds_played
    /\ ~(s.wins[0] = s.target_wins /\ s.wins[1] = s.target_wins)
    /\ (s.rounds_played = 0) = (s.last_round = <<>>)
    /\ \A i \in DOMAIN s.last_round :
          /\ RpsRound(s.last_round[i])
          /\ s.last_round[i].winner \in VALID_SEATS =>
                s.wins[s.last_round[i].winner] >= 1
    /\ \A seat \in VALID_SEATS :
          s.wins[seat] = s.target_wins =>
              s.last_round # <<>> /\ s.last_round[1].winner = seat

RpsInitial(c) ==
    [wins |-> [seat \in VALID_SEATS |-> 0], rounds_played |-> 0,
     target_wins |-> c.target_wins, max_rounds |-> c.max_rounds,
     last_round |-> <<>>]

RpsTerminal(s) ==
    \/ \E seat \in VALID_SEATS : s.wins[seat] >= s.target_wins
    \/ s.rounds_played >= s.max_rounds

RpsResult(s) ==
    IF ~RpsTerminal(s) THEN NoResult
    ELSE IF s.wins[0] = s.wins[1] THEN Draw
    ELSE Win(IF s.wins[0] > s.wins[1] THEN 0 ELSE 1)

RpsActing(s) == IF RpsTerminal(s) THEN {} ELSE VALID_SEATS

\* The winner's seat at a finished match, seat 0 otherwise.
RpsCurrentSeat(s) ==
    IF RpsResult(s).result_type = "Win" THEN RpsResult(s).seat ELSE 0

RpsLegal(s, seat) ==
    IF RpsTerminal(s) \/ seat \notin VALID_SEATS THEN {} ELSE RpsActions

RpsValid(s, seat, a) ==
    /\ ~RpsTerminal(s)
    /\ seat \in VALID_SEATS
    /\ a \in RpsActions

RpsApplyJoint(s, actions) ==
    LET throws == [seat \in VALID_SEATS |-> actions[seat].shape]
        winner == RoundWinner(throws)
        next == [s EXCEPT
                   !.wins = [seat \in VALID_SEATS |->
                                @[seat] + (IF seat = winner THEN 1 ELSE 0)],
                   !.rounds_played = @ + 1,
                   !.last_round = <<[throws |-> throws, winner |-> winner]>>]
        result == RpsResult(next)
    IN Transition(next,
                  <<[event_type |-> "RoundPlayed",
                     round_number |-> next.rounds_played,
                     throws |-> throws, winner |-> winner]>>
                      \o When(result # NoResult,
                              [event_type |-> "RpsMatchDecided",
                               winner |-> result.seat]),
                  result)
=============================================================================
