------------------------- MODULE LocalRuntimeProofs -------------------------
(***************************************************************************)
(* What local sessions promise holds for every config of the six games,    *)
(* every policy and every length of match, whatever the dice and whatever  *)
(* the agents write.                                                       *)
(*                                                                         *)
(* SessionOk says what a session is: its match was played turn by turn     *)
(* from the initial state of its config (Played), so every state on the    *)
(* way is one of StatesOf, the sets in which each game stays; and the      *)
(* lifecycle, the abort and the artefacts are those of that match.         *)
(* EventsOk keeps the book of the turns (Book): a turn is accepted once    *)
(* for each of its seats, after a request, and only agents' notes come     *)
(* after the end.  Forms says what the events that are redacted look like. *)
(*                                                                         *)
(* A transcript replays because each recorded turn, applied to the match   *)
(* it was made in, is that turn again.  A tampered one is refused because  *)
(* a replay that agrees with every turn is itself a match played so.  The  *)
(* hands stay secret because a hand is seen by no other seat before its    *)
(* round is over, and in a round of Liar's Dice the round number is the    *)
(* highest so far: only the turns that carry it hold the hands at stake.   *)
(***************************************************************************)
EXTENDS LocalRuntime, FiniteSetTheorems, SequenceTheorems, WellFoundedInduction, TLAPS

\* There are two seats, 0 and 1.
LEMMA TheOtherSeat ==
  ASSUME NEW seat \in VALID_SEATS
  PROVE  \/ seat = 0 /\ Other(seat) = 1
         \/ seat = 1 /\ Other(seat) = 0
  BY DEF VALID_SEATS, Other

\* The seats are a finite set of two.
LEMMA TwoSeats == IsFiniteSet(VALID_SEATS) /\ Cardinality(VALID_SEATS) = 2
<1>1. VALID_SEATS = 0..1
  BY DEF VALID_SEATS
<1>2. \A i, j \in Int : /\ IsFiniteSet(i..j)
                        /\ Cardinality(i..j) = IF i > j THEN 0 ELSE j - i + 1
  BY FS_Interval
<1>3. IsFiniteSet(0..1) /\ Cardinality(0..1) = 2
  <2>1. 0 \in Int /\ 1 \in Int /\ ~(0 > 1) /\ 1 - 0 + 1 = 2
    OBVIOUS
  <2> QED BY <1>2, <2>1
<1> QED BY <1>1, <1>3

----------------------------------------------------------------------------
(* Nim *)

NimStates(c) ==
  [piles : [0..(c.num_piles - 1) -> 0..c.max_pile_size], current_seat : VALID_SEATS]

\* A match of Nim begins with objects to take.
LEMMA NimStarts ==
  ASSUME NEW c \in NimConfigs
  PROVE  NimInitial(c) \in NimStates(c) /\ ~NimTerminal(NimInitial(c))
<1>1. c.num_piles \in 1..20 /\ c.max_pile_size \in 1..100
  BY DEF NimConfigs
<1>2. NimInitial(c) \in NimStates(c)
  BY <1>1 DEF NimInitial, NimStates, VALID_SEATS
<1>3. ~NimEmpty(NimInitial(c).piles)
  <2> DEFINE piles == [i \in 0..(c.num_piles - 1) |-> c.max_pile_size]
  <2>1. 0 \in DOMAIN piles /\ piles[0] = c.max_pile_size
    BY <1>1
  <2>2. NimInitial(c).piles = piles
    BY DEF NimInitial
  <2> HIDE DEF piles
  <2> QED BY <1>1, <2>1, <2>2 DEF NimEmpty
<1> QED BY <1>2, <1>3 DEF NimTerminal, NimResult, NoResult, Win

\* What is listed is what is valid.
LEMMA NimAgrees ==
  ASSUME NEW c \in NimConfigs, NEW s \in NimStates(c), NEW seat \in VALID_SEATS
  PROVE  /\ NimState(s)
         /\ NimLegal(s, seat) = {a \in NimActions(c) : NimValid(s, seat, a)}
<1>1. c.num_piles \in 1..20 /\ c.max_pile_size \in 1..100
  BY DEF NimConfigs
<1>2. /\ s.piles \in [0..(c.num_piles - 1) -> 0..c.max_pile_size]
      /\ s.current_seat \in VALID_SEATS
  BY DEF NimStates
<1>3. NimState(s)
  <2>1. DOMAIN s.piles = 0..(c.num_piles - 1) /\ 0 \in 0..(c.num_piles - 1)
    BY <1>1, <1>2
  <2>2. ASSUME NEW i \in 0..(c.num_piles - 1) PROVE s.piles[i] >= 0
    <3>1. s.piles[i] \in 0..c.max_pile_size
      BY <1>2
    <3> QED BY <1>1, <3>1
  <2> QED BY <1>2, <2>1, <2>2 DEF NimState
<1>4. ASSUME NEW a \in NimLegal(s, seat) PROVE a \in NimActions(c) /\ NimValid(s, seat, a)
  <2>1. ~NimTerminal(s) /\ seat = s.current_seat
    BY <1>4 DEF NimLegal
  <2>2. PICK i \in DOMAIN s.piles : \E n \in 1..s.piles[i] : a = [pile_index |-> i, count |-> n]
    BY <1>4, <2>1 DEF NimLegal
  <2>3. PICK n \in 1..s.piles[i] : a = [pile_index |-> i, count |-> n]
    BY <2>2
  <2>4. i \in 0..c.num_piles /\ n \in 1..(c.max_pile_size + 1)
    <3>1. i \in 0..(c.num_piles - 1)
      BY <1>2
    <3>2. s.piles[i] \in 0..c.max_pile_size
      BY <1>2, <3>1
    <3>3. n \in 1..s.piles[i]
      BY <2>3
    <3> HIDE <2>2, <2>3
    <3>4. i \in 0..c.num_piles
      BY <1>1, <3>1
    <3>5. n \in 1..(c.max_pile_size + 1)
      BY <1>1, <3>2, <3>3
    <3> QED BY <3>4, <3>5
  <2> QED BY <2>1, <2>3, <2>4 DEF NimActions, NimValid
<1>5. ASSUME NEW a \in NimActions(c), NimValid(s, seat, a) PROVE a \in NimLegal(s, seat)
  <2>1. a = [pile_index |-> a.pile_index, count |-> a.count]
    BY DEF NimActions
  <2> QED BY <1>5, <2>1 DEF NimValid, NimLegal
<1> QED BY <1>3, <1>4, <1>5

\* A move leaves a state of the game, and announces its result.
LEMMA NimMoves ==
  ASSUME NEW c \in NimConfigs, NEW s \in NimStates(c), NEW seat \in VALID_SEATS,
         NEW a \in NimActions(c), NimValid(s, seat, a)
  PROVE  /\ NimApply(s, seat, a).state \in NimStates(c)
         /\ NimApply(s, seat, a).result = NimResult(NimApply(s, seat, a).state)
<1>1. c.num_piles \in 1..20 /\ c.max_pile_size \in 1..100
  BY DEF NimConfigs
<1>2. s.piles \in [0..(c.num_piles - 1) -> 0..c.max_pile_size]
  BY DEF NimStates
<1> DEFINE piles == [s.piles EXCEPT ![a.pile_index] = @ - a.count]
<1>3. piles \in [0..(c.num_piles - 1) -> 0..c.max_pile_size]
  <2>1. a.pile_index \in 0..(c.num_piles - 1) /\ a.count \in 1..s.piles[a.pile_index]
    BY <1>2 DEF NimValid
  <2>2. s.piles[a.pile_index] \in 0..c.max_pile_size
    BY <1>2, <2>1
  <2>3. s.piles[a.pile_index] - a.count \in 0..c.max_pile_size
    BY <1>1, <2>1, <2>2
  <2> QED BY <1>2, <2>1, <2>3
<1>4. NimApply(s, seat, a).state =
        [piles |-> piles, current_seat |-> IF NimEmpty(piles) THEN seat ELSE Other(seat)]
  BY DEF NimApply, Transition
<1>5. NimApply(s, seat, a).result = IF NimEmpty(piles) THEN Win(seat) ELSE NoResult
  BY DEF NimApply, Transition
<1> HIDE DEF piles
<1>6. Other(seat) \in VALID_SEATS
  BY DEF Other, VALID_SEATS
<1> QED BY <1>3, <1>4, <1>5, <1>6 DEF NimStates, NimResult

----------------------------------------------------------------------------
(* Pig *)

PigStates(c) ==
  {s \in [scores : [VALID_SEATS -> Nat], current_seat : VALID_SEATS, turn_total : Nat,
          roll_pending : BOOLEAN, target_score : {c.target_score}] : PigState(s)}

\* A match of Pig begins with nothing scored and nothing rolled.
LEMMA PigStarts ==
  ASSUME NEW c \in PigConfigs
  PROVE  PigInitial(c) \in PigStates(c) /\ ~PigTerminal(PigInitial(c))
<1>1. c.target_score \in 1..MAX_TARGET_SCORE /\ MAX_TARGET_SCORE \in Nat
  BY DEF PigConfigs, MAX_TARGET_SCORE
<1> DEFINE s == PigInitial(c)
<1>2. /\ s.scores = [seat \in VALID_SEATS |-> 0] /\ s.current_seat = 0 /\ s.turn_total = 0
      /\ s.roll_pending = FALSE /\ s.roll_pending \in BOOLEAN /\ s.target_score = c.target_score
  BY DEF PigInitial
<1>3. s \in [scores : [VALID_SEATS -> Nat], current_seat : VALID_SEATS, turn_total : Nat,
             roll_pending : BOOLEAN, target_score : {c.target_score}]
  BY DEF PigInitial, VALID_SEATS
<1> HIDE DEF s
<1>4. PigWinners(s) = {} /\ PigResult(s) = NoResult
  BY <1>1, <1>2 DEF PigWinners, PigResult, VALID_SEATS
<1>5. PigState(s)
  <2>1. DOMAIN s.scores = VALID_SEATS /\ \A seat \in VALID_SEATS : s.scores[seat] >= 0
    BY <1>2
  <2>2. s.current_seat \in VALID_SEATS /\ s.turn_total >= 0 /\ s.roll_pending \in BOOLEAN
    BY <1>2 DEF VALID_SEATS
  <2>3. PigWinners(s) # VALID_SEATS /\ s.target_score \in 1..MAX_TARGET_SCORE
    BY <1>1, <1>2, <1>4 DEF VALID_SEATS
  <2> QED BY <1>4, <2>1, <2>2, <2>3 DEF PigState
<1> QED BY <1>3, <1>4, <1>5 DEF s, PigStates, PigTerminal

\* What is listed is what is valid.
LEMMA PigAgrees ==
  ASSUME NEW c \in PigConfigs, NEW s \in PigStates(c), NEW seat \in VALID_SEATS
  PROVE  PigState(s) /\ PigLegal(s, seat) = {a \in PigActions : PigValid(s, seat, a)}
  BY DEF PigStates, PigLegal, PigValid

\* A match that is won is won by the seat that held.
LEMMA PigResultIs ==
  ASSUME NEW s, s.scores \in [VALID_SEATS -> Nat], s.target_score \in Nat
  PROVE  /\ PigTerminal(s) <=> PigWinners(s) # {}
         /\ \A seat \in VALID_SEATS : PigWinners(s) = {seat} => PigResult(s) = Win(seat)
         /\ PigWinners(s) = {} => PigResult(s) = NoResult
  BY DEF PigTerminal, PigResult, PigWinners, VALID_SEATS, Win, NoResult

\* A move leaves a state of the game, and announces its result.
LEMMA PigMoves ==
  ASSUME NEW c \in PigConfigs, NEW s \in PigStates(c), NEW seat \in VALID_SEATS,
         NEW a \in PigActions, PigValid(s, seat, a)
  PROVE  /\ PigApply(s, seat, a).state \in PigStates(c)
         /\ PigApply(s, seat, a).result = PigResult(PigApply(s, seat, a).state)
<1>1. c.target_score \in 1..MAX_TARGET_SCORE /\ MAX_TARGET_SCORE \in Nat
  BY DEF PigConfigs, MAX_TARGET_SCORE
<1>2. /\ s.scores \in [VALID_SEATS -> Nat] /\ s.turn_total \in Nat /\ s.current_seat \in VALID_SEATS
      /\ s.roll_pending \in BOOLEAN /\ s.target_score = c.target_score /\ PigState(s)
      /\ s = [scores |-> s.scores, current_seat |-> s.current_seat, turn_total |-> s.turn_total,
              roll_pending |-> s.roll_pending, target_score |-> s.target_score]
  BY DEF PigStates
<1>3. PigWinners(s) = {} /\ ~s.roll_pending /\ seat = s.current_seat
  BY <1>1, <1>2, PigResultIs DEF PigValid
<1>4. CASE a.choice = "roll"
  <2> DEFINE t == [s EXCEPT !.roll_pending = TRUE]
  <2>1. PigApply(s, seat, a).state = t /\ PigApply(s, seat, a).result = NoResult
    BY <1>4 DEF PigApply, Transition
  <2>2. /\ t.scores = s.scores /\ t.current_seat = s.current_seat /\ t.turn_total = s.turn_total
        /\ t.roll_pending = TRUE /\ t.target_score = s.target_score
    BY <1>2
  <2>3. t \in [scores : [VALID_SEATS -> Nat], current_seat : VALID_SEATS, turn_total : Nat,
               roll_pending : BOOLEAN, target_score : {c.target_score}]
    BY <1>2
  <2> HIDE DEF t
  <2>4. PigWinners(t) = {}
    BY <1>3, <2>2 DEF PigWinners
  <2>5. PigState(t)
    BY <1>2, <2>2, <2>4 DEF PigState, VALID_SEATS
  <2>6. PigResult(t) = NoResult
    BY <1>1, <1>2, <2>2, <2>4, PigResultIs
  <2> QED BY <2>1, <2>3, <2>5, <2>6 DEF PigStates
<1>5. CASE a.choice # "roll"
  <2> DEFINE score == s.scores[seat] + s.turn_total
             won == score >= s.target_score
             t == [s EXCEPT !.scores[seat] = score, !.turn_total = 0,
                            !.current_seat = IF won THEN @ ELSE Other(seat)]
  <2>1. PigApply(s, seat, a).state = t /\ PigApply(s, seat, a).result = PigResult(t)
    BY <1>5 DEF PigApply, Transition
  <2>2. score \in Nat /\ won \in BOOLEAN /\ Other(seat) \in VALID_SEATS
    BY <1>1, <1>2 DEF Other, VALID_SEATS
  <2> HIDE DEF score, won
  <2>3. /\ t.scores = [s.scores EXCEPT ![seat] = score] /\ t.turn_total = 0
        /\ t.current_seat = IF won THEN seat ELSE Other(seat)
        /\ t.roll_pending = s.roll_pending /\ t.target_score = s.target_score
    BY <1>2, <1>3
  <2>4. t \in [scores : [VALID_SEATS -> Nat], current_seat : VALID_SEATS, turn_total : Nat,
               roll_pending : BOOLEAN, target_score : {c.target_score}]
    BY <1>2, <2>2
  <2> HIDE DEF t
  <2>5. PigWinners(t) = IF won THEN {seat} ELSE {}
    BY <1>1, <1>2, <1>3, <2>2, <2>3 DEF PigWinners, won
  <2>6. PigState(t)
    BY <1>1, <1>2, <1>3, <2>2, <2>3, <2>4, <2>5 DEF PigState, VALID_SEATS
  <2> QED BY <2>1, <2>4, <2>6 DEF PigStates
<1> QED BY <1>4, <1>5

\* A die that falls leaves the chance node.
LEMMA PigRolls ==
  ASSUME NEW c \in PigConfigs, NEW s \in PigStates(c), PigChance(s), NEW o \in PigOutcomes
  PROVE  /\ PigOutcomeValid(s, o)
         /\ PigApplyChance(s, o).state \in PigStates(c)
         /\ PigApplyChance(s, o).result = PigResult(PigApplyChance(s, o).state)
         /\ ~PigChance(PigApplyChance(s, o).state)
<1>1. c.target_score \in 1..MAX_TARGET_SCORE /\ MAX_TARGET_SCORE \in Nat
  BY DEF PigConfigs, MAX_TARGET_SCORE
<1>2. /\ s.scores \in [VALID_SEATS -> Nat] /\ s.turn_total \in Nat /\ s.current_seat \in VALID_SEATS
      /\ s.roll_pending \in BOOLEAN /\ s.target_score = c.target_score /\ PigState(s)
      /\ s = [scores |-> s.scores, current_seat |-> s.current_seat, turn_total |-> s.turn_total,
              roll_pending |-> s.roll_pending, target_score |-> s.target_score]
  BY DEF PigStates
<1>3. PigWinners(s) = {}
  BY <1>1, <1>2, PigResultIs DEF PigChance
<1> DEFINE bust == o.face = BUST_FACE
           t == [s EXCEPT !.roll_pending = FALSE,
                          !.turn_total = IF bust THEN 0 ELSE @ + o.face,
                          !.current_seat = IF bust THEN Other(@) ELSE @]
<1>4. PigApplyChance(s, o).state = t /\ PigApplyChance(s, o).result = NoResult
  BY DEF PigApplyChance, Transition
<1>5. o.face \in Nat /\ Other(s.current_seat) \in VALID_SEATS
  BY <1>2 DEF PigOutcomes, DIE_FACES, Other, VALID_SEATS
<1>6. /\ t.scores = s.scores /\ t.turn_total \in Nat /\ t.current_seat \in VALID_SEATS
      /\ t.roll_pending = FALSE /\ t.roll_pending \in BOOLEAN /\ t.target_score = s.target_score
  BY <1>2, <1>5
<1>7. t \in [scores : [VALID_SEATS -> Nat], current_seat : VALID_SEATS, turn_total : Nat,
             roll_pending : BOOLEAN, target_score : {c.target_score}]
  <2>1. (IF bust THEN 0 ELSE s.turn_total + o.face) \in Nat
    BY <1>2, <1>5
  <2>2. (IF bust THEN Other(s.current_seat) ELSE s.current_seat) \in VALID_SEATS
    BY <1>2, <1>5
  <2> HIDE DEF bust
  <2> QED BY <1>2, <2>1, <2>2
<1> HIDE DEF t
<1>8. PigWinners(t) = {}
  BY <1>3, <1>6 DEF PigWinners
<1>9. PigState(t)
  <2>1. DOMAIN t.scores = VALID_SEATS /\ \A seat \in VALID_SEATS : t.scores[seat] >= 0
    BY <1>2, <1>6
  <2>2. t.current_seat \in VALID_SEATS /\ t.turn_total >= 0 /\ t.roll_pending \in BOOLEAN
    BY <1>6
  <2>3. PigWinners(t) # VALID_SEATS /\ t.target_score \in 1..MAX_TARGET_SCORE
    BY <1>1, <1>2, <1>6, <1>8 DEF VALID_SEATS
  <2> QED BY <1>8, <2>1, <2>2, <2>3 DEF PigState
<1>10. PigResult(t) = NoResult
  BY <1>1, <1>2, <1>6, <1>8, PigResultIs
<1> QED BY <1>4, <1>6, <1>7, <1>9, <1>10 DEF PigStates, PigChance, PigOutcomeValid

----------------------------------------------------------------------------
(* Rock-Paper-Scissors *)

Rounds == [throws : [VALID_SEATS -> SHAPES], winner : {NoSeat, 0, 1}]

RpsStates(c) ==
  {s \in [wins : [VALID_SEATS -> Nat], rounds_played : Nat, target_wins : {c.target_wins},
          max_rounds : {c.max_rounds}, last_round : Seq(Rounds)] : RpsState(s)}

\* A match begins with no round played.
LEMMA RpsStarts ==
  ASSUME NEW c \in RpsConfigs
  PROVE  RpsInitial(c) \in RpsStates(c) /\ ~RpsTerminal(RpsInitial(c))
<1>1. /\ c.target_wins \in 1..MAX_TARGET_WINS /\ MAX_TARGET_WINS \in Nat
      /\ c.max_rounds \in 1..MAX_ROUNDS_CAP /\ MAX_ROUNDS_CAP \in Nat
  BY DEF RpsConfigs, MAX_TARGET_WINS, MAX_ROUNDS_CAP
<1> DEFINE s == RpsInitial(c)
<1>2. /\ s.wins = [seat \in VALID_SEATS |-> 0] /\ s.rounds_played = 0 /\ s.last_round = <<>>
      /\ s.target_wins = c.target_wins /\ s.max_rounds = c.max_rounds
  BY DEF RpsInitial
<1>3. s \in [wins : [VALID_SEATS -> Nat], rounds_played : Nat, target_wins : {c.target_wins},
             max_rounds : {c.max_rounds}, last_round : Seq(Rounds)]
  BY DEF RpsInitial
<1> HIDE DEF s
<1>4. ~RpsTerminal(s)
  BY <1>1, <1>2 DEF RpsTerminal, VALID_SEATS
<1>5. RpsState(s)
  BY <1>1, <1>2 DEF RpsState, VALID_SEATS
<1> QED BY <1>3, <1>4, <1>5 DEF s, RpsStates

\* What is listed is what is valid.
LEMMA RpsAgrees ==
  ASSUME NEW c \in RpsConfigs, NEW s \in RpsStates(c), NEW seat \in VALID_SEATS
  PROVE  RpsState(s) /\ RpsLegal(s, seat) = {a \in RpsActions : RpsValid(s, seat, a)}
  BY DEF RpsStates, RpsLegal, RpsValid

\* The result is a result exactly when the match is over.
LEMMA RpsOver ==
  ASSUME NEW s PROVE RpsResult(s) # NoResult <=> RpsTerminal(s)
  BY DEF RpsResult, NoResult, Win, Draw

\* A round leaves a state of the game, and announces its result.
LEMMA RpsMoves ==
  ASSUME NEW c \in RpsConfigs, NEW s \in RpsStates(c), ~RpsTerminal(s),
         NEW actions \in [VALID_SEATS -> RpsActions]
  PROVE  /\ RpsApplyJoint(s, actions).state \in RpsStates(c)
         /\ RpsApplyJoint(s, actions).result = RpsResult(RpsApplyJoint(s, actions).state)
<1>1. /\ c.target_wins \in 1..MAX_TARGET_WINS /\ MAX_TARGET_WINS \in Nat
      /\ c.max_rounds \in 1..MAX_ROUNDS_CAP /\ MAX_ROUNDS_CAP \in Nat
  BY DEF RpsConfigs, MAX_TARGET_WINS, MAX_ROUNDS_CAP
<1>2. /\ s.wins \in [VALID_SEATS -> Nat] /\ s.rounds_played \in Nat /\ RpsState(s)
      /\ s.target_wins = c.target_wins /\ s.max_rounds = c.max_rounds
      /\ s = [wins |-> s.wins, rounds_played |-> s.rounds_played, target_wins |-> s.target_wins,
              max_rounds |-> s.max_rounds, last_round |-> s.last_round]
  BY DEF RpsStates
<1> DEFINE throws == [seat \in VALID_SEATS |-> actions[seat].shape]
           winner == RoundWinner(throws)
           wins == [seat \in VALID_SEATS |-> s.wins[seat] + (IF seat = winner THEN 1 ELSE 0)]
           last == <<[throws |-> throws, winner |-> winner]>>
           t == [s EXCEPT !.wins = wins, !.rounds_played = @ + 1, !.last_round = last]
<1>3. RpsApplyJoint(s, actions).state = t /\ RpsApplyJoint(s, actions).result = RpsResult(t)
  BY DEF RpsApplyJoint, Transition
<1>4. throws \in [VALID_SEATS -> SHAPES]
  BY DEF RpsActions
<1>5. winner \in {NoSeat, 0, 1}
  BY DEF RoundWinner
<1> HIDE DEF throws, winner
<1>6. [throws |-> throws, winner |-> winner] \in Rounds
  BY <1>4, <1>5 DEF Rounds
<1>7. last \in Seq(Rounds) /\ last # <<>> /\ DOMAIN last = {1}
      /\ last[1] = [throws |-> throws, winner |-> winner]
  BY <1>6
<1>8. wins \in [VALID_SEATS -> Nat]
  BY <1>2
<1>9. /\ t.wins = wins /\ t.rounds_played = s.rounds_played + 1 /\ t.last_round = last
      /\ t.target_wins = c.target_wins /\ t.max_rounds = c.max_rounds
  <2> HIDE DEF last, wins
  <2> QED BY <1>2
<1>10. t \in [wins : [VALID_SEATS -> Nat], rounds_played : Nat, target_wins : {c.target_wins},
              max_rounds : {c.max_rounds}, last_round : Seq(Rounds)]
  <2> HIDE DEF last, wins
  <2>1. s.rounds_played + 1 \in Nat
    BY <1>2
  <2>2. s \in [wins : [VALID_SEATS -> Nat], rounds_played : Nat, target_wins : {c.target_wins},
               max_rounds : {c.max_rounds}, last_round : Seq(Rounds)]
    BY DEF RpsStates
  <2> QED BY <1>7, <1>8, <2>1, <2>2
<1> HIDE DEF last
<1>11. \A seat \in VALID_SEATS : s.wins[seat] < c.target_wins
  BY <1>1, <1>2 DEF RpsTerminal, VALID_SEATS
<1>12. s.rounds_played < c.max_rounds
  BY <1>1, <1>2 DEF RpsTerminal
<1>13. s.wins[0] \in Nat /\ s.wins[1] \in Nat /\ s.wins[0] + s.wins[1] <= s.rounds_played
  BY <1>2 DEF RpsState, VALID_SEATS
<1>14. /\ wins[0] = s.wins[0] + (IF 0 = winner THEN 1 ELSE 0)
       /\ wins[1] = s.wins[1] + (IF 1 = winner THEN 1 ELSE 0)
  BY DEF VALID_SEATS
<1> HIDE DEF t, wins
<1>15. RpsState(t)
  <2>2. /\ t.target_wins \in 1..MAX_TARGET_WINS /\ t.max_rounds \in 1..MAX_ROUNDS_CAP
        /\ DOMAIN t.wins = VALID_SEATS /\ t.rounds_played \in 0..t.max_rounds
        /\ t.rounds_played # 0 /\ t.last_round # <<>>
    BY <1>1, <1>2, <1>7, <1>8, <1>9, <1>12
  <2>3. /\ wins[0] \in 0..c.target_wins /\ wins[1] \in 0..c.target_wins
        /\ wins[0] = c.target_wins => winner = 0
        /\ wins[1] = c.target_wins => winner = 1
        /\ wins[0] + wins[1] <= s.rounds_played + 1
        /\ winner = 0 => wins[0] >= 1
        /\ winner = 1 => wins[1] >= 1
    <3>1. s.wins[0] < c.target_wins /\ s.wins[1] < c.target_wins
      BY <1>11 DEF VALID_SEATS
    <3>2. s.rounds_played \in Nat /\ c.target_wins \in Nat
      BY <1>1, <1>2
    <3> QED BY <3>1, <3>2, <1>13, <1>14
  <2>4. RpsRound(last[1])
    BY <1>4, <1>7 DEF RpsRound, winner
  <2> QED BY <1>7, <1>9, <2>2, <2>3, <2>4 DEF RpsState, VALID_SEATS
<1> QED BY <1>3, <1>10, <1>15 DEF RpsStates

----------------------------------------------------------------------------
(* Liar's Dice *)

Showdowns ==
  [caller : VALID_SEATS, bid : Bids(Nat, Nat), dice : [VALID_SEATS -> Seq(Nat)], count : Nat,
   loser : VALID_SEATS]

LiarsDiceFields(c) ==
  [dice : {NoDice} \cup [VALID_SEATS -> Seq(Nat)],
   dice_counts : [VALID_SEATS -> 0..c.dice_per_seat], bids : Seq(Bids(Nat, Nat)),
   current_seat : VALID_SEATS, round_number : Nat, faces : {c.faces},
   last_showdown : Seq(Showdowns)]

LiarsDiceStates(c) == {s \in LiarsDiceFields(c) : LiarsDiceState(s)}

\* The numbers a config of Liar's Dice holds.
LEMMA LiarsDiceConfigTypes ==
  ASSUME NEW c \in LiarsDiceConfigs
  PROVE  /\ c.dice_per_seat \in Nat /\ c.dice_per_seat >= 1
         /\ c.dice_per_seat <= MAX_DICE_PER_SEAT /\ MAX_DICE_PER_SEAT \in Nat
         /\ c.faces \in FaceCounts /\ c.faces \in Nat
  BY DEF LiarsDiceConfigs, MAX_DICE_PER_SEAT, FaceCounts

\* The fields of a state, one by one.
LEMMA LiarsDiceTypes ==
  ASSUME NEW c \in LiarsDiceConfigs, NEW s \in LiarsDiceFields(c)
  PROVE  /\ s.dice = NoDice \/ s.dice \in [VALID_SEATS -> Seq(Nat)]
         /\ s.dice_counts \in [VALID_SEATS -> 0..c.dice_per_seat]
         /\ s.dice_counts[0] \in 0..c.dice_per_seat /\ s.dice_counts[1] \in 0..c.dice_per_seat
         /\ s.dice_counts[0] \in Nat /\ s.dice_counts[1] \in Nat
         /\ s.bids \in Seq(Bids(Nat, Nat)) /\ s.current_seat \in VALID_SEATS
         /\ s.round_number \in Nat /\ s.faces = c.faces /\ s.faces \in Nat
         /\ s.last_showdown \in Seq(Showdowns)
         /\ Total(s) \in Nat /\ Total(s) <= 2 * c.dice_per_seat
<1>1. /\ c.dice_per_seat \in Nat /\ c.faces \in Nat
  BY LiarsDiceConfigTypes
<1>2. s.dice_counts \in [VALID_SEATS -> 0..c.dice_per_seat]
  BY DEF LiarsDiceFields
<1>3. s.dice_counts[0] \in 0..c.dice_per_seat /\ s.dice_counts[1] \in 0..c.dice_per_seat
  BY <1>2 DEF VALID_SEATS
<1>4. s.faces = c.faces
  BY DEF LiarsDiceFields
<1>5. s.dice = NoDice \/ s.dice \in [VALID_SEATS -> Seq(Nat)]
  BY DEF LiarsDiceFields
<1>6. /\ s.bids \in Seq(Bids(Nat, Nat)) /\ s.current_seat \in VALID_SEATS
      /\ s.round_number \in Nat /\ s.last_showdown \in Seq(Showdowns)
  BY DEF LiarsDiceFields
<1>7. Total(s) \in Nat /\ Total(s) <= 2 * c.dice_per_seat
      /\ s.dice_counts[0] \in Nat /\ s.dice_counts[1] \in Nat
  BY <1>1, <1>3 DEF Total
<1> QED BY <1>1, <1>2, <1>3, <1>4, <1>5, <1>6, <1>7

\* Somebody has lost every die, or the match goes on.
LEMMA LiarsDiceOver ==
  ASSUME NEW s
  PROVE  /\ LiarsDiceTerminal(s) <=> s.dice_counts[0] = 0 \/ s.dice_counts[1] = 0
         /\ LiarsDiceResult(s) = NoResult <=> ~LiarsDiceTerminal(s)
  BY DEF LiarsDiceTerminal, LiarsDiceResult, Win, NoResult

\* A match begins with a roll pending.
LEMMA LiarsDiceStarts ==
  ASSUME NEW c \in LiarsDiceConfigs
  PROVE  /\ LiarsDiceInitial(c) \in LiarsDiceStates(c)
         /\ LiarsDiceChance(LiarsDiceInitial(c))
<1> DEFINE s == LiarsDiceInitial(c)
<1>1. /\ c.dice_per_seat \in Nat /\ c.dice_per_seat >= 1
      /\ c.dice_per_seat <= MAX_DICE_PER_SEAT /\ MAX_DICE_PER_SEAT \in Nat
      /\ c.faces \in FaceCounts /\ c.faces \in Nat
  BY LiarsDiceConfigTypes
<1>2. /\ s.dice = NoDice /\ s.dice_counts = [seat \in VALID_SEATS |-> c.dice_per_seat]
      /\ s.bids = <<>> /\ s.current_seat = 0 /\ s.round_number = 0 /\ s.faces = c.faces
      /\ s.last_showdown = <<>>
  BY DEF LiarsDiceInitial
<1>3. s \in LiarsDiceFields(c)
  <2>1. [seat \in VALID_SEATS |-> c.dice_per_seat] \in [VALID_SEATS -> 0..c.dice_per_seat]
    BY <1>1
  <2> QED BY <2>1 DEF LiarsDiceInitial, LiarsDiceFields, VALID_SEATS
<1> HIDE DEF s
<1>4. s.dice_counts[0] = c.dice_per_seat /\ s.dice_counts[1] = c.dice_per_seat
  BY <1>2 DEF VALID_SEATS
<1>5. ~LiarsDiceTerminal(s)
  BY <1>1, <1>4, LiarsDiceOver
<1>6. Total(s) > 0
  BY <1>1, <1>4 DEF Total
<1>7. LiarsDiceState(s)
  <2>1. \A seat \in VALID_SEATS : s.dice_counts[seat] \in 0..MAX_DICE_PER_SEAT
    BY <1>1, <1>4 DEF VALID_SEATS
  <2> QED BY <1>1, <1>2, <1>5, <1>6, <2>1 DEF LiarsDiceState, VALID_SEATS
<1> QED BY <1>2, <1>3, <1>5, <1>7 DEF s, LiarsDiceStates, LiarsDiceChance

\* What is listed is what is valid.
LEMMA LiarsDiceAgrees ==
  ASSUME NEW c \in LiarsDiceConfigs, NEW s \in LiarsDiceStates(c), NEW seat \in VALID_SEATS
  PROVE  /\ LiarsDiceState(s)
         /\ LiarsDiceLegal(s, seat) = {a \in LiarsDiceActions(c) : LiarsDiceValid(s, seat, a)}
<1>1. s \in LiarsDiceFields(c) /\ LiarsDiceState(s)
  BY DEF LiarsDiceStates
<1>2. /\ Total(s) \in Nat /\ Total(s) <= 2 * c.dice_per_seat /\ s.faces = c.faces
  BY <1>1, LiarsDiceTypes
<1>3. c.faces \in Nat /\ c.dice_per_seat \in Nat
  BY LiarsDiceConfigTypes
<1>4. Bids(1..Total(s), 1..s.faces) \subseteq Bids(1..(2 * c.dice_per_seat + 1), 1..(c.faces + 1))
  <2>1. 1..Total(s) \subseteq 1..(2 * c.dice_per_seat + 1) /\ 1..s.faces \subseteq 1..(c.faces + 1)
    BY <1>2, <1>3
  <2> QED BY <2>1 DEF Bids
<1>5. ASSUME NEW a \in LiarsDiceLegal(s, seat)
      PROVE  a \in LiarsDiceActions(c) /\ LiarsDiceValid(s, seat, a)
  <2>1. ~LiarsDiceTerminal(s) /\ ~LiarsDiceChance(s) /\ seat = s.current_seat
    BY <1>5 DEF LiarsDiceLegal
  <2>2. CASE a \in Bids(1..Total(s), 1..s.faces) /\ (s.bids # <<>> => Outranks(a, Standing(s)))
    BY <1>4, <2>1, <2>2 DEF LiarsDiceActions, LiarsDiceValid, Bids
  <2>3. CASE a = Call /\ s.bids # <<>>
    BY <2>1, <2>3 DEF LiarsDiceActions, LiarsDiceValid, Call
  <2> QED BY <1>5, <2>1, <2>2, <2>3 DEF LiarsDiceLegal
<1>6. ASSUME NEW a \in LiarsDiceActions(c), LiarsDiceValid(s, seat, a)
      PROVE  a \in LiarsDiceLegal(s, seat)
  <2>1. ~LiarsDiceTerminal(s) /\ ~LiarsDiceChance(s) /\ seat = s.current_seat
    BY <1>6 DEF LiarsDiceValid
  <2>2. CASE a.type = "call" /\ s.bids # <<>>
    <3>1. a = Call
      BY <2>2 DEF LiarsDiceActions, Call, Bids
    <3> QED BY <2>1, <2>2, <3>1 DEF LiarsDiceLegal
  <2>3. CASE a.type = "bid" /\ a.quantity \in 1..Total(s) /\ a.face \in 1..s.faces
             /\ (s.bids # <<>> => Outranks(a, Standing(s)))
    <3>1. a = [type |-> "bid", quantity |-> a.quantity, face |-> a.face]
      BY <2>3 DEF LiarsDiceActions, Call, Bids
    <3>2. a \in Bids(1..Total(s), 1..s.faces)
      BY <2>3, <3>1 DEF Bids
    <3> QED BY <2>1, <2>3, <3>2 DEF LiarsDiceLegal
  <2> QED BY <1>6, <2>2, <2>3 DEF LiarsDiceValid
<1> QED BY <1>1, <1>5, <1>6

\* The number of dice that show a face is a number.
LEMMA ShowingIsNat ==
  ASSUME NEW dice, NEW face
  PROVE  Showing(dice, face) \in Nat
<1> DEFINE cells == VALID_SEATS \X (1..MAX_DICE_PER_SEAT)
           shown == {p \in cells : p[2] \in DOMAIN dice[p[1]] /\ dice[p[1]][p[2]] = face}
<1>1. IsFiniteSet(VALID_SEATS) /\ IsFiniteSet(1..MAX_DICE_PER_SEAT)
  <2>1. VALID_SEATS = 0..1 /\ MAX_DICE_PER_SEAT = 6
    BY DEF VALID_SEATS, MAX_DICE_PER_SEAT
  <2>2. \A i, j \in Int : IsFiniteSet(i..j)
    BY FS_Interval
  <2>3. 0 \in Int /\ 1 \in Int /\ 6 \in Int
    OBVIOUS
  <2>4. VALID_SEATS = 0..1
    BY <2>1
  <2> QED BY <2>1, <2>2, <2>3, <2>4
<1>2. IsFiniteSet(cells)
  BY <1>1, FS_Product
<1>3. IsFiniteSet(shown)
  BY <1>2, FS_Subset
<1>4. Cardinality(shown) \in Nat
  BY <1>3, FS_CardinalityType
<1> QED BY <1>4 DEF Showing

\* A bid leaves a state of the game, in the same round and with the same dice.
LEMMA LiarsDiceBids ==
  ASSUME NEW c \in LiarsDiceConfigs, NEW s \in LiarsDiceStates(c), NEW seat \in VALID_SEATS,
         NEW a \in LiarsDiceActions(c), LiarsDiceValid(s, seat, a), a.type = "bid",
         NEW t, t = LiarsDiceApply(s, seat, a)
  PROVE  /\ t.state \in LiarsDiceStates(c)
         /\ t.result = LiarsDiceResult(t.state)
         /\ t.state.dice = s.dice /\ t.state.dice # NoDice
         /\ t.state.round_number = s.round_number
<1> DEFINE n == [s EXCEPT !.bids = Append(@, a), !.current_seat = Other(seat)]
<1>1. t.state = n /\ t.result = NoResult
  BY DEF LiarsDiceApply, MakeBid, Transition
<1>2. s \in LiarsDiceFields(c) /\ LiarsDiceState(s)
  BY DEF LiarsDiceStates
<1>3. /\ ~LiarsDiceTerminal(s) /\ s.dice # NoDice
      /\ a.quantity \in 1..Total(s) /\ a.face \in 1..s.faces
      /\ s.bids # <<>> => Outranks(a, Standing(s))
  BY DEF LiarsDiceValid, LiarsDiceChance
<1>4. /\ s.bids \in Seq(Bids(Nat, Nat)) /\ Total(s) \in Nat /\ s.faces \in Nat
  BY <1>2, LiarsDiceTypes
<1>5. a \in Bids(Nat, Nat)
  <2>1. a.quantity \in Nat /\ a.face \in Nat
    BY <1>3, <1>4
  <2>2. a = [type |-> "bid", quantity |-> a.quantity, face |-> a.face]
    BY DEF LiarsDiceActions, Call, Bids
  <2> QED BY <2>1, <2>2 DEF Bids
<1> DEFINE bids == Append(s.bids, a)
<1>6. bids \in Seq(Bids(Nat, Nat)) /\ DOMAIN bids = 1..(Len(s.bids) + 1) /\ Len(s.bids) \in Nat
      /\ DOMAIN s.bids = 1..Len(s.bids)
      /\ bids[Len(s.bids) + 1] = a /\ \A i \in 1..Len(s.bids) : bids[i] = s.bids[i]
  BY <1>4, <1>5
<1>7. Other(seat) \in VALID_SEATS
  BY DEF Other, VALID_SEATS
<1>8. /\ n.dice = s.dice /\ n.dice_counts = s.dice_counts /\ n.bids = bids
      /\ n.current_seat = Other(seat) /\ n.round_number = s.round_number /\ n.faces = s.faces
      /\ n.last_showdown = s.last_showdown
  <2> HIDE DEF bids
  <2> QED BY <1>2 DEF LiarsDiceFields, bids
<1>9. n \in LiarsDiceFields(c)
  BY <1>2, <1>6, <1>7 DEF LiarsDiceFields
<1> HIDE DEF n, bids
<1>10. ~LiarsDiceTerminal(n) /\ LiarsDiceResult(n) = NoResult /\ Total(n) = Total(s)
  BY <1>3, <1>8, LiarsDiceOver DEF Total
<1>11. ASSUME NEW i \in DOMAIN n.bids
       PROVE  /\ n.bids[i].quantity <= Total(n) /\ n.bids[i].face <= n.faces
              /\ i > 1 => Outranks(n.bids[i], n.bids[i - 1])
  <2>1. i \in 1..(Len(s.bids) + 1)
    BY <1>6, <1>8
  <2>2. CASE i = Len(s.bids) + 1
    <3>1. n.bids[i] = a
      BY <1>6, <1>8, <2>2
    <3>2. a.quantity <= Total(n) /\ a.face <= n.faces
      BY <1>3, <1>4, <1>8, <1>10
    <3>3. i > 1 => n.bids[i - 1] = Standing(s) /\ s.bids # <<>>
      BY <1>4, <1>6, <1>8, <2>2 DEF Standing
    <3> QED BY <1>3, <3>1, <3>2, <3>3
  <2>3. CASE i # Len(s.bids) + 1
    <3>1. i \in 1..Len(s.bids) /\ i \in DOMAIN s.bids
      BY <1>6, <2>1, <2>3
    <3>2. n.bids[i] = s.bids[i]
      BY <1>6, <1>8, <3>1
    <3>3. i > 1 => i - 1 \in 1..Len(s.bids)
      BY <1>6, <3>1
    <3>4. i > 1 => n.bids[i - 1] = s.bids[i - 1]
      BY <1>6, <1>8, <3>3
    <3>5. /\ s.bids[i].quantity <= Total(s) /\ s.bids[i].face <= s.faces
          /\ i > 1 => Outranks(s.bids[i], s.bids[i - 1])
      BY <1>2, <3>1 DEF LiarsDiceState
    <3> QED BY <1>8, <1>10, <3>2, <3>4, <3>5
  <2> QED BY <2>2, <2>3
<1>12. LiarsDiceState(n)
  <2>1. /\ n.faces \in FaceCounts /\ n.round_number >= 0 /\ n.current_seat \in VALID_SEATS
        /\ \A k \in VALID_SEATS : n.dice_counts[k] \in 0..MAX_DICE_PER_SEAT
        /\ Total(n) > 0
        /\ n.dice # NoDice
        /\ n.round_number >= 1
        /\ Dealt(n.dice, [k \in VALID_SEATS |-> {n.dice_counts[k]}], n.faces)
    BY <1>2, <1>3, <1>7, <1>8, <1>10 DEF LiarsDiceState
  <2>2. /\ n.round_number = 0 => n.last_showdown = <<>>
        /\ \A i \in DOMAIN n.last_showdown :
              LET d == n.last_showdown[i]
              IN /\ ShowdownState(d)
                 /\ d.bid.face <= n.faces
                 /\ Dealt(d.dice, [k \in VALID_SEATS |-> 1..MAX_DICE_PER_SEAT], n.faces)
    BY <1>2, <1>8 DEF LiarsDiceState
  <2> QED BY <1>10, <1>11, <2>1, <2>2 DEF LiarsDiceState
<1> QED BY <1>1, <1>3, <1>8, <1>9, <1>10, <1>12 DEF LiarsDiceStates

\* A call leaves a state of the game, with the round's dice revealed and gone.
LEMMA LiarsDiceCalls ==
  ASSUME NEW c \in LiarsDiceConfigs, NEW s \in LiarsDiceStates(c), NEW seat \in VALID_SEATS,
         NEW a \in LiarsDiceActions(c), LiarsDiceValid(s, seat, a), a.type # "bid",
         NEW t, t = LiarsDiceApply(s, seat, a)
  PROVE  /\ t.state \in LiarsDiceStates(c)
         /\ t.result = LiarsDiceResult(t.state)
         /\ s.dice # NoDice /\ t.state.dice = NoDice
         /\ t.state.round_number = s.round_number
<1> DEFINE bid   == Standing(s)
           count == Showing(s.dice, bid.face)
           loser == IF count >= bid.quantity THEN seat ELSE Other(seat)
           left  == s.dice_counts[loser] - 1
           down  == [caller |-> seat, bid |-> bid, dice |-> s.dice, count |-> count,
                     loser |-> loser]
           next  == IF left > 0 THEN loser ELSE Other(loser)
           n == [s EXCEPT !.dice = NoDice, !.dice_counts[loser] = left, !.bids = <<>>,
                          !.current_seat = next, !.last_showdown = <<down>>]
<1>1. t.state = n /\ t.result = LiarsDiceResult(n)
  BY DEF LiarsDiceApply, CallBid, Transition
<1>2. s \in LiarsDiceFields(c) /\ LiarsDiceState(s)
  BY DEF LiarsDiceStates
<1>3. ~LiarsDiceTerminal(s) /\ s.dice # NoDice /\ s.bids # <<>>
  BY DEF LiarsDiceValid, LiarsDiceChance
<1>4. /\ s.bids \in Seq(Bids(Nat, Nat)) /\ s.dice \in [VALID_SEATS -> Seq(Nat)]
      /\ s.dice_counts \in [VALID_SEATS -> 0..c.dice_per_seat] /\ s.faces \in Nat
      /\ s.dice_counts[0] \in 0..c.dice_per_seat /\ s.dice_counts[1] \in 0..c.dice_per_seat
      /\ s.dice_counts[0] \in Nat /\ s.dice_counts[1] \in Nat
      /\ s.round_number \in Nat /\ s.faces \in Nat
  BY <1>2, <1>3, LiarsDiceTypes
<1>5. c.dice_per_seat \in Nat /\ MAX_DICE_PER_SEAT \in Nat /\ c.dice_per_seat <= MAX_DICE_PER_SEAT
  BY LiarsDiceConfigTypes
<1>6. s.dice_counts[0] >= 1 /\ s.dice_counts[1] >= 1
  BY <1>3, <1>4, LiarsDiceOver
<1>7. Len(s.bids) \in DOMAIN s.bids /\ bid \in Bids(Nat, Nat) /\ bid.face <= s.faces
  <2>1. Len(s.bids) \in DOMAIN s.bids
    BY <1>3, <1>4
  <2> QED BY <1>2, <1>4, <2>1 DEF LiarsDiceState, Standing
<1>8. count \in Nat
  BY ShowingIsNat
<1>9. loser \in VALID_SEATS /\ Other(loser) \in VALID_SEATS /\ next \in VALID_SEATS
      /\ \/ loser = 0 /\ Other(loser) = 1
         \/ loser = 1 /\ Other(loser) = 0
  <2> HIDE DEF bid, count
  <2>1. seat = 0 \/ seat = 1
    BY DEF VALID_SEATS
  <2>2. loser = 0 \/ loser = 1
    BY <2>1 DEF Other
  <2> HIDE DEF loser, left
  <2>3. \/ loser = 0 /\ Other(loser) = 1
        \/ loser = 1 /\ Other(loser) = 0
    BY <2>2, TheOtherSeat DEF VALID_SEATS
  <2>4. next = loser \/ next = Other(loser)
    OBVIOUS
  <2> QED BY <2>3, <2>4 DEF VALID_SEATS
<1>10. down \in Showdowns /\ ShowdownState(down)
  <2>1. down \in Showdowns
    <3> HIDE DEF bid, count, loser
    <3> QED BY <1>4, <1>7, <1>8, <1>9 DEF Showdowns
  <2>2. ShowdownState(down)
    <3>1. {seat, loser} \subseteq VALID_SEATS
      BY <1>9
    <3> QED BY <3>1 DEF ShowdownState
  <2> QED BY <2>1, <2>2
<1> HIDE DEF loser, next
<1>11. left \in 0..c.dice_per_seat
  BY <1>4, <1>5, <1>6, <1>9
<1>12. Dealt(s.dice, [k \in VALID_SEATS |-> 1..MAX_DICE_PER_SEAT], s.faces)
  <2>1. Dealt(s.dice, [k \in VALID_SEATS |-> {s.dice_counts[k]}], s.faces)
    BY <1>2, <1>3 DEF LiarsDiceState
  <2>2. \A k \in VALID_SEATS : s.dice_counts[k] \in 1..MAX_DICE_PER_SEAT
    BY <1>4, <1>5, <1>6 DEF VALID_SEATS
  <2> QED BY <2>1, <2>2 DEF Dealt
<1>13. down.bid = bid /\ down.dice = s.dice
  OBVIOUS
<1> HIDE DEF down, left
<1> DEFINE counts == [s.dice_counts EXCEPT ![loser] = left]
<1>14. <<down>> \in Seq(Showdowns) /\ DOMAIN <<down>> = {1} /\ <<down>>[1] = down
  BY <1>10
<1>15. counts \in [VALID_SEATS -> 0..c.dice_per_seat]
       /\ counts[loser] = left /\ counts[Other(loser)] = s.dice_counts[Other(loser)]
  BY <1>4, <1>9, <1>11
<1>16. /\ n.dice = NoDice /\ n.dice_counts = counts /\ n.bids = <<>>
       /\ n.current_seat = next /\ n.round_number = s.round_number /\ n.faces = s.faces
       /\ n.last_showdown = <<down>>
  BY <1>2 DEF LiarsDiceFields
<1>17. n \in LiarsDiceFields(c)
  <2>1. <<>> \in Seq(Bids(Nat, Nat))
    OBVIOUS
  <2>2. NoDice \in {NoDice} \cup [VALID_SEATS -> Seq(Nat)]
    OBVIOUS
  <2> QED BY <1>2, <1>9, <1>14, <1>15, <2>1, <2>2 DEF LiarsDiceFields
<1> HIDE DEF n, counts
<1>18. /\ LiarsDiceTerminal(n) <=> left = 0
       /\ left = 0 => LiarsDiceResult(n).seat = next
       /\ Total(n) > 0
  <2>1. /\ n.dice_counts[0] \in Nat /\ n.dice_counts[1] \in Nat
        /\ n.dice_counts[loser] = left /\ n.dice_counts[Other(loser)] >= 1
    BY <1>5, <1>6, <1>9, <1>11, <1>15, <1>16 DEF VALID_SEATS
  <2>2. left \in Nat
    BY <1>5, <1>11
  <2>3. LiarsDiceTerminal(n) <=> left = 0
    BY <1>9, <2>1, LiarsDiceOver
  <2>4. left = 0 => LiarsDiceResult(n).seat = next
    BY <1>9, <2>1 DEF LiarsDiceResult, Win, next
  <2>5. Total(n) > 0
    BY <1>9, <2>1, <2>2 DEF Total
  <2> QED BY <2>3, <2>4, <2>5
<1>19. LiarsDiceState(n)
  <2>1. /\ n.faces \in FaceCounts /\ n.round_number >= 0 /\ n.current_seat \in VALID_SEATS
        /\ n.dice = NoDice /\ n.round_number # 0
    BY <1>2, <1>3, <1>4, <1>9, <1>16 DEF LiarsDiceState
  <2>2. \A k \in VALID_SEATS : n.dice_counts[k] \in 0..MAX_DICE_PER_SEAT
    BY <1>5, <1>15, <1>16 DEF VALID_SEATS
  <2>3. LiarsDiceTerminal(n) => n.current_seat = LiarsDiceResult(n).seat
    BY <1>16, <1>18
  <2>4. n.bids = <<>> /\ DOMAIN n.bids = {}
    BY <1>16
  <2>5. ASSUME NEW i \in DOMAIN n.last_showdown
        PROVE  /\ ShowdownState(n.last_showdown[i])
               /\ n.last_showdown[i].bid.face <= n.faces
               /\ Dealt(n.last_showdown[i].dice, [k \in VALID_SEATS |-> 1..MAX_DICE_PER_SEAT],
                        n.faces)
    <3>1. n.last_showdown[i] = down
      BY <1>14, <1>16, <2>5
    <3> QED BY <1>7, <1>10, <1>12, <1>13, <1>16, <3>1
  <2> QED BY <1>18, <2>1, <2>2, <2>3, <2>4, <2>5 DEF LiarsDiceState
<1> QED BY <1>1, <1>3, <1>16, <1>17, <1>19 DEF LiarsDiceStates

\* A hand is a list of faces.
LEMMA HandIsSeq ==
  ASSUME NEW n \in Nat, NEW faces \in Nat, NEW h \in Hands(n, faces)
  PROVE  /\ h \in Seq(Nat) /\ Len(h) = n /\ DOMAIN h = 1..n
         /\ \A i \in DOMAIN h : h[i] \in 1..faces
<1>1. DOMAIN h = 1..n /\ \A i \in 1..n : h[i] \in 1..faces
  BY DEF Hands
<1>2. \A i \in 1..n : h[i] \in Nat
  BY <1>1
<1>3. h = [i \in 1..n |-> h[i]]
  BY DEF Hands
<1>4. h \in Seq(Nat)
  BY <1>2, <1>3
<1>5. Len(h) = n
  BY <1>1, <1>4
<1> QED BY <1>1, <1>4, <1>5

\* What a roll of the dice that are left is.
LEMMA LiarsDiceOutcomeIs ==
  ASSUME NEW c \in LiarsDiceConfigs, NEW s \in LiarsDiceStates(c),
         NEW o \in LiarsDiceOutcomes(s)
  PROVE  /\ o = [dice |-> o.dice]
         /\ o.dice \in [VALID_SEATS -> Seq(Nat)] /\ o.dice # NoDice
         /\ Dealt(o.dice, [seat \in VALID_SEATS |-> {s.dice_counts[seat]}], s.faces)
<1>1. PICK h \in Hands(s.dice_counts[0], s.faces), g \in Hands(s.dice_counts[1], s.faces) :
         o = [dice |-> [seat \in VALID_SEATS |-> IF seat = 0 THEN h ELSE g]]
  BY DEF LiarsDiceOutcomes
<1>2. /\ s.dice_counts[0] \in Nat /\ s.dice_counts[1] \in Nat /\ s.faces \in Nat
  BY LiarsDiceTypes DEF LiarsDiceStates
<1>3. /\ h \in Seq(Nat) /\ Len(h) = s.dice_counts[0] /\ \A i \in DOMAIN h : h[i] \in 1..s.faces
      /\ g \in Seq(Nat) /\ Len(g) = s.dice_counts[1] /\ \A i \in DOMAIN g : g[i] \in 1..s.faces
  BY <1>2, HandIsSeq
<1>4. /\ o.dice \in [VALID_SEATS -> Seq(Nat)]
      /\ o.dice[0] = h /\ o.dice[1] = g /\ o = [dice |-> o.dice]
  BY <1>1, <1>3 DEF VALID_SEATS
<1>5. o.dice # NoDice
  BY <1>4 DEF NoDice, VALID_SEATS
<1>6. DOMAIN o.dice = VALID_SEATS
  BY <1>4
<1>7. ASSUME NEW seat \in VALID_SEATS
      PROVE  /\ Len(o.dice[seat]) \in [k \in VALID_SEATS |-> {s.dice_counts[k]}][seat]
             /\ \A i \in DOMAIN o.dice[seat] : o.dice[seat][i] \in 1..s.faces
  <2>1. seat = 0 \/ seat = 1
    BY DEF VALID_SEATS
  <2> QED BY <1>3, <1>4, <2>1
<1> QED BY <1>4, <1>5, <1>6, <1>7 DEF Dealt

\* A roll leaves the chance node, for a new round.
LEMMA LiarsDiceRolls ==
  ASSUME NEW c \in LiarsDiceConfigs, NEW s \in LiarsDiceStates(c), LiarsDiceChance(s),
         NEW o \in LiarsDiceOutcomes(s), NEW t, t = LiarsDiceApplyChance(s, o)
  PROVE  /\ LiarsDiceOutcomeValid(s, o)
         /\ t.state \in LiarsDiceStates(c)
         /\ t.result = LiarsDiceResult(t.state)
         /\ ~LiarsDiceChance(t.state)
         /\ t.state.dice = o.dice /\ t.state.dice # NoDice
         /\ t.state.round_number = s.round_number + 1
<1> DEFINE n == [s EXCEPT !.dice = o.dice, !.bids = <<>>, !.round_number = @ + 1]
<1>1. t.state = n /\ t.result = NoResult
  BY DEF LiarsDiceApplyChance, Transition
<1>2. s \in LiarsDiceFields(c) /\ LiarsDiceState(s)
  BY DEF LiarsDiceStates
<1>3. /\ o.dice \in [VALID_SEATS -> Seq(Nat)] /\ o.dice # NoDice
      /\ Dealt(o.dice, [seat \in VALID_SEATS |-> {s.dice_counts[seat]}], s.faces)
  BY LiarsDiceOutcomeIs
<1>4. s.round_number \in Nat /\ s.round_number + 1 \in Nat
      /\ s.round_number + 1 >= 1 /\ s.round_number + 1 >= 0 /\ s.round_number + 1 # 0
  BY <1>2, LiarsDiceTypes
<1>5. /\ n.dice = o.dice /\ n.dice_counts = s.dice_counts /\ n.bids = <<>>
      /\ n.current_seat = s.current_seat /\ n.round_number = s.round_number + 1
      /\ n.faces = s.faces /\ n.last_showdown = s.last_showdown
  BY <1>2 DEF LiarsDiceFields
<1>6. n \in LiarsDiceFields(c)
  <2>1. <<>> \in Seq(Bids(Nat, Nat))
    OBVIOUS
  <2>2. o.dice \in {NoDice} \cup [VALID_SEATS -> Seq(Nat)]
    BY <1>3
  <2> QED BY <1>2, <1>4, <2>1, <2>2 DEF LiarsDiceFields
<1> HIDE DEF n
<1>7. ~LiarsDiceTerminal(s)
  BY DEF LiarsDiceChance
<1>8. ~LiarsDiceTerminal(n) /\ LiarsDiceResult(n) = NoResult /\ Total(n) = Total(s)
  BY <1>5, <1>7, LiarsDiceOver DEF Total
<1>9. LiarsDiceState(n)
  <2>1. /\ n.faces \in FaceCounts /\ n.round_number >= 1 /\ n.round_number >= 0
        /\ n.current_seat \in VALID_SEATS /\ Total(n) > 0
        /\ n.round_number # 0 /\ n.dice # NoDice
        /\ \A seat \in VALID_SEATS : n.dice_counts[seat] \in 0..MAX_DICE_PER_SEAT
    BY <1>2, <1>3, <1>4, <1>5, <1>8 DEF LiarsDiceState
  <2>2. Dealt(n.dice, [seat \in VALID_SEATS |-> {n.dice_counts[seat]}], n.faces)
    BY <1>3, <1>5
  <2>3. n.bids = <<>> /\ DOMAIN n.bids = {}
    BY <1>5
  <2>4. \A i \in DOMAIN n.last_showdown :
           LET d == n.last_showdown[i]
           IN /\ ShowdownState(d)
              /\ d.bid.face <= n.faces
              /\ Dealt(d.dice, [seat \in VALID_SEATS |-> 1..MAX_DICE_PER_SEAT], n.faces)
    BY <1>2, <1>5 DEF LiarsDiceState
  <2> QED BY <1>8, <2>1, <2>2, <2>3, <2>4 DEF LiarsDiceState
<1> QED BY <1>1, <1>3, <1>5, <1>6, <1>8, <1>9
        DEF LiarsDiceStates, LiarsDiceOutcomeValid, LiarsDiceChance

----------------------------------------------------------------------------
(* The boards *)

BoardConfigs == TicTacToeConfigs \cup Connect4Configs

BoardCells(c) == (0..(c.rows - 1)) \X (0..(c.columns - 1))

BoardStates(c) == [board : [BoardCells(c) -> 0..2], current_seat : VALID_SEATS]

\* The numbers a config of a board game holds.
LEMMA BoardConfigTypes ==
  ASSUME NEW c \in BoardConfigs
  PROVE  /\ c.rows \in Nat /\ c.rows >= 1 /\ c.rows <= MAX_SIDE
         /\ c.columns \in Nat /\ c.columns >= 1 /\ c.columns <= MAX_SIDE
         /\ c.connect_length \in Nat
  BY DEF BoardConfigs, TicTacToeConfigs, Connect4Configs, MAX_SIDE

\* A nonempty set of naturals has a least element: every induction below is
\* by the least counterexample.
LEMMA LeastExists ==
  ASSUME NEW S \in SUBSET Nat, S # {}
  PROVE  \E n \in S : \A k \in S : n <= k
<1>1. PICK n \in S : \A k \in S : ~ (<<k, n>> \in OpToRel(<, Nat))
  BY NatLessThanWellFounded, WFMin
<1>2. ASSUME NEW k \in S PROVE n <= k
  <2>1. ~(k < n)
    BY <1>1 DEF OpToRel
  <2> QED BY <2>1
<1> QED BY <1>2

\* Going along a line, there and back.
LEMMA AlongSum ==
  ASSUME NEW p \in Int \X Int, NEW step \in Directions, NEW i \in Int, NEW j \in Int
  PROVE  /\ Along(p, step, i) \in Int \X Int
         /\ Along(Along(p, step, i), step, j) = Along(p, step, i + j)
         /\ Along(p, Back(step), i) = Along(p, step, -i)
         /\ Along(p, step, 0) = p
<1>1. p = <<p[1], p[2]>> /\ p[1] \in Int /\ p[2] \in Int
  OBVIOUS
<1>2. CASE step = <<1, 0>>
  BY <1>1, <1>2 DEF Along, Back
<1>3. CASE step = <<0, 1>>
  BY <1>1, <1>3 DEF Along, Back
<1>4. CASE step = <<1, 1>>
  BY <1>1, <1>4 DEF Along, Back
<1>5. CASE step = <<1, -1>>
  BY <1>1, <1>5 DEF Along, Back
<1> QED BY <1>2, <1>3, <1>4, <1>5 DEF Directions

\* Nothing on the board is a whole side away.
LEMMA OffTheBoard ==
  ASSUME NEW c \in BoardConfigs, NEW p \in BoardCells(c), NEW step \in Directions
  PROVE  Along(p, step, MAX_SIDE) \notin BoardCells(c)
         /\ Along(p, step, -MAX_SIDE) \notin BoardCells(c)
<1>1. /\ c.rows \in Nat /\ c.rows <= 20 /\ c.columns \in Nat /\ c.columns <= 20
  BY BoardConfigTypes DEF MAX_SIDE
<1>2. p = <<p[1], p[2]>> /\ p[1] \in 0..(c.rows - 1) /\ p[2] \in 0..(c.columns - 1)
  BY DEF BoardCells
<1>3. MAX_SIDE = 20
  BY DEF MAX_SIDE
<1> DEFINE a == p[1]
           b == p[2]
<1>4. a \in 0..(c.rows - 1) /\ b \in 0..(c.columns - 1) /\ a \in Int /\ b \in Int
  BY <1>2
<1>5. Along(p, step, 20)[1] \notin 0..(c.rows - 1) \/ Along(p, step, 20)[2] \notin 0..(c.columns - 1)
  <2>1. CASE step = <<1, 0>>
    BY <1>1, <1>4, <2>1 DEF Along
  <2>2. CASE step = <<0, 1>>
    BY <1>1, <1>4, <2>2 DEF Along
  <2>3. CASE step = <<1, 1>>
    BY <1>1, <1>4, <2>3 DEF Along
  <2>4. CASE step = <<1, -1>>
    BY <1>1, <1>4, <2>4 DEF Along
  <2> QED BY <2>1, <2>2, <2>3, <2>4 DEF Directions
<1>6. Along(p, step, -20)[1] \notin 0..(c.rows - 1) \/ Along(p, step, -20)[2] \notin 0..(c.columns - 1)
  <2>1. CASE step = <<1, 0>>
    BY <1>1, <1>4, <2>1 DEF Along
  <2>2. CASE step = <<0, 1>>
    BY <1>1, <1>4, <2>2 DEF Along
  <2>3. CASE step = <<1, 1>>
    BY <1>1, <1>4, <2>3 DEF Along
  <2>4. CASE step = <<1, -1>>
    BY <1>1, <1>4, <2>4 DEF Along
  <2> QED BY <2>1, <2>2, <2>3, <2>4 DEF Directions
<1> QED BY <1>3, <1>5, <1>6 DEF BoardCells

\* The cell that is n steps along holds the same mark.
Same(board, p, step, n) ==
  Along(p, step, n) \in DOMAIN board /\ board[Along(p, step, n)] = board[p]

\* What the while loop counts: it stops, and not before it has to.
LEMMA CountIs ==
  ASSUME NEW c \in BoardConfigs, NEW board \in [BoardCells(c) -> 0..2],
         NEW p \in BoardCells(c), NEW step, NEW n, n = CountDirection(board, p, step),
         ~Same(board, p, step, MAX_SIDE)
  PROVE  /\ n \in Nat
         /\ \A k \in 1..n : Same(board, p, step, k)
         /\ \A m \in Nat : (\A k \in 1..m : Same(board, p, step, k)) => m <= n
<1> DEFINE ends == {k \in 1..MAX_SIDE : ~Same(board, p, step, k)}
<1>1. MAX_SIDE = 20
  BY DEF MAX_SIDE
<1>2. ends \in SUBSET Nat /\ MAX_SIDE \in ends
  BY <1>1
<1>3. PICK e \in ends : \A k \in ends : e <= k
  <2> HIDE DEF ends
  <2> QED BY <1>2, LeastExists
<1>4. /\ e - 1 \in 0..MAX_SIDE /\ ~Same(board, p, step, (e - 1) + 1)
      /\ \A k \in 1..(e - 1) : Same(board, p, step, k)
  <2>1. e \in 1..20 /\ (e - 1) + 1 = e /\ ~Same(board, p, step, e)
    BY <1>1
  <2>2. ASSUME NEW k \in 1..(e - 1) PROVE Same(board, p, step, k)
    <3>1. k \in 1..20 /\ ~(e <= k)
      BY <2>1
    <3> QED BY <1>1, <1>3, <3>1
  <2> QED BY <1>1, <2>1, <2>2
<1>5. n = CHOOSE x \in 0..MAX_SIDE : ~Same(board, p, step, x + 1) /\ \A k \in 1..x : Same(board, p, step, k)
  BY DEF CountDirection, Same
<1>6. n \in 0..MAX_SIDE /\ ~Same(board, p, step, n + 1) /\ \A k \in 1..n : Same(board, p, step, k)
  <2> HIDE DEF ends
  <2> QED BY <1>4, <1>5
<1>7. n \in Nat
  BY <1>1, <1>6
<1>8. ASSUME NEW m \in Nat, \A k \in 1..m : Same(board, p, step, k) PROVE m <= n
  <2> SUFFICES ASSUME ~(m <= n) PROVE FALSE
    OBVIOUS
  <2>1. n + 1 \in 1..m
    BY <1>7
  <2> QED BY <1>6, <1>8, <2>1
<1> QED BY <1>6, <1>7, <1>8

\* A run of equal marks: i cells further along, and j cells back.
Run(board, p, step, i, j) == \A k \in (-j)..i : Same(board, p, step, k)

\* A line through a cell is a run that is long enough.
LEMMA LineIs ==
  ASSUME NEW c \in BoardConfigs, NEW board \in [BoardCells(c) -> 0..2],
         NEW p \in BoardCells(c), NEW length \in Nat
  PROVE  LineThrough(board, p, length) <=>
           /\ board[p] # EMPTY_CELL
           /\ \E step \in Directions : \E i, j \in Nat :
                 1 + i + j >= length /\ Run(board, p, step, i, j)
<1>0. p \in Int \X Int
  <2>1. c.rows \in Int /\ c.columns \in Int
    BY BoardConfigTypes
  <2> QED BY <2>1 DEF BoardCells
<1>1. ASSUME NEW step \in Directions, NEW n \in Int
      PROVE  /\ Same(board, p, Back(step), n) <=> Same(board, p, step, -n)
             /\ Same(board, p, step, 0)
  <2>1. Along(p, Back(step), n) = Along(p, step, -n) /\ Along(p, step, 0) = p
    BY <1>0, AlongSum
  <2> QED BY <2>1 DEF Same
<1>2. ASSUME NEW step \in Directions
      PROVE ~Same(board, p, step, MAX_SIDE) /\ ~Same(board, p, Back(step), MAX_SIDE)
  <2>1. MAX_SIDE \in Int
    BY DEF MAX_SIDE
  <2>2. ~Same(board, p, step, MAX_SIDE) /\ ~Same(board, p, step, -MAX_SIDE)
    BY OffTheBoard DEF Same
  <2> QED BY <1>1, <2>1, <2>2
<1>3. ASSUME NEW step \in Directions
      PROVE  /\ CountDirection(board, p, step) \in Nat
             /\ CountDirection(board, p, Back(step)) \in Nat
             /\ Run(board, p, step, CountDirection(board, p, step),
                    CountDirection(board, p, Back(step)))
             /\ \A i, j \in Nat : Run(board, p, step, i, j) =>
                   i <= CountDirection(board, p, step) /\ j <= CountDirection(board, p, Back(step))
  <2> DEFINE f == CountDirection(board, p, step)
             b == CountDirection(board, p, Back(step))
  <2>1. /\ f \in Nat /\ \A k \in 1..f : Same(board, p, step, k)
        /\ \A m \in Nat : (\A k \in 1..m : Same(board, p, step, k)) => m <= f
    BY <1>2, CountIs
  <2>2. /\ b \in Nat /\ \A k \in 1..b : Same(board, p, Back(step), k)
        /\ \A m \in Nat : (\A k \in 1..m : Same(board, p, Back(step), k)) => m <= b
    BY <1>2, CountIs
  <2> HIDE DEF f, b
  <2>3. Run(board, p, step, f, b)
    <3> SUFFICES ASSUME NEW k \in (-b)..f PROVE Same(board, p, step, k)
      BY DEF Run
    <3>1. k \in Int /\ -k \in Int
      BY <2>1, <2>2
    <3>2. CASE k > 0
      <4>1. k \in 1..f
        BY <2>1, <2>2, <3>1, <3>2
      <4> QED BY <2>1, <4>1
    <3>3. CASE k = 0
      BY <1>1, <3>3
    <3>4. CASE k < 0
      <4>1. -k \in 1..b
        BY <2>1, <2>2, <3>1, <3>4
      <4>2. Same(board, p, Back(step), -k)
        BY <2>2, <4>1
      <4>3. Same(board, p, step, -(-k))
        BY <1>1, <3>1, <4>2
      <4>4. -(-k) = k
        BY <3>1
      <4> QED BY <4>3, <4>4
    <3> QED BY <3>1, <3>2, <3>3, <3>4
  <2>4. ASSUME NEW i \in Nat, NEW j \in Nat, Run(board, p, step, i, j)
        PROVE  i <= f /\ j <= b
    <3>1. \A k \in 1..i : Same(board, p, step, k)
      <4>1. \A k \in 1..i : k \in (-j)..i
        OBVIOUS
      <4> QED BY <2>4, <4>1 DEF Run
    <3>2. \A k \in 1..j : Same(board, p, Back(step), k)
      <4> SUFFICES ASSUME NEW k \in 1..j PROVE Same(board, p, Back(step), k)
        OBVIOUS
      <4>1. -k \in (-j)..i /\ k \in Int
        OBVIOUS
      <4>2. Same(board, p, step, -k)
        BY <2>4, <4>1 DEF Run
      <4> QED BY <1>1, <4>1, <4>2
    <3> QED BY <2>1, <2>2, <3>1, <3>2
  <2> QED BY <2>1, <2>2, <2>3, <2>4 DEF f, b
<1>4. ASSUME LineThrough(board, p, length)
      PROVE  /\ board[p] # EMPTY_CELL
             /\ \E step \in Directions : \E i, j \in Nat :
                   1 + i + j >= length /\ Run(board, p, step, i, j)
  <2>1. board[p] # EMPTY_CELL
    BY <1>4 DEF LineThrough
  <2>2. PICK step \in Directions :
          1 + CountDirection(board, p, step) + CountDirection(board, p, Back(step)) >= length
    BY <1>4 DEF LineThrough
  <2> QED BY <1>3, <2>1, <2>2
<1>5. ASSUME board[p] # EMPTY_CELL, NEW step \in Directions, NEW i \in Nat, NEW j \in Nat,
             1 + i + j >= length, Run(board, p, step, i, j)
      PROVE  LineThrough(board, p, length)
  <2> DEFINE f == CountDirection(board, p, step)
             b == CountDirection(board, p, Back(step))
  <2>1. f \in Nat /\ b \in Nat /\ i <= f /\ j <= b
    BY <1>3, <1>5
  <2>2. 1 + f + b >= length
    <3> HIDE DEF f, b
    <3> QED BY <1>5, <2>1
  <2> QED BY <1>5, <2>2 DEF LineThrough
<1> QED BY <1>4, <1>5

NoLines(c, board, length) == \A p \in BoardCells(c) : ~LineThrough(board, p, length)

\* A mark placed where nobody had a line: every line is the mover's, and there
\* is one exactly when there is one through that mark.
LEMMA NewLine ==
  ASSUME NEW c \in BoardConfigs, NEW board \in [BoardCells(c) -> 0..2],
         NEW p \in BoardCells(c), NEW length \in Nat, NoLines(c, board, length),
         NEW mark \in 1..2, NEW q \in BoardCells(c),
         LineThrough([board EXCEPT ![p] = mark], q, length)
  PROVE  /\ [board EXCEPT ![p] = mark][q] = mark
         /\ LineThrough([board EXCEPT ![p] = mark], p, length)
<1> DEFINE new == [board EXCEPT ![p] = mark]
<1>1. /\ new \in [BoardCells(c) -> 0..2] /\ new[p] = mark /\ mark # EMPTY_CELL
      /\ \A x \in BoardCells(c) : x # p => new[x] = board[x]
  BY DEF EMPTY_CELL
<1> HIDE DEF new
<1>2. p \in Int \X Int /\ q \in Int \X Int
  <2>1. c.rows \in Int /\ c.columns \in Int
    BY BoardConfigTypes
  <2> QED BY <2>1 DEF BoardCells
<1>3. LineThrough(new, q, length)
  BY DEF new
<1>4. /\ new[q] # EMPTY_CELL
      /\ \E step \in Directions : \E i, j \in Nat :
            1 + i + j >= length /\ Run(new, q, step, i, j)
  BY <1>1, <1>3, LineIs
<1>5. PICK step \in Directions, i \in Nat, j \in Nat :
         1 + i + j >= length /\ Run(new, q, step, i, j)
  BY <1>4
<1>6. \E k \in (-j)..i : Along(q, step, k) = p
  <2> SUFFICES ASSUME \A k \in (-j)..i : Along(q, step, k) # p PROVE FALSE
    OBVIOUS
  <2>1. 0 \in (-j)..i /\ Along(q, step, 0) = q
    BY <1>2, AlongSum
  <2>2. board[q] = new[q]
    BY <1>1, <2>1
  <2>3. ASSUME NEW k \in (-j)..i PROVE Same(board, q, step, k)
    <3>1. Along(q, step, k) \in BoardCells(c) /\ new[Along(q, step, k)] = new[q]
      BY <1>1, <1>5 DEF Run, Same
    <3> QED BY <1>1, <2>2, <3>1 DEF Same
  <2>4. Run(board, q, step, i, j)
    BY <2>3 DEF Run
  <2>5. LineThrough(board, q, length)
    BY <1>4, <1>5, <2>2, <2>4, LineIs
  <2> QED BY <2>5 DEF NoLines
<1>7. PICK k \in (-j)..i : Along(q, step, k) = p
  BY <1>6
<1>8. new[p] = new[q]
  BY <1>5, <1>7 DEF Run, Same
<1>9. Run(new, p, step, i - k, j + k)
  <2> SUFFICES ASSUME NEW n \in (-(j + k))..(i - k) PROVE Same(new, p, step, n)
    BY DEF Run
  <2>1. k \in Int /\ n \in Int /\ k + n \in (-j)..i
    BY <1>7
  <2>2. Along(p, step, n) = Along(q, step, k + n)
    BY <1>2, <1>7, <2>1, AlongSum
  <2>3. Same(new, q, step, k + n)
    BY <1>5, <2>1 DEF Run
  <2> QED BY <1>8, <2>2, <2>3 DEF Same
<1>10. i - k \in Nat /\ j + k \in Nat /\ 1 + (i - k) + (j + k) >= length
  BY <1>5, <1>7
<1>11. LineThrough(new, p, length)
  BY <1>1, <1>9, <1>10, LineIs
<1> QED BY <1>1, <1>8, <1>11 DEF new

\* Row by row, there is a first cell.
LEMMA FirstCell ==
  ASSUME NEW c \in BoardConfigs, NEW S \in SUBSET BoardCells(c), S # {}
  PROVE  \E p \in S : \A q \in S \ {p} : Earlier(p, q)
<1>1. c.rows \in Nat /\ c.columns \in Nat
  BY BoardConfigTypes
<1>2. \A p \in S : p = <<p[1], p[2]>> /\ p[1] \in Nat /\ p[2] \in Nat
  BY <1>1 DEF BoardCells
<1> DEFINE rows == {p[1] : p \in S}
<1>3. PICK r \in rows : \A k \in rows : r <= k
  <2>1. rows \in SUBSET Nat /\ rows # {}
    BY <1>2
  <2> HIDE DEF rows
  <2> QED BY <2>1, LeastExists
<1> DEFINE columns == {p[2] : p \in {x \in S : x[1] = r}}
<1>4. PICK k \in columns : \A i \in columns : k <= i
  <2>1. columns \in SUBSET Nat /\ columns # {}
    BY <1>2
  <2> HIDE DEF columns
  <2> QED BY <2>1, LeastExists
<1>5. PICK p \in S : p[1] = r /\ p[2] = k
  OBVIOUS
<1>6. ASSUME NEW q \in S \ {p} PROVE Earlier(p, q)
  <2>1. r \in Nat /\ q[1] \in Nat /\ r <= q[1] /\ k \in Nat /\ q[2] \in Nat
    BY <1>2, <1>3, <1>5
  <2>2. q[1] = r => k <= q[2]
    BY <1>4
  <2>3. q[1] = r => q[2] # k
    BY <1>2, <1>5
  <2> QED BY <1>5, <2>1, <2>2, <2>3 DEF Earlier
<1> QED BY <1>6

\* The winner found on a board is the owner of a line, where there is one.
LEMMA WinnerIs ==
  ASSUME NEW c \in BoardConfigs, NEW board \in [BoardCells(c) -> 0..2], NEW length \in Nat
  PROVE  \/ NoLines(c, board, length) /\ WinnerOnBoard(board, length) = NoSeat
         \/ /\ WinnerOnBoard(board, length) \in VALID_SEATS
            /\ \E p \in BoardCells(c) : LineThrough(board, p, length)
                                        /\ WinnerOnBoard(board, length) = board[p] - 1
<1> DEFINE lines == {p \in BoardCells(c) : LineThrough(board, p, length)}
<1>1. DOMAIN board = BoardCells(c)
  OBVIOUS
<1>2. WinnerOnBoard(board, length) =
        IF lines = {} THEN NoSeat
        ELSE board[CHOOSE p \in lines : \A q \in lines \ {p} : Earlier(p, q)] - 1
  BY <1>1 DEF WinnerOnBoard
<1>3. CASE lines = {}
  BY <1>2, <1>3 DEF NoLines
<1>4. CASE lines # {}
  <2> DEFINE first == CHOOSE p \in lines : \A q \in lines \ {p} : Earlier(p, q)
  <2>1. \E p \in lines : \A q \in lines \ {p} : Earlier(p, q)
    <3>1. lines \in SUBSET BoardCells(c)
      OBVIOUS
    <3> HIDE DEF lines
    <3> QED BY <1>4, <3>1, FirstCell
  <2>2. first \in lines
    <3> HIDE DEF lines
    <3> QED BY <2>1
  <2>3. WinnerOnBoard(board, length) = board[first] - 1
    BY <1>2, <1>4
  <2> HIDE DEF first
  <2>4. first \in BoardCells(c) /\ LineThrough(board, first, length)
    BY <2>2
  <2>5. board[first] # EMPTY_CELL
    BY <2>4 DEF LineThrough
  <2>6. board[first] - 1 \in VALID_SEATS
    BY <2>4, <2>5 DEF EMPTY_CELL, VALID_SEATS
  <2> QED BY <2>3, <2>4, <2>6
<1> QED BY <1>3, <1>4

\* A match without a result has no line, and an empty board has none.
LEMMA BoardOver ==
  ASSUME NEW c \in BoardConfigs, NEW s \in BoardStates(c), NEW length \in Nat
  PROVE  BoardResult(s, length) = NoResult <=> NoLines(c, s.board, length) /\ ~Full(s.board)
<1>1. s.board \in [BoardCells(c) -> 0..2]
  BY DEF BoardStates
<1>2. CASE NoLines(c, s.board, length) /\ WinnerOnBoard(s.board, length) = NoSeat
  BY <1>2 DEF BoardResult, Draw, NoResult
<1>3. CASE WinnerOnBoard(s.board, length) \in VALID_SEATS
           /\ \E p \in BoardCells(c) : LineThrough(s.board, p, length)
  BY <1>3 DEF BoardResult, NoLines, Win, NoResult, NoSeat, VALID_SEATS
<1> QED BY <1>1, <1>2, <1>3, WinnerIs

\* An empty board is a state of the game, and nobody has won on it.
LEMMA BoardStarts ==
  ASSUME NEW c \in BoardConfigs,
         NEW s, s = [board |-> Board(c.rows, c.columns), current_seat |-> 0]
  PROVE  s \in BoardStates(c) /\ BoardResult(s, c.connect_length) = NoResult
<1>1. /\ c.rows \in Nat /\ c.rows >= 1 /\ c.columns \in Nat /\ c.columns >= 1
      /\ c.connect_length \in Nat
  BY BoardConfigTypes
<1>2. s.board = [p \in BoardCells(c) |-> 0] /\ s.current_seat = 0
  BY DEF Board, BoardCells, EMPTY_CELL
<1>3. s \in BoardStates(c)
  <2>1. [p \in BoardCells(c) |-> 0] \in [BoardCells(c) -> 0..2]
    OBVIOUS
  <2>2. 0 \in VALID_SEATS
    BY DEF VALID_SEATS
  <2> QED BY <1>2, <2>1, <2>2 DEF BoardStates
<1>4. NoLines(c, s.board, c.connect_length)
  BY <1>2 DEF NoLines, LineThrough, EMPTY_CELL
<1>5. ~Full(s.board)
  <2>1. <<0, 0>> \in BoardCells(c)
    BY <1>1 DEF BoardCells
  <2> QED BY <1>2, <2>1 DEF Full, EMPTY_CELL
<1> QED BY <1>1, <1>3, <1>4, <1>5, BoardOver

\* A placed mark: the result announced from the mark alone is the one read
\* from the whole board.
LEMMA BoardMoves ==
  ASSUME NEW c \in BoardConfigs, NEW s \in BoardStates(c), NEW length \in Nat,
         BoardResult(s, length) = NoResult,
         NEW p \in BoardCells(c), NEW seat \in VALID_SEATS, NEW placed,
         NEW t, t = PlaceOn(s, p, seat, length, placed)
  PROVE  t.state \in BoardStates(c) /\ t.result = BoardResult(t.state, length)
<1> DEFINE board == [s.board EXCEPT ![p] = MarkOf(seat)]
           won == LineThrough(board, p, length)
           over == won \/ Full(board)
           n == [board |-> board, current_seat |-> IF over THEN seat ELSE Other(seat)]
<1>1. /\ t.state = n
      /\ t.result = IF won THEN Win(seat) ELSE IF over THEN Draw ELSE NoResult
  BY DEF PlaceOn, Transition
<1>2. s.board \in [BoardCells(c) -> 0..2] /\ NoLines(c, s.board, length)
  BY BoardOver DEF BoardStates
<1>3. MarkOf(seat) \in 1..2 /\ MarkOf(seat) \in 0..2 /\ MarkOf(seat) - 1 = seat
  BY DEF MarkOf, VALID_SEATS
<1>4. board \in [BoardCells(c) -> 0..2]
  BY <1>2, <1>3
<1>5. \A q \in BoardCells(c) : LineThrough(board, q, length) => board[q] = MarkOf(seat) /\ won
  BY <1>2, <1>3, NewLine
<1>6. \/ NoLines(c, board, length) /\ WinnerOnBoard(board, length) = NoSeat
      \/ /\ WinnerOnBoard(board, length) \in VALID_SEATS
         /\ \E q \in BoardCells(c) : LineThrough(board, q, length)
                                     /\ WinnerOnBoard(board, length) = board[q] - 1
  <2> HIDE DEF board
  <2> QED BY <1>4, WinnerIs
<1>7. n.board = board /\ n \in BoardStates(c)
  <2>1. Other(seat) \in VALID_SEATS
    BY DEF Other, VALID_SEATS
  <2> HIDE DEF board, over
  <2> QED BY <1>4, <2>1 DEF BoardStates
<1>8. BoardResult(n, length) = IF won THEN Win(seat) ELSE IF over THEN Draw ELSE NoResult
  <2> HIDE DEF board, n
  <2>1. CASE won
    <3>1. ~NoLines(c, board, length)
      BY <2>1 DEF NoLines
    <3>2. WinnerOnBoard(board, length) = seat
      BY <1>3, <1>5, <1>6, <3>1
    <3>3. seat # NoSeat
      BY DEF VALID_SEATS, NoSeat
    <3> QED BY <1>7, <2>1, <3>2, <3>3 DEF BoardResult
  <2>2. CASE ~won
    <3>1. WinnerOnBoard(board, length) = NoSeat
      BY <1>5, <1>6, <2>2
    <3> QED BY <1>7, <2>2, <3>1 DEF BoardResult
  <2> QED BY <2>1, <2>2
<1> QED BY <1>1, <1>7, <1>8

\* Tic-Tac-Toe: what is listed is what is valid, and a move is a placed mark.
LEMMA TicTacToeAgrees ==
  ASSUME NEW c \in TicTacToeConfigs, NEW s \in BoardStates(c), NEW seat \in VALID_SEATS
  PROVE  /\ TicTacToeState(s)
         /\ TicTacToeLegal(c, s, seat) = {a \in TicTacToeActions : TicTacToeValid(c, s, seat, a)}
<1>1. c.rows = 3 /\ c.columns = 3
  BY DEF TicTacToeConfigs
<1>2. BoardCells(c) = Cells /\ Cells = (0..2) \X (0..2)
  BY <1>1 DEF BoardCells, Cells, BOARD_SIZE
<1>3. s.board \in [Cells -> 0..2] /\ s.current_seat \in VALID_SEATS
  BY <1>2 DEF BoardStates
<1>4. ASSUME NEW a \in TicTacToeLegal(c, s, seat)
      PROVE  a \in TicTacToeActions /\ TicTacToeValid(c, s, seat, a)
  <2>1. ~TicTacToeTerminal(c, s) /\ seat = s.current_seat
    BY <1>4 DEF TicTacToeLegal
  <2>2. PICK p \in Cells : s.board[p] = EMPTY_CELL /\ a = [row |-> p[1], column |-> p[2]]
    BY <1>4, <2>1 DEF TicTacToeLegal
  <2>3. p = <<p[1], p[2]>> /\ p[1] \in 0..2 /\ p[2] \in 0..2
    BY <1>2
  <2>4. a.row = p[1] /\ a.column = p[2]
    BY <2>2
  <2>5. p[1] \in 0..3 /\ p[2] \in 0..3 /\ p[1] < 3 /\ p[2] < 3
    BY <2>3
  <2>6. s.board[<<a.row, a.column>>] = EMPTY_CELL
    BY <2>2, <2>3, <2>4
  <2>7. a \in TicTacToeActions
    BY <2>2, <2>5 DEF TicTacToeActions, BOARD_SIZE
  <2> QED BY <2>1, <2>4, <2>5, <2>6, <2>7 DEF TicTacToeValid, BOARD_SIZE
<1>5. ASSUME NEW a \in TicTacToeActions, TicTacToeValid(c, s, seat, a)
      PROVE  a \in TicTacToeLegal(c, s, seat) /\ <<a.row, a.column>> \in Cells
  <2>1. a = [row |-> a.row, column |-> a.column] /\ a.row \in 0..3 /\ a.column \in 0..3
    BY DEF TicTacToeActions, BOARD_SIZE
  <2>2. /\ ~TicTacToeTerminal(c, s) /\ seat = s.current_seat
        /\ a.row < 3 /\ a.column < 3 /\ s.board[<<a.row, a.column>>] = EMPTY_CELL
    BY <1>5 DEF TicTacToeValid, BOARD_SIZE
  <2>3. a.row \in 0..2 /\ a.column \in 0..2
    BY <2>1, <2>2
  <2> DEFINE p == <<a.row, a.column>>
  <2>4. p \in Cells /\ p[1] = a.row /\ p[2] = a.column
    BY <1>2, <2>3
  <2>5. a \in {[row |-> q[1], column |-> q[2]] : q \in {x \in Cells : s.board[x] = EMPTY_CELL}}
    BY <2>1, <2>2, <2>4
  <2> QED BY <2>2, <2>4, <2>5 DEF TicTacToeLegal
<1>6. TicTacToeState(s)
  BY <1>3 DEF TicTacToeState
<1> QED BY <1>4, <1>5, <1>6

\* A mark placed in Tic-Tac-Toe leaves a state of the game, with its result.
LEMMA TicTacToeMoves ==
  ASSUME NEW c \in TicTacToeConfigs, NEW s \in BoardStates(c), NEW seat \in VALID_SEATS,
         NEW a \in TicTacToeActions, TicTacToeValid(c, s, seat, a),
         NEW t, t = TicTacToeApply(c, s, seat, a)
  PROVE  t.state \in BoardStates(c) /\ t.result = TicTacToeResult(c, t.state)
<1>1. c.rows = 3 /\ c.columns = 3 /\ c \in BoardConfigs /\ c.connect_length \in Nat
  BY DEF TicTacToeConfigs, BoardConfigs
<1>2. a.row \in 0..3 /\ a.column \in 0..3
  BY DEF TicTacToeActions, BOARD_SIZE
<1>3. a.row < 3 /\ a.column < 3 /\ BoardResult(s, c.connect_length) = NoResult
  BY DEF TicTacToeValid, BOARD_SIZE, TicTacToeTerminal, TicTacToeResult
<1>4. <<a.row, a.column>> \in BoardCells(c)
  BY <1>1, <1>2, <1>3 DEF BoardCells
<1> QED BY <1>1, <1>3, <1>4, BoardMoves DEF TicTacToeApply, TicTacToeResult

\* Connect 4: the same, for discs that fall to the lowest empty row.
LEMMA Connect4Shape ==
  ASSUME NEW c \in Connect4Configs, NEW s \in BoardStates(c)
  PROVE  /\ Rows(s) = 0..(c.rows - 1) /\ Columns(s) = 0..(c.columns - 1)
         /\ Connect4State(s)
<1>1. /\ c.rows \in Nat /\ c.rows >= 1 /\ c.columns \in Nat /\ c.columns >= 1
  BY DEF Connect4Configs
<1>2. s.board \in [BoardCells(c) -> 0..2] /\ s.current_seat \in VALID_SEATS
  BY DEF BoardStates
<1>3. ASSUME NEW r \in 0..(c.rows - 1), NEW k \in 0..(c.columns - 1)
      PROVE  r \in Rows(s) /\ k \in Columns(s)
  <2>1. <<r, k>> \in DOMAIN s.board /\ <<r, k>>[1] = r /\ <<r, k>>[2] = k
    BY <1>2 DEF BoardCells
  <2> QED BY <2>1 DEF Rows, Columns
<1>4. Rows(s) \subseteq 0..(c.rows - 1) /\ Columns(s) \subseteq 0..(c.columns - 1)
  BY <1>2 DEF Rows, Columns, BoardCells
<1>5. 0 \in 0..(c.rows - 1) /\ 0 \in 0..(c.columns - 1)
  BY <1>1
<1>6. Rows(s) = 0..(c.rows - 1) /\ Columns(s) = 0..(c.columns - 1)
  BY <1>3, <1>4, <1>5
<1>7. Connect4State(s)
  BY <1>2, <1>5, <1>6 DEF Connect4State, BoardCells
<1> QED BY <1>6, <1>7

\* A column of Connect Four is listed exactly when it is valid.
LEMMA Connect4Agrees ==
  ASSUME NEW c \in Connect4Configs, NEW s \in BoardStates(c), NEW seat \in VALID_SEATS,
         NEW length
  PROVE  Connect4Legal(length, s, seat)
            = {a \in Connect4Actions(c) : Connect4Valid(length, s, seat, a)}
<1>1. /\ c.columns \in Nat /\ Columns(s) = 0..(c.columns - 1)
  BY Connect4Shape DEF Connect4Configs
<1>2. Columns(s) \subseteq 0..c.columns
  BY <1>1
<1>3. ASSUME NEW a \in Connect4Legal(length, s, seat)
      PROVE  a \in Connect4Actions(c) /\ Connect4Valid(length, s, seat, a)
  <2>1. ~Connect4Terminal(length, s) /\ seat = s.current_seat
    BY <1>3 DEF Connect4Legal
  <2>2. PICK n \in Columns(s) : s.board[<<0, n>>] = EMPTY_CELL /\ a = [column |-> n]
    BY <1>3, <2>1 DEF Connect4Legal
  <2> QED BY <1>2, <2>1, <2>2 DEF Connect4Valid, Connect4Actions
<1>4. ASSUME NEW a \in Connect4Actions(c), Connect4Valid(length, s, seat, a)
      PROVE  a \in Connect4Legal(length, s, seat)
  <2>1. a = [column |-> a.column]
    BY DEF Connect4Actions
  <2> QED BY <1>4, <2>1 DEF Connect4Valid, Connect4Legal
<1> QED BY <1>3, <1>4

\* A disc dropped in Connect Four leaves a state of the game, with its
\* result.
LEMMA Connect4Moves ==
  ASSUME NEW c \in Connect4Configs, NEW s \in BoardStates(c), NEW seat \in VALID_SEATS,
         NEW a \in Connect4Actions(c), Connect4Valid(c.connect_length, s, seat, a),
         NEW t, t = Connect4Apply(c.connect_length, s, seat, a)
  PROVE  t.state \in BoardStates(c) /\ t.result = Connect4Result(c.connect_length, t.state)
<1>1. /\ c \in BoardConfigs /\ c.rows \in Nat /\ c.rows >= 1 /\ c.connect_length \in Nat
  BY BoardConfigTypes DEF BoardConfigs
<1>2. Rows(s) = 0..(c.rows - 1) /\ Columns(s) = 0..(c.columns - 1)
  BY Connect4Shape
<1>3. /\ BoardResult(s, c.connect_length) = NoResult
      /\ a.column \in Columns(s) /\ s.board[<<0, a.column>>] = EMPTY_CELL
  BY DEF Connect4Valid, Connect4Terminal, Connect4Result
<1> DEFINE Lowest(r) == /\ s.board[<<r, a.column>>] = EMPTY_CELL
                        /\ \A q \in Rows(s) : s.board[<<q, a.column>>] = EMPTY_CELL => q <= r
           above == {n \in Nat : n \in 0..(c.rows - 1)
                                 /\ s.board[<<(c.rows - 1) - n, a.column>>] = EMPTY_CELL}
<1>4. \E r \in Rows(s) : Lowest(r)
  <2>1. above \in SUBSET Nat /\ c.rows - 1 \in above
    <3>1. (c.rows - 1) - (c.rows - 1) = 0 /\ c.rows - 1 \in 0..(c.rows - 1)
      BY <1>1
    <3> QED BY <1>1, <1>3, <3>1
  <2>2. PICK n \in above : \A k \in above : n <= k
    <3> HIDE DEF above
    <3> QED BY <2>1, LeastExists
  <2> DEFINE r == (c.rows - 1) - n
  <2>3. n \in Nat /\ n \in 0..(c.rows - 1)
    OBVIOUS
  <2>4. r \in Rows(s) /\ s.board[<<r, a.column>>] = EMPTY_CELL
    BY <1>1, <1>2, <2>3
  <2>5. ASSUME NEW q \in Rows(s), s.board[<<q, a.column>>] = EMPTY_CELL PROVE q <= r
    <3> DEFINE k == (c.rows - 1) - q
    <3>1. q \in 0..(c.rows - 1)
      BY <1>2
    <3>2. k \in Nat /\ k \in 0..(c.rows - 1) /\ (c.rows - 1) - k = q
      BY <1>1, <3>1
    <3>3. k \in above
      BY <2>5, <3>2
    <3>4. n <= k
      BY <2>2, <3>3
    <3> QED BY <1>1, <2>3, <3>1, <3>4
  <2> QED BY <2>4, <2>5
<1>5. DropRow(s, a.column) \in Rows(s)
  BY <1>4 DEF DropRow
<1>6. <<DropRow(s, a.column), a.column>> \in BoardCells(c)
  BY <1>2, <1>3, <1>5 DEF BoardCells
<1> QED BY <1>1, <1>3, <1>6, BoardMoves DEF Connect4Apply, Connect4Result

----------------------------------------------------------------------------
(* The six games behind one interface *)

\* The states a match of a config is ever in.
StatesOf(c) ==
  CASE c.game = "nim"       -> NimStates(c)
    [] c.game = "pig"       -> PigStates(c)
    [] c.game = "rps"       -> RpsStates(c)
    [] c.game = "liarsdice" -> LiarsDiceStates(c)
    [] c.game = "tictactoe" -> BoardStates(c)
    [] c.game = "connect4"  -> BoardStates(c)

\* A config is of one of the six games.
LEMMA GameIs ==
  ASSUME NEW c \in GameConfigs
  PROVE  \/ c.game = "nim" /\ c \in NimConfigs
         \/ c.game = "pig" /\ c \in PigConfigs
         \/ c.game = "rps" /\ c \in RpsConfigs
         \/ c.game = "liarsdice" /\ c \in LiarsDiceConfigs
         \/ c.game = "tictactoe" /\ c \in TicTacToeConfigs /\ c \in BoardConfigs
         \/ c.game = "connect4" /\ c \in Connect4Configs /\ c \in BoardConfigs
<1>1. CASE c \in NimConfigs
  BY <1>1 DEF NimConfigs
<1>2. CASE c \in PigConfigs
  BY <1>2 DEF PigConfigs
<1>3. CASE c \in RpsConfigs
  BY <1>3 DEF RpsConfigs
<1>4. CASE c \in LiarsDiceConfigs
  BY <1>4 DEF LiarsDiceConfigs
<1>5. CASE c \in TicTacToeConfigs
  BY <1>5 DEF TicTacToeConfigs, BoardConfigs
<1>6. CASE c \in Connect4Configs
  BY <1>6 DEF Connect4Configs, BoardConfigs
<1> QED BY <1>1, <1>2, <1>3, <1>4, <1>5, <1>6 DEF GameConfigs

\* Every game begins in one of its states, and is not over.
LEMMA GameStarts ==
  ASSUME NEW c \in GameConfigs
  PROVE  Initial(c) \in StatesOf(c) /\ ~Terminal(c, Initial(c))
<1>1. CASE c.game = "nim" /\ c \in NimConfigs
  BY <1>1, NimStarts DEF Initial, StatesOf, Terminal, Result, NimTerminal
<1>2. CASE c.game = "pig" /\ c \in PigConfigs
  BY <1>2, PigStarts DEF Initial, StatesOf, Terminal, Result, PigTerminal
<1>3. CASE c.game = "rps" /\ c \in RpsConfigs
  BY <1>3, RpsStarts, RpsOver DEF Initial, StatesOf, Terminal, Result
<1>4. CASE c.game = "liarsdice" /\ c \in LiarsDiceConfigs
  BY <1>4, LiarsDiceStarts, LiarsDiceOver DEF Initial, StatesOf, Terminal, Result, LiarsDiceChance
<1>5. CASE c.game = "tictactoe" /\ c \in TicTacToeConfigs /\ c \in BoardConfigs
  BY <1>5, BoardStarts DEF Initial, StatesOf, Terminal, Result, TicTacToeInitial, TicTacToeResult
<1>6. CASE c.game = "connect4" /\ c \in Connect4Configs /\ c \in BoardConfigs
  BY <1>6, BoardStarts DEF Initial, StatesOf, Terminal, Result, Connect4Initial, Connect4Result
<1> QED BY <1>1, <1>2, <1>3, <1>4, <1>5, <1>6, GameIs

\* Every state is one load_state accepts; what is listed is what is valid.
LEMMA GameAgrees ==
  ASSUME NEW c \in GameConfigs, NEW s \in StatesOf(c), NEW seat \in VALID_SEATS
  PROVE  /\ GameState(c, s)
         /\ Legal(c, s, seat) = {a \in Actions(c) : Valid(c, s, seat, a)}
<1>1. CASE c.game = "nim" /\ c \in NimConfigs
  BY <1>1, NimAgrees DEF GameState, StatesOf, Legal, Actions, Valid
<1>2. CASE c.game = "pig" /\ c \in PigConfigs
  BY <1>2, PigAgrees DEF GameState, StatesOf, Legal, Actions, Valid
<1>3. CASE c.game = "rps" /\ c \in RpsConfigs
  BY <1>3, RpsAgrees DEF GameState, StatesOf, Legal, Actions, Valid
<1>4. CASE c.game = "liarsdice" /\ c \in LiarsDiceConfigs
  BY <1>4, LiarsDiceAgrees DEF GameState, StatesOf, Legal, Actions, Valid
<1>5. CASE c.game = "tictactoe" /\ c \in TicTacToeConfigs
  BY <1>5, TicTacToeAgrees DEF GameState, StatesOf, Legal, Actions, Valid
<1>6. CASE c.game = "connect4" /\ c \in Connect4Configs
  BY <1>6, Connect4Shape, Connect4Agrees DEF GameState, StatesOf, Legal, Actions, Valid
<1> QED BY <1>1, <1>2, <1>3, <1>4, <1>5, <1>6, GameIs

\* A move leaves a state of the game, and announces its result.
LEMMA GameMoves ==
  ASSUME NEW c \in GameConfigs, NEW s \in StatesOf(c), NEW seat \in VALID_SEATS,
         NEW a \in Actions(c), Valid(c, s, seat, a), Sequential(c),
         NEW t, t = Apply(c, s, seat, a)
  PROVE  t.state \in StatesOf(c) /\ t.result = Result(c, t.state)
<1>1. CASE c.game = "nim" /\ c \in NimConfigs
  BY <1>1, NimMoves DEF StatesOf, Actions, Valid, Apply, Result
<1>2. CASE c.game = "pig" /\ c \in PigConfigs
  BY <1>2, PigMoves DEF StatesOf, Actions, Valid, Apply, Result
<1>3. CASE c.game = "rps" /\ c \in RpsConfigs
  BY <1>3 DEF Sequential
<1>4. CASE c.game = "liarsdice" /\ c \in LiarsDiceConfigs
  BY <1>4, LiarsDiceBids, LiarsDiceCalls DEF StatesOf, Actions, Valid, Apply, Result
<1>5. CASE c.game = "tictactoe" /\ c \in TicTacToeConfigs
  BY <1>5, TicTacToeMoves DEF StatesOf, Actions, Valid, Apply, Result
<1>6. CASE c.game = "connect4" /\ c \in Connect4Configs
  BY <1>6, Connect4Moves DEF StatesOf, Actions, Valid, Apply, Result
<1> QED BY <1>1, <1>2, <1>3, <1>4, <1>5, <1>6, GameIs

\* A roll leaves the chance node.
LEMMA GameRolls ==
  ASSUME NEW c \in GameConfigs, NEW s \in StatesOf(c), Chance(c, s),
         NEW o \in Outcomes(c, s), NEW t, t = ApplyChance(c, s, o)
  PROVE  /\ OutcomeValid(c, s, o)
         /\ t.state \in StatesOf(c) /\ t.result = Result(c, t.state)
         /\ ~Chance(c, t.state)
<1>1. CASE c.game = "pig"
  <2>1. c \in PigConfigs
    BY <1>1, GameIs
  <2> QED BY <1>1, <2>1, PigRolls
          DEF StatesOf, Chance, Outcomes, OutcomeValid, ApplyChance, Result
<1>2. CASE c.game = "liarsdice"
  <2>1. c \in LiarsDiceConfigs
    BY <1>2, GameIs
  <2> QED BY <1>2, <2>1, LiarsDiceRolls
          DEF StatesOf, Chance, Outcomes, OutcomeValid, ApplyChance, Result
<1> QED BY <1>1, <1>2 DEF Chance, HasChance

\* Who acts: a seat or, in Rock-Paper-Scissors, both, while the match is live.
LEMMA GameActing ==
  ASSUME NEW c \in GameConfigs, NEW s \in StatesOf(c)
  PROVE  /\ Acting(c, s) \subseteq VALID_SEATS
         /\ Terminal(c, s) \/ Chance(c, s) <=> Acting(c, s) = {}
         /\ Joint(c, s) <=> c.game = "rps" /\ ~Terminal(c, s)
         /\ Joint(c, s) => Acting(c, s) = VALID_SEATS
         /\ ~Joint(c, s) /\ Acting(c, s) # {} =>
               /\ s.current_seat \in VALID_SEATS /\ Acting(c, s) = {s.current_seat}
               /\ Cardinality(Acting(c, s)) = 1 /\ Sequential(c)
<1>1. Cardinality(VALID_SEATS) = 2 /\ Cardinality({}) = 0
  BY TwoSeats, FS_EmptySet
<1>2. CASE Terminal(c, s) \/ Chance(c, s)
  <2>1. Acting(c, s) = {}
    BY <1>2 DEF Acting
  <2>2. ~Joint(c, s)
    BY <1>1, <2>1 DEF Joint
  <2>3. c.game = "rps" => ~Chance(c, s)
    BY DEF Chance, HasChance
  <2> QED BY <1>2, <2>1, <2>2, <2>3
<1>3. CASE ~Terminal(c, s) /\ ~Chance(c, s) /\ c.game = "rps"
  <2>1. ~RpsTerminal(s)
    BY <1>3, RpsOver DEF Terminal, Result
  <2>2. Acting(c, s) = VALID_SEATS
    BY <1>3, <2>1 DEF Acting, RpsActing
  <2>3. Joint(c, s) /\ Acting(c, s) # {}
    BY <1>1, <2>2 DEF Joint, VALID_SEATS
  <2> QED BY <1>3, <2>2, <2>3
<1>4. CASE ~Terminal(c, s) /\ ~Chance(c, s) /\ c.game # "rps"
  <2>1. Acting(c, s) = {s.current_seat}
    BY <1>4 DEF Acting
  <2>2. s.current_seat \in VALID_SEATS
    <3>1. CASE c.game = "nim"
      BY <3>1 DEF StatesOf, NimStates
    <3>2. CASE c.game = "pig"
      BY <3>2 DEF StatesOf, PigStates
    <3>3. CASE c.game = "liarsdice"
      BY <3>3 DEF StatesOf, LiarsDiceStates, LiarsDiceFields
    <3>4. CASE c.game = "tictactoe"
      BY <3>4 DEF StatesOf, BoardStates
    <3>5. CASE c.game = "connect4"
      BY <3>5 DEF StatesOf, BoardStates
    <3> QED BY <1>4, <3>1, <3>2, <3>3, <3>4, <3>5, GameIs
  <2>3. Cardinality(Acting(c, s)) = 1
    BY <2>1, FS_Singleton
  <2>4. ~Joint(c, s)
    BY <2>3 DEF Joint
  <2> QED BY <1>4, <2>1, <2>2, <2>3, <2>4 DEF Sequential
<1> QED BY <1>2, <1>3, <1>4

\* A joint round leaves a state of the game, and announces its result.
LEMMA GameRounds ==
  ASSUME NEW c \in GameConfigs, NEW s \in StatesOf(c),
         NEW actions \in [Acting(c, s) -> Actions(c)], JointValid(c, s, actions),
         NEW t, t = ApplyJoint(c, s, actions)
  PROVE  t.state \in StatesOf(c) /\ t.result = Result(c, t.state)
<1>1. c.game = "rps" /\ ~Terminal(c, s) /\ Acting(c, s) = VALID_SEATS
  BY GameActing DEF JointValid
<1>2. c \in RpsConfigs /\ s \in RpsStates(c) /\ ~RpsTerminal(s)
  BY <1>1, GameIs, RpsOver DEF StatesOf, Terminal, Result
<1>3. actions \in [VALID_SEATS -> RpsActions]
  BY <1>1 DEF Actions
<1> QED BY <1>1, <1>2, <1>3, RpsMoves DEF ApplyJoint, StatesOf, Result

\* No move, roll or round is made at the end of a match, nor a move by a seat
\* that is not to act.
LEMMA GameLive ==
  ASSUME NEW c \in GameConfigs, NEW s \in StatesOf(c)
  PROVE  /\ Chance(c, s) => ~Terminal(c, s) /\ ~Joint(c, s)
         /\ Joint(c, s) => ~Terminal(c, s) /\ ~Chance(c, s)
         /\ \A seat, a : Valid(c, s, seat, a) => ~Terminal(c, s) /\ ~Chance(c, s)
         /\ \A seat \in VALID_SEATS : \A a : Valid(c, s, seat, a) => seat \in Acting(c, s)
<1>1. Chance(c, s) => ~Terminal(c, s)
  BY LiarsDiceOver
     DEF Chance, HasChance, PigChance, LiarsDiceChance, Terminal, Result, PigTerminal,
         LiarsDiceTerminal
<1>2. Chance(c, s) => ~Joint(c, s)
  BY GameActing DEF Chance, HasChance
<1>3. Joint(c, s) => ~Terminal(c, s) /\ ~Chance(c, s)
  BY GameActing DEF Chance, HasChance
<1>4. ASSUME NEW seat, NEW a, Valid(c, s, seat, a)
      PROVE  /\ ~Terminal(c, s) /\ ~Chance(c, s)
             /\ seat \in VALID_SEATS => seat \in Acting(c, s)
  <2>1. CASE c.game = "nim" /\ c \in NimConfigs
    BY <1>4, <2>1 DEF Valid, NimValid, NimTerminal, Terminal, Result, Chance, HasChance, Acting
  <2>2. CASE c.game = "pig" /\ c \in PigConfigs
    BY <1>4, <2>2 DEF Valid, PigValid, PigTerminal, Terminal, Result, Chance, PigChance, Acting
  <2>3. CASE c.game = "rps" /\ c \in RpsConfigs
    BY <1>4, <2>3, RpsOver DEF Valid, RpsValid, Terminal, Result, Chance, HasChance, Acting,
                              RpsActing
  <2>4. CASE c.game = "liarsdice" /\ c \in LiarsDiceConfigs
    BY <1>4, <2>4 DEF Valid, LiarsDiceValid, LiarsDiceTerminal, Terminal, Result, Chance, Acting
  <2>5. CASE c.game = "tictactoe" /\ c \in TicTacToeConfigs
    BY <1>4, <2>5 DEF Valid, TicTacToeValid, TicTacToeTerminal, Terminal, Result, Chance,
                     HasChance, Acting
  <2>6. CASE c.game = "connect4" /\ c \in Connect4Configs
    BY <1>4, <2>6 DEF Valid, Connect4Valid, Connect4Terminal, Terminal, Result, Chance,
                     HasChance, Acting
  <2> QED BY <2>1, <2>2, <2>3, <2>4, <2>5, <2>6, GameIs
<1> QED BY <1>1, <1>2, <1>3, <1>4

----------------------------------------------------------------------------
(* A match is played: every turn is one a game at the state before makes. *)

ChanceTurn(c, s, o) == Turn("chance", NoSeat, NoData, <<>>, o, ApplyChance(c, s, o))

ActionTurn(c, s, seat, a) == Turn("action", seat, a, <<>>, NoData, Apply(c, s, seat, a))

RoundTurn(c, s, actions) ==
  Turn("joint", NoSeat, NoData, <<actions>>, NoData, ApplyJoint(c, s, actions))

Made(c, s, t) ==
  \/ Chance(c, s) /\ \E o \in Outcomes(c, s) : t = ChanceTurn(c, s, o)
  \/ \E actions \in [VALID_SEATS -> Actions(c)] :
        JointValid(c, s, actions) /\ t = RoundTurn(c, s, actions)
  \/ /\ Sequential(c) /\ ~Joint(c, s)
     /\ \E seat \in VALID_SEATS, a \in Actions(c) :
           Valid(c, s, seat, a) /\ t = ActionTurn(c, s, seat, a)

IsSeq(s) == \E T : s \in Seq(T)

\* The state after n turns.
StateAfter(c, turns, n) == IF n = 0 THEN Initial(c) ELSE turns[n].post_state

IsPlayed(c, turns) ==
  /\ IsSeq(turns)
  /\ \A i \in 1..Len(turns) :
        /\ Made(c, StateAfter(c, turns, i - 1), turns[i])
        /\ turns[i].post_state \in StatesOf(c)
        /\ turns[i].result = Result(c, turns[i].post_state)

MatchOf(c, turns) ==
  [config |-> c, initial_state |-> Initial(c), state |-> StateAfter(c, turns, Len(turns)),
   turns |-> turns]

Played(c, m) == IsPlayed(c, m.turns) /\ m = MatchOf(c, m.turns)

\* A turn that is made leaves a state of the game, with its result.
LEMMA MadeIs ==
  ASSUME NEW c \in GameConfigs, NEW s \in StatesOf(c), NEW t, Made(c, s, t)
  PROVE  /\ t.post_state \in StatesOf(c) /\ t.result = Result(c, t.post_state)
         /\ ~Terminal(c, s)
<1>1. CASE Chance(c, s) /\ \E o \in Outcomes(c, s) : t = ChanceTurn(c, s, o)
  <2>1. PICK o \in Outcomes(c, s) : t = ChanceTurn(c, s, o)
    BY <1>1
  <2>2. /\ t.post_state = ApplyChance(c, s, o).state
        /\ t.result = ApplyChance(c, s, o).result
    BY <2>1 DEF ChanceTurn, Turn
  <2> QED BY <1>1, <2>2, GameRolls, GameLive
<1>2. CASE \E actions \in [VALID_SEATS -> Actions(c)] :
              JointValid(c, s, actions) /\ t = RoundTurn(c, s, actions)
  <2>1. PICK actions \in [VALID_SEATS -> Actions(c)] :
              JointValid(c, s, actions) /\ t = RoundTurn(c, s, actions)
    BY <1>2
  <2>2. /\ t.post_state = ApplyJoint(c, s, actions).state
        /\ t.result = ApplyJoint(c, s, actions).result
    BY <2>1 DEF RoundTurn, Turn
  <2>3. Joint(c, s) /\ actions \in [Acting(c, s) -> Actions(c)]
    BY <2>1, GameActing DEF JointValid
  <2> QED BY <2>1, <2>2, <2>3, GameRounds, GameLive
<1>3. CASE /\ Sequential(c)
           /\ \E seat \in VALID_SEATS, a \in Actions(c) :
                 Valid(c, s, seat, a) /\ t = ActionTurn(c, s, seat, a)
  <2>1. PICK seat \in VALID_SEATS, a \in Actions(c) :
                 Valid(c, s, seat, a) /\ t = ActionTurn(c, s, seat, a)
    BY <1>3
  <2>2. /\ t.post_state = Apply(c, s, seat, a).state
        /\ t.result = Apply(c, s, seat, a).result
    BY <2>1 DEF ActionTurn, Turn
  <2> QED BY <1>3, <2>1, <2>2, GameMoves, GameLive
<1> QED BY <1>1, <1>2, <1>3 DEF Made

\* A fresh match has been played, and so has a played one after one more turn.
LEMMA FreshPlayed ==
  ASSUME NEW c \in GameConfigs
  PROVE  Played(c, Fresh(c)) /\ Fresh(c).turns = <<>> /\ Fresh(c).state = Initial(c)
<1>1. Fresh(c).turns = <<>> /\ Fresh(c).state = Initial(c)
  BY DEF Fresh
<1>2. IsPlayed(c, <<>>)
  <2>1. <<>> \in Seq({}) /\ Len(<<>>) = 0
    OBVIOUS
  <2> QED BY <2>1 DEF IsPlayed, IsSeq
<1>3. MatchOf(c, <<>>) = Fresh(c)
  BY DEF MatchOf, Fresh, StateAfter
<1> QED BY <1>1, <1>2, <1>3 DEF Played

\* A sequence and one more element, position by position.
LEMMA SeqAppend ==
  ASSUME NEW s, IsSeq(s), NEW e
  PROVE  /\ IsSeq(Append(s, e)) /\ Len(s) \in Nat /\ Len(Append(s, e)) = Len(s) + 1
         /\ DOMAIN s = 1..Len(s) /\ DOMAIN Append(s, e) = 1..(Len(s) + 1)
         /\ Append(s, e)[Len(s) + 1] = e
         /\ \A i \in 1..Len(s) : Append(s, e)[i] = s[i]
         /\ s \o <<e>> = Append(s, e) /\ s \o <<>> = s
<1>1. PICK T : s \in Seq(T)
  BY DEF IsSeq
<1> DEFINE U == T \cup {e}
<1>2. s \in Seq(U) /\ e \in U
  BY <1>1
<1> HIDE DEF U
<1>3. Append(s, e) \in Seq(U)
  BY <1>2
<1>4. s \o <<e>> = Append(s, e) /\ s \o <<>> = s
  BY <1>2
<1> QED BY <1>2, <1>3, <1>4 DEF IsSeq

\* The states after each turn that was played are the game's.
LEMMA PlayedStates ==
  ASSUME NEW c \in GameConfigs, NEW turns, IsPlayed(c, turns)
  PROVE  /\ Len(turns) \in Nat /\ DOMAIN turns = 1..Len(turns)
         /\ \A n \in 0..Len(turns) : StateAfter(c, turns, n) \in StatesOf(c)
<1>1. Len(turns) \in Nat /\ DOMAIN turns = 1..Len(turns)
  BY SeqAppend DEF IsPlayed
<1>2. ASSUME NEW n \in 0..Len(turns) PROVE StateAfter(c, turns, n) \in StatesOf(c)
  <2>1. n = 0 \/ n \in 1..Len(turns)
    BY <1>1
  <2> QED BY <2>1, GameStarts DEF StateAfter, IsPlayed
<1> QED BY <1>1, <1>2

\* The fields of a match that was played.
LEMMA MatchIs ==
  ASSUME NEW c \in GameConfigs, NEW m, Played(c, m)
  PROVE  /\ m.config = c /\ m.initial_state = Initial(c)
         /\ m.state = StateAfter(c, m.turns, Len(m.turns)) /\ m.state \in StatesOf(c)
         /\ Len(m.turns) \in Nat /\ DOMAIN m.turns = 1..Len(m.turns) /\ IsPlayed(c, m.turns)
         /\ m = [config |-> m.config, initial_state |-> m.initial_state, state |-> m.state,
                 turns |-> m.turns]
<1>1. IsPlayed(c, m.turns) /\ m = MatchOf(c, m.turns)
  BY DEF Played
<1>2. /\ m.config = c /\ m.initial_state = Initial(c)
      /\ m.state = StateAfter(c, m.turns, Len(m.turns))
  BY <1>1 DEF MatchOf
<1>3. Len(m.turns) \in Nat /\ Len(m.turns) \in 0..Len(m.turns) /\ DOMAIN m.turns = 1..Len(m.turns)
  BY <1>1, PlayedStates
<1> QED BY <1>1, <1>2, <1>3, PlayedStates DEF MatchOf

\* A played match after one more turn that is made has been played too.
LEMMA AfterPlayed ==
  ASSUME NEW c \in GameConfigs, NEW m, Played(c, m), NEW t, Made(c, m.state, t)
  PROVE  /\ Played(c, After(m, t))
         /\ After(m, t).turns = Append(m.turns, t)
         /\ After(m, t).state = t.post_state
<1>1. /\ m.config = c /\ m.initial_state = Initial(c)
      /\ m.state = StateAfter(c, m.turns, Len(m.turns)) /\ m.state \in StatesOf(c)
      /\ Len(m.turns) \in Nat /\ IsPlayed(c, m.turns)
      /\ m = [config |-> m.config, initial_state |-> m.initial_state, state |-> m.state,
              turns |-> m.turns]
  BY MatchIs
<1> DEFINE new == After(m, t)
           turns == Append(m.turns, t)
<1>2. /\ new.turns = turns /\ new.state = t.post_state
      /\ new = [config |-> c, initial_state |-> Initial(c), state |-> t.post_state,
                turns |-> turns]
  <2>1. m \in [config : {c}, initial_state : {Initial(c)}, state : {m.state}, turns : {m.turns}]
    BY <1>1
  <2>2. new \in [config : {c}, initial_state : {Initial(c)}, state : {t.post_state},
                 turns : {turns}]
    BY <2>1 DEF After
  <2> QED BY <2>2
<1>3. /\ IsSeq(turns) /\ Len(turns) = Len(m.turns) + 1
      /\ turns[Len(m.turns) + 1] = t
      /\ \A i \in 1..Len(m.turns) : turns[i] = m.turns[i]
  BY <1>1, SeqAppend DEF IsPlayed
<1> HIDE DEF turns, new
<1>4. ASSUME NEW n \in 0..Len(m.turns) PROVE StateAfter(c, turns, n) = StateAfter(c, m.turns, n)
  <2>1. n = 0 \/ n \in 1..Len(m.turns)
    BY <1>1
  <2> QED BY <1>3, <2>1 DEF StateAfter
<1>5. ASSUME NEW i \in 1..Len(turns)
      PROVE  /\ Made(c, StateAfter(c, turns, i - 1), turns[i])
             /\ turns[i].post_state \in StatesOf(c)
             /\ turns[i].result = Result(c, turns[i].post_state)
  <2>1. CASE i = Len(m.turns) + 1
    <3>1. i - 1 \in 0..Len(m.turns) /\ i - 1 = Len(m.turns)
      BY <1>1, <2>1
    <3>2. StateAfter(c, turns, i - 1) = m.state /\ turns[i] = t
      BY <1>1, <1>3, <1>4, <2>1, <3>1
    <3> QED BY <1>1, <3>2, MadeIs
  <2>2. CASE i \in 1..Len(m.turns)
    <3>1. i - 1 \in 0..Len(m.turns)
      BY <1>1, <2>2
    <3> QED BY <1>1, <1>3, <1>4, <2>2, <3>1 DEF IsPlayed
  <2>3. i = Len(m.turns) + 1 \/ i \in 1..Len(m.turns)
    BY <1>1, <1>3
  <2> QED BY <2>1, <2>2, <2>3
<1>6. IsPlayed(c, turns)
  BY <1>3, <1>5 DEF IsPlayed
<1>7. StateAfter(c, turns, Len(turns)) = t.post_state
  BY <1>1, <1>3 DEF StateAfter
<1>8. new = MatchOf(c, turns)
  BY <1>2, <1>7 DEF MatchOf
<1> QED BY <1>2, <1>6, <1>8 DEF Played, new, turns

\* A roll of the dice is a turn that is made.
LEMMA RollMade ==
  ASSUME NEW c \in GameConfigs, NEW m, Played(c, m), Chance(c, m.state),
         NEW o \in Outcomes(c, m.state)
  PROVE  /\ Made(c, m.state, ChanceTurn(c, m.state, o))
         /\ ResolveOne(m, o) = After(m, ChanceTurn(c, m.state, o))
         /\ Played(c, ResolveOne(m, o)) /\ ~Chance(c, ResolveOne(m, o).state)
<1>1. m.config = c /\ m.state \in StatesOf(c)
  BY MatchIs
<1>2. Made(c, m.state, ChanceTurn(c, m.state, o))
  BY DEF Made
<1>3. ResolveOne(m, o) = After(m, ChanceTurn(c, m.state, o))
  BY <1>1 DEF ResolveOne, ChanceTurn
<1>4. ChanceTurn(c, m.state, o).post_state = ApplyChance(c, m.state, o).state
  BY DEF ChanceTurn, Turn
<1>5. ~Chance(c, ChanceTurn(c, m.state, o).post_state)
  BY <1>1, <1>4, GameRolls
<1> QED BY <1>2, <1>3, <1>5, AfterPlayed

\* Draining the chance nodes takes at most one roll, in the shipped games.
LEMMA SettledIs ==
  ASSUME NEW c \in GameConfigs, NEW m, Played(c, m), NEW x \in Settled(m)
  PROVE  /\ ~Chance(c, x.state) /\ Played(c, x)
         /\ \/ x = m
            \/ Chance(c, m.state) /\ \E o \in Outcomes(c, m.state) : x = ResolveOne(m, o)
<1> DEFINE N == MAX_CONSECUTIVE_CHANCE_STEPS
           Step(f) == [n \in 0..N |-> IF n = 0 THEN {m} ELSE UNION {Sampled(y) : y \in f[n - 1]}]
           drained == CHOOSE f : f = Step(f)
           once == [n \in 0..N |-> IF n = 0 THEN {m} ELSE Sampled(m)]
<1>0. N = 128 /\ N \in Nat
  BY DEF MAX_CONSECUTIVE_CHANCE_STEPS
<1>1. Settled(m) = {y \in drained[N] : ~Chance(y.config, y.state)}
  BY DEF Settled
<1>2. m.config = c
  BY MatchIs
<1>3. ASSUME NEW y \in Sampled(m)
      PROVE  /\ y.config = c /\ ~Chance(c, y.state) /\ Played(c, y)
             /\ Sampled(y) = {y}
             /\ \/ y = m
                \/ Chance(c, m.state) /\ \E o \in Outcomes(c, m.state) : y = ResolveOne(m, o)
  <2>1. CASE Chance(c, m.state)
    <3>1. PICK o \in Outcomes(c, m.state) : y = ResolveOne(m, o)
      BY <1>2, <2>1 DEF Sampled
    <3>2. Played(c, y) /\ ~Chance(c, y.state)
      BY <2>1, <3>1, RollMade
    <3>3. y.config = c
      BY <3>2, MatchIs
    <3> QED BY <2>1, <3>1, <3>2, <3>3 DEF Sampled
  <2>2. CASE ~Chance(c, m.state)
    BY <1>2, <2>2 DEF Sampled
  <2> QED BY <2>1, <2>2
<1>4. once = Step(once)
  <2> SUFFICES ASSUME NEW n \in 0..N PROVE once[n] = Step(once)[n]
    OBVIOUS
  <2>1. CASE n = 0
    BY <2>1
  <2>2. CASE n = 1
    <3>1. 0 \in 0..N /\ n - 1 = 0 /\ once[0] = {m}
      BY <1>0, <2>2
    <3>2. UNION {Sampled(y) : y \in {m}} = Sampled(m)
      OBVIOUS
    <3> QED BY <2>2, <3>1, <3>2
  <2>3. CASE n # 0 /\ n # 1
    <3>1. n - 1 \in 0..N /\ n - 1 # 0
      BY <1>0, <2>3
    <3>2. once[n - 1] = Sampled(m)
      BY <3>1
    <3>3. UNION {Sampled(y) : y \in Sampled(m)} = Sampled(m)
      <4>1. \A y \in Sampled(m) : Sampled(y) = {y}
        BY <1>3
      <4> QED BY <4>1
    <3> QED BY <2>3, <3>2, <3>3
  <2> QED BY <2>1, <2>2, <2>3
<1>5. drained = Step(drained)
  <2> HIDE DEF Step, once
  <2> QED BY <1>4
<1>6. \A n \in 0..N : drained[n] = once[n]
  <2> DEFINE wrong == {n \in 0..N : drained[n] # once[n]}
  <2> SUFFICES ASSUME wrong # {} PROVE FALSE
    OBVIOUS
  <2>1. wrong \in SUBSET Nat
    BY <1>0
  <2>2. PICK n \in wrong : \A k \in wrong : n <= k
    <3> HIDE DEF wrong
    <3> QED BY <2>1, LeastExists
  <2>3. n \in 0..N /\ drained[n] # once[n]
    OBVIOUS
  <2>4. drained[n] = Step(drained)[n] /\ once[n] = Step(once)[n]
    <3> HIDE DEF Step, drained, once
    <3> QED BY <1>4, <1>5
  <2>5. CASE n = 0
    <3>1. drained[n] = {m} /\ once[n] = {m}
      <4> HIDE DEF drained, once
      <4> QED BY <2>3, <2>4, <2>5
    <3> QED BY <2>3, <3>1
  <2>6. CASE n # 0
    <3>1. n - 1 \in 0..N /\ ~(n <= n - 1)
      <4>1. n \in 0..N
        BY <2>3
      <4> HIDE DEF drained, once
      <4> QED BY <1>0, <2>6, <4>1
    <3>2. drained[n - 1] = once[n - 1]
      <4>1. n - 1 \notin wrong
        BY <2>2, <3>1
      <4> QED BY <3>1, <4>1
    <3>3. /\ drained[n] = UNION {Sampled(y) : y \in drained[n - 1]}
          /\ once[n] = UNION {Sampled(y) : y \in once[n - 1]}
      <4> HIDE DEF drained, once
      <4> QED BY <2>3, <2>4, <2>6
    <3> HIDE DEF drained, once
    <3> QED BY <2>3, <3>2, <3>3
  <2> QED BY <2>5, <2>6
<1> HIDE DEF drained, Step
<1>7. drained[N] = Sampled(m)
  BY <1>0, <1>6
<1>8. x \in Sampled(m)
  BY <1>1, <1>7
<1> QED BY <1>3, <1>8

\* What the three kinds of step leave, in a match that is played.
LEMMA StartPlayed ==
  ASSUME NEW c \in GameConfigs, NEW x \in StartMatch(c)
  PROVE  Played(c, x) /\ ~Chance(c, x.state)
  BY FreshPlayed, SettledIs DEF StartMatch

\* An accepted action is a turn that is made.
LEMMA MovePlayed ==
  ASSUME NEW c \in GameConfigs, NEW m, Played(c, m), NEW seat \in VALID_SEATS,
         NEW a \in Actions(c), ActionAccepted(m, seat, a)
  PROVE  /\ Made(c, m.state, ActionTurn(c, m.state, seat, a))
         /\ AfterAction(m, seat, a) = After(m, ActionTurn(c, m.state, seat, a))
         /\ Played(c, AfterAction(m, seat, a))
         /\ AfterAction(m, seat, a).turns = Append(m.turns, ActionTurn(c, m.state, seat, a))
<1>1. m.config = c
  BY MatchIs
<1>2. Made(c, m.state, ActionTurn(c, m.state, seat, a))
  BY <1>1 DEF Made, ActionAccepted
<1>3. AfterAction(m, seat, a) = After(m, ActionTurn(c, m.state, seat, a))
  BY <1>1 DEF AfterAction, ActionTurn
<1> QED BY <1>2, <1>3, AfterPlayed

\* A valid joint round is a turn that is made, and leaves no chance node.
LEMMA RoundPlayed ==
  ASSUME NEW c \in GameConfigs, NEW m, Played(c, m), NEW actions,
         actions \in [VALID_SEATS -> Actions(c)], JointValid(c, m.state, actions)
  PROVE  /\ Made(c, m.state, RoundTurn(c, m.state, actions))
         /\ AfterJoint(m, actions) = After(m, RoundTurn(c, m.state, actions))
         /\ Played(c, AfterJoint(m, actions))
         /\ AfterJoint(m, actions).turns = Append(m.turns, RoundTurn(c, m.state, actions))
         /\ ~Chance(c, AfterJoint(m, actions).state)
<1>1. m.config = c /\ m.state \in StatesOf(c)
  BY MatchIs
<1>2. Made(c, m.state, RoundTurn(c, m.state, actions))
  BY DEF Made
<1>3. AfterJoint(m, actions) = After(m, RoundTurn(c, m.state, actions))
  BY <1>1 DEF AfterJoint, RoundTurn
<1>4. c.game = "rps"
  BY <1>1, GameActing DEF JointValid
<1> QED BY <1>2, <1>3, <1>4, AfterPlayed DEF Chance, HasChance

----------------------------------------------------------------------------
(* The session and its match *)

ConfigOk == config \in Configs /\ bindings \in BoundSeats

\* The match is one that was played, and waits at no chance node.
MatchOk ==
  \/ match = <<>>
  \/ /\ match = <<TheMatch>>
     /\ Played(config, TheMatch)
     /\ ~Chance(config, TheMatch.state)

\* The lifecycle follows the match: it is finished exactly when the match is
\* over, and a turn is requested only of the seat a live match waits for.
LifecycleOk ==
  /\ lifecycle \in Lifecycles
  /\ lifecycle = "created" <=> match = <<>>
  /\ Started => (lifecycle = "finished" <=> Over(TheMatch))
  /\ requested # NoSeat =>
        /\ lifecycle = "running" /\ ~JointNow
        /\ requested \in VALID_SEATS /\ ActingNow = {requested}

\* An abort has a reason and a cause, and only an aborted session has one.
AbortOk ==
  \/ lifecycle # "aborted" /\ abort = NoData
  \/ /\ lifecycle = "aborted"
     /\ abort = [reason |-> abort.reason, cause |-> abort.cause]
     /\ abort.reason \in AbortReasons

\* The artefacts are the full records of the session as it ended.
ArtefactsOk ==
  \/ artefacts = <<>>
  \/ /\ lifecycle \in {"finished", "aborted"}
     /\ artefacts = <<DumpStatus(Session, FULL_VIEW), DumpRuntime(Session, FULL_VIEW)>>

SessionOk == ConfigOk /\ MatchOk /\ LifecycleOk /\ AbortOk /\ ArtefactsOk

\* A session that was created is as SessionOk says.
LEMMA SessionInit ==
  ASSUME Init PROVE SessionOk
  BY DEF Init, SessionOk, ConfigOk, MatchOk, LifecycleOk, AbortOk, ArtefactsOk, Started, Lifecycles

\* A match put in a sequence of one is that sequence's first.
LEMMA OneMatch ==
  ASSUME NEW m PROVE <<m>>[1] = m /\ <<m>> # <<>> /\ <<m>> = <<<<m>>[1]>>
  OBVIOUS

\* What is known of a session whose match has started.
LEMMA StartedIs ==
  ASSUME SessionOk, Started
  PROVE  /\ config \in GameConfigs /\ Played(config, TheMatch) /\ TheMatch.config = config
         /\ TheMatch.state \in StatesOf(config) /\ ~Chance(config, TheMatch.state)
         /\ match = <<TheMatch>> /\ lifecycle # "created"
         /\ Over(TheMatch) <=> Terminal(config, TheMatch.state)
         /\ lifecycle = "finished" <=> Over(TheMatch)
         /\ ~Over(TheMatch) => ActingNow # {}
<1>1. config \in GameConfigs
  BY RuntimeAssumption DEF SessionOk, ConfigOk
<1>2. Played(config, TheMatch) /\ ~Chance(config, TheMatch.state) /\ match = <<TheMatch>>
  BY DEF SessionOk, MatchOk, Started
<1>3. TheMatch.config = config /\ TheMatch.state \in StatesOf(config)
  BY <1>1, <1>2, MatchIs
<1>4. lifecycle # "created" /\ (lifecycle = "finished" <=> Over(TheMatch))
  BY DEF SessionOk, LifecycleOk, Started
<1>5. Over(TheMatch) <=> Terminal(config, TheMatch.state)
  BY <1>3 DEF Over
<1> QED BY <1>1, <1>2, <1>3, <1>4, <1>5, GameActing DEF ActingNow

\* A live match waits for the requested seat, or for both seats of a round.
LEMMA RunningIs ==
  ASSUME SessionOk, lifecycle = "running"
  PROVE  /\ Started /\ ~Over(TheMatch) /\ ActingNow # {} /\ ActingNow \subseteq VALID_SEATS
         /\ JointNow => ActingNow = VALID_SEATS
         /\ ~JointNow => /\ CurrentSeat(TheMatch) \in VALID_SEATS
                         /\ ActingNow = {CurrentSeat(TheMatch)}
         /\ artefacts = <<>> /\ abort = NoData
<1>1. Started
  BY DEF SessionOk, LifecycleOk, Started
<1>2. /\ config \in GameConfigs /\ TheMatch.config = config
      /\ TheMatch.state \in StatesOf(config) /\ ~Over(TheMatch) /\ ActingNow # {}
  BY <1>1, StartedIs
<1>3. /\ ActingNow \subseteq VALID_SEATS
      /\ JointNow => ActingNow = VALID_SEATS
  BY <1>2, GameActing DEF ActingNow, JointNow
<1>4. ASSUME ~JointNow
      PROVE  CurrentSeat(TheMatch) \in VALID_SEATS /\ ActingNow = {CurrentSeat(TheMatch)}
  <2>1. PICK seat \in VALID_SEATS : ActingNow = {seat} /\ Cardinality(ActingNow) = 1
    BY <1>2, <1>4, GameActing DEF ActingNow, JointNow
  <2>2. CurrentSeat(TheMatch) = CHOOSE x \in ActingNow : TRUE
    BY <1>2, <2>1 DEF CurrentSeat, ActingNow
  <2> QED BY <2>1, <2>2
<1>5. artefacts = <<>> /\ abort = NoData
  BY DEF SessionOk, ArtefactsOk, AbortOk
<1> QED BY <1>1, <1>2, <1>3, <1>4, <1>5

\* The rules agree in every session that is as described.
LEMMA RulesAgreeHolds ==
  ASSUME SessionOk PROVE RulesAgree
<1> SUFFICES ASSUME Started PROVE RulesAgree
  BY DEF RulesAgree
<1>1. /\ config \in GameConfigs /\ Played(config, TheMatch) /\ TheMatch.config = config
      /\ TheMatch.state \in StatesOf(config)
      /\ ~Over(TheMatch) => ActingNow # {}
  BY StartedIs
<1>2. ASSUME NEW seat \in VALID_SEATS
      PROVE Legal(config, TheMatch.state, seat)
              = {a \in Actions(config) : Valid(config, TheMatch.state, seat, a)}
  BY <1>1, GameAgrees
<1>3. GameState(config, TheMatch.state)
  BY <1>1, GameAgrees DEF VALID_SEATS
<1>4. ASSUME TheMatch.turns # <<>> PROVE LastTurn.result = Result(config, TheMatch.state)
  <2>1. /\ IsPlayed(config, TheMatch.turns) /\ Len(TheMatch.turns) \in Nat
        /\ DOMAIN TheMatch.turns = 1..Len(TheMatch.turns)
        /\ TheMatch.state = StateAfter(config, TheMatch.turns, Len(TheMatch.turns))
    BY <1>1, MatchIs
  <2>2. Len(TheMatch.turns) # 0
    BY <1>4, <2>1 DEF IsPlayed, IsSeq
  <2>3. Len(TheMatch.turns) \in 1..Len(TheMatch.turns)
    BY <2>1, <2>2
  <2> QED BY <2>1, <2>2, <2>3 DEF IsPlayed, LastTurn, StateAfter
<1>5. Over(TheMatch) \/ Acting(config, TheMatch.state) # {}
  BY <1>1 DEF ActingNow
<1> QED BY <1>2, <1>3, <1>4, <1>5 DEF RulesAgree

\* An abort keeps the match, and says why.
LEMMA AbortStep ==
  ASSUME SessionOk, lifecycle = "running", config' = config, bindings' = bindings,
         match' = match, lifecycle' = "aborted", requested' = NoSeat, artefacts' = artefacts,
         NEW reason \in AbortReasons, NEW cause, abort' = [reason |-> reason, cause |-> cause]
  PROVE  SessionOk'
<1>1. Started /\ ~Over(TheMatch) /\ artefacts = <<>>
  BY RunningIs
<1>2. ConfigOk'
  BY DEF SessionOk, ConfigOk
<1>3. MatchOk'
  BY DEF SessionOk, MatchOk, TheMatch
<1>4. LifecycleOk'
  <2>1. match # <<>> /\ ~Over(match[1])
    BY <1>1 DEF Started, TheMatch
  <2> QED BY <2>1 DEF LifecycleOk, Lifecycles, Started, TheMatch
<1>5. AbortOk'
  BY DEF AbortOk
<1>6. ArtefactsOk'
  BY <1>1 DEF ArtefactsOk
<1> QED BY <1>2, <1>3, <1>4, <1>5, <1>6 DEF SessionOk

\* A step plays on, and the session is over when the match is.
LEMMA AdvanceStep ==
  ASSUME SessionOk, lifecycle \in {"created", "running"}, NEW m, Played(config, m),
         ~Chance(config, m.state), match' = <<m>>,
         lifecycle' = IF Over(m) THEN "finished" ELSE "running",
         config' = config, bindings' = bindings, abort' = abort, requested' = NoSeat,
         artefacts' = artefacts
  PROVE  SessionOk'
<1>1. artefacts = <<>> /\ abort = NoData
  BY DEF SessionOk, ArtefactsOk, AbortOk
<1>2. TheMatch' = m /\ match' # <<>> /\ match' = <<TheMatch'>>
  BY DEF TheMatch
<1>3. ConfigOk'
  BY DEF SessionOk, ConfigOk
<1>4. MatchOk'
  <2>1. match' = <<TheMatch'>> /\ Played(config', TheMatch') /\ ~Chance(config', TheMatch'.state)
    BY <1>2
  <2> QED BY <2>1 DEF MatchOk
<1>5. LifecycleOk'
  <2>1. lifecycle' \in Lifecycles /\ lifecycle' # "created"
        /\ (lifecycle' = "finished" <=> Over(TheMatch'))
    BY <1>2 DEF Lifecycles
  <2> QED BY <1>2, <2>1 DEF LifecycleOk, Started
<1>6. AbortOk' /\ ArtefactsOk'
  BY <1>1 DEF AbortOk, ArtefactsOk
<1> QED BY <1>3, <1>4, <1>5, <1>6 DEF SessionOk

\* A seat is requested only while the match runs, and is the one to act.
LEMMA AskedIs ==
  ASSUME SessionOk, requested # NoSeat
  PROVE  /\ lifecycle = "running" /\ ~JointNow /\ requested \in VALID_SEATS
         /\ ActingNow = {requested}
  BY DEF SessionOk, LifecycleOk

\* An accepted answer is one of the seat that was asked.
LEMMA AnswerIs ==
  ASSUME SessionOk, requested # NoSeat, NEW seat \in VALID_SEATS, NEW a \in Actions(config),
         ActionAccepted(TheMatch, seat, a), NEW next \in Settled(AfterAction(TheMatch, seat, a))
  PROVE  /\ seat = requested
         /\ Played(config, AfterAction(TheMatch, seat, a))
         /\ Played(config, next) /\ ~Chance(config, next.state)
<1>1. Started /\ lifecycle = "running" /\ ActingNow = {requested}
  BY AskedIs, RunningIs
<1>2. /\ config \in GameConfigs /\ Played(config, TheMatch) /\ TheMatch.config = config
      /\ TheMatch.state \in StatesOf(config)
  BY <1>1, StartedIs
<1>3. seat \in ActingNow
  BY <1>2, GameLive DEF ActingNow, ActionAccepted
<1>4. Played(config, AfterAction(TheMatch, seat, a))
  BY <1>2, MovePlayed
<1> QED BY <1>1, <1>2, <1>3, <1>4, SettledIs

\* An accepted round is one of both seats.
LEMMA RoundIs ==
  ASSUME SessionOk, lifecycle = "running", JointNow,
         NEW actions \in [ActingNow -> Actions(config)], JointValid(config, TheMatch.state, actions)
  PROVE  /\ actions \in [VALID_SEATS -> Actions(config)]
         /\ Played(config, AfterJoint(TheMatch, actions))
         /\ ~Chance(config, AfterJoint(TheMatch, actions).state)
<1>1. Started /\ ActingNow = VALID_SEATS
  BY RunningIs
<1>2. config \in GameConfigs /\ Played(config, TheMatch)
  BY <1>1, StartedIs
<1>3. actions \in [VALID_SEATS -> Actions(config)]
  BY <1>1
<1> QED BY <1>2, <1>3, RoundPlayed

\* Every step keeps SessionOk.
LEMMA SessionNext ==
  ASSUME SessionOk, [Next]_vars PROVE SessionOk'
<1>1. CASE StartSession
  <2>1. PICK m \in StartMatch(config) :
          match' = <<m>> /\ lifecycle' = IF Over(m) THEN "finished" ELSE "running"
    BY <1>1 DEF StartSession
  <2>2. config \in GameConfigs
    BY RuntimeAssumption DEF SessionOk, ConfigOk
  <2>3. Played(config, m) /\ ~Chance(config, m.state)
    BY <2>2, StartPlayed
  <2>4. requested = NoSeat
    BY <1>1, AskedIs DEF StartSession
  <2> QED BY <1>1, <2>1, <2>3, <2>4, AdvanceStep DEF StartSession
<1>2. CASE RequestTurn
  <2>1. lifecycle = "running" /\ ~JointNow /\ requested' = CurrentSeat(TheMatch)
    BY <1>2 DEF RequestTurn, Playing
  <2>2. CurrentSeat(TheMatch) \in VALID_SEATS /\ ActingNow = {CurrentSeat(TheMatch)}
    BY <2>1, RunningIs
  <2>3. /\ UNCHANGED <<config, bindings, lifecycle, match, abort, artefacts>>
        /\ TheMatch' = TheMatch
    BY <1>2 DEF RequestTurn, TheMatch
  <2>4. LifecycleOk'
    <3>1. JointNow' = JointNow /\ ActingNow' = ActingNow /\ Started' = Started
      BY <2>3 DEF JointNow, ActingNow, Started
    <3> QED BY <2>1, <2>2, <2>3, <3>1 DEF SessionOk, LifecycleOk
  <2>5. ArtefactsOk'
    BY <2>1, <2>3 DEF SessionOk, ArtefactsOk
  <2>6. ConfigOk' /\ MatchOk' /\ AbortOk'
    BY <2>3 DEF SessionOk, ConfigOk, MatchOk, AbortOk
  <2> QED BY <2>4, <2>5, <2>6 DEF SessionOk
<1>3. CASE PolicyMissing
  <2>1. lifecycle = "running"
    BY <1>3, AskedIs DEF PolicyMissing
  <2> QED BY <1>3, <2>1, AbortStep DEF PolicyMissing, AbortWith, AbortReasons
<1>4. CASE PolicyAnswers
  <2>1. requested # NoSeat /\ lifecycle = "running"
    BY <1>4, AskedIs DEF PolicyAnswers, Asked
  <2>2. PICK r \in [seat : VALID_SEATS, action : Actions(config)],
             retried \in MayRetry({requested}) :
          LET notes == Notes(retried, {requested} \cap Agents)
          IN IF ActionAccepted(TheMatch, r.seat, r.action)
             THEN \E next \in Settled(AfterAction(TheMatch, r.seat, r.action)) :
                      AdvanceTo(next, <<TurnAccepted(requested)>>, notes)
             ELSE AbortWith("core_error", Text(<<>>), <<>>, notes)
    BY <1>4 DEF PolicyAnswers
  <2>3. CASE ActionAccepted(TheMatch, r.seat, r.action)
    <3>1. PICK next \in Settled(AfterAction(TheMatch, r.seat, r.action)) :
            AdvanceTo(next, <<TurnAccepted(requested)>>, Notes(retried, {requested} \cap Agents))
      BY <2>2, <2>3
    <3>2. Played(config, next) /\ ~Chance(config, next.state)
      BY <2>1, <2>3, AnswerIs
    <3> QED BY <2>1, <3>1, <3>2, AdvanceStep DEF AdvanceTo
  <2>4. CASE ~ActionAccepted(TheMatch, r.seat, r.action)
    BY <2>1, <2>2, <2>4, AbortStep DEF AbortWith, AbortReasons
  <2> QED BY <2>3, <2>4
<1>5. CASE PolicyFails
  <2>1. lifecycle = "running"
    BY <1>5, AskedIs DEF PolicyFails, Asked
  <2> QED BY <1>5, <2>1, AbortStep DEF PolicyFails, AbortWith, AbortReasons
<1>6. CASE UserStops
  <2>1. lifecycle = "running"
    BY <1>6, AskedIs DEF UserStops, Asked
  <2> QED BY <1>6, <2>1, AbortStep DEF UserStops, AbortWith, AbortReasons
<1>7. CASE JointPolicyMissing
  <2>1. lifecycle = "running"
    BY <1>7 DEF JointPolicyMissing, JointTurn, Playing
  <2> QED BY <1>7, <2>1, AbortStep DEF JointPolicyMissing, AbortWith, AbortReasons
<1>8. CASE JointPoliciesAnswer
  <2>1. lifecycle = "running" /\ JointNow
    BY <1>8 DEF JointPoliciesAnswer, JointTurn, Playing
  <2>2. PICK actions \in [ActingNow -> Actions(config)], retried \in MayRetry(ActingNow) :
          LET notes == Notes(retried, ActingNow \cap Agents)
          IN IF JointValid(config, TheMatch.state, actions)
             THEN AdvanceTo(AfterJoint(TheMatch, actions),
                            AllRequested \o ForSeats(TurnAccepted, ActingNow), notes)
             ELSE AbortWith("core_error", Text(<<>>), AllRequested, notes)
    BY <1>8 DEF JointPoliciesAnswer
  <2>3. CASE JointValid(config, TheMatch.state, actions)
    <3>1. /\ Played(config, AfterJoint(TheMatch, actions))
          /\ ~Chance(config, AfterJoint(TheMatch, actions).state)
      BY <2>1, <2>3, RoundIs
    <3> QED BY <2>1, <2>2, <2>3, <3>1, AdvanceStep DEF AdvanceTo
  <2>4. CASE ~JointValid(config, TheMatch.state, actions)
    BY <2>1, <2>2, <2>4, AbortStep DEF AbortWith, AbortReasons
  <2> QED BY <2>3, <2>4
<1>9. CASE JointPolicyFails
  <2>1. lifecycle = "running"
    BY <1>9 DEF JointPolicyFails, JointTurn, Playing
  <2> QED BY <1>9, <2>1, AbortStep DEF JointPolicyFails, AbortWith, AbortReasons
<1>10. CASE JointUserStops
  <2>1. lifecycle = "running" /\ requested = NoSeat
    BY <1>10, AskedIs DEF JointUserStops, JointTurn, Playing
  <2> QED BY <1>10, <2>1, AbortStep DEF JointUserStops, AbortReasons
<1>11. CASE WriteArtefacts
  <2>1. /\ UNCHANGED <<config, bindings, lifecycle, match, events, abort, requested>>
        /\ lifecycle \in {"finished", "aborted"}
        /\ artefacts' = <<DumpStatus(Session, FULL_VIEW), DumpRuntime(Session, FULL_VIEW)>>
    BY <1>11 DEF WriteArtefacts
  <2>2. Session' = Session
    BY <2>1 DEF Session
  <2>3. ArtefactsOk'
    BY <2>1, <2>2 DEF ArtefactsOk
  <2>4. /\ TheMatch' = TheMatch /\ JointNow' = JointNow /\ ActingNow' = ActingNow
        /\ Started' = Started
    BY <2>1 DEF TheMatch, JointNow, ActingNow, Started
  <2>5. ConfigOk' /\ MatchOk' /\ LifecycleOk' /\ AbortOk'
    BY <2>1, <2>4 DEF SessionOk, ConfigOk, MatchOk, LifecycleOk, AbortOk
  <2> QED BY <2>3, <2>5 DEF SessionOk
<1>12. CASE UNCHANGED vars
  <2>1. Session' = Session /\ TheMatch' = TheMatch
    BY <1>12 DEF vars, Session, TheMatch
  <2>2. JointNow' = JointNow /\ ActingNow' = ActingNow /\ Started' = Started
    BY <1>12, <2>1 DEF vars, JointNow, ActingNow, Started
  <2> QED BY <1>12, <2>1, <2>2
          DEF vars, SessionOk, ConfigOk, MatchOk, LifecycleOk, AbortOk, ArtefactsOk
<1> QED BY <1>1, <1>2, <1>3, <1>4, <1>5, <1>6, <1>7, <1>8, <1>9, <1>10, <1>11, <1>12 DEF Next

\* The match of a session was played by its game's rules from its config, and the
\* lifecycle, the abort and the artefacts are those of that match.
THEOREM SessionInvariant == Spec => []SessionOk
<1>1. Init => SessionOk
  BY SessionInit
<1>2. SessionOk /\ [Next]_vars => SessionOk'
  BY SessionNext
<1> QED BY <1>1, <1>2, PTL DEF Spec

\* In every state a local match reaches, what the engine lists as legal is what
\* it accepts, the result it announced is the one it computes, and a match that
\* is not over waits for a seat.
THEOREM RulesAlwaysAgree == Spec => []RulesAgree
  BY SessionInvariant, RulesAgreeHolds, PTL

----------------------------------------------------------------------------
(* The events of a session tell the match *)

IndexOf(es, type) == {i \in 1..Len(es) : es[i].event_type = type}

OfSeat(es, type, seat) == {i \in IndexOf(es, type) : es[i].seat = seat}

\* The events before one, or up to one, that are of its seat.
SeatBefore(es, type, i) == {j \in IndexOf(es, type) : j < i /\ es[j].seat = es[i].seat}
SeatUpTo(es, type, i) == {j \in IndexOf(es, type) : j <= i /\ es[j].seat = es[i].seat}

(***************************************************************************)
(* The book of n turns: took[k] are the seats accepted for turn k, each     *)
(* once and after it was requested, and asked the seats that were requested *)
(* and have not been accepted since.                                        *)
(***************************************************************************)
Book(es, n, took, asked) ==
  /\ IsSeq(es) /\ n \in Nat /\ took \in [1..n -> SUBSET VALID_SEATS] /\ asked \in SUBSET VALID_SEATS
  /\ \A i \in IndexOf(es, "TurnAccepted") :
        /\ es[i].turn_index \in 1..n /\ es[i].seat \in took[es[i].turn_index]
        /\ Cardinality(SeatBefore(es, "TurnRequested", i))
              = Cardinality(SeatUpTo(es, "TurnAccepted", i))
        /\ \A j \in IndexOf(es, "TurnAccepted") \ {i} :
              <<es[i].turn_index, es[i].seat>> # <<es[j].turn_index, es[j].seat>>
  /\ \A k \in 1..n : \A seat \in took[k] :
        \E i \in IndexOf(es, "TurnAccepted") : es[i].turn_index = k /\ es[i].seat = seat
  /\ \A seat \in VALID_SEATS :
        Cardinality(OfSeat(es, "TurnRequested", seat))
           = Cardinality(OfSeat(es, "TurnAccepted", seat)) + (IF seat \in asked THEN 1 ELSE 0)

\* What an appended event adds to the events of its type, and to those of a seat.
LEMMA IndexAppend ==
  ASSUME NEW es, IsSeq(es), NEW e, NEW type
  PROVE  /\ Len(es) \in Nat
         /\ IndexOf(es, type) \subseteq 1..Len(es)
         /\ IndexOf(Append(es, e), type)
               = IndexOf(es, type) \cup (IF e.event_type = type THEN {Len(es) + 1} ELSE {})
<1> DEFINE new == Append(es, e)
<1>1. /\ Len(es) \in Nat /\ Len(new) = Len(es) + 1
      /\ new[Len(es) + 1] = e /\ \A i \in 1..Len(es) : new[i] = es[i]
  BY SeqAppend
<1> HIDE DEF new
<1>2. 1..(Len(es) + 1) = 1..Len(es) \cup {Len(es) + 1} /\ Len(es) + 1 \notin 1..Len(es)
  BY <1>1
<1>3. IndexOf(new, type)
        = IndexOf(es, type) \cup (IF e.event_type = type THEN {Len(es) + 1} ELSE {})
  BY <1>1, <1>2 DEF IndexOf
<1> QED BY <1>1, <1>3 DEF new, IndexOf

\* The events of a type and a seat, after one more event.
LEMMA IndexSeat ==
  ASSUME NEW es, IsSeq(es), NEW e, NEW type, NEW seat
  PROVE  OfSeat(Append(es, e), type, seat)
           = OfSeat(es, type, seat)
               \cup (IF e.event_type = type /\ e.seat = seat THEN {Len(es) + 1} ELSE {})
<1> DEFINE new == Append(es, e)
<1>1. Len(es) \in Nat /\ new[Len(es) + 1] = e /\ \A i \in 1..Len(es) : new[i] = es[i]
  BY SeqAppend
<1>2. /\ IndexOf(es, type) \subseteq 1..Len(es)
      /\ IndexOf(new, type)
           = IndexOf(es, type) \cup (IF e.event_type = type THEN {Len(es) + 1} ELSE {})
  BY IndexAppend
<1> HIDE DEF new
<1>3. OfSeat(new, type, seat)
        = OfSeat(es, type, seat)
            \cup (IF e.event_type = type /\ e.seat = seat THEN {Len(es) + 1} ELSE {})
  BY <1>1, <1>2 DEF OfSeat
<1> QED BY <1>3 DEF new

\* What is kept of the events before.
LEMMA IndexKept ==
  ASSUME NEW es, IsSeq(es), NEW e, NEW i \in 1..Len(es), NEW type
  PROVE  /\ Append(es, e)[i] = es[i]
         /\ SeatBefore(Append(es, e), type, i) = SeatBefore(es, type, i)
         /\ SeatUpTo(Append(es, e), type, i) = SeatUpTo(es, type, i)
<1> DEFINE new == Append(es, e)
<1>1. Len(es) \in Nat /\ \A j \in 1..Len(es) : new[j] = es[j]
  BY SeqAppend
<1>2. /\ IndexOf(es, type) \subseteq 1..Len(es)
      /\ IndexOf(new, type)
           = IndexOf(es, type) \cup (IF e.event_type = type THEN {Len(es) + 1} ELSE {})
  BY IndexAppend
<1> HIDE DEF new
<1>3. ~(Len(es) + 1 < i) /\ ~(Len(es) + 1 <= i)
  BY <1>1
<1>4. /\ SeatBefore(new, type, i) = SeatBefore(es, type, i)
      /\ SeatUpTo(new, type, i) = SeatUpTo(es, type, i)
  BY <1>1, <1>2, <1>3 DEF SeatBefore, SeatUpTo
<1> QED BY <1>1, <1>4 DEF new

\* An event of another type adds nothing to a type's.
LEMMA IndexOther ==
  ASSUME NEW es, IsSeq(es), NEW e, NEW type, e.event_type # type
  PROVE  /\ IndexOf(Append(es, e), type) = IndexOf(es, type)
         /\ \A seat : OfSeat(Append(es, e), type, seat) = OfSeat(es, type, seat)
<1> DEFINE more == IF e.event_type = type THEN {Len(es) + 1} ELSE {}
<1>1. IndexOf(Append(es, e), type) = IndexOf(es, type)
  <2>1. IndexOf(Append(es, e), type) = IndexOf(es, type) \cup more
    BY IndexAppend
  <2>2. more = {}
    OBVIOUS
  <2> HIDE DEF more
  <2> QED BY <2>1, <2>2
<1>2. ASSUME NEW seat PROVE OfSeat(Append(es, e), type, seat) = OfSeat(es, type, seat)
  <2> DEFINE his == IF e.event_type = type /\ e.seat = seat THEN {Len(es) + 1} ELSE {}
  <2>1. OfSeat(Append(es, e), type, seat) = OfSeat(es, type, seat) \cup his
    BY IndexSeat
  <2>2. his = {}
    OBVIOUS
  <2> HIDE DEF his
  <2> QED BY <2>1, <2>2
<1> QED BY <1>1, <1>2

\* What precedes the last event, and what it completes.
LEMMA IndexLast ==
  ASSUME NEW es, IsSeq(es), NEW e, NEW type
  PROVE  /\ Append(es, e)[Len(es) + 1] = e
         /\ SeatBefore(Append(es, e), type, Len(es) + 1) = OfSeat(es, type, e.seat)
         /\ SeatUpTo(Append(es, e), type, Len(es) + 1) = OfSeat(Append(es, e), type, e.seat)
<1> DEFINE new == Append(es, e)
<1>1. /\ Len(es) \in Nat /\ new[Len(es) + 1] = e
      /\ \A j \in 1..Len(es) : new[j] = es[j]
  BY SeqAppend
<1>2. /\ IndexOf(es, type) \subseteq 1..Len(es)
      /\ IndexOf(new, type)
           = IndexOf(es, type) \cup (IF e.event_type = type THEN {Len(es) + 1} ELSE {})
  BY IndexAppend
<1> HIDE DEF new
<1>3. /\ \A j \in 1..Len(es) : j < Len(es) + 1 /\ j <= Len(es) + 1
      /\ ~(Len(es) + 1 < Len(es) + 1) /\ Len(es) + 1 <= Len(es) + 1
  BY <1>1
<1>4. SeatBefore(new, type, Len(es) + 1) = OfSeat(es, type, e.seat)
  BY <1>1, <1>2, <1>3 DEF SeatBefore, OfSeat
<1>5. SeatUpTo(new, type, Len(es) + 1) = OfSeat(new, type, e.seat)
  BY <1>1, <1>2, <1>3 DEF SeatUpTo, OfSeat
<1> QED BY <1>1, <1>4, <1>5 DEF new

\* The positions of a type's events are positions.
LEMMA IndexWithin ==
  ASSUME NEW es, NEW type PROVE IndexOf(es, type) \subseteq 1..Len(es)
  BY DEF IndexOf

\* One more of a seat, or as many.
LEMMA CountAppend ==
  ASSUME NEW es, IsSeq(es), NEW e, NEW type, NEW seat
  PROVE  /\ Cardinality(OfSeat(es, type, seat)) \in Nat
         /\ Cardinality(OfSeat(Append(es, e), type, seat))
              = Cardinality(OfSeat(es, type, seat))
                  + (IF e.event_type = type /\ e.seat = seat THEN 1 ELSE 0)
<1> DEFINE old == OfSeat(es, type, seat)
<1>1. Len(es) \in Nat /\ old \subseteq 1..Len(es)
  BY IndexAppend DEF OfSeat
<1>2. IsFiniteSet(1..Len(es))
  <2>1. \A i, j \in Int : IsFiniteSet(i..j)
    BY FS_Interval
  <2>2. 1 \in Int /\ Len(es) \in Int
    BY <1>1
  <2> QED BY <2>1, <2>2
<1>3. IsFiniteSet(old)
  BY <1>1, <1>2, FS_Subset
<1>4. Cardinality(old) \in Nat
  BY <1>3, FS_CardinalityType
<1>5. Len(es) + 1 \notin old
  BY <1>1
<1>6. Cardinality(old \cup {Len(es) + 1}) = Cardinality(old) + 1
  BY <1>3, <1>5, FS_AddElement
<1>7. OfSeat(Append(es, e), type, seat)
        = old \cup (IF e.event_type = type /\ e.seat = seat THEN {Len(es) + 1} ELSE {})
  BY IndexSeat
<1> HIDE DEF old
<1>8. CASE e.event_type = type /\ e.seat = seat
  BY <1>4, <1>6, <1>7, <1>8 DEF old
<1>9. CASE ~(e.event_type = type /\ e.seat = seat)
  <2>1. OfSeat(Append(es, e), type, seat) = old
    BY <1>7, <1>9
  <2>2. Cardinality(old) + 0 = Cardinality(old)
    BY <1>4
  <2> QED BY <1>4, <1>9, <2>1, <2>2 DEF old
<1> QED BY <1>8, <1>9

\* A note, or any other event of no turn, is not booked.
LEMMA BookOther ==
  ASSUME NEW es, NEW n, NEW took, NEW asked, Book(es, n, took, asked),
         NEW e, e.event_type \notin {"TurnRequested", "TurnAccepted"}
  PROVE  Book(Append(es, e), n, took, asked)
<1> DEFINE new == Append(es, e)
<1>1. /\ IsSeq(es) /\ IsSeq(new)
      /\ IndexOf(new, "TurnAccepted") = IndexOf(es, "TurnAccepted")
      /\ IndexOf(new, "TurnRequested") = IndexOf(es, "TurnRequested")
      /\ IndexOf(es, "TurnAccepted") \subseteq 1..Len(es)
  <2>1. IsSeq(es)
    BY DEF Book
  <2>2. IsSeq(new)
    BY <2>1, SeqAppend
  <2> QED BY <2>1, <2>2, IndexOther, IndexWithin
<1>2. \A i \in 1..Len(es) :
         /\ new[i] = es[i]
         /\ SeatBefore(new, "TurnRequested", i) = SeatBefore(es, "TurnRequested", i)
         /\ SeatUpTo(new, "TurnAccepted", i) = SeatUpTo(es, "TurnAccepted", i)
  BY <1>1, IndexKept
<1>3. \A seat : /\ OfSeat(new, "TurnRequested", seat) = OfSeat(es, "TurnRequested", seat)
                /\ OfSeat(new, "TurnAccepted", seat) = OfSeat(es, "TurnAccepted", seat)
  BY <1>1, IndexOther
<1> HIDE DEF new
<1>4. ASSUME NEW i \in IndexOf(new, "TurnAccepted")
      PROVE  /\ new[i].turn_index \in 1..n /\ new[i].seat \in took[new[i].turn_index]
             /\ Cardinality(SeatBefore(new, "TurnRequested", i))
                   = Cardinality(SeatUpTo(new, "TurnAccepted", i))
             /\ \A j \in IndexOf(new, "TurnAccepted") \ {i} :
                  <<new[i].turn_index, new[i].seat>> # <<new[j].turn_index, new[j].seat>>
  BY <1>1, <1>2 DEF Book
<1>5. ASSUME NEW k \in 1..n, NEW seat \in took[k]
      PROVE  \E i \in IndexOf(new, "TurnAccepted") : new[i].turn_index = k /\ new[i].seat = seat
  BY <1>1, <1>2 DEF Book
<1> QED BY <1>1, <1>3, <1>4, <1>5 DEF Book, new

\* A requested seat is asked.
LEMMA BookRequest ==
  ASSUME NEW es, NEW n, NEW took, NEW asked, Book(es, n, took, asked),
         NEW e, e.event_type = "TurnRequested", e.seat \in VALID_SEATS \ asked
  PROVE  Book(Append(es, e), n, took, asked \cup {e.seat})
<1> DEFINE new == Append(es, e)
<1>1. /\ IsSeq(es) /\ IsSeq(new)
      /\ IndexOf(new, "TurnAccepted") = IndexOf(es, "TurnAccepted")
      /\ IndexOf(es, "TurnAccepted") \subseteq 1..Len(es)
  <2>1. IsSeq(es)
    BY DEF Book
  <2>2. IsSeq(new)
    BY <2>1, SeqAppend
  <2> QED BY <2>1, <2>2, IndexOther, IndexWithin
<1>2. \A i \in 1..Len(es) :
         /\ new[i] = es[i]
         /\ SeatBefore(new, "TurnRequested", i) = SeatBefore(es, "TurnRequested", i)
         /\ SeatUpTo(new, "TurnAccepted", i) = SeatUpTo(es, "TurnAccepted", i)
  BY <1>1, IndexKept
<1>3. ASSUME NEW seat \in VALID_SEATS
      PROVE  Cardinality(OfSeat(new, "TurnRequested", seat))
               = Cardinality(OfSeat(new, "TurnAccepted", seat))
                   + (IF seat \in asked \cup {e.seat} THEN 1 ELSE 0)
  <2>1. /\ Cardinality(OfSeat(es, "TurnRequested", seat)) \in Nat
        /\ Cardinality(OfSeat(es, "TurnAccepted", seat)) \in Nat
        /\ Cardinality(OfSeat(new, "TurnRequested", seat))
              = Cardinality(OfSeat(es, "TurnRequested", seat)) + (IF e.seat = seat THEN 1 ELSE 0)
        /\ Cardinality(OfSeat(new, "TurnAccepted", seat))
              = Cardinality(OfSeat(es, "TurnAccepted", seat)) + 0
    BY <1>1, CountAppend
  <2>2. Cardinality(OfSeat(es, "TurnRequested", seat))
          = Cardinality(OfSeat(es, "TurnAccepted", seat)) + (IF seat \in asked THEN 1 ELSE 0)
    BY DEF Book
  <2> HIDE DEF new
  <2>3. CASE e.seat = seat
    BY <2>1, <2>2, <2>3
  <2>4. CASE e.seat # seat
    BY <2>1, <2>2, <2>4
  <2> QED BY <2>3, <2>4
<1> HIDE DEF new
<1>4. ASSUME NEW i \in IndexOf(new, "TurnAccepted")
      PROVE  /\ new[i].turn_index \in 1..n /\ new[i].seat \in took[new[i].turn_index]
             /\ Cardinality(SeatBefore(new, "TurnRequested", i))
                   = Cardinality(SeatUpTo(new, "TurnAccepted", i))
             /\ \A j \in IndexOf(new, "TurnAccepted") \ {i} :
                  <<new[i].turn_index, new[i].seat>> # <<new[j].turn_index, new[j].seat>>
  BY <1>1, <1>2 DEF Book
<1>5. ASSUME NEW k \in 1..n, NEW seat \in took[k]
      PROVE  \E i \in IndexOf(new, "TurnAccepted") : new[i].turn_index = k /\ new[i].seat = seat
  BY <1>1, <1>2 DEF Book
<1>6. asked \cup {e.seat} \in SUBSET VALID_SEATS /\ n \in Nat /\ took \in [1..n -> SUBSET VALID_SEATS]
  BY DEF Book
<1> QED BY <1>1, <1>3, <1>4, <1>5, <1>6 DEF Book, new

\* An asked seat is accepted for a turn that has not had it.
LEMMA BookAccept ==
  ASSUME NEW es, NEW n, NEW took, NEW asked, Book(es, n, took, asked),
         NEW e, e.event_type = "TurnAccepted", e.seat \in asked, e.turn_index \in 1..n,
         e.seat \notin took[e.turn_index]
  PROVE  Book(Append(es, e), n, [took EXCEPT ![e.turn_index] = @ \cup {e.seat}], asked \ {e.seat})
<1> DEFINE new == Append(es, e)
           taken == [took EXCEPT ![e.turn_index] = @ \cup {e.seat}]
           last == Len(es) + 1
<1>0. /\ n \in Nat /\ took \in [1..n -> SUBSET VALID_SEATS] /\ asked \in SUBSET VALID_SEATS
      /\ e.seat \in VALID_SEATS /\ IsSeq(es) /\ IsSeq(new)
  BY SeqAppend DEF Book
<1>1. /\ IndexOf(new, "TurnAccepted") = IndexOf(es, "TurnAccepted") \cup {last}
      /\ IndexOf(es, "TurnAccepted") \subseteq 1..Len(es)
      /\ new[last] = e /\ Len(es) \in Nat /\ last \notin 1..Len(es)
  BY <1>0, IndexAppend
<1>2. \A i \in 1..Len(es) :
         /\ new[i] = es[i]
         /\ SeatBefore(new, "TurnRequested", i) = SeatBefore(es, "TurnRequested", i)
         /\ SeatUpTo(new, "TurnAccepted", i) = SeatUpTo(es, "TurnAccepted", i)
  BY <1>0, IndexKept
<1>3. ASSUME NEW seat \in VALID_SEATS
      PROVE  /\ Cardinality(OfSeat(new, "TurnRequested", seat))
                  = Cardinality(OfSeat(new, "TurnAccepted", seat))
                       + (IF seat \in asked \ {e.seat} THEN 1 ELSE 0)
             /\ seat = e.seat => Cardinality(OfSeat(es, "TurnRequested", seat))
                                    = Cardinality(OfSeat(new, "TurnAccepted", seat))
  <2>1. /\ Cardinality(OfSeat(es, "TurnRequested", seat)) \in Nat
        /\ Cardinality(OfSeat(es, "TurnAccepted", seat)) \in Nat
        /\ Cardinality(OfSeat(new, "TurnAccepted", seat))
              = Cardinality(OfSeat(es, "TurnAccepted", seat)) + (IF e.seat = seat THEN 1 ELSE 0)
        /\ Cardinality(OfSeat(new, "TurnRequested", seat))
              = Cardinality(OfSeat(es, "TurnRequested", seat)) + 0
    BY <1>0, CountAppend
  <2>2. Cardinality(OfSeat(es, "TurnRequested", seat))
          = Cardinality(OfSeat(es, "TurnAccepted", seat)) + (IF seat \in asked THEN 1 ELSE 0)
    BY DEF Book
  <2> HIDE DEF new
  <2>3. CASE e.seat = seat
    BY <2>1, <2>2, <2>3
  <2>4. CASE e.seat # seat
    BY <2>1, <2>2, <2>4
  <2> QED BY <2>3, <2>4
<1>4. Cardinality(SeatBefore(new, "TurnRequested", last)) = Cardinality(SeatUpTo(new, "TurnAccepted", last))
  <2>1. SeatBefore(new, "TurnRequested", last) = OfSeat(es, "TurnRequested", e.seat)
        /\ SeatUpTo(new, "TurnAccepted", last) = OfSeat(new, "TurnAccepted", e.seat)
    BY <1>0, IndexLast
  <2> QED BY <1>0, <1>3, <2>1
<1>5. /\ taken \in [1..n -> SUBSET VALID_SEATS] /\ e.seat \in taken[e.turn_index]
      /\ \A k \in 1..n : took[k] \subseteq taken[k]
      /\ \A k \in 1..n : taken[k] = IF k = e.turn_index THEN took[k] \cup {e.seat} ELSE took[k]
  BY <1>0
<1> HIDE DEF new, taken, last
<1>6. ASSUME NEW i \in IndexOf(es, "TurnAccepted")
      PROVE  /\ i \in 1..Len(es) /\ i # last /\ new[i] = es[i]
             /\ es[i].turn_index \in 1..n /\ es[i].seat \in took[es[i].turn_index]
             /\ <<es[i].turn_index, es[i].seat>> # <<e.turn_index, e.seat>>
             /\ <<e.turn_index, e.seat>> # <<es[i].turn_index, es[i].seat>>
  <2>1. i \in 1..Len(es) /\ i # last /\ new[i] = es[i]
    BY <1>1, <1>2
  <2>2. es[i].turn_index \in 1..n /\ es[i].seat \in took[es[i].turn_index]
    BY DEF Book
  <2>3. ~(es[i].turn_index = e.turn_index /\ es[i].seat = e.seat)
    BY <2>2
  <2> QED BY <2>1, <2>2, <2>3
<1>7. ASSUME NEW i \in IndexOf(new, "TurnAccepted")
      PROVE  /\ new[i].turn_index \in 1..n /\ new[i].seat \in taken[new[i].turn_index]
             /\ Cardinality(SeatBefore(new, "TurnRequested", i))
                   = Cardinality(SeatUpTo(new, "TurnAccepted", i))
             /\ \A j \in IndexOf(new, "TurnAccepted") \ {i} :
                  <<new[i].turn_index, new[i].seat>> # <<new[j].turn_index, new[j].seat>>
  <2>1. CASE i = last
    <3>1. \A j \in IndexOf(new, "TurnAccepted") \ {i} : j \in IndexOf(es, "TurnAccepted")
      BY <1>1, <2>1
    <3> QED BY <1>1, <1>4, <1>5, <1>6, <2>1, <3>1
  <2>2. CASE i \in IndexOf(es, "TurnAccepted")
    <3>1. new[i] = es[i] /\ i \in 1..Len(es)
      BY <1>6, <2>2
    <3>2. new[i].turn_index \in 1..n /\ new[i].seat \in taken[new[i].turn_index]
      BY <1>5, <1>6, <2>2
    <3>3. Cardinality(SeatBefore(new, "TurnRequested", i)) = Cardinality(SeatUpTo(new, "TurnAccepted", i))
      BY <1>2, <2>2, <3>1 DEF Book
    <3>4. ASSUME NEW j \in IndexOf(new, "TurnAccepted") \ {i}
          PROVE  <<new[i].turn_index, new[i].seat>> # <<new[j].turn_index, new[j].seat>>
      <4>1. CASE j = last
        BY <1>1, <1>6, <2>2, <4>1
      <4>2. CASE j \in IndexOf(es, "TurnAccepted")
        <5>1. new[j] = es[j] /\ j \in IndexOf(es, "TurnAccepted") \ {i}
          BY <1>6, <4>2
        <5> QED BY <2>2, <3>1, <5>1 DEF Book
      <4> QED BY <1>1, <4>1, <4>2
    <3> QED BY <3>2, <3>3, <3>4
  <2> QED BY <1>1, <2>1, <2>2
<1>8. ASSUME NEW k \in 1..n, NEW seat \in taken[k]
      PROVE  \E i \in IndexOf(new, "TurnAccepted") : new[i].turn_index = k /\ new[i].seat = seat
  <2>1. CASE k = e.turn_index /\ seat = e.seat
    BY <1>1, <2>1
  <2>2. CASE seat \in took[k]
    <3>1. PICK i \in IndexOf(es, "TurnAccepted") : es[i].turn_index = k /\ es[i].seat = seat
      BY <2>2 DEF Book
    <3> QED BY <1>1, <1>6, <3>1
  <2> QED BY <1>5, <2>1, <2>2
<1>9. asked \ {e.seat} \in SUBSET VALID_SEATS
  BY <1>0
<1> QED BY <1>0, <1>3, <1>5, <1>7, <1>8, <1>9 DEF Book, new, taken

\* A turn of the match nobody has been accepted for yet.
LEMMA BookTurn ==
  ASSUME NEW es, NEW n, NEW took, NEW asked, Book(es, n, took, asked)
  PROVE  Book(es, n + 1, [k \in 1..(n + 1) |-> IF k = n + 1 THEN {} ELSE took[k]], asked)
<1> DEFINE more == [k \in 1..(n + 1) |-> IF k = n + 1 THEN {} ELSE took[k]]
<1>1. /\ n \in Nat /\ n + 1 \in Nat /\ took \in [1..n -> SUBSET VALID_SEATS]
      /\ \A k \in 1..n : k \in 1..(n + 1) /\ k # n + 1
      /\ \A k \in 1..(n + 1) : k = n + 1 \/ k \in 1..n
  BY DEF Book
<1>2. /\ more \in [1..(n + 1) -> SUBSET VALID_SEATS] /\ more[n + 1] = {}
      /\ \A k \in 1..n : more[k] = took[k]
  <2>1. n + 1 \in 1..(n + 1)
    BY <1>1
  <2> QED BY <1>1, <2>1
<1> HIDE DEF more
<1>3. ASSUME NEW k \in 1..(n + 1), NEW seat \in more[k]
      PROVE  \E i \in IndexOf(es, "TurnAccepted") : es[i].turn_index = k /\ es[i].seat = seat
  BY <1>1, <1>2 DEF Book
<1>4. ASSUME NEW i \in IndexOf(es, "TurnAccepted")
      PROVE  es[i].turn_index \in 1..(n + 1) /\ es[i].seat \in more[es[i].turn_index]
  <2>1. es[i].turn_index \in 1..n /\ es[i].seat \in took[es[i].turn_index]
    BY DEF Book
  <2> QED BY <1>1, <1>2, <2>1
<1> QED BY <1>1, <1>2, <1>3, <1>4 DEF Book, more

(***************************************************************************)
(* How the events end: at no event of an end, or at one, with nothing but   *)
(* agents' notes after it.                                                  *)
(***************************************************************************)
Ends == {"MatchFinished", "MatchAborted"}

Ending(es, end) ==
  \A type \in Ends :
     IF type = end
     THEN \E k \in 1..Len(es) :
             IndexOf(es, type) = {k} /\ \A j \in (k + 1)..Len(es) : SeatPrivate(es[j])
     ELSE IndexOf(es, type) = {}

\* An event that ends nothing leaves the end as it was told.
LEMMA EndingAppend ==
  ASSUME NEW es, IsSeq(es), NEW end, Ending(es, end), NEW e, e.event_type \notin Ends,
         SeatPrivate(e) \/ end \notin Ends
  PROVE  Ending(Append(es, e), end)
<1> DEFINE new == Append(es, e)
<1>1. /\ Len(es) \in Nat /\ Len(new) = Len(es) + 1 /\ new[Len(es) + 1] = e
      /\ \A i \in 1..Len(es) : new[i] = es[i]
  BY SeqAppend
<1>2. \A type \in Ends : IndexOf(new, type) = IndexOf(es, type)
  BY IndexOther
<1> HIDE DEF new
<1>3. ASSUME NEW type \in Ends, type = end
      PROVE  \E k \in 1..Len(new) :
                IndexOf(new, type) = {k} /\ \A j \in (k + 1)..Len(new) : SeatPrivate(new[j])
  <2>1. PICK k \in 1..Len(es) :
             IndexOf(es, type) = {k} /\ \A j \in (k + 1)..Len(es) : SeatPrivate(es[j])
    BY <1>3 DEF Ending
  <2>2. k \in 1..Len(new) /\ \A j \in (k + 1)..Len(new) : j \in (k + 1)..Len(es) \/ j = Len(es) + 1
    BY <1>1
  <2>3. \A j \in (k + 1)..Len(es) : j \in 1..Len(es)
    BY <1>1
  <2>4. ASSUME NEW j \in (k + 1)..Len(new) PROVE SeatPrivate(new[j])
    BY <1>1, <1>3, <2>1, <2>2, <2>3
  <2> QED BY <1>2, <2>1, <2>2, <2>4
<1>4. ASSUME NEW type \in Ends, type # end PROVE IndexOf(new, type) = {}
  BY <1>2, <1>4 DEF Ending
<1> QED BY <1>3, <1>4 DEF Ending, new

\* The event that ends a match is its only end.
LEMMA EndingEnds ==
  ASSUME NEW es, IsSeq(es), NEW end, end \notin Ends, Ending(es, end),
         NEW e, e.event_type \in Ends
  PROVE  Ending(Append(es, e), e.event_type)
<1> DEFINE new == Append(es, e)
           last == Len(es) + 1
<1>1. Len(es) \in Nat /\ Len(new) = last
  BY SeqAppend
<1>2. last \in 1..last /\ \A j : j \notin (last + 1)..last
  BY <1>1
<1>3. IndexOf(es, "MatchFinished") = {} /\ IndexOf(es, "MatchAborted") = {}
  BY DEF Ending, Ends
<1>4. \A type : IndexOf(new, type)
        = IndexOf(es, type) \cup (IF e.event_type = type THEN {last} ELSE {})
  BY IndexAppend
<1> HIDE DEF new, last
<1>5. ASSUME NEW type \in Ends
      PROVE  IndexOf(new, type) = IF type = e.event_type THEN {last} ELSE {}
  BY <1>3, <1>4 DEF Ends
<1>6. ASSUME NEW type \in Ends, type = e.event_type
      PROVE  \E k \in 1..Len(new) :
                IndexOf(new, type) = {k} /\ \A j \in (k + 1)..Len(new) : SeatPrivate(new[j])
  <2>1. IndexOf(new, type) = {last}
    BY <1>5, <1>6
  <2> QED BY <1>1, <1>2, <2>1
<1>7. ASSUME NEW type \in Ends, type # e.event_type PROVE IndexOf(new, type) = {}
  BY <1>5, <1>7
<1> QED BY <1>6, <1>7 DEF Ending, new

\* The events of a match with these turns.
SeatsTaken(turns) == [k \in 1..Len(turns) |-> SeatsOf(turns[k])]

Log(es, turns, asked, end) == Book(es, Len(turns), SeatsTaken(turns), asked) /\ Ending(es, end)

\* An event that is no request, acceptance or end leaves the log as it is.
LEMMA LogOther ==
  ASSUME NEW es, NEW turns, NEW asked, NEW end, Log(es, turns, asked, end),
         NEW e, e.event_type \notin {"TurnRequested", "TurnAccepted"} \cup Ends,
         SeatPrivate(e) \/ end \notin Ends
  PROVE  Log(Append(es, e), turns, asked, end)
<1>1. IsSeq(es)
  BY DEF Log, Book
<1> QED BY <1>1, BookOther, EndingAppend DEF Log

\* The event that ends a match ends its log.
LEMMA LogEnds ==
  ASSUME NEW es, NEW turns, NEW asked, NEW end, end \notin Ends, Log(es, turns, asked, end),
         NEW e, e.event_type \in Ends
  PROVE  Log(Append(es, e), turns, asked, e.event_type)
<1>1. IsSeq(es) /\ e.event_type \notin {"TurnRequested", "TurnAccepted"}
  BY DEF Log, Book, Ends
<1> QED BY <1>1, BookOther, EndingEnds DEF Log

\* A request adds a seat to those asked.
LEMMA LogRequest ==
  ASSUME NEW es, NEW turns, NEW asked, NEW end, end \notin Ends, Log(es, turns, asked, end),
         NEW seat \in VALID_SEATS \ asked
  PROVE  Log(Append(es, TurnRequested(seat)), turns, asked \cup {seat}, end)
<1> DEFINE e == TurnRequested(seat)
<1>1. IsSeq(es) /\ e.event_type = "TurnRequested" /\ e.seat = seat /\ e.event_type \notin Ends
  BY DEF Log, Book, Ends, TurnRequested
<1> HIDE DEF e
<1>2. Ending(Append(es, e), end)
  BY <1>1, EndingAppend DEF Log
<1>3. Book(Append(es, e), Len(turns), SeatsTaken(turns), asked \cup {e.seat})
  BY <1>1, BookRequest DEF Log
<1> QED BY <1>1, <1>2, <1>3 DEF Log, e

Accepting(n, seat) == [event_type |-> "TurnAccepted", seat |-> seat, turn_index |-> n]

\* The seats that took each turn, after one more turn.
LEMMA TakenAppend ==
  ASSUME NEW turns, IsSeq(turns), NEW t
  PROVE  /\ Len(turns) \in Nat /\ Len(Append(turns, t)) = Len(turns) + 1
         /\ SeatsTaken(Append(turns, t))
              = [k \in 1..(Len(turns) + 1) |->
                    IF k = Len(turns) + 1 THEN SeatsOf(t) ELSE SeatsTaken(turns)[k]]
<1> DEFINE new == Append(turns, t)
<1>1. /\ Len(turns) \in Nat /\ Len(new) = Len(turns) + 1 /\ new[Len(turns) + 1] = t
      /\ \A i \in 1..Len(turns) : new[i] = turns[i]
  BY SeqAppend
<1> HIDE DEF new
<1>2. \A k \in 1..(Len(turns) + 1) : k = Len(turns) + 1 \/ k \in 1..Len(turns)
  BY <1>1
<1>3. ASSUME NEW k \in 1..(Len(turns) + 1)
      PROVE  SeatsOf(new[k]) = IF k = Len(turns) + 1 THEN SeatsOf(t) ELSE SeatsTaken(turns)[k]
  <2>1. CASE k = Len(turns) + 1
    BY <1>1, <2>1
  <2>2. CASE k # Len(turns) + 1
    <3>1. k \in 1..Len(turns) /\ new[k] = turns[k]
      BY <1>1, <1>2, <2>2
    <3> QED BY <2>2, <3>1 DEF SeatsTaken
  <2> QED BY <2>1, <2>2
<1> QED BY <1>1, <1>3 DEF SeatsTaken, new

\* A roll is nobody's turn.
LEMMA LogRoll ==
  ASSUME NEW es, NEW turns, IsSeq(turns), NEW asked, NEW end, Log(es, turns, asked, end),
         NEW t, SeatsOf(t) = {}
  PROVE  Log(es, Append(turns, t), asked, end)
<1>1. Book(es, Len(turns), SeatsTaken(turns), asked) /\ Ending(es, end)
  BY DEF Log
<1>2. Book(es, Len(turns) + 1,
           [k \in 1..(Len(turns) + 1) |->
               IF k = Len(turns) + 1 THEN {} ELSE SeatsTaken(turns)[k]], asked)
  BY <1>1, BookTurn
<1>3. Len(Append(turns, t)) = Len(turns) + 1
      /\ SeatsTaken(Append(turns, t))
              = [k \in 1..(Len(turns) + 1) |->
                    IF k = Len(turns) + 1 THEN {} ELSE SeatsTaken(turns)[k]]
  BY TakenAppend
<1> QED BY <1>1, <1>2, <1>3 DEF Log

\* A move is the turn of the seat that was asked.
LEMMA LogMove ==
  ASSUME NEW es, NEW turns, IsSeq(turns), NEW asked, NEW end, end \notin Ends,
         Log(es, turns, asked, end), NEW seat \in asked, NEW t, SeatsOf(t) = {seat}
  PROVE  Log(Append(es, Accepting(Len(turns) + 1, seat)), Append(turns, t), asked \ {seat}, end)
<1> DEFINE n == Len(turns) + 1
           e == Accepting(n, seat)
           open == [k \in 1..n |-> IF k = n THEN {} ELSE SeatsTaken(turns)[k]]
           taken == [k \in 1..n |-> IF k = n THEN {seat} ELSE SeatsTaken(turns)[k]]
<1>1. Book(es, Len(turns), SeatsTaken(turns), asked) /\ Ending(es, end) /\ IsSeq(es)
  BY DEF Log, Book
<1>2. Book(es, n, open, asked)
  BY <1>1, BookTurn
<1>3. /\ n \in Nat /\ n \in 1..n /\ Len(Append(turns, t)) = n
      /\ SeatsTaken(Append(turns, t)) = taken
  <2>1. /\ Len(turns) \in Nat /\ Len(Append(turns, t)) = n
        /\ SeatsTaken(Append(turns, t)) = taken
    BY TakenAppend
  <2> QED BY <2>1
<1>4. /\ e.event_type = "TurnAccepted" /\ e.event_type \notin Ends
      /\ e.seat = seat /\ e.turn_index = n
  BY DEF Accepting, Ends
<1>5. /\ open[n] = {} /\ [open EXCEPT ![n] = @ \cup {seat}] = taken
  BY <1>3
<1> HIDE DEF e, open, n
<1>6. Book(Append(es, e), n, taken, asked \ {seat})
  <2>1. e.seat \in asked /\ e.turn_index \in 1..n /\ e.seat \notin open[e.turn_index]
    BY <1>3, <1>4, <1>5
  <2>2. Book(Append(es, e), n, [open EXCEPT ![e.turn_index] = @ \cup {e.seat}], asked \ {e.seat})
    BY <1>2, <1>4, <2>1, BookAccept
  <2> QED BY <1>4, <1>5, <2>2
<1>7. Ending(Append(es, e), end)
  BY <1>1, <1>4, EndingAppend
<1> QED BY <1>3, <1>6, <1>7 DEF Log, e, n

\* A round is the turn of both seats.
LEMMA LogRound ==
  ASSUME NEW es, NEW turns, IsSeq(turns), NEW end, end \notin Ends,
         Log(es, turns, VALID_SEATS, end), NEW t, SeatsOf(t) = VALID_SEATS
  PROVE  Log(Append(Append(es, Accepting(Len(turns) + 1, 0)), Accepting(Len(turns) + 1, 1)),
             Append(turns, t), {}, end)
<1> DEFINE n == Len(turns) + 1
           e0 == Accepting(n, 0)
           e1 == Accepting(n, 1)
           open == [k \in 1..n |-> IF k = n THEN {} ELSE SeatsTaken(turns)[k]]
           half == [open EXCEPT ![n] = @ \cup {0}]
           taken == [k \in 1..n |-> IF k = n THEN VALID_SEATS ELSE SeatsTaken(turns)[k]]
<1>1. Book(es, Len(turns), SeatsTaken(turns), VALID_SEATS) /\ Ending(es, end) /\ IsSeq(es)
  BY DEF Log, Book
<1>2. Book(es, n, open, VALID_SEATS)
  BY <1>1, BookTurn
<1>3. /\ n \in Nat /\ n \in 1..n /\ Len(Append(turns, t)) = n
      /\ SeatsTaken(Append(turns, t)) = taken
  <2>1. /\ Len(turns) \in Nat /\ Len(Append(turns, t)) = n
        /\ SeatsTaken(Append(turns, t)) = taken
    BY TakenAppend
  <2> QED BY <2>1
<1>4. /\ e0.event_type = "TurnAccepted" /\ e0.event_type \notin Ends
      /\ e0.seat = 0 /\ e0.turn_index = n
      /\ e1.event_type = "TurnAccepted" /\ e1.event_type \notin Ends
      /\ e1.seat = 1 /\ e1.turn_index = n
  BY DEF Accepting, Ends
<1>5. /\ open[n] = {} /\ half[n] = {0} /\ [half EXCEPT ![n] = @ \cup {1}] = taken
  <2>1. open[n] = {}
    BY <1>3
  <2>2. half = [k \in 1..n |-> IF k = n THEN {0} ELSE SeatsTaken(turns)[k]]
    BY <1>3, <2>1
  <2> HIDE DEF half, open
  <2> QED BY <1>3, <2>1, <2>2 DEF VALID_SEATS
<1>6. 0 \in VALID_SEATS /\ 1 \in VALID_SEATS \ {0} /\ (VALID_SEATS \ {0}) \ {1} = {}
  BY DEF VALID_SEATS
<1> HIDE DEF e0, e1, open, n, half
<1>7. Book(Append(es, e0), n, half, VALID_SEATS \ {0})
  <2>1. e0.seat \in VALID_SEATS /\ e0.turn_index \in 1..n /\ e0.seat \notin open[e0.turn_index]
    BY <1>3, <1>4, <1>5, <1>6
  <2>2. Book(Append(es, e0), n, [open EXCEPT ![e0.turn_index] = @ \cup {e0.seat}],
             VALID_SEATS \ {e0.seat})
    BY <1>2, <1>4, <2>1, BookAccept
  <2> QED BY <1>4, <2>2 DEF half
<1>8. Book(Append(Append(es, e0), e1), n, taken, {})
  <2>1. e1.seat \in VALID_SEATS \ {0} /\ e1.turn_index \in 1..n /\ e1.seat \notin half[e1.turn_index]
    BY <1>3, <1>4, <1>5, <1>6
  <2>2. Book(Append(Append(es, e0), e1), n, [half EXCEPT ![e1.turn_index] = @ \cup {e1.seat}],
             (VALID_SEATS \ {0}) \ {e1.seat})
    BY <1>4, <1>7, <2>1, BookAccept
  <2> QED BY <1>4, <1>5, <1>6, <2>2
<1>9. Ending(Append(es, e0), end) /\ IsSeq(Append(es, e0))
  BY <1>1, <1>4, EndingAppend, SeqAppend
<1>10. Ending(Append(Append(es, e0), e1), end)
  BY <1>4, <1>9, EndingAppend
<1> QED BY <1>3, <1>8, <1>10 DEF Log, e0, e1, n

\* Events written one after another, and those written of some seats.
LEMMA InOneSeq ==
  ASSUME NEW s, IsSeq(s), NEW a, IsSeq(a), NEW b, IsSeq(b)
  PROVE  \E U : s \in Seq(U) /\ a \in Seq(U) /\ b \in Seq(U)
<1>1. PICK S : s \in Seq(S)
  BY DEF IsSeq
<1>2. PICK A : a \in Seq(A)
  BY DEF IsSeq
<1>3. PICK B : b \in Seq(B)
  BY DEF IsSeq
<1> DEFINE U == S \cup A \cup B
<1>4. s \in Seq(U) /\ a \in Seq(U) /\ b \in Seq(U)
  BY <1>1, <1>2, <1>3
<1> QED BY <1>4

\* Two sequences concatenated are a sequence.
LEMMA ConcatSeq == \A s, a : IsSeq(s) /\ IsSeq(a) => IsSeq(s \o a)
<1> SUFFICES ASSUME NEW s, IsSeq(s), NEW a, IsSeq(a) PROVE IsSeq(s \o a)
  OBVIOUS
<1>1. PICK U : s \in Seq(U) /\ a \in Seq(U)
  BY InOneSeq
<1>2. s \o a \in Seq(U)
  BY <1>1
<1> QED BY <1>2 DEF IsSeq

\* Concatenation is associative.
LEMMA ConcatIs ==
  \A s, a, b : IsSeq(s) /\ IsSeq(a) /\ IsSeq(b) => s \o (a \o b) = (s \o a) \o b
<1> SUFFICES ASSUME NEW s, IsSeq(s), NEW a, IsSeq(a), NEW b, IsSeq(b)
             PROVE  s \o (a \o b) = (s \o a) \o b
  OBVIOUS
<1>1. PICK U : s \in Seq(U) /\ a \in Seq(U) /\ b \in Seq(U)
  BY InOneSeq
<1> QED BY <1>1, ConcatAssociative

\* One event, or none of it, appended.
LEMMA WhenIs ==
  ASSUME NEW es, IsSeq(es), NEW condition, NEW e
  PROVE  /\ IsSeq(When(condition, e))
         /\ condition => es \o When(condition, e) = Append(es, e)
         /\ ~condition => es \o When(condition, e) = es
<1>1. IsSeq(<<e>>) /\ IsSeq(<<>>)
  <2>1. <<e>> \in Seq({e}) /\ <<>> \in Seq({e})
    OBVIOUS
  <2> QED BY <2>1 DEF IsSeq
<1>2. es \o <<e>> = Append(es, e) /\ es \o <<>> = es
  BY SeqAppend
<1>3. CASE condition
  BY <1>1, <1>2, <1>3 DEF When
<1>4. CASE ~condition
  BY <1>1, <1>2, <1>4 DEF When
<1> QED BY <1>3, <1>4

\* A note of an agent changes nothing in the book.
LEMMA LogNote ==
  ASSUME NEW es, NEW turns, NEW asked, NEW end, Log(es, turns, asked, end),
         NEW condition, NEW type \in {"PolicyDecided", "PolicyRetried"}, NEW seat
  PROVE  Log(es \o When(condition, Note(type, seat)), turns, asked, end)
<1> DEFINE e == Note(type, seat)
<1>1. /\ IsSeq(es) /\ SeatPrivate(e)
      /\ e.event_type \notin {"TurnRequested", "TurnAccepted"} \cup Ends
  BY DEF Log, Book, Note, SeatPrivate, Ends
<1> HIDE DEF e
<1>2. Log(Append(es, e), turns, asked, end)
  BY <1>1, LogOther
<1>3. Log(es \o When(condition, e), turns, asked, end)
  BY <1>1, <1>2, WhenIs
<1> QED BY <1>3 DEF e

\* Agents' notes leave the log as it is.
LEMMA LogNotes ==
  ASSUME NEW es, NEW turns, NEW asked, NEW end, Log(es, turns, asked, end),
         NEW retried, NEW decided
  PROVE  Log(es \o Notes(retried, decided), turns, asked, end)
<1> DEFINE r0 == When(0 \in retried, Note("PolicyRetried", 0))
           r1 == When(1 \in retried, Note("PolicyRetried", 1))
           d0 == When(0 \in decided, Note("PolicyDecided", 0))
           d1 == When(1 \in decided, Note("PolicyDecided", 1))
<1>1. Notes(retried, decided) = (r0 \o r1) \o (d0 \o d1)
  BY DEF Notes, ForSeats
<1>2. IsSeq(es) /\ IsSeq(r0) /\ IsSeq(r1) /\ IsSeq(d0) /\ IsSeq(d1)
  <2>1. IsSeq(es)
    BY DEF Log, Book
  <2> QED BY <2>1, WhenIs
<1>3. Log(es \o r0, turns, asked, end)
  BY LogNote
<1>4. Log((es \o r0) \o r1, turns, asked, end)
  <2> HIDE DEF r0
  <2> QED BY <1>3, LogNote
<1>5. Log(((es \o r0) \o r1) \o d0, turns, asked, end)
  <2> HIDE DEF r0, r1
  <2> QED BY <1>4, LogNote
<1>6. Log((((es \o r0) \o r1) \o d0) \o d1, turns, asked, end)
  <2> HIDE DEF r0, r1, d0
  <2> QED BY <1>5, LogNote
<1> HIDE DEF r0, r1, d0, d1
<1>7. es \o ((r0 \o r1) \o (d0 \o d1)) = (((es \o r0) \o r1) \o d0) \o d1
  <2>1. IsSeq(r0 \o r1) /\ IsSeq(d0 \o d1) /\ IsSeq(es \o r0) /\ IsSeq((es \o r0) \o r1)
    BY <1>2, ConcatSeq
  <2>2. es \o ((r0 \o r1) \o (d0 \o d1)) = (es \o (r0 \o r1)) \o (d0 \o d1)
    BY <1>2, <2>1, ConcatIs
  <2>3. es \o (r0 \o r1) = (es \o r0) \o r1
    BY <1>2, ConcatIs
  <2>4. ((es \o r0) \o r1) \o (d0 \o d1) = (((es \o r0) \o r1) \o d0) \o d1
    <3> DEFINE retries == (es \o r0) \o r1
    <3>1. IsSeq(retries)
      BY <2>1
    <3> HIDE DEF retries
    <3>2. retries \o (d0 \o d1) = (retries \o d0) \o d1
      BY <1>2, <3>1, ConcatIs
    <3> QED BY <3>2 DEF retries
  <2> QED BY <2>2, <2>3, <2>4
<1> QED BY <1>1, <1>6, <1>7

\* The requests of a round, and its acceptances.
LEMMA LogRequests ==
  ASSUME NEW es, NEW turns, NEW end, end \notin Ends, Log(es, turns, {}, end),
         ActingNow = VALID_SEATS
  PROVE  Log(es \o AllRequested, turns, VALID_SEATS, end)
<1> DEFINE e0 == TurnRequested(0)
           e1 == TurnRequested(1)
<1>1. AllRequested = <<e0>> \o <<e1>>
  BY DEF AllRequested, ForSeats, When, VALID_SEATS
<1>2. IsSeq(es) /\ IsSeq(<<e0>>) /\ IsSeq(<<e1>>)
  <2>1. <<e0>> \in Seq({e0}) /\ <<e1>> \in Seq({e1})
    OBVIOUS
  <2> QED BY <2>1 DEF IsSeq, Log, Book
<1>3. Log(Append(es, e0), turns, {} \cup {0}, end)
  BY LogRequest DEF VALID_SEATS
<1>4. Log(Append(Append(es, e0), e1), turns, ({} \cup {0}) \cup {1}, end)
  <2>1. 1 \in VALID_SEATS \ ({} \cup {0})
    BY DEF VALID_SEATS
  <2> HIDE DEF e0
  <2> QED BY <1>3, <2>1, LogRequest
<1>5. ({} \cup {0}) \cup {1} = VALID_SEATS
  BY DEF VALID_SEATS
<1> HIDE DEF e0, e1
<1>6. es \o AllRequested = Append(Append(es, e0), e1)
  <2>1. es \o (<<e0>> \o <<e1>>) = (es \o <<e0>>) \o <<e1>>
    BY <1>2, ConcatIs
  <2>2. es \o <<e0>> = Append(es, e0) /\ IsSeq(Append(es, e0))
    BY <1>2, SeqAppend
  <2>3. Append(es, e0) \o <<e1>> = Append(Append(es, e0), e1)
    BY <2>2, SeqAppend
  <2> QED BY <1>1, <2>1, <2>2, <2>3
<1> QED BY <1>4, <1>5, <1>6

\* The acceptances of a round are one of each seat.
LEMMA Accepts ==
  ASSUME NEW es, IsSeq(es), ActingNow = VALID_SEATS
  PROVE  es \o (AllRequested \o ForSeats(TurnAccepted, ActingNow))
           = Append(Append(es \o AllRequested, Accepting(Len(TheMatch.turns) + 1, 0)),
                    Accepting(Len(TheMatch.turns) + 1, 1))
<1> DEFINE n == Len(TheMatch.turns) + 1
           e0 == Accepting(n, 0)
           e1 == Accepting(n, 1)
           q0 == TurnRequested(0)
           q1 == TurnRequested(1)
<1>1. ForSeats(TurnAccepted, ActingNow) = <<e0>> \o <<e1>>
  BY DEF ForSeats, When, VALID_SEATS, TurnAccepted, Accepting
<1>2. AllRequested = <<q0>> \o <<q1>>
  BY DEF AllRequested, ForSeats, When, VALID_SEATS
<1> HIDE DEF e0, e1, q0, q1
<1>3. IsSeq(<<e0>>) /\ IsSeq(<<e1>>) /\ IsSeq(<<q0>>) /\ IsSeq(<<q1>>)
  <2>1. <<e0>> \in Seq({e0}) /\ <<e1>> \in Seq({e1}) /\ <<q0>> \in Seq({q0}) /\ <<q1>> \in Seq({q1})
    OBVIOUS
  <2> QED BY <2>1 DEF IsSeq
<1> DEFINE told == AllRequested
<1>4. IsSeq(told) /\ IsSeq(<<e0>> \o <<e1>>)
  BY <1>2, <1>3, ConcatSeq
<1> HIDE DEF told
<1>5. /\ es \o (told \o (<<e0>> \o <<e1>>)) = (es \o told) \o (<<e0>> \o <<e1>>)
      /\ IsSeq(es \o told)
  BY <1>4, ConcatIs, ConcatSeq
<1>6. (es \o told) \o (<<e0>> \o <<e1>>) = ((es \o told) \o <<e0>>) \o <<e1>>
  BY <1>3, <1>5, ConcatIs
<1>7. (es \o told) \o <<e0>> = Append(es \o told, e0) /\ IsSeq(Append(es \o told, e0))
  BY <1>5, SeqAppend
<1>8. Append(es \o told, e0) \o <<e1>> = Append(Append(es \o told, e0), e1)
  BY <1>7, SeqAppend
<1> QED BY <1>1, <1>5, <1>6, <1>7, <1>8 DEF told, e0, e1

\* A roll that follows a turn, and the seats of each kind of turn.
LEMMA SeatsOfTurns ==
  ASSUME NEW c, NEW s
  PROVE  /\ \A o : SeatsOf(ChanceTurn(c, s, o)) = {}
         /\ \A seat, a : SeatsOf(ActionTurn(c, s, seat, a)) = {seat}
         /\ \A actions : SeatsOf(RoundTurn(c, s, actions)) = DOMAIN actions
  BY DEF SeatsOf, ChanceTurn, ActionTurn, RoundTurn, Turn

\* Chance turns leave the log as it is: no seat takes them.
LEMMA SettledLog ==
  ASSUME NEW c \in GameConfigs, NEW m, Played(c, m), NEW x \in Settled(m),
         NEW es, NEW asked, NEW end, Log(es, m.turns, asked, end)
  PROVE  Log(es, x.turns, asked, end)
<1>1. CASE x = m
  BY <1>1
<1>2. CASE Chance(c, m.state) /\ \E o \in Outcomes(c, m.state) : x = ResolveOne(m, o)
  <2>1. PICK o \in Outcomes(c, m.state) : x = ResolveOne(m, o)
    BY <1>2
  <2> DEFINE t == ChanceTurn(c, m.state, o)
  <2>2. Made(c, m.state, t) /\ x = After(m, t)
    BY <1>2, <2>1, RollMade
  <2>3. SeatsOf(t) = {}
    BY SeatsOfTurns
  <2> HIDE DEF t
  <2>4. x.turns = Append(m.turns, t) /\ IsSeq(m.turns)
    BY <2>2, AfterPlayed, MatchIs DEF IsPlayed
  <2> QED BY <2>3, <2>4, LogRoll
<1> QED BY <1>1, <1>2, SettledIs

\* The last events of a match that is aborted, and of one that plays on.
LEMMA AbortLog ==
  ASSUME NEW es, NEW turns, NEW asked, Log(es, turns, asked, "running"), NEW a
  PROVE  /\ Log(es \o <<MatchAborted(a)>>, turns, asked, "MatchAborted")
         /\ Log((es \o <<MatchAborted(a)>>) \o <<>>, turns, asked, "MatchAborted")
         /\ \A retried, decided :
               Log((es \o <<MatchAborted(a)>>) \o Notes(retried, decided), turns, asked,
                   "MatchAborted")
<1> DEFINE e == MatchAborted(a)
<1>1. IsSeq(es) /\ e.event_type = "MatchAborted" /\ e.event_type \in Ends /\ "running" \notin Ends
  BY DEF Log, Book, MatchAborted, Ends
<1> HIDE DEF e
<1>2. Log(Append(es, e), turns, asked, "MatchAborted")
  BY <1>1, LogEnds
<1>3. es \o <<e>> = Append(es, e) /\ IsSeq(Append(es, e))
  BY <1>1, SeqAppend
<1>4. Append(es, e) \o <<>> = Append(es, e)
  <2> DEFINE new == Append(es, e)
  <2>1. IsSeq(new)
    BY <1>3
  <2> HIDE DEF new
  <2>2. new \o <<>> = new
    BY <2>1, SeqAppend
  <2> QED BY <2>2 DEF new
<1>5. Log(es \o <<e>>, turns, asked, "MatchAborted") /\ (es \o <<e>>) \o <<>> = es \o <<e>>
  BY <1>2, <1>3, <1>4
<1>6. Log((es \o <<e>>) \o <<>>, turns, asked, "MatchAborted")
  BY <1>5
<1>7. ASSUME NEW retried, NEW decided
      PROVE  Log((es \o <<e>>) \o Notes(retried, decided), turns, asked, "MatchAborted")
  BY <1>5, LogNotes
<1> QED BY <1>5, <1>6, <1>7 DEF e

\* A step that advances tells the end if there is one, and then the notes.
LEMMA AdvanceLog ==
  ASSUME NEW es, NEW turns, Log(es, turns, {}, "running"), NEW over \in BOOLEAN,
         NEW retried, NEW decided
  PROVE  Log((es \o When(over, Plain("MatchFinished"))) \o Notes(retried, decided), turns, {},
             IF over THEN "MatchFinished" ELSE "running")
<1> DEFINE e == Plain("MatchFinished")
           end == IF over THEN "MatchFinished" ELSE "running"
<1>1. IsSeq(es) /\ e.event_type = "MatchFinished" /\ e.event_type \in Ends /\ "running" \notin Ends
  BY DEF Log, Book, Plain, Ends
<1> HIDE DEF e
<1>2. CASE over
  <2>1. Log(Append(es, e), turns, {}, "MatchFinished")
    BY <1>1, LogEnds
  <2>2. es \o When(over, e) = Append(es, e)
    BY <1>1, <1>2, WhenIs
  <2>3. Log(es \o When(over, e), turns, {}, end)
    BY <1>2, <2>1, <2>2
  <2> HIDE DEF end
  <2> QED BY <2>3, LogNotes DEF e, end
<1>3. CASE ~over
  <2>1. es \o When(over, e) = es
    BY <1>1, <1>3, WhenIs
  <2>2. Log(es \o When(over, e), turns, {}, end)
    BY <1>3, <2>1
  <2> HIDE DEF end
  <2> QED BY <2>2, LogNotes DEF e, end
<1> QED BY <1>2, <1>3

(***************************************************************************)
(* The invariant: the events tell the turns played so far, and while the    *)
(* match runs the only seat asked and not yet accepted is the requested one.*)
(***************************************************************************)
TurnsNow == IF match = <<>> THEN <<>> ELSE TheMatch.turns

EndNow ==
  IF lifecycle = "finished" THEN "MatchFinished"
  ELSE IF lifecycle = "aborted" THEN "MatchAborted" ELSE "running"

EventsOk ==
  \E asked \in SUBSET VALID_SEATS :
     /\ Log(events, TurnsNow, asked, EndNow)
     /\ lifecycle \in {"created", "running"} => asked = {requested} \ {NoSeat}

\* The log of a session that runs.
LEMMA RunningLog ==
  ASSUME SessionOk, EventsOk, lifecycle = "running"
  PROVE  /\ Log(events, TheMatch.turns, {requested} \ {NoSeat}, "running")
         /\ TurnsNow = TheMatch.turns /\ IsSeq(TheMatch.turns) /\ IsSeq(events)
         /\ config \in GameConfigs /\ Played(config, TheMatch)
<1>1. TurnsNow = TheMatch.turns
  BY RunningIs DEF Started, TurnsNow
<1>2. EndNow = "running"
  BY DEF EndNow
<1>3. config \in GameConfigs /\ Played(config, TheMatch)
  BY RunningIs, StartedIs
<1>4. IsSeq(TheMatch.turns)
  BY <1>3, MatchIs DEF IsPlayed
<1>5. Log(events, TheMatch.turns, {requested} \ {NoSeat}, "running")
  BY <1>1, <1>2 DEF EventsOk
<1>6. IsSeq(events)
  BY <1>5 DEF Log, Book
<1> QED BY <1>1, <1>3, <1>4, <1>5, <1>6

\* The log while no seat is requested.
LEMMA AskedNone ==
  ASSUME SessionOk, EventsOk, lifecycle = "running", requested = NoSeat
  PROVE  Log(events, TheMatch.turns, {}, "running")
  BY RunningLog

\* The log while a seat is requested.
LEMMA AskedOne ==
  ASSUME SessionOk, EventsOk, requested # NoSeat
  PROVE  lifecycle = "running" /\ Log(events, TheMatch.turns, {requested}, "running")
<1>1. lifecycle = "running"
  BY AskedIs
<1>2. {requested} \ {NoSeat} = {requested}
  OBVIOUS
<1> QED BY <1>1, <1>2, RunningLog

\* A session that aborts is told as aborted.
LEMMA EventsAborted ==
  ASSUME NEW asked \in SUBSET VALID_SEATS, lifecycle' = "aborted", match' = match,
         Log(events', TurnsNow, asked, "MatchAborted")
  PROVE  EventsOk'
<1>1. TurnsNow' = TurnsNow
  BY DEF TurnsNow, TheMatch
<1>2. EndNow' = "MatchAborted"
  BY DEF EndNow
<1>3. Log(events', TurnsNow', asked, EndNow')
  BY <1>1, <1>2
<1> QED BY <1>3 DEF EventsOk

\* A session that advances is told as running or finished.
LEMMA EventsAdvanced ==
  ASSUME NEW m, match' = <<m>>, requested' = NoSeat,
         lifecycle' = IF Over(m) THEN "finished" ELSE "running",
         Log(events', m.turns, {}, IF Over(m) THEN "MatchFinished" ELSE "running")
  PROVE  EventsOk'
<1>1. TurnsNow' = m.turns
  BY DEF TurnsNow, TheMatch
<1>2. EndNow' = IF Over(m) THEN "MatchFinished" ELSE "running"
  BY DEF EndNow
<1>3. Log(events', TurnsNow', {}, EndNow')
  BY <1>1, <1>2
<1>4. {requested'} \ {NoSeat} = {}
  OBVIOUS
<1> QED BY <1>3, <1>4 DEF EventsOk

\* EventsOk of a session that was created.
LEMMA EventsInit ==
  ASSUME Init PROVE EventsOk
<1>1. events = <<Plain("MatchCreated")>> /\ Plain("MatchCreated").event_type = "MatchCreated"
  BY DEF Init, Plain
<1> DEFINE none == <<>>
<1>2. IsSeq(none) /\ Len(none) = 0 /\ 1..Len(none) = {}
  <2>1. none \in Seq({})
    OBVIOUS
  <2> QED BY <2>1 DEF IsSeq
<1>3. Cardinality({}) = 0
  BY FS_EmptySet
<1>4. \A type : IndexOf(none, type) = {}
  BY <1>2 DEF IndexOf
<1>5. \A type, seat : OfSeat(none, type, seat) = {}
  BY <1>4 DEF OfSeat
<1>6. SeatsTaken(none) \in [1..0 -> SUBSET VALID_SEATS]
  <2>1. 1..0 = {}
    OBVIOUS
  <2> QED BY <1>2, <2>1 DEF SeatsTaken
<1>7. Book(none, 0, SeatsTaken(none), {})
  <2>1. \A k \in 1..0 : FALSE
    OBVIOUS
  <2>2. \A seat \in VALID_SEATS :
           Cardinality(OfSeat(none, "TurnRequested", seat))
             = Cardinality(OfSeat(none, "TurnAccepted", seat)) + (IF seat \in {} THEN 1 ELSE 0)
    <3> TAKE seat \in VALID_SEATS
    <3>1. OfSeat(none, "TurnRequested", seat) = {} /\ OfSeat(none, "TurnAccepted", seat) = {}
      BY <1>5
    <3> HIDE DEF none
    <3> QED BY <1>3, <3>1
  <2> HIDE DEF none
  <2> QED BY <1>2, <1>4, <1>6, <2>1, <2>2 DEF Book
<1>8. Ending(none, "running")
  BY <1>4 DEF Ending, Ends
<1>9. Log(none, none, {}, "running")
  BY <1>2, <1>7, <1>8 DEF Log
<1>10. Log(Append(none, Plain("MatchCreated")), none, {}, "running")
  <2> HIDE DEF none
  <2> QED BY <1>1, <1>9, LogOther DEF Ends
<1>11. TurnsNow = none /\ EndNow = "running" /\ {requested} \ {NoSeat} = {}
  BY DEF Init, TurnsNow, EndNow
<1>12. events = Append(none, Plain("MatchCreated"))
  BY <1>1
<1> HIDE DEF none
<1> QED BY <1>10, <1>11, <1>12 DEF EventsOk

\* Starting the match keeps EventsOk.
LEMMA EventsStart ==
  ASSUME SessionOk, EventsOk, StartSession PROVE EventsOk'
<1>1. PICK m \in StartMatch(config) :
        /\ match' = <<m>>
        /\ lifecycle' = IF Over(m) THEN "finished" ELSE "running"
        /\ events' = events \o <<Plain("MatchStarted")>> \o When(Over(m), Plain("MatchFinished"))
  BY DEF StartSession
<1>2. requested = NoSeat /\ requested' = NoSeat /\ lifecycle = "created" /\ match = <<>>
  BY AskedIs DEF StartSession, SessionOk, LifecycleOk
<1>3. config \in GameConfigs
  BY RuntimeAssumption DEF SessionOk, ConfigOk
<1>4. Log(events, <<>>, {}, "running")
  BY <1>2 DEF EventsOk, TurnsNow, EndNow
<1> DEFINE es == events \o <<Plain("MatchStarted")>>
<1>5. Log(es, <<>>, {}, "running")
  <2>1. IsSeq(events)
    BY <1>4 DEF Log, Book
  <2>2. es = Append(events, Plain("MatchStarted"))
    BY <2>1, SeqAppend
  <2>3. Plain("MatchStarted").event_type = "MatchStarted" /\ "running" \notin Ends
    BY DEF Plain, Ends
  <2> QED BY <1>4, <2>2, <2>3, LogOther DEF Ends
<1>6. Played(config, Fresh(config)) /\ Fresh(config).turns = <<>>
  BY <1>3, FreshPlayed
<1> HIDE DEF es
<1>7. Log(es, m.turns, {}, "running")
  BY <1>1, <1>3, <1>5, <1>6, SettledLog DEF StartMatch
<1>8. Log(es \o When(Over(m), Plain("MatchFinished")), m.turns, {},
          IF Over(m) THEN "MatchFinished" ELSE "running")
  <2>1. IsSeq(es) /\ Plain("MatchFinished").event_type = "MatchFinished" /\ "running" \notin Ends
    BY <1>7 DEF Log, Book, Plain, Ends
  <2>2. CASE Over(m)
    <3>1. Log(Append(es, Plain("MatchFinished")), m.turns, {}, "MatchFinished")
      BY <1>7, <2>1, LogEnds DEF Ends
    <3> QED BY <2>1, <2>2, <3>1, WhenIs
  <2>3. CASE ~Over(m)
    <3>1. es \o When(Over(m), Plain("MatchFinished")) = es
      BY <2>1, <2>3, WhenIs
    <3> QED BY <1>7, <2>3, <3>1
  <2> QED BY <2>2, <2>3
<1> QED BY <1>1, <1>2, <1>8, EventsAdvanced DEF es

\* Requesting a turn keeps EventsOk.
LEMMA EventsRequest ==
  ASSUME SessionOk, EventsOk, RequestTurn PROVE EventsOk'
<1>1. /\ lifecycle = "running" /\ requested = NoSeat /\ ~JointNow
      /\ requested' = CurrentSeat(TheMatch)
      /\ events' = Append(events, TurnRequested(requested'))
      /\ lifecycle' = lifecycle /\ match' = match
  BY DEF RequestTurn, Playing
<1>2. requested' \in VALID_SEATS
  BY <1>1, RunningIs
<1>3. Log(events, TheMatch.turns, {}, "running") /\ TurnsNow = TheMatch.turns
  BY <1>1, AskedNone, RunningLog
<1>4. Log(events', TheMatch.turns, {} \cup {requested'}, "running")
  <2> DEFINE seat == requested'
  <2>1. seat \in VALID_SEATS \ {} /\ "running" \notin Ends
    BY <1>2 DEF Ends
  <2>2. events' = Append(events, TurnRequested(seat))
    BY <1>1
  <2> HIDE DEF seat
  <2>3. Log(events', TheMatch.turns, {} \cup {seat}, "running")
    BY <1>3, <2>1, <2>2, LogRequest
  <2> QED BY <2>3 DEF seat
<1>5. TurnsNow' = TheMatch.turns /\ EndNow' = "running"
  BY <1>1, <1>3 DEF TurnsNow, TheMatch, EndNow
<1>6. {} \cup {requested'} = {requested'} \ {NoSeat} /\ {requested'} \in SUBSET VALID_SEATS
  BY <1>2 DEF VALID_SEATS, NoSeat
<1> QED BY <1>4, <1>5, <1>6 DEF EventsOk

\* A step of a requested turn that aborts the session.
LEMMA EventsAbort ==
  ASSUME SessionOk, EventsOk, requested # NoSeat, NEW reason, NEW cause, NEW notes,
         notes = <<>> \/ \E retried, decided : notes = Notes(retried, decided),
         AbortWith(reason, cause, <<>>, notes)
  PROVE  EventsOk'
<1>1. Log(events, TheMatch.turns, {requested}, "running") /\ lifecycle = "running"
  BY AskedOne
<1>2. requested \in VALID_SEATS /\ TurnsNow = TheMatch.turns /\ IsSeq(events)
  BY <1>1, AskedIs, RunningLog
<1> DEFINE a == [reason |-> reason, cause |-> cause]
<1>3. /\ events' = events \o <<>> \o <<MatchAborted(a)>> \o notes
      /\ lifecycle' = "aborted" /\ match' = match
  BY DEF AbortWith
<1> HIDE DEF a
<1>4. events' = (events \o <<MatchAborted(a)>>) \o notes
  <2>1. events \o <<>> = events
    BY <1>2, SeqAppend
  <2> QED BY <1>3, <2>1
<1>5. Log(events', TheMatch.turns, {requested}, "MatchAborted")
  <2>1. CASE notes = <<>>
    BY <1>1, <1>4, <2>1, AbortLog
  <2>2. CASE \E retried, decided : notes = Notes(retried, decided)
    BY <1>1, <1>4, <2>2, AbortLog
  <2> QED BY <2>1, <2>2
<1> QED BY <1>2, <1>3, <1>5, EventsAborted

\* A step of a round that aborts the session.
LEMMA EventsAbortRound ==
  ASSUME SessionOk, EventsOk, JointTurn, NEW reason, NEW cause, NEW notes,
         notes = <<>> \/ \E retried, decided : notes = Notes(retried, decided),
         AbortWith(reason, cause, AllRequested, notes)
  PROVE  EventsOk'
<1>1. lifecycle = "running" /\ JointNow /\ requested = NoSeat
  BY AskedIs DEF JointTurn, Playing
<1>2. ActingNow = VALID_SEATS
  BY <1>1, RunningIs
<1>3. Log(events, TheMatch.turns, {}, "running") /\ TurnsNow = TheMatch.turns
  BY <1>1, AskedNone, RunningLog
<1> DEFINE a == [reason |-> reason, cause |-> cause]
           es == events \o AllRequested
<1>4. /\ events' = (es \o <<MatchAborted(a)>>) \o notes
      /\ lifecycle' = "aborted" /\ match' = match
  BY DEF AbortWith
<1>5. Log(es, TheMatch.turns, VALID_SEATS, "running")
  BY <1>2, <1>3, LogRequests DEF Ends
<1> HIDE DEF a, es
<1>6. Log(events', TheMatch.turns, VALID_SEATS, "MatchAborted")
  <2>1. CASE notes = <<>>
    BY <1>4, <1>5, <2>1, AbortLog
  <2>2. CASE \E retried, decided : notes = Notes(retried, decided)
    BY <1>4, <1>5, <2>2, AbortLog
  <2> QED BY <2>1, <2>2
<1> QED BY <1>3, <1>4, <1>6, EventsAborted

\* A policy's answer keeps EventsOk, accepted or not.
LEMMA EventsAnswer ==
  ASSUME SessionOk, EventsOk, PolicyAnswers PROVE EventsOk'
<1>1. requested # NoSeat /\ lifecycle = "running" /\ requested \in VALID_SEATS
  BY AskedIs DEF PolicyAnswers, Asked
<1>2. PICK r \in [seat : VALID_SEATS, action : Actions(config)],
           retried \in MayRetry({requested}) :
        LET notes == Notes(retried, {requested} \cap Agents)
        IN IF ActionAccepted(TheMatch, r.seat, r.action)
           THEN \E next \in Settled(AfterAction(TheMatch, r.seat, r.action)) :
                    AdvanceTo(next, <<TurnAccepted(requested)>>, notes)
           ELSE AbortWith("core_error", Text(<<>>), <<>>, notes)
  BY DEF PolicyAnswers
<1>3. CASE ~ActionAccepted(TheMatch, r.seat, r.action)
  BY <1>1, <1>2, <1>3, EventsAbort
<1>4. CASE ActionAccepted(TheMatch, r.seat, r.action)
  <2> DEFINE moved == AfterAction(TheMatch, r.seat, r.action)
             t == ActionTurn(config, TheMatch.state, r.seat, r.action)
             es == events \o <<TurnAccepted(requested)>>
  <2>1. PICK next \in Settled(moved) :
          AdvanceTo(next, <<TurnAccepted(requested)>>, Notes(retried, {requested} \cap Agents))
    BY <1>2, <1>4
  <2>2. /\ config \in GameConfigs /\ Played(config, TheMatch) /\ IsSeq(TheMatch.turns)
        /\ IsSeq(events)
        /\ Log(events, TheMatch.turns, {requested}, "running")
    BY <1>1, AskedOne, RunningLog
  <2>3. r.seat = requested /\ Played(config, moved)
    BY <1>1, <1>4, <2>1, AnswerIs
  <2>4. moved.turns = Append(TheMatch.turns, t)
    BY <1>4, <2>2, MovePlayed
  <2>5. SeatsOf(t) = {requested}
    BY <2>3, SeatsOfTurns
  <2>6. es = Append(events, Accepting(Len(TheMatch.turns) + 1, requested))
    <3>1. TurnAccepted(requested) = Accepting(Len(TheMatch.turns) + 1, requested)
      BY DEF TurnAccepted, Accepting
    <3> QED BY <2>2, <3>1, SeqAppend
  <2> HIDE DEF t, moved, es
  <2>7. Log(es, moved.turns, {}, "running")
    <3>1. {requested} \ {requested} = {} /\ requested \in {requested} /\ "running" \notin Ends
      BY DEF Ends
    <3>2. Log(Append(events, Accepting(Len(TheMatch.turns) + 1, requested)),
              Append(TheMatch.turns, t), {requested} \ {requested}, "running")
      BY <2>2, <2>5, <3>1, LogMove
    <3> QED BY <2>4, <2>6, <3>1, <3>2
  <2>8. Log(es, next.turns, {}, "running")
    BY <2>1, <2>2, <2>3, <2>7, SettledLog
  <2>9. Over(next) \in BOOLEAN
    BY DEF Over, Terminal
  <2>10. /\ match' = <<next>> /\ requested' = NoSeat
         /\ lifecycle' = IF Over(next) THEN "finished" ELSE "running"
         /\ events' = (es \o When(Over(next), Plain("MatchFinished")))
                         \o Notes(retried, {requested} \cap Agents)
    BY <2>1 DEF AdvanceTo, es
  <2>11. Log(events', next.turns, {}, IF Over(next) THEN "MatchFinished" ELSE "running")
    BY <2>8, <2>9, <2>10, AdvanceLog
  <2> QED BY <2>10, <2>11, EventsAdvanced
<1> QED BY <1>3, <1>4

\* The answers of a round keep EventsOk, accepted or not.
LEMMA EventsRound ==
  ASSUME SessionOk, EventsOk, JointPoliciesAnswer PROVE EventsOk'
<1>1. JointTurn /\ lifecycle = "running" /\ JointNow /\ requested = NoSeat
  BY AskedIs DEF JointPoliciesAnswer, JointTurn, Playing
<1>2. PICK actions \in [ActingNow -> Actions(config)], retried \in MayRetry(ActingNow) :
        LET notes == Notes(retried, ActingNow \cap Agents)
        IN IF JointValid(config, TheMatch.state, actions)
           THEN AdvanceTo(AfterJoint(TheMatch, actions),
                          AllRequested \o ForSeats(TurnAccepted, ActingNow), notes)
           ELSE AbortWith("core_error", Text(<<>>), AllRequested, notes)
  BY DEF JointPoliciesAnswer
<1>3. CASE ~JointValid(config, TheMatch.state, actions)
  BY <1>1, <1>2, <1>3, EventsAbortRound
<1>4. CASE JointValid(config, TheMatch.state, actions)
  <2> DEFINE next == AfterJoint(TheMatch, actions)
             t == RoundTurn(config, TheMatch.state, actions)
             es == events \o AllRequested
             told == AllRequested \o ForSeats(TurnAccepted, ActingNow)
             n == Len(TheMatch.turns) + 1
  <2>1. AdvanceTo(next, told, Notes(retried, ActingNow \cap Agents))
    BY <1>2, <1>4
  <2>2. /\ config \in GameConfigs /\ Played(config, TheMatch) /\ IsSeq(TheMatch.turns)
        /\ IsSeq(events) /\ Log(events, TheMatch.turns, {}, "running")
    BY <1>1, AskedNone, RunningLog
  <2>3. ActingNow = VALID_SEATS
    BY <1>1, RunningIs
  <2>4. actions \in [VALID_SEATS -> Actions(config)]
    BY <2>3
  <2>5. next.turns = Append(TheMatch.turns, t)
    BY <1>4, <2>2, <2>4, RoundPlayed
  <2>6. SeatsOf(t) = VALID_SEATS
    BY <2>4, SeatsOfTurns
  <2>7. Log(es, TheMatch.turns, VALID_SEATS, "running")
    BY <2>2, <2>3, LogRequests DEF Ends
  <2>8. events \o told = Append(Append(es, Accepting(n, 0)), Accepting(n, 1))
    BY <2>2, <2>3, Accepts
  <2> HIDE DEF t, next, es, told
  <2>9. Log(events \o told, next.turns, {}, "running")
    BY <2>2, <2>5, <2>6, <2>7, <2>8, LogRound DEF Ends
  <2>10. Over(next) \in BOOLEAN
    BY DEF Over, Terminal
  <2>11. /\ match' = <<next>> /\ requested' = NoSeat
         /\ lifecycle' = IF Over(next) THEN "finished" ELSE "running"
         /\ events' = ((events \o told) \o When(Over(next), Plain("MatchFinished")))
                         \o Notes(retried, ActingNow \cap Agents)
    BY <2>1 DEF AdvanceTo
  <2> DEFINE all == events \o told
  <2> HIDE DEF all
  <2>12. Log(events', next.turns, {}, IF Over(next) THEN "MatchFinished" ELSE "running")
    BY <2>9, <2>10, <2>11, AdvanceLog DEF all
  <2> QED BY <2>11, <2>12, EventsAdvanced
<1> QED BY <1>3, <1>4

\* A user who stops a round keeps EventsOk.
LEMMA EventsRoundStops ==
  ASSUME SessionOk, EventsOk, JointUserStops PROVE EventsOk'
<1>1. JointTurn /\ lifecycle = "running" /\ JointNow /\ requested = NoSeat
  BY AskedIs DEF JointUserStops, JointTurn, Playing
<1> DEFINE a == [reason |-> "user_quit", cause |-> NoData]
           es == events \o AllRequested
<1>2. PICK seat \in ActingNow, retried \in SUBSET VALID_SEATS :
        /\ lifecycle' = "aborted" /\ match' = match
        /\ events' = (es \o Notes(retried, Before(seat) \cap Agents)) \o <<MatchAborted(a)>>
  <2>1. ActingNow \subseteq VALID_SEATS
    BY <1>1, RunningIs
  <2>2. \A seat \in ActingNow : MayRetry(Before(seat) \cup {seat}) \subseteq SUBSET VALID_SEATS
    BY <2>1 DEF MayRetry, Before
  <2> QED BY <2>2 DEF JointUserStops
<1>3. ActingNow = VALID_SEATS
  BY <1>1, RunningIs
<1>4. Log(events, TheMatch.turns, {}, "running") /\ TurnsNow = TheMatch.turns
  BY <1>1, AskedNone, RunningLog
<1>5. Log(es, TheMatch.turns, VALID_SEATS, "running")
  BY <1>3, <1>4, LogRequests DEF Ends
<1> DEFINE noted == es \o Notes(retried, Before(seat) \cap Agents)
<1>6. Log(noted, TheMatch.turns, VALID_SEATS, "running")
  <2> HIDE DEF es
  <2> QED BY <1>5, LogNotes
<1>7. events' = noted \o <<MatchAborted(a)>>
  BY <1>2
<1> HIDE DEF a, noted
<1>8. Log(events', TheMatch.turns, VALID_SEATS, "MatchAborted")
  BY <1>6, <1>7, AbortLog
<1> QED BY <1>2, <1>4, <1>8, EventsAborted

\* Every step keeps EventsOk.
LEMMA EventsNext ==
  ASSUME SessionOk, EventsOk, [Next]_vars PROVE EventsOk'
<1>1. CASE StartSession
  BY <1>1, EventsStart
<1>2. CASE RequestTurn
  BY <1>2, EventsRequest
<1>3. CASE PolicyMissing
  BY <1>3, EventsAbort DEF PolicyMissing
<1>4. CASE PolicyAnswers
  BY <1>4, EventsAnswer
<1>5. CASE PolicyFails
  BY <1>5, EventsAbort DEF PolicyFails, Asked
<1>6. CASE UserStops
  BY <1>6, EventsAbort DEF UserStops, Asked
<1>7. CASE JointPolicyMissing
  BY <1>7, EventsAbortRound DEF JointPolicyMissing
<1>8. CASE JointPoliciesAnswer
  BY <1>8, EventsRound
<1>9. CASE JointPolicyFails
  <2>1. JointTurn
    BY <1>9 DEF JointPolicyFails
  <2>2. PICK seat \in ActingNow, wrongSeat \in BOOLEAN :
          LET decided == Before(seat) \cup (IF wrongSeat THEN {seat} ELSE {})
          IN \E retried \in MayRetry(Before(seat) \cup {seat}) :
                AbortWith("adapter_error", Text(<<>>), AllRequested,
                          Notes(retried, decided \cap Agents))
    BY <1>9 DEF JointPolicyFails
  <2>3. \E retried, decided :
           AbortWith("adapter_error", Text(<<>>), AllRequested, Notes(retried, decided))
    BY <2>2
  <2> QED BY <2>1, <2>3, EventsAbortRound
<1>10. CASE JointUserStops
  BY <1>10, EventsRoundStops
<1>11. CASE WriteArtefacts
  <2>1. UNCHANGED <<lifecycle, match, events, requested>>
    BY <1>11 DEF WriteArtefacts
  <2>2. TurnsNow' = TurnsNow /\ EndNow' = EndNow
    BY <2>1 DEF TurnsNow, TheMatch, EndNow
  <2> QED BY <2>1, <2>2 DEF EventsOk
<1>12. CASE UNCHANGED vars
  <2>1. UNCHANGED <<lifecycle, match, events, requested>>
    BY <1>12 DEF vars
  <2>2. TurnsNow' = TurnsNow /\ EndNow' = EndNow
    BY <2>1 DEF TurnsNow, TheMatch, EndNow
  <2> QED BY <2>1, <2>2 DEF EventsOk
<1> QED BY <1>1, <1>2, <1>3, <1>4, <1>5, <1>6, <1>7, <1>8, <1>9, <1>10, <1>11, <1>12 DEF Next

\* The events of a session that is as EventsOk says tell its match.
LEMMA EventsTell ==
  ASSUME SessionOk, EventsOk PROVE EventsTellTheMatch
<1> SUFFICES ASSUME Started PROVE EventsTellTheMatch
  BY DEF EventsTellTheMatch
<1> DEFINE turns == TheMatch.turns
           n == Len(turns)
           taken == SeatsTaken(turns)
<1>1. PICK asked \in SUBSET VALID_SEATS : Log(events, turns, asked, EndNow)
  BY DEF EventsOk, TurnsNow, Started
<1>2. IsSeq(events) /\ Book(events, n, taken, asked) /\ Ending(events, EndNow)
  BY <1>1 DEF Log, Book
<1>3. Len(events) \in Nat /\ DOMAIN events = 1..Len(events)
  BY <1>2, SeqAppend
<1>4. \A type : Told(type) = IndexOf(events, type)
  BY <1>3 DEF Told, IndexOf
<1>5. DOMAIN turns = 1..n /\ n \in Nat
  <2>1. Played(config, TheMatch) /\ config \in GameConfigs
    BY StartedIs
  <2> QED BY <2>1, MatchIs
<1>6. \A k \in 1..n : taken[k] = SeatsOf(turns[k])
  BY DEF SeatsTaken
<1> HIDE DEF turns, n, taken
<1>7. ASSUME NEW k \in DOMAIN turns PROVE AcceptedFor(k) = SeatsOf(turns[k])
  <2>1. k \in 1..n
    BY <1>5
  <2>2. AcceptedFor(k) \subseteq taken[k]
    BY <1>2, <1>4, <2>1 DEF AcceptedFor, Book
  <2>3. ASSUME NEW seat \in taken[k] PROVE seat \in AcceptedFor(k)
    <3>1. PICK i \in IndexOf(events, "TurnAccepted") :
                events[i].turn_index = k /\ events[i].seat = seat
      BY <1>2, <2>1 DEF Book
    <3> QED BY <1>4, <3>1 DEF AcceptedFor
  <2> QED BY <1>6, <2>1, <2>2, <2>3
<1>8. ASSUME NEW i \in Told("TurnAccepted")
      PROVE  /\ events[i].turn_index \in DOMAIN turns
             /\ \A j \in Told("TurnAccepted") \ {i} :
                   <<events[i].turn_index, events[i].seat>>
                       # <<events[j].turn_index, events[j].seat>>
             /\ Cardinality({j \in Told("TurnRequested") : j < i /\ events[j].seat = events[i].seat})
                   = Cardinality({j \in Told("TurnAccepted") : j <= i /\ events[j].seat = events[i].seat})
  <2>1. i \in IndexOf(events, "TurnAccepted")
    BY <1>4
  <2>2. /\ {j \in Told("TurnRequested") : j < i /\ events[j].seat = events[i].seat}
             = SeatBefore(events, "TurnRequested", i)
        /\ {j \in Told("TurnAccepted") : j <= i /\ events[j].seat = events[i].seat}
             = SeatUpTo(events, "TurnAccepted", i)
    BY <1>4 DEF SeatBefore, SeatUpTo
  <2>3. /\ events[i].turn_index \in DOMAIN turns
        /\ Cardinality(SeatBefore(events, "TurnRequested", i))
              = Cardinality(SeatUpTo(events, "TurnAccepted", i))
    BY <1>2, <1>5, <2>1 DEF Book
  <2>4. \A j \in Told("TurnAccepted") \ {i} :
           <<events[i].turn_index, events[i].seat>> # <<events[j].turn_index, events[j].seat>>
    BY <1>2, <1>4, <2>1 DEF Book
  <2> QED BY <2>2, <2>3, <2>4
<1>9. ASSUME NEW type \in Ends
      PROVE  /\ Cardinality(Told(type)) = IF EndNow = type THEN 1 ELSE 0
             /\ \A i \in Told(type) : \A j \in (i + 1)..Len(events) : SeatPrivate(events[j])
  <2>1. CASE EndNow = type
    <3>1. PICK k \in 1..Len(events) :
               /\ IndexOf(events, type) = {k}
               /\ \A j \in (k + 1)..Len(events) : SeatPrivate(events[j])
      BY <1>2, <2>1 DEF Ending
    <3>2. Cardinality({k}) = 1
      BY FS_Singleton
    <3>3. Told(type) = {k}
      BY <1>4, <3>1
    <3> QED BY <2>1, <3>1, <3>2, <3>3
  <2>2. CASE EndNow # type
    <3>1. Told(type) = {}
      BY <1>2, <1>4, <2>2 DEF Ending
    <3>2. Cardinality({}) = 0
      BY FS_EmptySet
    <3> QED BY <2>2, <3>1, <3>2
  <2> QED BY <2>1, <2>2
<1>10. /\ EndNow = "MatchFinished" <=> lifecycle = "finished"
       /\ EndNow = "MatchAborted" <=> lifecycle = "aborted"
  BY DEF EndNow
<1>11. /\ Cardinality(Told("MatchFinished")) = (IF lifecycle = "finished" THEN 1 ELSE 0)
       /\ Cardinality(Told("MatchAborted")) = (IF lifecycle = "aborted" THEN 1 ELSE 0)
       /\ \A i \in Told("MatchFinished") \cup Told("MatchAborted") :
             \A j \in (i + 1)..Len(events) : SeatPrivate(events[j])
  BY <1>9, <1>10 DEF Ends
<1> QED BY <1>7, <1>8, <1>11 DEF EventsTellTheMatch, turns

\* Every turn of a seat is accepted once, after its request, under its own
\* position, and the end is told once, with only agents' notes behind it.
THEOREM EventsAlwaysTell == Spec => []EventsTellTheMatch
<1>1. Init => SessionOk /\ EventsOk
  BY SessionInit, EventsInit
<1>2. SessionOk /\ EventsOk /\ [Next]_vars => (SessionOk /\ EventsOk)'
  BY SessionNext, EventsNext
<1>3. SessionOk /\ EventsOk => EventsTellTheMatch
  BY EventsTell
<1> QED BY <1>1, <1>2, <1>3, PTL DEF Spec

----------------------------------------------------------------------------
(* What a match dumps, and what it replays to *)

\* A function over 1..n is a sequence of n.
LEMMA ListOf ==
  ASSUME NEW n \in Nat, NEW f, f = [i \in 1..n |-> f[i]]
  PROVE  IsSeq(f) /\ Len(f) = n /\ DOMAIN f = 1..n
<1> DEFINE T == {f[i] : i \in 1..n}
<1>1. f \in [1..n -> T] /\ DOMAIN f = 1..n
  OBVIOUS
<1> HIDE DEF T
<1>2. f \in Seq(T)
  BY <1>1
<1>3. Len(f) \in Nat /\ DOMAIN f = 1..Len(f)
  BY <1>2
<1>4. Len(f) = n
  BY <1>1, <1>3
<1> QED BY <1>1, <1>2, <1>4 DEF IsSeq

\* Only a hand is dealt to a seat, and to one of the two.
SeatEvents(es) == \A i \in DOMAIN es : es[i].event_type = "DiceDealt" => es[i].seat \in VALID_SEATS

\* One event that deals nothing, appended or not.
LEMMA MoreEvents ==
  ASSUME NEW es, IsSeq(es), SeatEvents(es), NEW over, NEW e, e.event_type # "DiceDealt"
  PROVE  SeatEvents(es \o When(over, e))
<1>1. CASE over
  <2> DEFINE new == Append(es, e)
  <2>1. es \o When(over, e) = new
    BY <1>1, WhenIs
  <2>2. /\ Len(es) \in Nat /\ DOMAIN es = 1..Len(es) /\ DOMAIN new = 1..(Len(es) + 1)
        /\ new[Len(es) + 1] = e /\ \A i \in 1..Len(es) : new[i] = es[i]
    BY SeqAppend
  <2> HIDE DEF new
  <2>3. \A i \in 1..(Len(es) + 1) : i = Len(es) + 1 \/ i \in 1..Len(es)
    BY <2>2
  <2> QED BY <2>1, <2>2, <2>3 DEF SeatEvents
<1>2. CASE ~over
  BY <1>2, WhenIs
<1> QED BY <1>1, <1>2

\* A single event that deals nothing.
LEMMA OneEvent ==
  ASSUME NEW a, a.event_type # "DiceDealt"
  PROVE  SeatEvents(<<a>>) /\ IsSeq(<<a>>)
<1>1. <<a>> \in Seq({a})
  OBVIOUS
<1>2. SeatEvents(<<a>>)
  BY DEF SeatEvents
<1> QED BY <1>1, <1>2 DEF IsSeq

\* Two events that deal nothing.
LEMMA TwoEvents ==
  ASSUME NEW a, NEW b, a.event_type # "DiceDealt", b.event_type # "DiceDealt"
  PROVE  SeatEvents(<<a, b>>) /\ IsSeq(<<a, b>>)
<1>1. <<a, b>> \in Seq({a, b})
  OBVIOUS
<1>2. SeatEvents(<<a, b>>)
  BY DEF SeatEvents
<1> QED BY <1>1, <1>2 DEF IsSeq

\* A board game deals no dice.
LEMMA BoardEvents ==
  ASSUME NEW s, NEW p, NEW seat, NEW length, NEW placed, placed.event_type # "DiceDealt"
  PROVE  SeatEvents(PlaceOn(s, p, seat, length, placed).events)
<1> DEFINE board == [s.board EXCEPT ![p] = MarkOf(seat)]
           won == LineThrough(board, p, length)
           drawn == (won \/ Full(board)) /\ ~won
           winner == [event_type |-> "WinnerDetected", winning_seat |-> seat]
           draw == [event_type |-> "GameDrawn"]
           first == <<placed>>
           second == first \o When(won, winner)
<1>1. PlaceOn(s, p, seat, length, placed).events = second \o When(drawn, draw)
  BY DEF PlaceOn, Transition
<1>2. winner.event_type # "DiceDealt" /\ draw.event_type # "DiceDealt"
  OBVIOUS
<1>3. SeatEvents(first) /\ IsSeq(first)
  BY OneEvent
<1> HIDE DEF winner, draw, won, drawn, first
<1>4. SeatEvents(second)
  BY <1>2, <1>3, MoreEvents
<1>5. IsSeq(second)
  BY <1>3, WhenIs, ConcatSeq
<1> HIDE DEF second
<1>6. SeatEvents(second \o When(drawn, draw))
  BY <1>2, <1>4, <1>5, MoreEvents
<1> QED BY <1>1, <1>6

\* The events of a turn, in every game.
LEMMA TurnEvents ==
  ASSUME NEW c \in GameConfigs, NEW s
  PROVE  /\ \A seat, a : Sequential(c) => SeatEvents(Apply(c, s, seat, a).events)
         /\ \A o : Chance(c, s) => SeatEvents(ApplyChance(c, s, o).events)
         /\ \A actions : SeatEvents(ApplyJoint(c, s, actions).events)
<1>1. ASSUME NEW seat, NEW a, Sequential(c) PROVE SeatEvents(Apply(c, s, seat, a).events)
  <2>1. CASE c.game = "nim"
    <3> DEFINE taken == [event_type |-> "NimObjectsTaken", seat |-> seat,
                         pile_index |-> a.pile_index, count |-> a.count,
                         remaining |-> [s.piles EXCEPT ![a.pile_index] = @ - a.count]]
               over == NimEmpty([s.piles EXCEPT ![a.pile_index] = @ - a.count])
               won == [event_type |-> "NimMatchWon", winner_seat |-> seat]
    <3>1. Apply(c, s, seat, a).events = <<taken>> \o When(over, won)
      BY <2>1 DEF Apply, NimApply, Transition
    <3>2. taken.event_type # "DiceDealt" /\ won.event_type # "DiceDealt"
      OBVIOUS
    <3> HIDE DEF taken, won, over
    <3> QED BY <3>1, <3>2, OneEvent, MoreEvents
  <2>2. CASE c.game = "pig"
    <3> DEFINE rolls == [event_type |-> "PigRollChosen", seat |-> seat]
               score == s.scores[seat] + s.turn_total
               held == [event_type |-> "PigHeld", seat |-> seat, banked |-> s.turn_total,
                        score |-> score]
               over == score >= s.target_score
               won == [event_type |-> "PigMatchWon", winner_seat |-> seat]
    <3>1. Apply(c, s, seat, a).events
            = IF a.choice = "roll" THEN <<rolls>> ELSE <<held>> \o When(over, won)
      BY <2>2 DEF Apply, PigApply, Transition
    <3>2. /\ rolls.event_type # "DiceDealt" /\ held.event_type # "DiceDealt"
          /\ won.event_type # "DiceDealt"
      OBVIOUS
    <3> HIDE DEF rolls, held, won, over
    <3>3. SeatEvents(<<rolls>>) /\ SeatEvents(<<held>> \o When(over, won))
      BY <3>2, OneEvent, MoreEvents
    <3> QED BY <3>1, <3>3
  <2>3. CASE c.game = "liarsdice"
    <3>1. CASE a.type = "bid"
      <4> DEFINE made == [event_type |-> "BidMade", seat |-> seat, quantity |-> a.quantity,
                          face |-> a.face]
      <4>1. Apply(c, s, seat, a).events = <<made>>
        BY <2>3, <3>1 DEF Apply, LiarsDiceApply, MakeBid, Transition
      <4>2. made.event_type # "DiceDealt"
        OBVIOUS
      <4> HIDE DEF made
      <4> QED BY <4>1, <4>2, OneEvent
    <3>2. CASE a.type # "bid"
      <4> DEFINE bid == Standing(s)
                 count == Showing(s.dice, bid.face)
                 loser == IF count >= bid.quantity THEN seat ELSE Other(seat)
                 left == s.dice_counts[loser] - 1
                 called == [event_type |-> "BidCalled", seat |-> seat, dice |-> s.dice,
                            quantity |-> bid.quantity, face |-> bid.face, count |-> count,
                            loser |-> loser]
                 lost == [event_type |-> "DieLost", seat |-> loser, remaining |-> left]
                 won == [event_type |-> "LiarsDiceMatchWon", winner_seat |-> Other(loser)]
                 over == left = 0
      <4>1. Apply(c, s, seat, a).events = <<called, lost>> \o When(over, won)
        BY <2>3, <3>2 DEF Apply, LiarsDiceApply, CallBid, Transition
      <4>2. /\ called.event_type # "DiceDealt" /\ lost.event_type # "DiceDealt"
            /\ won.event_type # "DiceDealt"
        OBVIOUS
      <4> HIDE DEF called, lost, won, over
      <4>3. SeatEvents(<<called, lost>>) /\ IsSeq(<<called, lost>>)
        BY <4>2, TwoEvents
      <4> DEFINE two == <<called, lost>>
      <4> HIDE DEF two
      <4>4. SeatEvents(two \o When(over, won))
        BY <4>2, <4>3, MoreEvents DEF two
      <4> QED BY <4>1, <4>4 DEF two
    <3> QED BY <3>1, <3>2
  <2>4. CASE c.game = "tictactoe"
    BY <2>4, BoardEvents DEF Apply, TicTacToeApply
  <2>5. CASE c.game = "connect4"
    BY <2>5, BoardEvents DEF Apply, Connect4Apply
  <2> QED BY <1>1, <2>1, <2>2, <2>3, <2>4, <2>5, GameIs DEF Sequential
<1>2. ASSUME NEW o, Chance(c, s) PROVE SeatEvents(ApplyChance(c, s, o).events)
  <2>1. CASE c.game = "pig"
    <3> DEFINE bust == o.face = BUST_FACE
               next == [s EXCEPT !.roll_pending = FALSE,
                                 !.turn_total = IF bust THEN 0 ELSE @ + o.face,
                                 !.current_seat = IF bust THEN Other(@) ELSE @]
               rolled == [event_type |-> "PigDieRolled", seat |-> s.current_seat,
                          face |-> o.face, busted |-> bust, turn_total |-> next.turn_total]
    <3>1. ApplyChance(c, s, o).events = <<rolled>>
      BY <2>1 DEF ApplyChance, PigApplyChance, Transition
    <3>2. rolled.event_type # "DiceDealt"
      OBVIOUS
    <3> HIDE DEF rolled
    <3> QED BY <3>1, <3>2, OneEvent
  <2>2. CASE c.game = "liarsdice"
    BY <2>2 DEF ApplyChance, LiarsDiceApplyChance, Transition, SeatEvents, VALID_SEATS
  <2> QED BY <1>2, <2>1, <2>2 DEF Chance, HasChance
<1>3. ASSUME NEW actions PROVE SeatEvents(ApplyJoint(c, s, actions).events)
  <2> DEFINE throws == [seat \in VALID_SEATS |-> actions[seat].shape]
             winner == RoundWinner(throws)
             next == [s EXCEPT
                        !.wins = [seat \in VALID_SEATS |->
                                     @[seat] + (IF seat = winner THEN 1 ELSE 0)],
                        !.rounds_played = @ + 1,
                        !.last_round = <<[throws |-> throws, winner |-> winner]>>]
             result == RpsResult(next)
             played == [event_type |-> "RoundPlayed", round_number |-> next.rounds_played,
                        throws |-> throws, winner |-> winner]
             decided == [event_type |-> "RpsMatchDecided", winner |-> result.seat]
             over == result # NoResult
  <2>1. ApplyJoint(c, s, actions).events = <<played>> \o When(over, decided)
    BY DEF ApplyJoint, RpsApplyJoint, Transition
  <2>2. played.event_type # "DiceDealt" /\ decided.event_type # "DiceDealt"
    OBVIOUS
  <2> HIDE DEF played, decided, over
  <2> QED BY <2>1, <2>2, OneEvent, MoreEvents
<1> QED BY <1>1, <1>2, <1>3

\* A turn as the full transcript dumps it.
FullTurn(t) == [t EXCEPT !.events = DumpEvents(@)]

\* Every dumped event has a shape that is accepted.
LEMMA DumpedEvents ==
  ASSUME NEW es, SeatEvents(es)
  PROVE  /\ DOMAIN DumpEvents(es) = DOMAIN es
         /\ \A i \in DOMAIN es : EventShape(DumpEvents(es)[i], 4)
<1>1. DOMAIN DumpEvents(es) = DOMAIN es
  BY DEF DumpEvents
<1>2. ASSUME NEW i \in DOMAIN es PROVE EventShape(DumpEvents(es)[i], 4)
  <2> DEFINE e == es[i]
             d == DumpEvent(e)
  <2>1. DumpEvents(es)[i] = d
    BY DEF DumpEvents
  <2>2. e.event_type = "DiceDealt" => e.seat \in VALID_SEATS
    BY DEF SeatEvents
  <2>3. /\ d.is_public = VisibleTo(e, PUBLIC)
        /\ d.audience = IF VisibleTo(e, PUBLIC) THEN {}
                        ELSE {seat \in VALID_SEATS : VisibleTo(e, seat)}
    BY DEF DumpEvent
  <2> HIDE DEF e, d
  <2>4. VisibleTo(e, PUBLIC) \/ \E seat \in VALID_SEATS : VisibleTo(e, seat)
    BY <2>2 DEF VisibleTo, DiceDealtTo
  <2>5. d.is_public <=> d.audience = {}
    <3>1. CASE VisibleTo(e, PUBLIC)
      BY <2>3, <3>1
    <3>2. CASE ~VisibleTo(e, PUBLIC)
      <4>1. {seat \in VALID_SEATS : VisibleTo(e, seat)} # {}
        BY <2>4, <3>2
      <4> QED BY <2>3, <3>2, <4>1
    <3> QED BY <3>1, <3>2
  <2> QED BY <2>1, <2>5 DEF EventShape
<1> QED BY <1>1, <1>2

\* An action, or an outcome, is not None.
LEMMA NotNoData ==
  ASSUME NEW c \in GameConfigs
  PROVE  /\ \A a \in Actions(c) : a # NoData
         /\ \A s : Chance(c, s) => \A o \in Outcomes(c, s) : o # NoData
<1>1. DOMAIN NoData = {"absent"}
  BY DEF NoData
<1>2. ASSUME NEW a \in Actions(c) PROVE "absent" \notin DOMAIN a
  <2>1. CASE c.game = "nim"
    BY <2>1 DEF Actions, NimActions
  <2>2. CASE c.game = "pig"
    BY <2>2 DEF Actions, PigActions
  <2>3. CASE c.game = "rps"
    BY <2>3 DEF Actions, RpsActions
  <2>4. CASE c.game = "liarsdice"
    <3>1. CASE a = Call
      BY <3>1 DEF Call
    <3>2. CASE a # Call
      BY <2>4, <3>2 DEF Actions, LiarsDiceActions, Bids
    <3> QED BY <3>1, <3>2
  <2>5. CASE c.game = "tictactoe"
    BY <2>5 DEF Actions, TicTacToeActions
  <2>6. CASE c.game = "connect4"
    BY <2>6 DEF Actions, Connect4Actions
  <2> QED BY <2>1, <2>2, <2>3, <2>4, <2>5, <2>6, GameIs
<1>3. ASSUME NEW s, Chance(c, s), NEW o \in Outcomes(c, s) PROVE "absent" \notin DOMAIN o
  <2>1. CASE c.game = "pig"
    BY <2>1 DEF Outcomes, PigOutcomes
  <2>2. CASE c.game = "liarsdice"
    <3>1. PICK h, g : o = [dice |-> [seat \in VALID_SEATS |-> IF seat = 0 THEN h ELSE g]]
      BY <2>2 DEF Outcomes, LiarsDiceOutcomes
    <3>2. DOMAIN o = {"dice"}
      BY <3>1
    <3> QED BY <3>2
  <2> QED BY <1>3, <2>1, <2>2 DEF Chance, HasChance
<1> QED BY <1>1, <1>2, <1>3

\* What a turn that was made is, and what it is dumped as.
LEMMA DumpedTurn ==
  ASSUME NEW c \in GameConfigs, NEW s \in StatesOf(c), NEW t, Made(c, s, t)
  PROVE  /\ FullTurn(t) = [kind |-> t.kind, seat |-> t.seat, action |-> t.action,
                           actions |-> t.actions, outcome |-> t.outcome,
                           events |-> DumpEvents(t.events), result |-> t.result,
                           post_state |-> t.post_state]
         /\ TurnShape(FullTurn(t), 4)
         /\ t.kind = "action" => t.action \in Actions(c)
<1> DEFINE u == FullTurn(t)
           dumped == [kind |-> t.kind, seat |-> t.seat, action |-> t.action,
                      actions |-> t.actions, outcome |-> t.outcome,
                      events |-> DumpEvents(t.events), result |-> t.result,
                      post_state |-> t.post_state]
<1>1. CASE Chance(c, s) /\ \E o \in Outcomes(c, s) : t = ChanceTurn(c, s, o)
  <2>1. PICK o \in Outcomes(c, s) : t = ChanceTurn(c, s, o)
    BY <1>1
  <2> DEFINE x == ApplyChance(c, s, o)
  <2>2. t = [kind |-> "chance", seat |-> NoSeat, action |-> NoData, actions |-> <<>>,
             outcome |-> o, events |-> x.events, result |-> x.result, post_state |-> x.state]
    BY <2>1 DEF ChanceTurn, Turn
  <2>3. SeatEvents(x.events) /\ o # NoData
    BY <1>1, TurnEvents, NotNoData
  <2> HIDE DEF x
  <2>4. u = dumped
    BY <2>2 DEF FullTurn
  <2>5. \A i \in DOMAIN u.events : EventShape(u.events[i], 4)
    BY <2>2, <2>3, <2>4, DumpedEvents
  <2>6. /\ u.kind = "chance" /\ u.seat = NoSeat /\ u.action = NoData /\ u.outcome # NoData
        /\ u.actions = <<>>
    BY <2>2, <2>3, <2>4
  <2> HIDE DEF u
  <2>7. TurnShape(u, 4)
    BY <2>5, <2>6 DEF TurnShape
  <2> QED BY <2>2, <2>4, <2>7 DEF u
<1>2. CASE \E actions \in [VALID_SEATS -> Actions(c)] :
              JointValid(c, s, actions) /\ t = RoundTurn(c, s, actions)
  <2>1. PICK actions \in [VALID_SEATS -> Actions(c)] : t = RoundTurn(c, s, actions)
    BY <1>2
  <2> DEFINE x == ApplyJoint(c, s, actions)
  <2>2. t = [kind |-> "joint", seat |-> NoSeat, action |-> NoData, actions |-> <<actions>>,
             outcome |-> NoData, events |-> x.events, result |-> x.result,
             post_state |-> x.state]
    BY <2>1 DEF RoundTurn, Turn
  <2>3. SeatEvents(x.events)
    BY TurnEvents
  <2> HIDE DEF x
  <2>4. u = dumped
    BY <2>2 DEF FullTurn
  <2>5. \A i \in DOMAIN u.events : EventShape(u.events[i], 4)
    BY <2>2, <2>3, <2>4, DumpedEvents
  <2>6. /\ u.kind = "joint" /\ u.seat = NoSeat /\ u.action = NoData /\ u.outcome = NoData
        /\ u.actions = <<actions>>
    BY <2>2, <2>4
  <2>7. u.actions # <<>> /\ Cardinality(DOMAIN u.actions[1]) >= 2
    <3>1. u.actions[1] = actions /\ DOMAIN actions = VALID_SEATS /\ u.actions # <<>>
      BY <2>6
    <3>2. Cardinality(VALID_SEATS) >= 2
      BY TwoSeats
    <3> QED BY <3>1, <3>2
  <2> HIDE DEF u
  <2>8. TurnShape(u, 4)
    BY <2>5, <2>6, <2>7 DEF TurnShape
  <2> QED BY <2>2, <2>4, <2>8 DEF u
<1>3. CASE /\ Sequential(c) /\ ~Joint(c, s)
           /\ \E seat \in VALID_SEATS, a \in Actions(c) :
                 Valid(c, s, seat, a) /\ t = ActionTurn(c, s, seat, a)
  <2>1. PICK seat \in VALID_SEATS, a \in Actions(c) : t = ActionTurn(c, s, seat, a)
    BY <1>3
  <2> DEFINE x == Apply(c, s, seat, a)
  <2>2. t = [kind |-> "action", seat |-> seat, action |-> a, actions |-> <<>>,
             outcome |-> NoData, events |-> x.events, result |-> x.result,
             post_state |-> x.state]
    BY <2>1 DEF ActionTurn, Turn
  <2>3. SeatEvents(x.events) /\ a # NoData /\ seat # NoSeat
    BY <1>3, TurnEvents, NotNoData DEF VALID_SEATS, NoSeat
  <2> HIDE DEF x
  <2>4. u = dumped
    BY <2>2 DEF FullTurn
  <2>5. \A i \in DOMAIN u.events : EventShape(u.events[i], 4)
    BY <2>2, <2>3, <2>4, DumpedEvents
  <2>6. /\ u.kind = "action" /\ u.seat # NoSeat /\ u.action # NoData /\ u.outcome = NoData
        /\ u.actions = <<>>
    BY <2>2, <2>3, <2>4
  <2> HIDE DEF u
  <2>7. TurnShape(u, 4)
    BY <2>5, <2>6 DEF TurnShape
  <2> QED BY <2>2, <2>4, <2>7 DEF u
<1> QED BY <1>1, <1>2, <1>3 DEF Made

\* The full transcript of a match that was played.
LEMMA FullIs ==
  ASSUME NEW c \in GameConfigs, NEW m, Played(c, m), NEW p, p = FullTranscript(m)
  PROVE  /\ p.game_id = c.game /\ p.schema_version = 4 /\ p.config = c
         /\ p.initial_state = Initial(c) /\ p.view = "full" /\ p.viewer_seat = NoSeat
         /\ IsSeq(p.turns) /\ Len(p.turns) = Len(m.turns) /\ DOMAIN p.turns = 1..Len(m.turns)
         /\ \A i \in 1..Len(m.turns) : p.turns[i] = FullTurn(m.turns[i])
<1>1. /\ m.config = c /\ m.initial_state = Initial(c)
      /\ Len(m.turns) \in Nat /\ DOMAIN m.turns = 1..Len(m.turns)
  BY MatchIs
<1> DEFINE turns == [i \in DOMAIN m.turns |-> FullTurn(m.turns[i])]
<1>2. /\ p.game_id = c.game /\ p.schema_version = 4 /\ p.config = c
      /\ p.initial_state = Initial(c) /\ p.view = "full" /\ p.viewer_seat = NoSeat
      /\ p.turns = turns
  BY <1>1 DEF FullTranscript, MATCH_TRANSCRIPT_SCHEMA_VERSION, FullTurn
<1>3. turns = [i \in 1..Len(m.turns) |-> turns[i]]
      /\ \A i \in 1..Len(m.turns) : turns[i] = FullTurn(m.turns[i])
  BY <1>1
<1> HIDE DEF turns
<1>4. IsSeq(turns) /\ Len(turns) = Len(m.turns) /\ DOMAIN turns = 1..Len(m.turns)
  BY <1>1, <1>3, ListOf
<1> QED BY <1>2, <1>3, <1>4

\* The turns of a match that was played, one by one.
LEMMA TurnsMade ==
  ASSUME NEW c \in GameConfigs, NEW m, Played(c, m), NEW i \in 1..Len(m.turns)
  PROVE  /\ i - 1 \in 0..Len(m.turns) /\ StateAfter(c, m.turns, i - 1) \in StatesOf(c)
         /\ Made(c, StateAfter(c, m.turns, i - 1), m.turns[i])
         /\ m.turns[i].post_state \in StatesOf(c)
         /\ m.turns[i].post_state = StateAfter(c, m.turns, i)
<1>1. IsPlayed(c, m.turns) /\ Len(m.turns) \in Nat
  BY MatchIs
<1>2. i - 1 \in 0..Len(m.turns) /\ i # 0
  BY <1>1
<1> QED BY <1>1, <1>2, PlayedStates DEF IsPlayed, StateAfter

\* The full transcript of a match that was played loads.
LEMMA FullLoads ==
  ASSUME NEW c \in GameConfigs, NEW m, Played(c, m), NEW p, p = FullTranscript(m)
  PROVE  Loads(c, p)
<1>1. /\ p.game_id = c.game /\ p.schema_version = 4 /\ p.config = c
      /\ p.initial_state = Initial(c) /\ p.view = "full" /\ p.viewer_seat = NoSeat
      /\ DOMAIN p.turns = 1..Len(m.turns)
      /\ \A i \in 1..Len(m.turns) : p.turns[i] = FullTurn(m.turns[i])
  BY FullIs
<1>2. ASSUME NEW i \in 1..Len(m.turns)
      PROVE  /\ TurnShape(p.turns[i], 4)
             /\ p.turns[i].kind = "action" => p.turns[i].action \in Actions(c)
             /\ GameState(c, p.turns[i].post_state)
  <2> DEFINE t == m.turns[i]
             s == StateAfter(c, m.turns, i - 1)
  <2>1. s \in StatesOf(c) /\ Made(c, s, t) /\ t.post_state \in StatesOf(c)
    BY TurnsMade
  <2>2. p.turns[i] = FullTurn(t)
    BY <1>1
  <2> HIDE DEF t, s
  <2>3. /\ FullTurn(t).kind = t.kind /\ FullTurn(t).action = t.action
        /\ FullTurn(t).post_state = t.post_state
        /\ TurnShape(FullTurn(t), 4)
        /\ t.kind = "action" => t.action \in Actions(c)
    BY <2>1, DumpedTurn
  <2>4. GameState(c, t.post_state)
    BY <2>1, GameAgrees DEF VALID_SEATS
  <2> QED BY <2>2, <2>3, <2>4
<1>3. GameState(c, Initial(c))
  BY GameStarts, GameAgrees DEF VALID_SEATS
<1>4. TranscriptShape(p)
  BY <1>1, <1>2 DEF TranscriptShape, MATCH_TRANSCRIPT_SCHEMA_VERSION
<1> QED BY <1>1, <1>2, <1>3, <1>4 DEF Loads

\* The match after n of its turns.
FirstTurns(turns, n) == [i \in 1..n |-> turns[i]]

MatchAfter(c, turns, n) == MatchOf(c, FirstTurns(turns, n))

\* The match after n of its turns was played as well.
LEMMA FirstPlayed ==
  ASSUME NEW c \in GameConfigs, NEW turns, IsPlayed(c, turns), NEW n \in 0..Len(turns)
  PROVE  /\ Played(c, MatchAfter(c, turns, n))
         /\ MatchAfter(c, turns, n).turns = FirstTurns(turns, n)
         /\ MatchAfter(c, turns, n).state = StateAfter(c, turns, n)
         /\ MatchAfter(c, turns, n).config = c
<1> DEFINE f == FirstTurns(turns, n)
<1>1. Len(turns) \in Nat /\ n \in Nat
  BY PlayedStates
<1>2. f = [i \in 1..n |-> f[i]] /\ \A i \in 1..n : f[i] = turns[i]
  BY DEF FirstTurns
<1> HIDE DEF f
<1>3. IsSeq(f) /\ Len(f) = n
  BY <1>1, <1>2, ListOf
<1>4. ASSUME NEW k \in 0..n PROVE StateAfter(c, f, k) = StateAfter(c, turns, k)
  <2>1. k = 0 \/ k \in 1..n
    BY <1>1
  <2> QED BY <1>2, <2>1 DEF StateAfter
<1>5. ASSUME NEW i \in 1..n
      PROVE  /\ Made(c, StateAfter(c, f, i - 1), f[i])
             /\ f[i].post_state \in StatesOf(c) /\ f[i].result = Result(c, f[i].post_state)
  <2>1. i \in 1..Len(turns) /\ i - 1 \in 0..n
    BY <1>1
  <2> QED BY <1>2, <1>4, <2>1 DEF IsPlayed
<1>6. IsPlayed(c, f)
  BY <1>3, <1>5 DEF IsPlayed
<1>7. StateAfter(c, f, Len(f)) = StateAfter(c, turns, n)
  BY <1>1, <1>3, <1>4
<1>8. /\ MatchAfter(c, turns, n) = MatchOf(c, f) /\ MatchOf(c, f).turns = f
      /\ MatchOf(c, f).state = StateAfter(c, turns, n) /\ MatchOf(c, f).config = c
  BY <1>7 DEF MatchAfter, MatchOf, f
<1> QED BY <1>6, <1>8 DEF Played, f

\* The first n turns, and the next.
LEMMA FirstNext ==
  ASSUME NEW turns, IsSeq(turns), NEW n \in 1..Len(turns)
  PROVE  FirstTurns(turns, n) = Append(FirstTurns(turns, n - 1), turns[n])
<1> DEFINE f == FirstTurns(turns, n - 1)
<1>1. Len(turns) \in Nat /\ n - 1 \in Nat /\ n \in Nat
  BY SeqAppend
<1>2. f = [i \in 1..(n - 1) |-> f[i]] /\ \A i \in 1..(n - 1) : f[i] = turns[i]
  BY DEF FirstTurns
<1> HIDE DEF f
<1>3. IsSeq(f) /\ Len(f) = n - 1
  BY <1>1, <1>2, ListOf
<1> DEFINE g == Append(f, turns[n])
<1>4. /\ DOMAIN g = 1..((n - 1) + 1) /\ g[(n - 1) + 1] = turns[n]
      /\ \A i \in 1..(n - 1) : g[i] = f[i]
      /\ IsSeq(g)
  BY <1>3, SeqAppend
<1>5. (n - 1) + 1 = n
  BY <1>1
<1>6. g = [i \in DOMAIN g |-> g[i]]
  <2>1. PICK T : g \in Seq(T)
    BY <1>4 DEF IsSeq
  <2> HIDE DEF g
  <2> QED BY <2>1
<1> HIDE DEF g
<1>7. \A i \in 1..n : i = n \/ i \in 1..(n - 1)
  BY <1>1
<1>8. \A i \in 1..n : g[i] = turns[i]
  BY <1>2, <1>4, <1>5, <1>7
<1>9. DOMAIN g = 1..n
  BY <1>4, <1>5
<1> QED BY <1>6, <1>8, <1>9 DEF FirstTurns, f, g

\* The first turns of a match, all of them, are its turns.
LEMMA FirstAll ==
  ASSUME NEW turns, IsSeq(turns) PROVE FirstTurns(turns, Len(turns)) = turns
<1>1. PICK T : turns \in Seq(T)
  BY DEF IsSeq
<1> QED BY <1>1 DEF FirstTurns

\* A match is never mistaken for a refusal.
LEMMA NotRefused ==
  ASSUME NEW c, NEW turns PROVE MatchOf(c, turns) # Refused
<1>1. "config" \in DOMAIN MatchOf(c, turns) /\ "config" \notin DOMAIN Refused
  BY DEF MatchOf, Refused
<1> QED BY <1>1

\* A recorded turn, replayed on the match it was made in, is that turn again.
LEMMA ReplayOne ==
  ASSUME NEW c \in GameConfigs, NEW m, Played(c, m), NEW t, Made(c, m.state, t)
  PROVE  ReplayTurn(m, FullTurn(t)) = After(m, t)
<1>1. m.config = c /\ m.state \in StatesOf(c) /\ m # Refused
  <2>1. m = MatchOf(c, m.turns)
    BY DEF Played
  <2> QED BY <2>1, MatchIs, NotRefused
<1> DEFINE u == FullTurn(t)
<1>2. /\ u.kind = t.kind /\ u.seat = t.seat /\ u.action = t.action /\ u.actions = t.actions
      /\ u.outcome = t.outcome
  BY <1>1, DumpedTurn
<1> HIDE DEF u
<1>3. CASE Chance(c, m.state) /\ \E o \in Outcomes(c, m.state) : t = ChanceTurn(c, m.state, o)
  <2>1. PICK o \in Outcomes(c, m.state) : t = ChanceTurn(c, m.state, o)
    BY <1>3
  <2>2. t.kind = "chance" /\ t.outcome = o
    BY <2>1 DEF ChanceTurn, Turn
  <2>3. OutcomeValid(c, m.state, o)
    BY <1>1, <1>3, GameRolls
  <2>4. ReplayTurn(m, u) = ResolveOne(m, o)
    BY <1>1, <1>2, <1>3, <2>2, <2>3 DEF ReplayTurn
  <2> QED BY <1>3, <2>1, <2>4, RollMade DEF u
<1>4. CASE \E actions \in [VALID_SEATS -> Actions(c)] :
              JointValid(c, m.state, actions) /\ t = RoundTurn(c, m.state, actions)
  <2>1. PICK actions \in [VALID_SEATS -> Actions(c)] :
              JointValid(c, m.state, actions) /\ t = RoundTurn(c, m.state, actions)
    BY <1>4
  <2>2. t.kind = "joint" /\ t.actions = <<actions>>
    BY <2>1 DEF RoundTurn, Turn
  <2>3. u.actions[1] = actions
    BY <1>2, <2>2
  <2>4. ReplayTurn(m, u) = AfterJoint(m, actions)
    BY <1>1, <1>2, <2>1, <2>2, <2>3 DEF ReplayTurn
  <2> QED BY <2>1, <2>4, RoundPlayed DEF u
<1>5. CASE /\ Sequential(c) /\ ~Joint(c, m.state)
           /\ \E seat \in VALID_SEATS, a \in Actions(c) :
                 Valid(c, m.state, seat, a) /\ t = ActionTurn(c, m.state, seat, a)
  <2>1. PICK seat \in VALID_SEATS, a \in Actions(c) :
                 Valid(c, m.state, seat, a) /\ t = ActionTurn(c, m.state, seat, a)
    BY <1>5
  <2>2. t.kind = "action" /\ t.seat = seat /\ t.action = a
    BY <2>1 DEF ActionTurn, Turn
  <2>3. ~Chance(c, m.state)
    BY <1>1, <2>1, GameLive
  <2>4. ActionAccepted(m, seat, a)
    BY <1>1, <1>5, <2>1, <2>3 DEF ActionAccepted
  <2>5. ReplayTurn(m, u) = AfterAction(m, seat, a)
    BY <1>1, <1>2, <2>2, <2>4 DEF ReplayTurn
  <2> QED BY <2>1, <2>4, <2>5, MovePlayed DEF u
<1> QED BY <1>3, <1>4, <1>5 DEF Made

\* Each recorded turn, applied to the match before it, gives the match after
\* it.
LEMMA ReplayNext ==
  ASSUME NEW c \in GameConfigs, NEW m, Played(c, m), NEW n \in 1..Len(m.turns)
  PROVE  ReplayTurn(MatchAfter(c, m.turns, n - 1), FullTurn(m.turns[n]))
           = MatchAfter(c, m.turns, n)
<1> DEFINE before == MatchAfter(c, m.turns, n - 1)
           t == m.turns[n]
<1>1. IsPlayed(c, m.turns) /\ IsSeq(m.turns)
  BY MatchIs DEF IsPlayed
<1>2. n - 1 \in 0..Len(m.turns) /\ n \in 0..Len(m.turns)
      /\ Made(c, StateAfter(c, m.turns, n - 1), t)
      /\ t.post_state = StateAfter(c, m.turns, n)
  <2>1. Len(m.turns) \in Nat
    BY MatchIs
  <2> QED BY <2>1, TurnsMade
<1>3. /\ Played(c, before) /\ before.turns = FirstTurns(m.turns, n - 1)
      /\ before.state = StateAfter(c, m.turns, n - 1)
  BY <1>1, <1>2, FirstPlayed
<1> HIDE DEF before, t
<1>4. ReplayTurn(before, FullTurn(t)) = After(before, t)
  BY <1>2, <1>3, ReplayOne
<1>5. Played(c, After(before, t)) /\ After(before, t).turns = Append(before.turns, t)
  BY <1>2, <1>3, AfterPlayed
<1>6. After(before, t).turns = FirstTurns(m.turns, n)
  BY <1>1, <1>3, <1>5, FirstNext DEF t
<1>7. After(before, t) = MatchOf(c, After(before, t).turns)
  BY <1>5 DEF Played
<1>8. After(before, t) = MatchAfter(c, m.turns, n)
  BY <1>6, <1>7 DEF MatchAfter
<1> QED BY <1>4, <1>8 DEF before, t

\* A full transcript replays to its match, turn by turn.
LEMMA ReplayIs ==
  ASSUME NEW c \in GameConfigs, NEW m, Played(c, m)
  PROVE  Replay(FullTranscript(m)) = m
<1> DEFINE p == FullTranscript(m)
           N == Len(p.turns)
           Step(f) == [n \in 0..N |-> IF n = 0 THEN Fresh(p.config)
                                      ELSE ReplayTurn(f[n - 1], p.turns[n])]
           replayed == CHOOSE f : f = Step(f)
           right == [n \in 0..N |-> MatchAfter(c, m.turns, n)]
<1>1. Replay(p) = replayed[N]
  BY DEF Replay
<1>2. /\ p.config = c /\ N = Len(m.turns) /\ N \in Nat
      /\ \A n \in 1..N : p.turns[n] = FullTurn(m.turns[n])
  <2>1. Len(m.turns) \in Nat
    BY MatchIs
  <2> QED BY <2>1, FullIs
<1> HIDE DEF p, N
<1>3. right = Step(right)
  <2> SUFFICES ASSUME NEW n \in 0..N PROVE right[n] = Step(right)[n]
    OBVIOUS
  <2>1. CASE n = 0
    <3>1. MatchAfter(c, m.turns, 0) = Fresh(c)
      <4>1. FirstTurns(m.turns, 0) = <<>>
        BY DEF FirstTurns
      <4>2. MatchOf(c, <<>>) = Fresh(c)
        BY DEF MatchOf, Fresh, StateAfter
      <4> QED BY <4>1, <4>2 DEF MatchAfter
    <3> QED BY <1>2, <2>1, <3>1
  <2>2. CASE n # 0
    <3>1. n \in 1..Len(m.turns) /\ n - 1 \in 0..N /\ n \in 1..N
      BY <1>2, <2>2
    <3>2. ReplayTurn(MatchAfter(c, m.turns, n - 1), FullTurn(m.turns[n])) = MatchAfter(c, m.turns, n)
      BY <3>1, ReplayNext
    <3>3. p.turns[n] = FullTurn(m.turns[n]) /\ right[n - 1] = MatchAfter(c, m.turns, n - 1)
      BY <1>2, <3>1
    <3> QED BY <2>2, <3>2, <3>3
  <2> QED BY <2>1, <2>2
<1>4. replayed = Step(replayed)
  <2> HIDE DEF Step, right
  <2> QED BY <1>3
<1>5. \A n \in 0..N : replayed[n] = right[n]
  <2> DEFINE wrong == {n \in 0..N : replayed[n] # right[n]}
  <2> SUFFICES ASSUME wrong # {} PROVE FALSE
    OBVIOUS
  <2>1. wrong \in SUBSET Nat
    BY <1>2
  <2>2. PICK n \in wrong : \A k \in wrong : n <= k
    <3> HIDE DEF wrong
    <3> QED BY <2>1, LeastExists
  <2>3. n \in 0..N /\ replayed[n] # right[n]
    OBVIOUS
  <2>4. replayed[n] = Step(replayed)[n] /\ right[n] = Step(right)[n]
    <3> HIDE DEF Step, replayed, right
    <3> QED BY <1>3, <1>4
  <2>5. CASE n = 0
    <3>1. replayed[n] = Fresh(p.config) /\ right[n] = Fresh(p.config)
      <4> HIDE DEF replayed, right
      <4> QED BY <2>3, <2>4, <2>5
    <3> QED BY <2>3, <3>1
  <2>6. CASE n # 0
    <3>1. n - 1 \in 0..N /\ ~(n <= n - 1)
      <4>1. n \in 0..N
        BY <2>3
      <4> HIDE DEF replayed, right
      <4> QED BY <1>2, <2>6, <4>1
    <3>2. replayed[n - 1] = right[n - 1]
      <4>1. n - 1 \notin wrong
        BY <2>2, <3>1
      <4> QED BY <3>1, <4>1
    <3>3. /\ replayed[n] = ReplayTurn(replayed[n - 1], p.turns[n])
          /\ right[n] = ReplayTurn(right[n - 1], p.turns[n])
      <4> HIDE DEF replayed, right
      <4> QED BY <2>3, <2>4, <2>6
    <3> HIDE DEF replayed, right
    <3> QED BY <2>3, <3>2, <3>3
  <2> QED BY <2>5, <2>6
<1> HIDE DEF replayed, Step
<1>6. replayed[N] = MatchAfter(c, m.turns, Len(m.turns))
  <2>1. N \in 0..N
    BY <1>2
  <2> QED BY <1>2, <1>5, <2>1
<1>7. MatchAfter(c, m.turns, Len(m.turns)) = m
  <2>1. IsSeq(m.turns) /\ m = MatchOf(c, m.turns)
    BY MatchIs DEF IsPlayed, Played
  <2> QED BY <2>1, FirstAll DEF MatchAfter
<1> QED BY <1>1, <1>6, <1>7 DEF p

\* A full transcript replays to its match and to nothing else.
LEMMA ReplaysIs ==
  ASSUME NEW c \in GameConfigs, NEW m, Played(c, m), ~Chance(c, m.state)
  PROVE  Replays(c, FullTranscript(m)) = {m}
<1> DEFINE p == FullTranscript(m)
<1>1. /\ p.config = c /\ p.initial_state = Initial(c) /\ Len(p.turns) = Len(m.turns)
      /\ DOMAIN p.turns = 1..Len(m.turns)
      /\ \A i \in 1..Len(m.turns) : p.turns[i] = FullTurn(m.turns[i])
  BY FullIs
<1>2. Loads(c, p) /\ Replay(p) = m
  BY FullLoads, ReplayIs
<1> HIDE DEF p
<1>3. m # Refused /\ m.config = c
  <2>1. m = MatchOf(c, m.turns)
    BY DEF Played
  <2> QED BY <2>1, NotRefused, MatchIs
<1>4. ASSUME NEW i \in DOMAIN p.turns PROVE TurnMatches(p.turns[i], m.turns[i])
  <2> DEFINE t == m.turns[i]
  <2>1. i \in 1..Len(m.turns) /\ p.turns[i] = FullTurn(t)
    BY <1>1
  <2>2. /\ StateAfter(c, m.turns, i - 1) \in StatesOf(c)
        /\ Made(c, StateAfter(c, m.turns, i - 1), t)
    BY <2>1, TurnsMade
  <2> HIDE DEF t
  <2>3. /\ FullTurn(t).kind = t.kind /\ FullTurn(t).post_state = t.post_state
        /\ FullTurn(t).events = DumpEvents(t.events) /\ FullTurn(t).result = t.result
    BY <2>2, DumpedTurn
  <2> QED BY <2>1, <2>3 DEF TurnMatches, t
<1>5. Replays(c, p) = {x \in {m} :
            /\ x # Refused
            /\ ~Chance(x.config, x.state)
            /\ Len(x.turns) = Len(p.turns)
            /\ \A i \in DOMAIN p.turns : TurnMatches(p.turns[i], x.turns[i])}
  BY <1>1, <1>2 DEF Replays
<1>6. Replays(c, p) = {m}
  BY <1>1, <1>3, <1>4, <1>5
<1> QED BY <1>6 DEF p

\* The artefacts of a match that started.
LEMMA SavedIs ==
  ASSUME SessionOk, Saved
  PROVE  /\ config \in GameConfigs /\ Played(config, TheMatch) /\ ~Chance(config, TheMatch.state)
         /\ match = <<TheMatch>> /\ lifecycle \in {"finished", "aborted"}
         /\ lifecycle = "finished" <=> Terminal(config, TheMatch.state)
         /\ SavedRuntime = DumpRuntime(Session, FULL_VIEW)
         /\ artefacts[1] = DumpStatus(Session, FULL_VIEW)
         /\ SavedMatch = FullTranscript(TheMatch)
<1>1. /\ config \in GameConfigs /\ Played(config, TheMatch) /\ ~Chance(config, TheMatch.state)
      /\ match = <<TheMatch>>
      /\ lifecycle = "finished" <=> Terminal(config, TheMatch.state)
  BY StartedIs DEF Saved
<1>2. /\ lifecycle \in {"finished", "aborted"}
      /\ artefacts = <<DumpStatus(Session, FULL_VIEW), DumpRuntime(Session, FULL_VIEW)>>
  BY DEF Saved, SessionOk, ArtefactsOk
<1>3. /\ SavedRuntime = DumpRuntime(Session, FULL_VIEW)
      /\ artefacts[1] = DumpStatus(Session, FULL_VIEW)
  BY <1>2 DEF SavedRuntime
<1>4. Session.match = match /\ match # <<>>
  BY DEF Session, Saved, Started
<1>5. SavedRuntime.match_transcript = <<MatchTranscript(TheMatch, FULL_VIEW)>>
  BY <1>3, <1>4 DEF DumpRuntime, TheMatch
<1>6. MatchTranscript(TheMatch, FULL_VIEW) = FullTranscript(TheMatch)
  BY DEF MatchTranscript, TranscriptView
<1> QED BY <1>1, <1>2, <1>3, <1>5, <1>6 DEF SavedMatch

\* The full record of a session, field by field.
LEMMA RecordIs ==
  ASSUME NEW p, p = DumpRuntime(Session, FULL_VIEW), match = <<TheMatch>>
  PROVE  /\ p.schema_version = 4 /\ p.game_id = config.game /\ p.lifecycle = lifecycle
         /\ p.abort = abort /\ p.match_transcript = <<FullTranscript(TheMatch)>>
         /\ p.view = "full" /\ p.viewer_seat = NoSeat
         /\ p = [schema_version |-> p.schema_version, game_id |-> p.game_id,
                 lifecycle |-> p.lifecycle, events |-> p.events, abort |-> p.abort,
                 match_transcript |-> p.match_transcript, view |-> p.view,
                 viewer_seat |-> p.viewer_seat]
<1>1. /\ Session.match = match /\ Session.config = config /\ Session.lifecycle = lifecycle
      /\ Session.abort = abort /\ match # <<>> /\ Session.match[1] = TheMatch
  <2>1. match # <<>>
    OBVIOUS
  <2> QED BY <2>1 DEF Session, TheMatch
<1>2. MatchTranscript(TheMatch, FULL_VIEW) = FullTranscript(TheMatch)
  BY DEF MatchTranscript, TranscriptView
<1>3. TranscriptView(config, FULL_VIEW) = [view |-> "full", viewer_seat |-> NoSeat]
  BY DEF TranscriptView
<1>4. DumpAbort(abort, "full") = abort
  BY DEF DumpAbort
<1> DEFINE es == RuntimeEvents(Session.events, TranscriptView(config, FULL_VIEW).view, FULL_VIEW)
<1> HIDE DEF es
<1>5. p = [schema_version |-> 4, game_id |-> config.game, lifecycle |-> lifecycle,
           events |-> es, abort |-> abort, match_transcript |-> <<FullTranscript(TheMatch)>>,
           view |-> "full", viewer_seat |-> NoSeat]
  BY <1>1, <1>2, <1>3, <1>4 DEF DumpRuntime, RUNTIME_TRANSCRIPT_SCHEMA_VERSION, es
<1> QED BY <1>5

\* The state a full transcript ends at.
LEMMA FinalIs ==
  ASSUME NEW c \in GameConfigs, NEW m, Played(c, m)
  PROVE  FinalState(FullTranscript(m)) = m.state
<1> DEFINE p == FullTranscript(m)
<1>1. /\ p.initial_state = Initial(c) /\ IsSeq(p.turns) /\ Len(p.turns) = Len(m.turns)
      /\ \A i \in 1..Len(m.turns) : p.turns[i] = FullTurn(m.turns[i])
  BY FullIs
<1>2. Len(m.turns) \in Nat /\ m.state = StateAfter(c, m.turns, Len(m.turns))
  BY MatchIs
<1> HIDE DEF p
<1>3. p.turns = <<>> <=> Len(m.turns) = 0
  <2>1. PICK T : p.turns \in Seq(T)
    BY <1>1 DEF IsSeq
  <2> QED BY <1>1, <2>1
<1>4. CASE Len(m.turns) = 0
  BY <1>1, <1>2, <1>3, <1>4 DEF FinalState, StateAfter, p
<1>5. CASE Len(m.turns) # 0
  <2> DEFINE n == Len(m.turns)
             t == m.turns[n]
  <2>1. n \in 1..Len(m.turns)
    BY <1>2, <1>5
  <2>2. StateAfter(c, m.turns, n - 1) \in StatesOf(c) /\ Made(c, StateAfter(c, m.turns, n - 1), t)
    BY <2>1, TurnsMade
  <2>3. m.state = t.post_state
    BY <1>2, <1>5 DEF StateAfter
  <2>4. FinalState(p) = FullTurn(t).post_state
    BY <1>1, <1>3, <1>5, <2>1 DEF FinalState
  <2> HIDE DEF t, n
  <2>5. FullTurn(t).post_state = t.post_state
    BY <2>2, DumpedTurn
  <2> QED BY <2>3, <2>4, <2>5 DEF p
<1> QED BY <1>4, <1>5

\* What makes the wrapping of a saved match valid: that it is over exactly when
\* the record says finished.
LEMMA WrapValid ==
  ASSUME NEW c \in GameConfigs, Shared(c) = c, NEW m, Played(c, m), ~Chance(c, m.state),
         NEW p, p.schema_version = 4, p.game_id = c.game, p.view = "full", p.viewer_seat = NoSeat,
         p.match_transcript = <<FullTranscript(m)>>, p.lifecycle \in Lifecycles,
         p.lifecycle = "aborted" <=> p.abort # NoData,
         p.abort # NoData => p.abort.reason \in AbortReasons
  PROVE  RuntimeValidates(c, p) <=> (p.lifecycle = "finished" <=> Terminal(c, m.state))
<1>1. /\ p.match_transcript[1] = FullTranscript(m) /\ DOMAIN p.match_transcript = {1}
  OBVIOUS
<1>2. FullTranscript(m).view = "full" /\ FullTranscript(m).viewer_seat = NoSeat
  BY FullIs
<1>3. Replays(c, FullTranscript(m)) # {}
  BY ReplaysIs
<1>4. Validates(c, FullTranscript(m))
  BY <1>3 DEF Validates
<1>5. FinalState(FullTranscript(m)) = m.state
  BY FinalIs
<1>6. TranscriptEnvelope(p)
  BY <1>1, <1>2 DEF TranscriptEnvelope, Envelope
<1>7. 4 \in 1..RUNTIME_TRANSCRIPT_SCHEMA_VERSION
  BY DEF RUNTIME_TRANSCRIPT_SCHEMA_VERSION
<1>8. Terminal(c, m.state) \in BOOLEAN
  BY DEF Terminal
<1> QED BY <1>1, <1>4, <1>5, <1>6, <1>7, <1>8 DEF RuntimeValidates

\* ReplaysAsPlayed of a session that is as SessionOk says.
LEMMA ReplaysHolds ==
  ASSUME SessionOk PROVE ReplaysAsPlayed
<1> SUFFICES ASSUME Saved PROVE ReplaysAsPlayed
  BY DEF ReplaysAsPlayed
<1>1. /\ config \in GameConfigs /\ Played(config, TheMatch) /\ ~Chance(config, TheMatch.state)
      /\ match = <<TheMatch>> /\ lifecycle \in {"finished", "aborted"}
      /\ lifecycle = "finished" <=> Terminal(config, TheMatch.state)
      /\ SavedRuntime = DumpRuntime(Session, FULL_VIEW)
      /\ SavedMatch = FullTranscript(TheMatch)
  BY SavedIs
<1>2. Replays(config, SavedMatch) = {TheMatch}
  BY <1>1, ReplaysIs
<1> DEFINE saved == SavedRuntime
<1>3. /\ saved.schema_version = 4 /\ saved.game_id = config.game /\ saved.lifecycle = lifecycle
      /\ saved.abort = abort /\ saved.match_transcript = <<FullTranscript(TheMatch)>>
      /\ saved.view = "full" /\ saved.viewer_seat = NoSeat
      /\ saved = [schema_version |-> saved.schema_version, game_id |-> saved.game_id,
                  lifecycle |-> saved.lifecycle, events |-> saved.events, abort |-> saved.abort,
                  match_transcript |-> saved.match_transcript, view |-> saved.view,
                  viewer_seat |-> saved.viewer_seat]
  BY <1>1, RecordIs
<1>4. /\ lifecycle = "aborted" <=> abort # NoData
      /\ abort # NoData => abort.reason \in AbortReasons
  <2>1. CASE lifecycle # "aborted" /\ abort = NoData
    BY <2>1
  <2>2. CASE /\ lifecycle = "aborted"
             /\ abort = [reason |-> abort.reason, cause |-> abort.cause]
             /\ abort.reason \in AbortReasons
    <3>1. "reason" \in DOMAIN abort /\ "reason" \notin DOMAIN NoData
      BY <2>2 DEF NoData
    <3> QED BY <2>2, <3>1
  <2> QED BY <2>1, <2>2 DEF SessionOk, AbortOk
<1> HIDE DEF saved
<1>5. ASSUME DefaultRules, NEW p \in {saved} \cup Claims
      PROVE  RuntimeValidates(config, p) <=> p = saved
  <2>1. Shared(config) = config
    BY <1>5 DEF DefaultRules
  <2>2. CASE p = saved
    <3>1. RuntimeValidates(config, saved)
            <=> (saved.lifecycle = "finished" <=> Terminal(config, TheMatch.state))
      BY <1>1, <1>3, <1>4, <2>1, WrapValid DEF Lifecycles
    <3> QED BY <1>1, <1>3, <2>2, <3>1
  <2>3. CASE p \in Claims
    <3>1. PICK other \in (IF lifecycle = "finished" THEN {"running"} ELSE {"finished"}) :
             p = [saved EXCEPT !.lifecycle = other, !.abort = NoData]
      BY <2>3 DEF Claims, saved
    <3>2. /\ p.schema_version = 4 /\ p.game_id = config.game /\ p.lifecycle = other
          /\ p.abort = NoData /\ p.match_transcript = <<FullTranscript(TheMatch)>>
          /\ p.view = "full" /\ p.viewer_seat = NoSeat
      BY <1>3, <3>1
    <3>3. other \in Lifecycles /\ other # "aborted" /\ other # lifecycle
          /\ ~(other = "finished" <=> Terminal(config, TheMatch.state))
      BY <1>1 DEF Lifecycles
    <3>4. ~RuntimeValidates(config, p)
      BY <1>1, <2>1, <3>2, <3>3, WrapValid
    <3> QED BY <1>3, <3>2, <3>3, <3>4
  <2> QED BY <2>2, <2>3
<1> QED BY <1>2, <1>5 DEF ReplaysAsPlayed, saved

\* Whatever was played, the transcript written replays to that very match, and
\* under the default rules its wrapping validates exactly as the match ended.
THEOREM ReplaysAlwaysAsPlayed == Spec => []ReplaysAsPlayed
  BY SessionInvariant, ReplaysHolds, PTL

----------------------------------------------------------------------------
(* The events of a session are of few forms *)

EventForm(e) ==
  /\ e.event_type = "MatchAborted" =>
        \E reason, cause : e = MatchAborted([reason |-> reason, cause |-> cause])
  /\ SeatPrivate(e) =>
        \E type, seat, says : e = [event_type |-> type, seat |-> seat, says |-> says]

Forms(es) == IsSeq(es) /\ \A i \in 1..Len(es) : EventForm(es[i])

\* Sequences of formed events concatenated are formed.
LEMMA FormsConcat == \A a, b : Forms(a) /\ Forms(b) => Forms(a \o b)
<1> SUFFICES ASSUME NEW a, Forms(a), NEW b, Forms(b) PROVE Forms(a \o b)
  OBVIOUS
<1>1. IsSeq(a) /\ IsSeq(b) /\ IsSeq(a \o b)
  BY ConcatSeq DEF Forms
<1>2. PICK U : a \in Seq(U) /\ b \in Seq(U)
  BY <1>1, InOneSeq
<1>3. /\ Len(a) \in Nat /\ Len(b) \in Nat /\ Len(a \o b) = Len(a) + Len(b)
      /\ \A i \in 1..(Len(a) + Len(b)) :
            (a \o b)[i] = IF i <= Len(a) THEN a[i] ELSE b[i - Len(a)]
  BY <1>2
<1> DEFINE c == a \o b
<1> HIDE DEF c
<1>4. ASSUME NEW i \in 1..(Len(a) + Len(b)) PROVE EventForm(c[i])
  <2>1. CASE i <= Len(a)
    <3>1. i \in 1..Len(a)
      BY <1>3, <2>1
    <3> QED BY <1>3, <2>1, <3>1 DEF Forms, c
  <2>2. CASE ~(i <= Len(a))
    <3>1. i - Len(a) \in 1..Len(b)
      BY <1>3, <2>2
    <3> QED BY <1>3, <2>2, <3>1 DEF Forms, c
  <2> QED BY <2>1, <2>2
<1> QED BY <1>1, <1>3, <1>4 DEF Forms, c

\* A sequence of one formed event is formed.
LEMMA FormsOne == \A e : EventForm(e) => Forms(<<e>>)
<1> SUFFICES ASSUME NEW e, EventForm(e) PROVE Forms(<<e>>)
  OBVIOUS
<1>1. <<e>> \in Seq({e})
  OBVIOUS
<1>2. Len(<<e>>) = 1 /\ \A i \in 1..1 : <<e>>[i] = e
  OBVIOUS
<1> QED BY <1>1, <1>2 DEF Forms, IsSeq

\* The empty sequence of events is formed.
LEMMA FormsNone == Forms(<<>>)
<1>1. <<>> \in Seq({}) /\ Len(<<>>) = 0 /\ \A i \in 1..0 : FALSE
  OBVIOUS
<1> QED BY <1>1 DEF Forms, IsSeq

\* One formed event, or none of it, is formed.
LEMMA FormsWhen == \A condition, e : EventForm(e) => Forms(When(condition, e))
<1> SUFFICES ASSUME NEW condition, NEW e, EventForm(e) PROVE Forms(When(condition, e))
  OBVIOUS
<1>1. CASE condition
  <2>1. When(condition, e) = <<e>>
    BY <1>1 DEF When
  <2> QED BY <2>1, FormsOne
<1>2. CASE ~condition
  <2>1. When(condition, e) = <<>>
    BY <1>2 DEF When
  <2> QED BY <2>1, FormsNone
<1> QED BY <1>1, <1>2

\* The events the session records are formed.
LEMMA FormsOf ==
  /\ \A seat : EventForm(TurnRequested(seat)) /\ EventForm(TurnAccepted(seat))
  /\ \A type : type # "MatchAborted" => \A seat : EventForm(Note(type, seat))
  /\ \A type \in {"MatchCreated", "MatchStarted", "MatchFinished"} : EventForm(Plain(type))
  /\ \A reason, cause : EventForm(MatchAborted([reason |-> reason, cause |-> cause]))
<1>1. ASSUME NEW seat PROVE EventForm(TurnRequested(seat)) /\ EventForm(TurnAccepted(seat))
  BY DEF EventForm, TurnRequested, TurnAccepted, SeatPrivate
<1>2. ASSUME NEW type, type # "MatchAborted", NEW seat PROVE EventForm(Note(type, seat))
  BY <1>2 DEF EventForm, Note
<1>3. ASSUME NEW type \in {"MatchCreated", "MatchStarted", "MatchFinished"}
      PROVE  EventForm(Plain(type))
  BY DEF EventForm, Plain, SeatPrivate
<1>4. ASSUME NEW reason, NEW cause
      PROVE  EventForm(MatchAborted([reason |-> reason, cause |-> cause]))
  BY DEF EventForm, MatchAborted, SeatPrivate
<1> QED BY <1>1, <1>2, <1>3, <1>4

\* The events recorded for several seats are formed.
LEMMA FormsForSeats ==
  /\ \A retried, decided : Forms(Notes(retried, decided))
  /\ Forms(AllRequested)
  /\ Forms(ForSeats(TurnAccepted, ActingNow))
<1>1. ASSUME NEW retried, NEW decided PROVE Forms(Notes(retried, decided))
  <2> DEFINE r0 == When(0 \in retried, Note("PolicyRetried", 0))
             r1 == When(1 \in retried, Note("PolicyRetried", 1))
             d0 == When(0 \in decided, Note("PolicyDecided", 0))
             d1 == When(1 \in decided, Note("PolicyDecided", 1))
  <2>1. Notes(retried, decided) = (r0 \o r1) \o (d0 \o d1)
    BY DEF Notes, ForSeats
  <2>2. Forms(r0) /\ Forms(r1) /\ Forms(d0) /\ Forms(d1)
    BY FormsOf, FormsWhen
  <2> HIDE DEF r0, r1, d0, d1
  <2>3. Forms(r0 \o r1) /\ Forms(d0 \o d1)
    BY <2>2, FormsConcat
  <2> QED BY <2>1, <2>3, FormsConcat
<1>2. Forms(AllRequested)
  <2> DEFINE a == When(0 \in ActingNow, TurnRequested(0))
             b == When(1 \in ActingNow, TurnRequested(1))
  <2>1. AllRequested = a \o b
    BY DEF AllRequested, ForSeats
  <2>2. Forms(a) /\ Forms(b)
    BY FormsOf, FormsWhen
  <2> HIDE DEF a, b
  <2> QED BY <2>1, <2>2, FormsConcat
<1>3. Forms(ForSeats(TurnAccepted, ActingNow))
  <2> DEFINE a == When(0 \in ActingNow, TurnAccepted(0))
             b == When(1 \in ActingNow, TurnAccepted(1))
  <2>1. ForSeats(TurnAccepted, ActingNow) = a \o b
    BY DEF ForSeats
  <2>2. Forms(a) /\ Forms(b)
    BY FormsOf, FormsWhen
  <2> HIDE DEF a, b
  <2> QED BY <2>1, <2>2, FormsConcat
<1> QED BY <1>1, <1>2, <1>3

\* A step that aborts keeps the events formed.
LEMMA FormsAbort ==
  ASSUME Forms(events), NEW reason, NEW cause, NEW told, Forms(told), NEW notes, Forms(notes),
         AbortWith(reason, cause, told, notes)
  PROVE  Forms(events')
<1> DEFINE last == <<MatchAborted([reason |-> reason, cause |-> cause])>>
           es == events \o told
<1>1. events' = (es \o last) \o notes
  BY DEF AbortWith
<1>2. Forms(last)
  BY FormsOf, FormsOne
<1>3. Forms(es)
  BY FormsConcat
<1> HIDE DEF last, es
<1>4. Forms(es \o last)
  BY <1>2, <1>3, FormsConcat
<1> QED BY <1>1, <1>4, FormsConcat

\* A step that advances keeps the events formed.
LEMMA FormsAdvance ==
  ASSUME Forms(events), NEW next, NEW told, Forms(told), NEW notes, Forms(notes),
         AdvanceTo(next, told, notes)
  PROVE  Forms(events')
<1> DEFINE last == When(Over(next), Plain("MatchFinished"))
           es == events \o told
<1>1. events' = (es \o last) \o notes
  BY DEF AdvanceTo
<1>2. Forms(last)
  BY FormsOf, FormsWhen
<1>3. Forms(es)
  BY FormsConcat
<1> HIDE DEF last, es
<1>4. Forms(es \o last)
  BY <1>2, <1>3, FormsConcat
<1> QED BY <1>1, <1>4, FormsConcat

\* The first event is formed.
LEMMA FormsInit ==
  ASSUME Init PROVE Forms(events)
  BY FormsOf, FormsOne DEF Init

\* Every step keeps the events formed.
LEMMA FormsNext ==
  ASSUME Forms(events), [Next]_vars PROVE Forms(events')
<1>0. IsSeq(events)
  BY DEF Forms
<1>1. CASE StartSession
  <2>1. PICK m : events' = (events \o <<Plain("MatchStarted")>>)
                              \o When(Over(m), Plain("MatchFinished"))
    BY <1>1 DEF StartSession
  <2> DEFINE first == <<Plain("MatchStarted")>>
             last == When(Over(m), Plain("MatchFinished"))
  <2>2. Forms(first) /\ Forms(last)
    BY FormsOf, FormsOne, FormsWhen
  <2> HIDE DEF first, last
  <2>3. Forms(events \o first)
    BY <2>2, FormsConcat
  <2>4. Forms((events \o first) \o last)
    BY <2>2, <2>3, FormsConcat
  <2> QED BY <2>1, <2>4 DEF first, last
<1>2. CASE RequestTurn
  <2> DEFINE e == TurnRequested(requested')
  <2>1. events' = Append(events, e)
    BY <1>2 DEF RequestTurn
  <2>2. Forms(<<e>>)
    BY FormsOf, FormsOne
  <2> HIDE DEF e
  <2>3. events' = events \o <<e>>
    BY <1>0, <2>1, SeqAppend
  <2> QED BY <2>2, <2>3, FormsConcat
<1>3. CASE PolicyMissing
  BY <1>3, FormsAbort, FormsNone DEF PolicyMissing
<1>4. CASE PolicyAnswers
  <2>1. \E retried, decided :
           \/ \E next : AdvanceTo(next, <<TurnAccepted(requested)>>, Notes(retried, decided))
           \/ AbortWith("core_error", Text(<<>>), <<>>, Notes(retried, decided))
    BY <1>4 DEF PolicyAnswers
  <2>2. Forms(<<TurnAccepted(requested)>>)
    BY FormsOf, FormsOne
  <2> QED BY <2>1, <2>2, FormsAdvance, FormsAbort, FormsNone, FormsForSeats
<1>5. CASE PolicyFails
  <2>1. \E retried, cause :
           AbortWith("adapter_error", cause, <<>>, Notes(retried, {}))
    BY <1>5 DEF PolicyFails
  <2> QED BY <2>1, FormsAbort, FormsNone, FormsForSeats
<1>6. CASE UserStops
  BY <1>6, FormsAbort, FormsNone DEF UserStops
<1>7. CASE JointPolicyMissing
  BY <1>7, FormsAbort, FormsNone, FormsForSeats DEF JointPolicyMissing
<1>8. CASE JointPoliciesAnswer
  <2> DEFINE told == AllRequested \o ForSeats(TurnAccepted, ActingNow)
  <2>1. \E retried, decided :
           \/ \E next : AdvanceTo(next, told, Notes(retried, decided))
           \/ AbortWith("core_error", Text(<<>>), AllRequested, Notes(retried, decided))
    BY <1>8 DEF JointPoliciesAnswer
  <2>2. Forms(told)
    <3> DEFINE a == AllRequested
               b == ForSeats(TurnAccepted, ActingNow)
    <3>1. Forms(a) /\ Forms(b)
      BY FormsForSeats
    <3> HIDE DEF a, b
    <3>2. Forms(a \o b)
      BY <3>1, FormsConcat
    <3> QED BY <3>2 DEF a, b
  <2> HIDE DEF told
  <2> QED BY <2>1, <2>2, FormsAdvance, FormsAbort, FormsForSeats
<1>9. CASE JointPolicyFails
  <2>1. \E retried, decided :
           AbortWith("adapter_error", Text(<<>>), AllRequested, Notes(retried, decided))
    BY <1>9 DEF JointPolicyFails
  <2> QED BY <2>1, FormsAbort, FormsForSeats
<1>10. CASE JointUserStops
  <2>1. PICK retried, decided :
           events' = ((events \o AllRequested) \o Notes(retried, decided))
                         \o <<MatchAborted([reason |-> "user_quit", cause |-> NoData])>>
    BY <1>10 DEF JointUserStops
  <2> DEFINE a == AllRequested
             b == Notes(retried, decided)
             d == <<MatchAborted([reason |-> "user_quit", cause |-> NoData])>>
  <2>2. Forms(a) /\ Forms(b) /\ Forms(d)
    BY FormsForSeats, FormsOf, FormsOne
  <2> HIDE DEF a, b, d
  <2>3. Forms(events \o a)
    BY <2>2, FormsConcat
  <2> DEFINE es == events \o a
  <2> HIDE DEF es
  <2>4. Forms(es \o b)
    BY <2>2, <2>3, FormsConcat DEF es
  <2>5. Forms((es \o b) \o d)
    BY <2>2, <2>4, FormsConcat
  <2> QED BY <2>1, <2>5 DEF es, a, b, d
<1>11. CASE WriteArtefacts
  BY <1>11 DEF WriteArtefacts
<1>12. CASE UNCHANGED vars
  BY <1>12 DEF vars
<1> QED BY <1>1, <1>2, <1>3, <1>4, <1>5, <1>6, <1>7, <1>8, <1>9, <1>10, <1>11, <1>12 DEF Next

----------------------------------------------------------------------------
(* A full record redacted for a viewer *)

\* A sequence is its elements, one after another.
LEMMA FlatIs ==
  ASSUME NEW s, IsSeq(s) PROVE FlattenSeq([i \in DOMAIN s |-> <<s[i]>>]) = s
<1> DEFINE q == [i \in DOMAIN s |-> <<s[i]>>]
           N == Len(q)
           Step(f) == [i \in 1..N |-> IF i = 1 THEN q[i] ELSE f[i - 1] \o q[i]]
           flatten == CHOOSE f : f = Step(f)
           right == [i \in 1..N |-> FirstTurns(s, i)]
<1>1. FlattenSeq(q) = IF N = 0 THEN q ELSE flatten[N]
  BY DEF FlattenSeq
<1>2. Len(s) \in Nat /\ DOMAIN s = 1..Len(s)
  <2>1. PICK T : s \in Seq(T)
    BY DEF IsSeq
  <2> QED BY <2>1
<1>3. q = [i \in 1..Len(s) |-> q[i]] /\ \A i \in 1..Len(s) : q[i] = <<s[i]>>
  BY <1>2
<1> HIDE DEF q
<1>4. N = Len(s) /\ N \in Nat /\ IsSeq(q) /\ DOMAIN q = 1..N
  BY <1>2, <1>3, ListOf
<1> HIDE DEF N
<1>5. right = Step(right)
  <2> SUFFICES ASSUME NEW n \in 1..N PROVE right[n] = Step(right)[n]
    OBVIOUS
  <2>0. /\ FirstTurns(s, n) = Append(FirstTurns(s, n - 1), s[n])
        /\ q[n] = <<s[n]>> /\ n \in Nat
    BY <1>3, <1>4, FirstNext
  <2>1. FirstTurns(s, n) = FirstTurns(s, n - 1) \o q[n]
    <3> DEFINE f == FirstTurns(s, n - 1)
    <3>1. f = [i \in 1..(n - 1) |-> f[i]] /\ n - 1 \in Nat
      BY <2>0 DEF FirstTurns
    <3> HIDE DEF f
    <3>2. IsSeq(f)
      BY <3>1, ListOf
    <3>3. f \o <<s[n]>> = Append(f, s[n])
      BY <3>2, SeqAppend
    <3> QED BY <2>0, <3>3 DEF f
  <2>2. CASE n = 1
    <3>1. FirstTurns(s, 1) = <<s[1]>>
      BY DEF FirstTurns
    <3> QED BY <2>0, <2>2, <3>1
  <2>3. CASE n # 1
    <3>1. n - 1 \in 1..N
      BY <1>4, <2>0, <2>3
    <3>2. right[n - 1] = FirstTurns(s, n - 1) /\ right[n] = FirstTurns(s, n)
      BY <3>1
    <3>3. Step(right)[n] = right[n - 1] \o q[n]
      <4> HIDE DEF right
      <4> QED BY <2>3
    <3> HIDE DEF right, Step
    <3> QED BY <2>1, <3>2, <3>3
  <2> QED BY <2>2, <2>3
<1>6. flatten = Step(flatten)
  <2> HIDE DEF Step, right
  <2> QED BY <1>5
<1>7. \A n \in 1..N : flatten[n] = right[n]
  <2> DEFINE wrong == {n \in 1..N : flatten[n] # right[n]}
  <2> SUFFICES ASSUME wrong # {} PROVE FALSE
    OBVIOUS
  <2>1. wrong \in SUBSET Nat
    BY <1>4
  <2>2. PICK n \in wrong : \A k \in wrong : n <= k
    <3> HIDE DEF wrong
    <3> QED BY <2>1, LeastExists
  <2>3. n \in 1..N /\ flatten[n] # right[n]
    OBVIOUS
  <2>4. flatten[n] = Step(flatten)[n] /\ right[n] = Step(right)[n]
    <3> HIDE DEF Step, flatten, right
    <3> QED BY <1>5, <1>6
  <2>5. CASE n = 1
    <3> HIDE DEF flatten, right
    <3> QED BY <2>3, <2>4, <2>5
  <2>6. CASE n # 1
    <3>1. n - 1 \in 1..N /\ ~(n <= n - 1)
      <4>1. n \in 1..N
        BY <2>3
      <4> HIDE DEF flatten, right
      <4> QED BY <1>4, <2>6, <4>1
    <3>2. flatten[n - 1] = right[n - 1]
      <4>1. n - 1 \notin wrong
        BY <2>2, <3>1
      <4> QED BY <3>1, <4>1
    <3>3. flatten[n] = flatten[n - 1] \o q[n] /\ right[n] = right[n - 1] \o q[n]
      <4> HIDE DEF flatten, right
      <4> QED BY <2>3, <2>4, <2>6
    <3> HIDE DEF flatten, right
    <3> QED BY <2>3, <3>2, <3>3
  <2> QED BY <2>5, <2>6
<1> HIDE DEF flatten, Step
<1>8. CASE N = 0
  <2>1. q = <<>> /\ s = <<>>
    <3>1. PICK T : s \in Seq(T)
      BY DEF IsSeq
    <3>2. PICK U : q \in Seq(U)
      BY <1>4 DEF IsSeq
    <3>3. s = <<>>
      <4>1. Len(s) = 0
        BY <1>4, <1>8
      <4> QED BY <3>1, <4>1
    <3>4. q = <<>>
      BY <1>8, <3>2 DEF N
    <3> QED BY <3>3, <3>4
  <2> QED BY <1>1, <1>8, <2>1 DEF q
<1>9. CASE N # 0
  <2>1. N \in 1..N
    BY <1>4, <1>9
  <2>2. flatten[N] = FirstTurns(s, Len(s))
    BY <1>4, <1>7, <2>1
  <2> QED BY <1>1, <1>9, <2>2, FirstAll DEF q
<1> QED BY <1>8, <1>9

\* The full view of the events is the events.
LEMMA AllEvents ==
  ASSUME NEW es, Forms(es) PROVE RuntimeEvents(es, "full", FULL_VIEW) = es
<1>1. IsSeq(es) /\ DOMAIN es = 1..Len(es)
  <2>1. PICK T : es \in Seq(T)
    BY DEF Forms, IsSeq
  <2> QED BY <2>1 DEF Forms
<1>2. ASSUME NEW i \in DOMAIN es
      PROVE  When(RuntimeEventVisible(es[i], "full", FULL_VIEW), DumpRuntimeEvent(es[i], "full"))
               = <<es[i]>>
  <2> DEFINE e == es[i]
  <2>1. EventForm(e)
    BY <1>1 DEF Forms
  <2> HIDE DEF e
  <2>2. RuntimeEventVisible(e, "full", FULL_VIEW)
    BY DEF RuntimeEventVisible
  <2>3. DumpRuntimeEvent(e, "full") = e
    <3>1. CASE e.event_type = "MatchAborted"
      <4>1. PICK a : e = [event_type |-> "MatchAborted", abort |-> a]
        BY <2>1, <3>1 DEF EventForm, MatchAborted
      <4>2. DumpAbort(e.abort, "full") = e.abort
        BY DEF DumpAbort
      <4>3. DumpRuntimeEvent(e, "full") = [e EXCEPT !.abort = DumpAbort(e.abort, "full")]
        BY <3>1 DEF DumpRuntimeEvent
      <4> QED BY <4>1, <4>2, <4>3
    <3>2. CASE e.event_type # "MatchAborted"
      BY <3>2 DEF DumpRuntimeEvent
    <3> QED BY <3>1, <3>2
  <2> QED BY <2>2, <2>3 DEF When, e
<1>3. RuntimeEvents(es, "full", FULL_VIEW)
        = FlattenSeq([i \in DOMAIN es |->
             When(RuntimeEventVisible(es[i], "full", FULL_VIEW), DumpRuntimeEvent(es[i], "full"))])
  BY DEF RuntimeEvents, Listed
<1>4. RuntimeEvents(es, "full", FULL_VIEW) = FlattenSeq([i \in DOMAIN es |-> <<es[i]>>])
  BY <1>2, <1>3
<1> QED BY <1>1, <1>4, FlatIs

\* The view a viewer has, and the seat it is of.
LEMMA ViewIs ==
  ASSUME NEW c, NEW viewer \in Viewers, NEW v, v = TranscriptView(c, viewer)
  PROVE  /\ viewer # FULL_VIEW
         /\ \/ ~HiddenInformation(c) /\ v.view = "full" /\ v.viewer_seat = NoSeat
            \/ HiddenInformation(c) /\ v.view = "public" /\ v.viewer_seat = NoSeat
            \/ /\ HiddenInformation(c) /\ v.view = "seat" /\ v.viewer_seat = viewer
               /\ viewer \in VALID_SEATS
<1>1. viewer # FULL_VIEW
  BY DEF Viewers, VALID_SEATS, PUBLIC, FULL_VIEW
<1> QED BY <1>1 DEF TranscriptView, Viewers

\* The transcript of a match for a viewer says whose view it is.
LEMMA ViewerTranscript ==
  ASSUME NEW m, NEW viewer \in Viewers, NEW v, v = TranscriptView(m.config, viewer)
  PROVE  /\ MatchTranscript(m, viewer).view = v.view
         /\ MatchTranscript(m, viewer).viewer_seat = v.viewer_seat
         /\ ~HiddenInformation(m.config) => MatchTranscript(m, viewer) = FullTranscript(m)
<1>1. /\ FullTranscript(m).view = "full" /\ FullTranscript(m).viewer_seat = NoSeat
      /\ "view" \in DOMAIN FullTranscript(m) /\ "viewer_seat" \in DOMAIN FullTranscript(m)
  BY DEF FullTranscript
<1>2. \/ ~HiddenInformation(m.config) /\ v.view = "full" /\ v.viewer_seat = NoSeat
      \/ HiddenInformation(m.config) /\ v.view # "full"
  BY ViewIs
<1>3. CASE v.view = "full"
  <2>1. MatchTranscript(m, viewer) = FullTranscript(m)
    BY <1>3 DEF MatchTranscript
  <2> QED BY <1>1, <1>2, <1>3, <2>1
<1>4. CASE v.view # "full"
  <2> DEFINE full == FullTranscript(m)
  <2>1. \E a, b : MatchTranscript(m, viewer)
          = [full EXCEPT !.initial_state = a, !.turns = b,
                         !.view = v.view, !.viewer_seat = v.viewer_seat]
    BY <1>4 DEF MatchTranscript
  <2> HIDE DEF full
  <2>2. "view" \in DOMAIN full /\ "viewer_seat" \in DOMAIN full
    BY <1>1 DEF full
  <2> QED BY <1>2, <1>4, <2>1, <2>2
<1> QED BY <1>3, <1>4

\* Redacting the full transcript of a match gives the transcript for the viewer.
LEMMA RedactedMatch ==
  ASSUME NEW c \in GameConfigs, NEW m, Played(c, m), ~Chance(c, m.state), NEW viewer \in Viewers
  PROVE  RedactMatch(c, FullTranscript(m), viewer) = MatchTranscript(m, viewer)
<1>1. Replays(c, FullTranscript(m)) = {m} /\ m.config = c
  BY ReplaysIs, MatchIs
<1> DEFINE p == FullTranscript(m)
           view == IF HiddenInformation(c) THEN MatchTranscript(m, viewer) ELSE p
           views == {IF HiddenInformation(c) THEN MatchTranscript(x, viewer) ELSE p :
                        x \in Replays(c, p)}
<1>2. views = {view}
  BY <1>1
<1>3. RedactMatch(c, p, viewer) = IF views = {} THEN Refused ELSE CHOOSE x \in views : TRUE
  BY DEF RedactMatch
<1>4. view = MatchTranscript(m, viewer)
  BY <1>1, ViewerTranscript
<1> HIDE DEF view, views
<1>5. RedactMatch(c, p, viewer) = view
  BY <1>2, <1>3
<1> QED BY <1>4, <1>5

\* An abort of the session, and what is left of it in a view.
LEMMA AbortIs ==
  ASSUME SessionOk, NEW view
  PROVE  /\ DumpAbort(abort, "full") = abort
         /\ lifecycle = "aborted" <=> abort # NoData
         /\ DumpAbort(abort, view) = NoData <=> abort = NoData
         /\ view # "full" /\ abort # NoData => DumpAbort(abort, view).cause = NoData
<1>1. DumpAbort(abort, "full") = abort
  BY DEF DumpAbort
<1>2. CASE lifecycle # "aborted" /\ abort = NoData
  BY <1>1, <1>2 DEF DumpAbort
<1>3. CASE lifecycle = "aborted" /\ abort = [reason |-> abort.reason, cause |-> abort.cause]
  <2>1. DOMAIN abort = {"reason", "cause"} /\ DOMAIN NoData = {"absent"}
    BY <1>3 DEF NoData
  <2>2. abort # NoData
    BY <2>1
  <2> DEFINE a == [abort EXCEPT !.cause = NoData]
  <2>3. DOMAIN a = {"reason", "cause"} /\ a.cause = NoData
    BY <2>1
  <2> HIDE DEF a
  <2>4. a # NoData
    BY <2>1, <2>3
  <2>5. DumpAbort(abort, view) = IF view = "full" THEN abort ELSE a
    BY <2>2 DEF DumpAbort, a
  <2> QED BY <1>1, <1>3, <2>2, <2>3, <2>4, <2>5
<1> QED BY <1>2, <1>3 DEF SessionOk, AbortOk

\* A status, and a runtime transcript, of the session.
LEMMA StatusIs ==
  ASSUME match # <<>>, NEW viewer, NEW v, v = TranscriptView(config, viewer)
  PROVE  DumpStatus(Session, viewer)
           = [schema_version |-> 4, lifecycle |-> lifecycle,
              current_seat |-> CurrentSeat(TheMatch), turn_count |-> Len(TheMatch.turns),
              result |-> Result(TheMatch.config, TheMatch.state),
              latest |-> IF viewer = FULL_VIEW THEN <<TheMatch.state>>
                         ELSE <<StateView(TheMatch.config, TheMatch.state, viewer)>>,
              abort |-> DumpAbort(abort, v.view), view |-> v.view,
              viewer_seat |-> v.viewer_seat]
<1>1. /\ Session.match = match /\ Session.config = config /\ Session.lifecycle = lifecycle
      /\ Session.abort = abort
  BY DEF Session
<1> QED BY <1>1 DEF DumpStatus, TheMatch, RUNTIME_TRANSCRIPT_SCHEMA_VERSION

\* The transcript a session dumps for a viewer, field by field.
LEMMA RuntimeIs ==
  ASSUME match # <<>>, NEW viewer, NEW v, v = TranscriptView(config, viewer)
  PROVE  DumpRuntime(Session, viewer)
           = [schema_version |-> 4, game_id |-> config.game, lifecycle |-> lifecycle,
              events |-> RuntimeEvents(events, v.view, viewer),
              abort |-> DumpAbort(abort, v.view),
              match_transcript |-> <<MatchTranscript(TheMatch, viewer)>>,
              view |-> v.view, viewer_seat |-> v.viewer_seat]
<1>1. /\ Session.match = match /\ Session.config = config /\ Session.lifecycle = lifecycle
      /\ Session.abort = abort /\ Session.events = events
  BY DEF Session
<1> QED BY <1>1 DEF DumpRuntime, TheMatch, RUNTIME_TRANSCRIPT_SCHEMA_VERSION

\* RedactedIsTheView of a session that is as SessionOk says.
LEMMA RedactedHolds ==
  ASSUME SessionOk, Forms(events) PROVE RedactedIsTheView
<1> SUFFICES ASSUME artefacts # <<>>, NEW viewer \in Viewers,
                    NEW status, status = RedactStatus(config, artefacts[1], viewer),
                    NEW runtime, runtime = RedactRuntime(config, SavedRuntime, viewer)
             PROVE  /\ status = DumpStatus(Session, viewer)
                    /\ runtime = DumpRuntime(Session, viewer)
                    /\ Envelope(status)
                    /\ TranscriptEnvelope(runtime)
  BY DEF RedactedIsTheView
<1>1. /\ lifecycle \in Lifecycles /\ Started /\ Saved
  <2>1. lifecycle \in {"finished", "aborted"} /\ lifecycle \in Lifecycles
    BY DEF SessionOk, ArtefactsOk, LifecycleOk
  <2>2. match # <<>>
    BY <2>1 DEF SessionOk, LifecycleOk
  <2> QED BY <2>1, <2>2 DEF Started, Saved
<1>2. /\ config \in GameConfigs /\ Played(config, TheMatch) /\ ~Chance(config, TheMatch.state)
      /\ match = <<TheMatch>> /\ match # <<>> /\ TheMatch.config = config
      /\ SavedRuntime = DumpRuntime(Session, FULL_VIEW)
      /\ artefacts[1] = DumpStatus(Session, FULL_VIEW)
  BY <1>1, SavedIs, StartedIs DEF Started
<1> DEFINE v == TranscriptView(config, viewer)
           full == TranscriptView(config, FULL_VIEW)
<1>3. full = [view |-> "full", viewer_seat |-> NoSeat]
  BY DEF TranscriptView
<1>4. /\ viewer # FULL_VIEW
      /\ \/ ~HiddenInformation(config) /\ v.view = "full" /\ v.viewer_seat = NoSeat
         \/ HiddenInformation(config) /\ v.view = "public" /\ v.viewer_seat = NoSeat
         \/ /\ HiddenInformation(config) /\ v.view = "seat" /\ v.viewer_seat = viewer
            /\ viewer \in VALID_SEATS
  BY ViewIs
<1>5. /\ DumpAbort(abort, "full") = abort
      /\ lifecycle = "aborted" <=> abort # NoData
      /\ DumpAbort(abort, v.view) = NoData <=> abort = NoData
      /\ v.view # "full" /\ abort # NoData => DumpAbort(abort, v.view).cause = NoData
  BY AbortIs
<1>6. status = DumpStatus(Session, viewer) /\ Envelope(status)
  <2> DEFINE saved == artefacts[1]
             x == TheMatch.state
             seen == <<StateView(config, x, viewer)>>
             record(latest, ab, view, seat) ==
               [schema_version |-> 4, lifecycle |-> lifecycle,
                current_seat |-> CurrentSeat(TheMatch), turn_count |-> Len(TheMatch.turns),
                result |-> Result(TheMatch.config, TheMatch.state),
                latest |-> latest, abort |-> ab, view |-> view, viewer_seat |-> seat]
  <2>1. saved = record(<<x>>, abort, "full", NoSeat)
    BY <1>2, <1>3, <1>5, StatusIs
  <2>2. DumpStatus(Session, viewer) = record(seen, DumpAbort(abort, v.view), v.view, v.viewer_seat)
    BY <1>2, <1>4, StatusIs
  <2>3. Envelope(saved)
    BY <1>1, <1>5, <2>1 DEF Envelope
  <2>4. [i \in DOMAIN <<x>> |-> StateView(config, <<x>>[i], viewer)] = seen
    OBVIOUS
  <2>5. status = [saved EXCEPT
                    !.latest = [i \in DOMAIN saved.latest |-> StateView(config, saved.latest[i], viewer)],
                    !.abort = DumpAbort(saved.abort, v.view),
                    !.view = v.view, !.viewer_seat = v.viewer_seat]
    BY <2>1, <2>3 DEF RedactStatus
  <2> HIDE DEF seen, saved, v
  <2>6. saved.latest = <<x>> /\ saved.abort = abort
    BY <2>1
  <2>7. status = record(seen, DumpAbort(abort, v.view), v.view, v.viewer_seat)
    <3> DEFINE ab == DumpAbort(abort, v.view)
    <3>1. status = [saved EXCEPT !.latest = seen, !.abort = ab,
                                 !.view = v.view, !.viewer_seat = v.viewer_seat]
      BY <2>4, <2>5, <2>6
    <3> HIDE DEF ab
    <3>2. status = record(seen, ab, v.view, v.viewer_seat)
      BY <2>1, <3>1
    <3> QED BY <3>2 DEF ab
  <2>8. Envelope(status)
    BY <1>1, <1>4, <1>5, <2>7 DEF Envelope
  <2> QED BY <2>2, <2>7, <2>8
<1>7. runtime = DumpRuntime(Session, viewer) /\ TranscriptEnvelope(runtime)
  <2> DEFINE saved == SavedRuntime
             m == TheMatch
             seen == <<MatchTranscript(m, viewer)>>
             es == RuntimeEvents(events, v.view, viewer)
             record(evs, ab, transcript, view, seat) ==
               [schema_version |-> 4, game_id |-> config.game, lifecycle |-> lifecycle,
                events |-> evs, abort |-> ab, match_transcript |-> transcript,
                view |-> view, viewer_seat |-> seat]
  <2>1. RuntimeEvents(events, "full", FULL_VIEW) = events
    BY AllEvents
  <2>2. MatchTranscript(m, FULL_VIEW) = FullTranscript(m)
    BY DEF MatchTranscript, TranscriptView
  <2>3. saved = record(events, abort, <<FullTranscript(m)>>, "full", NoSeat)
    BY <1>2, <1>3, <1>5, <2>1, <2>2, RuntimeIs
  <2>4. DumpRuntime(Session, viewer)
          = record(es, DumpAbort(abort, v.view), seen, v.view, v.viewer_seat)
    BY <1>2, RuntimeIs
  <2>5. FullTranscript(m).view = "full" /\ FullTranscript(m).viewer_seat = NoSeat
    BY <1>2, FullIs
  <2> HIDE DEF m, saved, es
  <2> DEFINE full1 == FullTranscript(m)
  <2>6. <<full1>>[1] = full1 /\ DOMAIN <<full1>> = {1} /\ <<full1>> # <<>>
    OBVIOUS
  <2> HIDE DEF full1
  <2>7. /\ saved.match_transcript = <<full1>> /\ saved.abort = abort /\ saved.events = events
        /\ saved.view = "full" /\ saved.viewer_seat = NoSeat /\ saved.lifecycle = lifecycle
    BY <2>3 DEF full1
  <2>8. TranscriptEnvelope(saved)
    <3>1. Envelope(saved)
      BY <1>1, <1>5, <2>7 DEF Envelope
    <3> QED BY <2>5, <2>6, <2>7, <3>1 DEF TranscriptEnvelope, full1
  <2>9. RedactMatch(config, full1, viewer) = MatchTranscript(m, viewer)
    BY <1>2, RedactedMatch DEF m, full1
  <2> DEFINE ab == DumpAbort(abort, v.view)
  <2>10. runtime = [saved EXCEPT !.match_transcript = seen, !.events = es, !.abort = ab,
                                 !.view = v.view, !.viewer_seat = v.viewer_seat]
    <3>1. runtime
            = [saved EXCEPT
                 !.match_transcript =
                    IF saved.match_transcript = <<>> THEN <<>>
                    ELSE <<RedactMatch(config, saved.match_transcript[1], viewer)>>,
                 !.events = RuntimeEvents(saved.events, v.view, viewer),
                 !.abort = DumpAbort(saved.abort, v.view),
                 !.view = v.view, !.viewer_seat = v.viewer_seat]
      BY <2>7, <2>8 DEF RedactRuntime, saved
    <3>2. saved.match_transcript # <<>> /\ saved.match_transcript[1] = full1
      BY <2>6, <2>7
    <3> HIDE DEF v
    <3> QED BY <2>7, <2>9, <3>1, <3>2 DEF es
  <2> HIDE DEF seen, ab, v
  <2>11. runtime = record(es, ab, seen, v.view, v.viewer_seat)
    BY <2>3, <2>10
  <2>12. TranscriptEnvelope(runtime)
    <3>1. /\ runtime.lifecycle = lifecycle /\ runtime.abort = ab /\ runtime.view = v.view
          /\ runtime.viewer_seat = v.viewer_seat /\ runtime.match_transcript = seen
      BY <2>11
    <3>2. /\ MatchTranscript(m, viewer).view = v.view
          /\ MatchTranscript(m, viewer).viewer_seat = v.viewer_seat
      BY <1>2, ViewerTranscript DEF m, v
    <3>3. DOMAIN seen = {1} /\ seen[1] = MatchTranscript(m, viewer)
      BY DEF seen
    <3>4. Envelope(runtime)
      BY <1>1, <1>4, <1>5, <3>1 DEF Envelope, ab
    <3> QED BY <3>1, <3>2, <3>3, <3>4 DEF TranscriptEnvelope
  <2> QED BY <2>4, <2>11, <2>12 DEF ab
<1> QED BY <1>6, <1>7

\* A saved full record redacted for a viewer is what the session would have
\* dumped for that viewer.
THEOREM RedactedAlwaysTheView == Spec => []RedactedIsTheView
<1>1. Init => Forms(events)
  BY FormsInit
<1>2. Forms(events) /\ [Next]_vars => Forms(events')
  BY FormsNext
<1>3. Forms(events)' <=> Forms(events')
  BY DEF Forms, EventForm, SeatPrivate, MatchAborted
<1>4. SessionOk /\ Forms(events) => RedactedIsTheView
  BY RedactedHolds
<1> QED BY <1>1, <1>2, <1>3, <1>4, SessionInvariant, PTL DEF Spec

----------------------------------------------------------------------------
(* The rounds of Liar's Dice *)

\* A roll begins the next round; a bid and a call stay in the round.
LEMMA RoundsRise ==
  ASSUME NEW c \in LiarsDiceConfigs, NEW s \in StatesOf(c), NEW t, Made(c, s, t)
  PROVE  /\ s.round_number \in Nat /\ s.round_number <= t.post_state.round_number
         /\ s.dice = NoDice => t.post_state.round_number = s.round_number + 1
<1>1. c.game = "liarsdice" /\ c \in GameConfigs
  BY DEF LiarsDiceConfigs, GameConfigs
<1>2. s \in LiarsDiceFields(c)
  BY <1>1 DEF StatesOf, LiarsDiceStates
<1>3. /\ s.round_number \in Nat
      /\ s = [dice |-> s.dice, dice_counts |-> s.dice_counts, bids |-> s.bids,
              current_seat |-> s.current_seat, round_number |-> s.round_number,
              faces |-> s.faces, last_showdown |-> s.last_showdown]
  BY <1>2, LiarsDiceTypes DEF LiarsDiceFields
<1>4. ~Joint(c, s)
  BY <1>1, GameActing
<1>5. CASE Chance(c, s) /\ \E o \in Outcomes(c, s) : t = ChanceTurn(c, s, o)
  <2>1. PICK o \in Outcomes(c, s) : t = ChanceTurn(c, s, o)
    BY <1>5
  <2>2. t.post_state = [s EXCEPT !.dice = o.dice, !.bids = <<>>, !.round_number = @ + 1]
    BY <1>1, <2>1 DEF ChanceTurn, Turn, ApplyChance, LiarsDiceApplyChance, Transition
  <2>3. t.post_state.round_number = s.round_number + 1
    BY <1>3, <2>2
  <2> QED BY <1>3, <2>3
<1>6. CASE \E seat \in VALID_SEATS, a \in Actions(c) :
              Valid(c, s, seat, a) /\ t = ActionTurn(c, s, seat, a)
  <2>1. PICK seat \in VALID_SEATS, a \in Actions(c) :
              Valid(c, s, seat, a) /\ t = ActionTurn(c, s, seat, a)
    BY <1>6
  <2>2. ~LiarsDiceChance(s) /\ ~LiarsDiceTerminal(s)
    BY <1>1, <2>1 DEF Valid, LiarsDiceValid
  <2>3. s.dice # NoDice
    BY <2>2 DEF LiarsDiceChance
  <2>4. t.post_state = LiarsDiceApply(s, seat, a).state
    BY <1>1, <2>1 DEF ActionTurn, Turn, Apply
  <2>5. t.post_state.round_number = s.round_number
    <3>1. CASE a.type = "bid"
      <4>1. t.post_state = [s EXCEPT !.bids = Append(@, a), !.current_seat = Other(seat)]
        BY <2>4, <3>1 DEF LiarsDiceApply, MakeBid, Transition
      <4> QED BY <1>3, <4>1
    <3>2. CASE a.type # "bid"
      <4> DEFINE bid   == Standing(s)
                 count == Showing(s.dice, bid.face)
                 loser == IF count >= bid.quantity THEN seat ELSE Other(seat)
                 left  == s.dice_counts[loser] - 1
                 to    == IF left > 0 THEN loser ELSE Other(loser)
                 show  == <<[caller |-> seat, bid |-> bid, dice |-> s.dice, count |-> count,
                             loser |-> loser]>>
                 next  == [s EXCEPT !.dice = NoDice, !.dice_counts[loser] = left, !.bids = <<>>,
                                    !.current_seat = to, !.last_showdown = show]
      <4>1. t.post_state = next
        BY <2>4, <3>2 DEF LiarsDiceApply, CallBid, Transition
      <4> HIDE DEF left, to, show, loser
      <4> QED BY <1>3, <4>1
    <3> QED BY <3>1, <3>2
  <2> QED BY <1>3, <2>3, <2>5
<1> QED BY <1>4, <1>5, <1>6 DEF Made, JointValid

\* Rounds never fall, and after a call the next round has begun.
LEMMA RoundsKept ==
  ASSUME NEW c \in LiarsDiceConfigs, NEW m, Played(c, m), NEW i \in 1..Len(m.turns),
         NEW n \in i..Len(m.turns)
  PROVE  /\ m.turns[i].post_state.round_number \in Nat
         /\ m.turns[n].post_state.round_number \in Nat
         /\ m.turns[i].post_state.round_number <= m.turns[n].post_state.round_number
         /\ i < n /\ m.turns[i].post_state.dice = NoDice =>
               m.turns[i].post_state.round_number < m.turns[n].post_state.round_number
<1>1. c \in GameConfigs /\ c.game = "liarsdice" /\ Len(m.turns) \in Nat
  BY MatchIs DEF GameConfigs, LiarsDiceConfigs
<1> DEFINE N == Len(m.turns)
           s(k) == m.turns[k].post_state
           r(k) == s(k).round_number
<1>2. ASSUME NEW k \in 1..N PROVE r(k) \in Nat /\ s(k) \in StatesOf(c)
  <2>1. s(k) \in StatesOf(c)
    BY <1>1, TurnsMade
  <2>2. s(k) \in LiarsDiceFields(c)
    BY <1>1, <2>1 DEF StatesOf, LiarsDiceStates
  <2> QED BY <2>1, <2>2, LiarsDiceTypes
<1>3. ASSUME NEW k \in 2..N
      PROVE  /\ r(k - 1) <= r(k)
             /\ s(k - 1).dice = NoDice => r(k) = r(k - 1) + 1
  <2>1. k \in 1..N /\ k - 1 \in 1..N /\ k - 1 # 0
    BY <1>1
  <2>2. Made(c, StateAfter(c, m.turns, k - 1), m.turns[k])
    BY <1>1, <2>1, TurnsMade
  <2>3. StateAfter(c, m.turns, k - 1) = s(k - 1) /\ s(k - 1) \in StatesOf(c)
    BY <1>2, <2>1 DEF StateAfter
  <2> DEFINE x == s(k - 1)
             t == m.turns[k]
  <2>4. x \in StatesOf(c) /\ Made(c, x, t)
    BY <2>2, <2>3
  <2> HIDE DEF x, t
  <2>5. /\ x.round_number <= t.post_state.round_number
        /\ x.dice = NoDice => t.post_state.round_number = x.round_number + 1
    BY <2>4, RoundsRise
  <2> QED BY <2>5 DEF x, t
<1> DEFINE Right(k) == /\ r(i) <= r(k)
                       /\ i < k /\ s(i).dice = NoDice => r(i) < r(k)
           wrong == {k \in i..N : ~Right(k)}
<1>4. wrong = {}
  <2> SUFFICES ASSUME wrong # {} PROVE FALSE
    OBVIOUS
  <2>1. wrong \in SUBSET Nat
    BY <1>1
  <2>2. PICK k \in wrong : \A j \in wrong : k <= j
    <3> HIDE DEF wrong
    <3> QED BY <2>1, LeastExists
  <2>3. k \in i..N /\ ~Right(k)
    OBVIOUS
  <2>4. k \in Nat /\ i \in Nat /\ k \in 1..N /\ i \in 1..N
    BY <1>1, <2>3
  <2>5. k # i
    <3>1. Right(i)
      <4> HIDE DEF s
      <4> QED BY <1>2, <2>4
    <3> HIDE DEF Right
    <3> QED BY <2>3, <3>1
  <2>6. k \in 2..N /\ k - 1 \in i..N /\ k - 1 \in 1..N /\ ~(k <= k - 1)
    BY <1>1, <2>3, <2>4, <2>5
  <2>7. Right(k - 1)
    <3>1. k - 1 \notin wrong
      BY <2>2, <2>6
    <3> HIDE DEF Right
    <3> QED BY <2>6, <3>1
  <2>8. r(k) \in Nat /\ r(k - 1) \in Nat /\ r(i) \in Nat
    BY <1>2, <2>4, <2>6
  <2>9. r(k - 1) <= r(k) /\ (s(k - 1).dice = NoDice => r(k) = r(k - 1) + 1)
    BY <1>3, <2>6
  <2>10. Right(k)
    <3> HIDE DEF s
    <3>1. CASE k - 1 = i
      BY <2>8, <2>9, <3>1
    <3>2. CASE k - 1 # i
      <4>1. i < k - 1
        BY <2>4, <2>6, <3>2
      <4> QED BY <2>7, <2>8, <2>9, <4>1
    <3> QED BY <3>1, <3>2
  <2> HIDE DEF Right
  <2> QED BY <2>3, <2>10
<1>5. Right(n)
  <2> HIDE DEF Right
  <2> QED BY <1>4
<1>6. n \in 1..N /\ i \in 1..N
  BY <1>1
<1> QED BY <1>2, <1>5, <1>6

\* The turns after those of the rounds before are of this round: while its dice
\* are on the table, none of them took the dice away.
LEMMA LiveRound ==
  ASSUME NEW c \in LiarsDiceConfigs, NEW m, Played(c, m), m.state.dice # NoDice,
         NEW dealt, dealt = Cardinality({k \in DOMAIN m.turns :
                        m.turns[k].post_state.round_number < m.state.round_number}),
         NEW i \in DOMAIN m.turns, i > dealt
  PROVE  m.turns[i].post_state.dice # NoDice
<1> DEFINE N == Len(m.turns)
           r(k) == m.turns[k].post_state.round_number
           past == {k \in 1..N : r(k) < m.state.round_number}
<1>1. c \in GameConfigs /\ N \in Nat /\ DOMAIN m.turns = 1..N
      /\ m.state = StateAfter(c, m.turns, N)
  BY MatchIs DEF GameConfigs
<1>2. i \in 1..N /\ N \in 1..N /\ m.state = m.turns[N].post_state /\ dealt = Cardinality(past)
  BY <1>1 DEF StateAfter
<1> SUFFICES ASSUME m.turns[i].post_state.dice = NoDice PROVE FALSE
  OBVIOUS
<1>3. i # N
  BY <1>2
<1>4. r(i) \in Nat /\ r(N) \in Nat /\ r(i) < r(N)
  <2>1. N \in i..N /\ i < N
    BY <1>1, <1>2, <1>3
  <2> QED BY <1>2, <2>1, RoundsKept
<1>5. \A k \in 1..i : r(k) < r(N)
  <2> SUFFICES ASSUME NEW k \in 1..i PROVE r(k) < r(N)
    OBVIOUS
  <2>1. k \in 1..N /\ i \in k..N
    BY <1>1, <1>2
  <2>2. r(k) \in Nat /\ r(k) <= r(i)
    BY <2>1, RoundsKept
  <2> QED BY <1>4, <2>2
<1>6. 1..i \subseteq past
  BY <1>1, <1>2, <1>5
<1> HIDE DEF past
<1>7. IsFiniteSet(1..N) /\ IsFiniteSet(1..i) /\ Cardinality(1..i) = i
  <2>1. \A a, b \in Int : /\ IsFiniteSet(a..b)
                          /\ Cardinality(a..b) = IF a > b THEN 0 ELSE b - a + 1
    BY FS_Interval
  <2>2. 1 \in Int /\ N \in Int /\ i \in Int /\ ~(1 > i) /\ i - 1 + 1 = i
    BY <1>1, <1>2
  <2> QED BY <2>1, <2>2
<1>8. IsFiniteSet(past)
  BY <1>7, FS_Subset DEF past
<1>9. Cardinality(1..i) <= Cardinality(past)
  BY <1>6, <1>8, FS_Subset
<1>10. dealt \in Nat
  BY <1>2, <1>8, FS_CardinalityType
<1> QED BY <1>1, <1>2, <1>7, <1>9, <1>10

----------------------------------------------------------------------------
(***************************************************************************)
(* Hands a viewer is not shown.  The definitions are the parts of           *)
(* Reimagined.                                                              *)
(***************************************************************************)
OtherHands(dice, seats, faces) ==
  [seat \in VALID_SEATS |-> IF seat \in seats THEN OtherHand(dice[seat], faces) ELSE dice[seat]]

OtherState(s, seats, faces) == [s EXCEPT !.dice = OtherHands(@, seats, faces)]

OtherEvent(e, seats, faces) ==
  IF e.event_type = "DiceDealt" /\ e.seat \in seats
  THEN [e EXCEPT !.dice = OtherHand(@, faces)] ELSE e

OtherEvents(es, seats, faces) == [i \in DOMAIN es |-> OtherEvent(es[i], seats, faces)]

OtherTurn(t, seats, faces) ==
  [t EXCEPT !.events = OtherEvents(@, seats, faces),
            !.outcome = IF t.kind = "chance" THEN [dice |-> OtherHands(@.dice, seats, faces)]
                        ELSE @,
            !.post_state = OtherState(@, seats, faces)]

\* A state whose hidden hands are others: what is public of it, and the hand
\* of a seat whose hand is not among them, are as they were.
LEMMA OtherStateIs ==
  ASSUME NEW c \in LiarsDiceConfigs, NEW s \in LiarsDiceFields(c), s.dice # NoDice,
         NEW seats, NEW faces, NEW x, x = OtherState(s, seats, faces)
  PROVE  /\ x.dice # NoDice /\ x.dice_counts = s.dice_counts /\ x.bids = s.bids
         /\ x.current_seat = s.current_seat /\ x.round_number = s.round_number
         /\ x.faces = s.faces /\ x.last_showdown = s.last_showdown
         /\ \A seat \in VALID_SEATS \ seats : x.dice[seat] = s.dice[seat]
<1>1. s = [dice |-> s.dice, dice_counts |-> s.dice_counts, bids |-> s.bids,
           current_seat |-> s.current_seat, round_number |-> s.round_number,
           faces |-> s.faces, last_showdown |-> s.last_showdown]
  BY DEF LiarsDiceFields
<1> DEFINE dice == OtherHands(s.dice, seats, faces)
<1>2. /\ 0 \in DOMAIN dice
      /\ \A seat \in VALID_SEATS \ seats : dice[seat] = s.dice[seat]
  BY DEF OtherHands, VALID_SEATS
<1> HIDE DEF dice
<1>3. dice # NoDice
  <2>1. 0 \notin DOMAIN NoDice
    BY DEF NoDice
  <2> QED BY <1>2, <2>1
<1>4. x = [s EXCEPT !.dice = dice]
  BY DEF dice, OtherState
<1> QED BY <1>1, <1>2, <1>3, <1>4

\* A viewer sees the same of a state with the other seats' hands replaced.
LEMMA OtherView ==
  ASSUME NEW c \in LiarsDiceConfigs, NEW s \in LiarsDiceFields(c), s.dice # NoDice,
         NEW seats, NEW faces, NEW x, x = OtherState(s, seats, faces), NEW viewer \in Viewers,
         viewer \notin seats
  PROVE  /\ StateView(c, x, viewer) = StateView(c, s, viewer)
         /\ Result(c, x) = Result(c, s) /\ Acting(c, x) = Acting(c, s)
         /\ \A seat : Legal(c, x, seat) = Legal(c, s, seat)
<1>1. /\ x.dice # NoDice /\ x.dice_counts = s.dice_counts /\ x.bids = s.bids
      /\ x.current_seat = s.current_seat /\ x.round_number = s.round_number
      /\ x.faces = s.faces /\ x.last_showdown = s.last_showdown
      /\ \A seat \in VALID_SEATS \ seats : x.dice[seat] = s.dice[seat]
  BY OtherStateIs
<1>2. c.game = "liarsdice"
  BY DEF LiarsDiceConfigs
<1>3. Result(c, x) = Result(c, s) /\ LiarsDiceResult(x) = LiarsDiceResult(s)
  BY <1>1, <1>2 DEF Result, LiarsDiceResult
<1>4. LiarsDiceChance(x) = FALSE /\ LiarsDiceChance(s) = FALSE
  BY <1>1 DEF LiarsDiceChance
<1>5. PublicFields(x) = PublicFields(s)
  BY <1>1, <1>4 DEF PublicFields
<1>6. StateView(c, x, viewer) = StateView(c, s, viewer)
  <2>1. viewer # PUBLIC => x.dice[viewer] = s.dice[viewer]
    BY <1>1 DEF Viewers
  <2> QED BY <1>1, <1>2, <1>5, <2>1 DEF StateView, HiddenInformation, LiarsDiceView
<1>7. Acting(c, x) = Acting(c, s)
  BY <1>1, <1>2, <1>3, <1>4 DEF Acting, Terminal, Chance
<1>8. ASSUME NEW seat PROVE Legal(c, x, seat) = Legal(c, s, seat)
  <2>1. Total(x) = Total(s) /\ Standing(x) = Standing(s)
    BY <1>1 DEF Total, Standing
  <2>2. LiarsDiceTerminal(x) = LiarsDiceTerminal(s)
    BY <1>3 DEF LiarsDiceTerminal
  <2>3. LiarsDiceLegal(x, seat) = LiarsDiceLegal(s, seat)
    <3>1. Bids(1..Total(x), 1..x.faces) = Bids(1..Total(s), 1..s.faces)
      BY <1>1, <2>1
    <3> DEFINE all == Bids(1..Total(s), 1..s.faces)
               over == {b \in all : Outranks(b, Standing(s))}
    <3>2. {b \in all : Outranks(b, Standing(x))} = over
      BY <2>1
    <3> HIDE DEF all, over
    <3>3. /\ LiarsDiceLegal(x, seat)
               = IF LiarsDiceTerminal(x) \/ LiarsDiceChance(x) \/ seat # x.current_seat THEN {}
                 ELSE IF x.bids = <<>> THEN all ELSE {Call} \cup over
          /\ LiarsDiceLegal(s, seat)
               = IF LiarsDiceTerminal(s) \/ LiarsDiceChance(s) \/ seat # s.current_seat THEN {}
                 ELSE IF s.bids = <<>> THEN all ELSE {Call} \cup over
      BY <3>1, <3>2 DEF LiarsDiceLegal, all, over
    <3> QED BY <1>1, <1>4, <2>2, <3>3
  <2> QED BY <1>2, <2>3 DEF Legal
<1> QED BY <1>3, <1>6, <1>7, <1>8

\* The hand dealt to a seat is an event no other viewer gets.
LEMMA OtherEventsUnseen ==
  ASSUME NEW es, NEW faces, NEW viewer \in Viewers, NEW seats \in SUBSET VALID_SEATS,
         viewer \notin seats,
         \A i \in DOMAIN es : es[i].event_type = "DiceDealt" =>
              "event_type" \in DOMAIN es[i] /\ "seat" \in DOMAIN es[i]
  PROVE  FilterEvents(DumpEvents(OtherEvents(es, seats, faces)), viewer)
           = FilterEvents(DumpEvents(es), viewer)
<1> DEFINE Shown(d) == When(PayloadVisible(d, viewer), d)
           other == OtherEvents(es, seats, faces)
<1>1. ASSUME NEW i \in DOMAIN es PROVE Shown(DumpEvent(other[i])) = Shown(DumpEvent(es[i]))
  <2> DEFINE e == es[i]
             o == OtherEvent(e, seats, faces)
  <2>1. other[i] = o
    BY DEF OtherEvents
  <2>2. CASE e.event_type = "DiceDealt" /\ e.seat \in seats
    <3>1. o = [e EXCEPT !.dice = OtherHand(e.dice, faces)]
      BY <2>2 DEF OtherEvent
    <3>2. "event_type" \in DOMAIN e /\ "seat" \in DOMAIN e
      BY <2>2
    <3> HIDE DEF e, o
    <3>3. o.event_type = "DiceDealt" /\ o.seat = e.seat
      BY <2>2, <3>1, <3>2
    <3>4. \A d : d.event_type = "DiceDealt" /\ d.seat = e.seat =>
             ~PayloadVisible(DumpEvent(d), viewer)
      <4> SUFFICES ASSUME NEW d, d.event_type = "DiceDealt", d.seat = e.seat
                   PROVE  ~PayloadVisible(DumpEvent(d), viewer)
        OBVIOUS
      <4>1. ~VisibleTo(d, PUBLIC) /\ ~VisibleTo(d, viewer)
        BY <2>2 DEF VisibleTo, DiceDealtTo, VALID_SEATS, PUBLIC
      <4>2. /\ DumpEvent(d).is_public = VisibleTo(d, PUBLIC)
            /\ DumpEvent(d).audience = {seat \in VALID_SEATS : VisibleTo(d, seat)}
        BY <4>1 DEF DumpEvent
      <4> QED BY <4>1, <4>2 DEF PayloadVisible
    <3>5. Shown(DumpEvent(o)) = <<>> /\ Shown(DumpEvent(e)) = <<>>
      BY <2>2, <3>3, <3>4 DEF When
    <3> QED BY <2>1, <3>5 DEF e
  <2>3. CASE ~(e.event_type = "DiceDealt" /\ e.seat \in seats)
    <3>1. o = e
      BY <2>3 DEF OtherEvent
    <3> QED BY <2>1, <3>1
  <2> QED BY <2>2, <2>3
<1>2. DOMAIN other = DOMAIN es
  BY DEF OtherEvents
<1> HIDE DEF other
<1>3. \A s : FilterEvents(DumpEvents(s), viewer)
                = FlattenSeq([i \in DOMAIN s |-> Shown(DumpEvent(s[i]))])
  <2> SUFFICES ASSUME NEW s
               PROVE  FilterEvents(DumpEvents(s), viewer)
                        = FlattenSeq([i \in DOMAIN s |-> Shown(DumpEvent(s[i]))])
    OBVIOUS
  <2> DEFINE ds == DumpEvents(s)
  <2>1. DOMAIN ds = DOMAIN s /\ \A i \in DOMAIN s : ds[i] = DumpEvent(s[i])
    BY DEF DumpEvents
  <2> HIDE DEF ds
  <2>2. FilterEvents(ds, viewer) = FlattenSeq([i \in DOMAIN ds |-> Shown(ds[i])])
    BY DEF FilterEvents, Listed
  <2> HIDE DEF Shown
  <2>3. [i \in DOMAIN ds |-> Shown(ds[i])] = [i \in DOMAIN s |-> Shown(DumpEvent(s[i]))]
    BY <2>1
  <2> QED BY <2>2, <2>3 DEF ds
<1> HIDE DEF Shown
<1>4. [i \in DOMAIN other |-> Shown(DumpEvent(other[i]))]
        = [i \in DOMAIN es |-> Shown(DumpEvent(es[i]))]
  BY <1>1, <1>2
<1> QED BY <1>3, <1>4 DEF other

\* A roll's other hands are as many dice as before.
LEMMA OtherOutcomeView ==
  ASSUME NEW c \in LiarsDiceConfigs, NEW dice \in [VALID_SEATS -> Seq(Nat)], NEW faces,
         NEW viewer \in Viewers, NEW seats, viewer \notin seats
  PROVE  OutcomeView(c, [dice |-> OtherHands(dice, seats, faces)], viewer)
           = OutcomeView(c, [dice |-> dice], viewer)
<1> DEFINE other == OtherHands(dice, seats, faces)
<1>1. ASSUME NEW seat \in VALID_SEATS
      PROVE  /\ Len(other[seat]) = Len(dice[seat])
             /\ seat \notin seats => other[seat] = dice[seat]
  <2>1. other[seat] = IF seat \in seats THEN OtherHand(dice[seat], faces) ELSE dice[seat]
    BY DEF OtherHands
  <2> DEFINE hand == dice[seat]
             new == OtherHand(hand, faces)
  <2>2. hand \in Seq(Nat)
    OBVIOUS
  <2> HIDE DEF hand
  <2>3. Len(hand) \in Nat /\ DOMAIN hand = 1..Len(hand)
    BY <2>2
  <2>4. new = [i \in 1..Len(hand) |-> new[i]]
    BY <2>3 DEF OtherHand
  <2> HIDE DEF new
  <2>5. Len(new) = Len(hand)
    BY <2>3, <2>4, ListOf
  <2> QED BY <2>1, <2>5 DEF new, hand
<1> HIDE DEF other
<1>2. c.game = "liarsdice"
  BY DEF LiarsDiceConfigs
<1>3. CASE viewer = PUBLIC
  BY <1>1, <1>2, <1>3 DEF OutcomeView, HiddenInformation, LiarsDiceOutcomeView, other
<1>4. CASE viewer # PUBLIC
  <2>1. viewer \in VALID_SEATS
    BY <1>4 DEF Viewers
  <2> QED BY <1>1, <1>2, <1>4, <2>1
          DEF OutcomeView, HiddenInformation, LiarsDiceOutcomeView, other
<1> QED BY <1>3, <1>4

\* A turn of the round being played, as the viewer sees it.
LEMMA OtherTurnUnseen ==
  ASSUME NEW c \in LiarsDiceConfigs, NEW s \in StatesOf(c), NEW t, Made(c, s, t),
         t.post_state.dice # NoDice, NEW faces, NEW viewer \in Viewers,
         NEW seats \in SUBSET VALID_SEATS, viewer \notin seats
  PROVE  TurnForViewer(c, OtherTurn(t, seats, faces), viewer) = TurnForViewer(c, t, viewer)
<1>1. c.game = "liarsdice" /\ c \in GameConfigs
  BY DEF LiarsDiceConfigs, GameConfigs
<1>2. s \in LiarsDiceStates(c) /\ s \in LiarsDiceFields(c)
  BY <1>1 DEF StatesOf, LiarsDiceStates
<1>3. ~Joint(c, s)
  BY <1>1, GameActing
<1> DEFINE x == t.post_state
<1>4. x \in LiarsDiceFields(c)
  <2>1. x \in StatesOf(c)
    BY <1>1, MadeIs
  <2> QED BY <1>1, <2>1 DEF StatesOf, LiarsDiceStates
<1>5. StateView(c, OtherState(x, seats, faces), viewer) = StateView(c, x, viewer)
  <2> HIDE DEF x
  <2> QED BY <1>4, OtherView DEF x
<1> DEFINE es == t.events
           dealt(e) == "event_type" \in DOMAIN e /\ "seat" \in DOMAIN e
<1>6. \/ /\ t.kind = "chance"
         /\ \E dice \in [VALID_SEATS -> Seq(Nat)] : t.outcome = [dice |-> dice]
      \/ t.kind = "action"
  <2>1. CASE Chance(c, s) /\ \E o \in Outcomes(c, s) : t = ChanceTurn(c, s, o)
    <3>1. PICK o \in LiarsDiceOutcomes(s) : t = ChanceTurn(c, s, o)
      BY <1>1, <2>1 DEF Outcomes
    <3>2. t.kind = "chance" /\ t.outcome = o
      BY <3>1 DEF ChanceTurn, Turn
    <3> QED BY <1>2, <3>2, LiarsDiceOutcomeIs
  <2>2. CASE \E seat, a : t = ActionTurn(c, s, seat, a)
    BY <2>2 DEF ActionTurn, Turn
  <2> QED BY <1>3, <2>1, <2>2 DEF Made, JointValid
<1>7. \A i \in DOMAIN es : es[i].event_type = "DiceDealt" => dealt(es[i])
  <2>1. CASE Chance(c, s) /\ \E o \in Outcomes(c, s) : t = ChanceTurn(c, s, o)
    <3>1. PICK o : t = ChanceTurn(c, s, o)
      BY <2>1
    <3>2. es = <<[event_type |-> "RoundRolled", round_number |-> s.round_number + 1,
                  dice_counts |-> s.dice_counts],
                 [event_type |-> "DiceDealt", seat |-> 0, dice |-> o.dice[0]],
                 [event_type |-> "DiceDealt", seat |-> 1, dice |-> o.dice[1]]>>
      BY <1>1, <3>1 DEF ChanceTurn, Turn, ApplyChance, LiarsDiceApplyChance, Transition
    <3> HIDE DEF es
    <3>3. DOMAIN es = 1..3 /\ es[1].event_type = "RoundRolled" /\ dealt(es[2]) /\ dealt(es[3])
      BY <3>2
    <3> HIDE DEF dealt
    <3> QED BY <3>3
  <2>2. CASE \E seat, a : t = ActionTurn(c, s, seat, a)
    <3>1. PICK seat, a : t = ActionTurn(c, s, seat, a)
      BY <2>2
    <3>2. /\ es = LiarsDiceApply(s, seat, a).events
          /\ x = LiarsDiceApply(s, seat, a).state
      BY <1>1, <3>1 DEF ActionTurn, Turn, Apply
    <3>3. CASE a.type = "bid"
      <4>1. es = <<[event_type |-> "BidMade", seat |-> seat,
                    quantity |-> a.quantity, face |-> a.face]>>
        BY <3>2, <3>3 DEF LiarsDiceApply, MakeBid, Transition
      <4> HIDE DEF es
      <4>2. DOMAIN es = {1} /\ es[1].event_type = "BidMade"
        BY <4>1
      <4> QED BY <4>2
    <3>4. CASE a.type # "bid"
      <4> DEFINE bid   == Standing(s)
                 count == Showing(s.dice, bid.face)
                 loser == IF count >= bid.quantity THEN seat ELSE Other(seat)
                 left  == s.dice_counts[loser] - 1
                 to    == IF left > 0 THEN loser ELSE Other(loser)
                 show  == <<[caller |-> seat, bid |-> bid, dice |-> s.dice, count |-> count,
                             loser |-> loser]>>
                 next  == [s EXCEPT !.dice = NoDice, !.dice_counts[loser] = left, !.bids = <<>>,
                                    !.current_seat = to, !.last_showdown = show]
      <4>1. x = next
        BY <3>2, <3>4 DEF LiarsDiceApply, CallBid, Transition
      <4>2. s = [dice |-> s.dice, dice_counts |-> s.dice_counts, bids |-> s.bids,
                 current_seat |-> s.current_seat, round_number |-> s.round_number,
                 faces |-> s.faces, last_showdown |-> s.last_showdown]
        BY <1>2 DEF LiarsDiceFields
      <4> HIDE DEF left, to, show, loser, x
      <4>3. x.dice = NoDice
        BY <4>1, <4>2
      <4> QED BY <4>3 DEF x
    <3> QED BY <3>3, <3>4
  <2> QED BY <1>3, <2>1, <2>2 DEF Made, JointValid
<1>8. t = [kind |-> t.kind, seat |-> t.seat, action |-> t.action, actions |-> t.actions,
           outcome |-> t.outcome, events |-> t.events, result |-> t.result,
           post_state |-> t.post_state]
  BY DEF Made, ChanceTurn, ActionTurn, RoundTurn, Turn
<1>9. FilterEvents(DumpEvents(OtherEvents(es, seats, faces)), viewer)
        = FilterEvents(DumpEvents(es), viewer)
  <2> HIDE DEF es
  <2> QED BY <1>7, OtherEventsUnseen
<1> DEFINE outcome == IF t.kind = "chance"
                      THEN [dice |-> OtherHands(t.outcome.dice, seats, faces)] ELSE t.outcome
           OutcomeFor(o) == IF t.kind = "chance" THEN OutcomeView(c, o, viewer) ELSE o
<1>10. OutcomeFor(outcome) = OutcomeFor(t.outcome)
  <2>1. CASE t.kind = "chance"
    <3>1. PICK dice \in [VALID_SEATS -> Seq(Nat)] : t.outcome = [dice |-> dice]
      BY <1>6, <2>1
    <3>2. outcome = [dice |-> OtherHands(dice, seats, faces)]
      BY <2>1, <3>1
    <3> HIDE DEF outcome
    <3> QED BY <2>1, <3>1, <3>2, OtherOutcomeView
  <2>2. CASE t.kind # "chance"
    BY <2>2
  <2> QED BY <2>1, <2>2
<1> DEFINE u == OtherTurn(t, seats, faces)
           others == OtherEvents(es, seats, faces)
           y == OtherState(x, seats, faces)
<1>11. u = [kind |-> t.kind, seat |-> t.seat, action |-> t.action, actions |-> t.actions,
            outcome |-> outcome, events |-> others, result |-> t.result, post_state |-> y]
  <2>1. u = [t EXCEPT !.events = others, !.outcome = outcome, !.post_state = y]
    BY DEF OtherTurn
  <2> HIDE DEF others, outcome, y, u
  <2> QED BY <1>8, <2>1
<1>12. /\ u.kind = t.kind /\ u.outcome = outcome /\ u.events = others /\ u.post_state = y
  <2> HIDE DEF others, outcome, y, u
  <2> QED BY <1>11
<1> DEFINE View(o, e, p) ==
             [kind |-> t.kind, seat |-> t.seat, action |-> t.action, actions |-> t.actions,
              outcome |-> OutcomeFor(o), events |-> FilterEvents(DumpEvents(e), viewer),
              result |-> t.result, post_state |-> StateView(c, p, viewer)]
<1>13. TurnForViewer(c, t, viewer) = View(t.outcome, es, x)
  <2>1. TurnForViewer(c, t, viewer)
          = [t EXCEPT !.outcome = OutcomeFor(t.outcome),
                      !.events = FilterEvents(DumpEvents(t.events), viewer),
                      !.post_state = StateView(c, t.post_state, viewer)]
    BY DEF TurnForViewer
  <2> DEFINE a == OutcomeFor(t.outcome)
             b == FilterEvents(DumpEvents(t.events), viewer)
             d == StateView(c, t.post_state, viewer)
             w == TurnForViewer(c, t, viewer)
  <2>2. w = [t EXCEPT !.outcome = a, !.events = b, !.post_state = d]
    BY <2>1
  <2> HIDE DEF a, b, d, w
  <2>3. w = [kind |-> t.kind, seat |-> t.seat, action |-> t.action, actions |-> t.actions,
             outcome |-> a, events |-> b, result |-> t.result, post_state |-> d]
    BY <1>8, <2>2
  <2> QED BY <2>3 DEF a, b, d, w
<1>14. TurnForViewer(c, u, viewer) = View(outcome, others, y)
  <2>1. TurnForViewer(c, u, viewer)
          = [u EXCEPT !.outcome = IF u.kind = "chance" THEN OutcomeView(c, u.outcome, viewer)
                                  ELSE u.outcome,
                      !.events = FilterEvents(DumpEvents(u.events), viewer),
                      !.post_state = StateView(c, u.post_state, viewer)]
    BY DEF TurnForViewer
  <2> HIDE DEF others, outcome, y, u
  <2> QED BY <1>11, <1>12, <2>1
<1> HIDE DEF outcome, OutcomeFor, others, y, es, x
<1>15. View(outcome, others, y) = View(t.outcome, es, x)
  BY <1>5, <1>9, <1>10 DEF others, y
<1> QED BY <1>13, <1>14, <1>15

----------------------------------------------------------------------------
(* The session reimagined, part by part *)

OtherNote(e, seats) ==
  IF SeatPrivate(e) /\ e.seat \in seats THEN [e EXCEPT !.says = Text(<<0>>)]
  ELSE IF e.event_type = "MatchAborted" /\ e.abort.cause # NoData
       THEN [e EXCEPT !.abort.cause = Text(<<0>>)] ELSE e

OtherNotes(es, seats) == [i \in DOMAIN es |-> OtherNote(es[i], seats)]

OtherAbort(a) == IF a # NoData /\ a.cause # NoData THEN [a EXCEPT !.cause = Text(<<0>>)] ELSE a

OtherTurns(turns, seats, faces, dealt) ==
  [i \in DOMAIN turns |-> IF i > dealt THEN OtherTurn(turns[i], seats, faces) ELSE turns[i]]

OtherMatch(m, seats, dealt) ==
  [m EXCEPT !.state = OtherState(@, seats, m.state.faces),
            !.turns = OtherTurns(@, seats, m.state.faces, dealt)]

LiveRounds(m) ==
  Cardinality({k \in DOMAIN m.turns : m.turns[k].post_state.round_number < m.state.round_number})

Live == HiddenInformation(config) /\ TheMatch.state.dice # NoDice

SessionOf(m, es, a) ==
  [config |-> config, lifecycle |-> lifecycle, match |-> <<m>>, events |-> es, abort |-> a]

\* An event that changes is of a note, or an abort with a cause; it stays one.
NoteChanged(e, seats, o) ==
  \/ o = e
  \/ /\ SeatPrivate(e) /\ e.seat \in seats
     /\ o.event_type = e.event_type /\ o.seat = e.seat
     /\ \E says : o = [event_type |-> e.event_type, seat |-> e.seat, says |-> says]
  \/ \E reason, cause :
        /\ e = MatchAborted([reason |-> reason, cause |-> cause])
        /\ o = MatchAborted([reason |-> reason, cause |-> Text(<<0>>)])

\* What replacing a note changes of it.
LEMMA OtherNoteIs ==
  \A e, seats : EventForm(e) => NoteChanged(e, seats, OtherNote(e, seats))
<1> SUFFICES ASSUME NEW e, EventForm(e), NEW seats, NEW o, o = OtherNote(e, seats)
             PROVE  NoteChanged(e, seats, o)
  OBVIOUS
<1>1. CASE SeatPrivate(e) /\ e.seat \in seats
  <2>1. PICK type, seat, says : e = [event_type |-> type, seat |-> seat, says |-> says]
    BY <1>1 DEF EventForm
  <2>2. o = [e EXCEPT !.says = Text(<<0>>)]
    BY <1>1 DEF OtherNote
  <2>3. o = [event_type |-> type, seat |-> seat, says |-> Text(<<0>>)]
    BY <2>1, <2>2
  <2>4. e.event_type = type /\ e.seat = seat /\ o.event_type = type /\ o.seat = seat
    BY <2>1, <2>3
  <2>5. \E x : o = [event_type |-> e.event_type, seat |-> e.seat, says |-> x]
    BY <2>3, <2>4
  <2> QED BY <1>1, <2>4, <2>5 DEF NoteChanged
<1>2. CASE ~(SeatPrivate(e) /\ e.seat \in seats) /\ e.event_type = "MatchAborted"
  <2>1. PICK reason, cause : e = MatchAborted([reason |-> reason, cause |-> cause])
    BY <1>2 DEF EventForm
  <2>2. o = IF e.abort.cause # NoData THEN [e EXCEPT !.abort.cause = Text(<<0>>)] ELSE e
    BY <1>2 DEF OtherNote
  <2>3. CASE e.abort.cause = NoData
    BY <2>2, <2>3 DEF NoteChanged
  <2>4. CASE e.abort.cause # NoData
    <3>1. o = [e EXCEPT !.abort.cause = Text(<<0>>)]
      BY <2>2, <2>4
    <3>2. o = MatchAborted([reason |-> reason, cause |-> Text(<<0>>)])
      BY <2>1, <3>1 DEF MatchAborted
    <3> QED BY <2>1, <3>2 DEF NoteChanged
  <2> QED BY <2>3, <2>4
<1>3. CASE ~(SeatPrivate(e) /\ e.seat \in seats) /\ e.event_type # "MatchAborted"
  BY <1>3 DEF OtherNote, NoteChanged
<1> QED BY <1>1, <1>2, <1>3

\* A replaced note is still formed.
LEMMA OtherNoteForm ==
  \A e, seats : EventForm(e) => EventForm(OtherNote(e, seats))
<1> SUFFICES ASSUME NEW e, EventForm(e), NEW seats PROVE EventForm(OtherNote(e, seats))
  OBVIOUS
<1> DEFINE o == OtherNote(e, seats)
<1> HIDE DEF o
<1>1. CASE o = e
  BY <1>1 DEF o
<1>2. CASE /\ SeatPrivate(e) /\ o.event_type = e.event_type
           /\ \E says : o = [event_type |-> e.event_type, seat |-> e.seat, says |-> says]
  <2>1. o.event_type # "MatchAborted"
    BY <1>2 DEF SeatPrivate
  <2>2. EventForm(o)
    BY <1>2, <2>1 DEF EventForm
  <2> QED BY <2>2 DEF o
<1>3. CASE \E reason : o = MatchAborted([reason |-> reason, cause |-> Text(<<0>>)])
  BY <1>3, FormsOf DEF o
<1>4. NoteChanged(e, seats, o)
  BY OtherNoteIs DEF o
<1> QED BY <1>1, <1>2, <1>3, <1>4 DEF NoteChanged

\* Outside the full view, the note is not shown and the abort has no cause.
LEMMA OtherNoteUnseen ==
  ASSUME NEW e, EventForm(e), NEW seats, NEW viewer, viewer \notin seats,
         NEW view \in {"public", "seat"}, NEW o, o = OtherNote(e, seats)
  PROVE  When(RuntimeEventVisible(o, view, viewer), DumpRuntimeEvent(o, view))
           = When(RuntimeEventVisible(e, view, viewer), DumpRuntimeEvent(e, view))
<1>1. CASE o = e
  BY <1>1
<1>2. CASE /\ SeatPrivate(e) /\ e.seat \in seats
           /\ o.event_type = e.event_type /\ o.seat = e.seat
  <2>1. ~RuntimeEventVisible(o, view, viewer) /\ ~RuntimeEventVisible(e, view, viewer)
    BY <1>2 DEF RuntimeEventVisible, SeatPrivate
  <2> QED BY <2>1 DEF When
<1>3. CASE \E reason, cause :
               /\ e = MatchAborted([reason |-> reason, cause |-> cause])
               /\ o = MatchAborted([reason |-> reason, cause |-> Text(<<0>>)])
  <2>1. PICK reason, cause :
               /\ e = MatchAborted([reason |-> reason, cause |-> cause])
               /\ o = MatchAborted([reason |-> reason, cause |-> Text(<<0>>)])
    BY <1>3
  <2>2. ASSUME NEW x
        PROVE  LET d == MatchAborted([reason |-> reason, cause |-> x])
               IN /\ RuntimeEventVisible(d, view, viewer)
                  /\ DumpRuntimeEvent(d, view)
                       = MatchAborted([reason |-> reason, cause |-> NoData])
    <3> DEFINE a == [reason |-> reason, cause |-> x]
               d == MatchAborted(a)
    <3>1. d.event_type = "MatchAborted" /\ d.abort = a
      BY DEF MatchAborted
    <3>2. RuntimeEventVisible(d, view, viewer)
      BY <3>1 DEF RuntimeEventVisible, SeatPrivate
    <3>3. a # NoData
      <4>1. "reason" \in DOMAIN a /\ "reason" \notin DOMAIN NoData
        BY DEF NoData
      <4> HIDE DEF a
      <4> QED BY <4>1
    <3>4. DumpAbort(a, view) = [reason |-> reason, cause |-> NoData]
      BY <3>3 DEF DumpAbort
    <3>5. DumpRuntimeEvent(d, view) = [d EXCEPT !.abort = DumpAbort(d.abort, view)]
      BY <3>1 DEF DumpRuntimeEvent
    <3>6. d = [event_type |-> "MatchAborted", abort |-> a]
      BY DEF MatchAborted
    <3> HIDE DEF a, d
    <3>7. DumpRuntimeEvent(d, view) = [event_type |-> "MatchAborted", abort |-> DumpAbort(a, view)]
      BY <3>1, <3>5, <3>6
    <3>8. DumpRuntimeEvent(d, view) = MatchAborted([reason |-> reason, cause |-> NoData])
      BY <3>4, <3>7 DEF MatchAborted
    <3> QED BY <3>2, <3>8 DEF a, d
  <2> QED BY <2>1, <2>2 DEF When
<1>4. NoteChanged(e, seats, o)
  BY OtherNoteIs
<1> QED BY <1>1, <1>2, <1>3, <1>4 DEF NoteChanged

\* Outside the full view, no viewer sees the notes of other seats.
LEMMA OtherNotesUnseen ==
  ASSUME NEW es, Forms(es), NEW seats, NEW viewer, viewer \notin seats,
         NEW view \in {"public", "seat"}
  PROVE  RuntimeEvents(OtherNotes(es, seats), view, viewer) = RuntimeEvents(es, view, viewer)
<1> DEFINE Seen(e) == When(RuntimeEventVisible(e, view, viewer), DumpRuntimeEvent(e, view))
           other == OtherNotes(es, seats)
<1>1. DOMAIN es = 1..Len(es)
  <2>1. PICK T : es \in Seq(T)
    BY DEF Forms, IsSeq
  <2> QED BY <2>1
<1>2. ASSUME NEW i \in DOMAIN es PROVE Seen(other[i]) = Seen(es[i])
  <2>1. other[i] = OtherNote(es[i], seats) /\ EventForm(es[i])
    BY <1>1 DEF OtherNotes, Forms
  <2> QED BY <2>1, OtherNoteUnseen
<1>3. DOMAIN other = DOMAIN es
  BY DEF OtherNotes
<1>4. \A s : RuntimeEvents(s, view, viewer) = FlattenSeq([i \in DOMAIN s |-> Seen(s[i])])
  BY DEF RuntimeEvents, Listed
<1> HIDE DEF Seen, other
<1>5. [i \in DOMAIN other |-> Seen(other[i])] = [i \in DOMAIN es |-> Seen(es[i])]
  BY <1>2, <1>3
<1> QED BY <1>4, <1>5 DEF other

\* The match with other hands in its live round, and its transcript.
LEMMA OtherMatchIs ==
  ASSUME NEW c \in LiarsDiceConfigs, NEW m, Played(c, m), NEW seats, NEW dealt,
         NEW x, x = OtherMatch(m, seats, dealt)
  PROVE  /\ x.config = c /\ x.initial_state = Initial(c)
         /\ x.state = OtherState(m.state, seats, m.state.faces)
         /\ x.turns = OtherTurns(m.turns, seats, m.state.faces, dealt)
         /\ DOMAIN x.turns = DOMAIN m.turns /\ Len(x.turns) = Len(m.turns)
<1>1. /\ m.config = c /\ m.initial_state = Initial(c)
      /\ Len(m.turns) \in Nat /\ DOMAIN m.turns = 1..Len(m.turns)
      /\ m = [config |-> m.config, initial_state |-> m.initial_state, state |-> m.state,
              turns |-> m.turns]
  BY MatchIs DEF GameConfigs
<1> DEFINE s == OtherState(m.state, seats, m.state.faces)
           turns == OtherTurns(m.turns, seats, m.state.faces, dealt)
<1>2. x = [m EXCEPT !.state = s, !.turns = turns]
  BY DEF OtherMatch
<1>3. turns = [i \in 1..Len(m.turns) |-> turns[i]]
  BY <1>1 DEF OtherTurns
<1> HIDE DEF s, turns
<1>4. x.config = c /\ x.initial_state = Initial(c) /\ x.state = s /\ x.turns = turns
  BY <1>1, <1>2
<1>5. Len(turns) = Len(m.turns) /\ DOMAIN turns = 1..Len(m.turns)
  BY <1>1, <1>3, ListOf
<1> QED BY <1>1, <1>4, <1>5 DEF s, turns

\* A viewer's transcript is the same with the other seats' live hands
\* replaced.
LEMMA OtherTranscript ==
  ASSUME NEW c \in LiarsDiceConfigs, NEW m, Played(c, m), m.state.dice # NoDice,
         NEW viewer \in Viewers, NEW seats \in SUBSET VALID_SEATS, viewer \notin seats,
         NEW x, x = OtherMatch(m, seats, LiveRounds(m))
  PROVE  MatchTranscript(x, viewer) = MatchTranscript(m, viewer)
<1> DEFINE dealt == LiveRounds(m)
           faces == m.state.faces
           v == TranscriptView(c, viewer)
           initial == StateView(c, Initial(c), viewer)
           Seen(turns) == [i \in DOMAIN turns |-> TurnForViewer(c, turns[i], viewer)]
           record(turns) ==
             [game_id |-> c.game, schema_version |-> MATCH_TRANSCRIPT_SCHEMA_VERSION, config |-> c,
              initial_state |-> initial, turns |-> turns, view |-> v.view,
              viewer_seat |-> v.viewer_seat]
<1>1. /\ x.config = c /\ x.initial_state = Initial(c)
      /\ x.turns = OtherTurns(m.turns, seats, faces, dealt)
      /\ DOMAIN x.turns = DOMAIN m.turns
  BY OtherMatchIs
<1>2. /\ c \in GameConfigs /\ c.game = "liarsdice" /\ m.config = c /\ m.initial_state = Initial(c)
      /\ DOMAIN m.turns = 1..Len(m.turns)
  BY MatchIs DEF GameConfigs, LiarsDiceConfigs
<1>3. v.view # "full"
  BY <1>2, ViewIs DEF HiddenInformation
<1>4. ASSUME NEW i \in DOMAIN m.turns
      PROVE  TurnForViewer(c, x.turns[i], viewer) = TurnForViewer(c, m.turns[i], viewer)
  <2>1. x.turns[i] = IF i > dealt THEN OtherTurn(m.turns[i], seats, faces) ELSE m.turns[i]
    BY <1>1 DEF OtherTurns
  <2>2. CASE i > dealt
    <3> DEFINE t == m.turns[i]
               s == StateAfter(c, m.turns, i - 1)
    <3>1. t.post_state.dice # NoDice
      BY <2>2, LiveRound DEF LiveRounds
    <3>2. s \in StatesOf(c) /\ Made(c, s, t)
      BY <1>2, TurnsMade
    <3> HIDE DEF t, s
    <3>3. TurnForViewer(c, OtherTurn(t, seats, faces), viewer) = TurnForViewer(c, t, viewer)
      BY <3>1, <3>2, OtherTurnUnseen
    <3> QED BY <2>1, <2>2, <3>3 DEF t
  <2>3. CASE ~(i > dealt)
    BY <2>1, <2>3
  <2> QED BY <2>2, <2>3
<1>5. Seen(x.turns) = Seen(m.turns)
  BY <1>1, <1>4
<1>6. ASSUME NEW y, y.config = c, NEW w, w = MatchTranscript(y, viewer)
      PROVE  w = record(Seen(y.turns))
  <2> DEFINE full == FullTranscript(y)
             turns == Seen(y.turns)
             w1 == [full EXCEPT !.initial_state = initial]
             w2 == [w1 EXCEPT !.turns = turns]
             w3 == [w2 EXCEPT !.view = v.view]
  <2>1. w = [w3 EXCEPT !.viewer_seat = v.viewer_seat]
    BY <1>3, <1>6 DEF MatchTranscript
  <2>2. \E a, b : full = [game_id |-> c.game, schema_version |-> MATCH_TRANSCRIPT_SCHEMA_VERSION,
                          config |-> c, initial_state |-> a, turns |-> b, view |-> "full",
                          viewer_seat |-> NoSeat]
    BY <1>6 DEF FullTranscript
  <2> HIDE DEF full, turns, v, initial
  <2>3. w = record(turns)
    <3>1. w1 = [full EXCEPT !.initial_state = initial]
      OBVIOUS
    <3>6. w2 = [w1 EXCEPT !.turns = turns]
      OBVIOUS
    <3>7. w3 = [w2 EXCEPT !.view = v.view]
      OBVIOUS
    <3> HIDE DEF w1, w2, w3
    <3> DEFINE fields(a, b, view, seat) ==
                 [game_id |-> c.game, schema_version |-> MATCH_TRANSCRIPT_SCHEMA_VERSION,
                  config |-> c, initial_state |-> a, turns |-> b, view |-> view,
                  viewer_seat |-> seat]
    <3>2. PICK a, b : full = fields(a, b, "full", NoSeat)
      BY <2>2
    <3>3. w1 = fields(initial, b, "full", NoSeat)
      BY <3>1, <3>2
    <3>4. w2 = fields(initial, turns, "full", NoSeat)
      BY <3>3, <3>6
    <3>5. w3 = fields(initial, turns, v.view, NoSeat)
      BY <3>4, <3>7
    <3> QED BY <2>1, <3>5
  <2> QED BY <2>3 DEF turns
<1> HIDE DEF record, Seen
<1>7. /\ MatchTranscript(x, viewer) = record(Seen(x.turns))
      /\ MatchTranscript(m, viewer) = record(Seen(m.turns))
  BY <1>1, <1>2, <1>6
<1> QED BY <1>5, <1>7

\* The status and the transcript of a session like this one.
LEMMA DumpsOf ==
  ASSUME NEW m, m.config = config, NEW es, NEW a, NEW viewer,
         NEW v, v = TranscriptView(config, viewer), NEW x, x = SessionOf(m, es, a)
  PROVE  /\ DumpStatus(x, viewer)
              = [schema_version |-> 4, lifecycle |-> lifecycle, current_seat |-> CurrentSeat(m),
                 turn_count |-> Len(m.turns), result |-> Result(config, m.state),
                 latest |-> IF viewer = FULL_VIEW THEN <<m.state>>
                            ELSE <<StateView(config, m.state, viewer)>>,
                 abort |-> DumpAbort(a, v.view), view |-> v.view,
                 viewer_seat |-> v.viewer_seat]
         /\ DumpRuntime(x, viewer)
              = [schema_version |-> 4, game_id |-> config.game, lifecycle |-> lifecycle,
                 events |-> RuntimeEvents(es, v.view, viewer), abort |-> DumpAbort(a, v.view),
                 match_transcript |-> <<MatchTranscript(m, viewer)>>,
                 view |-> v.view, viewer_seat |-> v.viewer_seat]
<1>1. /\ x.match = <<m>> /\ x.match # <<>> /\ x.match[1] = m /\ x.config = config
      /\ x.lifecycle = lifecycle /\ x.abort = a /\ x.events = es
  BY DEF SessionOf
<1>2. DumpStatus(x, viewer)
              = [schema_version |-> 4, lifecycle |-> lifecycle, current_seat |-> CurrentSeat(m),
                 turn_count |-> Len(m.turns), result |-> Result(config, m.state),
                 latest |-> IF viewer = FULL_VIEW THEN <<m.state>>
                            ELSE <<StateView(config, m.state, viewer)>>,
                 abort |-> DumpAbort(a, v.view), view |-> v.view,
                 viewer_seat |-> v.viewer_seat]
  BY <1>1 DEF DumpStatus, RUNTIME_TRANSCRIPT_SCHEMA_VERSION
<1>3. DumpRuntime(x, viewer)
              = [schema_version |-> 4, game_id |-> config.game, lifecycle |-> lifecycle,
                 events |-> RuntimeEvents(es, v.view, viewer), abort |-> DumpAbort(a, v.view),
                 match_transcript |-> <<MatchTranscript(m, viewer)>>,
                 view |-> v.view, viewer_seat |-> v.viewer_seat]
  BY <1>1 DEF DumpRuntime, RUNTIME_TRANSCRIPT_SCHEMA_VERSION
<1> QED BY <1>2, <1>3

\* A session whose match is changed.
LEMMA OneChanged ==
  \A m, es, a, n : [SessionOf(m, es, a) EXCEPT !.match[1] = n] = SessionOf(n, es, a)
<1> SUFFICES ASSUME NEW m, NEW es, NEW a, NEW n
             PROVE  [SessionOf(m, es, a) EXCEPT !.match[1] = n] = SessionOf(n, es, a)
  OBVIOUS
<1> DEFINE session == SessionOf(m, es, a)
<1>1. /\ session = [config |-> config, lifecycle |-> lifecycle, match |-> <<m>>, events |-> es,
                    abort |-> a]
      /\ session.match[1] = m /\ session.match = <<m>>
  BY DEF SessionOf
<1> HIDE DEF session
<1>2. [<<m>> EXCEPT ![1] = n] = <<n>>
  OBVIOUS
<1>3. [session EXCEPT !.match = <<n>>] = SessionOf(n, es, a)
  BY <1>1 DEF SessionOf
<1>4. [session EXCEPT !.match[1] = n] = [session EXCEPT !.match = [session.match EXCEPT ![1] = n]]
  OBVIOUS
<1> QED BY <1>1, <1>2, <1>3, <1>4 DEF session

\* The session itself, and the session reimagined.
LEMMA ReimaginedIs ==
  ASSUME SessionOk, Started, NEW seats
  PROVE  /\ Session = SessionOf(TheMatch, events, abort)
         /\ Reimagined(Session, seats)
              = SessionOf(IF Live THEN OtherMatch(TheMatch, seats, LiveRounds(TheMatch))
                          ELSE TheMatch,
                          OtherNotes(events, seats), OtherAbort(abort))
<1> DEFINE m == TheMatch
           c == config
           es == OtherNotes(events, seats)
           a == OtherAbort(abort)
           told == SessionOf(m, es, a)
           faces == m.state.faces
           dealt == LiveRounds(m)
           other == OtherMatch(m, seats, dealt)
<1>1. /\ match = <<m>> /\ c \in GameConfigs
      /\ m = [config |-> m.config, initial_state |-> m.initial_state, state |-> m.state,
              turns |-> m.turns]
      /\ m.state \in StatesOf(c)
  BY StartedIs, MatchIs
<1>2. Session = SessionOf(m, events, abort) /\ Session.match[1] = m /\ Session.config = c
  BY <1>1 DEF Session, SessionOf
<1>3. told = [Session EXCEPT !.events = es, !.abort = a]
  <2> DEFINE session == Session
             new == [session EXCEPT !.events = es, !.abort = a]
  <2>1. session = [config |-> config, lifecycle |-> lifecycle, match |-> <<m>>,
                   events |-> events, abort |-> abort]
    BY <1>2 DEF SessionOf
  <2> DEFINE first == [session EXCEPT !.events = es]
  <2>2. new = [first EXCEPT !.abort = a]
    OBVIOUS
  <2> HIDE DEF es, a, m, session
  <2>3. first = [config |-> config, lifecycle |-> lifecycle, match |-> <<m>>,
                 events |-> es, abort |-> abort]
    BY <2>1
  <2> HIDE DEF first, new
  <2>4. new = [config |-> config, lifecycle |-> lifecycle, match |-> <<m>>,
               events |-> es, abort |-> a]
    BY <2>2, <2>3
  <2> QED BY <2>4 DEF SessionOf, session, new
<1>4. Reimagined(Session, seats)
        = IF ~Live THEN told
          ELSE [told EXCEPT
                  !.match[1].state.dice = OtherHands(@, seats, faces),
                  !.match[1].turns = OtherTurns(@, seats, faces, dealt)]
  <2>1. Session.events = events /\ Session.abort = abort
    BY DEF Session
  <2>2. Reimagined(Session, seats)
        = LET x == Session.match[1]
              new == [Session EXCEPT !.events = OtherNotes(@, seats), !.abort = OtherAbort(@)]
          IN IF ~(HiddenInformation(Session.config) /\ x.state.dice # NoDice) THEN new
             ELSE [new EXCEPT
                     !.match[1].state.dice = OtherHands(@, seats, x.state.faces),
                     !.match[1].turns = OtherTurns(@, seats, x.state.faces, LiveRounds(x))]
    BY DEF Reimagined, OtherNotes, OtherNote, OtherAbort, OtherHands, OtherTurns, OtherTurn,
           OtherState, OtherEvents, OtherEvent, LiveRounds
  <2>3. [Session EXCEPT !.events = OtherNotes(@, seats), !.abort = OtherAbort(@)] = told
    <3> DEFINE session == Session
    <3>1. session.events = events /\ session.abort = abort
      BY <2>1
    <3>2. [session EXCEPT !.events = OtherNotes(@, seats), !.abort = OtherAbort(@)]
            = [session EXCEPT !.events = OtherNotes(session.events, seats),
                              !.abort = OtherAbort(session.abort)]
      <4> HIDE DEF session
      <4> QED OBVIOUS
    <3> HIDE DEF told
    <3> QED BY <1>3, <3>1, <3>2
  <2> HIDE DEF told
  <2> QED BY <1>2, <2>2, <2>3 DEF Live
<1>5. CASE ~Live
  BY <1>2, <1>4, <1>5
<1>6. CASE Live
  <2> DEFINE w == [told EXCEPT
                  !.match[1].state.dice = OtherHands(@, seats, faces),
                  !.match[1].turns = OtherTurns(@, seats, faces, dealt)]
  <2> DEFINE x == OtherHands(m.state.dice, seats, faces)
             y == OtherTurns(m.turns, seats, faces, dealt)
             n == [m EXCEPT !.state.dice = x]
             first == [told EXCEPT !.match[1].state.dice = x]
             second == [first EXCEPT !.match[1].turns = y]
  <2>1. w = SessionOf(other, es, a)
    <3>1. told.match[1] = m
      BY DEF SessionOf
    <3>2. [told EXCEPT !.match[1].state.dice = OtherHands(@, seats, faces)] = first
      <4> HIDE DEF told, m, faces
      <4> QED BY <3>1
    <3>3. first = SessionOf(n, es, a)
      <4>1. [told EXCEPT !.match[1] = n] = SessionOf(n, es, a)
        <5> HIDE DEF es, a, m, n
        <5> QED BY OneChanged
      <4>2. n = [m EXCEPT !.state.dice = x]
        OBVIOUS
      <4> HIDE DEF m, x, told
      <4>3. [told EXCEPT !.match[1].state.dice = x] = [told EXCEPT !.match[1] = n]
        BY <3>1
      <4> QED BY <4>1, <4>3
    <3>4. first.match[1] = n /\ n.turns = m.turns
      <4>1. first.match[1] = n
        BY <3>3 DEF SessionOf
      <4>2. n.turns = m.turns
        <5> HIDE DEF x, m
        <5> QED BY <1>1
      <4> QED BY <4>1, <4>2
    <3>5. w = [first EXCEPT !.match[1].turns = OtherTurns(@, seats, faces, dealt)]
      <4> HIDE DEF told, m, faces, dealt, first
      <4> QED BY <3>2
    <3>6. w = second
      <4> HIDE DEF first, m, faces, dealt, n, w
      <4> QED BY <3>4, <3>5
    <3>7. [n EXCEPT !.turns = y] = other
      <4>1. OtherState(m.state, seats, faces) = [m.state EXCEPT !.dice = x]
        BY DEF OtherState
      <4> DEFINE s == OtherState(m.state, seats, faces)
                 fields(p, q) == [config |-> m.config, initial_state |-> m.initial_state,
                                  state |-> p, turns |-> q]
      <4>2. n = [m EXCEPT !.state = s]
        BY <4>1
      <4>3. other = [m EXCEPT !.state = s, !.turns = y]
        BY DEF OtherMatch
      <4>4. m = fields(m.state, m.turns)
        BY <1>1
      <4> HIDE DEF s, y, n, other, m
      <4>5. n = fields(s, m.turns)
        BY <4>2, <4>4
      <4>6. other = fields(s, y)
        BY <4>3, <4>4
      <4>7. [n EXCEPT !.turns = y] = fields(s, y)
        BY <4>5
      <4> QED BY <4>6, <4>7
    <3>8. second = SessionOf(other, es, a)
      <4>1. [first EXCEPT !.match[1] = other] = SessionOf(other, es, a)
        <5> HIDE DEF first, other, n, es, a
        <5> QED BY <3>3, OneChanged
      <4> HIDE DEF first, other, n, y
      <4>2. [first EXCEPT !.match[1].turns = y] = [first EXCEPT !.match[1] = other]
        BY <3>4, <3>7
      <4> QED BY <4>1, <4>2
    <3> QED BY <3>6, <3>8
  <2> QED BY <1>2, <1>4, <1>6, <2>1
<1> QED BY <1>5, <1>6

\* What is left of an abort in a view does not say why.
LEMMA OtherAbortUnseen ==
  ASSUME SessionOk, NEW view, view # "full"
  PROVE  DumpAbort(OtherAbort(abort), view) = DumpAbort(abort, view)
<1>1. CASE abort = NoData
  BY <1>1 DEF OtherAbort
<1>2. CASE abort = [reason |-> abort.reason, cause |-> abort.cause]
  <2>1. PICK reason, cause : abort = [reason |-> reason, cause |-> cause]
    BY <1>2
  <2>2. \A x : /\ [reason |-> reason, cause |-> x] # NoData
               /\ [[reason |-> reason, cause |-> x] EXCEPT !.cause = NoData]
                    = [reason |-> reason, cause |-> NoData]
    <3> SUFFICES ASSUME NEW x
                 PROVE  /\ [reason |-> reason, cause |-> x] # NoData
                        /\ [[reason |-> reason, cause |-> x] EXCEPT !.cause = NoData]
                             = [reason |-> reason, cause |-> NoData]
      OBVIOUS
    <3> DEFINE a == [reason |-> reason, cause |-> x]
    <3>1. "reason" \in DOMAIN a /\ "reason" \notin DOMAIN NoData
      BY DEF NoData
    <3>2. a # NoData
      <4> HIDE DEF a
      <4> QED BY <3>1
    <3> QED BY <3>2
  <2>3. \A x : DumpAbort([reason |-> reason, cause |-> x], view)
                 = [reason |-> reason, cause |-> NoData]
    BY <2>2 DEF DumpAbort
  <2>4. \E x : OtherAbort(abort) = [reason |-> reason, cause |-> x]
    BY <2>1 DEF OtherAbort
  <2> QED BY <2>1, <2>3, <2>4
<1> QED BY <1>1, <1>2 DEF SessionOk, AbortOk

\* Whatever the match with other hands shows, the match itself shows.
LEMMA OtherMatchUnseen ==
  ASSUME NEW c \in LiarsDiceConfigs, NEW m, Played(c, m), m.state.dice # NoDice,
         NEW viewer \in Viewers, NEW seats \in SUBSET VALID_SEATS, viewer \notin seats,
         NEW n, n = OtherMatch(m, seats, LiveRounds(m))
  PROVE  /\ n.config = c /\ CurrentSeat(n) = CurrentSeat(m) /\ Len(n.turns) = Len(m.turns)
         /\ Result(c, n.state) = Result(c, m.state)
         /\ StateView(c, n.state, viewer) = StateView(c, m.state, viewer)
         /\ MatchTranscript(n, viewer) = MatchTranscript(m, viewer)
         /\ Legal(c, n.state, viewer) = Legal(c, m.state, viewer)
<1>1. /\ n.config = c /\ n.state = OtherState(m.state, seats, m.state.faces)
      /\ Len(n.turns) = Len(m.turns)
  BY OtherMatchIs
<1>2. m.state \in LiarsDiceFields(c) /\ m.config = c
  <2>1. c \in GameConfigs /\ c.game = "liarsdice"
    BY DEF GameConfigs, LiarsDiceConfigs
  <2>2. m.state \in StatesOf(c) /\ m.config = c
    BY <2>1, MatchIs
  <2> QED BY <2>1, <2>2 DEF StatesOf, LiarsDiceStates
<1> DEFINE s == m.state
           x == n.state
<1>3. /\ StateView(c, x, viewer) = StateView(c, s, viewer)
      /\ Result(c, x) = Result(c, s) /\ Acting(c, x) = Acting(c, s)
      /\ \A seat : Legal(c, x, seat) = Legal(c, s, seat)
  <2>1. x = OtherState(s, seats, s.faces) /\ s \in LiarsDiceFields(c) /\ s.dice # NoDice
    BY <1>1, <1>2
  <2> HIDE DEF s, x
  <2> QED BY <2>1, OtherView
<1>4. CurrentSeat(n) = CurrentSeat(m)
  BY <1>1, <1>2, <1>3 DEF CurrentSeat
<1>5. MatchTranscript(n, viewer) = MatchTranscript(m, viewer)
  BY OtherTranscript
<1> QED BY <1>1, <1>3, <1>4, <1>5

\* What a viewer is sent does not depend on the other seats' hands.
LEMMA SecretView ==
  ASSUME SessionOk, Forms(events), Started, HiddenInformation(config),
         NEW viewer \in Viewers, NEW other, other = Reimagined(Session, VALID_SEATS \ {viewer})
  PROVE  /\ DumpStatus(other, viewer) = DumpStatus(Session, viewer)
         /\ DumpRuntime(other, viewer) = DumpRuntime(Session, viewer)
         /\ Observation(config, other.match[1].state, viewer)
              = Observation(config, TheMatch.state, viewer)
<1> DEFINE seats == VALID_SEATS \ {viewer}
           m == TheMatch
           n == IF Live THEN OtherMatch(m, seats, LiveRounds(m)) ELSE m
           es == OtherNotes(events, seats)
           a == OtherAbort(abort)
           v == TranscriptView(config, viewer)
<1>1. config \in LiarsDiceConfigs /\ Played(config, m) /\ m.config = config
  <2>1. config \in GameConfigs /\ config.game = "liarsdice"
    BY StartedIs DEF HiddenInformation
  <2> QED BY <2>1, StartedIs, GameIs
<1>2. /\ n.config = config /\ CurrentSeat(n) = CurrentSeat(m) /\ Len(n.turns) = Len(m.turns)
      /\ Result(config, n.state) = Result(config, m.state)
      /\ StateView(config, n.state, viewer) = StateView(config, m.state, viewer)
      /\ MatchTranscript(n, viewer) = MatchTranscript(m, viewer)
      /\ Legal(config, n.state, viewer) = Legal(config, m.state, viewer)
  <2>1. CASE Live
    <3>1. m.state.dice # NoDice
      BY <2>1 DEF Live
    <3>2. n = OtherMatch(m, seats, LiveRounds(m))
      BY <2>1
    <3>3. seats \in SUBSET VALID_SEATS /\ viewer \notin seats
      OBVIOUS
    <3> HIDE DEF seats, m, n
    <3> QED BY <1>1, <3>1, <3>2, <3>3, OtherMatchUnseen
  <2>2. CASE ~Live
    BY <1>1, <2>2
  <2> QED BY <2>1, <2>2
<1>3. viewer # FULL_VIEW /\ v.view \in {"public", "seat"}
  BY ViewIs
<1>4. RuntimeEvents(es, v.view, viewer) = RuntimeEvents(events, v.view, viewer)
  BY <1>3, OtherNotesUnseen
<1>5. DumpAbort(a, v.view) = DumpAbort(abort, v.view)
  BY <1>3, OtherAbortUnseen
<1>6. other = SessionOf(n, es, a) /\ Session = SessionOf(m, events, abort)
  BY ReimaginedIs
<1>7. other.match[1] = n
  BY <1>6 DEF SessionOf
<1> HIDE DEF seats, m, n, es, a, v
<1>8. DumpStatus(other, viewer) = DumpStatus(Session, viewer)
  <2>1. DumpStatus(other, viewer)
          = [schema_version |-> 4, lifecycle |-> lifecycle, current_seat |-> CurrentSeat(n),
             turn_count |-> Len(n.turns), result |-> Result(config, n.state),
             latest |-> IF viewer = FULL_VIEW THEN <<n.state>>
                        ELSE <<StateView(config, n.state, viewer)>>,
             abort |-> DumpAbort(a, v.view), view |-> v.view, viewer_seat |-> v.viewer_seat]
    BY <1>2, <1>6, DumpsOf DEF v
  <2>2. DumpStatus(Session, viewer)
          = [schema_version |-> 4, lifecycle |-> lifecycle, current_seat |-> CurrentSeat(m),
             turn_count |-> Len(m.turns), result |-> Result(config, m.state),
             latest |-> IF viewer = FULL_VIEW THEN <<m.state>>
                        ELSE <<StateView(config, m.state, viewer)>>,
             abort |-> DumpAbort(abort, v.view), view |-> v.view, viewer_seat |-> v.viewer_seat]
    BY <1>1, <1>6, DumpsOf DEF v
  <2> QED BY <1>2, <1>3, <1>5, <2>1, <2>2
<1>9. DumpRuntime(other, viewer) = DumpRuntime(Session, viewer)
  <2>1. DumpRuntime(other, viewer)
          = [schema_version |-> 4, game_id |-> config.game, lifecycle |-> lifecycle,
             events |-> RuntimeEvents(es, v.view, viewer), abort |-> DumpAbort(a, v.view),
             match_transcript |-> <<MatchTranscript(n, viewer)>>,
             view |-> v.view, viewer_seat |-> v.viewer_seat]
    BY <1>2, <1>6, DumpsOf DEF v
  <2>2. DumpRuntime(Session, viewer)
          = [schema_version |-> 4, game_id |-> config.game, lifecycle |-> lifecycle,
             events |-> RuntimeEvents(events, v.view, viewer),
             abort |-> DumpAbort(abort, v.view),
             match_transcript |-> <<MatchTranscript(m, viewer)>>,
             view |-> v.view, viewer_seat |-> v.viewer_seat]
    BY <1>1, <1>6, DumpsOf DEF v
  <2> QED BY <1>2, <1>4, <1>5, <2>1, <2>2
<1>10. Observation(config, other.match[1].state, viewer) = Observation(config, m.state, viewer)
  BY <1>2, <1>7 DEF Observation
<1> QED BY <1>8, <1>9, <1>10 DEF m

----------------------------------------------------------------------------
(* What is on the screen of the one human at it *)

ShownTo(es, humans) ==
  LET shown(e) == humans = {} \/ ~SeatPrivate(e) \/ e.seat \in humans
  IN Listed(es, shown, LAMBDA e : e)

\* Notes that change are no human's.
LEMMA OtherNotesScreen ==
  ASSUME NEW es, Forms(es), NEW humans, NEW seats, seats \cap humans = {}, humans # {},
         \A i \in 1..Len(es) : es[i].event_type # "MatchAborted"
  PROVE  ShownTo(OtherNotes(es, seats), humans) = ShownTo(es, humans)
<1> DEFINE shown(e) == humans = {} \/ ~SeatPrivate(e) \/ e.seat \in humans
           Seen(e) == When(shown(e), e)
           other == OtherNotes(es, seats)
<1>1. DOMAIN es = 1..Len(es)
  <2>1. PICK T : es \in Seq(T)
    BY DEF Forms, IsSeq
  <2> QED BY <2>1
<1>2. ASSUME NEW i \in DOMAIN es PROVE Seen(other[i]) = Seen(es[i])
  <2> DEFINE e == es[i]
             o == OtherNote(e, seats)
  <2>1. other[i] = o /\ EventForm(e) /\ e.event_type # "MatchAborted"
    BY <1>1 DEF OtherNotes, Forms
  <2> HIDE DEF e, o
  <2>2. NoteChanged(e, seats, o)
    BY <2>1, OtherNoteIs DEF o
  <2>3. CASE o = e
    BY <2>1, <2>3 DEF e
  <2>4. CASE /\ SeatPrivate(e) /\ e.seat \in seats
             /\ o.event_type = e.event_type /\ o.seat = e.seat
    <3>1. SeatPrivate(o)
      BY <2>4 DEF SeatPrivate
    <3>2. ~shown(o) /\ ~shown(e)
      BY <2>4, <3>1
    <3> HIDE DEF shown
    <3>3. Seen(o) = <<>> /\ Seen(e) = <<>>
      BY <3>2 DEF When
    <3> QED BY <2>1, <3>3 DEF e
  <2>5. \A reason, cause : e # MatchAborted([reason |-> reason, cause |-> cause])
    BY <2>1 DEF MatchAborted
  <2> QED BY <2>2, <2>3, <2>4, <2>5 DEF NoteChanged
<1>3. DOMAIN other = DOMAIN es
  BY DEF OtherNotes
<1>4. \A s : ShownTo(s, humans) = FlattenSeq([i \in DOMAIN s |-> Seen(s[i])])
  BY DEF ShownTo, Listed
<1> HIDE DEF Seen, other
<1>5. [i \in DOMAIN other |-> Seen(other[i])] = [i \in DOMAIN es |-> Seen(es[i])]
  BY <1>2, <1>3
<1>6. /\ ShownTo(other, humans) = FlattenSeq([i \in DOMAIN other |-> Seen(other[i])])
      /\ ShownTo(es, humans) = FlattenSeq([i \in DOMAIN es |-> Seen(es[i])])
  BY <1>4
<1>7. ShownTo(other, humans) = ShownTo(es, humans)
  BY <1>5, <1>6
<1> QED BY <1>7 DEF other

\* The notes of a session reimagined have the forms of notes.
LEMMA OtherNotesForms ==
  ASSUME NEW es, Forms(es), NEW seats PROVE Forms(OtherNotes(es, seats))
<1> DEFINE other == OtherNotes(es, seats)
<1>1. Len(es) \in Nat /\ DOMAIN es = 1..Len(es)
  <2>1. PICK T : es \in Seq(T)
    BY DEF Forms, IsSeq
  <2> QED BY <2>1
<1>2. other = [i \in 1..Len(es) |-> other[i]]
  BY <1>1 DEF OtherNotes
<1>3. \A i \in 1..Len(es) : EventForm(other[i])
  BY <1>1, OtherNoteForm DEF OtherNotes, Forms
<1> HIDE DEF other
<1>4. IsSeq(other) /\ Len(other) = Len(es)
  BY <1>1, <1>2, ListOf
<1>5. Forms(other)
  BY <1>3, <1>4 DEF Forms
<1> QED BY <1>5 DEF other

OnScreen(es) == ShownTo(es, HumanSeats)

\* What a terminal shows of a session.
LEMMA ScreenIs ==
  ASSUME NEW x, NEW viewer, viewer = ScreenViewer(x), NEW d, d = DumpRuntime(x, viewer)
  PROVE  Screen(x) = [status |-> DumpStatus(x, viewer),
                      transcript |-> [d EXCEPT !.events = OnScreen(@)]]
  BY DEF Screen, OnScreen, ShownTo, Listed

\* What the one human sees does not change with the agents' hands and notes.
LEMMA SecretScreen ==
  ASSUME SessionOk, EventsOk, Forms(events), Started,
         lifecycle = "running", Cardinality(HumanSeats) = 1
  PROVE  Screen(Reimagined(Session, Agents)) = Screen(Session)
<1> DEFINE other == Reimagined(Session, Agents)
           m == TheMatch
           es == OtherNotes(events, Agents)
           a == OtherAbort(abort)
<1>1. PICK h \in VALID_SEATS : HumanSeats = {h} /\ Agents = VALID_SEATS \ {h}
  <2>1. IsFiniteSet(HumanSeats)
    BY TwoSeats, FS_Subset DEF HumanSeats
  <2>2. PICK h : HumanSeats = {h}
    BY <2>1, FS_Singleton
  <2>3. h \in VALID_SEATS /\ Agents = VALID_SEATS \ {h}
    BY <2>2, RuntimeAssumption DEF HumanSeats
  <2> QED BY <2>2, <2>3
<1>2. h \in Viewers /\ HumanSeats # {} /\ (CHOOSE seat \in HumanSeats : TRUE) = h
  BY <1>1 DEF Viewers
<1>3. Session = SessionOf(m, events, abort) /\ Session.config = config
  BY ReimaginedIs DEF SessionOf
<1>4. other = SessionOf(IF Live THEN OtherMatch(m, Agents, LiveRounds(m)) ELSE m, es, a)
  BY ReimaginedIs
<1>5. other.config = config
  BY <1>4 DEF SessionOf
<1>6. CASE HiddenInformation(config)
  <2>1. ScreenViewer(Session) = h /\ ScreenViewer(other) = h
    <3> HIDE DEF other
    <3> QED BY <1>2, <1>3, <1>5, <1>6 DEF ScreenViewer
  <2>2. DumpStatus(other, h) = DumpStatus(Session, h) /\ DumpRuntime(other, h) = DumpRuntime(Session, h)
    BY <1>1, <1>2, <1>6, SecretView
  <2> HIDE DEF other
  <2>3. /\ Screen(other) = [status |-> DumpStatus(other, h),
                            transcript |-> [DumpRuntime(other, h) EXCEPT !.events = OnScreen(@)]]
        /\ Screen(Session) = [status |-> DumpStatus(Session, h),
                            transcript |-> [DumpRuntime(Session, h) EXCEPT !.events = OnScreen(@)]]
    BY <2>1, ScreenIs
  <2> QED BY <2>2, <2>3 DEF other
<1>7. CASE ~HiddenInformation(config)
  <2>1. ScreenViewer(Session) = FULL_VIEW /\ ScreenViewer(other) = FULL_VIEW
    <3> HIDE DEF other
    <3> QED BY <1>3, <1>5, <1>7 DEF ScreenViewer
  <2>2. ~Live
    BY <1>7 DEF Live
  <2>3. a = abort
    BY RunningIs DEF OtherAbort
  <2>4. other = SessionOf(m, es, abort)
    BY <1>4, <2>2, <2>3
  <2>5. m.config = config
    BY StartedIs
  <2>6. \A i \in 1..Len(events) : events[i].event_type # "MatchAborted"
    <3>1. IndexOf(events, "MatchAborted") = {}
      BY RunningLog DEF Log, Ending, Ends
    <3> QED BY <3>1 DEF IndexOf
  <2>7. RuntimeEvents(es, "full", FULL_VIEW) = es /\ RuntimeEvents(events, "full", FULL_VIEW) = events
    BY AllEvents, OtherNotesForms
  <2>8. OnScreen(es) = OnScreen(events)
    <3>1. Agents \cap HumanSeats = {}
      BY DEF HumanSeats
    <3> DEFINE humans == HumanSeats
    <3>2. Agents \cap humans = {} /\ humans # {}
      BY <1>2, <3>1
    <3> HIDE DEF humans
    <3>3. ShownTo(es, humans) = ShownTo(events, humans)
      BY <2>6, <3>2, OtherNotesScreen
    <3> QED BY <3>3 DEF OnScreen, humans
  <2> DEFINE v == TranscriptView(config, FULL_VIEW)
             Record(list) ==
               [schema_version |-> 4, game_id |-> config.game, lifecycle |-> lifecycle,
                events |-> list, abort |-> DumpAbort(abort, v.view),
                match_transcript |-> <<MatchTranscript(m, FULL_VIEW)>>,
                view |-> v.view, viewer_seat |-> v.viewer_seat]
  <2>9. v.view = "full"
    BY DEF TranscriptView
  <2> HIDE DEF v, other, es, a, m
  <2>10. /\ DumpStatus(other, FULL_VIEW) = DumpStatus(Session, FULL_VIEW)
         /\ DumpRuntime(other, FULL_VIEW) = Record(es)
         /\ DumpRuntime(Session, FULL_VIEW) = Record(events)
    <3>1. /\ DumpStatus(Session, FULL_VIEW)
              = [schema_version |-> 4, lifecycle |-> lifecycle, current_seat |-> CurrentSeat(m),
                 turn_count |-> Len(m.turns), result |-> Result(config, m.state),
                 latest |-> IF FULL_VIEW = FULL_VIEW THEN <<m.state>>
                            ELSE <<StateView(config, m.state, FULL_VIEW)>>,
                 abort |-> DumpAbort(abort, v.view), view |-> v.view,
                 viewer_seat |-> v.viewer_seat]
          /\ DumpRuntime(Session, FULL_VIEW) = Record(RuntimeEvents(events, v.view, FULL_VIEW))
      BY <1>3, <2>5, DumpsOf DEF v
    <3>2. /\ DumpStatus(other, FULL_VIEW)
              = [schema_version |-> 4, lifecycle |-> lifecycle, current_seat |-> CurrentSeat(m),
                 turn_count |-> Len(m.turns), result |-> Result(config, m.state),
                 latest |-> IF FULL_VIEW = FULL_VIEW THEN <<m.state>>
                            ELSE <<StateView(config, m.state, FULL_VIEW)>>,
                 abort |-> DumpAbort(abort, v.view), view |-> v.view,
                 viewer_seat |-> v.viewer_seat]
          /\ DumpRuntime(other, FULL_VIEW) = Record(RuntimeEvents(es, v.view, FULL_VIEW))
      BY <2>4, <2>5, DumpsOf DEF v
    <3> QED BY <2>7, <2>9, <3>1, <3>2
  <2>11. [Record(es) EXCEPT !.events = OnScreen(es)]
           = [Record(events) EXCEPT !.events = OnScreen(events)]
    <3> DEFINE shown == OnScreen(events)
    <3>1. [Record(es) EXCEPT !.events = shown] = Record(shown)
      OBVIOUS
    <3>2. [Record(events) EXCEPT !.events = shown] = Record(shown)
      OBVIOUS
    <3> QED BY <2>8, <3>1, <3>2
  <2>12. Record(es).events = es /\ Record(events).events = events
    OBVIOUS
  <2> HIDE DEF Record
  <2>13. /\ Screen(other) = [status |-> DumpStatus(other, FULL_VIEW),
                             transcript |-> [Record(es) EXCEPT !.events = OnScreen(es)]]
         /\ Screen(Session) = [status |-> DumpStatus(Session, FULL_VIEW),
                             transcript |-> [Record(events) EXCEPT !.events = OnScreen(events)]]
    BY <2>1, <2>10, <2>12, ScreenIs
  <2> QED BY <2>10, <2>11, <2>13 DEF other
<1> QED BY <1>6, <1>7

\* The two sentences of HandsStaySecret together.
LEMMA SecretHolds ==
  ASSUME SessionOk, EventsOk, Forms(events) PROVE HandsStaySecret
<1> SUFFICES ASSUME Started PROVE HandsStaySecret
  BY DEF HandsStaySecret
<1>1. ASSUME HiddenInformation(config), NEW viewer \in Viewers,
             NEW other, other = Reimagined(Session, VALID_SEATS \ {viewer})
      PROVE  /\ DumpStatus(other, viewer) = DumpStatus(Session, viewer)
             /\ DumpRuntime(other, viewer) = DumpRuntime(Session, viewer)
             /\ viewer \in VALID_SEATS =>
                   Observation(config, other.match[1].state, viewer)
                       = Observation(config, TheMatch.state, viewer)
  BY <1>1, SecretView
<1>2. lifecycle = "running" /\ Cardinality(HumanSeats) = 1 =>
         Screen(Reimagined(Session, Agents)) = Screen(Session)
  BY SecretScreen
<1> QED BY <1>1, <1>2 DEF HandsStaySecret

\* Nothing a seat or a spectator is sent, and nothing on the one human's screen,
\* tells what another seat holds in this round or what its agent wrote of it.
THEOREM HandsAlwaysSecret == Spec => []HandsStaySecret
<1>1. Init => SessionOk /\ EventsOk /\ Forms(events)
  BY SessionInit, EventsInit, FormsInit
<1>2. SessionOk /\ EventsOk /\ [Next]_vars => (SessionOk /\ EventsOk)'
  BY SessionNext, EventsNext
<1>3. Forms(events) /\ [Next]_vars => Forms(events')
  BY FormsNext
<1>4. Forms(events)' <=> Forms(events')
  BY DEF Forms, EventForm, SeatPrivate, MatchAborted
<1>5. SessionOk /\ EventsOk /\ Forms(events) => HandsStaySecret
  BY SecretHolds
<1> QED BY <1>1, <1>2, <1>3, <1>4, <1>5, PTL DEF Spec

----------------------------------------------------------------------------
(***************************************************************************)
(* A transcript that was tampered with.  Its turns still look recorded:    *)
(* what was done is what a turn of the game could have done at some state, *)
(* whatever events, result and state it tells.                             *)
(***************************************************************************)
Recorded(c, t) ==
  /\ t.post_state \in StatesOf(c)
  /\ \E s, u :
        /\ s \in StatesOf(c) /\ Made(c, s, u)
        /\ t = [kind |-> u.kind, seat |-> u.seat, action |-> u.action, actions |-> u.actions,
                outcome |-> u.outcome, events |-> t.events, result |-> t.result,
                post_state |-> t.post_state]

\* A roll that could be made at some state, and is accepted at this one, is one
\* of this one's.
LEMMA OutcomeOf ==
  ASSUME NEW c \in GameConfigs, NEW s \in StatesOf(c), NEW other \in StatesOf(c),
         Chance(c, other), NEW o \in Outcomes(c, other), Chance(c, s), OutcomeValid(c, s, o)
  PROVE  o \in Outcomes(c, s)
<1>1. CASE c.game = "pig"
  BY <1>1 DEF Outcomes
<1>2. CASE c.game = "liarsdice"
  <2>1. c \in LiarsDiceConfigs /\ s \in LiarsDiceStates(c) /\ other \in LiarsDiceStates(c)
    BY <1>2, GameIs DEF StatesOf
  <2>2. PICK h \in Hands(other.dice_counts[0], other.faces),
             g \in Hands(other.dice_counts[1], other.faces) :
           o = [dice |-> [seat \in VALID_SEATS |-> IF seat = 0 THEN h ELSE g]]
    BY <1>2 DEF Outcomes, LiarsDiceOutcomes
  <2>3. /\ other.dice_counts[0] \in Nat /\ other.dice_counts[1] \in Nat /\ other.faces \in Nat
    BY <2>1, LiarsDiceTypes DEF LiarsDiceStates
  <2>4. /\ h \in Seq(Nat) /\ g \in Seq(Nat)
        /\ h = [i \in 1..Len(h) |-> h[i]] /\ g = [i \in 1..Len(g) |-> g[i]]
        /\ DOMAIN h = 1..Len(h) /\ DOMAIN g = 1..Len(g)
    <3>1. /\ h \in Seq(Nat) /\ Len(h) = other.dice_counts[0] /\ DOMAIN h = 1..Len(h)
          /\ g \in Seq(Nat) /\ Len(g) = other.dice_counts[1] /\ DOMAIN g = 1..Len(g)
      BY <2>3, HandIsSeq
    <3> QED BY <3>1 DEF Hands
  <2>5. Dealt(o.dice, [seat \in VALID_SEATS |-> {s.dice_counts[seat]}], s.faces)
    BY <1>2 DEF OutcomeValid, LiarsDiceOutcomeValid
  <2>6. o.dice[0] = h /\ o.dice[1] = g /\ 0 \in VALID_SEATS /\ 1 \in VALID_SEATS
    BY <2>2 DEF VALID_SEATS
  <2>7. /\ Len(h) = s.dice_counts[0] /\ \A i \in DOMAIN h : h[i] \in 1..s.faces
        /\ Len(g) = s.dice_counts[1] /\ \A i \in DOMAIN g : g[i] \in 1..s.faces
    BY <2>5, <2>6 DEF Dealt
  <2>8. h \in Hands(s.dice_counts[0], s.faces) /\ g \in Hands(s.dice_counts[1], s.faces)
    BY <2>4, <2>7 DEF Hands
  <2> QED BY <1>2, <2>2, <2>8 DEF Outcomes, LiarsDiceOutcomes
<1> QED BY <1>1, <1>2 DEF Chance, HasChance

\* The fields of a turn of each kind that was made at some state.
LEMMA RecordedIs ==
  ASSUME NEW c \in GameConfigs, NEW t, Recorded(c, t)
  PROVE  \/ /\ t.kind = "chance" /\ t.seat = NoSeat /\ t.action = NoData /\ t.actions = <<>>
            /\ \E s \in StatesOf(c) : Chance(c, s) /\ t.outcome \in Outcomes(c, s)
         \/ /\ t.kind = "joint" /\ t.seat = NoSeat /\ t.action = NoData /\ t.outcome = NoData
            /\ \E actions \in [VALID_SEATS -> Actions(c)] : t.actions = <<actions>>
         \/ /\ t.kind = "action" /\ t.seat \in VALID_SEATS /\ t.action \in Actions(c)
            /\ t.actions = <<>> /\ t.outcome = NoData
<1>1. PICK s, u :
        /\ s \in StatesOf(c) /\ Made(c, s, u)
        /\ t = [kind |-> u.kind, seat |-> u.seat, action |-> u.action, actions |-> u.actions,
                outcome |-> u.outcome, events |-> t.events, result |-> t.result,
                post_state |-> t.post_state]
  BY DEF Recorded
<1>2. /\ t.kind = u.kind /\ t.seat = u.seat /\ t.action = u.action /\ t.actions = u.actions
      /\ t.outcome = u.outcome
  BY <1>1
<1>3. CASE Chance(c, s) /\ \E o \in Outcomes(c, s) : u = ChanceTurn(c, s, o)
  <2>1. PICK o \in Outcomes(c, s) : u = ChanceTurn(c, s, o)
    BY <1>3
  <2>2. /\ u.kind = "chance" /\ u.seat = NoSeat /\ u.action = NoData /\ u.actions = <<>>
        /\ u.outcome = o
    BY <2>1 DEF ChanceTurn, Turn
  <2>3. s \in StatesOf(c)
    BY <1>1
  <2> QED BY <1>2, <1>3, <2>2, <2>3
<1>4. CASE \E actions \in [VALID_SEATS -> Actions(c)] :
              JointValid(c, s, actions) /\ u = RoundTurn(c, s, actions)
  <2>1. PICK actions \in [VALID_SEATS -> Actions(c)] : u = RoundTurn(c, s, actions)
    BY <1>4
  <2>2. /\ u.kind = "joint" /\ u.seat = NoSeat /\ u.action = NoData /\ u.outcome = NoData
        /\ u.actions = <<actions>>
    BY <2>1 DEF RoundTurn, Turn
  <2> QED BY <1>2, <2>2
<1>5. CASE /\ Sequential(c) /\ ~Joint(c, s)
           /\ \E seat \in VALID_SEATS, a \in Actions(c) :
                 Valid(c, s, seat, a) /\ u = ActionTurn(c, s, seat, a)
  <2>1. PICK seat \in VALID_SEATS, a \in Actions(c) : u = ActionTurn(c, s, seat, a)
    BY <1>5
  <2>2. /\ u.kind = "action" /\ u.seat = seat /\ u.action = a /\ u.actions = <<>>
        /\ u.outcome = NoData
    BY <2>1 DEF ActionTurn, Turn
  <2> QED BY <1>2, <2>2
<1> QED BY <1>1, <1>3, <1>4, <1>5 DEF Made

\* A recorded turn has eight fields.
LEMMA RecordedForm ==
  ASSUME NEW c, NEW t, Recorded(c, t)
  PROVE  t = [kind |-> t.kind, seat |-> t.seat, action |-> t.action, actions |-> t.actions,
              outcome |-> t.outcome, events |-> t.events, result |-> t.result,
              post_state |-> t.post_state]
<1>1. PICK u : t = [kind |-> u.kind, seat |-> u.seat, action |-> u.action,
                    actions |-> u.actions, outcome |-> u.outcome, events |-> t.events,
                    result |-> t.result, post_state |-> t.post_state]
  BY DEF Recorded
<1>2. /\ t.kind = u.kind /\ t.seat = u.seat /\ t.action = u.action /\ t.actions = u.actions
      /\ t.outcome = u.outcome
  BY <1>1
<1> QED BY <1>1, <1>2

\* A recorded turn that replays is made there, and is that turn if it matches it.
LEMMA ReplayMade ==
  ASSUME NEW c \in GameConfigs, NEW m, Played(c, m), NEW t, Recorded(c, t),
         ReplayTurn(m, t) # Refused
  PROVE  \E u : /\ Made(c, m.state, u) /\ ReplayTurn(m, t) = After(m, u)
                /\ TurnMatches(t, u) => t = FullTurn(u)
<1>1. m.config = c /\ m.state \in StatesOf(c) /\ m # Refused
  <2>1. m = MatchOf(c, m.turns)
    BY DEF Played
  <2> QED BY <2>1, MatchIs, NotRefused
<1>2. t = [kind |-> t.kind, seat |-> t.seat, action |-> t.action, actions |-> t.actions,
           outcome |-> t.outcome, events |-> t.events, result |-> t.result,
           post_state |-> t.post_state]
  BY RecordedForm
<1>3. SUFFICES ASSUME NEW u, Made(c, m.state, u), ReplayTurn(m, t) = After(m, u),
                      t.kind = u.kind, t.seat = u.seat, t.action = u.action,
                      t.actions = u.actions, t.outcome = u.outcome
               PROVE  TurnMatches(t, u) => t = FullTurn(u)
  <2>1. CASE /\ t.kind = "chance" /\ t.seat = NoSeat /\ t.action = NoData /\ t.actions = <<>>
             /\ \E s \in StatesOf(c) : Chance(c, s) /\ t.outcome \in Outcomes(c, s)
    <3> DEFINE o == t.outcome
               u == ChanceTurn(c, m.state, o)
    <3>1. Chance(c, m.state) /\ OutcomeValid(c, m.state, o) /\ ReplayTurn(m, t) = ResolveOne(m, o)
      BY <1>1, <2>1 DEF ReplayTurn
    <3>2. o \in Outcomes(c, m.state)
      BY <1>1, <2>1, <3>1, OutcomeOf
    <3>3. Made(c, m.state, u) /\ ReplayTurn(m, t) = After(m, u)
      BY <3>1, <3>2, RollMade
    <3>4. /\ u.kind = "chance" /\ u.seat = NoSeat /\ u.action = NoData /\ u.actions = <<>>
          /\ u.outcome = o
      BY DEF ChanceTurn, Turn
    <3> HIDE DEF u
    <3> QED BY <1>3, <2>1, <3>3, <3>4
  <2>2. CASE /\ t.kind = "joint" /\ t.seat = NoSeat /\ t.action = NoData /\ t.outcome = NoData
             /\ \E actions \in [VALID_SEATS -> Actions(c)] : t.actions = <<actions>>
    <3>1. PICK actions \in [VALID_SEATS -> Actions(c)] : t.actions = <<actions>>
      BY <2>2
    <3> DEFINE u == RoundTurn(c, m.state, actions)
    <3>2. t.actions[1] = actions
      BY <3>1
    <3>3. JointValid(c, m.state, actions) /\ ReplayTurn(m, t) = AfterJoint(m, actions)
      BY <1>1, <2>2, <3>2 DEF ReplayTurn
    <3>4. Made(c, m.state, u) /\ ReplayTurn(m, t) = After(m, u)
      BY <3>3, RoundPlayed
    <3>5. /\ u.kind = "joint" /\ u.seat = NoSeat /\ u.action = NoData /\ u.outcome = NoData
          /\ u.actions = <<actions>>
      BY DEF RoundTurn, Turn
    <3> HIDE DEF u
    <3> QED BY <1>3, <2>2, <3>1, <3>4, <3>5
  <2>3. CASE /\ t.kind = "action" /\ t.seat \in VALID_SEATS /\ t.action \in Actions(c)
             /\ t.actions = <<>> /\ t.outcome = NoData
    <3> DEFINE seat == t.seat
               a == t.action
               u == ActionTurn(c, m.state, seat, a)
    <3>1. ActionAccepted(m, seat, a) /\ ReplayTurn(m, t) = AfterAction(m, seat, a)
      BY <1>1, <2>3 DEF ReplayTurn
    <3>2. Made(c, m.state, u) /\ ReplayTurn(m, t) = After(m, u)
      BY <2>3, <3>1, MovePlayed
    <3>3. /\ u.kind = "action" /\ u.seat = seat /\ u.action = a /\ u.actions = <<>>
          /\ u.outcome = NoData
      BY DEF ActionTurn, Turn
    <3> HIDE DEF u
    <3> QED BY <1>3, <2>3, <3>2, <3>3
  <2> QED BY <2>1, <2>2, <2>3, RecordedIs
<1>4. FullTurn(u) = [kind |-> u.kind, seat |-> u.seat, action |-> u.action,
                     actions |-> u.actions, outcome |-> u.outcome,
                     events |-> DumpEvents(u.events), result |-> u.result,
                     post_state |-> u.post_state]
  BY <1>1, <1>3, DumpedTurn
<1> QED BY <1>2, <1>3, <1>4 DEF TurnMatches

\* Every throw of a live match of Rock-Paper-Scissors is a round.
LEMMA EveryRound ==
  ASSUME NEW c \in GameConfigs, NEW s \in StatesOf(c), Joint(c, s),
         NEW actions \in [VALID_SEATS -> Actions(c)]
  PROVE  JointValid(c, s, actions)
<1>1. c.game = "rps" /\ ~Terminal(c, s) /\ Acting(c, s) = VALID_SEATS
  BY GameActing
<1>2. c \in RpsConfigs /\ ~RpsTerminal(s)
  BY <1>1, GameIs, RpsOver DEF StatesOf, Terminal, Result
<1>3. \A seat \in VALID_SEATS : Valid(c, s, seat, actions[seat])
  BY <1>1, <1>2 DEF Valid, RpsValid, Actions
<1> QED BY <1>1, <1>3 DEF JointValid

\* IsMove says that a turn is one made at the state before it, dumped.
LEMMA MoveIs ==
  ASSUME NEW c \in GameConfigs, NEW p, NEW i, p.config = c, NEW s \in StatesOf(c),
         s = StateBefore(p, i), NEW t, t = p.turns[i]
  PROVE  IsMove(p, i) <=> \E u : Made(c, s, u) /\ t = FullTurn(u)
<1>1. IsMove(p, i) <=>
        CASE Chance(c, s) -> \E o \in Outcomes(c, s) : t = FullTurn(ChanceTurn(c, s, o))
          [] Joint(c, s) -> \E a \in [VALID_SEATS -> Actions(c)] : t = FullTurn(RoundTurn(c, s, a))
          [] OTHER -> \E seat \in Acting(c, s) : \E a \in Legal(c, s, seat) :
                         t = FullTurn(ActionTurn(c, s, seat, a))
  BY DEF IsMove, FullTurn, ChanceTurn, RoundTurn, ActionTurn
<1>2. Chance(c, s) => ~Joint(c, s)
  BY GameLive
<1>3. CASE Chance(c, s)
  <2>1. \A u : Made(c, s, u) <=> \E o \in Outcomes(c, s) : u = ChanceTurn(c, s, o)
    BY <1>2, <1>3, GameLive DEF Made, JointValid
  <2> QED BY <1>1, <1>2, <1>3, <2>1
<1>4. CASE ~Chance(c, s) /\ Joint(c, s)
  <2>1. \A u : Made(c, s, u) <=>
                 \E a \in [VALID_SEATS -> Actions(c)] : u = RoundTurn(c, s, a)
    BY <1>4, EveryRound DEF Made
  <2> QED BY <1>1, <1>4, <2>1
<1>5. CASE ~Chance(c, s) /\ ~Joint(c, s)
  <2>1. \A u : Made(c, s, u) <=>
                 \E seat \in Acting(c, s) : \E a \in Legal(c, s, seat) :
                    u = ActionTurn(c, s, seat, a)
    <3>1. Acting(c, s) \subseteq VALID_SEATS /\ (Acting(c, s) # {} => Sequential(c))
      BY <1>5, GameActing
    <3>2. \A seat \in VALID_SEATS : Legal(c, s, seat) = {a \in Actions(c) : Valid(c, s, seat, a)}
      BY GameAgrees
    <3>3. \A seat \in VALID_SEATS : \A a : Valid(c, s, seat, a) => seat \in Acting(c, s)
      BY GameLive
    <3> QED BY <1>5, <3>1, <3>2, <3>3 DEF Made, JointValid
  <2> QED BY <1>1, <1>5, <2>1
<1> QED BY <1>3, <1>4, <1>5

\* The matches a replay goes through: r[n] is the one after n recorded turns.
ReplaySteps(p, r, last) ==
  [n \in 0..last |-> IF n = 0 THEN Fresh(p.config) ELSE ReplayTurn(r[n - 1], p.turns[n])]

\* The recursion a replay follows has a solution, up to any length.
LEMMA ReplayExists ==
  ASSUME NEW p, NEW last \in Nat
  PROVE  \E r : r = ReplaySteps(p, r, last)
<1> DEFINE bad == {n \in Nat : ~ \E r : r = ReplaySteps(p, r, n)}
<1> SUFFICES ASSUME bad # {} PROVE FALSE
  OBVIOUS
<1>1. PICK n \in bad : \A k \in bad : n <= k
  <2>1. bad \in SUBSET Nat
    OBVIOUS
  <2> HIDE DEF bad
  <2> QED BY <2>1, LeastExists
<1>2. n \in Nat /\ ~ \E r : r = ReplaySteps(p, r, n)
  OBVIOUS
<1>3. CASE n = 0
  <2> DEFINE g == [k \in 0..0 |-> Fresh(p.config)]
  <2>1. g = ReplaySteps(p, g, 0)
    <3>1. \A k \in 0..0 : k = 0
      OBVIOUS
    <3> QED BY <3>1 DEF ReplaySteps
  <2> QED BY <1>2, <1>3, <2>1
<1>4. CASE n # 0
  <2>1. n - 1 \in Nat /\ ~(n <= n - 1)
    BY <1>2, <1>4
  <2>2. n - 1 \notin bad
    BY <1>1, <2>1
  <2>3. PICK r : r = ReplaySteps(p, r, n - 1)
    BY <2>1, <2>2
  <2> DEFINE g == [k \in 0..n |-> IF k = n THEN ReplayTurn(r[n - 1], p.turns[n]) ELSE r[k]]
  <2>4. ASSUME NEW k \in 0..n
        PROVE  g[k] = IF k = 0 THEN Fresh(p.config) ELSE ReplayTurn(g[k - 1], p.turns[k])
    <3>1. CASE k = 0
      <4>1. 0 \in 0..(n - 1) /\ k # n
        BY <1>2, <1>4, <2>1, <3>1
      <4>2. r[0] = Fresh(p.config)
        BY <2>3, <4>1 DEF ReplaySteps
      <4> QED BY <3>1, <4>1, <4>2
    <3>2. CASE k # 0
      <4>1. k - 1 \in 0..n /\ k - 1 # n /\ g[k - 1] = r[k - 1]
        BY <1>2, <3>2
      <4>2. CASE k = n
        BY <3>2, <4>1, <4>2
      <4>3. CASE k # n
        <5>1. k \in 0..(n - 1)
          BY <1>2, <4>3
        <5>2. r[k] = ReplayTurn(r[k - 1], p.turns[k])
          BY <2>3, <3>2, <5>1 DEF ReplaySteps
        <5> QED BY <3>2, <4>1, <4>3, <5>2
      <4> QED BY <4>2, <4>3
    <3> QED BY <3>1, <3>2
  <2>5. g = [k \in 0..n |-> g[k]]
    OBVIOUS
  <2> HIDE DEF g
  <2>6. g = ReplaySteps(p, g, n)
    BY <2>4, <2>5 DEF ReplaySteps
  <2> QED BY <1>2, <2>6
<1> QED BY <1>3, <1>4

\* A replay is the last of its steps.
LEMMA ReplayGoes ==
  ASSUME NEW p, Len(p.turns) \in Nat
  PROVE  \E r : r = ReplaySteps(p, r, Len(p.turns)) /\ Replay(p) = r[Len(p.turns)]
<1> DEFINE N == Len(p.turns)
           Step(f) == [n \in 0..N |-> IF n = 0 THEN Fresh(p.config)
                                      ELSE ReplayTurn(f[n - 1], p.turns[n])]
           replayed == CHOOSE f : f = Step(f)
<1>1. Replay(p) = replayed[N]
  BY DEF Replay
<1>2. \A f : Step(f) = ReplaySteps(p, f, N)
  BY DEF ReplaySteps
<1>3. \E f : f = Step(f)
  <2> HIDE DEF Step, N
  <2>1. N \in Nat
    BY DEF N
  <2> QED BY <1>2, <2>1, ReplayExists
<1>4. replayed = Step(replayed)
  <2> HIDE DEF Step
  <2> QED BY <1>3
<1> HIDE DEF replayed, Step
<1> QED BY <1>1, <1>2, <1>4

\* A replay that refuses a turn stays refused.
LEMMA ReplayStaysRefused ==
  ASSUME NEW p, NEW last \in Nat, NEW r, r = ReplaySteps(p, r, last), r[last] # Refused,
         NEW n \in 0..last
  PROVE  r[n] # Refused
<1> SUFFICES ASSUME r[n] = Refused PROVE FALSE
  OBVIOUS
<1> DEFINE good == {k \in n..last : r[k] # Refused}
<1>1. PICK k \in good : \A j \in good : k <= j
  <2>1. good \in SUBSET Nat /\ last \in good
    OBVIOUS
  <2> HIDE DEF good
  <2> QED BY <2>1, LeastExists
<1>2. k \in n..last /\ r[k] # Refused /\ k # n
  OBVIOUS
<1>3. k - 1 \in n..last /\ ~(k <= k - 1) /\ k \in 0..last /\ k # 0
  BY <1>2
<1>4. r[k - 1] = Refused
  BY <1>1, <1>3
<1>5. r[k] = ReplayTurn(r[k - 1], p.turns[k])
  BY <1>3 DEF ReplaySteps
<1> QED BY <1>2, <1>4, <1>5 DEF ReplayTurn

\* A match that is played, its turns the ones recorded wherever they match.
Retold(c, p, m, n) ==
  /\ Played(c, m) /\ Len(m.turns) = n
  /\ \A i \in 1..n : TurnMatches(p.turns[i], m.turns[i]) => p.turns[i] = FullTurn(m.turns[i])

\* One more turn that is not refused.
LEMMA RetoldNext ==
  ASSUME NEW c \in GameConfigs, NEW p, NEW m, NEW n \in Nat, Retold(c, p, m, n),
         Recorded(c, p.turns[n + 1]), ReplayTurn(m, p.turns[n + 1]) # Refused
  PROVE  Retold(c, p, ReplayTurn(m, p.turns[n + 1]), n + 1)
<1> DEFINE t == p.turns[n + 1]
           x == ReplayTurn(m, t)
<1>1. Played(c, m) /\ Len(m.turns) = n
  BY DEF Retold
<1>2. PICK u : Made(c, m.state, u) /\ x = After(m, u) /\ (TurnMatches(t, u) => t = FullTurn(u))
  BY <1>1, ReplayMade
<1>3. Played(c, x) /\ x.turns = Append(m.turns, u)
  BY <1>1, <1>2, AfterPlayed
<1>4. /\ Len(x.turns) = n + 1 /\ x.turns[n + 1] = u
      /\ \A i \in 1..n : x.turns[i] = m.turns[i]
  <2>1. IsSeq(m.turns)
    BY <1>1 DEF Played, IsPlayed
  <2> QED BY <1>1, <1>3, <2>1, SeqAppend
<1> HIDE DEF x
<1>5. ASSUME NEW i \in 1..(n + 1)
      PROVE  TurnMatches(p.turns[i], x.turns[i]) => p.turns[i] = FullTurn(x.turns[i])
  <2>1. CASE i = n + 1
    BY <1>2, <1>4, <2>1
  <2>2. CASE i \in 1..n
    BY <1>4, <2>2 DEF Retold
  <2>3. i = n + 1 \/ i \in 1..n
    OBVIOUS
  <2> QED BY <2>1, <2>2, <2>3
<1> QED BY <1>3, <1>4, <1>5 DEF Retold, x

\* A replay that is not refused is a match that was played.
LEMMA ReplayRetold ==
  ASSUME NEW c \in GameConfigs, NEW p, p.config = c, Len(p.turns) \in Nat,
         \A i \in 1..Len(p.turns) : Recorded(c, p.turns[i]), Replay(p) # Refused
  PROVE  Retold(c, p, Replay(p), Len(p.turns))
<1> DEFINE N == Len(p.turns)
<1>1. PICK r : r = ReplaySteps(p, r, N) /\ Replay(p) = r[N]
  BY ReplayGoes
<1>2. \A n \in 0..N : r[n] # Refused
  <2>1. r[N] # Refused
    BY <1>1
  <2> QED BY <1>1, <2>1, ReplayStaysRefused
<1> DEFINE bad == {n \in 0..N : ~Retold(c, p, r[n], n)}
<1> SUFFICES ASSUME bad # {} PROVE FALSE
  BY <1>1
<1>3. PICK n \in bad : \A k \in bad : n <= k
  <2>1. bad \in SUBSET Nat
    OBVIOUS
  <2> HIDE DEF bad
  <2> QED BY <2>1, LeastExists
<1>4. n \in 0..N /\ ~Retold(c, p, r[n], n)
  OBVIOUS
<1>5. CASE n = 0
  <2>1. r[0] = Fresh(c)
    BY <1>1, <1>4, <1>5 DEF ReplaySteps
  <2>2. Played(c, Fresh(c)) /\ Fresh(c).turns = <<>>
    BY FreshPlayed
  <2>3. Retold(c, p, Fresh(c), 0)
    BY <2>2 DEF Retold
  <2> QED BY <1>4, <1>5, <2>1, <2>3
<1>6. CASE n # 0
  <2> DEFINE k == n - 1
  <2>1. k \in 0..N /\ k \in Nat /\ ~(n <= k) /\ k + 1 = n /\ n \in 1..N
    BY <1>4, <1>6
  <2>2. Retold(c, p, r[k], k)
    BY <1>3, <2>1
  <2>3. r[n] = ReplayTurn(r[k], p.turns[n])
    BY <1>1, <1>4, <1>6 DEF ReplaySteps
  <2>4. Recorded(c, p.turns[n]) /\ r[n] # Refused
    BY <1>2, <2>1
  <2> HIDE DEF k
  <2>5. Retold(c, p, ReplayTurn(r[k], p.turns[k + 1]), k + 1)
    BY <2>1, <2>2, <2>3, <2>4, RetoldNext
  <2> QED BY <1>4, <2>1, <2>3, <2>5
<1> QED BY <1>5, <1>6

\* A transcript tells a match: its turns are that match's, dumped.
Tells(c, p, m) ==
  /\ Played(c, m) /\ Len(m.turns) = Len(p.turns)
  /\ \A i \in 1..Len(p.turns) : p.turns[i] = FullTurn(m.turns[i])

\* The fields of a turn, and of what it is dumped as.
LEMMA DumpedFields ==
  ASSUME NEW c \in GameConfigs, NEW m, Played(c, m), NEW i \in 1..Len(m.turns)
  PROVE  /\ FullTurn(m.turns[i]).kind = m.turns[i].kind
         /\ FullTurn(m.turns[i]).post_state = m.turns[i].post_state
         /\ FullTurn(m.turns[i]).events = DumpEvents(m.turns[i].events)
         /\ FullTurn(m.turns[i]).result = m.turns[i].result
         /\ TurnShape(FullTurn(m.turns[i]), 4)
<1> DEFINE t == m.turns[i]
           s == StateAfter(c, m.turns, i - 1)
<1>1. s \in StatesOf(c) /\ Made(c, s, t)
  BY TurnsMade
<1> HIDE DEF t, s
<1>2. /\ FullTurn(t).kind = t.kind /\ FullTurn(t).post_state = t.post_state
      /\ FullTurn(t).events = DumpEvents(t.events) /\ FullTurn(t).result = t.result
      /\ TurnShape(FullTurn(t), 4)
  BY <1>1, DumpedTurn
<1> QED BY <1>2 DEF t

\* The match a transcript tells is the one it replays to.
LEMMA TellsReplays ==
  ASSUME NEW c \in GameConfigs, NEW p, p.config = c, IsSeq(p.turns), NEW m, Tells(c, p, m)
  PROVE  /\ Replay(p) = m
         /\ \A i \in 1..Len(p.turns) : TurnMatches(p.turns[i], m.turns[i])
<1> DEFINE q == FullTranscript(m)
           R(conf, turns) ==
             LET replayed[n \in 0..Len(turns)] ==
                   IF n = 0 THEN Fresh(conf) ELSE ReplayTurn(replayed[n - 1], turns[n])
             IN replayed[Len(turns)]
<1>1. Replay(p) = R(p.config, p.turns) /\ Replay(q) = R(q.config, q.turns)
  <2> HIDE DEF q
  <2> QED BY DEF Replay
<1>2. Played(c, m) /\ Len(m.turns) = Len(p.turns) /\ Len(p.turns) \in Nat
  BY SeqAppend DEF Tells
<1>3. q.config = c /\ q.turns = p.turns
  <2>1. /\ q.config = c /\ IsSeq(q.turns) /\ DOMAIN q.turns = 1..Len(m.turns)
        /\ \A i \in 1..Len(m.turns) : q.turns[i] = FullTurn(m.turns[i])
    BY <1>2, FullIs
  <2> HIDE DEF q
  <2>2. DOMAIN p.turns = 1..Len(p.turns)
    BY SeqAppend
  <2>3. \A i \in 1..Len(p.turns) : q.turns[i] = p.turns[i]
    BY <1>2, <2>1 DEF Tells
  <2>4. /\ q.turns = [i \in DOMAIN q.turns |-> q.turns[i]]
        /\ p.turns = [i \in DOMAIN p.turns |-> p.turns[i]]
    <3>1. PICK T : p.turns \in Seq(T)
      BY DEF IsSeq
    <3>2. PICK U : q.turns \in Seq(U)
      BY <2>1 DEF IsSeq
    <3> QED BY <3>1, <3>2
  <2> QED BY <1>2, <2>1, <2>2, <2>3, <2>4
<1>4. Replay(q) = m
  BY <1>2, ReplayIs
<1> HIDE DEF R, q
<1>5. Replay(p) = m
  BY <1>1, <1>3, <1>4
<1>6. ASSUME NEW i \in 1..Len(p.turns) PROVE TurnMatches(p.turns[i], m.turns[i])
  <2>1. p.turns[i] = FullTurn(m.turns[i]) /\ i \in 1..Len(m.turns)
    BY <1>2 DEF Tells
  <2> QED BY <1>2, <2>1, DumpedFields DEF TurnMatches
<1> QED BY <1>5, <1>6

\* The states along a transcript are those of the match it tells.
LEMMA TellsStates ==
  ASSUME NEW c \in GameConfigs, NEW p, p.config = c, p.initial_state = Initial(c),
         IsSeq(p.turns), NEW m, Tells(c, p, m)
  PROVE  /\ \A i \in 1..Len(p.turns) : StateBefore(p, i) = StateAfter(c, m.turns, i - 1)
         /\ FinalState(p) = m.state
<1>1. Played(c, m) /\ Len(m.turns) = Len(p.turns) /\ Len(p.turns) \in Nat
  BY SeqAppend DEF Tells
<1>2. ASSUME NEW i \in 1..Len(p.turns) PROVE p.turns[i].post_state = m.turns[i].post_state
  BY <1>1, DumpedFields DEF Tells
<1>3. ASSUME NEW i \in 1..Len(p.turns)
      PROVE  StateBefore(p, i) = StateAfter(c, m.turns, i - 1)
  <2>1. CASE i = 1
    BY <2>1 DEF StateBefore, StateAfter
  <2>2. CASE i # 1
    <3>1. i - 1 \in 1..Len(p.turns) /\ i - 1 # 0
      BY <1>1, <2>2
    <3> QED BY <1>2, <2>2, <3>1 DEF StateBefore, StateAfter
  <2> QED BY <2>1, <2>2
<1>4. FinalState(p) = m.state
  <2>1. m.state = StateAfter(c, m.turns, Len(p.turns))
    BY <1>1, MatchIs
  <2>2. p.turns = <<>> <=> Len(p.turns) = 0
    <3>1. PICK T : p.turns \in Seq(T)
      BY DEF IsSeq
    <3> QED BY <3>1
  <2>3. CASE Len(p.turns) = 0
    BY <2>1, <2>2, <2>3 DEF FinalState, StateAfter
  <2>4. CASE Len(p.turns) # 0
    <3>1. Len(p.turns) \in 1..Len(p.turns)
      BY <1>1, <2>4
    <3> QED BY <1>2, <2>1, <2>2, <2>4, <3>1 DEF FinalState, StateAfter
  <2> QED BY <2>3, <2>4
<1> QED BY <1>3, <1>4

\* A transcript of moves tells a match, and only such a one does.
LEMMA MovesTell ==
  ASSUME NEW c \in GameConfigs, NEW p, p.config = c, p.initial_state = Initial(c),
         IsSeq(p.turns), \A i \in 1..Len(p.turns) : Recorded(c, p.turns[i]),
         \A i \in 1..Len(p.turns) : IsMove(p, i)
  PROVE  \E m : Tells(c, p, m)
<1> DEFINE N == Len(p.turns)
           Of(i, u) == Made(c, StateBefore(p, i), u) /\ p.turns[i] = FullTurn(u)
           g == [i \in 1..N |-> CHOOSE u : Of(i, u)]
<1>1. N \in Nat /\ DOMAIN p.turns = 1..N
  BY SeqAppend
<1>2. ASSUME NEW i \in 1..N PROVE StateBefore(p, i) \in StatesOf(c)
  <2>1. CASE i = 1
    BY <2>1, GameStarts DEF StateBefore
  <2>2. CASE i # 1
    <3>1. i - 1 \in 1..N
      BY <1>1, <2>2
    <3> QED BY <2>2, <3>1 DEF StateBefore, Recorded
  <2> QED BY <2>1, <2>2
<1>3. ASSUME NEW i \in 1..N PROVE Of(i, g[i])
  <2>1. \E u : Of(i, u)
    <3>1. StateBefore(p, i) \in StatesOf(c)
      BY <1>2
    <3> QED BY <3>1, MoveIs
  <2> HIDE DEF Of
  <2> QED BY <2>1
<1>4. g = [i \in 1..N |-> g[i]]
  OBVIOUS
<1> HIDE DEF g
<1>5. IsSeq(g) /\ Len(g) = N /\ DOMAIN g = 1..N
  BY <1>1, <1>4, ListOf
<1>6. ASSUME NEW i \in 1..N
      PROVE  /\ g[i].post_state = p.turns[i].post_state
             /\ g[i].post_state \in StatesOf(c) /\ g[i].result = Result(c, g[i].post_state)
  <2>1. /\ StateBefore(p, i) \in StatesOf(c) /\ Made(c, StateBefore(p, i), g[i])
        /\ p.turns[i] = FullTurn(g[i])
    BY <1>2, <1>3
  <2>2. FullTurn(g[i]).post_state = g[i].post_state
    BY <2>1, DumpedTurn
  <2>3. g[i].post_state \in StatesOf(c) /\ g[i].result = Result(c, g[i].post_state)
    BY <2>1, MadeIs
  <2> QED BY <2>1, <2>2, <2>3
<1>7. ASSUME NEW i \in 1..N PROVE StateAfter(c, g, i - 1) = StateBefore(p, i)
  <2>1. CASE i = 1
    BY <2>1 DEF StateBefore, StateAfter
  <2>2. CASE i # 1
    <3>1. i - 1 \in 1..N /\ i - 1 # 0
      BY <1>1, <2>2
    <3> QED BY <1>6, <2>2, <3>1 DEF StateBefore, StateAfter
  <2> QED BY <2>1, <2>2
<1>8. IsPlayed(c, g)
  BY <1>3, <1>5, <1>6, <1>7 DEF IsPlayed
<1> DEFINE m == MatchOf(c, g)
<1>9. m.turns = g
  BY DEF MatchOf
<1>10. Played(c, m)
  BY <1>8, <1>9 DEF Played
<1> HIDE DEF m
<1>11. Tells(c, p, m)
  BY <1>3, <1>5, <1>9, <1>10 DEF Tells
<1> QED BY <1>11

\* Each turn of a transcript that tells a match is a move.
LEMMA TellsMoves ==
  ASSUME NEW c \in GameConfigs, NEW p, p.config = c, p.initial_state = Initial(c),
         IsSeq(p.turns), NEW m, Tells(c, p, m), NEW i \in 1..Len(p.turns)
  PROVE  IsMove(p, i)
<1>1. Played(c, m) /\ Len(m.turns) = Len(p.turns) /\ p.turns[i] = FullTurn(m.turns[i])
  BY DEF Tells
<1> DEFINE s == StateAfter(c, m.turns, i - 1)
<1>2. s \in StatesOf(c) /\ Made(c, s, m.turns[i])
  BY <1>1, TurnsMade
<1>3. s = StateBefore(p, i)
  BY TellsStates
<1> HIDE DEF s
<1> QED BY <1>1, <1>2, <1>3, MoveIs

\* What a well-shaped turn asks of the version of its transcript.
LEMMA ShapeNeeds ==
  ASSUME NEW t, TurnShape(t, 4), NEW v \in 1..4
  PROVE  TurnShape(t, v) <=>
           /\ t.kind = "joint" => v = 4
           /\ v < 3 => \A j \in DOMAIN t.events : t.events[j].audience = {}
           /\ t.kind = "chance" => v >= 2
<1>1. ASSUME NEW j \in DOMAIN t.events
      PROVE  EventShape(t.events[j], v) <=> (v < 3 => t.events[j].audience = {})
  <2>1. t.events[j].is_public <=> t.events[j].audience = {}
    BY DEF TurnShape, EventShape
  <2> QED BY <2>1 DEF EventShape
<1>2. (\A j \in DOMAIN t.events : EventShape(t.events[j], v))
        <=> (v < 3 => \A j \in DOMAIN t.events : t.events[j].audience = {})
  BY <1>1
<1>3. CASE t.kind = "chance"
  BY <1>2, <1>3 DEF TurnShape
<1>4. CASE t.kind = "action"
  BY <1>2, <1>4 DEF TurnShape
<1>5. CASE t.kind = "joint"
  BY <1>2, <1>5 DEF TurnShape
<1> QED BY <1>3, <1>4, <1>5 DEF TurnShape

\* The versions a transcript of well-shaped turns is accepted under.
LEMMA VersionsAre ==
  ASSUME NEW p, \A i \in DOMAIN p.turns : TurnShape(p.turns[i], 4), NEW v \in 0..5
  PROVE  (v \in 1..4 /\ \A i \in DOMAIN p.turns : TurnShape(p.turns[i], v))
           <=> v \in NeedsVersion(p)..4
<1> DEFINE joint == \E i \in DOMAIN p.turns : p.turns[i].kind = "joint"
           hidden == \E i \in DOMAIN p.turns : \E j \in DOMAIN p.turns[i].events :
                        p.turns[i].events[j].audience # {}
           chance == \E i \in DOMAIN p.turns : p.turns[i].kind = "chance"
<1>1. ASSUME v \in 1..4
      PROVE  (\A i \in DOMAIN p.turns : TurnShape(p.turns[i], v))
               <=> (joint => v = 4) /\ (v < 3 => ~hidden) /\ (chance => v >= 2)
  <2>1. ASSUME NEW i \in DOMAIN p.turns
        PROVE  TurnShape(p.turns[i], v) <=>
                 /\ p.turns[i].kind = "joint" => v = 4
                 /\ v < 3 => \A j \in DOMAIN p.turns[i].events : p.turns[i].events[j].audience = {}
                 /\ p.turns[i].kind = "chance" => v >= 2
    BY <1>1, ShapeNeeds
  <2> QED BY <2>1
<1>2. NeedsVersion(p) = IF joint THEN 4 ELSE IF hidden THEN 3 ELSE IF chance THEN 2 ELSE 1
  BY DEF NeedsVersion
<1> HIDE DEF joint, hidden, chance
<1>3. v \in NeedsVersion(p)..4
        <=> v \in 1..4 /\ (joint => v = 4) /\ (v < 3 => ~hidden) /\ (chance => v >= 2)
  <2>1. CASE joint
    BY <1>2, <2>1
  <2>2. CASE ~joint /\ hidden
    BY <1>2, <2>2
  <2>3. CASE ~joint /\ ~hidden /\ chance
    BY <1>2, <2>3
  <2>4. CASE ~joint /\ ~hidden /\ ~chance
    BY <1>2, <2>4
  <2> QED BY <2>1, <2>2, <2>3, <2>4
<1> QED BY <1>1, <1>3

\* A transcript that was altered: of a match of this game, from its own start,
\* and every turn of it recorded.
Altered(c, p) ==
  /\ p.game_id = c.game /\ p.config = c /\ p.initial_state = Initial(c)
  /\ p.viewer_seat = NoSeat /\ p.schema_version \in 0..5
  /\ IsSeq(p.turns) /\ \A i \in 1..Len(p.turns) : Recorded(c, p.turns[i])

\* It loads if it says it is full, and its version has all it uses.
LEMMA AlteredLoads ==
  ASSUME NEW c \in GameConfigs, NEW p, Altered(c, p)
  PROVE  Loads(c, p) <=>
           /\ p.view = "full" /\ p.schema_version \in 1..4
           /\ \A i \in DOMAIN p.turns : TurnShape(p.turns[i], p.schema_version)
<1>1. /\ p.game_id = c.game /\ p.config = c /\ p.initial_state = Initial(c)
      /\ p.viewer_seat = NoSeat /\ DOMAIN p.turns = 1..Len(p.turns)
  BY SeqAppend DEF Altered
<1>2. ASSUME NEW i \in DOMAIN p.turns
      PROVE  /\ p.turns[i].kind = "action" => p.turns[i].action \in Actions(c)
             /\ GameState(c, p.turns[i].post_state)
  <2>1. Recorded(c, p.turns[i])
    BY <1>1 DEF Altered
  <2>2. p.turns[i].kind = "action" => p.turns[i].action \in Actions(c)
    BY <2>1, RecordedIs
  <2>3. p.turns[i].post_state \in StatesOf(c)
    BY <2>1 DEF Recorded
  <2> QED BY <2>2, <2>3, GameAgrees DEF VALID_SEATS
<1>3. GameState(c, Initial(c))
  BY GameStarts, GameAgrees DEF VALID_SEATS
<1>4. p.view = "full" => (p.view = "seat" <=> p.viewer_seat # NoSeat)
  BY <1>1
<1> QED BY <1>1, <1>2, <1>3, <1>4 DEF Loads, TranscriptShape, MATCH_TRANSCRIPT_SCHEMA_VERSION

\* An altered transcript validates exactly when it is itself a play.
LEMMA AlteredIs ==
  ASSUME NEW c \in GameConfigs, NEW p, Altered(c, p)
  PROVE  Validates(c, p) <=> IsPlay(p)
<1>1. /\ p.config = c /\ p.initial_state = Initial(c) /\ IsSeq(p.turns)
      /\ p.schema_version \in 0..5
      /\ Len(p.turns) \in Nat /\ DOMAIN p.turns = 1..Len(p.turns)
      /\ \A i \in 1..Len(p.turns) : Recorded(c, p.turns[i])
  BY SeqAppend DEF Altered
<1>2. Validates(c, p) <=>
        /\ Loads(c, p) /\ Replay(p) # Refused
        /\ ~Chance(Replay(p).config, Replay(p).state)
        /\ Len(Replay(p).turns) = Len(p.turns)
        /\ \A i \in DOMAIN p.turns : TurnMatches(p.turns[i], Replay(p).turns[i])
  BY <1>1 DEF Validates, Replays
<1>3. ASSUME NEW m, Tells(c, p, m)
      PROVE  /\ (p.schema_version \in 1..4
                   /\ \A i \in DOMAIN p.turns : TurnShape(p.turns[i], p.schema_version))
                  <=> p.schema_version \in NeedsVersion(p)..4
             /\ m # Refused /\ m.config = c /\ FinalState(p) = m.state /\ Replay(p) = m
             /\ Len(m.turns) = Len(p.turns)
             /\ \A i \in DOMAIN p.turns : TurnMatches(p.turns[i], m.turns[i])
             /\ \A i \in DOMAIN p.turns : IsMove(p, i)
  <2>1. Played(c, m) /\ Len(m.turns) = Len(p.turns)
    BY <1>3 DEF Tells
  <2>2. \A i \in DOMAIN p.turns : TurnShape(p.turns[i], 4)
    BY <1>1, <1>3, <2>1, DumpedFields DEF Tells
  <2>3. m # Refused /\ m.config = c
    <3>1. m = MatchOf(c, m.turns)
      BY <2>1 DEF Played
    <3> QED BY <2>1, <3>1, NotRefused, MatchIs
  <2>4. FinalState(p) = m.state
    BY <1>1, <1>3, TellsStates
  <2>5. Replay(p) = m /\ \A i \in DOMAIN p.turns : TurnMatches(p.turns[i], m.turns[i])
    BY <1>1, <1>3, TellsReplays
  <2>6. \A i \in DOMAIN p.turns : IsMove(p, i)
    BY <1>1, <1>3, TellsMoves
  <2>7. (p.schema_version \in 1..4
           /\ \A i \in DOMAIN p.turns : TurnShape(p.turns[i], p.schema_version))
          <=> p.schema_version \in NeedsVersion(p)..4
    BY <1>1, <2>2, VersionsAre
  <2> QED BY <2>1, <2>3, <2>4, <2>5, <2>6, <2>7
<1>4. ASSUME Validates(c, p) PROVE IsPlay(p)
  <2> DEFINE m == Replay(p)
  <2>1. /\ Loads(c, p) /\ m # Refused /\ ~Chance(m.config, m.state)
        /\ \A i \in DOMAIN p.turns : TurnMatches(p.turns[i], m.turns[i])
    BY <1>2, <1>4
  <2>2. Retold(c, p, m, Len(p.turns))
    BY <1>1, <2>1, ReplayRetold
  <2>3. Tells(c, p, m)
    BY <1>1, <2>1, <2>2 DEF Tells, Retold
  <2>4. /\ p.view = "full" /\ p.schema_version \in 1..4
        /\ \A i \in DOMAIN p.turns : TurnShape(p.turns[i], p.schema_version)
    BY <2>1, AlteredLoads
  <2> HIDE DEF m
  <2>5. /\ p.schema_version \in NeedsVersion(p)..4 /\ m.config = c /\ FinalState(p) = m.state
        /\ \A i \in DOMAIN p.turns : IsMove(p, i)
    BY <1>3, <2>3, <2>4
  <2> QED BY <1>1, <2>1, <2>4, <2>5 DEF IsPlay, MATCH_TRANSCRIPT_SCHEMA_VERSION
<1>5. ASSUME IsPlay(p) PROVE Validates(c, p)
  <2>1. /\ p.view = "full" /\ p.schema_version \in NeedsVersion(p)..4
        /\ \A i \in DOMAIN p.turns : IsMove(p, i)
        /\ ~Chance(c, FinalState(p))
    BY <1>1, <1>5 DEF IsPlay, MATCH_TRANSCRIPT_SCHEMA_VERSION
  <2>2. PICK m : Tells(c, p, m)
    BY <1>1, <2>1, MovesTell
  <2>3. Loads(c, p)
    BY <1>3, <2>1, <2>2, AlteredLoads
  <2> QED BY <1>2, <1>3, <2>1, <2>2, <2>3
<1> QED BY <1>4, <1>5

\* The record of a match, turn by turn.
LEMMA FullAltered ==
  ASSUME NEW c \in GameConfigs, NEW m, Played(c, m), NEW p, p = FullTranscript(m)
  PROVE  /\ Altered(c, p) /\ p.view = "full"
         /\ p = [game_id |-> p.game_id, schema_version |-> p.schema_version,
                 config |-> p.config, initial_state |-> p.initial_state, turns |-> p.turns,
                 view |-> p.view, viewer_seat |-> p.viewer_seat]
<1>1. /\ p.game_id = c.game /\ p.schema_version = 4 /\ p.config = c
      /\ p.initial_state = Initial(c) /\ p.view = "full" /\ p.viewer_seat = NoSeat
      /\ IsSeq(p.turns) /\ Len(p.turns) = Len(m.turns)
      /\ \A i \in 1..Len(m.turns) : p.turns[i] = FullTurn(m.turns[i])
  BY FullIs
<1>2. ASSUME NEW i \in 1..Len(m.turns) PROVE Recorded(c, p.turns[i])
  <2> DEFINE u == m.turns[i]
             s == StateAfter(c, m.turns, i - 1)
             t == p.turns[i]
  <2>1. s \in StatesOf(c) /\ Made(c, s, u) /\ u.post_state \in StatesOf(c)
    BY TurnsMade
  <2>2. t = FullTurn(u)
    BY <1>1
  <2> HIDE DEF s, u, t
  <2>3. FullTurn(u) = [kind |-> u.kind, seat |-> u.seat, action |-> u.action,
                       actions |-> u.actions, outcome |-> u.outcome,
                       events |-> DumpEvents(u.events), result |-> u.result,
                       post_state |-> u.post_state]
    BY <2>1, DumpedTurn
  <2>4. t.events = DumpEvents(u.events) /\ t.result = u.result /\ t.post_state = u.post_state
    BY <2>2, <2>3
  <2>5. t = [kind |-> u.kind, seat |-> u.seat, action |-> u.action,
             actions |-> u.actions, outcome |-> u.outcome, events |-> t.events,
             result |-> t.result, post_state |-> t.post_state]
    BY <2>2, <2>3, <2>4
  <2>6. Recorded(c, t)
    BY <2>1, <2>4, <2>5 DEF Recorded
  <2> QED BY <2>6 DEF t
<1>3. 4 \in 0..5
  OBVIOUS
<1>4. Altered(c, p)
  BY <1>1, <1>2, <1>3 DEF Altered
<1>5. p = [game_id |-> p.game_id, schema_version |-> p.schema_version,
           config |-> p.config, initial_state |-> p.initial_state, turns |-> p.turns,
           view |-> p.view, viewer_seat |-> p.viewer_seat]
  <2> DEFINE ts == [i \in DOMAIN m.turns |-> [m.turns[i] EXCEPT !.events = DumpEvents(@)]]
  <2>1. p = [game_id |-> m.config.game, schema_version |-> MATCH_TRANSCRIPT_SCHEMA_VERSION,
             config |-> m.config, initial_state |-> m.initial_state, turns |-> ts,
             view |-> "full", viewer_seat |-> NoSeat]
    BY DEF FullTranscript
  <2> HIDE DEF ts
  <2> QED BY <2>1
<1> QED BY <1>1, <1>4, <1>5

\* A record stays an altered one under other recorded turns, version or view.
LEMMA AlteredTurns ==
  ASSUME NEW c \in GameConfigs, NEW p, Altered(c, p),
         p = [game_id |-> p.game_id, schema_version |-> p.schema_version,
              config |-> p.config, initial_state |-> p.initial_state, turns |-> p.turns,
              view |-> p.view, viewer_seat |-> p.viewer_seat],
         NEW turns, IsSeq(turns), \A i \in 1..Len(turns) : Recorded(c, turns[i])
  PROVE  Altered(c, [p EXCEPT !.turns = turns])
<1> DEFINE q == [p EXCEPT !.turns = turns]
<1>1. /\ q.game_id = p.game_id /\ q.config = p.config /\ q.initial_state = p.initial_state
      /\ q.viewer_seat = p.viewer_seat /\ q.schema_version = p.schema_version
      /\ q.turns = turns
  OBVIOUS
<1> HIDE DEF q
<1>2. Altered(c, q)
  BY <1>1 DEF Altered
<1> QED BY <1>2 DEF q

\* A record stays an altered one under another version, or as a public view.
LEMMA AlteredRest ==
  ASSUME NEW c \in GameConfigs, NEW p, Altered(c, p),
         p = [game_id |-> p.game_id, schema_version |-> p.schema_version,
              config |-> p.config, initial_state |-> p.initial_state, turns |-> p.turns,
              view |-> p.view, viewer_seat |-> p.viewer_seat]
  PROVE  /\ \A v \in 0..5 : Altered(c, [p EXCEPT !.schema_version = v])
         /\ Altered(c, [p EXCEPT !.view = "public"])
<1>1. ASSUME NEW v \in 0..5 PROVE Altered(c, [p EXCEPT !.schema_version = v])
  <2> DEFINE q == [p EXCEPT !.schema_version = v]
  <2>1. /\ q.game_id = p.game_id /\ q.config = p.config /\ q.initial_state = p.initial_state
        /\ q.viewer_seat = p.viewer_seat /\ q.schema_version = v /\ q.turns = p.turns
    OBVIOUS
  <2> HIDE DEF q
  <2>2. Altered(c, q)
    BY <2>1 DEF Altered
  <2> QED BY <2>2 DEF q
<1>2. Altered(c, [p EXCEPT !.view = "public"])
  <2> DEFINE q == [p EXCEPT !.view = "public"]
  <2>1. /\ q.game_id = p.game_id /\ q.config = p.config /\ q.initial_state = p.initial_state
        /\ q.viewer_seat = p.viewer_seat /\ q.schema_version = p.schema_version
        /\ q.turns = p.turns
    OBVIOUS
  <2> HIDE DEF q
  <2>2. Altered(c, q)
    BY <2>1 DEF Altered
  <2> QED BY <2>2 DEF q
<1> QED BY <1>1, <1>2

\* A list of recorded turns.
AllRecorded(c, turns) == IsSeq(turns) /\ \A i \in 1..Len(turns) : Recorded(c, turns[i])

\* Turns dropped, repeated or exchanged are recorded ones.
LEMMA ShiftedRecorded ==
  ASSUME NEW c \in GameConfigs, NEW turns, AllRecorded(c, turns), NEW i \in 1..Len(turns)
  PROVE  /\ AllRecorded(c, Without(turns, i))
         /\ AllRecorded(c, Twice(turns, i))
         /\ i # Len(turns) => AllRecorded(c, Swapped(turns, i))
<1> DEFINE n == Len(turns)
<1>1. n \in Nat /\ DOMAIN turns = 1..n /\ turns = [j \in 1..n |-> turns[j]] /\ n >= 1
  <2>1. PICK T : turns \in Seq(T)
    BY DEF AllRecorded, IsSeq
  <2> QED BY <2>1
<1>2. \A j \in 1..n : Recorded(c, turns[j])
  BY DEF AllRecorded
<1>3. AllRecorded(c, Without(turns, i))
  <2> DEFINE x == Without(turns, i)
  <2>1. x = [j \in 1..(n - 1) |-> x[j]] /\ n - 1 \in Nat
    BY <1>1 DEF Without
  <2>2. ASSUME NEW j \in 1..(n - 1) PROVE \E k \in 1..n : x[j] = turns[k]
    <3>1. x[j] = IF j < i THEN turns[j] ELSE turns[j + 1]
      BY DEF Without
    <3>2. j \in 1..n /\ j + 1 \in 1..n
      BY <1>1
    <3> QED BY <3>1, <3>2
  <2> HIDE DEF x
  <2>3. IsSeq(x) /\ Len(x) = n - 1
    BY <2>1, ListOf
  <2>4. AllRecorded(c, x)
    BY <1>2, <2>2, <2>3 DEF AllRecorded
  <2> QED BY <2>4 DEF x
<1>4. AllRecorded(c, Twice(turns, i))
  <2> DEFINE x == Twice(turns, i)
  <2>1. x = [j \in 1..(n + 1) |-> x[j]] /\ n + 1 \in Nat
    BY <1>1 DEF Twice
  <2>2. ASSUME NEW j \in 1..(n + 1) PROVE \E k \in 1..n : x[j] = turns[k]
    <3>1. x[j] = IF j <= i THEN turns[j] ELSE turns[j - 1]
      BY DEF Twice
    <3>2. IF j <= i THEN j \in 1..n ELSE j - 1 \in 1..n
      BY <1>1
    <3> QED BY <3>1, <3>2
  <2> HIDE DEF x
  <2>3. IsSeq(x) /\ Len(x) = n + 1
    BY <2>1, ListOf
  <2>4. AllRecorded(c, x)
    BY <1>2, <2>2, <2>3 DEF AllRecorded
  <2> QED BY <2>4 DEF x
<1>5. ASSUME i # n PROVE AllRecorded(c, Swapped(turns, i))
  <2> DEFINE x == Swapped(turns, i)
  <2>1. i + 1 \in 1..n
    BY <1>1, <1>5
  <2>2. x = [j \in 1..n |-> x[j]]
    BY <1>1 DEF Swapped
  <2>3. ASSUME NEW j \in 1..n PROVE \E k \in 1..n : x[j] = turns[k]
    <3>1. x[j] = IF j = i + 1 THEN turns[i] ELSE IF j = i THEN turns[i + 1] ELSE turns[j]
      BY <1>1, <2>1 DEF Swapped
    <3> QED BY <2>1, <3>1
  <2> HIDE DEF x
  <2>4. IsSeq(x) /\ Len(x) = n
    BY <1>1, <2>2, ListOf
  <2>5. AllRecorded(c, x)
    BY <1>2, <2>3, <2>4 DEF AllRecorded
  <2> QED BY <2>5 DEF x
<1> QED BY <1>3, <1>4, <1>5

\* A turn stays recorded under other events, another result, another state.
LEMMA RecordedOther ==
  ASSUME NEW c, NEW t, Recorded(c, t), NEW x, x.post_state \in StatesOf(c),
         x = [kind |-> t.kind, seat |-> t.seat, action |-> t.action, actions |-> t.actions,
              outcome |-> t.outcome, events |-> x.events, result |-> x.result,
              post_state |-> x.post_state]
  PROVE  Recorded(c, x)
<1>1. PICK s, u :
        /\ s \in StatesOf(c) /\ Made(c, s, u)
        /\ t = [kind |-> u.kind, seat |-> u.seat, action |-> u.action, actions |-> u.actions,
                outcome |-> u.outcome, events |-> t.events, result |-> t.result,
                post_state |-> t.post_state]
  BY DEF Recorded
<1>2. /\ t.kind = u.kind /\ t.seat = u.seat /\ t.action = u.action /\ t.actions = u.actions
      /\ t.outcome = u.outcome
  BY <1>1
<1>3. x = [kind |-> u.kind, seat |-> u.seat, action |-> u.action, actions |-> u.actions,
           outcome |-> u.outcome, events |-> x.events, result |-> x.result,
           post_state |-> x.post_state]
  BY <1>2
<1> QED BY <1>1, <1>3 DEF Recorded

\* One recorded turn put in the place of another.
LEMMA OtherTurnRecorded ==
  ASSUME NEW c \in GameConfigs, NEW turns, AllRecorded(c, turns), NEW i \in 1..Len(turns),
         NEW t, Recorded(c, t)
  PROVE  AllRecorded(c, [turns EXCEPT ![i] = t])
<1> DEFINE n == Len(turns)
           x == [turns EXCEPT ![i] = t]
<1>1. n \in Nat /\ DOMAIN turns = 1..n
  BY SeqAppend DEF AllRecorded
<1>2. turns = [j \in 1..n |-> turns[j]]
  <2>1. PICK T : turns \in Seq(T)
    BY DEF AllRecorded, IsSeq
  <2> QED BY <2>1
<1>3. /\ x = [j \in 1..n |-> x[j]] /\ x[i] = t
      /\ \A j \in 1..n : j # i => x[j] = turns[j]
  BY <1>1, <1>2
<1> HIDE DEF x
<1>4. IsSeq(x) /\ Len(x) = n
  BY <1>1, <1>3, ListOf
<1>5. AllRecorded(c, x)
  BY <1>3, <1>4 DEF AllRecorded
<1> QED BY <1>5 DEF x

\* The fields of a recorded turn told otherwise.
LEMMA ToldOtherwise ==
  ASSUME NEW c \in GameConfigs, NEW t, Recorded(c, t)
  PROVE  /\ \A r : Recorded(c, [t EXCEPT !.result = r])
         /\ Recorded(c, [t EXCEPT !.post_state = Initial(c)])
         /\ \A es : Recorded(c, [t EXCEPT !.events = es])
<1>1. t = [kind |-> t.kind, seat |-> t.seat, action |-> t.action, actions |-> t.actions,
           outcome |-> t.outcome, events |-> t.events, result |-> t.result,
           post_state |-> t.post_state]
  BY RecordedForm
<1>2. t.post_state \in StatesOf(c) /\ Initial(c) \in StatesOf(c)
  BY GameStarts DEF Recorded
<1>3. ASSUME NEW r PROVE Recorded(c, [t EXCEPT !.result = r])
  <2> DEFINE x == [t EXCEPT !.result = r]
  <2>1. /\ x = [kind |-> t.kind, seat |-> t.seat, action |-> t.action, actions |-> t.actions,
                outcome |-> t.outcome, events |-> x.events, result |-> x.result,
                post_state |-> x.post_state]
        /\ x.post_state = t.post_state
    BY <1>1
  <2> HIDE DEF x
  <2>2. Recorded(c, x)
    BY <1>2, <2>1, RecordedOther
  <2> QED BY <2>2 DEF x
<1>4. Recorded(c, [t EXCEPT !.post_state = Initial(c)])
  <2> DEFINE x == [t EXCEPT !.post_state = Initial(c)]
  <2>1. /\ x = [kind |-> t.kind, seat |-> t.seat, action |-> t.action, actions |-> t.actions,
                outcome |-> t.outcome, events |-> x.events, result |-> x.result,
                post_state |-> x.post_state]
        /\ x.post_state = Initial(c)
    BY <1>1
  <2> HIDE DEF x
  <2>2. Recorded(c, x)
    BY <1>2, <2>1, RecordedOther
  <2> QED BY <2>2 DEF x
<1>5. ASSUME NEW es PROVE Recorded(c, [t EXCEPT !.events = es])
  <2> DEFINE x == [t EXCEPT !.events = es]
  <2>1. /\ x = [kind |-> t.kind, seat |-> t.seat, action |-> t.action, actions |-> t.actions,
                outcome |-> t.outcome, events |-> x.events, result |-> x.result,
                post_state |-> x.post_state]
        /\ x.post_state = t.post_state
    BY <1>1
  <2> HIDE DEF x
  <2>2. Recorded(c, x)
    BY <1>2, <2>1, RecordedOther
  <2> QED BY <2>2 DEF x
<1> QED BY <1>3, <1>4, <1>5

\* One turn told otherwise leaves recorded ones.
LEMMA ToldRecorded ==
  ASSUME NEW c \in GameConfigs, NEW turns, AllRecorded(c, turns), NEW i \in 1..Len(turns)
  PROVE  /\ \A r : AllRecorded(c, [turns EXCEPT ![i].result = r])
         /\ AllRecorded(c, [turns EXCEPT ![i].post_state = Initial(c)])
         /\ \A b : AllRecorded(c, Addressed(turns, i, b))
<1>1. Recorded(c, turns[i]) /\ DOMAIN turns = 1..Len(turns)
  BY SeqAppend DEF AllRecorded
<1>2. ASSUME NEW r PROVE AllRecorded(c, [turns EXCEPT ![i].result = r])
  <2> DEFINE t == [turns[i] EXCEPT !.result = r]
  <2>1. Recorded(c, t)
    BY <1>1, ToldOtherwise
  <2>2. [turns EXCEPT ![i].result = r] = [turns EXCEPT ![i] = t]
    BY <1>1
  <2> HIDE DEF t
  <2> QED BY <2>1, <2>2, OtherTurnRecorded
<1>3. AllRecorded(c, [turns EXCEPT ![i].post_state = Initial(c)])
  <2> DEFINE t == [turns[i] EXCEPT !.post_state = Initial(c)]
  <2>1. Recorded(c, t)
    BY <1>1, ToldOtherwise
  <2>2. [turns EXCEPT ![i].post_state = Initial(c)] = [turns EXCEPT ![i] = t]
    BY <1>1
  <2> HIDE DEF t
  <2> QED BY <2>1, <2>2, OtherTurnRecorded
<1>4. ASSUME NEW b PROVE AllRecorded(c, Addressed(turns, i, b))
  <2> DEFINE es == [turns[i].events EXCEPT ![1].audience = {0}]
             t == [turns[i] EXCEPT !.events = es]
             first == [turns EXCEPT ![i] = t]
             fs == [first[i].events EXCEPT ![1].is_public = b]
             u == [first[i] EXCEPT !.events = fs]
  <2>1. Recorded(c, t)
    BY <1>1, ToldOtherwise
  <2>2. [turns EXCEPT ![i].events[1].audience = {0}] = first
    BY <1>1
  <2>3. AllRecorded(c, first)
    <3> HIDE DEF t
    <3> QED BY <2>1, OtherTurnRecorded
  <2>4. DOMAIN first = DOMAIN turns
    OBVIOUS
  <2>5. Addressed(turns, i, b)
          = [[turns EXCEPT ![i].events[1].audience = {0}] EXCEPT ![i].events[1].is_public = b]
    BY DEF Addressed
  <2> HIDE DEF first
  <2>6. DOMAIN first = 1..Len(first) /\ i \in 1..Len(first)
    <3>1. DOMAIN first = 1..Len(first)
      BY <2>3, SeqAppend DEF AllRecorded
    <3> QED BY <1>1, <2>4, <3>1
  <2>7. Recorded(c, first[i])
    BY <2>3, <2>6 DEF AllRecorded
  <2>8. Recorded(c, u)
    BY <2>7, ToldOtherwise
  <2>9. [first EXCEPT ![i].events[1].is_public = b] = [first EXCEPT ![i] = u]
    BY <2>6
  <2> HIDE DEF u
  <2>10. AllRecorded(c, [first EXCEPT ![i] = u])
    BY <2>3, <2>6, <2>8, OtherTurnRecorded
  <2> QED BY <2>2, <2>5, <2>9, <2>10
<1> QED BY <1>2, <1>3, <1>4

\* Whatever is done to the record of a match leaves an altered one.
LEMMA TamperedAltered ==
  ASSUME NEW c \in GameConfigs, NEW m, Played(c, m), NEW p, p = FullTranscript(m),
         NEW q \in Tampered(p)
  PROVE  Altered(c, q)
<1> DEFINE n == Len(p.turns)
<1>1. /\ Altered(c, p)
      /\ p = [game_id |-> p.game_id, schema_version |-> p.schema_version,
              config |-> p.config, initial_state |-> p.initial_state, turns |-> p.turns,
              view |-> p.view, viewer_seat |-> p.viewer_seat]
  BY FullAltered
<1>2. AllRecorded(c, p.turns) /\ p.initial_state = Initial(c)
  BY <1>1 DEF Altered, AllRecorded
<1>3. ASSUME NEW turns, AllRecorded(c, turns) PROVE Altered(c, [p EXCEPT !.turns = turns])
  BY <1>1, <1>3, AlteredTurns DEF AllRecorded
<1>4. Touched(n) \subseteq 1..n
  BY DEF Touched
<1>5. CASE \E i \in Touched(n) :
             \/ q = [p EXCEPT !.turns = Without(p.turns, i)]
             \/ q = [p EXCEPT !.turns = Twice(p.turns, i)]
             \/ i # n /\ q = [p EXCEPT !.turns = Swapped(p.turns, i)]
  <2>1. PICK i \in 1..n :
             \/ q = [p EXCEPT !.turns = Without(p.turns, i)]
             \/ q = [p EXCEPT !.turns = Twice(p.turns, i)]
             \/ i # n /\ q = [p EXCEPT !.turns = Swapped(p.turns, i)]
    BY <1>4, <1>5
  <2>2. /\ AllRecorded(c, Without(p.turns, i)) /\ AllRecorded(c, Twice(p.turns, i))
        /\ i # n => AllRecorded(c, Swapped(p.turns, i))
    BY <1>2, ShiftedRecorded
  <2> QED BY <1>3, <2>1, <2>2
<1>6. CASE \E i \in Touched(n), r \in {Win(0), Draw, NoResult} :
             q = [p EXCEPT !.turns = [p.turns EXCEPT ![i].result = r]]
  <2>1. PICK i \in 1..n, r \in {Win(0), Draw, NoResult} :
             q = [p EXCEPT !.turns = [p.turns EXCEPT ![i].result = r]]
    BY <1>4, <1>6
  <2>2. AllRecorded(c, [p.turns EXCEPT ![i].result = r])
    BY <1>2, ToldRecorded
  <2> QED BY <1>3, <2>1, <2>2
<1>7. CASE \E i \in Touched(n) :
             q = [p EXCEPT !.turns = [p.turns EXCEPT ![i].post_state = p.initial_state]]
  <2>1. PICK i \in 1..n :
             q = [p EXCEPT !.turns = [p.turns EXCEPT ![i].post_state = Initial(c)]]
    BY <1>2, <1>4, <1>7
  <2>2. AllRecorded(c, [p.turns EXCEPT ![i].post_state = Initial(c)])
    BY <1>2, ToldRecorded
  <2> QED BY <1>3, <2>1, <2>2
<1>8. CASE \E i \in Touched(n), b \in BOOLEAN : q = [p EXCEPT !.turns = Addressed(p.turns, i, b)]
  <2>1. PICK i \in 1..n, b \in BOOLEAN : q = [p EXCEPT !.turns = Addressed(p.turns, i, b)]
    BY <1>4, <1>8
  <2>2. AllRecorded(c, Addressed(p.turns, i, b))
    BY <1>2, ToldRecorded
  <2> QED BY <1>3, <2>1, <2>2
<1>9. CASE (\E v \in 0..5 : q = [p EXCEPT !.schema_version = v]) \/ q = [p EXCEPT !.view = "public"]
  <2>1. CASE \E v \in 0..5 : q = [p EXCEPT !.schema_version = v]
    <3>1. PICK v \in 0..5 : q = [p EXCEPT !.schema_version = v]
      BY <2>1
    <3>2. Altered(c, [p EXCEPT !.schema_version = v])
      BY <1>1, AlteredRest
    <3> QED BY <3>1, <3>2
  <2>2. CASE q = [p EXCEPT !.view = "public"]
    BY <1>1, <2>2, AlteredRest
  <2> QED BY <1>9, <2>1, <2>2
<1> DEFINE Turned(new) == [p EXCEPT !.turns = new]
           dropped == {Turned(Without(p.turns, i)) : i \in Touched(n)}
           repeated == {Turned(Twice(p.turns, i)) : i \in Touched(n)}
           exchanged == {Turned(Swapped(p.turns, i)) : i \in Touched(n) \ {n}}
           results == {Turned([p.turns EXCEPT ![i].result = r]) :
                          i \in Touched(n), r \in {Win(0), Draw, NoResult}}
           states == {Turned([p.turns EXCEPT ![i].post_state = p.initial_state]) :
                          i \in Touched(n)}
           audiences == {Turned(Addressed(p.turns, i, b)) : i \in Touched(n), b \in BOOLEAN}
           versions == {[p EXCEPT !.schema_version = v] : v \in 0..5}
           views == {[p EXCEPT !.view = "public"]}
<1>10. Tampered(p) = dropped \cup repeated \cup exchanged \cup results \cup states
                        \cup audiences \cup versions \cup views
  BY DEF Tampered
<1>11. CASE q \in dropped \cup repeated \cup exchanged
  BY <1>5, <1>11
<1>12. CASE q \in results
  BY <1>6, <1>12
<1>13. CASE q \in states
  BY <1>7, <1>13
<1>14. CASE q \in audiences
  BY <1>8, <1>14
<1>15. CASE q \in versions \cup views
  BY <1>9, <1>15
<1> HIDE DEF dropped, repeated, exchanged, results, states, audiences, versions, views
<1> QED BY <1>10, <1>11, <1>12, <1>13, <1>14, <1>15

\* A finished record cut short is that of a match that is not over.
LEMMA ShortIsLive ==
  ASSUME NEW c \in GameConfigs, NEW m, Played(c, m), Terminal(c, m.state),
         NEW p, p = FullTranscript(m),
         NEW q, q.initial_state = p.initial_state, q.turns = Without(p.turns, Len(p.turns))
  PROVE  ~Terminal(c, FinalState(q))
<1> DEFINE n == Len(m.turns)
           s == StateAfter(c, m.turns, n - 1)
<1>0. n \in Nat
  BY MatchIs
<1>1. /\ p.initial_state = Initial(c) /\ Len(p.turns) = n
      /\ \A i \in 1..n : p.turns[i] = FullTurn(m.turns[i])
  BY FullIs
<1>2. n # 0
  <2>1. m.state = StateAfter(c, m.turns, n)
    BY MatchIs
  <2> QED BY <2>1, GameStarts DEF StateAfter
<1>3. n \in 1..n
  BY <1>0, <1>2
<1>4. s \in StatesOf(c) /\ Made(c, s, m.turns[n])
  BY <1>3, TurnsMade
<1>5. ~Terminal(c, s)
  <2> HIDE DEF s
  <2> QED BY <1>4, MadeIs
<1>6. FinalState(q) = s
  <2>1. q.turns = [j \in 1..(n - 1) |-> q.turns[j]]
        /\ \A j \in 1..(n - 1) : q.turns[j] = p.turns[j]
    BY <1>1 DEF Without
  <2>2. n - 1 \in Nat
    BY <1>0, <1>2
  <2>3. Len(q.turns) = n - 1 /\ IsSeq(q.turns)
    BY <2>1, <2>2, ListOf
  <2>4. q.turns = <<>> <=> n - 1 = 0
    <3>1. PICK T : q.turns \in Seq(T)
      BY <2>3 DEF IsSeq
    <3>2. q.turns = <<>> <=> Len(q.turns) = 0
      BY <3>1
    <3> QED BY <2>3, <3>2
  <2>5. CASE n - 1 = 0
    BY <1>1, <2>4, <2>5 DEF FinalState, StateAfter
  <2>6. CASE n - 1 # 0
    <3>1. n - 1 \in 1..n /\ n - 1 \in 1..(n - 1)
      <4>1. \A k \in Nat : k - 1 \in Nat /\ k - 1 # 0 =>
               k - 1 \in 1..k /\ k - 1 \in 1..(k - 1)
        OBVIOUS
      <4> HIDE DEF n
      <4> QED BY <1>0, <2>2, <2>6, <4>1
    <3>2. FinalState(q) = FullTurn(m.turns[n - 1]).post_state
      BY <1>1, <2>1, <2>3, <2>4, <2>6, <3>1 DEF FinalState
    <3>3. FullTurn(m.turns[n - 1]).post_state = m.turns[n - 1].post_state
      BY <3>1, DumpedFields
    <3> QED BY <2>6, <3>2, <3>3 DEF StateAfter
  <2> QED BY <2>5, <2>6
<1> QED BY <1>5, <1>6

\* TamperedIsRefused of a session that is as SessionOk says.
LEMMA TamperedHolds ==
  ASSUME SessionOk PROVE TamperedIsRefused
<1> SUFFICES ASSUME Saved, lifecycle = "finished" PROVE TamperedIsRefused
  BY DEF TamperedIsRefused
<1>1. /\ config \in GameConfigs /\ Played(config, TheMatch)
      /\ match = <<TheMatch>> /\ Terminal(config, TheMatch.state)
      /\ SavedRuntime = DumpRuntime(Session, FULL_VIEW)
      /\ SavedMatch = FullTranscript(TheMatch)
  BY SavedIs
<1>2. ASSUME NEW p \in Tampered(SavedMatch) PROVE Validates(config, p) <=> IsPlay(p)
  <2>1. Altered(config, p)
    BY <1>1, TamperedAltered
  <2> QED BY <1>1, <2>1, AlteredIs
<1>3. ASSUME DefaultRules
      PROVE  ~RuntimeValidates(config,
                [SavedRuntime EXCEPT !.match_transcript[1].turns = Without(@, Len(@))])
  <2> DEFINE full == FullTranscript(TheMatch)
             short == [full EXCEPT !.turns = Without(full.turns, Len(full.turns))]
             saved == SavedRuntime
             q == [saved EXCEPT !.match_transcript[1].turns = Without(@, Len(@))]
  <2>1. /\ saved.lifecycle = lifecycle /\ saved.match_transcript = <<full>>
        /\ saved = [schema_version |-> saved.schema_version, game_id |-> saved.game_id,
                    lifecycle |-> saved.lifecycle, events |-> saved.events,
                    abort |-> saved.abort, match_transcript |-> saved.match_transcript,
                    view |-> saved.view, viewer_seat |-> saved.viewer_seat]
    BY <1>1, RecordIs
  <2>2. /\ full = [game_id |-> full.game_id, schema_version |-> full.schema_version,
                   config |-> full.config, initial_state |-> full.initial_state,
                   turns |-> full.turns, view |-> full.view, viewer_seat |-> full.viewer_seat]
    BY <1>1, FullAltered
  <2> HIDE DEF saved, full
  <2>3. short.initial_state = full.initial_state
        /\ short.turns = Without(full.turns, Len(full.turns))
    BY <2>2
  <2>4. q.lifecycle = lifecycle /\ q.match_transcript = <<short>>
    BY <2>1
  <2>5. ~Terminal(config, FinalState(short))
    <3> HIDE DEF short
    <3> QED BY <1>1, <2>3, ShortIsLive DEF full
  <2> HIDE DEF short, q
  <2>6. q.match_transcript[1] = short /\ 1 \in DOMAIN q.match_transcript
    BY <2>4
  <2>7. Shared(config) = config
    BY <1>3 DEF DefaultRules
  <2>8. ~RuntimeValidates(config, q)
    <3>1. Terminal(Shared(config), FinalState(short)) = FALSE
      BY <2>5, <2>7 DEF Terminal
    <3>2. (q.lifecycle = "finished") = TRUE
      BY <2>4
    <3> QED BY <2>6, <3>1, <3>2 DEF RuntimeValidates
  <2> QED BY <2>8 DEF q, saved
<1> QED BY <1>2, <1>3 DEF TamperedIsRefused

\* Whatever was played to its end, the record with turns dropped, repeated,
\* exchanged or altered validates exactly when it is itself a play of the game,
\* and the finished one cut short is refused.
THEOREM TamperedAlwaysRefused == Spec => []TamperedIsRefused
  BY SessionInvariant, TamperedHolds, PTL
=============================================================================
