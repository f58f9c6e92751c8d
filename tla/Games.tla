------------------------------- MODULE Games -------------------------------
(***************************************************************************)
(* The registered games behind one interface, as arena.core defines it:     *)
(* the RulesEngine protocol, the chance hooks (core/chance.py), joint nodes *)
(* (core/simultaneous.py) and the views (core/public_view.py).              *)
(*                                                                          *)
(* An engine is a game's id and, for the board games, the length a winning  *)
(* line has: the _config an engine got from the last initial_state it ran.  *)
(* A match's engine is its config; Shared is the definition's own engine,   *)
(* which has started no match.                                              *)
(***************************************************************************)
EXTENDS Nim, Pig, Rps, LiarsDice, TicTacToe, Connect4

\* The configs of the games register_builtin_games registers.
GameConfigs ==
    NimConfigs \cup PigConfigs \cup RpsConfigs \cup LiarsDiceConfigs
        \cup TicTacToeConfigs \cup Connect4Configs

Shared(c) ==
    IF c.game = "connect4"
    THEN [c EXCEPT !.connect_length = DEFAULT_CONNECT_LENGTH]
    ELSE c

\* What load_state accepts: the checks of the game's state class.
GameState(c, s) ==
    CASE c.game = "nim"       -> NimState(s)
      [] c.game = "pig"       -> PigState(s)
      [] c.game = "rps"       -> RpsState(s)
      [] c.game = "liarsdice" -> LiarsDiceState(s)
      [] c.game = "tictactoe" -> TicTacToeState(s)
      [] c.game = "connect4"  -> Connect4State(s)

Initial(c) ==
    CASE c.game = "nim"       -> NimInitial(c)
      [] c.game = "pig"       -> PigInitial(c)
      [] c.game = "rps"       -> RpsInitial(c)
      [] c.game = "liarsdice" -> LiarsDiceInitial(c)
      [] c.game = "tictactoe" -> TicTacToeInitial(c)
      [] c.game = "connect4"  -> Connect4Initial(c)

Result(c, s) ==
    CASE c.game = "nim"       -> NimResult(s)
      [] c.game = "pig"       -> PigResult(s)
      [] c.game = "rps"       -> RpsResult(s)
      [] c.game = "liarsdice" -> LiarsDiceResult(s)
      [] c.game = "tictactoe" -> TicTacToeResult(c, s)
      [] c.game = "connect4"  -> Connect4Result(c.connect_length, s)

Terminal(c, s) == Result(c, s) # NoResult

\* The actions a seat can put in a response.
Actions(c) ==
    CASE c.game = "nim"       -> NimActions(c)
      [] c.game = "pig"       -> PigActions
      [] c.game = "rps"       -> RpsActions
      [] c.game = "liarsdice" -> LiarsDiceActions(c)
      [] c.game = "tictactoe" -> TicTacToeActions
      [] c.game = "connect4"  -> Connect4Actions(c)

Legal(c, s, seat) ==
    CASE c.game = "nim"       -> NimLegal(s, seat)
      [] c.game = "pig"       -> PigLegal(s, seat)
      [] c.game = "rps"       -> RpsLegal(s, seat)
      [] c.game = "liarsdice" -> LiarsDiceLegal(s, seat)
      [] c.game = "tictactoe" -> TicTacToeLegal(c, s, seat)
      [] c.game = "connect4"  -> Connect4Legal(c.connect_length, s, seat)

\* validate_action raises exactly when this is false.
Valid(c, s, seat, a) ==
    CASE c.game = "nim"       -> NimValid(s, seat, a)
      [] c.game = "pig"       -> PigValid(s, seat, a)
      [] c.game = "rps"       -> RpsValid(s, seat, a)
      [] c.game = "liarsdice" -> LiarsDiceValid(s, seat, a)
      [] c.game = "tictactoe" -> TicTacToeValid(c, s, seat, a)
      [] c.game = "connect4"  -> Connect4Valid(c.connect_length, s, seat, a)

\* Rock-Paper-Scissors has no single-seat move: its apply_action refuses.
Sequential(c) == c.game # "rps"

Apply(c, s, seat, a) ==
    CASE c.game = "nim"       -> NimApply(s, seat, a)
      [] c.game = "pig"       -> PigApply(s, seat, a)
      [] c.game = "liarsdice" -> LiarsDiceApply(s, seat, a)
      [] c.game = "tictactoe" -> TicTacToeApply(c, s, seat, a)
      [] c.game = "connect4"  -> Connect4Apply(c.connect_length, s, seat, a)

(***************************************************************************)
(* Chance: a game without the hooks is never at a chance node.              *)
(***************************************************************************)
HasChance(c) == c.game \in {"pig", "liarsdice"}

Chance(c, s) ==
    /\ HasChance(c)
    /\ IF c.game = "pig" THEN PigChance(s) ELSE LiarsDiceChance(s)

Outcomes(c, s) == IF c.game = "pig" THEN PigOutcomes ELSE LiarsDiceOutcomes(s)

OutcomeValid(c, s, o) ==
    IF c.game = "pig" THEN PigOutcomeValid(s, o) ELSE LiarsDiceOutcomeValid(s, o)

ApplyChance(c, s, o) ==
    IF c.game = "pig" THEN PigApplyChance(s, o) ELSE LiarsDiceApplyChance(s, o)

(***************************************************************************)
(* Joint nodes: nobody acts at a terminal state or a chance node; without   *)
(* the hook it is the one current seat; otherwise the seats of the hook.    *)
(***************************************************************************)
Acting(c, s) ==
    IF Terminal(c, s) \/ Chance(c, s) THEN {}
    ELSE IF c.game = "rps" THEN RpsActing(s) ELSE {s.current_seat}

Joint(c, s) == Cardinality(Acting(c, s)) > 1

\* apply_joint_action: one valid action of every acting seat and of no other.
JointValid(c, s, actions) ==
    /\ Joint(c, s)
    /\ DOMAIN actions = Acting(c, s)
    /\ \A seat \in DOMAIN actions : Valid(c, s, seat, actions[seat])

ApplyJoint(c, s, actions) == RpsApplyJoint(s, actions)

(***************************************************************************)
(* Views: a viewer is a seat or PUBLIC.  A game without hidden information  *)
(* falls back to the full value.                                            *)
(***************************************************************************)
HiddenInformation(c) == c.game = "liarsdice"

Viewers == VALID_SEATS \cup {PUBLIC}

StateView(c, s, viewer) ==
    IF HiddenInformation(c) THEN LiarsDiceView(s, viewer) ELSE s

OutcomeView(c, o, viewer) ==
    IF HiddenInformation(c) THEN LiarsDiceOutcomeView(o, viewer) ELSE o

\* What a policy is asked with: its view, and the actions it may choose from.
Observation(c, s, seat) ==
    [view |-> StateView(c, s, seat), legal_actions |-> Legal(c, s, seat)]
=============================================================================
