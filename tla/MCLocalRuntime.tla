--------------------------- MODULE MCLocalRuntime ---------------------------
(***************************************************************************)
(* Local sessions for TLC: small configs of the six games, with and without *)
(* a policy at every seat; seat 0 is an agent's, seat 1 a human's.          *)
(***************************************************************************)
EXTENDS LocalRuntime

TicTacToe33 == [game |-> "tictactoe", rows |-> 3, columns |-> 3, connect_length |-> 3]

ConnectOf(n) == [game |-> "connect4", rows |-> 4, columns |-> 4, connect_length |-> n]

LiarsDiceOf(n) == [game |-> "liarsdice", dice_per_seat |-> n, faces |-> 2]

\* The board games start from an opening, so that few plies are left; every
\* other game is played from its start.
TicTacToeOpening == <<<<1, 1>>, <<0, 0>>, <<0, 2>>, <<2, 0>>, <<1, 0>>>>
ConnectOpening == <<0, 0, 0, 0, 1, 1, 1, 1, 2, 2, 2>>

Marks(s) == Cardinality({p \in DOMAIN s.board : s.board[p] # EMPTY_CELL})

\* Every action of the game, also illegal ones and, but on the boards, in the
\* name of either seat; with two dice a seat, and on the board whose winning
\* line is short, some of them.
MCAnswers(c, s, seat) ==
    IF c.game = "tictactoe" /\ Marks(s) < Len(TicTacToeOpening)
    THEN {[seat |-> seat, action |-> [row |-> TicTacToeOpening[Marks(s) + 1][1],
                                      column |-> TicTacToeOpening[Marks(s) + 1][2]]]}
    ELSE IF c.game = "connect4" /\ c.connect_length = 4 /\ Marks(s) < Len(ConnectOpening)
    THEN {[seat |-> seat, action |-> [column |-> ConnectOpening[Marks(s) + 1]]]}
    ELSE IF c.game = "liarsdice" /\ c.dice_per_seat > 1
    THEN [seat : {seat}, action : {Call} \cup Bids({2, 3}, {1})]
    ELSE IF c.game = "connect4" /\ c.connect_length = 2
    THEN [seat : {seat}, action : [column : {0, 1, 4}]]
    ELSE IF c.game \in {"connect4", "tictactoe"}
    THEN [seat : {seat}, action : Actions(c)]
    ELSE [seat : VALID_SEATS, action : Actions(c)]

\* Only Pig can go on for ever.
MCMaxTurns(c) == IF c.game = "pig" THEN 8 ELSE 16

\* The die falls on 1, 2 or 6; one die a seat is rolled every way, two dice
\* only so that the seats' hands differ.
MCDraws(c, s) ==
    IF c.game = "pig" THEN [face : {1, 2, 6}]
    ELSE IF c.dice_per_seat = 1 THEN Outcomes(c, s)
    ELSE {[dice |-> [seat \in VALID_SEATS |->
                        [i \in 1..s.dice_counts[seat] |-> IF seat = 0 THEN 1 ELSE 2]]]}

MCConfigs ==
    {[game |-> "nim", num_piles |-> 2, max_pile_size |-> 2],
     [game |-> "pig", target_score |-> 4],
     [game |-> "rps", target_wins |-> 2, max_rounds |-> 2],
     LiarsDiceOf(1), LiarsDiceOf(2), TicTacToe33, ConnectOf(2), ConnectOf(4)}


\* Matches whose winning line is not the default engine's.
MCShortLines == {ConnectOf(2)}

MCAgents == {0}

MCBoundSeats == {VALID_SEATS, {0}}
=============================================================================
