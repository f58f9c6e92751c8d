----------------------------- MODULE TicTacToe -----------------------------
(***************************************************************************)
(* Tic-Tac-Toe (src/src/arena/games/tictactoe): three in a row on the       *)
(* fixed 3x3 board.                                                         *)
(***************************************************************************)
EXTENDS BoardLines

BOARD_SIZE == 3
Cells == (0..(BOARD_SIZE - 1)) \X (0..(BOARD_SIZE - 1))

TicTacToeConfigs == [game : {"tictactoe"}, rows : {3}, columns : {3}, connect_length : {3}]

\* TicTacToeState.__post_init__.
TicTacToeState(s) ==
    /\ DOMAIN s.board = Cells
    /\ \A p \in Cells : s.board[p] \in 0..2
    /\ s.current_seat \in VALID_SEATS

TicTacToeActions == [row : 0..BOARD_SIZE, column : 0..BOARD_SIZE]

TicTacToeInitial(c) == [board |-> Board(c.rows, c.columns), current_seat |-> 0]

TicTacToeResult(c, s) == BoardResult(s, c.connect_length)

TicTacToeTerminal(c, s) == TicTacToeResult(c, s) # NoResult

TicTacToeLegal(c, s, seat) ==
    IF TicTacToeTerminal(c, s) \/ seat # s.current_seat
    THEN {}
    ELSE {[row |-> p[1], column |-> p[2]] : p \in {q \in Cells : s.board[q] = EMPTY_CELL}}

TicTacToeValid(c, s, seat, a) ==
    /\ ~TicTacToeTerminal(c, s)
    /\ seat = s.current_seat
    /\ a.row < BOARD_SIZE
    /\ a.column < BOARD_SIZE
    /\ s.board[<<a.row, a.column>>] = EMPTY_CELL

TicTacToeApply(c, s, seat, a) ==
    PlaceOn(s, <<a.row, a.column>>, seat, c.connect_length,
            [event_type |-> "MarkPlaced", seat |-> seat,
             row |-> a.row, column |-> a.column])
=============================================================================
