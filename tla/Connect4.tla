----------------------------- MODULE Connect4 -----------------------------
(***************************************************************************)
(* Connect 4 (src/src/arena/games/connect4): discs fall to the lowest empty *)
(* row of a column.  The winning length belongs to the engine, not to the   *)
(* state: initial_state stores the config on the engine, so an engine that  *)
(* started no match judges a board by the default length.                   *)
(***************************************************************************)
EXTENDS BoardLines

DEFAULT_CONNECT_LENGTH == 4

Connect4Configs ==
    {c \in [game : {"connect4"}, rows : 4..20, columns : 4..20, connect_length : 2..20] :
        c.connect_length <= c.rows \/ c.connect_length <= c.columns}

Columns(s) == {p[2] : p \in DOMAIN s.board}
Rows(s) == {p[1] : p \in DOMAIN s.board}

\* Connect4State.__post_init__.
Connect4State(s) ==
    /\ Rows(s) # {}
    /\ DOMAIN s.board = Rows(s) \X Columns(s)
    /\ \A p \in DOMAIN s.board : s.board[p] \in 0..2
    /\ s.current_seat \in VALID_SEATS

Connect4Actions(c) == [column : 0..c.columns]

Connect4Initial(c) == [board |-> Board(c.rows, c.columns), current_seat |-> 0]

Connect4Result(length, s) == BoardResult(s, length)

Connect4Terminal(length, s) == Connect4Result(length, s) # NoResult

Connect4Legal(length, s, seat) ==
    IF Connect4Terminal(length, s) \/ seat # s.current_seat
    THEN {}
    ELSE {[column |-> n] : n \in {m \in Columns(s) : s.board[<<0, m>>] = EMPTY_CELL}}

Connect4Valid(length, s, seat, a) ==
    /\ ~Connect4Terminal(length, s)
    /\ seat = s.current_seat
    /\ a.column \in Columns(s)
    /\ s.board[<<0, a.column>>] = EMPTY_CELL

\* The lowest empty row of the column; row 0 is the top.
DropRow(s, column) ==
    CHOOSE r \in Rows(s) :
        /\ s.board[<<r, column>>] = EMPTY_CELL
        /\ \A q \in Rows(s) : s.board[<<q, column>>] = EMPTY_CELL => q <= r

Connect4Apply(length, s, seat, a) ==
    LET row == DropRow(s, a.column)
    IN PlaceOn(s, <<row, a.column>>, seat, length,
               [event_type |-> "DiscDropped", seat |-> seat,
                column |-> a.column, row |-> row])
=============================================================================
