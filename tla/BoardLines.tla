---------------------------- MODULE BoardLines ----------------------------
(***************************************************************************)
(* Lines of equal marks on a board, as the two board games look for them:   *)
(* src/src/arena/games/connect4/rules.py, and the same code again in        *)
(* src/src/arena/games/tictactoe/rules.py.  A board is a function over      *)
(* (0..rows-1) \X (0..columns-1); cell 0 is empty, cell s + 1 is seat s's.  *)
(***************************************************************************)
EXTENDS GameCore

EMPTY_CELL == 0
MarkOf(seat) == seat + 1

Board(rows, columns) ==
    [p \in (0..(rows - 1)) \X (0..(columns - 1)) |-> EMPTY_CELL]

Full(board) == \A p \in DOMAIN board : board[p] # EMPTY_CELL

Directions == {<<1, 0>>, <<0, 1>>, <<1, 1>>, <<1, -1>>}

\* No board has a longer side (Connect4Config).
MAX_SIDE == 20

Along(p, step, n) == <<p[1] + n * step[1], p[2] + n * step[2]>>

\* How many cells from p on, in the direction step, hold p's mark: the while
\* loop stops at the edge or at the first other cell.
CountDirection(board, p, step) ==
    LET same(n) == /\ Along(p, step, n) \in DOMAIN board
                   /\ board[Along(p, step, n)] = board[p]
    IN CHOOSE n \in 0..MAX_SIDE :
          /\ ~same(n + 1)
          /\ \A k \in 1..n : same(k)

Back(step) == <<-step[1], -step[2]>>

\* _winner_from_last_move: the owner of a line of that length through p.
LineThrough(board, p, length) ==
    /\ board[p] # EMPTY_CELL
    /\ \E step \in Directions :
          1 + CountDirection(board, p, step) + CountDirection(board, p, Back(step))
              >= length

\* _winner_on_board: the code reads the cells row by row and names the owner
\* of the first that lies on a line.
Earlier(p, q) == p[1] < q[1] \/ (p[1] = q[1] /\ p[2] < q[2])

WinnerOnBoard(board, length) ==
    LET lines == {p \in DOMAIN board : LineThrough(board, p, length)}
    IN IF lines = {} THEN NoSeat
       ELSE board[CHOOSE p \in lines : \A q \in lines \ {p} : Earlier(p, q)] - 1

\* A placed mark: the next state, its events and result, as both engines give
\* them.  The seat that ends the game stays current_seat.
PlaceOn(s, p, seat, length, placed) ==
    LET board == [cell \in DOMAIN s.board |->
                     IF cell = p THEN MarkOf(seat) ELSE s.board[cell]]
        won   == LineThrough(board, p, length)
        over  == won \/ Full(board)
    IN Transition([board |-> board,
                   current_seat |-> IF over THEN seat ELSE Other(seat)],
                  <<placed>> \o When(won, [event_type |-> "WinnerDetected",
                                           winning_seat |-> seat])
                             \o When(over /\ ~won, [event_type |-> "GameDrawn"]),
                  IF won THEN Win(seat) ELSE IF over THEN Draw ELSE NoResult)

BoardResult(s, length) ==
    LET winner == WinnerOnBoard(s.board, length)
    IN IF winner # NoSeat THEN Win(winner)
       ELSE IF Full(s.board) THEN Draw ELSE NoResult
=============================================================================
