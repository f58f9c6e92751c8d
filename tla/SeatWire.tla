------------------------------ MODULE SeatWire ------------------------------
(***************************************************************************)
(* One seat's WebSocket as a client of the server sees it: the frames the  *)
(* driver of runtime_bridge.py sends the seat, the actions the seat sends, *)
(* and the end of the connection.  It is the environment of SdkClient and  *)
(* McpTools.  MatchDriver says how the server comes to send these frames;  *)
(* here only their order matters, and the opponent is free.                *)
(*                                                                         *)
(* Of the websockets library (not in the repository) the model keeps: once *)
(* the close frame has arrived, frames received before it can still be     *)
(* read, and a send raises.                                                *)
(***************************************************************************)
EXTENDS Integers, Sequences, SequencesExt

CONSTANTS
  MaxTurns,    \* bound: turns of the match
  RetryBudget, \* match.per_action_retry_budget
  MaxSends     \* bound: actions the client sends

ASSUME WireAssumption ==
  MaxTurns \in Nat /\ RetryBudget \in Nat /\ MaxSends \in Nat

VARIABLES
  link,   \* "dialing", "open", "ended" (the close is in flight), "known", "refused"
  down,   \* frames to the client, not yet read
  up,     \* actions to the server, not yet read
  sent,   \* actions sent so far
  life,   \* the match: "running", "finished" or "aborted"
  turn,   \* turns committed
  phase,  \* this seat: "idle", "asked", or "acted" until the commit
  retries,\* left for the turn it is asked for
  act,    \* the action accepted last, and the turn it was accepted for
  told    \* the terminal frame on its way: "none", "finished", "aborted"

matchVars == <<life, turn, phase, retries, act>>
wire == <<link, down, up, sent, matchVars, told>>

Frame(kind, n) == [kind |-> kind, n |-> n]
Terminal == {"finished", "aborted"}

\* In the frames that have one, n is the turn asked for, the id of the action
\* committed or 0 for another seat's or a chance turn, the attempts left.
Frames == [kind : {"observation", "turn", "state", "rejected", "ping"} \union Terminal,
           n : Nat]

WireTypeOK ==
  /\ link \in {"dialing", "open", "ended", "known", "refused"}
  /\ down \in Seq(Frames)
  /\ up \in Seq([id : 1 .. MaxSends, for : 0 .. MaxTurns])
  /\ sent \in 0 .. MaxSends
  /\ life \in {"running"} \union Terminal
  /\ turn \in 0 .. MaxTurns + 1 /\ phase \in {"idle", "asked", "acted"}
  /\ retries \in 0 .. RetryBudget
  /\ act \in [id : 0 .. MaxSends, for : 0 .. MaxTurns, turn : 0 .. MaxTurns]
  /\ told \in {"none"} \union Terminal

WireInit ==
  /\ link = "dialing"
  /\ down = <<>> /\ up = <<>> /\ sent = 0
  /\ life = "running" /\ turn = 0 /\ phase = "idle" /\ retries = 0
  /\ act = [id |-> 0, for |-> 0, turn |-> 0] /\ told = "none"

Running == life = "running" /\ link \notin {"dialing", "refused"}

\* _send: a frame for a seat that is gone is dropped.
Push(frames) == down' = IF link = "open" THEN down \o frames ELSE down

-----------------------------------------------------------------------------
(* The server's side.                                                       *)

\* _obtain: the seat is asked to act, with a fresh retry budget.
Ask ==
  /\ Running /\ phase = "idle" /\ turn < MaxTurns
  /\ phase' = "asked" /\ retries' = RetryBudget
  /\ Push(<<Frame("observation", turn)>>)
  /\ UNCHANGED <<link, up, sent, life, turn, act, told>>

\* The opponent's turn, or a chance turn, is committed and broadcast.
OtherTurn ==
  /\ Running /\ phase = "idle" /\ turn < MaxTurns
  /\ turn' = turn + 1
  /\ Push(<<Frame("turn", 0), Frame("state", 0)>>)
  /\ UNCHANGED <<link, up, sent, life, phase, retries, act, told>>

\* _receive_action and _obtain: the seat's next action is accepted.
Accept ==
  /\ Running /\ phase = "asked" /\ up # <<>>
  /\ act' = [id |-> Head(up).id, for |-> Head(up).for, turn |-> turn]
  /\ up' = Tail(up) /\ phase' = "acted"
  /\ UNCHANGED <<link, down, sent, life, turn, retries, told>>

\* The accepted action is committed: at once, or, in a joint round, when the
\* last seat has acted.  A chance turn may follow it.
CommitOwn(chance) ==
  /\ Running /\ phase = "acted"
  /\ turn' = turn + 1 /\ phase' = "idle"
  /\ Push(<<Frame("turn", act.id)>> \o chance \o <<Frame("state", 0)>>)
  /\ UNCHANGED <<link, up, sent, life, retries, act, told>>

\* _abort, then the queued close: the match ends as `how' for this seat.
Ends(how, frames) ==
  /\ life' = how
  /\ link' = IF link = "open" THEN "ended" ELSE link
  /\ told' = IF link = "open" THEN how ELSE told
  /\ Push(frames \o <<Frame("state", 0), Frame(how, 0)>>)

\* _obtain: a refused action costs an attempt; the last one costs the match.
Refuse ==
  /\ Running /\ phase = "asked" /\ up # <<>>
  /\ up' = Tail(up)
  /\ \/ /\ retries > 0 /\ retries' = retries - 1
        /\ Push(<<Frame("rejected", retries)>>)
        /\ UNCHANGED <<link, life, told>>
     \/ /\ retries = 0 /\ Ends("aborted", <<Frame("rejected", 0)>>)
        /\ UNCHANGED retries
  /\ UNCHANGED <<sent, turn, phase, act>>

\* _idle_receive_loop: an action that comes out of turn is read and dropped.
Discard ==
  /\ up # <<>> /\ ~(Running /\ phase = "asked")
  /\ up' = Tail(up)
  /\ UNCHANGED <<link, down, sent, matchVars, told>>

\* The game is over after a commit, or the match is aborted at any time.
MatchEnds ==
  /\ Running
  /\ \/ turn > 0 /\ phase = "idle" /\ Ends("finished", <<>>)
     \/ Ends("aborted", <<>>)
  /\ UNCHANGED <<up, sent, turn, phase, retries, act>>

\* _heartbeat: a ping at any time; one at a time is in flight (a bound).
Ping ==
  /\ Running /\ link = "open" /\ \A i \in DOMAIN down : down[i].kind # "ping"
  /\ Push(<<Frame("ping", 0)>>)
  /\ UNCHANGED <<link, up, sent, matchVars, told>>

-----------------------------------------------------------------------------
(* The connection.                                                          *)

\* The connection is lost: some of the last frames never arrive.
Lose ==
  /\ link \in {"open", "ended"}
  /\ \E k \in 0 .. Len(down) :
       /\ link = "open" \/ k < Len(down)
       /\ down' = SubSeq(down, 1, k)
  /\ link' = "ended" /\ told' = "none"
  /\ UNCHANGED <<up, sent, matchVars>>

\* The client's socket learns of the end: what was received can be read still.
Heard ==
  /\ link = "ended" /\ link' = "known"
  /\ UNCHANGED <<down, up, sent, matchVars, told>>

\* The close that follows a terminal frame arrives.
CloseArrives == told # "none" /\ Heard

-----------------------------------------------------------------------------
(* Session: what both clients use.                                          *)

\* What Session.recv raises: a ProtocolError when the socket has closed, and
\* the library's own ConnectionClosed when it closed before a pong was sent.
Lost == Frame("lost", 0)
Raw == Frame("raw", 0)

\* Session.recv answers a ping by itself, on a socket that still sends.
Pongs ==
  /\ down # <<>> /\ Head(down).kind = "ping" /\ link # "known"
  /\ down' = Tail(down)
  /\ UNCHANGED <<link, up, sent, matchVars, told>>

\* The other outcomes of Session.recv, e the event returned or raised.
Receives(e) ==
  \/ /\ down = <<>> /\ link = "known" /\ e = Lost
     /\ UNCHANGED down
  \/ /\ down # <<>> /\ down' = Tail(down)
     /\ \/ Head(down).kind # "ping" /\ e = Head(down)
        \/ Head(down).kind = "ping" /\ link = "known" /\ e = Raw

\* Session.send_action on a socket that is not known to be closed.
Sends(obs) ==
  /\ link \in {"open", "ended"} /\ sent < MaxSends
  /\ sent' = sent + 1
  /\ up' = IF link = "open" THEN Append(up, [id |-> sent + 1, for |-> obs]) ELSE up
=============================================================================
