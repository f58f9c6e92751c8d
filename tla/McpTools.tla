------------------------------ MODULE McpTools ------------------------------
(***************************************************************************)
(* The MCP server's tools over one seat's Session: the handle and receive  *)
(* loop of mcp/session_registry.py and the tools of mcp/server.py.         *)
(*                                                                         *)
(* The agent calls one tool at a time, as an MCP client that waits for its *)
(* answers does, and moves only when a tool has told it that it may: after *)
(* an observation, or a rejection that leaves attempts.  A tool may time   *)
(* out at any moment.                                                      *)
(***************************************************************************)
EXTENDS SeatWire

CONSTANTS
  MaxIdle  \* bound: calls in a row that leave the agent with nothing new

ASSUME MaxIdle \in Nat \ {0}

VARIABLES
  held,     \* the registry has the handle
  loop,     \* its receive loop runs
  queue,    \* handle.queue
  history,  \* handle.history
  status,   \* handle.lifecycle
  tool,     \* the tool that runs: "none", "observe", "move"; "off": not MCP's seat
  deferred, \* the events it put aside
  moved,    \* the id of the action make_move sent last
  seen,     \* the turn of the observation the agent saw last
  may,      \* the agent has been told to move
  idle,     \* calls since a tool last had something for the agent
  reply     \* the last answer: the tool, what it was about, and its number

mcpVars == <<held, loop, queue, history, status, tool, deferred, moved, seen,
             may, idle, reply>>
toolVars == <<tool, deferred, moved, seen, may, idle, reply>>

McpTypeOK ==
  /\ held \in BOOLEAN /\ loop \in BOOLEAN
  /\ queue \in Seq(Frames) /\ history \in Seq(Frames) /\ deferred \in Seq(Frames)
  /\ status \in {"running"} \union Terminal
  /\ tool \in {"off", "none", "observe", "move"}
  /\ moved \in 0 .. MaxSends /\ seen \in 0 .. MaxTurns
  /\ may \in BOOLEAN /\ idle \in 0 .. MaxIdle
  /\ reply.tool \in {"none", "join", "observe", "move"}

McpInit ==
  /\ held = FALSE /\ loop = FALSE /\ queue = <<>> /\ history = <<>>
  /\ status = "running" /\ tool \in {"off", "none"} /\ deferred = <<>> /\ moved = 0
  /\ seen = 0 /\ may = FALSE /\ idle = 0
  /\ reply = [tool |-> "none", kind |-> "none", n |-> 0]

\* SessionRegistry.register: the handle is kept and its receive loop started.
Registers == held' = TRUE /\ loop' = TRUE

\* join_match and SessionRegistry.register: a refused handshake is an answer.
Join ==
  /\ link = "dialing" /\ tool = "none"
  /\ \/ /\ link' = "open" /\ Registers
        /\ reply' = [tool |-> "join", kind |-> "joined", n |-> 0]
     \/ /\ link' = "refused" /\ UNCHANGED <<held, loop>>
        /\ reply' = [tool |-> "join", kind |-> "sdk_error", n |-> 0]
  /\ UNCHANGED <<down, up, sent, matchVars, told, queue, history, status,
                 tool, deferred, moved, seen, may, idle>>

-----------------------------------------------------------------------------
(* SessionRegistry._recv_loop.                                              *)

McpPongs == loop /\ Pongs /\ UNCHANGED mcpVars

InHistory(e) == e.kind \in {"turn"} \union Terminal

\* A terminal event, or a ProtocolError, purges the handle; any other
\* exception ends the loop and leaves the handle "running".
Buffers ==
  /\ loop
  /\ \E e \in ToSet(down) \union {Lost, Raw} :
       /\ Receives(e)
       /\ queue' = IF e \in {Lost, Raw} THEN queue ELSE Append(queue, e)
       /\ history' = IF InHistory(e) THEN Append(history, e) ELSE history
       /\ status' = CASE e.kind \in Terminal -> e.kind
                      [] e = Lost -> "aborted"
                      [] OTHER -> status
       /\ loop' = (e.kind \notin Terminal \union {"lost", "raw"})
       /\ held' = (held /\ e.kind \notin Terminal \union {"lost"})
  /\ UNCHANGED <<link, up, sent, matchVars, told, toolVars>>

-----------------------------------------------------------------------------
(* The tools.                                                               *)

Answers(of, kind, n) == reply' = [tool |-> of, kind |-> kind, n |-> n]

\* A call that tells the agent nothing new counts against the bound.
Idle == idle < MaxIdle /\ idle' = idle + 1

Unheld == UNCHANGED <<held, loop, history, status>>

\* get_observation begins; the handle may be gone.
GetObservation ==
  /\ link # "dialing" /\ tool = "none"
  /\ \/ held /\ tool' = "observe" /\ UNCHANGED <<idle, reply>>
     \/ ~held /\ Idle /\ Answers("observe", "no_session", 0) /\ UNCHANGED tool
  /\ UNCHANGED <<wire, held, loop, queue, history, status, deferred, moved, seen, may>>

\* make_move begins: it sends, and then waits for what becomes of it.
MakeMove ==
  /\ link # "dialing" /\ tool = "none" /\ may
  /\ may' = FALSE
  /\ \/ /\ held /\ Sends(seen)
        /\ tool' = "move" /\ moved' = sent' /\ UNCHANGED <<idle, reply>>
     \/ /\ held /\ link = "known" /\ Answers("move", "sdk_error", 0)
        /\ UNCHANGED <<sent, up, tool, moved, idle>>
     \/ /\ ~held /\ Answers("move", "no_session", 0)
        /\ UNCHANGED <<sent, up, tool, moved, idle>>
  /\ UNCHANGED <<link, down, matchVars, told, held, loop, queue, history,
                 status, deferred, seen>>

\* get_observation defers a committed turn like any other event.
DefersTurns(of, e) == of = "move" /\ e.kind = "turn" /\ e.n = 0

\* A turn that get_observation, or make_move, reads and forgets: it is in the
\* history already, and kept it would pass for a later move's confirmation.
Forgets(of, e) == e.kind = "turn" /\ (of = "observe" \/ e.n = 0)

\* The events a tool answers with.
Answering(of, e) ==
  e.kind \in {"observation", "rejected"} \union Terminal
    \/ (of = "move" /\ e.kind = "turn" /\ e.n > 0)

\* make_move hands an observation back to the queue: its move was not taken.
HandsBack(of, e) == of = "move" /\ e.kind = "observation"

\* A tool answers with event e, and puts back what it deferred.
Answer(e) ==
  /\ Answering(tool, e)
  /\ queue' = Tail(queue) \o (IF HandsBack(tool, e) THEN <<e>> ELSE <<>>) \o deferred
  /\ deferred' = <<>> /\ tool' = "none" /\ idle' = 0
  /\ Answers(tool, IF HandsBack(tool, e) THEN "not_committed" ELSE e.kind, e.n)
  /\ seen' = IF tool = "observe" /\ e.kind = "observation" THEN e.n ELSE seen
  /\ may' = \/ tool = "observe" /\ e.kind = "observation"
            \/ e.kind = "rejected" /\ e.n > 0
  /\ UNCHANGED moved

\* The loop of a running tool takes the next event.
Takes ==
  /\ tool \in {"observe", "move"} /\ queue # <<>>
  /\ LET e == Head(queue) IN
       \/ Answer(e)
       \/ /\ ~Answering(tool, e)
          /\ queue' = Tail(queue)
          /\ deferred' = IF Forgets(tool, e) THEN deferred ELSE Append(deferred, e)
          /\ UNCHANGED <<tool, moved, seen, may, idle, reply>>
  /\ Unheld /\ UNCHANGED wire

\* A running tool gives up and puts back what it deferred.
TimesOut ==
  /\ tool \in {"observe", "move"} /\ Idle
  /\ queue' = queue \o deferred /\ deferred' = <<>>
  /\ Answers(tool, "timeout", 0) /\ tool' = "none"
  /\ Unheld /\ UNCHANGED <<wire, moved, seen, may>>

\* close_all, when the agent's connection to the MCP server ends: the loop is
\* cancelled and the session closed.
CloseAll ==
  /\ held /\ held' = FALSE /\ loop' = FALSE /\ link' = "known"
  /\ UNCHANGED <<down, up, sent, matchVars, told, queue, history, status,
                 toolVars>>

-----------------------------------------------------------------------------
(* What get_history and match_status answer.                                *)

HistoryReply == IF held THEN history ELSE <<>>
StatusReply == IF held THEN status ELSE "connecting"
=============================================================================
