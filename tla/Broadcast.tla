----------------------------- MODULE Broadcast ------------------------------
(***************************************************************************)
(* How a running match reaches its seats and spectators: the bounded       *)
(* outboxes and their writer tasks, overflow, the shedding of slow         *)
(* spectators, the welcome of a spectator and of a resumed seat, and the   *)
(* drain before a socket is closed (server/runtime_bridge.py, and the      *)
(* handlers of server/routes_ws.py).                                       *)
(*                                                                         *)
(* A broadcast of several frames never yields to the event loop.  The      *)
(* frames it has left are `todo', and nothing else moves while there are   *)
(* some.  What the driver does between broadcasts is MatchDriver's; here   *)
(* it commits, aborts and raises as it pleases.                            *)
(***************************************************************************)
EXTENDS Integers, Sequences, FiniteSets

CONSTANTS
  Spectators,   \* spectator connections; a spectator that comes back is another
  MaxConns,     \* bound: connections a seat opens, 1 + its resumes
  Casts,        \* bound: the sets of connections that are followed together
  OutboxMax,    \* OUTBOX_MAXSIZE
  MaxTurns,     \* bound: turns of the match
  MaxChance,    \* bound: chance turns that follow an action, or open the match
  MaxNotes,     \* bound: frames the driver sends to a single seat
  MaxFaults     \* bound: exceptions raised while a frame is built

Seats == {0, 1}
SeatConns == Seats \X (1 .. MaxConns)
Conns == SeatConns \cup Spectators

ASSUME BroadcastAssumption ==
  /\ MaxConns \in Nat \ {0} /\ Casts \subseteq SUBSET Conns
  /\ OutboxMax \in Nat \ {0, 1}
  /\ MaxTurns \in Nat /\ MaxChance \in Nat
  /\ MaxNotes \in Nat /\ MaxFaults \in Nat
  /\ Spectators \cap SeatConns = {}

VARIABLES
  lifecycle,  \* of the session
  turns,      \* len(local_match.turns)
  phase,      \* where run_match is
  todo,       \* frames the broadcast under way has still to queue
  owed,       \* kinds of frame the end of the match has still to broadcast
  crashed,    \* the crash handler was entered
  faults,     \* exceptions so far
  notes,      \* frames sent to a single seat so far
  cur,        \* conns[seat]
  net,        \* every connection
  cache       \* the latest spectator welcome, by the point it was built at

driver == <<lifecycle, turns, phase, owed, crashed, faults, notes>>
vars == <<driver, todo, cur, net, cache>>

Frame(kind, n) == [kind |-> kind, n |-> n]
NoFrame == Frame("none", 0)

\* `n' counts the turns a frame carries or speaks of; a turn frame's is its
\* turn_index.
Frames == [kind : {"none", "welcome", "turn", "state", "note", "end", "error",
                   "stop", "close"}, n : Nat]

ConnRecord ==
  [ role    : {"absent", "new", "parked", "live", "stopping", "gone"},
    sock    : {"none", "open", "lost", "kicked", "closed"},
    writer  : {"off", "on", "done"},
    hand    : Frames,          \* the frame being sent
    queue   : Seq(Frames),     \* the outbox
    slow    : BOOLEAN,         \* outbox_overflowed
    closing : BOOLEAN,         \* a background task is to close the socket
    gap     : BOOLEAN,         \* a frame was dropped
    mark    : Nat,             \* next_turn_index
    stop    : {"no", "draining", "cut", "drained", "expired"}, \* _stop_writer
    seen    : Nat \cup {-1},   \* turns its client was sent; -1 before its welcome
    ended   : Nat ]            \* terminal frames its client was sent

TypeOK ==
  /\ lifecycle \in {"created", "running", "finished", "aborted"}
  /\ turns \in 0 .. MaxTurns
  /\ phase \in {"idle", "running", "crashed", "over", "telling",
                "closing", "draining", "done"}
  /\ todo \in Seq(Frames) /\ owed \in Seq({"state", "end"})
  /\ crashed \in BOOLEAN /\ faults \in 0 .. MaxFaults /\ notes \in 0 .. MaxNotes
  /\ cur \in [Seats -> 1 .. MaxConns]
  /\ net \in [Conns -> ConnRecord]
  /\ \A c \in Conns : Len(net[c].queue) <= OutboxMax
  /\ cache \in [at : Nat \X {"none", "created", "running", "finished", "aborted"},
                carries : Nat]

Unused ==
  [ role |-> "new", sock |-> "none", writer |-> "off", hand |-> NoFrame,
    queue |-> <<>>, slow |-> FALSE, closing |-> FALSE, gap |-> FALSE,
    mark |-> 0, stop |-> "no", seen |-> -1, ended |-> 0 ]

Accepted == [Unused EXCEPT !.role = "parked", !.sock = "open"]

\* Both seats were welcomed and wait for the match; no writer runs yet.
InitialNet(cast) ==
  [c \in Conns |-> IF c \notin cast THEN [Unused EXCEPT !.role = "absent"]
                  ELSE IF c \in Seats \X {1} THEN [Accepted EXCEPT !.seen = 0]
                  ELSE Unused]

Init ==
  /\ lifecycle = "created" /\ turns = 0 /\ phase = "idle"
  /\ todo = <<>> /\ owed = <<>> /\ crashed = FALSE /\ faults = 0 /\ notes = 0
  /\ cur = [s \in Seats |-> 1]
  /\ \E cast \in Casts : net = InitialNet(cast)
  /\ cache = [at |-> <<0, "none">>, carries |-> 0]

Over == lifecycle \in {"finished", "aborted"}
Quiet == todo = <<>>

-----------------------------------------------------------------------------
(* One connection.                                                          *)

OverflowIgnored(c, r) == r
Overflowed(c, r) ==
  [r EXCEPT !.slow = TRUE, !.closing = @ \/ (~r.slow /\ c \in SeatConns)]

Queued(c, r, f) ==
  IF r.writer = "done" THEN r
  ELSE IF Len(r.queue) < OutboxMax THEN [r EXCEPT !.queue = Append(@, f)]
  ELSE [Overflowed(c, r) EXCEPT !.gap = TRUE]

\* The writer returns or is cancelled; its outbox is never read again.
WriterEnds(r) == [r EXCEPT !.writer = "done", !.hand = NoFrame, !.queue = <<>>]

\* Stopping without the drain: the writer is cancelled with frames still queued.
StoppingAtOnce(r) ==
  [WriterEnds(r) EXCEPT !.role = "stopping", !.stop = "draining"]

\* _stop_writer up to its wait: a sentinel after what is queued, or, if the
\* outbox is full, no drain at all.
Stopping(r) ==
  IF Len(r.queue) < OutboxMax
  THEN [r EXCEPT !.role = "stopping", !.stop = "draining",
                 !.queue = IF r.writer = "done" THEN @ ELSE Append(@, Frame("stop", 0))]
  ELSE [WriterEnds(r) EXCEPT !.role = "stopping", !.stop = "cut"]

Shut(r, how) == [r EXCEPT !.sock = IF @ = "open" THEN how ELSE @]

\* A frame reaches the client.
Read(r, f) ==
  CASE f.kind = "welcome" -> [r EXCEPT !.seen = f.n]
    [] f.kind = "turn"    -> [r EXCEPT !.seen = f.n + 1]
    [] f.kind = "end"     -> [r EXCEPT !.seen = f.n, !.ended = @ + 1]
    [] OTHER              -> r

-----------------------------------------------------------------------------
(* A broadcast.                                                             *)

\* A spectator skips a turn its welcome carried; when the public view cannot
\* be built, spectators are dropped and the seats still served.
FeedSpectator(c, r, f, public) ==
  IF ~public THEN [r EXCEPT !.slow = TRUE]
  ELSE IF f.kind # "turn" THEN Queued(c, r, f)
  ELSE IF f.n < r.mark THEN r
  ELSE [Queued(c, r, f) EXCEPT !.mark = f.n + 1]

\* _shed_overflowed_spectators: the writer is cancelled, not drained.
Shed(r) ==
  IF r.slow THEN [WriterEnds(r) EXCEPT !.role = "gone", !.closing = TRUE] ELSE r

Fed(c, r, f, public) ==
  IF r.role # "live" THEN r
  ELSE IF c \in SeatConns THEN Queued(c, r, f)
  ELSE Shed(FeedSpectator(c, r, f, public))

\* match_state is built once for everyone; other frames per view.
PublicNeeded(f) ==
  /\ f.kind # "state"
  /\ \E p \in Spectators :
        net[p].role = "live" /\ ~(f.kind = "turn" /\ f.n < net[p].mark)

BroadcastFrame(public) ==
  /\ todo # <<>>
  /\ public \/ (faults < MaxFaults /\ PublicNeeded(Head(todo)))
  /\ net' = [c \in Conns |-> Fed(c, net[c], Head(todo), public)]
  /\ todo' = Tail(todo)
  /\ faults' = IF public THEN faults ELSE faults + 1
  /\ phase' = IF phase = "telling" /\ todo' = <<>> THEN "closing" ELSE phase
  /\ UNCHANGED <<lifecycle, turns, owed, crashed, notes, cur, cache>>

RaisesHalfway ==
  /\ todo # <<>> /\ faults < MaxFaults
  /\ faults' = faults + 1 /\ todo' = <<>> /\ crashed' = TRUE
  /\ owed' = <<"end">>
  /\ phase' = IF crashed THEN "closing"
              ELSE IF Over THEN "over" ELSE "crashed"
  /\ net' = [c \in Conns |-> IF c = <<0, cur[0]>>
                             THEN Fed(c, net[c], Head(todo), TRUE) ELSE net[c]]
  /\ UNCHANGED <<lifecycle, turns, notes, cur, cache>>

\* Building a seat's view raises before any recipient was queued the frame.
\* The crash handler aborts a running match, or tells of an ended one; a second
\* failure leaves only the close.
BroadcastRaises ==
  /\ todo # <<>> /\ faults < MaxFaults
  /\ faults' = faults + 1 /\ todo' = <<>> /\ crashed' = TRUE
  /\ owed' = <<"end">>
  /\ phase' = IF crashed THEN "closing"
              ELSE IF Over THEN "over" ELSE "crashed"
  /\ UNCHANGED <<lifecycle, turns, notes, cur, net, cache>>

-----------------------------------------------------------------------------
(* The driver between broadcasts.                                           *)

StateFirst(since, now) ==
  <<Frame("state", now)>> \o [i \in 1 .. now - since |-> Frame("turn", since + i - 1)]

\* One turn_committed per turn from index `since' on, then match_state.
News(since, now) ==
  [i \in 1 .. now - since |-> Frame("turn", since + i - 1)] \o <<Frame("state", now)>>

\* The seat handler builds the registry, folds parked spectators in and calls
\* run_match, all in one step: the seats' writers start, and the opening turns
\* go out.  A match that fails to start is told later.
Start ==
  /\ phase = "idle"
  /\ \/ /\ lifecycle' \in {"running", "finished"}
        /\ turns' \in 0 .. MaxChance /\ turns' <= MaxTurns
        /\ todo' = News(0, turns')
        /\ owed' = IF lifecycle' = "finished" THEN <<"end">> ELSE <<>>
     \/ /\ lifecycle' = "aborted" /\ owed' = <<"state", "end">>
        /\ UNCHANGED <<turns, todo>>
  /\ phase' = IF lifecycle' = "running" THEN "running" ELSE "over"
  /\ net' = [c \in Conns |->
        IF net[c].role # "parked" THEN net[c]
        ELSE [net[c] EXCEPT !.role = "live",
                            !.writer = IF @ = "off" THEN "on" ELSE @]]
  /\ UNCHANGED <<crashed, faults, notes, cur, cache>>

\* A round is committed and broadcast in one step.  The event loop has run a
\* close that an earlier broadcast scheduled before it resumes the driver.
Commit ==
  /\ phase = "running" /\ Quiet
  /\ \A c \in Conns : ~(net[c].closing /\ net[c].gap)
  /\ \E more \in 1 .. MaxChance + 1 : turns + more <= MaxTurns /\ turns' = turns + more
  /\ lifecycle' \in {"running", "finished"}
  /\ phase' = IF lifecycle' = "finished" THEN "over" ELSE phase
  /\ owed' = IF lifecycle' = "finished" THEN <<"end">> ELSE owed
  /\ todo' = News(turns, turns')
  /\ UNCHANGED <<crashed, faults, notes, cur, net, cache>>

\* The session is aborted; its transcript is stored before anyone is told.
Abort ==
  /\ phase \in {"running", "crashed"} /\ Quiet
  /\ lifecycle' = "aborted" /\ phase' = "over" /\ owed' = <<"state", "end">>
  /\ UNCHANGED <<turns, todo, crashed, faults, notes, cur, net, cache>>

\* The transcript is stored: the terminal frame goes out.
Tell ==
  /\ phase = "over" /\ Quiet
  /\ phase' = "telling"
  /\ todo' = [i \in DOMAIN owed |-> Frame(owed[i], turns)]
  /\ UNCHANGED <<lifecycle, turns, owed, crashed, faults, notes, cur, net, cache>>

SeatConn(s) == <<s, cur[s]>>

\* A frame for one seat: a request, a rejection, an error, a ping.
Note(s) ==
  /\ phase = "running" /\ Quiet /\ notes < MaxNotes
  /\ net[SeatConn(s)].role = "live"
  /\ notes' = notes + 1
  /\ net' = [net EXCEPT ![SeatConn(s)] = Queued(SeatConn(s), @, Frame("note", turns))]
  /\ UNCHANGED <<lifecycle, turns, phase, owed, crashed, faults, todo, cur, cache>>

\* A close after the frames already queued, or at once, in the background, if
\* the outbox is full.
CloseQueued(r) ==
  IF Len(r.queue) < OutboxMax
  THEN [r EXCEPT !.queue = IF r.writer = "done" THEN @ ELSE Append(@, Frame("close", 0))]
  ELSE [r EXCEPT !.closing = TRUE]

\* Too many malformed frames.
QueueClose(s) ==
  LET c == SeatConn(s) IN
  /\ phase = "running" /\ Quiet
  /\ net[c].role = "live" /\ net[c].sock = "open"
  /\ \A i \in DOMAIN net[c].queue : net[c].queue[i].kind # "close"
  /\ net' = [net EXCEPT ![c] = CloseQueued(@)]
  /\ UNCHANGED <<driver, todo, cur, cache>>

\* _close_both: seat 0, then seat 1, each drained and closed.
StopSeat(s) ==
  /\ phase = "closing" /\ Quiet
  /\ net[SeatConn(s)].role = "live"
  /\ \A other \in Seats : net[SeatConn(other)].role = "live" => s <= other
  /\ phase' = "draining"
  /\ net' = [net EXCEPT ![SeatConn(s)] = Stopping(@)]
  /\ UNCHANGED <<lifecycle, turns, todo, owed, crashed, faults, notes, cur, cache>>

DrainedFully(c) ==
  LET r == net[c] IN
  /\ r.role = "stopping" /\ Quiet /\ r.writer = "done"
  /\ net' = [net EXCEPT ![c] =
        [Shut(r, "closed") EXCEPT !.role = "gone", !.stop = "drained"]]
  /\ phase' = IF c \in SeatConns THEN "closing" ELSE phase
  /\ UNCHANGED <<lifecycle, turns, todo, owed, crashed, faults, notes, cur, cache>>

\* _stop_writer returns (the writer did, or the drain timed out) and the
\* socket is closed, by whoever stopped the writer.
StopReturns(c) ==
  LET r == net[c]
      how == IF r.stop # "draining" THEN r.stop
             ELSE IF r.writer = "done" THEN "drained" ELSE "expired"
  IN
  /\ r.role = "stopping" /\ Quiet
  /\ net' = [net EXCEPT ![c] =
        [Shut(WriterEnds(r), "closed") EXCEPT !.role = "gone", !.stop = how]]
  /\ phase' = IF c \in SeatConns THEN "closing" ELSE phase
  /\ UNCHANGED <<lifecycle, turns, todo, owed, crashed, faults, notes, cur, cache>>

\* The driver returns and the done event is set.
Exit ==
  /\ phase = "closing" /\ Quiet
  /\ \A s \in Seats : net[SeatConn(s)].role # "live"
  /\ phase' = "done"
  /\ UNCHANGED <<lifecycle, turns, todo, owed, crashed, faults, notes, cur, net, cache>>

-----------------------------------------------------------------------------
(* Writers and sockets.                                                     *)

\* The writer takes the next frame.
Take(c) ==
  LET r == net[c]
      f == Head(r.queue)
      rest == [r EXCEPT !.queue = Tail(@)]
  IN
  /\ r.writer = "on" /\ r.hand = NoFrame /\ r.queue # <<>> /\ Quiet
  /\ net' = [net EXCEPT ![c] =
        CASE f.kind = "stop"  -> WriterEnds(rest)
          [] f.kind = "close" -> Shut(WriterEnds(rest), "kicked")
          [] OTHER            -> [rest EXCEPT !.hand = f]]
  /\ UNCHANGED <<driver, todo, cur, cache>>

\* The frame is written.  The transport may then hold more than
\* MAX_SEND_BACKLOG_BYTES unsent.
Sent(c) ==
  /\ net[c].hand # NoFrame /\ net[c].sock = "open" /\ Quiet
  /\ \E backlog \in BOOLEAN :
       net' = [net EXCEPT ![c] =
         LET r == [Read(@, @.hand) EXCEPT !.hand = NoFrame]
         IN  IF backlog THEN Overflowed(c, r) ELSE r]
  /\ UNCHANGED <<driver, todo, cur, cache>>

\* The socket is gone: the send raises and the writer returns.
SendFails(c) ==
  /\ net[c].hand # NoFrame /\ net[c].sock # "open" /\ Quiet
  /\ net' = [net EXCEPT ![c] = WriterEnds(@)]
  /\ UNCHANGED <<driver, todo, cur, cache>>

\* The background task that closes a slow connection.
CloseSlow(c) ==
  /\ net[c].closing /\ Quiet
  /\ net' = [net EXCEPT ![c] = [Shut(@, "kicked") EXCEPT !.closing = FALSE]]
  /\ UNCHANGED <<driver, todo, cur, cache>>

\* The peer goes away.
Drop(c) ==
  /\ net[c].sock = "open" /\ Quiet
  /\ net' = [net EXCEPT ![c] = Shut(@, "lost")]
  /\ UNCHANGED <<driver, todo, cur, cache>>

-----------------------------------------------------------------------------
(* Handlers.                                                                *)

Greeted(n) == [Accepted EXCEPT !.writer = "on", !.queue = <<Frame("welcome", n)>>]

\* _handle_reconnect, up to the close of the replaced socket: the welcome with
\* the turns so far, match_state, and the swap, with no await between them.
Resume(s) ==
  LET old == SeatConn(s)
      new == <<s, cur[s] + 1>>
  IN
  /\ phase \in {"running", "crashed"} /\ Quiet
  /\ cur[s] < MaxConns /\ net[new].role = "new"
  /\ cur' = [cur EXCEPT ![s] = @ + 1]
  /\ net' = [net EXCEPT
        ![old] = [Shut(WriterEnds(@), "closed") EXCEPT !.role = "gone"],
        ![new] = [Greeted(turns) EXCEPT !.role = "live",
                                        !.queue = Append(@, Frame("state", turns))]]
  /\ UNCHANGED <<driver, todo, cache>>

WelcomeCachedByPhase(carries) ==
  /\ carries = turns \/ (cache.at[2] = lifecycle /\ carries = cache.carries)
  /\ cache' = [at |-> <<turns, lifecycle>>, carries |-> carries]

\* send_spectator_welcome: from the cache if the point it was built at is this
\* one, and other matches have not pushed it out; else with all turns so far.
Welcome(carries) ==
  /\ carries = turns \/ (cache.at = <<turns, lifecycle>> /\ carries = cache.carries)
  /\ cache' = [at |-> <<turns, lifecycle>>, carries |-> carries]

\* spectate_handler after a good hello.  Before the match the spectator is
\* parked; after its end it only reads the welcome.
Attach(p) ==
  /\ net[p].role = "new" /\ Quiet
  /\ \E carries \in {turns, cache.carries} :
       LET r == [Greeted(carries) EXCEPT !.mark = turns] IN
       /\ Welcome(carries)
       /\ net' = [net EXCEPT ![p] =
             IF Over THEN Stopping(r)
             ELSE [r EXCEPT !.role = IF phase = "idle" THEN "parked" ELSE "live"]]
  /\ UNCHANGED <<driver, todo, cur>>

\* A spectator that is not followed attaches: only the cache remembers it, for
\* one that is followed and attaches later.
OtherAttaches ==
  /\ Quiet /\ cache.at # <<turns, lifecycle>>
  /\ \E p \in Spectators : net[p].role = "new"
  /\ Welcome(turns)
  /\ UNCHANGED <<driver, todo, cur, net>>

\* A spectator's read loop returns: its socket is gone, it sent something other
\* than a ping or pong and is told so, or the match is done.
Leave(p, r) ==
  /\ net[p].role \in {"parked", "live"} /\ Quiet
  /\ net' = [net EXCEPT ![p] = Stopping(r)]
  /\ UNCHANGED <<driver, todo, cur, cache>>

SpectatorGone(p) == net[p].sock # "open" /\ Leave(p, net[p])
Misbehave(p) ==
  net[p].sock = "open" /\ Leave(p, Queued(p, net[p], Frame("error", 0)))
SpectatorNotTold(p) == FALSE /\ Leave(p, net[p])
SpectatorDone(p) == phase = "done" /\ Leave(p, net[p])

-----------------------------------------------------------------------------
Handlers(p) == Attach(p) \/ SpectatorGone(p) \/ Misbehave(p) \/ SpectatorDone(p)

ConnSteps(c) ==
  \/ Take(c) \/ Sent(c) \/ SendFails(c) \/ CloseSlow(c) \/ Drop(c)
  \/ StopReturns(c)

Next ==
  \/ \E public \in BOOLEAN : BroadcastFrame(public)
  \/ BroadcastRaises
  \/ Start \/ Commit \/ Abort \/ Tell \/ Exit \/ OtherAttaches
  \/ \E s \in Seats : Note(s) \/ QueueClose(s) \/ Resume(s) \/ StopSeat(s)
  \/ \E p \in Spectators : Handlers(p)
  \/ \E c \in Conns : ConnSteps(c)

\* The driver, once a match has ended, the drain timeouts, the background
\* closes and the spectator handlers run.  No socket ever has to take a frame.
Fairness ==
  /\ WF_vars(BroadcastFrame(TRUE)) /\ WF_vars(Tell) /\ WF_vars(Exit)
  /\ \A s \in Seats : WF_vars(StopSeat(s))
  /\ \A c \in Conns : WF_vars(StopReturns(c)) /\ WF_vars(CloseSlow(c))
  /\ \A p \in Spectators : WF_vars(SpectatorDone(p))

Safety == Init /\ [][Next]_vars
Spec == Safety /\ Fairness

-----------------------------------------------------------------------------
(* Properties.                                                              *)

\* What a connection's client will have been sent once all that is queued is.
Pending(c) ==
  (IF net[c].hand = NoFrame THEN <<>> ELSE <<net[c].hand>>) \o net[c].queue

\* The turns a client knows when the first i pending frames have arrived.
Known(c, i) ==
  LET carriers == {j \in 1 .. i : Pending(c)[j].kind \in {"welcome", "turn", "end"}}
  IN  IF carriers = {} THEN net[c].seen
      ELSE LET f == Pending(c)[CHOOSE j \in carriers : \A k \in carriers : k <= j]
           IN  IF f.kind = "turn" THEN f.n + 1 ELSE f.n

Recipient(c) == net[c].role = "live" /\ net[c].writer = "on" /\ ~net[c].slow

\* Nothing is skipped: whenever no broadcast is under way, every recipient that
\* keeps up has been sent, or will be sent by its writer, all turns committed
\* so far - whether it was there from the start, resumed or attached between
\* two turns (runtime_bridge.py:919, routes_ws.py:466) - unless the driver's
\* own crash cut a broadcast short.
CaughtUp ==
  Quiet /\ phase # "idle" /\ ~crashed =>
    \A c \in Conns : Recipient(c) => Known(c, Len(Pending(c))) = turns

\* What a client is sent is in order, whatever raised and however often the
\* crash handler told of the end.  A match_state, observation or rejection never
\* reaches a client that lacks the turns it speaks of (its turn_count), unless
\* it is being closed as too slow; and no client is sent two terminal frames, or
\* anything that moves the match on after the one it is sent
\* (_broadcast_per_viewer builds before it queues).
FramesInOrder ==
  \A c \in Conns :
    LET queue == Pending(c)
        ends == {i \in DOMAIN queue : queue[i].kind = "end"}
        After(i) == {queue[j].kind : j \in {k \in DOMAIN queue : k > i}}
    IN
    /\ ~crashed => \A i \in DOMAIN queue :
         queue[i].kind \in {"state", "note"} /\ ~net[c].gap =>
           Known(c, i - 1) = queue[i].n
    /\ net[c].ended + Cardinality(ends) <= 1
    /\ net[c].ended = 1 => After(0) \subseteq {"stop", "error"}
    /\ \A i \in ends : After(i) \subseteq {"stop", "error"}

\* The driver does not close a seat that keeps up before it has been sent its
\* terminal frame, when the drain was not cut short (_close_both).  The frame
\* itself may be missing only if building it failed twice.
TerminalDrained ==
  \A c \in SeatConns :
    net[c].stop = "drained" /\ net[c].sock = "closed" /\ ~net[c].slow =>
      net[c].ended = 1 \/ (crashed /\ faults > 1)

\* "Terminal messages (match_finished / match_aborted) are enqueued like any
\* other frame, so the socket must not be closed until the outbox has drained"
\* (runtime_bridge.py:676): only the drain timeout may cut it short.
NotCutShort ==
  \A c \in SeatConns :
    net[c].stop = "cut" /\ net[c].sock = "closed" /\ ~net[c].slow => net[c].ended = 1

\* Every reader follows the match as TurnFeed says: no turn twice, none
\* skipped, history first, and the last frame leaves it with every turn.
Feed == INSTANCE TurnFeed WITH
  Readers <- Conns, ended <- Over,
  seen <- [c \in Conns |-> net[c].seen],
  last <- {c \in Conns : net[c].ended > 0}
ImplementsFeed == Feed!Spec

\* A reader that stopped reading never holds the driver up: once the match has
\* ended the driver returns, though no send ever completes, and then every
\* connection is released: no seat, superseded or slow connection, and no
\* spectator, stays open.
EverySocketShut ==
  Over ~> (phase = "done" /\ \A c \in Conns : net[c].sock # "open")
=============================================================================
