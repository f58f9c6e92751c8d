# AgentsArena in TLA+

AgentsArena lets two agents play turn-based games, locally or over a WebSocket server, while
spectators watch. This directory models the parts of it whose correctness depends on order:
handlers that interleave at every `await`, timers that race with frames, connections that are
replaced under a running match, caps and queues at their limits. The models are checked with TLC on
small instances and the most important results are proved with TLAPS for every instance.

Paths below are relative to the repository; `runtime_bridge.py` and its neighbours are in
`src/arena/server/`.

## 1. Inventory

### 1.1 Components

| Component | State it keeps | Operations | Talks to |
|---|---|---|---|
| **Match driver** `runtime_bridge.py` `run_match` | session, terminal flag, abort task, deadline timers, heartbeat tasks, committed/rejected turn ids; per seat loop: connection in use, retries left, protocol errors | start, obtain one action per acting seat, apply, broadcast, abort, finish, crash handling, cleanup | seats' sockets, `MatchConnections`, runtime session, transcript store, rate limiter |
| **Broadcast** `runtime_bridge.py` `_send` … `_close_both` | outbox, writer task and overflow flag per connection; watermark per spectator; transcript and welcome caches | queue, drain, overflow, shed, close, spectator welcome, resume welcome | driver, handlers |
| **Seat claim** `routes_ws.py` `play_handler` … `_handle_reconnect` | seat slots, ready/done/reconnect events, match connections, resume tokens | hello, wait for the opponent, start the driver, resume, release | registry, rate limiter, driver |
| **Spectators** `routes_ws.py` `spectate_handler` … | pending spectators | hello, welcome, attach, read, detach | broadcast, registry |
| **Registry** `registry.py` | matches, their last observed activity | create, get, delete, sweep and shed | HTTP routes, handlers (eviction hook in `app.py`) |
| **Rate limits** `rate_limits.py` | slots per address and match, sliding windows | acquire, release, check, reserve, prune, forget | every handler |
| **Transcript store** `transcript_store.py` | bodies and an index by age and size, in memory, files or SQLite | put, get, purge | driver, HTTP `GET …/transcript` |
| **Runtime session** `runtime/session.py` | lifecycle, local match, events, abort | create, start, step, joint step, abort | local match, policies |
| **Local match** `match/*.py`, `core/*.py` | game state, turn records | apply an action, a joint action or a chance outcome; drain chance nodes; views; replay | rules engines |
| **Games** `games/*` | one rules engine each: Nim, Pig, RPS, Liar's Dice, Tic-tac-toe, Connect 4 | initial state, legal actions, validate, apply, result | local match |
| **SDK** `sdk/*`, **MCP** `mcp/*` | client session, session registry | connect, receive, act, resume | server, local sessions |
| Wire codec, CLI, agents, scaffold, test kit, UI payloads, TypeScript SDK | no protocol state | parse, format, render, generate | the above |

Everything on the server runs on one asyncio event loop: code between two `await`s is atomic, and
every `await` lets any other task run. That is the atomicity used by every model here.

### 1.2 What is hard

* **Two loops, one match.** In a simultaneous round each acting seat has its own loop, with its own
  deadline, retries, grace and heartbeat, and either may end the match while the other is between
  two `await`s. The round cancels the loops; the abort must survive that.
* **A connection replaced under its reader.** A resume swaps the seat's connection at once, closes
  the old socket (an `await`), and only then registers and signals. The loop sees it through the
  old socket's end, an event and a map that can each be stale.
* **Timers that tie.** Deadline, grace, heartbeat and throttle may fire in the same event-loop turn
  as the frame or resume they race with.
* **Failure in the middle.** Game code may raise while a round is applied, a frame is built, or the
  match is being ended because of an earlier exception.
* **Queues at their limit, slow readers, spectators that come and go** between two turns.
* **Eviction** of a match while handlers of that match wait.
* **Crash** of the process between writing a stored transcript and indexing it, and reads outside
  the store's lock while a put replaces the file they opened.
* **A decision slower than its turn**, in a client that must go on answering pings meanwhile.

### 1.3 What makes each component correct

* Driver: one terminal frame per seat and none after it; no commit beside an abort; every exit has
  told the seats; every match ends; a resumed seat is not lost; retries bounded; a turn id decided
  once; deadlines never restarted.
* Broadcast: each recipient sees every turn exactly once, in order, from its welcome on; a slow
  reader never blocks the match and is dropped, not skipped.
* Seat claim: one connection per seat, a token works once and only while the match runs, no slot,
  event or counter is leaked or revived by a handler that outlives its match.
* Registry: capacity held, running matches never shed, the limits are minima.
* Rate limits: caps never exceeded, every acquisition released once, no live bucket pruned.
* Store: what was put is what is got until it expires; a crash loses at most the last put.
* Runtime and local match: a lifecycle that only moves forward; turns append-only; chance drains
  end; a transcript replays to the state it came from.
* Games: only legal actions change a state, every game ends, results match a reference definition.

## 2. Plan

### 2.1 Modules

| Module | Models | Runs | Proved |
|---|---|---|---|
| `MatchLifecycle` | what a match promises (abstract specification) | through `MatchDriver` | |
| `MatchDriver` | the driver, its loops, the resume hand-over; implements `MatchLifecycle` | `driver_*` | `MatchDriverProofs` |
| `TurnFeed` | what each reader of a match is promised (abstract) | through `Broadcast` | through `BroadcastProofs` |
| `Broadcast`, `MCBroadcast` | outboxes, writers, spectators, resume replay; implements `TurnFeed` | `broadcast_*` | `BroadcastProofs` |
| `SeatClaim`, `MCSeatClaim` | the handlers, the dicts of `app.state`, tokens, gauges, eviction between any two of their steps | `seat_claims` | `SeatClaimProofs` |
| `SlidingWindows` | the window operators of the rate limiter | | `SlidingWindowsProofs`, used by `MatchRegistryProofs` |
| `ActionSlots` | what `reserve_action` promises one match (abstract) | through `MatchRegistry` | through `MatchRegistryProofs` |
| `MatchRegistry`, `MCMatchRegistry` | creation, sweeps, shedding, windows and their pruning; implements `ActionSlots` for each match | `registry` | `MatchRegistryProofs` |
| `TranscriptStore`, `MCTranscriptStore` | the three stores, the drivers that put, the readers, restarts and failures | `transcripts` | `TranscriptStoreProofs` |
| `GameCore`, `Nim`, `Pig`, `Rps`, `LiarsDice`, `BoardLines`, `TicTacToe`, `Connect4`, `Games` | the rules engines, and the hooks by which they are called | `play` | `LocalRuntimeProofs` |
| `LocalMatch`, `Transcripts`, `RuntimePayloads`, `LocalRuntime`, `MCLocalRuntime` | matches, transcripts, envelopes, sessions and the command line's loop | `play`, `short_lines` | `LocalRuntimeProofs` |
| `SeatWire` | one seat's connection and the server behind it, as its client may see them | `clients` | |
| `SdkClient`, `McpTools`, `SeatClients` | the two clients against that wire | `clients` | `SeatClientsProofs` |

An MC module holds the definitions its configurations need: sets of initial values, symmetry, the
states a run explores. `MatchDriver` and `SeatClients` need none, and their configurations give the
constants directly.

### 2.2 How they fit together

* `SeatClaim` starts and ends the driver; `MatchDriver` says what it does in between, with resumes
  and disconnections as free inputs. `Broadcast` takes the driver's starts, commits, aborts and
  notes as inputs and follows the frames.
* `SeatClaim` evicts no match whose driver is active. That is what `MatchRegistry` shows of the
  registry (`LimitsAreMinima`): the assumption of the one is a property of the other.
* `MatchRegistry` implements `ActionSlots` for every match (`ActionsKeepTheirSlots`). `ActionSlots`
  has no window: it asks for the first moment that keeps the rate of all slots ever given, and the
  window from which the code computes that moment is the implementation.
* `SeatWire` sends a client what `MatchDriver` and `Broadcast` let a seat receive: one observation
  at a time, rejections while attempts are left, turns in order, a terminal frame last but for
  pings. `SeatClients` runs each client against it.
* `LocalRuntime` uses `LocalMatch` for its steps, `Transcripts` and `RuntimePayloads` for what it
  writes, and `Games` for every rule. The server's session is the same class; its lifecycle is
  `MatchLifecycle`, which `MatchDriver` implements.

### 2.3 What could follow

Matches driven through two sessions in one process, and a client of the TypeScript SDK, are the next
models.

## 3. The driver: `MatchDriver`

### 3.1 State and actions

| Variables | In the code |
|---|---|
| `lifecycle`, `turns`, `reason` | `session.lifecycle`, `len(local_match.turns)`, the abort reason |
| `committed`, `rejected` | `committed_turn_ids`, `rejected_turn_ids` |
| `driver`, `round` | where `run_match` is: before the start, its main loop, past the commit at the turn cap, in a round for the seats `round`, waiting for an end it asked for, draining after a loop returned `None`, in its crash handler, returned |
| `ending`, `terminalSent` | how far `_perform_abort` (or the tail of `run_match`, or the crash handler) has come; `terminal_sent` |
| `crashed`, `faults` | whether the crash handler was entered; exceptions game code has raised so far |
| `loop`, `act`, `held` | per seat, where `_obtain` is, its `active_conn`, the action it holds while throttled |
| `dl`, `retries`, `spent`, `perr`, `hb` | deadline event, `retries_left`, rejections so far in the turn, `protocol_errors`, the connection its heartbeat pings |
| `cur`, `open`, `sup`, `used` | `conns[seat]`, open sockets, superseded connections, connections opened |
| `ev`, `rc`, `pend` | reconnect event, `_ws_reconnect_conns`, resume handlers that await the close of the replaced socket |
| `told`, `late` | terminal frames sent to each connection, kinds of frame sent to an open connection after one |

`pend`, `used`, `spent`, `told` and `late` are history or handler-local state; the code decides
nothing by `spent`, `told`, `late` and `sup`.

Each action is the code between two `await`s that may suspend (a send to a running writer only
queues and does not). The names follow the code: `BeginRound` is `_obtain` up to its first read;
`ReadAction`, `ReadMalformed`, `ReadDisconnect`, `ReadExpires` are what `_receive_action` may
return; `DropDuplicate`, `DiscardAction`, `AcceptAction`, `RejectAction` what happens to the action
once the throttle lets it through; `GraceEnds`, `ResendRequest` the grace wait and the two halves
of the hand-over around the cancellation of the old heartbeat; `Commit`, `JointRefused`,
`TurnCapReached`, `RoundBreaks` the ends of a round; `AbortSession`, `Publish`, `CloseSeat` the
steps of `_perform_abort`; `HandleCrash`, `Exit` the `except` and `finally` blocks; `Resume` and
`ResumeRegisters` the halves of `_handle_reconnect` around the close of the old socket.

### 3.2 Abstractions

* The game is the set of seats it asks next (`Rounds`), whether an action is legal, how many chance
  turns follow it, and whether the match is then over: all free choices.
* Clients are chaotic: any frame, close or resume at any time. A resume carries a valid token (the
  token check is the seat claim's).
* Outboxes, writers and spectators are left to `Broadcast`. Of the frames only the terminal one,
  and what comes after it on an open connection, is kept.
* `peer_disconnected` and `heartbeat_timeout` are one reason, `seat_lost`. The heartbeat's count of
  misses is a free choice of when it times out.
* The throttle may hold an action for any time, so it is the state `held`.
* `faults` counts exceptions raised by game code or a frame builder: when a request is built, a
  joint action applied, turns broadcast, or terminal frames built. An exception raised by a
  policy check of an action is a rejection, as in the code.
* Queues are bounded by the sockets here, so no bound on frames is needed; the bounds are named
  constants: `MaxConns`, `MaxChance`, `MaxFaults`, and the code's own `RetryBudget`,
  `MaxProtocolErrors`, `TurnCap`.

### 3.3 Fairness

`Spec` has weak fairness of the driver's steps without faults, of the end of the match, and per
seat of its loop, its deadline timer and its resume handlers: the event loop runs every ready task
and fires every timer. Frames, disconnects, resumes and faults are never required, and the
heartbeat is not either: `DriverExits` rests on the deadline alone. `ResumeIsRead` is checked
without a deadline, where only the close of the replaced socket can free the loop.

### 3.4 Runs

| Run | Instance | Question |
|---|---|---|
| `driver_turns` | one seat per round, 2 connections each, turn id `t1` and fresh ones, 1 retry, cap of 2 turns, 1 chance turn, 1 fault | types; turn ids decided once; no silent exit where one seat acts at a time |
| `driver_resumes` | one seat, 3 connections, 1 retry, 1 malformed frame allowed, no deadline | heartbeat and grace against resumes in any order; a resumed connection is eventually read |
| `driver_joint` | both seats in one round, 2 connections each, 1 fault, a deadline | terminal frame once, clean exit, no commit beside an abort, steps of `MatchLifecycle`, the driver exits |

The bounds are the smallest at which the races happen: two connections per seat let a seat be lost,
resumed, and lost again; three let two resume handlers of one seat overlap; a cap of two turns gives
a turn id a later turn to be repeated in; one retry distinguishes spent from exhausted; one fault
lets the crash handler start from every state (a second exception, in the handler's own broadcast,
is covered by the proofs of `TerminalFrameOnce` and `CleanExit` for any number).

`driver_resumes` has no deadline, so that only the close of the replaced socket can free a loop
that reads it. `RejectionsBounded` and `NoReplyAfterTerminal` are proved (3.6) and in no run.
`DeadlineArmedOnce` holds by the shape of the model. `ImplementsLifecycle` is `StepsAsLifecycle`
with the abstract fairness; `DriverExits` is the stronger liveness.

### 3.5 Where code and documents disagree

The run `driver_silent_exit` expects a violation. In a simultaneous round, an abort whose broadcast
raises is swallowed by `gather(return_exceptions=True)` when the other loop returned `None` first;
`run_match` returns without a terminal frame or a 4500 close, which the comment at 1996 promises.

Two more configurations reproduce smaller disagreements, each with a sentence the repository
states. TLC finds a counterexample of each at once (`-continue` shows both of `MCDriverLate.cfg`):

* `MCDriverLate.cfg`, `NoRequestAfterTerminal`: after the grace wait a loop does not look at
  the lifecycle again (`runtime_bridge.py:1623`), so a seat that resumes while the other seat's
  abort is under way is sent `observation_request` after `match_aborted`.
  `docs/NETWORK_PROTOCOL.md:545` calls `match_aborted` "The last frame", and the comment at 1554
  guards the other paths against it.
* `MCDriverLate.cfg`, `NoPingAfterTerminal`: the acting seat's heartbeat runs on while
  `_perform_abort` drains and closes the sockets, and may ping after `match_aborted`.
* `MCDriverStaleResume.cfg`, `InstallsLatest`: two resume handlers of a seat may finish out of
  order (`routes_ws.py:604-618`); the later one puts a superseded connection in the reconnect map,
  and the driver may install it (`runtime_bridge.py:1637`: "use the connection the handler swapped
  in"). The seat recovers: the superseded socket is closed and the loop waits for the next resume
  (`ResumeIsRead`, `ResumedSeatIsKept`).

### 3.6 Proofs

`MatchDriverProofs` proves, for all values of the constants that satisfy `DriverAssumption`:

* `TypeCorrect`: `Spec => []TypeOK`, by one lemma per group of actions.
* `TerminalFrameSentOnce`: at most one terminal frame per seat. `TerminalFrameOnce` is not
  inductive: a step needs to know that no terminal frame precedes the closing phase and that a crash
  handler that comes after it knows so (`TerminalFrameTracked`), hence how far the end has come
  against the lifecycle (`EndFollowsSession`), and that an abort begun in a round is awaited by a
  loop that cannot accept (`AborterInRound`, `LoopsInRound`). Their conjunction is `DriverInv`,
  proved inductive relative to `TypeOK`. Seat steps are summarised first (`SeatStepSummary`): they
  only move one loop, or ask for the abort.
* `NoLateCommit`: `NoCommitAfterAbort`, from the same invariant.
* `RefinesLifecycle`: every step of the driver is a step of `MatchLifecycle` or leaves it alone.

From `DriverInv` it goes on to the seat loops. `LoopInv` is inductive relative to it:

* `ExitIsClean` (`CleanExit`): past `driver = "done"` nothing moves, and `Exit` clears all it must.
  That it may only run once the end is carried through needs `AbortKnown`: a loop that awaits an
  abort awaits the session's.
* `ReaderIsPinged` (`HeartbeatFollowsReader`), from itself: every way a loop begins to read must
  have started a heartbeat on that connection.
* `BudgetHolds` (`RejectionsBounded`) by `BudgetKept`: rejections and retries left add up to the
  budget, and a loop that has accepted does not reject (`AcceptedIsFree`).
* `SilentAfterTerminal` (`NoReplyAfterTerminal`): replies go to the connection a loop reads, which
  is an older one than, or the same as, the seat's current one (`ConnsInOrder`); no reply is sent
  once the session is over.
* `TurnIdsAreSpent` (`TurnIdsDecidedOnce`) and `ResumedSeatNotLost` (`ResumedSeatIsKept`) are action
  properties that follow from the guards and the invariants.
* `NoSilentExit` (`ExitTellsEverySeat`) by `ExitInv`, under `OneLoopOneFault`: one seat acts at a
  time and game code raises at most once. Without the first the statement is false
  (`driver_silent_exit`); without the second the crash handler's own broadcast may raise.

Only model-checked: the liveness properties `DriverExits` and `ResumeIsRead`.

## 4. The broadcast: `Broadcast`

### 4.1 State and actions

`net` maps every connection, a seat's `<<s, k>>` or a spectator, to a record: its `role` (parked
before the match, live in `MatchConnections`, stopping in `_stop_writer`, gone), the `sock`et and who
ended it, the `writer` task with the frame in its `hand`, the `queue` (outbox), `slow`
(`outbox_overflowed`), `closing` (a background close is scheduled), `gap` (a frame was dropped),
`mark` (`next_turn_index`), `stop` (how `_stop_writer` ended), and what its client was sent (`seen`
turns, `ended` terminal frames). `gap`, `stop`, `seen` and `ended` are history.

A broadcast of several frames does not yield, since every registered connection has a running
writer. So the frames it has left are the variable `todo`; `BroadcastFrame` queues the next one to
every live connection and sheds slow spectators, as `_broadcast_per_viewer` and `_broadcast` do, and
every other action waits until there are none (`Quiet`). `BroadcastRaises` may take its place at any
frame: a seat's view could not be built, nothing was queued, and the crash handler takes over
(`crashed`, `owed`). A public view that cannot be built only drops the spectators.

Between broadcasts the driver starts, commits, aborts and tells freely (`MatchDriver` says when it
may); `Note` is any frame for one seat. `Take`, `Sent`, `SendFails` are the writer; `StopSeat`,
`StopReturns`, `Exit` are `_close_both` and the end of `run_match`; `Resume`, `Attach`,
`SpectatorGone`, `Misbehave`, `SpectatorDone` are the handlers. `CloseSlow` is the background close.

### 4.2 Abstractions

* A frame is its kind and the number of turns it carries or speaks of. Views, and the caches that
  render them, are left out; the cache of serialised welcomes is kept, because a stale one is a gap.
* `Sent` is the end of `send_text`. It need never happen (a transport that blocks), or it may leave
  more than the allowed backlog unsent (a transport that buffers).
* `Commit` waits for a close that an earlier broadcast scheduled when it dropped a frame: asyncio
  runs ready tasks in order, and the driver only resumes after waiting for a frame. Once the close
  has begun Starlette sends nothing more on that socket.
* Failures to build a welcome are left out: that handler closes its socket and touches nothing else.
  A failure swallowed in a simultaneous round (3.5, `driver_silent_exit`) is `MatchDriver`'s.
* Outboxes hold 2 or 3 frames instead of 64, and `MaxTurns`, `MaxChance`, `MaxNotes` and
  `MaxFaults` bound the match. `Casts` are the sets of connections a run follows together: readers
  meet only in the driver's failures, the order of the closes and the cached welcome
  (`OtherAttaches` is a spectator that is not followed), so a run checks several small casts
  instead of all connections at once.

### 4.3 Runs

| Run | Instance | Question |
|---|---|---|
| `broadcast_feed` | a seat that resumes, or a spectator; 2 turns, 1 chance turn, 1 frame of the seat's own, 1 exception | `TurnFeed`; nothing missed by a reader that keeps up; no state frame before its turns; one terminal frame, last, and drained before the close |
| `broadcast_release` | both seats; a seat that resumes; a seat and a spectator; a match without turns | readers never block the driver; every socket is released |

Fairness: the driver after the end of the match, the drain timeouts, background closes and the
spectator handlers. `Sent` and `Take` have none, so `EverySocketShut` holds with readers that never
read. An outbox of two frames is full after a turn and its state frame, so every way of
overflowing, and of being full at the end, occurs. `broadcast_feed` asks only for safety and runs
under `Safety`, the specification without fairness.

`MCBroadcastCut.cfg` (an outbox of 3, 2 turns) reproduces a disagreement: `_stop_writer` cancels a
writer whose outbox is exactly full without waiting (`runtime_bridge.py:685`), so the terminal frame
is lost, although its docstring (676) says the socket must not be closed before the outbox has
drained. Only the drain timeout should cut a drain short (`NotCutShort`).

### 4.4 Proofs

`BroadcastProofs` proves, for every number of seats' connections and spectators, every bound on
turns, notes and faults and every outbox of two frames or more:

* `StreamsStaySane`: the inductive invariant `IInv`. It says of the driver what is left of the
  broadcast under way (`DriverInv`), and of each connection (`Sane`):
  * the frames its client is still to be sent, the one in the writer's hand and those in the outbox,
    continue what the client has one by one and end where the broadcast goes on (`Streams`, with
    `At` for what a client has after some of its frames and `Reached` for where the broadcast is);
  * what its role, socket, writer and flags may be together (`Placed`): a connection with a dropped
    frame is slow, and if it is a seat's its close is scheduled or its socket already shut;
  * a seat that keeps up holds the terminal frame, or was sent it, once the seats are being closed
    (`Told`).
* From it `NobodyMissesATurn` (`CaughtUp`), `FramesStayInOrder` (`FramesInOrder`) and
  `SeatsAreToldTheEnd` (`TerminalDrained`).
* `ClientsFollowTheFeed` (`ImplementsFeed`): the end of a send is a `Greet`, `Follow` or `Finish` of
  `TurnFeed` for that client, a start, commit or abort is its `Grow`, and everything else a stutter.

The delicate case is a frame dropped in the middle of a broadcast of turns: the frames after it would
no longer continue what is pending. They are dropped too, because the outbox is full and no writer
runs before the broadcast is over; and the next broadcast only begins once the close has shut the
socket, so what is still queued is never sent. An outbox holds two frames at least because a resumed
seat's welcome and the frame right behind it must both find room. The proof is about `Safety`, the
specification without fairness. `EverySocketShut` is liveness and only model-checked.

## 5. Seat claims: `SeatClaim`

### 5.1 State and actions

A connection is its handler, and a step is the code between two awaits that may suspend. `handler`
maps each connection to where its handler waits (`idle`, `hello`, `welcoming`, `waiting` for the
opponent, `driving` the match, `ending` it, `seated` until it is done, `swapping` and `resumed` on
the resume path, `watching`, `closing`, `gone`), whether its socket is open, the slots it holds,
what it asks for, and the connection it replaces. The match is `registered`, its `lifecycle`, and
whether its driver is active. `entries` are the dicts of `app.state` that have a key for the match;
`slots`, `live`, `watchers`, `parked`, `ready`, `done` and `superseded` are their values; `tokens`
the resume tokens, named by the connection they were sent to; `known` those each client has been
sent; `seated`, `spectating` and `perIp` the gauges of the rate limiter; `doomed` the sockets whose
close `_wake_waiters` has scheduled.

`Evict` is the registry's eviction with the whole hook of `app.py`: wake who waits, then drop every
entry, and forget the gauges. It may come between any two steps of any handler, except while the
driver is active (2.2). The driver's activity ends before its handler's cleanup: `DriverStops` is
`driver_active = False` (`runtime_bridge.py:2051`), then `run_match` awaits its heartbeats and the
seats' writers (2054-2058), and only `DriverReturns` sets the done event and clears tokens, seats,
connections and parked spectators (`routes_ws.py:490-497`). In between tokens and seats are still
held, and the match may be evicted; `EntriesAtEnd` then brings no entry back. A resume may also fail
after its token was stored (`ResumeFails`): the seat keeps its connection, with a token nobody has.
Every early return is its own disjunct, with what its `finally` gives back.

### 5.2 Run and fairness

`seat_claims`: Alice comes for seat 0 and Bob for seat 1; a second connection of Alice's resumes;
Carol claims seat 0 as well, or watches. All share an address that may hold three connections; a
match takes two players and one spectator. So every cap is met, a seat is contested, a token is
presented early, in time, twice over (by its rotation) and late, and the match is evicted at every
point. Weak fairness of what the event loop runs (`Runs`), of the hello timeout and of the end of
the match: a handler that waits for a frame of a client is never assumed to get it.

`NothingRevived` makes one exception, the dict of resumed connections: a resume that awaits the
close of the socket it replaces writes to it after the match is gone (`routes_ws.py:604-618`), and
nobody removes that entry (`ResumesReviveNothing` does not hold).

`MCSeatClaimStuck.cfg` reproduces a disagreement: if a seat's welcome fails while the other seat has
already set the ready event (`routes_ws.py:383`, 416), the seat that waits passes the event and
holds its slot although its socket dropped; the comment at 567 has such a client come back with a
fresh hello, which is refused (`DroppedSeatIsFreed`).

### 5.3 Proofs

`SeatClaimProofs` proves for every set of connections, clients, requests and caps:
`ClaimIsInvariant` (`TypeOK` and `ClaimInv`), and from it `EvictedStaysGone` (`NothingRevived`),
`GaugesCount` (`GaugesExact`), `EndedIsEmpty` (`EndedMatchHoldsNothing`) and `SeatsAreKept`
(`SeatKeepsItsClient`). `EndedMatchHoldsNothing` speaks of a match that is over and has no handler
left that drives or ends it, whether or not it was evicted before that handler's cleanup. The
properties are not inductive alone. A gauge counts handlers, so each must hold a slot at most once
and none before it asks (`SlotsOnce`); an entry is not brought back because every handler checks the
registry, its slot or its event after an await, which needs that a match that is gone has no seat
(`GoneIsEmpty`); a seat keeps its client because its token, its slot and its connection name the
same client (`TokensFollowSeats`) and one handler drives or ends the match (`OneDriver`). Types are
proved together with `ClaimInv`, since a gauge that counts handlers never goes below zero. Most
steps touch neither seats nor the match: they are handled once, as calm steps that only move a
handler and give slots back, and the starts, claims, resumes, ends and evictions one by one.
`NobodyWaitsForEver` is liveness and only model-checked.

## 6. Registry, limits and stored transcripts

### 6.1 `MatchRegistry`

`TooMany`, `BadRequest` and `Create` are `POST /matches`: the creation window of the address with its
pruning, the sweep, shedding when there is no room, and the answers 429, 400 or 413, and 503 or 201.
`windows` and `pruneAt` are `_creations` and `_prune_at`; `matches` keeps per match what the registry
observed last and when; `actions` are `_actions`. `Start`, `Commit`, `End` and `Return` are a match's
driver, at any time; `Reserve` is `reserve_action`, and `ActionSlots`' step for that match. It asks
only that the driver is active: the code's `setdefault` looks at neither the registry nor the match's
lifecycle, so a driver that outlived its match would bring its window back. `driving`, the matches
whose driver is active, is therefore kept apart from `matches`, and that eviction spares them is
something the properties have to find out (`WindowsBounded`, `LimitsAreMinima`). `allowed`,
`slots`, `changed` and `busiest` are history. `changed` is the clock at the change itself, which the
registry only sees at its next sweep: that is what `LimitsAreMinima` is about.

`CreationRate` and `WindowsBounded` are what pruning may break in either direction: a window dropped
too early forgets a cap, and one never dropped stays for the life of the process.

The run `registry` has three matches for two places, three addresses, limits of 1, 2 and 1 steps of
the clock, one creation per address in a step, two actions per match in two steps, and a threshold of
one window, so that windows are pruned, matches expire by each limit and are shed. Its constraint
`Explored` keeps the two questions apart. Three matches share two slots and two steps of the clock; a
match that is created alone takes six slots and four steps, so that slots lie in the future behind
others that do, and windows hold more than the cap, are pruned and fill again. `ActionSlots` knows only
the slots given: a window taken for full one slot late, or a wait counted from the wrong slot, is a
violation. Addresses and matches are interchangeable (`SYMMETRY`; the run has no liveness).

`SlidingWindowsProofs`: `SlotIsTheEarliest`, for every cap and span. The slot computed from a window is
the first moment, from now on, that keeps the rate of all the slots ever given. The window alone does
not say it, since it has forgotten the older ones; what matters is that it is their tail, in order,
and that what it lost is a span old (`IsTailFrom`, `InOrder`), and that a slot in the future is a span
after the one `Cap` places before it (`Waiting`), so that a slot is free only when none waits.

`MatchRegistryProofs`, for every number of addresses and matches and every limit:

* `CreationsKeepTheRate` (`CreationRate`). As for the slots, a window is related to all creations ever
  allowed: it is their tail, and what it has lost, all of it if the window was dropped, is a span old
  (`Remembered`).
* `WindowsStayBounded` (`WindowsBounded`): a scan is due before the dict outgrows the size the last
  scan set, and that size is the threshold or twice what survived, which was active (`ScannedInTime`).
* `EvictionsRespectTheLimits` (`LimitsAreMinima`): what the last sweep saw of a match is no earlier than
  its last change if the match is still what the sweep saw (`AgesAreMinima`), so an age is never
  overstated.
* `EachMatchHasItsSlots` (`ActionsKeepTheirSlots`): every step is a step of `ActionSlots` for each match,
  or none. `SlotsRemembered` relates each match's window to its slots as `SlotIsTheEarliest` needs it,
  and a driver's match is registered, so that nothing is reserved for a match that is gone.

### 6.2 `TranscriptStore`

One put of the memory or SQLite store is one step, since the lock is held throughout. A put of the
file store is its file operations (`PutBegin`, `PutWrite`, `PutNoSpace`, `PutFails`, `PutReplace`,
`PutDone`), because a crash, or a read of a file outside the lock, may come between any two.
`index`, `disk`, `tmps` and `orphans` are the store; `Restart` is the end of the process at any point
and the next one's loading of the directory or database. `Ask`, `Slot`, `GetMemory`, `GetSqlite`,
`GetFile`, `Open`, `Recheck` are the endpoint: whether a save is pending is read first, then a read
slot taken, then the record looked up, the file opened, and looked up once more if it was replaced.
`driver` is the end of a match around `persist_public_transcript`, which the crash handler calls again
when the terminal frame could not be sent (`StoreAgain`). `shed`, `denied` and `saw` are history.

The run `transcripts` has two matches whose transcripts weigh 1 to 3 against a byte cap and record
limit of 2, so that both fit, one is in the other's way, or one is too large; one read at a time;
each of the three stores; a record that lives for two steps of the clock; and mishaps out of restarts, a
clock set back, a full disk, failed writes, files that another process holds or that are lost, and a
second save of the same match. While nobody reads there are up to three mishaps and two steps of the
clock; a read in progress sees two of them together (`Explored`).

Three are what it takes for two files of one match to meet the next process, whose caps they also count
against: a file is held and given up, its match is saved a second time, and the process ends. Two
suffice when it ends between the renaming of the new file and the deletion of the old one. A read needs
two: a put, clamp or loss between its look-up and its file, and another before it looks again; or two
steps of the clock, for the end of retention.

* `StoreInOrder`: whenever the lock is free the caps hold and the index is the directory. Loading both
  files of a match, or leaving behind the file a put replaces, breaks it;
* `ReadsLinearize`: what a read answers was true at some moment since it took its slot, although the
  file is opened outside the lock;
* `AnswersHold`: a client that has seen the terminal frame can fetch the transcript at once and
  later, unless retention or a fault took it; and a 404 is final.

Where the code does not promise more, the properties say so. A read that finds its file replaced
twice answers 404 although a record is stored (two `tries`). A failed first save that the crash
handler repeats, or a restart that finds a file its predecessor could not delete, may serve what was
denied (`Undecided`). File names carry the millisecond of the put; the guards of `Tick`, `LetGo` and
`PutBegin` assume that a name does not come back while a file of that name is given up, read or
replaced (`Taken`): the clock would have to be set back to that very millisecond. Several files
dropped by one put are dropped in one step. `sweep` and `close` are left out: nothing on the server
calls the one, and the other ends the process.

`TranscriptStoreProofs`, for every number of matches and readers, every policy, and any number of
mishaps:

* `StoreKeepsItsInvariant`: `IInv`, from which the three properties follow (`StoresStayInOrder`,
  `ReadsAreLinear`, `AnswersAreKept`).
* `StoreInOrder` speaks of a free lock; the invariant of every step of a put. The index mirrors the
  directory but for the file being put (`Indexed`), and from the moment room was made the caps hold
  with the new record counted in (`CapsHeld`).
* `NamesAreNew` is why no file is taken for another when one is put, re-dated, given up or read.
  It failed without the file being replaced in `Taken`: a clamp could then rename the file of a
  live record onto a file that waits to be deleted.
* A 404 is final by `Denials`: of a match that was denied nothing is stored, no file of it lies in
  the directory for a restart to find, and its driver will not put again (`Gone`). What a reader
  may still answer is known from where it stands (`ReaderKnown`); `Onward` is what any step of
  another leaves true of it.
* A restart keeps the invariant because the newest file of a match is what its index knew
  (`LatestFile`, `LoadedMirrors`).
* The byte cap is a fold over a set. The provers have no induction over data, so `WeightIs` counts the
  bytes themselves, by a least counterexample, and the cardinality theorems do the rest.

## 7. Local sessions and the games

`LocalRuntime` is `play_match` around a session: it is created (`Init`), started, a turn is requested
and answered by its policy, or a joint round by both; a missing policy, an exception, a refused action
or an interrupt aborts it; and the artefacts are written. Policies are free: they answer for any seat
with any action, fail, or the person at the keyboard quits. `match` is the `LocalMatch` (state and
turns), `events` the session's list, `abort` its cause, `artefacts` the files. Definitions are
values the code computes: `LocalMatch` steps and validates, `Transcripts` dumps, redacts and replays,
`RuntimePayloads` wraps a session in an envelope and takes it apart. A step drains the chance nodes it
reaches (`Settled`, at most `MAX_CONSECUTIVE_CHANCE_STEPS` of them); that no shipped game needs more
than one is proved (`SettledIs`), so the limit is never met.

`RuntimeAssumption` says what the constants may be: any set of configs that the six games accept
(`GameConfigs`), any sets of bound seats and agents, any number of retries.

Each game is a module of operators (`Nim`, `Pig`, `Rps`, `LiarsDice`, `TicTacToe`, `Connect4`) and
`Games` dispatches to them as the rules interface does. The properties compare what the code
decides in more than one place:

* `RulesAgree`: an action is listed for a seat exactly when validating it succeeds; the result
  computed from a state is the one its last move announced; a state that play reaches is one
  `load_state` accepts; a live match waits for a seat.
* `ReplaysAsPlayed`: whatever was played, the transcript written at the end replays, without the
  seed, to the same states, events and results, and its runtime envelope validates, but not as that
  of a match that ended the other way.
* `TamperedIsRefused`: a finished transcript with a turn dropped, repeated, exchanged or altered, or
  of another version, is refused, exactly if what is left is not itself a play. `IsPlay` is the
  reference: it says turn by turn, without replaying, what a match could have written.
* `HandsStaySecret`: nothing a seat, a spectator, a policy or the screen is shown depends on the hand
  another seat holds in this round, or on what its agent wrote (two sessions that differ in these
  look the same).
* `RedactedIsTheView`: redacting the archived record for a viewer gives what the session would have
  dumped for that viewer.
* `EventsTellTheMatch`: every turn of a seat is requested and accepted once, under its own number
  though chance turns lie between, and the match ends in the events as it ended.
* `SessionEnds`: every session ends if its policies answer (`WF_vars(Next)`), but for Pig's, where
  seats may bust for ever.

The run `play` has Nim with two piles of up to 2, Pig to 4 points (die falls on 1, 2, 6; 8 turns),
Rps to two wins in two rounds, Liar's Dice with one die each (all rolls and actions) and two (fixed
rolls, few bids), Tic-tac-toe from an opening of five marks, Connect 4 on a board of 4 by 4 with
lines of 4 from an opening of 11 discs, and with lines of 2 in three columns, one of them off the
board. One retry per match; seat 0 is an agent's; either both seats are bound or only seat 0. These
are the smallest in which each rule applies: piles that empty, banking and busting, drawn rounds,
losing the last die, full columns and boards, wins and draws.

`short_lines` expects a violation: the runtime transcript of a Connect 4 match with another winning
length than the default does not validate, because `payloads.py:479` builds the engine anew from the
definition, and the state does not carry the length.

The generator's draws are free choices: only that a match can be replayed without them is checked.
Serialisers are what they keep and refuse.

### 7.1 Proofs

`LocalRuntimeProofs` proves every safety property of `LocalRuntime`, for every config of the six games,
any policies and agents and any number of turns: `RulesAlwaysAgree` (`RulesAgree`), `EventsAlwaysTell`
(`EventsTellTheMatch`), `ReplaysAlwaysAsPlayed` (`ReplaysAsPlayed`), `TamperedAlwaysRefused`
(`TamperedIsRefused`), `RedactedAlwaysTheView` (`RedactedIsTheView`) and `HandsAlwaysSecret`
(`HandsStaySecret`). They rest on three inductive invariants:

* `SessionOk` (`SessionInvariant`): the match of a session was *played*. Each of its turns is one the
  game makes at the state before it (`Made`), and its state, lifecycle, abort and artefacts follow from
  its turns (`Played`). For each game there is a set of states (`StatesOf`) that holds the initial one
  and that no legal move, roll or round leaves; there the listed and the validated actions are the
  same and a move's announced result is the state's. For the board games a move is only valid where
  nobody has a line yet (`NoLines`), so that the search around the cell just played finds what the
  scan of the whole board finds (`NewLine`, `WinnerIs`).
* `EventsOk` keeps the book of the turns (`Book`): of each seat, how often it was asked and how often
  it was accepted, and under which turn. `Ending` says that only agents' notes follow the end.
* `Forms`: what the events that are redacted look like.

`ReplaysAsPlayed` does without induction over data. A replay is a recursive function; the matches
after each prefix of the turns satisfy its equations (`ReplayNext`), and by a least counterexample no
other function does (`ReplayIs`). `TamperedIsRefused` is the converse. Every tampered turn is still
one that *some* state could have made (`Recorded`), so a replay that does not refuse is a match that
was played (`ReplayRetold`), and one that agrees with every recorded turn has exactly those turns
(`Tells`). Such a transcript is what `IsPlay` describes (`TellsMoves`, `MovesTell`), and the versions
it may carry are those from `NeedsVersion` on (`VersionsAre`). A finished record cut short ends at the
state of the last move, where the match was not over (`ShortIsLive`).

`HandsStaySecret` compares two sessions. A hand is hidden from the other seat until its round of Liar's
Dice is over, and then it is shown. That the turns which hold the hands at stake are exactly those
that `Reimagined` replaces needs round numbers that never fall along a match (`RoundsRise`), so that
the turns of the present round are the last ones and carry the highest number (`LiveRound`).

Only model-checked: the liveness property `SessionEnds`.

## 8. The clients: `SeatWire`, `SdkClient`, `McpTools`

`SeatWire` is one seat's connection: `link`, the frames under way in each direction, and the server
behind it, reduced to what `MatchDriver` and `Broadcast` let one seat see: it asks, another seat or
chance plays, it accepts or refuses an action, commits, ends the match, pings, and its connection may
be lost with frames in it. The websockets library is external, modelled by how the code uses it:
frames received before the close are still read after it, and a send after the close is known raises.

`SdkClient` is `_run_session`: `NextReceived` and `NextKept` handle an event received or kept;
`Keeps` and `SdkPongs` are the reception that goes on while `choose()` runs on a thread; `Decided`
and `ChooseRaises` are its end. `McpTools` is the MCP server: the receive loop (`Buffers`,
`McpPongs`) and the tools (`GetObservation`, `MakeMove`), which take events from the handle's queue
(`Takes`), put aside what is not theirs, and may time out at any moment (`TimesOut`). The agent calls
one tool at a time and moves when told it may.

`clients` runs each client for two turns, one retry, three actions and one idle call, enough for a
late decision or a timed-out move to meet the next turn, and for a rejection to use up the attempts.

* `ActionsAnswerTheirTurn`: an accepted action was chosen for the turn it is accepted for.
* `MoveConfirmsItself`: `make_move` returns its own commit, not an earlier call's.
* `OutcomeIsTheMatchs`: `connect()` reports a result of a finished match only, an abort of an
  aborted one, and a lost connection only without a terminal frame.
* `PingsAnswered`, `ConnectReturns`: under the fairness of the clients' event loops and of the
  close that follows a terminal frame. Nothing is assumed of `choose()`, the agent or the match.

Two sentences of the documents do not hold and are kept as definitions. `TerminalFrameIsReported`
(`MCSeatClientsPong.cfg`): if the close arrives behind a ping and a terminal frame, answering the
ping raises (`_session.py:143`), and `connect()` reports the bare exception although "Its terminal
frame, if it arrived, is read next, so the caller learns why" (`_connect.py:116`).
`HistoryTellsTheEnd`: `get_history` promises "all TurnCommitted + terminal event", but the receive
loop drops the handle when it reads the terminal frame (`session_registry.py:149-158`), so a later
call finds none.

`SeatClientsProofs` proves the three safety properties (`ActionsAnswer`, `MovesConfirm`,
`OutcomesAreTheMatchs`) for any number of turns, retries, actions and idle calls, from one inductive
invariant (`ClientsTakeTurns`). Its core is that server and client take turns: of a request not yet
handled, a decision under way and an action on its way there is at most one, and each means that the
server is asking for the present turn (`TakingTurns`, `AboutThisTurn`). That survives because no frame
overtakes another between the wire and the client, although tools put frames aside and back: what is
put aside asks, confirms and ends nothing (`InOrder`). A confirmation still to come is that of the
action sent last (`LastMove`), and a terminal frame is read before the end of the connection is
(`EndIsTold`). `PingsAnswered` and `ConnectReturns` are liveness and only model-checked.

Left out: the server's `error` frames, turn ids chosen by the caller, a second registration of a
seat, and resuming, which `connect()` does not do. A handshake that gets the wrong frame, seat or
close is one outcome, `refused`.

## 9. What is not covered

* Proofs say nothing about liveness or about recursive definitions: the prover has neither
  fairness nor induction over data. So `DriverExits`, `ResumeIsRead`, `EverySocketShut`,
  `NobodyWaitsForEver`, `SessionEnds`, `PingsAnswered` and `ConnectReturns` are only model-checked.
  A recursive function that occurs in a proof (a replay, the chance drain, the sum of the stored
  bytes, a line on a board) is compared with what it should be by a least counterexample.
* The type invariants that are proved are parts of the inductive invariants: `TypeOK` of
  `MatchDriver` and `SeatClaim`, and the types in `IInv` of `BroadcastProofs`,
  `MatchRegistryProofs`, `SeatClientsProofs` and `TranscriptStoreProofs`. These inductive invariants
  were found with TLC; `SessionOk` and `EventsOk` of `LocalRuntimeProofs` quantify over sets TLC
  cannot enumerate, and only the properties they imply are checked. `TypeOK` of `TranscriptStore` is kept as documentation.
* Wire codec, command lines, rendering, language-model agents, game scaffold, test kit, UI payloads,
  schema listings and logging have no protocol state: their outcomes (a malformed frame, a failing
  policy, a chosen action) are inputs of the models.
* Of the rate limiter, the window of transcript reads is the creation window with other numbers;
  `check_action` and `acquire_connection` have no caller on the server.
* The transcript caches of the driver, `LocalSession` of the SDK, a `Session` driven by hand, the
  bots and the TypeScript SDK are not modelled, nor are uvicorn and Starlette below a socket's
  frames.
