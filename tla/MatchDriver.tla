---------------------------- MODULE MatchDriver ----------------------------
(***************************************************************************)
(* The WebSocket match driver, run_match of server/runtime_bridge.py: the  *)
(* per-seat loops that obtain one accepted action each, the commit of a    *)
(* round, the shielded abort task, the crash handler, and the resume       *)
(* handler of server/routes_ws.py that swaps a seat's connection under it. *)
(*                                                                         *)
(* Everything between two awaits of the code is one action.  The game is   *)
(* abstracted to the set of seats that act next; the clients are chaotic:  *)
(* any frame, disconnect or resume may come whenever a socket allows it.   *)
(***************************************************************************)
EXTENDS Integers, FiniteSets

CONSTANTS
  MaxConns,          \* bound: connections a seat opens (1 + its resumes)
  TurnIds,           \* turn ids a client may choose, and repeat
  Fresh,             \* an id never used before (absent ids become a uuid)
  RetryBudget,       \* match.per_action_retry_budget
  MaxProtocolErrors, \* MAX_PROTOCOL_ERRORS_PER_TURN
  TurnCap,           \* app_state.max_turns_per_match
  MaxChance,         \* bound: chance turns that one committed action draws
  Rounds,            \* the sets of seats the game may ask to act
  HasDeadline,       \* per_turn_deadline_ms > 0
  MaxFaults          \* bound: exceptions that game code raises in the driver

Seats == {0, 1}

ASSUME DriverAssumption ==
  /\ MaxConns \in Nat \ {0} /\ RetryBudget \in Nat
  /\ MaxProtocolErrors \in Nat \ {0} /\ TurnCap \in Nat \ {0}
  /\ MaxChance \in Nat /\ MaxFaults \in Nat
  /\ Fresh \notin TurnIds /\ HasDeadline \in BOOLEAN
  /\ Rounds # {} /\ Rounds \subseteq (SUBSET Seats) \ {{}}

Conns == 1 .. MaxConns      \* a seat's connections, in the order they opened
None == 0                   \* no connection

VARIABLES
  lifecycle, reason, turns, committed, rejected,      \* the session
  driver, round, ending, crashed, terminalSent, faults, \* run_match
  loop, act, held, dl, retries, spent, perr, hb,      \* _obtain, per seat
  cur, open, sup, used, ev, rc, pend,                 \* connections, per seat
  told, late                                          \* what seats were sent

session == <<lifecycle, reason, turns>>
ids == <<committed, rejected>>
driverVars == <<driver, round, crashed, faults>>
endVars == <<ending, terminalSent>>
loopVars == <<loop, act, held, dl, retries, spent, perr, hb>>
connVars == <<cur, open, sup, used, ev, rc, pend>>
sentVars == <<told, late>>
vars == <<session, ids, driverVars, endVars, loopVars, connVars, sentVars>>

NoFrame == [id |-> Fresh, legal |-> FALSE]
Running == lifecycle = "running"

SessionOK ==
  /\ lifecycle \in {"created", "running", "finished", "aborted"}
  /\ reason \in {"none", "start_failed", "deadline", "seat_lost", "budget",
                 "joint_refused", "turn_cap", "server_error"}
  /\ turns \in Nat
  /\ committed \subseteq Seats \X TurnIds
  /\ rejected \subseteq Seats \X TurnIds

DriverOK ==
  /\ driver \in {"idle", "loop", "capped", "round", "ending", "drain",
                 "crashed", "done"}
  /\ round \subseteq Seats
  /\ ending \in {"no", "requested", "persist", "close0", "close1", "done", "failed"}
  /\ crashed \in BOOLEAN /\ terminalSent \in BOOLEAN /\ faults \in 0 .. MaxFaults

LoopOK ==
  /\ loop \in [Seats -> {"off", "receive", "held", "grace", "resuming",
                         "accepted", "aborting", "ended", "raised"}]
  /\ act \in [Seats -> Conns]
  /\ held \in [Seats -> [id : TurnIds \cup {Fresh}, legal : BOOLEAN]]
  /\ dl \in [Seats -> {"off", "on", "fired"}]
  /\ retries \in [Seats -> 0 .. RetryBudget]
  /\ spent \in [Seats -> Nat]
  /\ perr \in [Seats -> 0 .. MaxProtocolErrors]
  /\ hb \in [Seats -> Conns \cup {None}]

ConnOK ==
  /\ cur \in [Seats -> Conns] /\ used \in [Seats -> Conns]
  /\ open \in [Seats -> SUBSET Conns] /\ sup \in [Seats -> SUBSET Conns]
  /\ ev \in [Seats -> BOOLEAN] /\ rc \in [Seats -> Conns \cup {None}]
  /\ pend \in [Seats -> SUBSET (Conns \X Conns)]
  /\ told \in [Seats -> [Conns -> Nat]]
  /\ late \subseteq {"observation", "error", "rejected", "ping"}

TypeOK == SessionOK /\ DriverOK /\ LoopOK /\ ConnOK

\* Both seats have said hello; run_match is about to be called.
Init ==
  /\ lifecycle = "created" /\ reason = "none" /\ turns = 0
  /\ committed = {} /\ rejected = {}
  /\ driver = "idle" /\ round = {} /\ ending = "no" /\ crashed = FALSE
  /\ terminalSent = FALSE /\ faults = 0
  /\ loop = [s \in Seats |-> "off"] /\ act = [s \in Seats |-> 1]
  /\ held = [s \in Seats |-> NoFrame] /\ dl = [s \in Seats |-> "off"]
  /\ retries = [s \in Seats |-> RetryBudget] /\ spent = [s \in Seats |-> 0]
  /\ perr = [s \in Seats |-> 0] /\ hb = [s \in Seats |-> None]
  /\ cur = [s \in Seats |-> 1] /\ open = [s \in Seats |-> {1}]
  /\ sup = [s \in Seats |-> {}] /\ used = [s \in Seats |-> 1]
  /\ ev = [s \in Seats |-> FALSE] /\ rc = [s \in Seats |-> None]
  /\ pend = [s \in Seats |-> {}]
  /\ told = [s \in Seats |-> [k \in Conns |-> 0]] /\ late = {}

-----------------------------------------------------------------------------
(* Frames.  Only their order around the terminal frame is kept: `late' is   *)
(* the set of kinds sent on a still open connection after its terminal one. *)

Send(s, k, kind) ==
  /\ late' = IF k \in open[s] /\ told[s][k] > 0 THEN late \cup {kind} ELSE late
  /\ UNCHANGED told

-----------------------------------------------------------------------------
(* The session opens: run_match up to its main loop.                        *)

\* start_session: the game may open with chance turns, be over at once, or
\* fail while it is created.
Start ==
  /\ driver = "idle"
  /\ driver' = "loop"
  /\ \/ /\ lifecycle' \in {"running", "finished"}
        /\ turns' \in 0 .. MaxChance
        /\ UNCHANGED reason
     \/ /\ lifecycle' = "aborted" /\ reason' = "start_failed"
        /\ UNCHANGED turns
  /\ UNCHANGED <<ids, round, crashed, faults, endVars, loopVars, connVars, sentVars>>

-----------------------------------------------------------------------------
(* A round: one loop per acting seat.                                       *)

\* _obtain begins for every acting seat: heartbeat, observation request, a
\* fresh retry budget and one absolute deadline.  Building the request of one
\* seat may raise.
BeginRound(S, broken) ==
  /\ driver = "loop" /\ Running
  /\ S \in Rounds /\ broken \subseteq S
  /\ Cardinality(broken) <= 1 /\ faults + Cardinality(broken) <= MaxFaults
  /\ driver' = "round" /\ round' = S
  /\ faults' = faults + Cardinality(broken)
  /\ loop' = [s \in Seats |-> IF s \in broken THEN "raised"
                              ELSE IF s \in S THEN "receive" ELSE "off"]
  /\ act' = [s \in Seats |-> IF s \in S THEN cur[s] ELSE act[s]]
  /\ hb' = [s \in Seats |-> IF s \in S THEN cur[s] ELSE None]
  /\ dl' = [s \in Seats |-> IF s \in S \ broken /\ HasDeadline THEN "on" ELSE "off"]
  /\ retries' = [s \in Seats |-> RetryBudget]
  /\ spent' = [s \in Seats |-> 0] /\ perr' = [s \in Seats |-> 0]
  /\ held' = [s \in Seats |-> NoFrame]
  /\ UNCHANGED <<session, ids, crashed, endVars, connVars, sentVars>>

\* _abort called by a seat's loop: the first caller starts the shielded task,
\* a later one only waits for it.
RequestAbort(s, why) ==
  /\ loop' = [loop EXCEPT ![s] = "aborting"]
  /\ dl' = [dl EXCEPT ![s] = "off"]
  /\ IF ending = "no"
     THEN ending' = "requested" /\ reason' = why
     ELSE UNCHANGED <<ending, reason>>

\* The loop saw that the other seat's loop ended the match.
LoopEnds(s) ==
  /\ loop' = [loop EXCEPT ![s] = "ended"]
  /\ dl' = [dl EXCEPT ![s] = "off"]
  /\ UNCHANGED <<ending, reason>>

\* Checked after every read: a loop must not answer a match that ended meanwhile.
MatchOver == lifecycle # "running"

Expire(s) == IF MatchOver THEN LoopEnds(s) ELSE RequestAbort(s, "deadline")

\* Back to the top of the loop, which checks the deadline before every read.
NextRead(s) ==
  IF dl[s] = "fired" THEN Expire(s)
  ELSE loop' = [loop EXCEPT ![s] = "receive"] /\ UNCHANGED <<dl, ending, reason>>

\* _receive_action got an action_response; the rate limiter may now hold it
\* for any time before it is looked at.
ReadAction(s, id, legal) ==
  /\ loop[s] = "receive" /\ act[s] \in open[s]
  /\ held' = [held EXCEPT ![s] = [id |-> id, legal |-> legal]]
  /\ loop' = [loop EXCEPT ![s] = "held"]
  /\ UNCHANGED <<session, ids, driverVars, endVars, act, dl, retries, spent,
                 perr, hb, connVars, sentVars>>

DecidedIgnored(s) == FALSE
Decided(s) == <<s, held[s].id>> \in committed \cup rejected

\* A turn_id this seat already had committed or rejected is dropped silently.
DropDuplicate(s) ==
  /\ loop[s] = "held" /\ Decided(s)
  /\ NextRead(s)
  /\ UNCHANGED <<lifecycle, turns, ids, driverVars, terminalSent, act, held,
                 retries, spent, perr, hb, connVars, sentVars>>

\* The other seat's loop ended the match while this action was on its way.
DiscardAction(s) ==
  /\ loop[s] = "held" /\ ~Decided(s) /\ MatchOver
  /\ LoopEnds(s)
  /\ UNCHANGED <<lifecycle, turns, ids, driverVars, terminalSent, act, held,
                 retries, spent, perr, hb, connVars, sentVars>>

\* The action is legal: the loop returns it, its deadline and heartbeat stop.
AcceptAction(s) ==
  /\ loop[s] = "held" /\ ~Decided(s) /\ ~MatchOver /\ held[s].legal
  /\ loop' = [loop EXCEPT ![s] = "accepted"]
  /\ dl' = [dl EXCEPT ![s] = "off"]
  /\ hb' = [hb EXCEPT ![s] = None]
  /\ UNCHANGED <<session, ids, driverVars, endVars, act, held, retries, spent,
                 perr, connVars, sentVars>>

OutOfRetriesLate(s) == retries[s] < 0
OutOfRetries(s) == retries[s] = 0

SpendRetry(s) == retries' = [retries EXCEPT ![s] = @ - 1]

\* The action is refused: action_rejected, and an abort once no retry is left.
RejectAction(s) ==
  /\ loop[s] = "held" /\ ~Decided(s) /\ ~MatchOver /\ ~held[s].legal
  /\ rejected' = rejected \cup ({<<s, held[s].id>>} \cap (Seats \X TurnIds))
  /\ spent' = [spent EXCEPT ![s] = @ + 1]
  /\ Send(s, act[s], "rejected")
  /\ IF OutOfRetries(s)
     THEN RequestAbort(s, "budget") /\ UNCHANGED retries
     ELSE NextRead(s) /\ SpendRetry(s)
  /\ UNCHANGED <<lifecycle, turns, committed, driverVars, terminalSent, act,
                 held, perr, hb, connVars>>

-----------------------------------------------------------------------------
(* Malformed frames, disconnects, grace and resume, as the loop sees them.  *)

\* The driver goes on with connection k, which replace_seat makes the seat's.
Install(s, k) ==
  /\ cur' = [cur EXCEPT ![s] = k]
  /\ sup' = IF cur[s] = k THEN sup ELSE [sup EXCEPT ![s] = @ \cup {cur[s]}]
  /\ act' = [act EXCEPT ![s] = k]
  /\ perr' = [perr EXCEPT ![s] = 0]
  /\ loop' = [loop EXCEPT ![s] = "resuming"]
  /\ UNCHANGED <<dl, ending, reason>>

ReconnectedByEvent(s) == ev[s]
Reconnected(s) == cur[s] # act[s] \/ ev[s]

\* What the loop does once its wait for a resume is over, however it ended.
AfterGrace(s) ==
  LET next == IF cur[s] # act[s] THEN cur[s] ELSE rc[s]
  IN  IF dl[s] = "fired" \/ ~Reconnected(s) \/ next = None
      THEN /\ RequestAbort(s, IF dl[s] = "fired" THEN "deadline" ELSE "seat_lost")
           /\ UNCHANGED <<cur, sup, act, perr>>
      ELSE Install(s, next)

\* The loop's connection is gone.  A resume that already swapped in a new one
\* is used at once; otherwise the event is cleared and the grace period runs.
Lost(s) ==
  IF cur[s] = act[s]
  THEN /\ ev' = [ev EXCEPT ![s] = FALSE]
       /\ loop' = [loop EXCEPT ![s] = "grace"]
       /\ UNCHANGED <<cur, sup, act, perr, dl, ending, reason>>
  ELSE AfterGrace(s) /\ UNCHANGED ev

ReadDisconnect(s) ==
  /\ loop[s] = "receive" /\ act[s] \notin open[s]
  /\ IF MatchOver
     THEN LoopEnds(s) /\ UNCHANGED <<cur, sup, act, perr, ev>>
     ELSE Lost(s)
  /\ UNCHANGED <<lifecycle, turns, ids, driverVars, terminalSent, held, retries,
                 spent, hb, open, used, rc, pend, sentVars>>

\* A frame that is no action_response: an in-band error; at the cap the
\* connection is closed and treated as lost.
ReadMalformed(s) ==
  /\ loop[s] = "receive" /\ act[s] \in open[s]
  /\ IF MatchOver
     THEN LoopEnds(s) /\ UNCHANGED <<cur, sup, act, perr, ev, open, sentVars>>
     ELSE /\ Send(s, act[s], "error")
          /\ IF perr[s] + 1 < MaxProtocolErrors
             THEN /\ perr' = [perr EXCEPT ![s] = @ + 1]
                  /\ NextRead(s)
                  /\ UNCHANGED <<cur, sup, act, ev, open>>
             ELSE /\ open' = [open EXCEPT ![s] = @ \ {act[s]}]
                  /\ Lost(s)
  /\ UNCHANGED <<lifecycle, turns, ids, driverVars, terminalSent, held, retries,
                 spent, hb, used, rc, pend>>

\* The grace wait ends: the event, the deadline, or the grace timer.
GraceEnds(s) ==
  /\ loop[s] = "grace"
  /\ AfterGrace(s)
  /\ UNCHANGED <<lifecycle, turns, ids, driverVars, terminalSent, held, retries,
                 spent, hb, open, used, ev, rc, pend, sentVars>>

StartHeartbeatOnce(s) == UNCHANGED hb
StartHeartbeat(s) == hb' = [hb EXCEPT ![s] = act[s]]

\* The old heartbeat is cancelled (an await); a new one starts and the
\* observation request is sent again, with what is left of the deadline.
ResendRequest(s) ==
  /\ loop[s] = "resuming"
  /\ StartHeartbeat(s)
  /\ Send(s, act[s], "observation")
  /\ IF MatchOver THEN LoopEnds(s) ELSE NextRead(s)
  /\ UNCHANGED <<lifecycle, turns, ids, driverVars, terminalSent, act, held,
                 retries, spent, perr, connVars>>

DeadlineFires(s) ==
  /\ dl[s] = "on"
  /\ dl' = [dl EXCEPT ![s] = "fired"]
  /\ UNCHANGED <<session, ids, driverVars, endVars, loop, act, held, retries,
                 spent, perr, hb, connVars, sentVars>>

\* A pending read is given up because the deadline fired.
ReadWaitsOn(s) == loop[s] = "receive" /\ dl[s] = "fired" /\ UNCHANGED vars
ReadExpires(s) ==
  /\ loop[s] = "receive" /\ dl[s] = "fired"
  /\ Expire(s)
  /\ UNCHANGED <<lifecycle, turns, ids, driverVars, terminalSent, act, held,
                 retries, spent, perr, hb, connVars, sentVars>>

HeartbeatPing(s) ==
  /\ hb[s] # None
  /\ Send(s, hb[s], "ping")
  /\ UNCHANGED <<session, ids, driverVars, endVars, loopVars, connVars>>

\* Two pongs missed: the heartbeat closes the connection with 4408 and stops.
HeartbeatTimeout(s) ==
  /\ hb[s] # None
  /\ open' = [open EXCEPT ![s] = @ \ {hb[s]}]
  /\ hb' = [hb EXCEPT ![s] = None]
  /\ UNCHANGED <<session, ids, driverVars, endVars, loop, act, held, dl, retries,
                 spent, perr, cur, sup, used, ev, rc, pend, sentVars>>

-----------------------------------------------------------------------------
(* The round ends.                                                          *)

SomeAccepted == \E s \in round : loop[s] = "accepted"
AllAccepted == \A s \in round : loop[s] = "accepted"

LoopsStop ==
  /\ loop' = [s \in Seats |-> "off"]
  /\ dl' = [s \in Seats |-> "off"]
  /\ held' = [s \in Seats |-> NoFrame]

\* Every acting seat's action is in: apply, record the turn ids, broadcast.
Commit ==
  /\ driver = "round" /\ AllAccepted
  /\ committed' = committed \cup ({<<s, held[s].id>> : s \in round} \cap (Seats \X TurnIds))
  /\ turns' \in turns + 1 .. turns + 1 + MaxChance
  /\ lifecycle' \in {"running", "finished"}
  /\ driver' = IF lifecycle' = "running" /\ turns' >= TurnCap THEN "capped" ELSE "loop"
  /\ round' = {}
  /\ LoopsStop
  /\ UNCHANGED <<reason, rejected, crashed, faults, endVars, act, retries, spent,
                 perr, hb, connVars, sentVars>>

\* Each action was valid alone, the engine refuses them together.
JointRefused ==
  /\ driver = "round" /\ Cardinality(round) > 1 /\ AllAccepted
  /\ faults < MaxFaults /\ faults' = faults + 1
  /\ driver' = "ending" /\ ending' = "requested" /\ reason' = "joint_refused"
  /\ LoopsStop
  /\ UNCHANGED <<lifecycle, turns, ids, round, crashed, terminalSent, act,
                 retries, spent, perr, hb, connVars, sentVars>>

TurnCapReached ==
  /\ driver = "capped"
  /\ driver' = "ending" /\ ending' = "requested" /\ reason' = "turn_cap"
  /\ UNCHANGED <<lifecycle, turns, ids, round, crashed, faults, terminalSent,
                 loopVars, connVars, sentVars>>

\* The loop that asked for the abort returns None, or raises what the abort raised.
AborterReturns(s) ==
  /\ loop[s] = "aborting" /\ ending \in {"done", "failed"}
  /\ loop' = [loop EXCEPT ![s] = IF ending = "done" THEN "ended" ELSE "raised"]
  /\ UNCHANGED <<session, ids, driverVars, endVars, act, held, dl, retries, spent,
                 perr, hb, connVars, sentVars>>

\* _obtain_all sees the first loop that returned None or raised: the other
\* loop is cancelled, and an abort in flight is waited for.
RoundBreaks ==
  /\ driver = "round"
  /\ \E s \in round : /\ loop[s] \in {"ended", "raised"}
                      /\ driver' = IF loop[s] = "ended" THEN "drain" ELSE "crashed"
                      /\ crashed' = (loop[s] = "raised")
  /\ LoopsStop
  /\ UNCHANGED <<session, ids, round, faults, endVars, act, retries, spent, perr,
                 hb, connVars, sentVars>>

-----------------------------------------------------------------------------
(* The end of the match: _perform_abort, or the tail of run_match.          *)

\* The abort task runs: the session is aborted before anything else.
AbortSession ==
  /\ ending = "requested"
  /\ lifecycle' = "aborted" /\ ending' = "persist"
  /\ UNCHANGED <<reason, turns, ids, driverVars, terminalSent, loopVars, connVars,
                 sentVars>>

\* The session ended in start_session or in a commit: the driver itself ends it.
FinishMatch ==
  /\ driver = "loop" /\ ~Running
  /\ driver' = "ending" /\ ending' = "persist"
  /\ UNCHANGED <<session, ids, round, crashed, faults, terminalSent, loopVars,
                 connVars, sentVars>>

TellSeat0 == told' = [told EXCEPT ![0][cur[0]] = @ + 1]
TellSeats == told' = [s \in Seats |-> [told[s] EXCEPT ![cur[s]] = @ + 1]]

\* The crash handler ends the match itself, or only sends its terminal frame again.
Handling == crashed /\ driver = "ending"
Resending == Handling /\ reason # "server_error"

\* The transcript is stored; match_state and the terminal frame go to both
\* seats' connections.  Every view is built first: a failure sends nothing.
Publish ==
  /\ ending = "persist"
  /\ TellSeats
  /\ terminalSent' = IF Resending THEN terminalSent ELSE TRUE
  /\ ending' = "close0"
  /\ UNCHANGED <<session, ids, driverVars, loopVars, connVars, late>>

PublishFails ==
  /\ ending = "persist" /\ faults < MaxFaults
  /\ faults' = faults + 1
  /\ ending' = IF Handling THEN "close0" ELSE "failed"
  /\ UNCHANGED <<session, ids, driver, round, crashed, terminalSent, loopVars,
                 connVars, sentVars>>

\* _close_both drains and closes seat 0, then seat 1.
CloseSeat(s) ==
  /\ ending = IF s = 0 THEN "close0" ELSE "close1"
  /\ open' = [open EXCEPT ![s] = @ \ {cur[s]}]
  /\ ending' = IF s = 0 THEN "close1" ELSE "done"
  /\ UNCHANGED <<session, ids, driverVars, terminalSent, loopVars, cur, sup, used,
                 ev, rc, pend, sentVars>>

\* The driver was waiting for the end of the match (no loop is running).
EndingFails ==
  /\ driver = "ending" /\ ending = "failed"
  /\ driver' = "crashed" /\ crashed' = TRUE
  /\ UNCHANGED <<session, ids, round, faults, endVars, loopVars, connVars, sentVars>>

\* Game code raises in the driver itself: as a joint action is applied, in a
\* broadcast, or in is_terminal.
DriverRaises ==
  /\ \/ driver \in {"loop", "capped"}
     \/ driver = "round" /\ Cardinality(round) > 1 /\ AllAccepted
  /\ faults < MaxFaults /\ faults' = faults + 1
  /\ driver' = "crashed" /\ crashed' = TRUE
  /\ LoopsStop
  /\ UNCHANGED <<session, ids, round, endVars, act, retries, spent, perr, hb,
                 connVars, sentVars>>

\* _abort_finished: there is no abort, or its task is over.
AbortNotAwaited == TRUE
AbortFinished == ending \in {"no", "done", "failed"}

NeverResent == IF Running THEN "requested" ELSE "close0"
AlwaysResent == IF Running THEN "requested" ELSE "persist"
AfterCrash == IF Running THEN "requested" ELSE IF terminalSent THEN "close0" ELSE "persist"

\* run_match's crash handler, once an abort in flight has finished: abort a
\* running match; else send the terminal frame if it never went out; close.
HandleCrash ==
  /\ driver = "crashed" /\ AbortFinished
  /\ driver' = "ending" /\ ending' = AfterCrash
  /\ reason' = IF Running THEN "server_error" ELSE reason
  /\ UNCHANGED <<lifecycle, turns, ids, round, crashed, faults, terminalSent,
                 loopVars, connVars, sentVars>>

\* The finally block: every timer and heartbeat is cancelled.
Exit ==
  /\ \/ driver = "ending" /\ ending = "done"
     \/ driver = "drain" /\ AbortFinished
  /\ driver' = "done"
  /\ hb' = [s \in Seats |-> None]
  /\ dl' = [s \in Seats |-> "off"]
  /\ UNCHANGED <<session, ids, round, crashed, faults, endVars, loop, act, held,
                 retries, spent, perr, connVars, sentVars>>

-----------------------------------------------------------------------------
(* The network and the resume handler, _handle_reconnect.                   *)

\* A seat's socket closes: its client left, the network failed, or the server
\* dropped a seat that fell behind (1013) or sent a binary frame (1003).
Drop(s, k) ==
  /\ k \in open[s]
  /\ open' = [open EXCEPT ![s] = @ \ {k}]
  /\ UNCHANGED <<session, ids, driverVars, endVars, loopVars, cur, sup, used, ev,
                 rc, pend, sentVars>>

\* A valid resume: welcome, match_state and replace_seat in one step; then the
\* handler awaits the close of the connection it replaced.
Resume(s) ==
  /\ Running /\ driver # "idle" /\ used[s] < MaxConns
  /\ LET k == used[s] + 1
     IN  /\ used' = [used EXCEPT ![s] = k]
         /\ cur' = [cur EXCEPT ![s] = k]
         /\ sup' = [sup EXCEPT ![s] = @ \cup {cur[s]}]
         /\ open' = [open EXCEPT ![s] = @ \cup {k}]
         /\ pend' = [pend EXCEPT ![s] = @ \cup {<<k, cur[s]>>}]
  /\ UNCHANGED <<session, ids, driverVars, endVars, loopVars, ev, rc, sentVars>>

CloseForgotten(s, old) == UNCHANGED open
CloseReplaced(s, old) == open' = [open EXCEPT ![s] = @ \ {old}]

\* The old connection is closed: register the new one and wake the driver.
ResumeRegisters(s, k, old) ==
  /\ <<k, old>> \in pend[s]
  /\ pend' = [pend EXCEPT ![s] = @ \ {<<k, old>>}]
  /\ CloseReplaced(s, old)
  /\ rc' = [rc EXCEPT ![s] = k]
  /\ ev' = [ev EXCEPT ![s] = TRUE]
  /\ UNCHANGED <<session, ids, driverVars, endVars, loopVars, cur, sup, used,
                 sentVars>>

-----------------------------------------------------------------------------
\* A seat's loop, except for the frames its client chooses to send.
LoopStep(s) ==
  \/ DropDuplicate(s) \/ DiscardAction(s) \/ AcceptAction(s) \/ RejectAction(s)
  \/ ReadDisconnect(s) \/ GraceEnds(s) \/ ResendRequest(s)
  \/ ReadExpires(s) \/ AborterReturns(s)

DriverStep ==
  \/ Start \/ Commit \/ TurnCapReached \/ RoundBreaks \/ FinishMatch
  \/ EndingFails \/ HandleCrash \/ Exit
  \/ \E S \in Rounds : BeginRound(S, {})

EndStep == AbortSession \/ Publish \/ \E s \in Seats : CloseSeat(s)

ResumeStep(s) == \E k, old \in Conns : ResumeRegisters(s, k, old)

ClientStep(s) ==
  \/ \E id \in TurnIds \cup {Fresh}, legal \in BOOLEAN : ReadAction(s, id, legal)
  \/ ReadMalformed(s)
  \/ HeartbeatPing(s) \/ HeartbeatTimeout(s)
  \/ \E k \in Conns : Drop(s, k)
  \/ Resume(s)

FaultStep ==
  \/ \E S \in Rounds, b \in Seats : BeginRound(S, {b})
  \/ JointRefused \/ PublishFails \/ DriverRaises

Terminated == driver = "done" /\ UNCHANGED vars

Next ==
  \/ DriverStep \/ EndStep \/ FaultStep
  \/ \E s \in Seats : \/ LoopStep(s) \/ DeadlineFires(s) \/ ResumeStep(s)
                      \/ ClientStep(s)
  \/ Terminated

\* The event loop runs every ready task and every timer fires; clients owe
\* nothing, and nothing has to fail.
Fairness ==
  /\ WF_vars(DriverStep) /\ WF_vars(EndStep)
  /\ \A s \in Seats : /\ WF_vars(LoopStep(s)) /\ WF_vars(DeadlineFires(s))
                      /\ WF_vars(ResumeStep(s))

Spec == Init /\ [][Next]_vars /\ Fairness

-----------------------------------------------------------------------------
(* Safety.                                                                  *)

Told(s) == {k \in Conns : told[s][k] > 0}

\* Whatever raises, times out or is cancelled, a seat is sent at most one
\* terminal frame, over all its connections (runtime_bridge.py:1378, 2011).
TerminalFrameOnce ==
  \A s \in Seats : \A j, k \in Told(s) : j = k /\ told[s][k] = 1

\* The driver never exits without having sent each seat its terminal frame,
\* on whatever connection the seat had at the end.
ExitTellsEverySeat == driver = "done" => \A s \in Seats : Told(s) # {}

\* An error or action_rejected never follows the terminal frame, although a
\* loop may be reading while the other seat's loop ends the match (1553-1557).
NoReplyAfterTerminal == late \cap {"error", "rejected"} = {}

\* Pongs are read from the connection that is pinged: while a loop reads, its
\* heartbeat pings that connection, or has just closed it.
HeartbeatFollowsReader ==
  \A s \in Seats : loop[s] \in {"receive", "held"} =>
    hb[s] = act[s] \/ (hb[s] = None /\ act[s] \notin open[s])

\* Section 8.6: however often it resumes, a seat has no more than its budget
\* of rejections in one turn, plus the one that aborts the match.
RejectionsBounded == \A s \in Seats : spent[s] <= RetryBudget + 1

\* Once the driver has exited the match has ended, its end was carried through,
\* and no heartbeat, deadline or loop is left running.
CleanExit ==
  driver = "done" => /\ lifecycle \in {"finished", "aborted"}
                     /\ ending \in {"done", "failed"}
                     /\ \A s \in Seats : loop[s] = "off" /\ dl[s] = "off" /\ hb[s] = None

-----------------------------------------------------------------------------
(* What a step may never do.                                                *)

\* Nothing is committed once an abort has been asked for: a round never lands
\* beside an abort of one of its seats.
NoCommitAfterAbort ==
  [][turns' # turns => ending = "no" /\ lifecycle \in {"created", "running"}]_vars

\* A turn id whose action was refused is burnt for its seat, and a committed one
\* never enters a second turn (section 12).
TurnIdsDecidedOnce ==
  [][\A s \in Seats : \A id \in TurnIds :
       /\ <<s, id>> \in rejected => <<s, id>> \notin committed'
       /\ (turns' # turns /\ s \in round /\ held[s].id = id)
            => <<s, id>> \notin committed \cup rejected]_vars

\* The deadline of a turn is absolute: it is armed only when the turn begins,
\* never again by a resume, a retry or a malformed frame (section 11).
DeadlineArmedOnce ==
  [][\A s \in Seats : dl'[s] = "on" /\ dl[s] # "on" => driver = "loop"]_vars

\* No match is aborted for a lost seat whose resumed connection is open, in
\* whatever order its resume, the event and the grace timer come.
ResumedSeatIsKept ==
  [][\A s \in Seats :
       (ending = "no" /\ reason' = "seat_lost" /\ loop'[s] = "aborting")
         => cur[s] \notin open[s]]_vars

\* After a resume the driver goes on with the connection swapped in, never with
\* one that a later resume already replaced (1637).
InstallsLatest ==
  [][\A s \in Seats : act'[s] # act[s] => act'[s] \notin sup[s]]_vars

\* The terminal frame is the last frame a seat gets (sections 8.8 and 8.9).
NoRequestAfterTerminal == "observation" \notin late
NoPingAfterTerminal == "ping" \notin late

-----------------------------------------------------------------------------
(* The driver implements the lifecycle of a match.                          *)

Lifecycle == INSTANCE MatchLifecycle
  WITH Audience <- Seats, state <- lifecycle, turns <- turns,
       told <- {s \in Seats : Told(s) # {}}

\* Every step of the driver is a step of MatchLifecycle or leaves it alone: turns
\* are committed only by a running match, it ends once, and both seats are told
\* in one step, also when game code raises (runtime_bridge.py:838).
StepsAsLifecycle == Lifecycle!Safe

\* And unless game code raises, a match that ended is told.
ImplementsLifecycle == Lifecycle!Spec

-----------------------------------------------------------------------------
(* The inductive invariant behind the lifecycle and the terminal frame.     *)

Closing == ending \in {"close0", "close1", "done"}

\* Loops run only inside a round, for the seats that act in it.
LoopsInRound ==
  /\ driver = "round" => round # {}
  /\ \A s \in Seats : loop[s] # "off" => driver = "round" /\ s \in round

\* How far the end of the match has come, against the session's lifecycle.
EndFollowsSession ==
  /\ driver = "idle" <=> lifecycle = "created"
  /\ driver \in {"idle", "loop", "capped"} => ending = "no"
  /\ driver \in {"round", "capped"} /\ ending = "no" => Running
  /\ ending = "requested" => Running
  /\ ending \in {"persist", "close0", "close1", "done", "failed"}
       => lifecycle \in {"finished", "aborted"}

\* An abort begun inside a round is waited for by a loop that can never accept.
AborterInRound ==
  driver = "round" /\ ending # "no"
    => \E s \in round : loop[s] \in {"aborting", "ended", "raised"}

\* No terminal frame before the closing phase, and a crash handler that comes
\* after it knows.
TerminalFrameTracked ==
  /\ ~Closing => \A s \in Seats : \A k \in Conns : told[s][k] = 0
  /\ Closing /\ driver \in {"round", "drain", "crashed"} => terminalSent

DriverInv ==
  /\ LoopsInRound /\ EndFollowsSession /\ AborterInRound
  /\ TerminalFrameTracked /\ TerminalFrameOnce

-----------------------------------------------------------------------------
(* The inductive invariants behind the loops of the seats.                  *)

\* A loop returns None, or waits for an abort, only once the end of the match
\* has begun; until then nothing names a reason.
AbortKnown ==
  /\ \A s \in Seats : loop[s] \in {"aborting", "ended"} => ending # "no"
  /\ driver = "drain" => ending # "no"
  /\ ending = "no" => reason \in {"none", "start_failed"}

\* Connections are numbered as they open; a closed one never opens again, so a
\* loop waits out the grace of a seat only while its own connection is closed.
ConnsInOrder ==
  \A s \in Seats :
    /\ act[s] <= used[s] /\ cur[s] <= used[s] /\ rc[s] <= used[s]
    /\ \A p \in pend[s] : p[1] <= used[s]
    /\ loop[s] = "grace" => act[s] \notin open[s]

\* What a loop has rejected, against the retries it has left.
BudgetKept ==
  \A s \in Seats :
    /\ spent[s] <= RetryBudget + 1
    /\ loop[s] \in {"receive", "held", "grace", "resuming"}
         => spent[s] + retries[s] = RetryBudget

\* An action on its way to a commit has a turn id that is still free.
AcceptedIsFree ==
  /\ committed \cap rejected = {}
  /\ driver = "idle" => round = {}
  /\ \A s \in Seats : loop[s] = "accepted" => ~Decided(s)

LoopInv ==
  /\ AbortKnown /\ CleanExit /\ ConnsInOrder /\ HeartbeatFollowsReader
  /\ BudgetKept /\ AcceptedIsFree /\ NoReplyAfterTerminal

\* The instances on which no exit is silent: one seat acts at a time, and game
\* code raises at most once.
OneLoopOneFault ==
  /\ \A S \in Rounds : \E s \in Seats : S = {s}
  /\ MaxFaults <= 1

AllTold == \A s \in Seats : Told(s) # {}

\* Whatever was raised is counted; a closing match has told its seats; a loop
\* that returns None has seen its own abort through.
ExitInv ==
  /\ (crashed \/ ending = "failed" \/ \E s \in Seats : loop[s] = "raised")
       => faults >= 1
  /\ Closing \/ terminalSent \/ driver = "done" => AllTold
  /\ driver = "round" => \E s \in Seats : round = {s}
  /\ driver = "crashed" => crashed
  /\ driver = "drain" \/ (\E s \in Seats : loop[s] = "ended") => ending = "done"

-----------------------------------------------------------------------------
(* Liveness.                                                                *)

\* With a deadline set, every match ends and its driver exits, whatever the
\* clients do or fail to do.
DriverExits == <>(driver = "done")

\* A resumed connection that stays open is read by the driver as soon as its
\* seat is to act, even though the loop may sit on the old half-open socket.
ResumeIsRead ==
  \A s \in Seats : \A k \in Conns :
    (cur[s] = k /\ loop[s] \in {"receive", "grace"}) ~>
      (act[s] = k \/ cur[s] # k \/ loop[s] \notin {"receive", "held", "grace"})
=============================================================================
