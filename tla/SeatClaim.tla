------------------------------ MODULE SeatClaim ------------------------------
(***************************************************************************)
(* The WebSocket handlers of one match: play_handler, spectate_handler and *)
(* the resume path of routes_ws.py, with the per-match dicts of app.state, *)
(* the connection gauges of the rate limiter, and the eviction hook of     *)
(* app.py, which may run while any of those handlers waits.                *)
(*                                                                         *)
(* A connection is its handler.  A step is the code between two awaits     *)
(* that may suspend.  The driver is its start, the end of the match, the   *)
(* end of its activity and its return: MatchDriver says what it does in    *)
(* between.                                                                *)
(***************************************************************************)
EXTENDS Naturals, FiniteSets

CONSTANTS
  Conns,        \* the connections clients may open
  Clients,      \* who opens them
  ClientOf,     \* the client of each connection
  Asks,         \* what each connection may ask for: a set of requests
  NoConn,       \* None
  PerIp,        \* max_ws_connections_per_ip; all connections share one address
  SeatCap,      \* max_connections_per_match
  SpectatorCap  \* max_spectators_per_match

Seats == 0..1

\* The endpoint a connection is opened on, and whether its hello has a token.
Requests == [endpoint : {"play"}, seat : Seats, resume : BOOLEAN]
              \union [endpoint : {"spectate", "unknown"}]

ASSUME ClaimAssumption ==
  /\ IsFiniteSet(Conns) /\ NoConn \notin Conns
  /\ ClientOf \in [Conns -> Clients]
  /\ Asks \in [Conns -> SUBSET Requests]
  /\ PerIp \in Nat /\ SeatCap \in Nat /\ SpectatorCap \in Nat

\* The dicts keyed by match_id: those of app.state and the limiter's gauges.
Dicts == {"slots", "ready", "done", "resumed", "swapped", "conns", "parked", "gauges"}

VARIABLES
  registered,  \* the match is in the registry
  lifecycle,   \* session.lifecycle: "created", "running" or "over"
  driving,     \* match.driver_active
  entries,     \* the dicts that have an entry for the match
  slots,       \* _ws_seat_slots: the connection holding each seat
  live,        \* _ws_match_conns: the seats' connections, once started
  watchers,    \* its spectators
  parked,      \* _ws_pending_spectators
  ready,       \* the ready event
  done,        \* the done event
  superseded,  \* conn.superseded, per connection
  tokens,      \* match.resume_tokens, named by the connection they were sent to
  known,       \* the tokens each client has been sent
  seated,      \* _conns_per_match
  spectating,  \* _spectators_per_match
  perIp,       \* _conns_per_ip
  doomed,      \* the sockets _wake_waiters has scheduled a close of
  handler      \* each connection's handler: where it is, what it holds

match == <<registered, lifecycle, driving>>
events == <<ready, done, superseded>>
gauges == <<seated, spectating, perIp>>
vars == <<match, entries, slots, live, watchers, parked, events, tokens, known,
          gauges, doomed, handler>>

Places == {"idle", "hello", "welcoming", "waiting", "driving", "ending", "seated",
           "swapping", "resumed", "watching", "closing", "gone"}

NoRequest == [endpoint |-> "none"]

\* `old` is the connection a resume has replaced.
Idle == [at |-> "idle", open |-> FALSE, asks |-> NoRequest, slot |-> FALSE,
         ip |-> FALSE, old |-> NoConn]

Init ==
  /\ registered = TRUE /\ lifecycle = "created" /\ driving = FALSE
  /\ entries = {}
  /\ slots = [s \in Seats |-> NoConn] /\ live = [s \in Seats |-> NoConn]
  /\ watchers = {} /\ parked = {}
  /\ ready = FALSE /\ done = FALSE /\ superseded = {}
  /\ tokens = [s \in Seats |-> NoConn]
  /\ known = [p \in Clients |-> {}]
  /\ seated = 0 /\ spectating = 0 /\ perIp = 0
  /\ doomed = {}
  /\ handler = [c \in Conns |-> Idle]

-----------------------------------------------------------------------------
\* Helpers.

At(c, place) == handler[c].at = place
Seat(c) == handler[c].asks.seat
Plays(c) == handler[c].asks.endpoint = "play"
Spectates(c) == handler[c].asks.endpoint = "spectate"

Moves(c, place) == handler' = [handler EXCEPT ![c].at = place]

\* A handler that does not ask.
NeverAsked == TRUE

\* _still_registered
StillRegistered == registered

\* _match_closed
MatchClosed == ("done" \in entries /\ done) \/ lifecycle = "over"

\* _release_slot: only the holder frees a seat, and only of a kept entry.
Released(c) ==
  [s \in Seats |-> IF "slots" \in entries /\ slots[s] = c THEN NoConn ELSE slots[s]]

\* A release of what may never have been taken.
GivenAnyway(n, held) == IF n > 0 THEN n - 1 ELSE 0

\* A gauge after a handler's release; one that eviction has dropped stays at zero.
Given(n, held) == IF held /\ n > 0 THEN n - 1 ELSE n

\* The finally block of the handlers: the match slot, if held, and the address's.

Return(c) ==
  /\ At(c, "closing")
  /\ handler' = [handler EXCEPT ![c] = [Idle EXCEPT !.at = "gone"]]
  /\ perIp' = Given(perIp, handler[c].ip)
  /\ seated' = IF Plays(c) THEN Given(seated, handler[c].slot) ELSE seated
  /\ spectating' = IF Spectates(c) THEN Given(spectating, handler[c].slot) ELSE spectating
  /\ UNCHANGED <<match, entries, slots, live, watchers, parked, events, tokens,
                 known, doomed>>

-----------------------------------------------------------------------------
\* Opening a connection.

\* acquire_ip: refused at the address's cap, without a slot.
AddressHasRoom == perIp < PerIp

\* Any other path holds the address's slot while it is refused.
Served(r) == registered /\ r.endpoint # "unknown"

\* _refuse lingers and closes; a match that is there is asked for a hello.
Connect(c) ==
  /\ At(c, "idle")
  /\ \E r \in Asks[c] :
       handler' = [handler EXCEPT ![c] =
         [at |-> IF AddressHasRoom /\ Served(r) THEN "hello" ELSE "closing",
          open |-> TRUE, asks |-> r, slot |-> FALSE, ip |-> AddressHasRoom,
          old |-> NoConn]]
  /\ perIp' = IF AddressHasRoom THEN perIp + 1 ELSE perIp
  /\ UNCHANGED <<match, entries, slots, live, watchers, parked, events, tokens,
                 known, seated, spectating, doomed>>

\* The client closes, or its transport is lost.  Told apart only where the
\* handler may notice, or the seat is then held by a dead socket.
Drop(c) ==
  /\ handler[c].open
  /\ handler[c].at \in {"welcoming", "waiting", "seated", "watching"}
  /\ handler' = [handler EXCEPT ![c].open = FALSE]
  /\ UNCHANGED <<match, entries, slots, live, watchers, parked, events, tokens,
                 known, gauges, doomed>>

\* No hello in time, not a hello, another seat's, or of another wire version.
HelloFails(c) ==
  /\ At(c, "hello") /\ Moves(c, "closing")
  /\ UNCHANGED <<match, entries, slots, live, watchers, parked, events, tokens,
                 known, gauges, doomed>>

Claims(c) == At(c, "hello") /\ Plays(c) /\ ~handler[c].asks.resume

\* A fresh hello may take its seat: the match is neither over nor begun.
MayClaim == ~MatchClosed /\ "conns" \notin entries

\* acquire_match_slot
SlotLeft == seated < SeatCap

\* It is told so, or that the match is gone.
ClaimRefused(c) ==
  /\ Claims(c) /\ ~(StillRegistered /\ MayClaim /\ SlotLeft)
  /\ Moves(c, "closing")
  /\ UNCHANGED <<match, entries, slots, live, watchers, parked, events, tokens,
                 known, gauges, doomed>>

\* The seat is taken only after the match's slot: refused here, it is held until
\* the handler returns.
SeatTaken(c) ==
  /\ Claims(c) /\ StillRegistered /\ MayClaim /\ SlotLeft
  /\ slots[Seat(c)] # NoConn
  /\ handler' = [handler EXCEPT ![c].at = "closing", ![c].slot = TRUE]
  /\ seated' = seated + 1
  /\ entries' = entries \union {"slots", "gauges"}
  /\ UNCHANGED <<match, slots, live, watchers, parked, events, tokens, known,
                 spectating, perIp, doomed>>

\* send_welcome stores a new token, then awaits its send.
Claim(c) ==
  /\ Claims(c) /\ StillRegistered /\ MayClaim /\ SlotLeft
  /\ slots[Seat(c)] = NoConn
  /\ handler' = [handler EXCEPT ![c].at = "welcoming", ![c].slot = TRUE]
  /\ seated' = seated + 1
  /\ entries' = entries \union {"slots", "gauges"}
  /\ slots' = [slots EXCEPT ![Seat(c)] = c]
  /\ tokens' = [tokens EXCEPT ![Seat(c)] = c]
  /\ UNCHANGED <<match, live, watchers, parked, events, known, spectating, perIp,
                 doomed>>

\* A failed send gives the seat back.
WelcomeFails(c) ==
  /\ At(c, "welcoming")
  /\ slots' = Released(c)
  /\ Moves(c, "closing")
  /\ UNCHANGED <<match, entries, live, watchers, parked, events, tokens, known,
                 gauges, doomed>>

-----------------------------------------------------------------------------
\* From the welcome to the start of the match.

Tells(c) == known' = [known EXCEPT ![ClientOf[c]] = @ \union {c}]

\* Seat 1's handler becomes the driver's, with the spectators that waited.
StartsMatch(c) ==
  /\ Moves(c, "driving")
  /\ live' = slots
  /\ watchers' = watchers \union parked /\ parked' = {}
  /\ lifecycle' = "running" /\ driving' = TRUE

\* Seat 0's waits for the end.
JoinsMatch(c) ==
  /\ Moves(c, "seated")
  /\ UNCHANGED <<lifecycle, driving, live, watchers, parked>>

\* Both seats are there, or were: eviction leaves none.
EntersMatch(c) ==
  IF Seat(c) = 0 THEN JoinsMatch(c)
  ELSE IF \A s \in Seats : slots[s] # NoConn THEN StartsMatch(c)
  ELSE /\ Moves(c, "closing")
       /\ UNCHANGED <<lifecycle, driving, live, watchers, parked>>

StartKeeps(c, kept) ==
  IF handler'[c].at = "driving" THEN (kept \union {"conns"}) \ {"parked"} ELSE kept

\* Left to seat 1 alone.
OnlySeat1Looks(c) == Seat(c) = 1 /\ slots[0] # NoConn

\* The other seat is taken, whether or not its own welcome is out.
OtherSeatTaken(c) == slots[1 - Seat(c)] # NoConn

\* The welcome is out.  The second seat to get here fires the ready event.
WelcomeSent(c) ==
  /\ At(c, "welcoming") /\ StillRegistered
  /\ Tells(c)
  /\ IF OtherSeatTaken(c)
     THEN ready' = TRUE /\ EntersMatch(c)
     ELSE IF ready THEN UNCHANGED ready /\ EntersMatch(c)
     ELSE /\ Moves(c, "waiting")
          /\ UNCHANGED <<ready, lifecycle, driving, live, watchers, parked>>
  /\ entries' = StartKeeps(c, entries \union {"ready", "done", "resumed"})
  /\ UNCHANGED <<registered, slots, done, superseded, tokens, gauges, doomed>>

\* Evicted during the welcome.
WelcomeTooLate(c) ==
  /\ At(c, "welcoming") /\ ~StillRegistered
  /\ Tells(c)
  /\ Moves(c, "closing")
  /\ UNCHANGED <<match, entries, slots, live, watchers, parked, events, tokens,
                 gauges, doomed>>

\* The wait ends with the opponent's arrival, even if the socket closed in the
\* same instant.
OpponentArrives(c) ==
  /\ At(c, "waiting") /\ ready
  /\ EntersMatch(c)
  /\ entries' = StartKeeps(c, entries)
  /\ UNCHANGED <<registered, slots, events, tokens, known, gauges, doomed>>

\* It ends without one when the socket closes.
LeavesQueue(c) ==
  /\ At(c, "waiting") /\ ~ready /\ ~handler[c].open
  /\ slots' = Released(c)
  /\ Moves(c, "closing")
  /\ UNCHANGED <<match, entries, live, watchers, parked, events, tokens, known,
                 gauges, doomed>>

-----------------------------------------------------------------------------
\* The match and its end.

\* The session is finished or aborted; the driver still tells everyone.
MatchEnds ==
  /\ driving /\ lifecycle = "running" /\ lifecycle' = "over"
  /\ UNCHANGED <<registered, driving, entries, slots, live, watchers, parked,
                 events, tokens, known, gauges, doomed, handler>>

\* Tokens that outlive the match.
TokensKept == tokens

\* resume_tokens.clear()
TokensAtEnd == [s \in Seats |-> NoConn]

\* run_match has closed the seats' sockets.  It is no longer active, but awaits
\* its heartbeat and the seats' writers: the match may be evicted meanwhile.
DriverStops(c) ==
  /\ At(c, "driving") /\ lifecycle = "over"
  /\ driving' = FALSE
  /\ handler' = [d \in Conns |->
       [handler[d] EXCEPT !.open = @ /\ ~\E s \in Seats : live[s] = d,
                          !.at = IF d = c THEN "ending" ELSE @]]
  /\ UNCHANGED <<registered, lifecycle, entries, slots, live, watchers, parked,
                 events, tokens, known, gauges, doomed>>

\* Mutant: the seats get their entry back, whether or not the match is there.
SeatsSetAtEnd == (entries \ {"conns", "parked"}) \union {"slots"}

EntriesAtEnd == entries \ {"conns", "parked"}

\* run_match has returned, and its handler clears what the match still holds.
DriverReturns(c) ==
  /\ At(c, "ending")
  /\ done' = TRUE
  /\ tokens' = TokensAtEnd
  /\ slots' = [s \in Seats |-> NoConn] /\ live' = [s \in Seats |-> NoConn]
  /\ watchers' = {} /\ parked' = {}
  /\ entries' = EntriesAtEnd
  /\ Moves(c, "closing")
  /\ UNCHANGED <<match, ready, superseded, known, gauges, doomed>>

\* _wait_done_or_superseded in seat 0's handler, which then frees its own seat.
SeatedReturns(c) ==
  /\ At(c, "seated") /\ (done \/ c \in superseded)
  /\ slots' = Released(c)
  /\ Moves(c, "closing")
  /\ UNCHANGED <<match, entries, live, watchers, parked, events, tokens, known,
                 gauges, doomed>>

-----------------------------------------------------------------------------
\* Resuming (_handle_reconnect).

Resumes(c) == At(c, "hello") /\ Plays(c) /\ handler[c].asks.resume

\* Any token will do.
MayResumeByAny(c, token) ==
  StillRegistered /\ ~MatchClosed /\ "conns" \in entries

\* The token must be the seat's last, and the match running.
MayResume(c, token) ==
  StillRegistered /\ ~MatchClosed /\ tokens[Seat(c)] = token /\ "conns" \in entries

ResumeRefused(c) ==
  /\ Resumes(c)
  /\ ~\E token \in known[ClientOf[c]] : MayResume(c, token)
  /\ Moves(c, "closing")
  /\ UNCHANGED <<match, entries, slots, live, watchers, parked, events, tokens,
                 known, gauges, doomed>>

\* From the check to the swap nothing awaits: the new connection's writer runs,
\* so its welcome is only queued.  The slot follows the live connection.
Resume(c) ==
  /\ Resumes(c)
  /\ \E token \in known[ClientOf[c]] : MayResume(c, token)
  /\ LET s == Seat(c) IN
     /\ tokens' = [tokens EXCEPT ![s] = c]
     /\ superseded' = superseded \union {live[s]}
     /\ live' = [live EXCEPT ![s] = c]
     /\ slots' = IF "slots" \in entries THEN [slots EXCEPT ![s] = c] ELSE slots
     /\ handler' = [handler EXCEPT ![c].at = "swapping", ![c].old = live[s]]
  /\ Tells(c)
  /\ UNCHANGED <<match, entries, watchers, parked, ready, done, gauges, doomed>>

\* The welcome cannot be built, and its token is stored already: the seat keeps
\* its connection, and a token nobody was sent.
ResumeFails(c) ==
  /\ Resumes(c)
  /\ \E token \in known[ClientOf[c]] : MayResume(c, token)
  /\ tokens' = [tokens EXCEPT ![Seat(c)] = c]
  /\ Moves(c, "closing")
  /\ UNCHANGED <<match, entries, slots, live, watchers, parked, events, known,
                 gauges, doomed>>

\* The replaced socket is closed; only then is the resume registered.
Swapped(c) ==
  /\ At(c, "swapping")
  /\ entries' = entries \union {"swapped"}
  /\ handler' = [d \in Conns |->
       [handler[d] EXCEPT
          !.open = @ /\ d # handler[c].old,
          !.at = IF d # c THEN @ ELSE IF "done" \in entries THEN "resumed" ELSE "closing"]]
  /\ UNCHANGED <<match, slots, live, watchers, parked, events, tokens, known,
                 gauges, doomed>>

ResumedReturns(c) ==
  /\ At(c, "resumed") /\ (done \/ c \in superseded)
  /\ Moves(c, "closing")
  /\ UNCHANGED <<match, entries, slots, live, watchers, parked, events, tokens,
                 known, gauges, doomed>>

-----------------------------------------------------------------------------
\* Spectators (_spectate_session).

Attaches(c) == At(c, "hello") /\ Spectates(c)

AttachRefused(c) ==
  /\ Attaches(c) /\ ~(StillRegistered /\ spectating < SpectatorCap)
  /\ Moves(c, "closing")
  /\ UNCHANGED <<match, entries, slots, live, watchers, parked, events, tokens,
                 known, gauges, doomed>>

\* Welcomed, then fed by the match, parked for its start, or, when it is over,
\* only welcomed.
Attach(c) ==
  /\ Attaches(c) /\ StillRegistered /\ spectating < SpectatorCap
  /\ spectating' = spectating + 1
  /\ handler' = [handler EXCEPT
       ![c].slot = TRUE, ![c].at = IF lifecycle = "over" THEN "closing" ELSE "watching"]
  /\ IF lifecycle = "over"
     THEN entries' = entries \union {"gauges"} /\ UNCHANGED <<watchers, parked>>
     ELSE IF "conns" \in entries
     THEN /\ watchers' = watchers \union {c} /\ UNCHANGED parked
          /\ entries' = entries \union {"gauges", "done"}
     ELSE /\ parked' = parked \union {c} /\ UNCHANGED watchers
          /\ entries' = entries \union {"gauges", "done", "parked"}
  /\ UNCHANGED <<match, slots, live, events, tokens, known, seated, perIp, doomed>>

\* The read loop ends: the match did, the socket did, or it sent what it may not.
WatcherLeaves(c) ==
  /\ At(c, "watching")
  /\ watchers' = watchers \ {c} /\ parked' = parked \ {c}
  /\ Moves(c, "closing")
  /\ UNCHANGED <<match, entries, slots, live, events, tokens, known, gauges, doomed>>

-----------------------------------------------------------------------------
\* Eviction, inside another client's POST /matches.

\* Seats that wait for their opponent are forgotten.
OnlyParked == parked

\* _wake_waiters: who is still waiting on the match, to be closed.
Waiters == ({slots[s] : s \in Seats} \ {NoConn}) \union parked

\* A match whose driver runs is never evicted; Registry says when one may be.
Evict ==
  /\ registered /\ ~driving
  /\ registered' = FALSE
  /\ done' = (done \/ "done" \in entries)
  /\ doomed' = doomed \union Waiters
  /\ entries' = {}
  /\ slots' = [s \in Seats |-> NoConn] /\ live' = [s \in Seats |-> NoConn]
  /\ watchers' = {} /\ parked' = {}
  /\ seated' = 0 /\ spectating' = 0
  /\ UNCHANGED <<lifecycle, driving, ready, superseded, tokens, known, perIp, handler>>

\* A scheduled close runs.
CloseDoomed(c) ==
  /\ c \in doomed
  /\ doomed' = doomed \ {c}
  /\ handler' = [handler EXCEPT ![c].open = FALSE]
  /\ UNCHANGED <<match, entries, slots, live, watchers, parked, events, tokens,
                 known, gauges>>

-----------------------------------------------------------------------------
\* What a handler does once it is woken.
Runs(c) ==
  \/ WelcomeSent(c) \/ WelcomeTooLate(c) \/ OpponentArrives(c) \/ LeavesQueue(c)
  \/ SeatedReturns(c) \/ Swapped(c) \/ ResumedReturns(c)
  \/ DriverStops(c) \/ DriverReturns(c) \/ Return(c) \/ CloseDoomed(c)
  \/ (done \/ ~handler[c].open) /\ WatcherLeaves(c)

\* What its client makes it do.
Asked(c) ==
  \/ Connect(c) \/ Drop(c) \/ HelloFails(c) \/ WelcomeFails(c)
  \/ ClaimRefused(c) \/ SeatTaken(c) \/ Claim(c)
  \/ ResumeRefused(c) \/ ResumeFails(c) \/ Resume(c)
  \/ AttachRefused(c) \/ Attach(c) \/ WatcherLeaves(c)

Next ==
  \/ \E c \in Conns : Runs(c) \/ Asked(c)
  \/ MatchEnds
  \/ Evict

\* The event loop runs what is ready, and a hello times out.
Fairness ==
  /\ \A c \in Conns : WF_vars(Runs(c)) /\ WF_vars(HelloFails(c))
  /\ WF_vars(MatchEnds)

Spec == Init /\ [][Next]_vars /\ Fairness

-----------------------------------------------------------------------------
\* Properties.

\* Every variable keeps its type; the gauges stay within their caps.
TypeOK ==
  /\ registered \in BOOLEAN /\ driving \in BOOLEAN
  /\ lifecycle \in {"created", "running", "over"}
  /\ entries \subseteq Dicts
  /\ slots \in [Seats -> Conns \union {NoConn}]
  /\ live \in [Seats -> Conns \union {NoConn}]
  /\ tokens \in [Seats -> Conns \union {NoConn}]
  /\ watchers \subseteq Conns /\ parked \subseteq Conns
  /\ superseded \subseteq Conns /\ doomed \subseteq Conns
  /\ ready \in BOOLEAN /\ done \in BOOLEAN
  /\ known \in [Clients -> SUBSET Conns]
  /\ seated \in 0..SeatCap /\ spectating \in 0..SpectatorCap /\ perIp \in 0..PerIp
  /\ handler \in [Conns -> [at : Places, open : BOOLEAN, slot : BOOLEAN, ip : BOOLEAN,
                           asks : Requests \union {NoRequest},
                           old : Conns \union {NoConn}]]

\* No handler that outlives the eviction of its match, of however many it was
\* waiting in, brings one of its dicts back.  (The resume path does, for the
\* dict of resumed connections: ResumesReviveNothing below.)
NothingRevived == ~registered => entries \subseteq {"swapped"}

\* ... nor does a resume that waited for the close of the socket it replaced.
ResumesReviveNothing == ~registered => "swapped" \notin entries

\* Every early return gives back what its handler took, once: the gauges count
\* the handlers that hold a slot, until eviction forgets the match's.
GaugesExact ==
  /\ perIp = Cardinality({c \in Conns : handler[c].ip})
  /\ registered =>
       /\ seated = Cardinality({c \in Conns : handler[c].slot /\ Plays(c)})
       /\ spectating = Cardinality({c \in Conns : handler[c].slot /\ Spectates(c)})

\* Once a match has begun, no order of drops, fresh hellos and resumes gives a
\* seat to another client than the one that plays it.
SeatKeepsItsClient ==
  [][\A s \in Seats : live[s] # NoConn /\ live'[s] # NoConn =>
        ClientOf[live'[s]] = ClientOf[live[s]]]_vars

\* Seat 1's handler, from the start of the match until it has cleared it.
Drives(c) == handler[c].at \in {"driving", "ending"}

\* However an eviction falls between the end of the driver's activity and its
\* return, a match that is over ends with nothing a client could come back with
\* or wait on: no token, seat, connection or parked spectator, and those who wait
\* for its end are told.
Ended == lifecycle = "over" /\ ~\E c \in Conns : Drives(c)
EndedMatchHoldsNothing ==
  Ended =>
    /\ \A s \in Seats : tokens[s] = NoConn /\ slots[s] = NoConn /\ live[s] = NoConn
    /\ parked = {} /\ done

\* The inductive invariant behind these four.  A match that is gone has no seat
\* and no connection;
GoneIsEmpty ==
  ~registered => \A s \in Seats : slots[s] = NoConn /\ live[s] = NoConn

\* a match that has begun has one driver, which clears it unless it is evicted
\* first, and both seats a connection until then;
OneDriver ==
  /\ driving => registered /\ \E c \in Conns : At(c, "driving")
  /\ \A c \in Conns : /\ At(c, "driving") => driving
                      /\ At(c, "ending") => ~driving /\ lifecycle = "over"
                      /\ Drives(c) /\ registered => "conns" \in entries
  /\ \A c, d \in Conns : Drives(c) /\ Drives(d) => c = d
  /\ "conns" \in entries =>
       /\ \E c \in Conns : Drives(c)
       /\ \A s \in Seats : live[s] # NoConn

\* a seat's token was sent, or was to be, to the client that holds the seat, a
\* client knows only the tokens it was sent, and seat 1 is held by the one handler
\* that can start the match.
Playing == {"welcoming", "waiting", "driving", "ending", "seated", "swapping", "resumed"}
Belongs(s, c) == tokens[s] # NoConn /\ ClientOf[tokens[s]] = ClientOf[c]
TokensFollowSeats ==
  /\ \A s \in Seats :
       /\ slots[s] # NoConn => "slots" \in entries /\ Belongs(s, slots[s])
       /\ live[s] # NoConn => "conns" \in entries /\ Belongs(s, live[s])
  /\ \A p \in Clients : \A c \in known[p] : ClientOf[c] = p
  /\ \A c \in Conns :
       /\ handler[c].at \in Playing => Plays(c)
       /\ handler[c].at \in {"welcoming", "waiting"} /\ Seat(c) = 1 /\ registered =>
            slots[1] = c /\ "conns" \notin entries

\* A handler holds no slot before it has asked for one.
SlotsOnce ==
  \A c \in Conns : /\ At(c, "idle") => ~handler[c].ip
                   /\ handler[c].at \in {"idle", "hello"} => ~handler[c].slot

ClaimInv ==
  /\ SlotsOnce
  /\ NothingRevived /\ GoneIsEmpty /\ GaugesExact /\ EndedMatchHoldsNothing
  /\ OneDriver /\ TokensFollowSeats

\* No handler waits for ever.  Two seats that are taken start the match, unless
\* one is given up or it is evicted first, whichever of them was slower with its
\* welcome; and when the match is over or gone its handlers all return, and with
\* them every slot they hold.
NobodyWaitsForEver ==
  /\ (\A s \in Seats : slots[s] # NoConn) ~>
       (lifecycle # "created" \/ ~registered \/ \E s \in Seats : slots[s] = NoConn)
  /\ \A c \in Conns :
       (~At(c, "idle") /\ (~registered \/ lifecycle = "over")) ~> At(c, "gone")

\* The comment at routes_ws.py:567: a client whose socket dropped while waiting
\* for its opponent says a fresh hello; so its seat must become free.
DroppedSeatIsFreed ==
  \A s \in Seats :
    (lifecycle = "created" /\ slots[s] # NoConn /\ ~handler[slots[s]].open) ~>
      (lifecycle # "created" \/ slots[s] = NoConn \/ handler[slots[s]].open)
=============================================================================
