--------------------------- MODULE SeatClaimProofs ---------------------------
(***************************************************************************)
(* Proofs about SeatClaim: for any number of connections and clients, any  *)
(* requests and any caps.                                                  *)
(***************************************************************************)
EXTENDS SeatClaim, FiniteSetTheorems, TLAPS

USE ClaimAssumption DEF match, events, gauges

-----------------------------------------------------------------------------
(* The type invariant. *)

HandlerType ==
  [at : Places, open : BOOLEAN, slot : BOOLEAN, ip : BOOLEAN,
   asks : Requests \union {NoRequest}, old : Conns \union {NoConn}]

\* A handler's record keeps its type when its socket closes,
LEMMA ClosedTyped ==
  ASSUME NEW h \in HandlerType PROVE [h EXCEPT !.open = FALSE] \in HandlerType
  <1> DEFINE A == Requests \union {NoRequest}
  <1>1. HandlerType = [at : Places, open : BOOLEAN, slot : BOOLEAN, ip : BOOLEAN,
                       asks : A, old : Conns \union {NoConn}]
    BY DEF HandlerType
  <1> HIDE DEF A
  <1> QED BY <1>1

\* when another step closes its socket and moves it,
LEMMA WokenTyped ==
  ASSUME NEW h \in HandlerType, NEW o \in BOOLEAN, NEW p \in Places
  PROVE  [h EXCEPT !.open = o, !.at = p] \in HandlerType
  <1> DEFINE A == Requests \union {NoRequest}
  <1>1. HandlerType = [at : Places, open : BOOLEAN, slot : BOOLEAN, ip : BOOLEAN,
                       asks : A, old : Conns \union {NoConn}]
    BY DEF HandlerType
  <1> HIDE DEF A
  <1> QED BY <1>1

\* when it takes a slot,
LEMMA SlotTyped ==
  ASSUME NEW h \in HandlerType, NEW p \in Places
  PROVE  /\ [h EXCEPT !.at = p, !.slot = TRUE] \in HandlerType
         /\ [h EXCEPT !.slot = TRUE, !.at = p] \in HandlerType
  <1> DEFINE A == Requests \union {NoRequest}
  <1>1. HandlerType = [at : Places, open : BOOLEAN, slot : BOOLEAN, ip : BOOLEAN,
                       asks : A, old : Conns \union {NoConn}]
    BY DEF HandlerType
  <1> HIDE DEF A
  <1> QED BY <1>1

\* and when it replaces another connection.
LEMMA SwapTyped ==
  ASSUME NEW h \in HandlerType, NEW p \in Places, NEW k \in Conns \union {NoConn}
  PROVE  [h EXCEPT !.at = p, !.old = k] \in HandlerType
  <1> DEFINE A == Requests \union {NoRequest}
  <1>1. HandlerType = [at : Places, open : BOOLEAN, slot : BOOLEAN, ip : BOOLEAN,
                       asks : A, old : Conns \union {NoConn}]
    BY DEF HandlerType
  <1> HIDE DEF A
  <1> QED BY <1>1

\* Every handler has that type.
LEMMA HandlersTyped ==
  ASSUME TypeOK, NEW d \in Conns PROVE handler[d] \in HandlerType
  <1>1. handler \in [Conns -> HandlerType]
    BY DEF TypeOK, HandlerType
  <1> QED BY <1>1

\* Moving one handler keeps the handlers' type.
LEMMA MovesTyped ==
  ASSUME TypeOK, NEW c \in Conns, NEW p \in Places, Moves(c, p)
  PROVE  handler' \in [Conns -> HandlerType]
  BY DEF TypeOK, Moves, HandlerType

\* Giving a seat back keeps the type of the seats.
LEMMA ReleasedTyped ==
  ASSUME TypeOK, NEW c \in Conns PROVE Released(c) \in [Seats -> Conns \union {NoConn}]
  BY DEF TypeOK, Released

\* A gauge that gives back stays within its cap.
LEMMA GivenTyped ==
  ASSUME NEW cap \in Nat, NEW n \in 0 .. cap, NEW held \in BOOLEAN
  PROVE  Given(n, held) \in 0 .. cap
  BY DEF Given

\* The start of the match, or the wait for it, keeps the types.
LEMMA EntersTyped ==
  ASSUME TypeOK, NEW c \in Conns, EntersMatch(c),
         entries' = StartKeeps(c, entries \union {"ready", "done", "resumed"})
           \/ entries' = StartKeeps(c, entries)
  PROVE  /\ handler' \in [Conns -> HandlerType]
         /\ lifecycle' \in {"created", "running", "over"} /\ driving' \in BOOLEAN
         /\ live' \in [Seats -> Conns \union {NoConn}]
         /\ watchers' \subseteq Conns /\ parked' \subseteq Conns
         /\ entries' \subseteq Dicts
  <1>1. handler' \in [Conns -> HandlerType]
    <2>1. Moves(c, "driving") \/ Moves(c, "seated") \/ Moves(c, "closing")
      BY DEF EntersMatch, StartsMatch, JoinsMatch
    <2> QED BY <2>1, MovesTyped DEF Places
  <1>2. entries' \subseteq Dicts
    BY DEF TypeOK, StartKeeps, Dicts
  <1>3. /\ lifecycle' \in {"created", "running", "over"} /\ driving' \in BOOLEAN
        /\ live' \in [Seats -> Conns \union {NoConn}]
        /\ watchers' \subseteq Conns /\ parked' \subseteq Conns
    BY DEF TypeOK, EntersMatch, StartsMatch, JoinsMatch
  <1> QED BY <1>1, <1>2, <1>3

\* What a woken handler does keeps the types.
LEMMA RunsTyped ==
  ASSUME TypeOK, NEW c \in Conns, Runs(c) PROVE TypeOK'
  <1>1. CASE WelcomeSent(c)
    <2>1. /\ handler' \in [Conns -> HandlerType]
          /\ lifecycle' \in {"created", "running", "over"} /\ driving' \in BOOLEAN
          /\ live' \in [Seats -> Conns \union {NoConn}]
          /\ watchers' \subseteq Conns /\ parked' \subseteq Conns
          /\ entries' \subseteq Dicts
      <3>1. CASE EntersMatch(c)
        BY <1>1, <3>1, EntersTyped DEF WelcomeSent
      <3>2. CASE ~EntersMatch(c)
        <4>1. Moves(c, "waiting") /\ UNCHANGED <<lifecycle, driving, live, watchers, parked>>
          BY <1>1, <3>2 DEF WelcomeSent
        <4>2. handler' \in [Conns -> HandlerType]
          BY <4>1, MovesTyped DEF Places
        <4>3. entries' \subseteq Dicts
          BY <1>1 DEF WelcomeSent, TypeOK, StartKeeps, Dicts
        <4> QED BY <4>1, <4>2, <4>3 DEF TypeOK
      <3> QED BY <3>1, <3>2
    <2>2. ready' \in BOOLEAN /\ known' \in [Clients -> SUBSET Conns]
      BY <1>1 DEF WelcomeSent, Tells, TypeOK
    <2> QED BY <1>1, <2>1, <2>2 DEF WelcomeSent, TypeOK, HandlerType
  <1>2. CASE WelcomeTooLate(c)
    <2>1. handler' \in [Conns -> HandlerType]
      BY <1>2, MovesTyped DEF WelcomeTooLate, Places
    <2>2. known' \in [Clients -> SUBSET Conns]
      BY <1>2 DEF WelcomeTooLate, Tells, TypeOK
    <2> QED BY <1>2, <2>1, <2>2 DEF WelcomeTooLate, TypeOK, HandlerType
  <1>3. CASE OpponentArrives(c)
    BY <1>3, EntersTyped DEF OpponentArrives, TypeOK, HandlerType
  <1>4. CASE LeavesQueue(c)
    <2>1. handler' \in [Conns -> HandlerType]
      BY <1>4, MovesTyped DEF LeavesQueue, Places
    <2> QED BY <1>4, <2>1, ReleasedTyped DEF LeavesQueue, TypeOK, HandlerType
  <1>5. CASE SeatedReturns(c)
    <2>1. handler' \in [Conns -> HandlerType]
      BY <1>5, MovesTyped DEF SeatedReturns, Places
    <2> QED BY <1>5, <2>1, ReleasedTyped DEF SeatedReturns, TypeOK, HandlerType
  <1>6. CASE Swapped(c)
    <2>1. handler' \in [Conns -> HandlerType]
      <3>1. ASSUME NEW d \in Conns, NEW o \in BOOLEAN, NEW p \in Places
            PROVE  [handler[d] EXCEPT !.open = o, !.at = p] \in HandlerType
        BY HandlersTyped, WokenTyped
      <3>2. \A d \in Conns : handler[d].open \in BOOLEAN /\ handler[d].at \in Places
        BY DEF TypeOK
      <3>3. {"resumed", "closing"} \subseteq Places
        BY DEF Places
      <3> QED BY <1>6, <3>1, <3>2, <3>3 DEF Swapped
    <2> QED BY <1>6, <2>1 DEF Swapped, TypeOK, HandlerType, Dicts
  <1>7. CASE ResumedReturns(c)
    <2>1. handler' \in [Conns -> HandlerType]
      BY <1>7, MovesTyped DEF ResumedReturns, Places
    <2> QED BY <1>7, <2>1 DEF ResumedReturns, TypeOK, HandlerType
  <1>8. CASE DriverStops(c)
    <2>1. handler' \in [Conns -> HandlerType]
      <3>1. ASSUME NEW d \in Conns, NEW o \in BOOLEAN, NEW p \in Places
            PROVE  [handler[d] EXCEPT !.open = o, !.at = p] \in HandlerType
        BY HandlersTyped, WokenTyped
      <3>2. \A d \in Conns : handler[d].open \in BOOLEAN /\ handler[d].at \in Places
        BY DEF TypeOK
      <3>3. "ending" \in Places
        BY DEF Places
      <3> QED BY <1>8, <3>1, <3>2, <3>3 DEF DriverStops
    <2> QED BY <1>8, <2>1 DEF DriverStops, TypeOK, HandlerType
  <1>8a. CASE DriverReturns(c)
    <2>1. handler' \in [Conns -> HandlerType]
      BY <1>8a, MovesTyped DEF DriverReturns, Places
    <2> QED BY <1>8a, <2>1 DEF DriverReturns, TypeOK, HandlerType, TokensAtEnd, EntriesAtEnd
  <1>9. CASE Return(c)
    <2>1. handler' \in [Conns -> HandlerType]
      BY <1>9 DEF Return, TypeOK, HandlerType, Places, Idle
    <2>2. handler[c].ip \in BOOLEAN /\ handler[c].slot \in BOOLEAN
      BY DEF TypeOK
    <2>3. perIp' \in 0 .. PerIp
      BY <1>9, <2>2, GivenTyped DEF Return, TypeOK
    <2>4. seated' \in 0 .. SeatCap
      BY <1>9, <2>2, GivenTyped DEF Return, TypeOK
    <2>5. spectating' \in 0 .. SpectatorCap
      BY <1>9, <2>2, GivenTyped DEF Return, TypeOK
    <2> QED BY <1>9, <2>1, <2>3, <2>4, <2>5 DEF Return, TypeOK, HandlerType
  <1>10. CASE CloseDoomed(c)
    <2>1. handler' \in [Conns -> HandlerType]
      <3>1. [handler[c] EXCEPT !.open = FALSE] \in HandlerType
        BY HandlersTyped, ClosedTyped
      <3>2. handler' = [handler EXCEPT ![c] = [handler[c] EXCEPT !.open = FALSE]]
        BY <1>10 DEF CloseDoomed
      <3> QED BY <3>1, <3>2 DEF TypeOK, HandlerType
    <2> QED BY <1>10, <2>1 DEF CloseDoomed, TypeOK, HandlerType
  <1>11. CASE WatcherLeaves(c)
    <2>1. handler' \in [Conns -> HandlerType]
      BY <1>11, MovesTyped DEF WatcherLeaves, Places
    <2> QED BY <1>11, <2>1 DEF WatcherLeaves, TypeOK, HandlerType
  <1> QED BY <1>1, <1>2, <1>3, <1>4, <1>5, <1>6, <1>7, <1>8, <1>8a, <1>9, <1>10, <1>11 DEF Runs

\* A request to play names a seat.
LEMMA SeatOfPlayer ==
  ASSUME TypeOK, NEW c \in Conns, Plays(c) PROVE Seat(c) \in Seats
  <1>1. handler[c].asks \in Requests \union {NoRequest}
    BY DEF TypeOK
  <1>2. handler[c].asks \in [endpoint : {"play"}, seat : Seats, resume : BOOLEAN]
    BY <1>1 DEF Plays, Requests, NoRequest
  <1> QED BY <1>2 DEF Seat

\* What its client makes a handler do keeps the types.
LEMMA AskedTyped ==
  ASSUME TypeOK, OneDriver, NEW c \in Conns, Asked(c) PROVE TypeOK'
  <1>0. handler \in [Conns -> HandlerType]
    BY DEF TypeOK, HandlerType
  <1>1. CASE Connect(c)
    <2>1. PICK r \in Asks[c] : handler' = [handler EXCEPT ![c] =
            [at |-> IF AddressHasRoom /\ Served(r) THEN "hello" ELSE "closing",
             open |-> TRUE, asks |-> r, slot |-> FALSE, ip |-> AddressHasRoom,
             old |-> NoConn]]
      BY <1>1 DEF Connect
    <2>2. r \in Requests
      BY DEF ClaimAssumption
    <2>3. [at |-> IF AddressHasRoom /\ Served(r) THEN "hello" ELSE "closing",
           open |-> TRUE, asks |-> r, slot |-> FALSE, ip |-> AddressHasRoom,
           old |-> NoConn] \in HandlerType
      <3>1. AddressHasRoom \in BOOLEAN
        BY DEF AddressHasRoom
      <3>2. (IF AddressHasRoom /\ Served(r) THEN "hello" ELSE "closing") \in Places
        BY DEF Places
      <3> QED BY <2>2, <3>1, <3>2 DEF HandlerType
    <2>4. handler' \in [Conns -> HandlerType]
      BY <1>0, <2>1, <2>3
    <2>5. perIp' \in 0 .. PerIp
      BY <1>1 DEF Connect, AddressHasRoom, TypeOK
    <2> QED BY <1>1, <2>4, <2>5 DEF Connect, TypeOK, HandlerType
  <1>2. CASE Drop(c)
    <2>1. [handler[c] EXCEPT !.open = FALSE] \in HandlerType
      BY <1>0, ClosedTyped
    <2>2. handler' = [handler EXCEPT ![c] = [handler[c] EXCEPT !.open = FALSE]]
      BY <1>2 DEF Drop
    <2>3. handler' \in [Conns -> HandlerType]
      BY <1>0, <2>1, <2>2
    <2> QED BY <1>2, <2>3 DEF Drop, TypeOK, HandlerType
  <1>3. CASE HelloFails(c) \/ ClaimRefused(c) \/ ResumeRefused(c) \/ AttachRefused(c)
    <2>1. handler' \in [Conns -> HandlerType]
      BY <1>3, MovesTyped DEF HelloFails, ClaimRefused, ResumeRefused, AttachRefused, Places
    <2> QED BY <1>3, <2>1 DEF HelloFails, ClaimRefused, ResumeRefused, AttachRefused,
            TypeOK, HandlerType
  <1>4. CASE WelcomeFails(c)
    <2>1. handler' \in [Conns -> HandlerType]
      BY <1>4, MovesTyped DEF WelcomeFails, Places
    <2> QED BY <1>4, <2>1, ReleasedTyped DEF WelcomeFails, TypeOK, HandlerType
  <1>5. CASE WatcherLeaves(c)
    <2>1. handler' \in [Conns -> HandlerType]
      BY <1>5, MovesTyped DEF WatcherLeaves, Places
    <2> QED BY <1>5, <2>1 DEF WatcherLeaves, TypeOK, HandlerType
  <1>a. ASSUME NEW p \in {"closing", "welcoming", "watching"}
        PROVE  [handler EXCEPT ![c].at = p, ![c].slot = TRUE] \in [Conns -> HandlerType]
    <2>1. [handler EXCEPT ![c].at = p, ![c].slot = TRUE]
            = [handler EXCEPT ![c] = [handler[c] EXCEPT !.at = p, !.slot = TRUE]]
      BY <1>0 DEF HandlerType
    <2>2. [handler[c] EXCEPT !.at = p, !.slot = TRUE] \in HandlerType
      BY <1>0, SlotTyped DEF Places
    <2> QED BY <1>0, <2>1, <2>2
  <1>6. CASE SeatTaken(c)
    <2>1. handler' \in [Conns -> HandlerType]
      BY <1>6, <1>a DEF SeatTaken
    <2>2. seated' \in 0 .. SeatCap /\ entries' \subseteq Dicts
      BY <1>6 DEF SeatTaken, SlotLeft, TypeOK, Dicts
    <2> QED BY <1>6, <2>1, <2>2 DEF SeatTaken, TypeOK, HandlerType
  <1>7. CASE Claim(c)
    <2>1. handler' \in [Conns -> HandlerType]
      BY <1>7, <1>a DEF Claim
    <2>2. seated' \in 0 .. SeatCap /\ entries' \subseteq Dicts
      BY <1>7 DEF Claim, SlotLeft, TypeOK, Dicts
    <2>3. slots' \in [Seats -> Conns \union {NoConn}] /\ tokens' \in [Seats -> Conns \union {NoConn}]
      BY <1>7 DEF Claim, TypeOK
    <2> QED BY <1>7, <2>1, <2>2, <2>3 DEF Claim, TypeOK, HandlerType
  <1>8. CASE Resume(c)
    <2>1. handler' = [handler EXCEPT ![c].at = "swapping", ![c].old = live[Seat(c)]]
      BY <1>8 DEF Resume
    <2>2. Seat(c) \in Seats
      BY <1>8, SeatOfPlayer DEF Resume, Resumes
    <2>3. live[Seat(c)] \in Conns \union {NoConn}
      BY <2>2 DEF TypeOK
    <2>4. handler' \in [Conns -> HandlerType]
      <3>1. handler' = [handler EXCEPT ![c] =
              [handler[c] EXCEPT !.at = "swapping", !.old = live[Seat(c)]]]
        BY <1>0, <2>1 DEF HandlerType
      <3>2. [handler[c] EXCEPT !.at = "swapping", !.old = live[Seat(c)]] \in HandlerType
        BY <1>0, <2>3, SwapTyped DEF Places
      <3> QED BY <1>0, <3>1, <3>2
    <2>5. live[Seat(c)] # NoConn
      BY <1>8, <2>2 DEF Resume, MayResume, OneDriver
    <2>6. known' \in [Clients -> SUBSET Conns] /\ superseded' \subseteq Conns
      BY <1>8, <2>3, <2>5 DEF Resume, Tells, TypeOK
    <2>7. /\ tokens' \in [Seats -> Conns \union {NoConn}]
          /\ live' \in [Seats -> Conns \union {NoConn}]
          /\ slots' \in [Seats -> Conns \union {NoConn}]
      BY <1>8 DEF Resume, TypeOK
    <2> QED BY <1>8, <2>4, <2>6, <2>7 DEF Resume, TypeOK, HandlerType
  <1>8a. CASE ResumeFails(c)
    <2>1. handler' \in [Conns -> HandlerType]
      BY <1>8a, MovesTyped DEF ResumeFails, Places
    <2>2. tokens' \in [Seats -> Conns \union {NoConn}]
      BY <1>8a DEF ResumeFails, TypeOK
    <2> QED BY <1>8a, <2>1, <2>2 DEF ResumeFails, TypeOK, HandlerType
  <1>9. CASE Attach(c)
    <2>1. handler' \in [Conns -> HandlerType]
      <3>1. handler' = [handler EXCEPT ![c].slot = TRUE,
                          ![c].at = IF lifecycle = "over" THEN "closing" ELSE "watching"]
        BY <1>9 DEF Attach
      <3>2. ASSUME NEW p \in {"closing", "watching"}
            PROVE  [handler EXCEPT ![c].slot = TRUE, ![c].at = p] \in [Conns -> HandlerType]
        <4>1. [handler EXCEPT ![c].slot = TRUE, ![c].at = p]
                = [handler EXCEPT ![c] = [handler[c] EXCEPT !.slot = TRUE, !.at = p]]
          BY <1>0 DEF HandlerType
        <4>2. [handler[c] EXCEPT !.slot = TRUE, !.at = p] \in HandlerType
          BY <1>0, SlotTyped DEF Places
        <4> QED BY <1>0, <4>1, <4>2
      <3> QED BY <3>1, <3>2
    <2>2. spectating' \in 0 .. SpectatorCap
      BY <1>9 DEF Attach, TypeOK
    <2>3. entries' \subseteq Dicts /\ watchers' \subseteq Conns /\ parked' \subseteq Conns
      BY <1>9 DEF Attach, TypeOK, Dicts
    <2> QED BY <1>9, <2>1, <2>2, <2>3 DEF Attach, TypeOK, HandlerType
  <1> QED BY <1>1, <1>2, <1>3, <1>4, <1>5, <1>6, <1>7, <1>8, <1>8a, <1>9 DEF Asked

-----------------------------------------------------------------------------
(* What a step does to the handlers. *)

\* Handler c goes to p, or stays if p is its place, and no slot changes hands.
Goes(c, p) ==
  \A d \in Conns :
    /\ handler'[d].ip = handler[d].ip /\ handler'[d].slot = handler[d].slot
    /\ handler'[d].asks = handler[d].asks
    /\ handler'[d].at = IF d = c THEN p ELSE handler[d].at

\* Handler c goes to p and takes one of the match's slots.
Takes(c, p) ==
  \A d \in Conns :
    /\ handler'[d].ip = handler[d].ip
    /\ handler'[d].slot = IF d = c THEN TRUE ELSE handler[d].slot
    /\ handler'[d].asks = handler[d].asks
    /\ handler'[d].at = IF d = c THEN p ELSE handler[d].at

\* Moving a handler does nothing else to it.
LEMMA MovesGoes ==
  ASSUME TypeOK, NEW c \in Conns, NEW p, Moves(c, p) PROVE Goes(c, p)
  BY DEF TypeOK, Moves, Goes

\* Closing a socket moves no handler.
LEMMA ClosesGoes ==
  ASSUME TypeOK, NEW c \in Conns, Drop(c) \/ CloseDoomed(c) PROVE Goes(c, handler[c].at)
  BY DEF TypeOK, Drop, CloseDoomed, Goes

\* The end of the match closes sockets, and moves its driver's handler.
LEMMA DriverGoes ==
  ASSUME TypeOK, NEW c \in Conns, DriverStops(c) PROVE Goes(c, "ending")
  <1>1. handler \in [Conns -> HandlerType]
    BY DEF TypeOK, HandlerType
  <1>2. \A d \in Conns : handler'[d] =
          [handler[d] EXCEPT !.open = @ /\ ~\E s \in Seats : live[s] = d,
                             !.at = IF d = c THEN "ending" ELSE @]
    BY DEF DriverStops
  <1>3. ASSUME NEW d \in Conns
        PROVE  /\ handler'[d].at = IF d = c THEN "ending" ELSE handler[d].at
               /\ handler'[d].slot = handler[d].slot /\ handler'[d].ip = handler[d].ip
               /\ handler'[d].asks = handler[d].asks
    <2> DEFINE o == handler[d].open /\ ~\E s \in Seats : live[s] = d
               p == IF d = c THEN "ending" ELSE handler[d].at
    <2>1. handler'[d] = [handler[d] EXCEPT !.open = o, !.at = p]
      BY <1>2
    <2> DEFINE A == Requests \union {NoRequest}
    <2>2. handler[d] \in [at : Places, open : BOOLEAN, slot : BOOLEAN, ip : BOOLEAN,
                          asks : A, old : Conns \union {NoConn}]
      BY <1>1 DEF HandlerType
    <2> HIDE DEF A
    <2> HIDE DEF o
    <2> QED BY <2>1, <2>2
  <1> QED BY <1>3 DEF Goes

\* A resume that is registered waits for the end, or goes if it cannot be told.
LEMMA SwappedGoes ==
  ASSUME TypeOK, NEW c \in Conns, Swapped(c)
  PROVE  IF "done" \in entries THEN Goes(c, "resumed") ELSE Goes(c, "closing")
  <1>1. handler \in [Conns -> HandlerType]
    BY DEF TypeOK, HandlerType
  <1>2. \A d \in Conns : handler'[d] =
          [handler[d] EXCEPT
             !.open = @ /\ d # handler[c].old,
             !.at = IF d # c THEN @ ELSE IF "done" \in entries THEN "resumed" ELSE "closing"]
    BY DEF Swapped
  <1> DEFINE q == IF "done" \in entries THEN "resumed" ELSE "closing"
  <1>3. ASSUME NEW d \in Conns
        PROVE  /\ handler'[d].at = IF d = c THEN q ELSE handler[d].at
               /\ handler'[d].slot = handler[d].slot /\ handler'[d].ip = handler[d].ip
               /\ handler'[d].asks = handler[d].asks
    <2> DEFINE o == handler[d].open /\ d # handler[c].old
               p == IF d = c THEN q ELSE handler[d].at
    <2>1. handler'[d] = [handler[d] EXCEPT !.open = o, !.at = p]
      BY <1>2
    <2> DEFINE A == Requests \union {NoRequest}
    <2>2. handler[d] \in [at : Places, open : BOOLEAN, slot : BOOLEAN, ip : BOOLEAN,
                          asks : A, old : Conns \union {NoConn}]
      BY <1>1 DEF HandlerType
    <2> HIDE DEF A
    <2> HIDE DEF o
    <2> QED BY <2>1, <2>2
  <1> QED BY <1>3 DEF Goes

\* A resume takes no slot of its own.
LEMMA ResumeGoes ==
  ASSUME TypeOK, NEW c \in Conns, Resume(c) PROVE Goes(c, "swapping")
  <1>1. handler \in [Conns -> HandlerType]
    BY DEF TypeOK, HandlerType
  <1>2. handler' = [handler EXCEPT ![c].at = "swapping", ![c].old = live[Seat(c)]]
    BY DEF Resume
  <1>3. handler' = [handler EXCEPT ![c] =
          [handler[c] EXCEPT !.at = "swapping", !.old = live[Seat(c)]]]
    BY <1>1, <1>2 DEF HandlerType
  <1>4. handler'[c] = [handler[c] EXCEPT !.at = "swapping", !.old = live[Seat(c)]]
        /\ \A d \in Conns \ {c} : handler'[d] = handler[d]
    BY <1>1, <1>3
  <1> DEFINE A == Requests \union {NoRequest}
  <1>5. handler[c] \in [at : Places, open : BOOLEAN, slot : BOOLEAN, ip : BOOLEAN,
                        asks : A, old : Conns \union {NoConn}]
    BY <1>1 DEF HandlerType
  <1> HIDE DEF A
  <1>6. /\ handler'[c].at = "swapping" /\ handler'[c].slot = handler[c].slot
        /\ handler'[c].ip = handler[c].ip /\ handler'[c].asks = handler[c].asks
    BY <1>4, <1>5
  <1> QED BY <1>4, <1>6 DEF Goes

\* A seat or a spectator's place is taken with a slot of the match.
LEMMA SlotTaken ==
  ASSUME TypeOK, NEW c \in Conns
  PROVE  /\ Claim(c) => Takes(c, "welcoming")
         /\ SeatTaken(c) => Takes(c, "closing")
         /\ Attach(c) => Takes(c, IF lifecycle = "over" THEN "closing" ELSE "watching")
  <1>1. handler \in [Conns -> HandlerType]
    BY DEF TypeOK, HandlerType
  <1>2. ASSUME NEW p, \/ handler' = [handler EXCEPT ![c].at = p, ![c].slot = TRUE]
                      \/ handler' = [handler EXCEPT ![c].slot = TRUE, ![c].at = p]
        PROVE  Takes(c, p)
    <2>1. handler' = [handler EXCEPT ![c] = [handler[c] EXCEPT !.at = p, !.slot = TRUE]]
      BY <1>1, <1>2 DEF HandlerType
    <2>2. handler'[c] = [handler[c] EXCEPT !.at = p, !.slot = TRUE]
          /\ \A d \in Conns \ {c} : handler'[d] = handler[d]
      BY <1>1, <2>1
    <2> DEFINE A == Requests \union {NoRequest}
    <2>3. handler[c] \in [at : Places, open : BOOLEAN, slot : BOOLEAN, ip : BOOLEAN,
                          asks : A, old : Conns \union {NoConn}]
      BY <1>1 DEF HandlerType
    <2> HIDE DEF A
    <2>4. /\ handler'[c].at = p /\ handler'[c].slot = TRUE
          /\ handler'[c].ip = handler[c].ip /\ handler'[c].asks = handler[c].asks
      BY <2>2, <2>3
    <2> QED BY <2>2, <2>4 DEF Takes
  <1> QED BY <1>2 DEF Claim, SeatTaken, Attach

-----------------------------------------------------------------------------
(* The gauges. *)

WithIp == {c \in Conns : handler[c].ip}
WithSeat == {c \in Conns : handler[c].slot /\ Plays(c)}
WithView == {c \in Conns : handler[c].slot /\ Spectates(c)}

\* A set of connections that gains or loses one counts one more or one less.
LEMMA CountsOne ==
  ASSUME NEW S, NEW T, S \subseteq Conns, NEW c \in Conns
  PROVE  /\ Cardinality(S) \in Nat
         /\ c \notin S /\ T = S \union {c} => Cardinality(T) = Cardinality(S) + 1
         /\ c \in S /\ T = S \ {c} => Cardinality(T) = Cardinality(S) - 1
         /\ c \in S => Cardinality(S) > 0
  <1>1. IsFiniteSet(S) /\ Cardinality(S) \in Nat
    BY FS_Subset, FS_CardinalityType DEF ClaimAssumption
  <1>2. c \notin S /\ T = S \union {c} => Cardinality(T) = Cardinality(S) + 1
    BY <1>1, FS_AddElement
  <1>3. c \in S => Cardinality(S \ {c}) = Cardinality(S) - 1
    BY <1>1, FS_RemoveElement
  <1>4. c \in S => Cardinality(S) > 0
    BY <1>1, FS_EmptySet
  <1> QED BY <1>1, <1>2, <1>3, <1>4

\* A step that moves a handler without touching a slot keeps the gauges exact.
LEMMA GoesKeepsGauges ==
  ASSUME TypeOK, GaugesExact, NEW c \in Conns, NEW p, Goes(c, p),
         UNCHANGED gauges, registered' = registered
  PROVE  GaugesExact'
  <1>1. WithIp' = WithIp
    BY DEF Goes, WithIp
  <1>2. WithSeat' = WithSeat /\ WithView' = WithView
    BY DEF Goes, WithSeat, WithView, Plays, Spectates
  <1> QED BY <1>1, <1>2 DEF GaugesExact, WithIp, WithSeat, WithView

\* A step that takes a slot of the match counts it where it belongs.
LEMMA TakesKeepsGauges ==
  ASSUME TypeOK, GaugesExact, NEW c \in Conns, NEW p, Takes(c, p),
         ~handler[c].slot, registered, registered' = registered, UNCHANGED perIp,
         \/ Plays(c) /\ seated' = seated + 1 /\ UNCHANGED spectating
         \/ Spectates(c) /\ spectating' = spectating + 1 /\ UNCHANGED seated
  PROVE  GaugesExact'
  <1>1. WithIp' = WithIp
    BY DEF Takes, WithIp
  <1>2. CASE Plays(c) /\ seated' = seated + 1 /\ UNCHANGED spectating
    <2>1. WithSeat' = WithSeat \union {c} /\ c \notin WithSeat /\ WithView' = WithView
      BY <1>2 DEF Takes, WithSeat, WithView, Plays, Spectates
    <2>2. Cardinality(WithSeat') = Cardinality(WithSeat) + 1
      BY <2>1, CountsOne DEF WithSeat
    <2> QED BY <1>1, <1>2, <2>1, <2>2 DEF GaugesExact, WithIp, WithSeat, WithView
  <1>3. CASE Spectates(c) /\ spectating' = spectating + 1 /\ UNCHANGED seated
    <2>1. WithView' = WithView \union {c} /\ c \notin WithView /\ WithSeat' = WithSeat
      BY <1>3 DEF Takes, WithSeat, WithView, Plays, Spectates
    <2>2. Cardinality(WithView') = Cardinality(WithView) + 1
      BY <2>1, CountsOne DEF WithView
    <2> QED BY <1>1, <1>3, <2>1, <2>2 DEF GaugesExact, WithIp, WithSeat, WithView
  <1> QED BY <1>2, <1>3

\* A connection takes its address's slot if there is one, and nothing else.
LEMMA ConnectKeepsGauges ==
  ASSUME TypeOK, GaugesExact, SlotsOnce, NEW c \in Conns, Connect(c)
  PROVE  GaugesExact'
  <1>1. PICK r : handler' = [handler EXCEPT ![c] =
          [at |-> IF AddressHasRoom /\ Served(r) THEN "hello" ELSE "closing",
           open |-> TRUE, asks |-> r, slot |-> FALSE, ip |-> AddressHasRoom,
           old |-> NoConn]]
    BY DEF Connect
  <1>2. ~handler[c].ip /\ ~handler[c].slot
    BY DEF Connect, SlotsOnce, At
  <1>3. /\ \A d \in Conns \ {c} : handler'[d] = handler[d]
        /\ handler'[c].slot = FALSE /\ handler'[c].ip = AddressHasRoom
    BY <1>1 DEF TypeOK
  <1>4. WithSeat' = WithSeat /\ WithView' = WithView
    BY <1>2, <1>3 DEF WithSeat, WithView, Plays, Spectates
  <1>5. perIp' = Cardinality(WithIp')
    <2>1. CASE AddressHasRoom
      <3>1. WithIp' = WithIp \union {c} /\ c \notin WithIp
        BY <1>2, <1>3, <2>1 DEF WithIp
      <3>2. Cardinality(WithIp') = Cardinality(WithIp) + 1
        BY <3>1, CountsOne DEF WithIp
      <3> QED BY <2>1, <3>2 DEF Connect, GaugesExact, WithIp
    <2>2. CASE ~AddressHasRoom
      <3>1. WithIp' = WithIp
        BY <1>2, <1>3, <2>2 DEF WithIp
      <3> QED BY <2>2, <3>1 DEF Connect, GaugesExact, WithIp
    <2> QED BY <2>1, <2>2
  <1> QED BY <1>4, <1>5 DEF Connect, GaugesExact, WithIp, WithSeat, WithView, match

\* A handler that returns gives back what it holds, once.
LEMMA ReturnKeepsGauges ==
  ASSUME TypeOK, GaugesExact, NEW c \in Conns, Return(c) PROVE GaugesExact'
  <1>1. /\ \A d \in Conns \ {c} : handler'[d] = handler[d]
        /\ handler'[c].slot = FALSE /\ handler'[c].ip = FALSE
    BY DEF Return, Idle, TypeOK
  <1>2. WithIp' = WithIp \ {c} /\ WithSeat' = WithSeat \ {c} /\ WithView' = WithView \ {c}
    BY <1>1 DEF WithIp, WithSeat, WithView, Plays, Spectates
  <1>3. perIp' = Cardinality(WithIp')
    <2>1. CASE handler[c].ip
      <3>1. Cardinality(WithIp') = Cardinality(WithIp) - 1 /\ Cardinality(WithIp) > 0
        BY <1>2, <2>1, CountsOne DEF WithIp
      <3> QED BY <2>1, <3>1 DEF Return, Given, GaugesExact, WithIp
    <2>2. CASE ~handler[c].ip
      BY <1>2, <2>2 DEF Return, Given, GaugesExact, WithIp
    <2> QED BY <2>1, <2>2
  <1>4. registered => seated' = Cardinality(WithSeat')
    <2>1. CASE c \in WithSeat
      <3>1. Cardinality(WithSeat') = Cardinality(WithSeat) - 1 /\ Cardinality(WithSeat) > 0
        BY <1>2, <2>1, CountsOne DEF WithSeat
      <3> QED BY <2>1, <3>1 DEF Return, Given, GaugesExact, WithSeat
    <2>2. CASE c \notin WithSeat
      <3>1. WithSeat' = WithSeat
        BY <1>2, <2>2
      <3> QED BY <2>2, <3>1 DEF Return, Given, GaugesExact, WithSeat
    <2> QED BY <2>1, <2>2
  <1>5. registered => spectating' = Cardinality(WithView')
    <2>1. CASE c \in WithView
      <3>1. Cardinality(WithView') = Cardinality(WithView) - 1 /\ Cardinality(WithView) > 0
        BY <1>2, <2>1, CountsOne DEF WithView
      <3> QED BY <2>1, <3>1 DEF Return, Given, GaugesExact, WithView
    <2>2. CASE c \notin WithView
      <3>1. WithView' = WithView
        BY <1>2, <2>2
      <3> QED BY <2>2, <3>1 DEF Return, Given, GaugesExact, WithView
    <2> QED BY <2>1, <2>2
  <1> QED BY <1>3, <1>4, <1>5 DEF Return, GaugesExact, WithIp, WithSeat, WithView

-----------------------------------------------------------------------------
(* The steps that start nothing, seat nobody and end nothing. *)

WorldInv == NothingRevived /\ GoneIsEmpty /\ EndedMatchHoldsNothing /\ OneDriver /\ TokensFollowSeats

\* Handler c goes to p, or stays; what is asked of a handler in the match is kept.
Placed(c, p) ==
  \A d \in Conns :
    /\ handler'[d].at = IF d = c THEN p ELSE handler[d].at
    /\ handler'[d].at \in Playing => handler'[d].asks = handler[d].asks

\* Where a handler may go without taking a seat or starting the match.
MayGo(c, p) ==
  \/ p = handler[c].at
  \/ /\ p \notin {"driving", "ending", "welcoming"} /\ ~Drives(c)
     /\ p \in Playing => handler[c].at \in Playing
     /\ p = "waiting" => handler[c].at = "welcoming"

\* A dict may appear while the match is there; a seat may be given back, and a
\* token pass to another connection of its client.
Calm(c, p) ==
  /\ Placed(c, p) /\ MayGo(c, p)
  /\ UNCHANGED <<registered, lifecycle, driving, live, done>>
  /\ \A s \in Seats : \/ tokens'[s] = tokens[s]
                      \/ ~Ended /\ tokens'[s] # NoConn /\ Belongs(s, tokens'[s])
  /\ slots' = slots \/ (p = "closing" /\ slots' = Released(c))
  /\ entries \subseteq entries' /\ ("conns" \in entries' => "conns" \in entries)
  /\ ~registered => entries' \subseteq {"swapped"}
  /\ Ended => parked' = {}
  /\ \A q \in Clients : \A k \in known'[q] : k \in known[q] \/ ClientOf[k] = q

\* Such a step keeps what is known of the seats, the tokens and the driver.
LEMMA CalmKeepsWorld ==
  ASSUME TypeOK, WorldInv, NEW c \in Conns, NEW p, Calm(c, p) PROVE WorldInv'
  <1>0. \A d \in Conns : /\ Drives(d)' = Drives(d)
                         /\ handler'[d].at = "driving" <=> handler[d].at = "driving"
                         /\ handler'[d].at = "ending" <=> handler[d].at = "ending"
    BY DEF Calm, Placed, MayGo, Drives
  <1>1. NothingRevived'
    BY DEF Calm, NothingRevived
  <1>2. \A s \in Seats : slots'[s] = slots[s] \/ slots'[s] = NoConn
    BY DEF Calm, Released, TypeOK
  <1>3. GoneIsEmpty' /\ EndedMatchHoldsNothing'
    <2>1. GoneIsEmpty'
      BY <1>2 DEF Calm, WorldInv, GoneIsEmpty
    <2>2. Ended' => Ended
      BY <1>0 DEF Calm, Ended
    <2> QED BY <1>2, <2>1, <2>2 DEF Calm, WorldInv, EndedMatchHoldsNothing
  <1>4. OneDriver'
    BY <1>0 DEF Calm, WorldInv, OneDriver, At, Drives
  <1>5. TokensFollowSeats'
    <2>1. \A s \in Seats :
            /\ slots'[s] # NoConn => "slots" \in entries' /\ Belongs(s, slots[s])'
            /\ live'[s] # NoConn => "conns" \in entries' /\ Belongs(s, live[s])'
      BY <1>2 DEF Calm, WorldInv, TokensFollowSeats, Belongs
    <2>2. \A q \in Clients : \A k \in known'[q] : ClientOf[k] = q
      BY DEF Calm, WorldInv, TokensFollowSeats
    <2>3. ASSUME NEW d \in Conns
          PROVE  /\ handler'[d].at \in Playing => Plays(d)'
                 /\ handler'[d].at \in {"welcoming", "waiting"} /\ Seat(d)' = 1 /\ registered' =>
                      slots'[1] = d /\ "conns" \notin entries'
      <3>1. handler'[d].at \in Playing =>
              handler[d].at \in Playing /\ handler'[d].asks = handler[d].asks
        BY DEF Calm, Placed, MayGo
      <3>2. handler'[d].at \in Playing => Plays(d)'
        BY <3>1 DEF WorldInv, TokensFollowSeats, Plays
      <3>3. ASSUME handler'[d].at \in {"welcoming", "waiting"}, Seat(d)' = 1, registered'
            PROVE  slots'[1] = d /\ "conns" \notin entries'
        <4>1. handler[d].at \in {"welcoming", "waiting"} /\ Seat(d) = 1 /\ registered
          BY <3>3, <3>1 DEF Calm, Placed, MayGo, Seat, Playing
        <4>2. slots[1] = d /\ "conns" \notin entries
          BY <4>1 DEF WorldInv, TokensFollowSeats
        <4>3. slots'[1] = d
          <5>1. CASE slots' = slots
            BY <4>2, <5>1
          <5>2. CASE p = "closing" /\ slots' = Released(c)
            <6>1. c # d
              BY <3>3, <5>2 DEF Calm, Placed
            <6> QED BY <4>2, <5>2, <6>1 DEF Released, Seats
          <5> QED BY <5>1, <5>2 DEF Calm
        <4> QED BY <4>2, <4>3 DEF Calm
      <3> QED BY <3>2, <3>3
    <2> QED BY <2>1, <2>2, <2>3 DEF TokensFollowSeats
  <1> QED BY <1>1, <1>3, <1>4, <1>5 DEF WorldInv

\* A handler that moves calmly and touches no slot keeps the invariant.
LEMMA GoesCalmly ==
  ASSUME TypeOK, ClaimInv, NEW c \in Conns, NEW p, Goes(c, p), Calm(c, p),
         p = handler[c].at \/ p \notin {"idle", "hello"}, UNCHANGED gauges
  PROVE  ClaimInv'
  <1>1. WorldInv'
    BY CalmKeepsWorld DEF ClaimInv, WorldInv
  <1>2. GaugesExact'
    BY GoesKeepsGauges DEF ClaimInv, Calm
  <1>3. SlotsOnce'
    BY DEF ClaimInv, SlotsOnce, Goes, At
  <1> QED BY <1>1, <1>2, <1>3 DEF ClaimInv, WorldInv

\* So does one that takes a slot of the match and moves calmly.
LEMMA TakesCalmly ==
  ASSUME TypeOK, ClaimInv, NEW c \in Conns, NEW p, Takes(c, p), Calm(c, p),
         p \notin {"idle", "hello"}, ~handler[c].slot, registered, UNCHANGED perIp,
         \/ Plays(c) /\ seated' = seated + 1 /\ UNCHANGED spectating
         \/ Spectates(c) /\ spectating' = spectating + 1 /\ UNCHANGED seated
  PROVE  ClaimInv'
  <1>1. WorldInv'
    BY CalmKeepsWorld DEF ClaimInv, WorldInv
  <1>2. GaugesExact'
    BY TakesKeepsGauges DEF ClaimInv, Calm
  <1>3. SlotsOnce'
    BY DEF ClaimInv, SlotsOnce, Takes, At
  <1> QED BY <1>1, <1>2, <1>3 DEF ClaimInv, WorldInv

\* A handler that leaves, with or without its seat.
LEMMA LeavesCalmly ==
  ASSUME TypeOK, ClaimInv, NEW c \in Conns,
         \/ HelloFails(c) \/ ClaimRefused(c) \/ ResumeRefused(c) \/ AttachRefused(c)
         \/ ResumedReturns(c) \/ WelcomeTooLate(c) \/ ResumeFails(c)
         \/ WelcomeFails(c) \/ LeavesQueue(c) \/ SeatedReturns(c)
         \/ WatcherLeaves(c)
  PROVE  ClaimInv'
  <1> USE DEF HelloFails, ClaimRefused, ResumeRefused, AttachRefused, ResumedReturns,
            ResumeFails, WelcomeTooLate, WelcomeFails, LeavesQueue, SeatedReturns, WatcherLeaves
  <1>1. Moves(c, "closing")
    OBVIOUS
  <1>2. Goes(c, "closing")
    BY <1>1, MovesGoes
  <1>3. Placed(c, "closing") /\ MayGo(c, "closing")
    <2>1. ~Drives(c)
      BY DEF Drives, At, Claims, Resumes, Attaches
    <2> QED BY <1>2, <2>1 DEF Goes, Placed, MayGo, Playing
  <1>4. /\ UNCHANGED <<registered, lifecycle, driving, live, entries, done>>
        /\ UNCHANGED gauges
        /\ slots' = slots \/ slots' = Released(c)
    OBVIOUS
  <1>4a. \A s \in Seats : \/ tokens'[s] = tokens[s]
                          \/ ~Ended /\ tokens'[s] # NoConn /\ Belongs(s, tokens'[s])
    <2>1. CASE ResumeFails(c)
      <3>1. PICK token \in known[ClientOf[c]] : MayResume(c, token)
        BY <2>1
      <3>2. ClientOf[c] \in Clients
        BY DEF ClaimAssumption
      <3>3. token \in Conns /\ ClientOf[token] = ClientOf[c] /\ tokens[Seat(c)] = token
        BY <3>1, <3>2 DEF MayResume, TypeOK, ClaimInv, TokensFollowSeats
      <3>4. ~Ended
        BY <3>1 DEF MayResume, MatchClosed, Ended
      <3>5. tokens' = [tokens EXCEPT ![Seat(c)] = c] /\ c # NoConn /\ token # NoConn
        BY <2>1, <3>3 DEF ClaimAssumption
      <3> QED BY <3>3, <3>4, <3>5 DEF TypeOK, Belongs
    <2>2. CASE ~ResumeFails(c)
      <3>1. tokens' = tokens
        BY <2>2
      <3> QED BY <3>1
    <2> QED BY <2>1, <2>2
  <1>5. Ended => parked' = {}
    BY DEF ClaimInv, EndedMatchHoldsNothing
  <1>6. \A q \in Clients : \A k \in known'[q] : k \in known[q] \/ ClientOf[k] = q
    <2>1. known' = known \/ Tells(c)
      OBVIOUS
    <2> QED BY <2>1 DEF Tells, TypeOK
  <1>7. Calm(c, "closing")
    BY <1>3, <1>4, <1>4a, <1>5, <1>6 DEF Calm, ClaimInv, NothingRevived
  <1> QED BY <1>2, <1>4, <1>7, GoesCalmly

\* A socket that closes, and a resume that is registered.
LEMMA StaysCalmly ==
  ASSUME TypeOK, ClaimInv, NEW c \in Conns, Drop(c) \/ CloseDoomed(c) \/ Swapped(c)
  PROVE  ClaimInv'
  <1>1. PICK p : /\ Goes(c, p)
                 /\ \/ p = handler[c].at
                    \/ p \in {"resumed", "closing"} /\ handler[c].at = "swapping"
    <2>1. CASE Drop(c) \/ CloseDoomed(c)
      BY <2>1, ClosesGoes
    <2>2. CASE Swapped(c)
      <3>1. handler[c].at = "swapping"
        BY <2>2 DEF Swapped, At
      <3> QED BY <2>2, <3>1, SwappedGoes
    <2> QED BY <2>1, <2>2
  <1>2. Placed(c, p) /\ MayGo(c, p)
    BY <1>1 DEF Goes, Placed, MayGo, Playing, Drives
  <1>3. /\ UNCHANGED <<registered, lifecycle, driving, live, tokens, slots, parked, known, done>>
        /\ UNCHANGED gauges
        /\ entries' = entries \/ entries' = entries \union {"swapped"}
    BY DEF Drop, CloseDoomed, Swapped
  <1>4. Calm(c, p)
    BY <1>2, <1>3 DEF Calm, ClaimInv, NothingRevived, EndedMatchHoldsNothing
  <1> QED BY <1>1, <1>3, <1>4, GoesCalmly

\* A connection that opens, and one whose handler returns.
LEMMA OpensOrReturns ==
  ASSUME TypeOK, ClaimInv, NEW c \in Conns, Connect(c) \/ Return(c) PROVE ClaimInv'
  <1>1. PICK p \in {"hello", "closing", "gone"} :
          /\ handler'[c].at = p /\ \A d \in Conns \ {c} : handler'[d] = handler[d]
          /\ handler'[c].slot = FALSE
    BY DEF Connect, Return, TypeOK, Idle
  <1>2. Placed(c, p) /\ MayGo(c, p)
    <2>1. ~Drives(c)
      BY DEF Connect, Return, At, Drives
    <2> QED BY <1>1, <2>1 DEF Placed, MayGo, Playing
  <1>3. UNCHANGED <<registered, lifecycle, driving, live, tokens, slots, parked, known, entries, done>>
    BY DEF Connect, Return, match
  <1>4. WorldInv'
    <2>1. Calm(c, p)
      BY <1>2, <1>3 DEF Calm, ClaimInv, NothingRevived, EndedMatchHoldsNothing
    <2> QED BY <2>1, CalmKeepsWorld DEF ClaimInv, WorldInv
  <1>5. GaugesExact'
    BY ConnectKeepsGauges, ReturnKeepsGauges DEF ClaimInv
  <1>6. SlotsOnce'
    BY <1>1 DEF ClaimInv, SlotsOnce, At
  <1> QED BY <1>4, <1>5, <1>6 DEF ClaimInv, WorldInv

\* A hello refused its seat, and a spectator's.
LEMMA TakesASlot ==
  ASSUME TypeOK, ClaimInv, NEW c \in Conns, SeatTaken(c) \/ Attach(c) PROVE ClaimInv'
  <1>1. PICK p \in {"closing", "watching"} : Takes(c, p)
    BY SlotTaken
  <1>2. Placed(c, p) /\ MayGo(c, p)
    <2>1. ~Drives(c)
      BY DEF SeatTaken, Attach, Claims, Attaches, At, Drives
    <2> QED BY <1>1, <2>1 DEF Takes, Placed, MayGo, Playing
  <1>3. registered /\ ~handler[c].slot
    BY DEF SeatTaken, Attach, Claims, Attaches, At, StillRegistered, ClaimInv, SlotsOnce
  <1>4. UNCHANGED <<registered, lifecycle, driving, live, tokens, slots, known, perIp, done>>
    BY DEF SeatTaken, Attach
  <1>5. entries \subseteq entries' /\ ("conns" \in entries' => "conns" \in entries)
    BY DEF SeatTaken, Attach
  <1>6. Ended => parked' = {}
    BY DEF Ended, SeatTaken, Attach, ClaimInv, EndedMatchHoldsNothing
  <1>7. \/ Plays(c) /\ seated' = seated + 1 /\ UNCHANGED spectating
        \/ Spectates(c) /\ spectating' = spectating + 1 /\ UNCHANGED seated
    BY DEF SeatTaken, Attach, Claims, Attaches
  <1>8. Calm(c, p)
    BY <1>2, <1>3, <1>4, <1>5, <1>6 DEF Calm
  <1> QED BY <1>1, <1>3, <1>4, <1>7, <1>8, TakesCalmly

-----------------------------------------------------------------------------
(* Claims, starts, resumes, ends and evictions. *)

\* The step that starts the match: its caller holds seat 1, and seat 0 is taken.
LEMMA StartKeepsIt ==
  ASSUME TypeOK, ClaimInv, NEW c \in Conns, StartsMatch(c),
         handler[c].at \in {"welcoming", "waiting"}, Seat(c) = 1,
         \A s \in Seats : slots[s] # NoConn,
         entries \subseteq entries' \union {"parked"}, "conns" \in entries',
         UNCHANGED <<registered, slots, tokens, gauges>>,
         \A q \in Clients : \A k \in known'[q] : k \in known[q] \/ ClientOf[k] = q
  PROVE  ClaimInv'
  <1>1. Goes(c, "driving") /\ live' = slots /\ lifecycle' = "running" /\ driving' = TRUE
    BY MovesGoes DEF StartsMatch
  <1>2. registered
    BY DEF ClaimInv, GoneIsEmpty, Seats
  <1>3. slots[1] = c /\ "conns" \notin entries /\ \A d \in Conns : ~Drives(d)
    BY <1>2 DEF ClaimInv, TokensFollowSeats, OneDriver
  <1>4. GaugesExact'
    BY <1>1, GoesKeepsGauges DEF ClaimInv
  <1>5. SlotsOnce'
    BY <1>1 DEF ClaimInv, SlotsOnce, Goes, At
  <1>6. NothingRevived' /\ GoneIsEmpty' /\ EndedMatchHoldsNothing'
    BY <1>1, <1>2 DEF NothingRevived, GoneIsEmpty, EndedMatchHoldsNothing, Ended
  <1>7. OneDriver'
    <2>1. \A d \in Conns : /\ handler'[d].at = "driving" <=> d = c
                           /\ handler'[d].at # "ending"
      BY <1>1, <1>3 DEF Goes, Drives
    <2> QED BY <1>1, <1>2, <2>1 DEF OneDriver, At, Drives
  <1>8. TokensFollowSeats'
    <2>1. \A s \in Seats :
            /\ slots'[s] # NoConn => "slots" \in entries' /\ Belongs(s, slots[s])'
            /\ live'[s] # NoConn => "conns" \in entries' /\ Belongs(s, live[s])'
      BY <1>1 DEF ClaimInv, TokensFollowSeats, Belongs
    <2>2. \A q \in Clients : \A k \in known'[q] : ClientOf[k] = q
      BY DEF ClaimInv, TokensFollowSeats
    <2>3. ASSUME NEW d \in Conns, handler'[d].at \in Playing PROVE Plays(d)'
      BY <1>1, <2>3 DEF Goes, ClaimInv, TokensFollowSeats, Playing, Plays
    <2>4. ASSUME NEW d \in Conns, handler'[d].at \in {"welcoming", "waiting"}, Seat(d)' = 1
          PROVE  FALSE
      <3>1. d # c /\ handler[d].at \in {"welcoming", "waiting"} /\ Seat(d) = 1
        BY <1>1, <2>4 DEF Goes, Seat
      <3> QED BY <1>2, <1>3, <3>1 DEF ClaimInv, TokensFollowSeats
    <2> QED BY <2>1, <2>2, <2>3, <2>4 DEF TokensFollowSeats
  <1> QED BY <1>4, <1>5, <1>6, <1>7, <1>8 DEF ClaimInv

\* A welcome that is out, and an opponent that arrives.
LEMMA EntersKeepsIt ==
  ASSUME TypeOK, ClaimInv, NEW c \in Conns, WelcomeSent(c) \/ OpponentArrives(c)
  PROVE  ClaimInv'
  <1>1. handler[c].at \in {"welcoming", "waiting"} /\ Plays(c)
    BY DEF WelcomeSent, OpponentArrives, At, ClaimInv, TokensFollowSeats, Playing
  <1>2. /\ UNCHANGED <<registered, slots, tokens, done>> /\ UNCHANGED gauges
        /\ \/ entries' = StartKeeps(c, entries)
           \/ entries' = StartKeeps(c, entries \union {"ready", "done", "resumed"}) /\ registered
    BY DEF WelcomeSent, OpponentArrives, StillRegistered
  <1>3. \A q \in Clients : \A k \in known'[q] : k \in known[q] \/ ClientOf[k] = q
    <2>1. known' = known \/ Tells(c)
      BY DEF WelcomeSent, OpponentArrives
    <2> QED BY <2>1 DEF Tells, TypeOK
  <1>4. CASE StartsMatch(c) /\ Seat(c) = 1 /\ \A s \in Seats : slots[s] # NoConn
    <2>1. Goes(c, "driving")
      BY <1>4, MovesGoes DEF StartsMatch
    <2>2. handler'[c].at = "driving"
      BY <2>1 DEF Goes
    <2>3. "conns" \in entries' /\ "parked" \notin entries'
      BY <1>2, <2>2 DEF StartKeeps
    <2>4. entries \subseteq entries' \union {"parked"}
      BY <1>2, <2>2 DEF StartKeeps
    <2> QED BY <1>1, <1>2, <1>3, <1>4, <2>3, <2>4, StartKeepsIt
  <1>5. CASE ~(StartsMatch(c) /\ Seat(c) = 1 /\ \A s \in Seats : slots[s] # NoConn)
    <2>1. PICK p \in {"seated", "waiting", "closing"} :
            /\ Moves(c, p) /\ UNCHANGED <<lifecycle, driving, live, watchers, parked>>
            /\ p = "waiting" => handler[c].at = "welcoming"
      <3>1. Seat(c) \in Seats
        BY <1>1, SeatOfPlayer
      <3>2. CASE EntersMatch(c)
        BY <1>5, <3>1, <3>2 DEF EntersMatch, JoinsMatch, Seats
      <3>3. CASE ~EntersMatch(c)
        BY <3>3 DEF WelcomeSent, OpponentArrives, At
      <3> QED BY <3>2, <3>3
    <2>2. Goes(c, p)
      BY <2>1, MovesGoes
    <2>3. handler'[c].at = p
      BY <2>2 DEF Goes
    <2>4. /\ entries \subseteq entries' /\ ("conns" \in entries' => "conns" \in entries)
          /\ ~registered => entries' = entries
      BY <1>2, <2>1, <2>3 DEF StartKeeps
    <2>5. Placed(c, p) /\ MayGo(c, p)
      BY <1>1, <2>1, <2>2 DEF Goes, Placed, MayGo, Playing, Drives
    <2>6. Ended => parked' = {}
      BY <2>1 DEF ClaimInv, EndedMatchHoldsNothing
    <2>7. Calm(c, p)
      BY <1>2, <1>3, <2>1, <2>4, <2>5, <2>6 DEF Calm, ClaimInv, NothingRevived
    <2> QED BY <1>2, <2>1, <2>2, <2>7, GoesCalmly
  <1> QED BY <1>4, <1>5

\* A seat that is claimed.
LEMMA ClaimKeepsIt ==
  ASSUME TypeOK, ClaimInv, NEW c \in Conns, Claim(c) PROVE ClaimInv'
  <1>1. Takes(c, "welcoming") /\ Plays(c) /\ Seat(c) \in Seats /\ handler[c].at = "hello"
    BY SlotTaken, SeatOfPlayer DEF Claim, Claims, At
  <1>2. /\ registered /\ lifecycle # "over" /\ "conns" \notin entries
        /\ slots[Seat(c)] = NoConn
    BY DEF Claim, StillRegistered, MayClaim, MatchClosed
  <1>3. /\ slots' = [slots EXCEPT ![Seat(c)] = c] /\ tokens' = [tokens EXCEPT ![Seat(c)] = c]
        /\ entries' = entries \union {"slots", "gauges"} /\ seated' = seated + 1
        /\ UNCHANGED <<registered, lifecycle, driving, live, known, perIp, spectating>>
    BY DEF Claim, match, events, gauges
  <1>4. ~handler[c].slot
    BY <1>1 DEF ClaimInv, SlotsOnce
  <1>5. GaugesExact'
    BY <1>1, <1>2, <1>3, <1>4, TakesKeepsGauges DEF ClaimInv
  <1>6. SlotsOnce'
    BY <1>1 DEF ClaimInv, SlotsOnce, Takes, At
  <1>7. NothingRevived' /\ GoneIsEmpty' /\ EndedMatchHoldsNothing'
    BY <1>2, <1>3 DEF NothingRevived, GoneIsEmpty, EndedMatchHoldsNothing, Ended
  <1>8. OneDriver'
    <2>1. \A d \in Conns :
            /\ handler'[d].at = "driving" <=> handler[d].at = "driving"
            /\ handler'[d].at = "ending" <=> handler[d].at = "ending"
      BY <1>1 DEF Takes
    <2> QED BY <1>2, <1>3, <2>1 DEF ClaimInv, OneDriver, At, Drives
  <1>9. TokensFollowSeats'
    <2>1. ASSUME NEW s \in Seats
          PROVE  /\ slots'[s] # NoConn => "slots" \in entries' /\ Belongs(s, slots[s])'
                 /\ live'[s] # NoConn => "conns" \in entries' /\ Belongs(s, live[s])'
      <3>1. CASE s = Seat(c)
        <4>1. live[s] = NoConn
          BY <1>2 DEF ClaimInv, TokensFollowSeats
        <4>2. slots'[s] = c /\ tokens'[s] = c /\ c # NoConn
          BY <1>1, <1>3, <3>1 DEF TypeOK, ClaimAssumption
        <4> QED BY <1>3, <4>1, <4>2 DEF Belongs
      <3>2. CASE s # Seat(c)
        <4>1. slots'[s] = slots[s] /\ tokens'[s] = tokens[s] /\ live'[s] = live[s]
          BY <1>3, <3>2 DEF TypeOK
        <4> QED BY <1>3, <4>1 DEF ClaimInv, TokensFollowSeats, Belongs
      <3> QED BY <3>1, <3>2
    <2>2. \A q \in Clients : \A k \in known'[q] : ClientOf[k] = q
      BY <1>3 DEF ClaimInv, TokensFollowSeats
    <2>3. ASSUME NEW d \in Conns, handler'[d].at \in Playing PROVE Plays(d)'
      BY <1>1, <2>3 DEF Takes, ClaimInv, TokensFollowSeats, Playing, Plays
    <2>4. ASSUME NEW d \in Conns, handler'[d].at \in {"welcoming", "waiting"}, Seat(d)' = 1
          PROVE  slots'[1] = d /\ "conns" \notin entries'
      <3>0. 1 \in Seats
        BY DEF Seats
      <3>1. Seat(d) = 1
        BY <1>1, <2>4 DEF Takes, Seat
      <3>2. CASE d = c
        BY <1>2, <1>3, <3>0, <3>1, <3>2 DEF TypeOK
      <3>3. CASE d # c
        <4>1. handler[d].at \in {"welcoming", "waiting"}
          BY <1>1, <2>4, <3>3 DEF Takes
        <4>2. slots[1] = d
          BY <1>2, <3>1, <4>1 DEF ClaimInv, TokensFollowSeats
        <4>3. Seat(c) # 1
          BY <1>2, <4>2 DEF ClaimAssumption
        <4> QED BY <1>2, <1>3, <3>0, <4>2, <4>3 DEF TypeOK
      <3> QED BY <3>2, <3>3
    <2> QED BY <2>1, <2>2, <2>3, <2>4 DEF TokensFollowSeats
  <1> QED BY <1>5, <1>6, <1>7, <1>8, <1>9 DEF ClaimInv

\* A seat that is resumed.
LEMMA ResumeKeepsIt ==
  ASSUME TypeOK, ClaimInv, NEW c \in Conns, Resume(c) PROVE ClaimInv'
  <1>1. Goes(c, "swapping") /\ Plays(c) /\ Seat(c) \in Seats
    BY ResumeGoes, SeatOfPlayer DEF Resume, Resumes
  <1>2. registered /\ lifecycle # "over" /\ "conns" \in entries
    BY DEF Resume, MayResume, StillRegistered, MatchClosed
  <1>3. /\ tokens' = [tokens EXCEPT ![Seat(c)] = c] /\ live' = [live EXCEPT ![Seat(c)] = c]
        /\ slots' = IF "slots" \in entries THEN [slots EXCEPT ![Seat(c)] = c] ELSE slots
        /\ Tells(c)
        /\ UNCHANGED <<registered, lifecycle, driving, entries>> /\ UNCHANGED gauges
    BY DEF Resume, match
  <1>4. GaugesExact'
    BY <1>1, <1>3, GoesKeepsGauges DEF ClaimInv
  <1>5. SlotsOnce'
    BY <1>1 DEF ClaimInv, SlotsOnce, Goes, At
  <1>6. NothingRevived' /\ GoneIsEmpty' /\ EndedMatchHoldsNothing'
    BY <1>2, <1>3 DEF NothingRevived, GoneIsEmpty, EndedMatchHoldsNothing, Ended
  <1>7. OneDriver'
    <2>1. \A d \in Conns :
            /\ handler'[d].at = "driving" <=> handler[d].at = "driving"
            /\ handler'[d].at = "ending" <=> handler[d].at = "ending"
      <3>1. handler[c].at = "hello"
        BY DEF Resume, Resumes, At
      <3> QED BY <1>1, <3>1 DEF Goes
    <2>2. \A s \in Seats : live'[s] # NoConn
      BY <1>2, <1>3 DEF ClaimInv, OneDriver, TypeOK, ClaimAssumption
    <2> QED BY <1>3, <2>1, <2>2 DEF ClaimInv, OneDriver, At, Drives
  <1>8. TokensFollowSeats'
    <2>1. ASSUME NEW s \in Seats
          PROVE  /\ slots'[s] # NoConn => "slots" \in entries' /\ Belongs(s, slots[s])'
                 /\ live'[s] # NoConn => "conns" \in entries' /\ Belongs(s, live[s])'
      <3>1. CASE s = Seat(c)
        <4>1. /\ live'[s] = c /\ tokens'[s] = c /\ c # NoConn
              /\ slots'[s] = IF "slots" \in entries THEN c ELSE slots[s]
          BY <1>1, <1>3, <3>1 DEF TypeOK, ClaimAssumption
        <4>2. "slots" \notin entries => slots[s] = NoConn
          BY DEF ClaimInv, TokensFollowSeats
        <4> QED BY <1>2, <1>3, <4>1, <4>2 DEF Belongs
      <3>2. CASE s # Seat(c)
        <4>1. slots'[s] = slots[s] /\ tokens'[s] = tokens[s] /\ live'[s] = live[s]
          BY <1>3, <3>2 DEF TypeOK
        <4> QED BY <1>3, <4>1 DEF ClaimInv, TokensFollowSeats, Belongs
      <3> QED BY <3>1, <3>2
    <2>2. \A q \in Clients : \A k \in known'[q] : ClientOf[k] = q
      BY <1>3 DEF Tells, ClaimInv, TokensFollowSeats, TypeOK
    <2>3. ASSUME NEW d \in Conns, handler'[d].at \in Playing PROVE Plays(d)'
      BY <1>1, <2>3 DEF Goes, ClaimInv, TokensFollowSeats, Playing, Plays
    <2>4. ASSUME NEW d \in Conns, handler'[d].at \in {"welcoming", "waiting"}, Seat(d)' = 1
          PROVE  FALSE
      <3>1. handler[d].at \in {"welcoming", "waiting"} /\ Seat(d) = 1
        BY <1>1, <2>4 DEF Goes, Seat
      <3> QED BY <1>2, <3>1 DEF ClaimInv, TokensFollowSeats
    <2> QED BY <2>1, <2>2, <2>3, <2>4 DEF TokensFollowSeats
  <1> QED BY <1>4, <1>5, <1>6, <1>7, <1>8 DEF ClaimInv

\* The driver's activity ends while it still holds the match's seats.
LEMMA DriverStopKeepsIt ==
  ASSUME TypeOK, ClaimInv, NEW c \in Conns, DriverStops(c) PROVE ClaimInv'
  <1>1. Goes(c, "ending") /\ handler[c].at = "driving" /\ lifecycle = "over"
    BY DriverGoes DEF DriverStops, At
  <1>2. /\ driving' = FALSE
        /\ UNCHANGED <<registered, lifecycle, entries, slots, live, tokens, known, parked, done>>
        /\ UNCHANGED gauges
    BY DEF DriverStops, events
  <1>3. /\ \A d \in Conns : Drives(d)' = Drives(d)
        /\ \A d \in Conns : handler'[d].at = "ending" => d = c
        /\ \A d \in Conns : handler'[d].at # "driving"
    BY <1>1 DEF Goes, Drives, ClaimInv, OneDriver
  <1>4. GaugesExact'
    BY <1>1, <1>2, GoesKeepsGauges DEF ClaimInv
  <1>5. SlotsOnce'
    BY <1>1 DEF ClaimInv, SlotsOnce, Goes, At
  <1>6. NothingRevived' /\ GoneIsEmpty' /\ EndedMatchHoldsNothing'
    BY <1>2, <1>3 DEF ClaimInv, NothingRevived, GoneIsEmpty, EndedMatchHoldsNothing, Ended
  <1>7. OneDriver'
    BY <1>1, <1>2, <1>3 DEF ClaimInv, OneDriver, At
  <1>8. TokensFollowSeats'
    <2>1. \A s \in Seats :
            /\ slots'[s] # NoConn => "slots" \in entries' /\ Belongs(s, slots[s])'
            /\ live'[s] # NoConn => "conns" \in entries' /\ Belongs(s, live[s])'
      BY <1>2 DEF ClaimInv, TokensFollowSeats, Belongs
    <2>2. ASSUME NEW d \in Conns, handler'[d].at \in Playing PROVE Plays(d)'
      BY <1>1, <2>2 DEF Goes, ClaimInv, TokensFollowSeats, Playing, Plays
    <2>3. ASSUME NEW d \in Conns, handler'[d].at \in {"welcoming", "waiting"}, Seat(d)' = 1,
                 registered'
          PROVE  slots'[1] = d /\ "conns" \notin entries'
      BY <1>1, <1>2, <2>3 DEF Goes, Seat, ClaimInv, TokensFollowSeats
    <2> QED BY <1>2, <2>1, <2>2, <2>3 DEF ClaimInv, TokensFollowSeats
  <1> QED BY <1>4, <1>5, <1>6, <1>7, <1>8 DEF ClaimInv

\* Its return empties the match, evicted meanwhile or not.
LEMMA DriverReturnKeepsIt ==
  ASSUME TypeOK, ClaimInv, NEW c \in Conns, DriverReturns(c) PROVE ClaimInv'
  <1>1. Goes(c, "closing") /\ handler[c].at = "ending"
    BY MovesGoes DEF DriverReturns, At
  <1>2. /\ entries' = entries \ {"conns", "parked"} /\ parked' = {} /\ done'
        /\ \A s \in Seats : tokens'[s] = NoConn /\ slots'[s] = NoConn /\ live'[s] = NoConn
        /\ UNCHANGED <<registered, lifecycle, driving, known>> /\ UNCHANGED gauges
    BY DEF DriverReturns, TokensAtEnd, EntriesAtEnd
  <1>3. GaugesExact'
    BY <1>1, <1>2, GoesKeepsGauges DEF ClaimInv
  <1>4. SlotsOnce'
    BY <1>1 DEF ClaimInv, SlotsOnce, Goes, At
  <1>5. NothingRevived' /\ GoneIsEmpty' /\ EndedMatchHoldsNothing'
    BY <1>2 DEF ClaimInv, NothingRevived, GoneIsEmpty, EndedMatchHoldsNothing
  <1>6. OneDriver'
    <2>1. \A d \in Conns : handler'[d].at \notin {"driving", "ending"}
      BY <1>1 DEF Goes, ClaimInv, OneDriver, Drives
    <2>2. ~driving
      BY <1>1 DEF ClaimInv, OneDriver, At
    <2> QED BY <1>2, <2>1, <2>2 DEF OneDriver, At, Drives
  <1>7. TokensFollowSeats'
    <2>1. ASSUME NEW d \in Conns, handler'[d].at \in Playing PROVE Plays(d)'
      BY <1>1, <2>1 DEF Goes, ClaimInv, TokensFollowSeats, Playing, Plays
    <2>2. ASSUME NEW d \in Conns, handler'[d].at \in {"welcoming", "waiting"}, Seat(d)' = 1,
                 registered'
          PROVE  FALSE
      <3>1. handler[d].at \in {"welcoming", "waiting"} /\ Seat(d) = 1 /\ registered
        BY <1>1, <1>2, <2>2 DEF Goes, Seat
      <3>2. "conns" \in entries
        BY <1>1, <3>1 DEF ClaimInv, OneDriver, Drives
      <3> QED BY <3>1, <3>2 DEF ClaimInv, TokensFollowSeats
    <2> QED BY <1>2, <2>1, <2>2 DEF ClaimInv, TokensFollowSeats
  <1> QED BY <1>3, <1>4, <1>5, <1>6, <1>7 DEF ClaimInv

\* The end of the session, and the eviction of the match.
LEMMA EndOrEvictKeepsIt ==
  ASSUME TypeOK, ClaimInv, MatchEnds \/ Evict PROVE TypeOK' /\ ClaimInv'
  <1>1. UNCHANGED <<handler, perIp, driving, tokens, known>>
    BY DEF MatchEnds, Evict, match, gauges
  <1>2. TypeOK'
    <2>1. doomed' \subseteq Conns
      BY DEF MatchEnds, Evict, Waiters, TypeOK
    <2>0. handler' \in [Conns -> HandlerType]
      BY <1>1 DEF TypeOK, HandlerType
    <2>2. CASE MatchEnds
      BY <2>0, <2>2 DEF MatchEnds, TypeOK, HandlerType
    <2>3. CASE Evict
      <3>1. /\ slots' \in [Seats -> Conns \union {NoConn}]
            /\ live' \in [Seats -> Conns \union {NoConn}]
        BY <2>3 DEF Evict
      <3>2. seated' \in 0 .. SeatCap /\ spectating' \in 0 .. SpectatorCap
        BY <2>3 DEF Evict, ClaimAssumption
      <3>3. /\ registered' \in BOOLEAN /\ done' \in BOOLEAN /\ entries' \subseteq Dicts
            /\ watchers' \subseteq Conns /\ parked' \subseteq Conns
            /\ UNCHANGED <<lifecycle, driving, ready, superseded, tokens, known, perIp>>
        BY <2>3 DEF Evict, TypeOK
      <3> QED BY <2>0, <2>1, <3>1, <3>2, <3>3 DEF TypeOK, HandlerType
    <2> QED BY <2>2, <2>3
  <1>3. SlotsOnce'
    BY <1>1 DEF ClaimInv, SlotsOnce, At
  <1>4. CASE MatchEnds
    <2>1. UNCHANGED <<registered, slots, live, entries, parked>> /\ UNCHANGED gauges /\ driving
      BY <1>4 DEF MatchEnds
    <2>2. GaugesExact'
      BY <1>1, <2>1 DEF ClaimInv, GaugesExact, Plays, Spectates
    <2>3. NothingRevived' /\ GoneIsEmpty' /\ EndedMatchHoldsNothing'
      BY <1>1, <2>1 DEF ClaimInv, NothingRevived, GoneIsEmpty, EndedMatchHoldsNothing,
                        Ended, OneDriver, At, Drives
    <2>4. \A d \in Conns : Seat(d)' = Seat(d) /\ Plays(d)' = Plays(d)
      BY <1>1 DEF Seat, Plays
    <2>5. OneDriver'
      BY <1>1, <2>1 DEF ClaimInv, OneDriver, At, Drives, MatchEnds
    <2>6. TokensFollowSeats'
      <3>1. \A s \in Seats :
              /\ slots'[s] # NoConn => "slots" \in entries' /\ Belongs(s, slots[s])'
              /\ live'[s] # NoConn => "conns" \in entries' /\ Belongs(s, live[s])'
        BY <1>1, <2>1 DEF ClaimInv, TokensFollowSeats, Belongs
      <3>2. \A q \in Clients : \A k \in known'[q] : ClientOf[k] = q
        BY <1>1 DEF ClaimInv, TokensFollowSeats
      <3>3. \A d \in Conns :
              /\ handler'[d].at \in Playing => Plays(d)'
              /\ handler'[d].at \in {"welcoming", "waiting"} /\ Seat(d)' = 1 /\ registered' =>
                   slots'[1] = d /\ "conns" \notin entries'
        BY <1>1, <2>1, <2>4 DEF ClaimInv, TokensFollowSeats
      <3> QED BY <3>1, <3>2, <3>3 DEF TokensFollowSeats
    <2> QED BY <1>2, <1>3, <2>2, <2>3, <2>5, <2>6 DEF ClaimInv
  <1>5. CASE Evict
    <2>1. /\ registered' = FALSE /\ ~driving /\ entries' = {} /\ parked' = {}
          /\ \A s \in Seats : slots'[s] = NoConn /\ live'[s] = NoConn
          /\ registered /\ UNCHANGED lifecycle /\ (done => done')
      BY <1>5 DEF Evict
    <2>2. GaugesExact'
      BY <1>1, <2>1 DEF ClaimInv, GaugesExact
    <2>3. NothingRevived' /\ GoneIsEmpty' /\ EndedMatchHoldsNothing'
      BY <1>1, <2>1 DEF ClaimInv, NothingRevived, GoneIsEmpty, EndedMatchHoldsNothing,
                        Ended, OneDriver, At, Drives
    <2>4. \A d \in Conns : Seat(d)' = Seat(d) /\ Plays(d)' = Plays(d)
      BY <1>1 DEF Seat, Plays
    <2>5. OneDriver'
      BY <1>1, <2>1 DEF ClaimInv, OneDriver, At, Drives, MatchEnds
    <2>6. TokensFollowSeats'
      <3>1. \A s \in Seats :
              /\ slots'[s] # NoConn => "slots" \in entries' /\ Belongs(s, slots[s])'
              /\ live'[s] # NoConn => "conns" \in entries' /\ Belongs(s, live[s])'
        BY <1>1, <2>1 DEF ClaimInv, TokensFollowSeats, Belongs
      <3>2. \A q \in Clients : \A k \in known'[q] : ClientOf[k] = q
        BY <1>1 DEF ClaimInv, TokensFollowSeats
      <3>3. \A d \in Conns :
              /\ handler'[d].at \in Playing => Plays(d)'
              /\ handler'[d].at \in {"welcoming", "waiting"} /\ Seat(d)' = 1 /\ registered' =>
                   slots'[1] = d /\ "conns" \notin entries'
        BY <1>1, <2>1, <2>4 DEF ClaimInv, TokensFollowSeats
      <3> QED BY <3>1, <3>2, <3>3 DEF TokensFollowSeats
    <2> QED BY <1>2, <1>3, <2>2, <2>3, <2>5, <2>6 DEF ClaimInv
  <1> QED BY <1>2, <1>4, <1>5

-----------------------------------------------------------------------------
(* The theorems. *)

\* At the start nobody is connected.
LEMMA ClaimStarts == Init => TypeOK /\ ClaimInv
  <1> SUFFICES ASSUME Init PROVE TypeOK /\ ClaimInv
    OBVIOUS
  <1>1. TypeOK
    <2>1. Idle \in HandlerType
      BY DEF Idle, HandlerType, Places
    <2>2. handler \in [Conns -> HandlerType]
      BY <2>1 DEF Init
    <2>3. /\ slots \in [Seats -> Conns \union {NoConn}]
          /\ live \in [Seats -> Conns \union {NoConn}]
          /\ tokens \in [Seats -> Conns \union {NoConn}]
          /\ known \in [Clients -> SUBSET Conns]
      BY DEF Init
    <2>4. seated \in 0 .. SeatCap /\ spectating \in 0 .. SpectatorCap /\ perIp \in 0 .. PerIp
      BY DEF Init, ClaimAssumption
    <2>5. /\ registered \in BOOLEAN /\ driving \in BOOLEAN /\ entries \subseteq Dicts
          /\ lifecycle \in {"created", "running", "over"}
          /\ watchers \subseteq Conns /\ parked \subseteq Conns
          /\ superseded \subseteq Conns /\ doomed \subseteq Conns
          /\ ready \in BOOLEAN /\ done \in BOOLEAN
      BY DEF Init
    <2> QED BY <2>2, <2>3, <2>4, <2>5 DEF TypeOK, HandlerType
  <1>2. \A c \in Conns : handler[c] = Idle
    BY DEF Init
  <1>3. SlotsOnce /\ OneDriver /\ TokensFollowSeats
    BY <1>2 DEF Init, SlotsOnce, OneDriver, TokensFollowSeats, At, Drives, Idle, Playing
  <1>4. GaugesExact
    <2>1. \A c \in Conns : ~handler[c].ip /\ ~handler[c].slot
      BY <1>2 DEF Idle
    <2>2. WithIp = {} /\ WithSeat = {} /\ WithView = {}
      BY <2>1 DEF WithIp, WithSeat, WithView
    <2> QED BY <2>2, FS_EmptySet DEF Init, GaugesExact, WithIp, WithSeat, WithView
  <1> QED BY <1>1, <1>3, <1>4
       DEF Init, ClaimInv, NothingRevived, GoneIsEmpty, EndedMatchHoldsNothing, Ended

\* No step of a handler, a client, the driver or an eviction breaks it.
LEMMA ClaimStep == TypeOK /\ ClaimInv /\ [Next]_vars => TypeOK' /\ ClaimInv'
  <1> SUFFICES ASSUME TypeOK, ClaimInv, [Next]_vars PROVE TypeOK' /\ ClaimInv'
    OBVIOUS
  <1>1. CASE UNCHANGED vars
    <2>1. TypeOK'
      BY <1>1 DEF vars, TypeOK
    <2>2. WithIp' = WithIp /\ WithSeat' = WithSeat /\ WithView' = WithView
      BY <1>1 DEF vars, WithIp, WithSeat, WithView, Plays, Spectates
    <2>3. GaugesExact'
      BY <1>1, <2>2 DEF vars, ClaimInv, GaugesExact, WithIp, WithSeat, WithView
    <2>4. SlotsOnce' /\ OneDriver' /\ TokensFollowSeats'
      BY <1>1 DEF vars, ClaimInv, SlotsOnce, OneDriver, TokensFollowSeats, Belongs, At, Drives, Plays, Seat
    <2>5. NothingRevived' /\ GoneIsEmpty' /\ EndedMatchHoldsNothing'
      BY <1>1 DEF vars, ClaimInv, NothingRevived, GoneIsEmpty, EndedMatchHoldsNothing, Ended, Drives
    <2> QED BY <2>1, <2>3, <2>4, <2>5 DEF ClaimInv
  <1>2. CASE MatchEnds \/ Evict
    BY <1>2, EndOrEvictKeepsIt
  <1>3. ASSUME NEW c \in Conns, Runs(c) \/ Asked(c) PROVE TypeOK' /\ ClaimInv'
    <2>1. TypeOK'
      BY <1>3, RunsTyped, AskedTyped DEF ClaimInv
    <2>2. \/ HelloFails(c) \/ ClaimRefused(c) \/ ResumeRefused(c) \/ AttachRefused(c)
          \/ ResumedReturns(c) \/ WelcomeTooLate(c)
          \/ WelcomeFails(c) \/ LeavesQueue(c) \/ SeatedReturns(c) \/ WatcherLeaves(c)
          \/ Drop(c) \/ CloseDoomed(c) \/ Swapped(c) \/ Connect(c) \/ Return(c)
          \/ SeatTaken(c) \/ Attach(c) \/ WelcomeSent(c) \/ OpponentArrives(c)
          \/ Claim(c) \/ Resume(c) \/ ResumeFails(c) \/ DriverStops(c) \/ DriverReturns(c)
      BY <1>3 DEF Runs, Asked
    <2> QED BY <2>1, <2>2, LeavesCalmly, StaysCalmly, OpensOrReturns, TakesASlot,
            EntersKeepsIt, ClaimKeepsIt, ResumeKeepsIt, DriverStopKeepsIt,
            DriverReturnKeepsIt
  <1> QED BY <1>1, <1>2, <1>3 DEF Next

\* The seats, the tokens, the gauges and the dicts always agree as ClaimInv says.
THEOREM ClaimIsInvariant == Spec => [](TypeOK /\ ClaimInv)
  <1> QED BY ClaimStarts, ClaimStep, PTL DEF Spec

\* No handler that outlives an eviction brings a dict of its match back, for any
\* number of connections in any of the handlers' awaits.
THEOREM EvictedStaysGone == Spec => []NothingRevived
  <1>1. TypeOK /\ ClaimInv => NothingRevived
    BY DEF ClaimInv
  <1> QED BY <1>1, ClaimIsInvariant, PTL

\* The gauges of the limiter count exactly the handlers that hold a slot.
THEOREM GaugesCount == Spec => []GaugesExact
  <1>1. TypeOK /\ ClaimInv => GaugesExact
    BY DEF ClaimInv
  <1> QED BY <1>1, ClaimIsInvariant, PTL

\* However evictions fall, a match whose driver has returned, and whose handler has
\* cleared it, holds no token, seat, connection or parked spectator.
THEOREM EndedIsEmpty == Spec => []EndedMatchHoldsNothing
  <1>1. TypeOK /\ ClaimInv => EndedMatchHoldsNothing
    BY DEF ClaimInv
  <1> QED BY <1>1, ClaimIsInvariant, PTL

\* A token follows its seat and a client knows only its own, so no resume gives a
\* seat that is being played to another client.
THEOREM SeatsAreKept == Spec => SeatKeepsItsClient
  <1> DEFINE Keeps == \A s \in Seats : live[s] # NoConn /\ live'[s] # NoConn =>
                        ClientOf[live'[s]] = ClientOf[live[s]]
  <1>1. TypeOK /\ ClaimInv /\ [Next]_vars => [Keeps]_vars
    <2> SUFFICES ASSUME TypeOK, ClaimInv, Next, NEW s \in Seats,
                        live[s] # NoConn, live'[s] # NoConn
                 PROVE  ClientOf[live'[s]] = ClientOf[live[s]]
      OBVIOUS
    <2>1. CASE live' = live
      BY <2>1
    <2>2. CASE \E c \in Conns : Resume(c)
      <3>1. PICK c \in Conns : Resume(c)
        BY <2>2
      <3>2. live' = [live EXCEPT ![Seat(c)] = c]
        BY <3>1 DEF Resume
      <3>3. PICK token \in known[ClientOf[c]] : tokens[Seat(c)] = token
        BY <3>1 DEF Resume, MayResume
      <3>4. CASE s = Seat(c)
        <4>1. ClientOf[live[s]] = ClientOf[token]
          BY <3>3, <3>4 DEF ClaimInv, TokensFollowSeats, Belongs
        <4>2. ClientOf[c] \in Clients
          BY DEF ClaimAssumption
        <4>3. ClientOf[token] = ClientOf[c]
          BY <3>3, <4>2 DEF ClaimInv, TokensFollowSeats
        <4> QED BY <3>2, <3>4, <4>1, <4>3 DEF TypeOK
      <3>5. CASE s # Seat(c)
        BY <3>2, <3>5 DEF TypeOK
      <3> QED BY <3>4, <3>5
    <2>3. CASE \E c \in Conns : StartsMatch(c) /\ (WelcomeSent(c) \/ OpponentArrives(c))
      <3>1. PICK c \in Conns : StartsMatch(c) /\ (WelcomeSent(c) \/ OpponentArrives(c))
        BY <2>3
      <3>2. live' = slots
        BY <3>1 DEF StartsMatch
      <3> QED BY <3>2 DEF ClaimInv, TokensFollowSeats, Belongs
    <2>4. CASE \/ Evict \/ \E c \in Conns : DriverReturns(c)
      <3>1. live' = [r \in Seats |-> NoConn]
        BY <2>4 DEF Evict, DriverReturns
      <3> QED BY <3>1
    <2>5. live' = live \/ (\E c \in Conns : Resume(c))
            \/ (\E c \in Conns : StartsMatch(c) /\ (WelcomeSent(c) \/ OpponentArrives(c)))
            \/ Evict \/ \E c \in Conns : DriverReturns(c)
      BY DEF Next, Runs, Asked, WelcomeSent, WelcomeTooLate, OpponentArrives, EntersMatch,
             JoinsMatch, LeavesQueue, SeatedReturns, Swapped, ResumedReturns, Return,
             CloseDoomed, WatcherLeaves, Connect, Drop, HelloFails, WelcomeFails,
             ClaimRefused, SeatTaken, Claim, ResumeRefused, ResumeFails, DriverStops, AttachRefused, Attach, MatchEnds
    <2> QED BY <2>1, <2>2, <2>3, <2>4, <2>5
  <1> QED BY <1>1, ClaimIsInvariant, PTL DEF Spec, SeatKeepsItsClient

=============================================================================
