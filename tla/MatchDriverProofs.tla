------------------------- MODULE MatchDriverProofs -------------------------
(***************************************************************************)
(* Proofs about MatchDriver, for every number of connections, retry        *)
(* budget, turn cap, kind of round and number of faults.                   *)
(***************************************************************************)
EXTENDS MatchDriver, FiniteSetTheorems, TLAPS

-----------------------------------------------------------------------------
(* The type invariant. *)

USE DriverAssumption DEF session, ids, driverVars, endVars, loopVars, connVars, sentVars

\* The placeholder of a loop that holds no action has the type of a held frame.
LEMMA NoFrameTyped == NoFrame \in [id : TurnIds \cup {Fresh}, legal : BOOLEAN]
  BY Zenon DEF NoFrame

\* The state in which run_match is called is well typed.
LEMMA InitTyped == ASSUME Init PROVE TypeOK
  <1>1. SessionOK
    BY DEF Init, SessionOK
  <1>2. DriverOK
    <2>1. faults \in 0 .. MaxFaults
      BY DEF DriverAssumption, Init
    <2>2. crashed \in BOOLEAN /\ terminalSent \in BOOLEAN
      BY Zenon DEF Init
    <2>3. round \subseteq Seats
      BY Zenon DEF Init
    <2> QED BY <2>1, <2>2, <2>3 DEF Init, DriverOK
  <1>3. LoopOK
    <2>1. 1 \in Conns
      BY DEF DriverAssumption, Conns
    <2> QED BY <2>1, NoFrameTyped DEF DriverAssumption, Init, LoopOK, None
  <1>4. ConnOK
    <2>1. 1 \in Conns
      BY DEF DriverAssumption, Conns
    <2> QED BY <2>1 DEF Init, ConnOK, None
  <1> QED BY <1>1, <1>2, <1>3, <1>4 DEF TypeOK

\* The steps of the driver itself keep the types.
LEMMA DriverTyped ==
  ASSUME TypeOK, DriverStep PROVE TypeOK'
  <1> USE DEF TypeOK
  <1>1. CASE Start
    <2>1. SessionOK'
      BY <1>1 DEF DriverAssumption, SessionOK, Start
    <2> QED BY <1>1, <2>1 DEF DriverOK, LoopOK, ConnOK, Start
  <1>2. CASE Commit
    <2>1. SessionOK'
      BY <1>2 DEF DriverAssumption, SessionOK, Commit
    <2>2. LoopOK'
      BY <1>2 DEF LoopOK, Commit, LoopsStop, NoFrame
    <2> QED BY <1>2, <2>1, <2>2 DEF DriverOK, ConnOK, Commit
  <1>3. CASE TurnCapReached
    BY <1>3 DEF SessionOK, DriverOK, LoopOK, ConnOK, TurnCapReached
  <1>4. CASE RoundBreaks
    <2>2. LoopOK'
      BY <1>4 DEF LoopOK, RoundBreaks, LoopsStop, NoFrame
    <2> QED BY <1>4, <2>2 DEF SessionOK, DriverOK, ConnOK, RoundBreaks
  <1>5. CASE FinishMatch
    BY <1>5 DEF SessionOK, DriverOK, LoopOK, ConnOK, FinishMatch
  <1>6. CASE EndingFails
    BY <1>6 DEF SessionOK, DriverOK, LoopOK, ConnOK, EndingFails
  <1>7. CASE HandleCrash
    BY <1>7 DEF SessionOK, DriverOK, LoopOK, ConnOK, HandleCrash, AfterCrash
  <1>8. CASE Exit
    BY <1>8 DEF SessionOK, DriverOK, LoopOK, ConnOK, Exit, None
  <1>9. CASE \E S \in Rounds : BeginRound(S, {})
    <2> PICK S \in Rounds : BeginRound(S, {})
      BY <1>9
    <2>1. S \subseteq Seats
      BY DEF BeginRound
    <2>2. SessionOK' /\ ConnOK'
      BY DEF SessionOK, ConnOK, BeginRound
    <2>3. faults' = faults
      BY FS_EmptySet DEF BeginRound, DriverOK
    <2>4. DriverOK'
      BY <2>1, <2>3 DEF DriverOK, BeginRound
    <2>5. LoopOK'
      BY NoFrameTyped DEF LoopOK, ConnOK, BeginRound, None
    <2> QED BY <2>2, <2>4, <2>5
  <1> QED BY <1>1, <1>2, <1>3, <1>4, <1>5, <1>6, <1>7, <1>8, <1>9 DEF DriverStep

\* Stopping or restarting a read keeps the types of what it touches.
EndTyped(e, r) ==
  /\ e \in {"no", "requested", "persist", "close0", "close1", "done", "failed"}
  /\ r \in {"none", "start_failed", "deadline", "seat_lost", "budget",
            "joint_refused", "turn_cap", "server_error"}

LoopDlTyped ==
  /\ loop' \in [Seats -> {"off", "receive", "held", "grace", "resuming",
                          "accepted", "aborting", "ended", "raised"}]
  /\ dl' \in [Seats -> {"off", "on", "fired"}]
  /\ EndTyped(ending', reason')

\* Asking for the abort task keeps the types of the loop, its deadline and the end.
LEMMA RequestAbortTyped ==
  ASSUME TypeOK, NEW s \in Seats, NEW why \in {"deadline", "seat_lost", "budget"},
         RequestAbort(s, why)
  PROVE  LoopDlTyped
  BY DEF TypeOK, SessionOK, DriverOK, LoopOK, RequestAbort, LoopDlTyped, EndTyped

\* So does a loop that sees the match over,
LEMMA LoopEndsTyped ==
  ASSUME TypeOK, NEW s \in Seats, LoopEnds(s) PROVE LoopDlTyped
  BY DEF TypeOK, SessionOK, DriverOK, LoopOK, LoopEnds, LoopDlTyped, EndTyped

\* one that goes back to its read, or finds its deadline fired there,
LEMMA NextReadTyped ==
  ASSUME TypeOK, NEW s \in Seats, NextRead(s) PROVE LoopDlTyped
  <1>1. CASE dl[s] = "fired"
    BY <1>1, RequestAbortTyped, LoopEndsTyped DEF NextRead, Expire
  <1>2. CASE dl[s] # "fired"
    BY <1>2 DEF TypeOK, SessionOK, DriverOK, LoopOK, NextRead, LoopDlTyped, EndTyped
  <1> QED BY <1>1, <1>2

\* one whose wait for a resume is over, which may install another connection,
LEMMA AfterGraceTyped ==
  ASSUME TypeOK, NEW s \in Seats, AfterGrace(s)
  PROVE  /\ LoopDlTyped
         /\ cur' \in [Seats -> Conns] /\ sup' \in [Seats -> SUBSET Conns]
         /\ act' \in [Seats -> Conns] /\ perr' \in [Seats -> 0 .. MaxProtocolErrors]
  <1> DEFINE next == IF cur[s] # act[s] THEN cur[s] ELSE rc[s]
  <1>1. CASE dl[s] = "fired" \/ ~Reconnected(s) \/ next = None
    BY <1>1, RequestAbortTyped DEF AfterGrace, TypeOK, LoopOK, ConnOK
  <1>2. CASE ~(dl[s] = "fired" \/ ~Reconnected(s) \/ next = None)
    <2>1. Install(s, next)
      BY <1>2 DEF AfterGrace
    <2>2. next \in Conns
      BY <1>2 DEF TypeOK, ConnOK, LoopOK
    <2> HIDE DEF next
    <2>3. LoopDlTyped
      BY <2>1 DEF Install, TypeOK, SessionOK, DriverOK, LoopOK, LoopDlTyped, EndTyped
    <2> QED BY <2>1, <2>2, <2>3 DEF Install, TypeOK, ConnOK, LoopOK, DriverAssumption
  <1> QED BY <1>1, <1>2

\* and one that has just lost its connection.
LEMMA LostTyped ==
  ASSUME TypeOK, NEW s \in Seats, Lost(s)
  PROVE  /\ LoopDlTyped
         /\ cur' \in [Seats -> Conns] /\ sup' \in [Seats -> SUBSET Conns]
         /\ act' \in [Seats -> Conns] /\ perr' \in [Seats -> 0 .. MaxProtocolErrors]
         /\ ev' \in [Seats -> BOOLEAN]
  <1>1. CASE cur[s] = act[s]
    <2>1. LoopDlTyped
      BY <1>1 DEF Lost, TypeOK, SessionOK, DriverOK, LoopOK, LoopDlTyped, EndTyped
    <2>2. ev' \in [Seats -> BOOLEAN]
      BY <1>1 DEF Lost, TypeOK, ConnOK
    <2> QED BY <1>1, <2>1, <2>2 DEF Lost, TypeOK, ConnOK, LoopOK
  <1>2. CASE cur[s] # act[s]
    BY <1>2, AfterGraceTyped DEF Lost, TypeOK, ConnOK
  <1> QED BY <1>1, <1>2

USE DEF LoopDlTyped, EndTyped

\* What a seat's loop does on its own keeps the types.
LEMMA LoopTyped ==
  ASSUME TypeOK, NEW s \in Seats, LoopStep(s) PROVE TypeOK'
  <1> USE DEF TypeOK
  <1>1. CASE DropDuplicate(s)
    BY <1>1, NextReadTyped DEF SessionOK, DriverOK, LoopOK, ConnOK, DropDuplicate
  <1>2. CASE DiscardAction(s)
    BY <1>2, LoopEndsTyped DEF SessionOK, DriverOK, LoopOK, ConnOK, DiscardAction
  <1>3. CASE AcceptAction(s)
    BY <1>3 DEF SessionOK, DriverOK, LoopOK, ConnOK, AcceptAction, None
  <1>4. CASE RejectAction(s)
    <2>1. LoopDlTyped
      BY <1>4, RequestAbortTyped, NextReadTyped DEF RejectAction
    <2>2. retries' \in [Seats -> 0 .. RetryBudget]
      <3>1. CASE retries[s] = 0
        BY <1>4, <3>1 DEF RejectAction, OutOfRetries, LoopOK
      <3>2. CASE retries[s] # 0
        <4>0. retries[s] \in 0 .. RetryBudget /\ RetryBudget \in Nat
          BY DEF LoopOK, DriverAssumption
        <4>1. retries[s] - 1 \in 0 .. RetryBudget
          BY <3>2, <4>0
        <4>2. retries' = [retries EXCEPT ![s] = @ - 1]
          BY <1>4, <3>2 DEF RejectAction, OutOfRetries, SpendRetry
        <4> QED BY <4>1, <4>2 DEF LoopOK
      <3> QED BY <3>1, <3>2
    <2>3. ConnOK'
      BY <1>4 DEF RejectAction, Send, ConnOK
    <2>4. LoopOK'
      <3>1. spent' \in [Seats -> Nat]
        BY <1>4 DEF RejectAction, LoopOK
      <3>2. UNCHANGED <<act, held, perr, hb>>
        BY <1>4 DEF RejectAction
      <3> QED BY <2>1, <2>2, <3>1, <3>2 DEF LoopOK
    <2>5. SessionOK'
      BY <1>4, <2>1 DEF RejectAction, SessionOK
    <2> QED BY <1>4, <2>1, <2>3, <2>4, <2>5 DEF RejectAction, DriverOK
  <1>5. CASE ReadDisconnect(s)
    <2>1. /\ LoopDlTyped
          /\ cur' \in [Seats -> Conns] /\ sup' \in [Seats -> SUBSET Conns]
          /\ act' \in [Seats -> Conns] /\ perr' \in [Seats -> 0 .. MaxProtocolErrors]
          /\ ev' \in [Seats -> BOOLEAN]
      BY <1>5, LoopEndsTyped, LostTyped DEF ReadDisconnect, LoopOK, ConnOK
    <2> QED BY <1>5, <2>1 DEF SessionOK, DriverOK, LoopOK, ConnOK, ReadDisconnect
  <1>6. CASE GraceEnds(s)
    BY <1>6, AfterGraceTyped DEF SessionOK, DriverOK, LoopOK, ConnOK, GraceEnds
  <1>7. CASE ResendRequest(s)
    <2>1. LoopDlTyped
      BY <1>7, LoopEndsTyped, NextReadTyped DEF ResendRequest
    <2>2. ConnOK'
      BY <1>7 DEF ResendRequest, Send, ConnOK
    <2>3. LoopOK'
      BY <1>7, <2>1 DEF ResendRequest, StartHeartbeat, LoopOK
    <2> QED BY <1>7, <2>1, <2>2, <2>3 DEF ResendRequest, SessionOK, DriverOK
  <1>8. CASE ReadExpires(s)
    BY <1>8, RequestAbortTyped, LoopEndsTyped
    DEF SessionOK, DriverOK, LoopOK, ConnOK, ReadExpires, Expire
  <1>9. CASE AborterReturns(s)
    BY <1>9 DEF SessionOK, DriverOK, LoopOK, ConnOK, AborterReturns
  <1> QED BY <1>1, <1>2, <1>3, <1>4, <1>5, <1>6, <1>7, <1>8, <1>9 DEF LoopStep

\* Whatever a client does keeps the types.
LEMMA ClientTyped ==
  ASSUME TypeOK, NEW s \in Seats, ClientStep(s) PROVE TypeOK'
  <1> USE DEF TypeOK
  <1>1. ASSUME NEW id \in TurnIds \cup {Fresh}, NEW legal \in BOOLEAN,
               ReadAction(s, id, legal)
        PROVE  TypeOK'
    <2>1. [id |-> id, legal |-> legal] \in [id : TurnIds \cup {Fresh}, legal : BOOLEAN]
      BY Zenon
    <2>2. LoopOK'
      BY <1>1, <2>1 DEF LoopOK, ReadAction
    <2> QED BY <1>1, <2>2 DEF SessionOK, DriverOK, ConnOK, ReadAction
  <1>2. CASE ReadMalformed(s)
    <2>1. ConnOK' /\ LoopDlTyped /\ act' \in [Seats -> Conns]
          /\ perr' \in [Seats -> 0 .. MaxProtocolErrors]
      <3>1. CASE MatchOver
        BY <1>2, <3>1, LoopEndsTyped DEF ReadMalformed, LoopOK, ConnOK
      <3>2. CASE ~MatchOver /\ perr[s] + 1 < MaxProtocolErrors
        <4>1. perr[s] + 1 \in 0 .. MaxProtocolErrors
          BY <3>2 DEF LoopOK, DriverAssumption
        <4>2. /\ perr' = [perr EXCEPT ![s] = @ + 1] /\ NextRead(s)
              /\ UNCHANGED <<cur, sup, act, ev, open, used, rc, pend>>
              /\ Send(s, act[s], "error")
          BY <1>2, <3>2 DEF ReadMalformed
        <4>3. ConnOK'
          BY <4>2 DEF Send, ConnOK
        <4> QED BY <4>1, <4>2, <4>3, NextReadTyped DEF LoopOK
      <3>3. CASE ~MatchOver /\ ~(perr[s] + 1 < MaxProtocolErrors)
        <4>1. /\ open' = [open EXCEPT ![s] = @ \ {act[s]}] /\ Lost(s)
              /\ UNCHANGED <<used, rc, pend>> /\ Send(s, act[s], "error")
          BY <1>2, <3>3 DEF ReadMalformed
        <4>2. open' \in [Seats -> SUBSET Conns]
          BY <4>1 DEF ConnOK
        <4>3. UNCHANGED told /\ late' \subseteq {"observation", "error", "rejected", "ping"}
          BY <4>1 DEF Send, ConnOK
        <4> QED BY <4>1, <4>2, <4>3, LostTyped DEF ConnOK
      <3> QED BY <3>1, <3>2, <3>3
    <2> QED BY <1>2, <2>1 DEF SessionOK, DriverOK, LoopOK, ReadMalformed
  <1>3. CASE HeartbeatPing(s)
    BY <1>3 DEF SessionOK, DriverOK, LoopOK, ConnOK, HeartbeatPing, Send
  <1>4. CASE HeartbeatTimeout(s)
    BY <1>4 DEF SessionOK, DriverOK, LoopOK, ConnOK, HeartbeatTimeout, None
  <1>5. ASSUME NEW k \in Conns, Drop(s, k) PROVE TypeOK'
    BY <1>5 DEF SessionOK, DriverOK, LoopOK, ConnOK, Drop
  <1>6. CASE Resume(s)
    <2>0. used[s] \in 1 .. MaxConns /\ used[s] < MaxConns
      BY <1>6 DEF Resume, ConnOK, Conns
    <2>a. MaxConns \in Nat
      BY DEF DriverAssumption
    <2>b. used[s] + 1 \in 1 .. MaxConns
      BY <2>0, <2>a
    <2>1. used[s] + 1 \in Conns /\ cur[s] \in Conns
      BY <2>b DEF ConnOK, Conns
    <2>2. ConnOK'
      BY <1>6, <2>1 DEF ConnOK, Resume
    <2> QED BY <1>6, <2>2 DEF SessionOK, DriverOK, LoopOK, Resume
  <1> QED BY <1>1, <1>2, <1>3, <1>4, <1>5, <1>6 DEF ClientStep

\* The end of the match, the faults, the timers and the resume handler.
LEMMA OtherTyped ==
  ASSUME TypeOK,
         EndStep \/ FaultStep \/ \E s \in Seats : DeadlineFires(s) \/ ResumeStep(s)
  PROVE  TypeOK'
  <1> USE DEF TypeOK
  <1>1. CASE AbortSession
    BY <1>1 DEF SessionOK, DriverOK, LoopOK, ConnOK, AbortSession
  <1>2. CASE Publish
    <2>1. told' \in [Seats -> [Conns -> Nat]]
      BY <1>2 DEF Publish, TellSeats, ConnOK
    <2>2. terminalSent' \in BOOLEAN
      BY <1>2 DEF Publish, DriverOK
    <2> QED BY <1>2, <2>1, <2>2 DEF SessionOK, DriverOK, LoopOK, ConnOK, Publish
  <1>3. ASSUME NEW s \in Seats, CloseSeat(s) PROVE TypeOK'
    BY <1>3 DEF SessionOK, DriverOK, LoopOK, ConnOK, CloseSeat
  <1>4. ASSUME NEW S \in Rounds, NEW b \in Seats, BeginRound(S, {b}) PROVE TypeOK'
    <2>1. S \subseteq Seats
      BY DEF DriverAssumption
    <2>2. SessionOK' /\ ConnOK'
      BY <1>4 DEF SessionOK, ConnOK, BeginRound
    <2>3. faults' = faults + 1 /\ faults + 1 <= MaxFaults
      BY <1>4, FS_Singleton DEF BeginRound
    <2>4. DriverOK'
      BY <1>4, <2>1, <2>3 DEF DriverOK, BeginRound, DriverAssumption
    <2>5. LoopOK'
      BY <1>4, NoFrameTyped DEF LoopOK, ConnOK, BeginRound, None, DriverAssumption
    <2> QED BY <2>2, <2>4, <2>5
  <1>5. CASE JointRefused
    <2>1. LoopOK'
      BY <1>5, NoFrameTyped DEF LoopOK, JointRefused, LoopsStop
    <2>2. DriverOK'
      BY <1>5 DEF DriverOK, JointRefused, DriverAssumption
    <2> QED BY <1>5, <2>1, <2>2 DEF SessionOK, ConnOK, JointRefused
  <1>6. CASE PublishFails
    <2>1. DriverOK'
      BY <1>6 DEF DriverOK, PublishFails, DriverAssumption
    <2> QED BY <1>6, <2>1 DEF SessionOK, LoopOK, ConnOK, PublishFails
  <1>7. CASE DriverRaises
    <2>1. LoopOK'
      BY <1>7, NoFrameTyped DEF LoopOK, DriverRaises, LoopsStop
    <2>2. DriverOK'
      BY <1>7 DEF DriverOK, DriverRaises, DriverAssumption
    <2> QED BY <1>7, <2>1, <2>2 DEF SessionOK, ConnOK, DriverRaises
  <1>8. ASSUME NEW s \in Seats, DeadlineFires(s) PROVE TypeOK'
    BY <1>8 DEF SessionOK, DriverOK, LoopOK, ConnOK, DeadlineFires
  <1>9. ASSUME NEW s \in Seats, NEW k \in Conns, NEW old \in Conns,
               ResumeRegisters(s, k, old)
        PROVE  TypeOK'
    BY <1>9 DEF SessionOK, DriverOK, LoopOK, ConnOK, ResumeRegisters, CloseReplaced
  <1> QED BY <1>1, <1>2, <1>3, <1>4, <1>5, <1>6, <1>7, <1>8, <1>9
          DEF EndStep, FaultStep, ResumeStep

\* Every variable of the driver keeps its type.
THEOREM TypeCorrect == Spec => []TypeOK
  <1>1. TypeOK /\ [Next]_vars => TypeOK'
    <2> SUFFICES ASSUME TypeOK, [Next]_vars PROVE TypeOK'
      OBVIOUS
    <2>1. CASE UNCHANGED vars
      BY <2>1 DEF vars, TypeOK, SessionOK, DriverOK, LoopOK, ConnOK
    <2>2. CASE Next
      BY <2>1, <2>2, DriverTyped, LoopTyped, ClientTyped, OtherTyped
      DEF Next, Terminated
    <2> QED BY <2>1, <2>2
  <1> QED BY <1>1, InitTyped, PTL DEF Spec

-----------------------------------------------------------------------------
(* The lifecycle and the terminal frame. *)

Hopeless == {"aborting", "ended", "raised"}

\* All that DriverInv needs to know of a step of one seat: its loop stays
\* inside the round and out of hope if it was, or it asks for the abort.
SeatSummary(s) ==
  /\ UNCHANGED <<lifecycle, turns, driver, round, crashed, terminalSent, told>>
  /\ \A r \in Seats \ {s} : loop'[r] = loop[r]
  /\ \/ UNCHANGED <<loop, ending>>
     \/ /\ loop[s] # "off" /\ loop'[s] # "off" /\ UNCHANGED ending
        /\ loop[s] \in Hopeless => loop'[s] \in Hopeless
     \/ /\ loop[s] # "off" /\ loop'[s] = "aborting"
        /\ ending = "no" /\ ending' = "requested"

\* What the helpers of a loop do to it.
LoopSummary(s) ==
  /\ \A r \in Seats \ {s} : loop'[r] = loop[r]
  /\ \/ loop'[s] # "off" /\ UNCHANGED ending
     \/ loop'[s] = "aborting" /\ ending = "no" /\ ending' = "requested"

\* _abort moves only its own loop, and the end of the match only if none has begun.
LEMMA RequestAbortSummary ==
  ASSUME TypeOK, NEW s \in Seats, NEW why, RequestAbort(s, why) PROVE LoopSummary(s)
  BY DEF TypeOK, LoopOK, RequestAbort, LoopSummary

\* A loop that returns None leaves the end of the match to whoever began it.
LEMMA LoopEndsSummary ==
  ASSUME TypeOK, NEW s \in Seats, LoopEnds(s) PROVE LoopSummary(s)
  BY DEF TypeOK, LoopOK, LoopEnds, LoopSummary

\* A loop goes back to its read or asks for the abort.
LEMMA NextReadSummary ==
  ASSUME TypeOK, NEW s \in Seats, NextRead(s) PROVE LoopSummary(s)
  BY RequestAbortSummary, LoopEndsSummary
  DEF TypeOK, LoopOK, NextRead, Expire, LoopSummary

\* After the grace wait a loop goes on or asks for the abort.
LEMMA AfterGraceSummary ==
  ASSUME TypeOK, NEW s \in Seats, AfterGrace(s) PROVE LoopSummary(s)
  BY RequestAbortSummary DEF TypeOK, LoopOK, AfterGrace, Install, LoopSummary

\* A loop that loses its connection waits, goes on or asks for the abort.
LEMMA LostSummary ==
  ASSUME TypeOK, NEW s \in Seats, Lost(s) PROVE LoopSummary(s)
  BY AfterGraceSummary DEF TypeOK, LoopOK, Lost, LoopSummary

\* Every step of a seat's loop, timer, resume handler or client is so summarised.
LEMMA SeatStepSummary ==
  ASSUME TypeOK, NEW s \in Seats,
         LoopStep(s) \/ DeadlineFires(s) \/ ResumeStep(s) \/ ClientStep(s)
  PROVE  SeatSummary(s)
  <1> USE RequestAbortSummary, LoopEndsSummary, NextReadSummary
      DEF SeatSummary, LoopSummary, Hopeless
  <1>1. CASE DropDuplicate(s)  BY <1>1 DEF DropDuplicate
  <1>2. CASE DiscardAction(s)  BY <1>2 DEF DiscardAction
  <1>3. CASE AcceptAction(s)   BY <1>3 DEF AcceptAction, TypeOK, LoopOK
  <1>4. CASE RejectAction(s)   BY <1>4 DEF RejectAction, Send
  <1>5. CASE ReadDisconnect(s) BY <1>5, LostSummary DEF ReadDisconnect
  <1>6. CASE GraceEnds(s)      BY <1>6, AfterGraceSummary DEF GraceEnds
  <1>7. CASE ResendRequest(s)  BY <1>7 DEF ResendRequest, Send
  <1>8. CASE ReadExpires(s)    BY <1>8 DEF ReadExpires, Expire
  <1>9. CASE AborterReturns(s) BY <1>9 DEF AborterReturns, TypeOK, LoopOK
  <1>10. CASE DeadlineFires(s) BY <1>10 DEF DeadlineFires
  <1>11. CASE ResumeStep(s)    BY <1>11 DEF ResumeStep, ResumeRegisters
  <1>12. CASE ClientStep(s)
    <2>1. ASSUME NEW id, NEW legal, ReadAction(s, id, legal) PROVE SeatSummary(s)
      BY <2>1 DEF ReadAction, TypeOK, LoopOK
    <2>2. CASE ReadMalformed(s)
      BY <2>2, LostSummary DEF ReadMalformed, Send
    <2>3. CASE HeartbeatPing(s) \/ HeartbeatTimeout(s) \/ Resume(s)
      BY <2>3 DEF HeartbeatPing, HeartbeatTimeout, Resume, Send
    <2>4. ASSUME NEW k, Drop(s, k) PROVE SeatSummary(s)
      BY <2>4 DEF Drop
    <2> QED BY <1>12, <2>1, <2>2, <2>3, <2>4 DEF ClientStep
  <1> QED BY <1>1, <1>2, <1>3, <1>4, <1>5, <1>6, <1>7, <1>8, <1>9, <1>10, <1>11, <1>12
          DEF LoopStep

\* A step so summarised keeps the invariant.
LEMMA SeatKeepsInv ==
  ASSUME TypeOK, DriverInv, NEW s \in Seats, SeatSummary(s) PROVE DriverInv'
  <1> USE DEF DriverInv, SeatSummary, Hopeless
  <1>1. LoopsInRound'
    BY DEF LoopsInRound
  <1>2. EndFollowsSession'
    <2>1. CASE UNCHANGED ending
      BY <2>1 DEF EndFollowsSession, Running
    <2>2. CASE loop[s] # "off" /\ ending = "no" /\ ending' = "requested"
      BY <2>2 DEF LoopsInRound, EndFollowsSession, Running
    <2> QED BY <2>1, <2>2
  <1>3. AborterInRound'
    <2> SUFFICES ASSUME driver = "round", ending' # "no"
                 PROVE  \E r \in round : loop'[r] \in Hopeless
      BY DEF AborterInRound
    <2>1. CASE UNCHANGED ending
      <3>1. PICK r \in round : loop[r] \in Hopeless
        BY <2>1 DEF AborterInRound
      <3>2. r \in Seats
        BY DEF TypeOK, DriverOK
      <3>3. loop'[r] \in Hopeless
        BY <2>1, <3>1, <3>2
      <3> QED BY <3>3
    <2>2. CASE loop[s] # "off" /\ loop'[s] = "aborting"
      BY <2>2 DEF LoopsInRound
    <2> QED BY <2>1, <2>2
  <1>4. TerminalFrameTracked' /\ TerminalFrameOnce'
    BY DEF TerminalFrameTracked, TerminalFrameOnce, Told, Closing
  <1> QED BY <1>1, <1>2, <1>3, <1>4

\* The driver's own steps keep the invariant.
LEMMA DriverKeepsInv ==
  ASSUME TypeOK, DriverInv, DriverStep PROVE DriverInv'
  <1> USE DEF DriverInv, LoopsInRound, EndFollowsSession, AborterInRound,
              TerminalFrameTracked, TerminalFrameOnce, Told, Closing, Running
  <1>1. CASE Start
    BY <1>1 DEF Start
  <1>2. CASE Commit
    <2>1. ending = "no" /\ Running
      BY <1>2 DEF Commit, AllAccepted
    <2> QED BY <1>2, <2>1 DEF Commit, LoopsStop
  <1>3. CASE TurnCapReached
    BY <1>3 DEF TurnCapReached
  <1>4. CASE RoundBreaks
    BY <1>4 DEF RoundBreaks, LoopsStop
  <1>5. CASE FinishMatch
    BY <1>5 DEF FinishMatch, TypeOK, SessionOK
  <1>6. CASE EndingFails
    BY <1>6 DEF EndingFails
  <1>7. CASE HandleCrash
    BY <1>7 DEF HandleCrash, AfterCrash, AbortFinished, TypeOK, SessionOK
  <1>8. CASE Exit
    BY <1>8 DEF Exit
  <1>9. CASE \E S \in Rounds : BeginRound(S, {})
    BY <1>9 DEF BeginRound, DriverAssumption
  <1> QED BY <1>1, <1>2, <1>3, <1>4, <1>5, <1>6, <1>7, <1>8, <1>9 DEF DriverStep

\* So do the end of the match and the faults.
LEMMA EndKeepsInv ==
  ASSUME TypeOK, DriverInv, EndStep \/ FaultStep PROVE DriverInv'
  <1> USE DEF DriverInv, LoopsInRound, EndFollowsSession, AborterInRound,
              TerminalFrameTracked, TerminalFrameOnce, Told, Closing, Running
  <1>1. CASE AbortSession
    BY <1>1 DEF AbortSession
  <1>2. CASE Publish
    <2>1. TerminalFrameOnce'
      BY <1>2 DEF Publish, TellSeats, TypeOK, ConnOK
    <2>2. TerminalFrameTracked'
      BY <1>2 DEF Publish, Resending, Handling
    <2> QED BY <1>2, <2>1, <2>2 DEF Publish
  <1>3. ASSUME NEW s \in Seats, CloseSeat(s) PROVE DriverInv'
    BY <1>3 DEF CloseSeat
  <1>4. ASSUME NEW S \in Rounds, NEW b \in Seats, BeginRound(S, {b}) PROVE DriverInv'
    BY <1>4 DEF BeginRound, DriverAssumption
  <1>5. CASE JointRefused
    <2>1. ending = "no" /\ Running
      BY <1>5 DEF JointRefused, AllAccepted
    <2> QED BY <1>5, <2>1 DEF JointRefused, LoopsStop
  <1>6. CASE PublishFails
    BY <1>6 DEF PublishFails, Handling
  <1>7. CASE DriverRaises
    <2>1. ending = "no"
      BY <1>7 DEF DriverRaises, AllAccepted
    <2> QED BY <1>7, <2>1 DEF DriverRaises, LoopsStop
  <1> QED BY <1>1, <1>2, <1>3, <1>4, <1>5, <1>6, <1>7 DEF EndStep, FaultStep

\* No step of run_match or of its clients breaks the invariant,
LEMMA InvInductive ==
  ASSUME TypeOK, DriverInv, [Next]_vars PROVE DriverInv'
  <1>1. CASE UNCHANGED vars
    BY <1>1 DEF vars, DriverInv, LoopsInRound, EndFollowsSession, AborterInRound,
            TerminalFrameTracked, TerminalFrameOnce, Told, Closing, Running
  <1>2. CASE Next
    BY <1>1, <1>2, DriverKeepsInv, EndKeepsInv, SeatStepSummary, SeatKeepsInv
    DEF Next, Terminated
  <1> QED BY <1>1, <1>2

\* which therefore holds of every reachable state.
LEMMA DriverInvariant == Spec => []DriverInv
  <1>1. Init => DriverInv
    BY DEF Init, DriverInv, LoopsInRound, EndFollowsSession, AborterInRound,
       TerminalFrameTracked, TerminalFrameOnce, Told, Closing, Running
  <1> QED BY <1>1, InvInductive, TypeCorrect, PTL DEF Spec

\* No seat is ever sent two terminal frames, over all its connections.
THEOREM TerminalFrameSentOnce == Spec => []TerminalFrameOnce
  <1>1. DriverInv => TerminalFrameOnce
    BY DEF DriverInv
  <1> QED BY <1>1, DriverInvariant, PTL

\* The steps that change the session, its turns or what its seats were told.
SessionStep == Start \/ Commit \/ AbortSession \/ Publish

\* No other step touches the session's lifecycle, its turns or a terminal frame.
LEMMA OtherStepsKeepSession ==
  ASSUME TypeOK, Next, ~SessionStep PROVE UNCHANGED <<lifecycle, turns, told>>
  <1> USE DEF SessionStep
  <1>1. CASE DriverStep
    BY <1>1 DEF DriverStep, TurnCapReached, RoundBreaks, FinishMatch, EndingFails,
            HandleCrash, Exit, BeginRound
  <1>2. CASE EndStep \/ FaultStep
    BY <1>2 DEF EndStep, FaultStep, CloseSeat, BeginRound, JointRefused,
            PublishFails, DriverRaises
  <1>3. ASSUME NEW s \in Seats,
               LoopStep(s) \/ DeadlineFires(s) \/ ResumeStep(s) \/ ClientStep(s)
        PROVE  UNCHANGED <<lifecycle, turns, told>>
    BY <1>3, SeatStepSummary DEF SeatSummary
  <1>4. CASE Terminated
    BY <1>4 DEF Terminated, vars
  <1> QED BY <1>1, <1>2, <1>3, <1>4 DEF Next

\* A round never commits beside an abort of one of its seats.
THEOREM NoLateCommit == Spec => NoCommitAfterAbort
  <1> DEFINE Early == ending = "no" /\ lifecycle \in {"created", "running"}
  <1>1. TypeOK /\ DriverInv /\ [Next]_vars => [turns' # turns => Early]_vars
    <2> SUFFICES ASSUME TypeOK, DriverInv, Next, turns' # turns PROVE Early
      OBVIOUS
    <2> USE DEF DriverInv, EndFollowsSession, LoopsInRound, AborterInRound, Running
    <2>1. CASE Start
      BY <2>1 DEF Start
    <2>2. CASE Commit
      BY <2>2 DEF Commit, AllAccepted
    <2>3. Start \/ Commit
      BY OtherStepsKeepSession DEF SessionStep, AbortSession, Publish
    <2> QED BY <2>1, <2>2, <2>3
  <1> QED BY <1>1, TypeCorrect, DriverInvariant, PTL DEF Spec, NoCommitAfterAbort

\* The driver implements MatchLifecycle's steps, with the seats as its audience.
THEOREM RefinesLifecycle == Spec => StepsAsLifecycle
  <1> DEFINE toldSeats == {s \in Seats : Told(s) # {}}
  <1>1. Init => Lifecycle!Init
    BY DEF Init, Lifecycle!Init, Told
  <1>2. TypeOK /\ DriverInv /\ [Next]_vars => [Lifecycle!Next]_(Lifecycle!vars)
    <2> SUFFICES ASSUME TypeOK, DriverInv, Next
                 PROVE  Lifecycle!Next \/ UNCHANGED Lifecycle!vars
      BY DEF vars, Lifecycle!vars, Told
    <2> USE DEF DriverInv, EndFollowsSession, LoopsInRound, AborterInRound, Running,
                Lifecycle!Next, Lifecycle!vars
    <2>1. CASE UNCHANGED <<lifecycle, turns, told>>
      BY <2>1 DEF Told
    <2>2. CASE Start
      BY <2>2 DEF Start, Lifecycle!Begin, Told, DriverAssumption
    <2>3. CASE Commit
      <3>1. ending = "no" /\ Running /\ UNCHANGED told
        BY <2>3 DEF Commit, AllAccepted
      <3>2. turns' \in Nat /\ turns' > turns
        BY <2>3 DEF Commit, TypeOK, SessionOK, DriverAssumption
      <3> QED BY <2>3, <3>1, <3>2 DEF Commit, Lifecycle!Play, Told
    <2>4. CASE AbortSession
      BY <2>4 DEF AbortSession, Lifecycle!Abort, Told
    <2>5. CASE Publish
      <3>1. UNCHANGED <<lifecycle, turns>> /\ lifecycle \in {"finished", "aborted"}
        BY <2>5 DEF Publish
      <3>2. toldSeats = {}
        BY <2>5 DEF Publish, TerminalFrameTracked, Closing, Told
      <3>3. \A s \in Seats : Told(s)' # {}
        <4> TAKE s \in Seats
        <4>1. cur[s] \in Conns /\ told'[s] = [told[s] EXCEPT ![cur[s]] = @ + 1]
          BY <2>5 DEF Publish, TellSeats, TypeOK, ConnOK
        <4>2. told'[s][cur[s]] > 0
          BY <4>1 DEF TypeOK, ConnOK
        <4> QED BY <4>1, <4>2 DEF Told
      <3>4. toldSeats' = Seats
        BY <3>3
      <3> QED BY <3>1, <3>2, <3>4 DEF Lifecycle!Tell, Lifecycle!Ended
    <2>6. SessionStep \/ UNCHANGED <<lifecycle, turns, told>>
      BY OtherStepsKeepSession
    <2> QED BY <2>1, <2>2, <2>3, <2>4, <2>5, <2>6 DEF SessionStep
  <1> QED BY <1>1, <1>2, TypeCorrect, DriverInvariant, PTL
          DEF Spec, StepsAsLifecycle, Lifecycle!Safe

-----------------------------------------------------------------------------
(***************************************************************************)
(* The loops of the seats: what they may still send, what they have left   *)
(* to spend, which connection they read, and which turn ids they let       *)
(* through.                                                                *)
(***************************************************************************)
SeatStep(s) == LoopStep(s) \/ DeadlineFires(s) \/ ResumeStep(s) \/ ClientStep(s)

-----------------------------------------------------------------------------
(* Who began the end of the match, and why. *)

\* Whatever the helpers of a loop do, the loop gives up only once the end of
\* the match has begun, and nothing names a reason before that.
GivesUpKnowingly(s) ==
  /\ \A r \in Seats \ {s} : loop'[r] = loop[r]
  /\ ending # "no" => ending' # "no"
  /\ loop'[s] \in {"aborting", "ended"} => ending' # "no"
  /\ ending' = "no" => reason' = reason

\* The caller of _abort begins the end of the match, or finds it begun.
LEMMA RequestAbortKnown ==
  ASSUME TypeOK, NEW s \in Seats, NEW why, RequestAbort(s, why)
  PROVE  GivesUpKnowingly(s)
  BY DEF TypeOK, LoopOK, RequestAbort, GivesUpKnowingly

\* A loop that finds the match over inside its round finds its end begun.
LEMMA LoopEndsKnown ==
  ASSUME TypeOK, DriverInv, NEW s \in Seats, loop[s] # "off", MatchOver, LoopEnds(s)
  PROVE  GivesUpKnowingly(s)
  BY DEF TypeOK, LoopOK, LoopEnds, GivesUpKnowingly, DriverInv, LoopsInRound,
         EndFollowsSession, MatchOver, Running

\* Back at its read, a loop goes on, or its deadline ends it either way.
LEMMA NextReadKnown ==
  ASSUME TypeOK, DriverInv, NEW s \in Seats, loop[s] # "off", NextRead(s)
  PROVE  GivesUpKnowingly(s)
  <1>1. CASE dl[s] = "fired"
    BY <1>1, RequestAbortKnown, LoopEndsKnown DEF NextRead, Expire
  <1>2. CASE dl[s] # "fired"
    BY <1>2 DEF TypeOK, LoopOK, NextRead, GivesUpKnowingly
  <1> QED BY <1>1, <1>2

\* After the grace wait a loop goes on with a connection, or aborts.
LEMMA AfterGraceKnown ==
  ASSUME TypeOK, NEW s \in Seats, AfterGrace(s) PROVE GivesUpKnowingly(s)
  BY RequestAbortKnown DEF TypeOK, LoopOK, AfterGrace, Install, GivesUpKnowingly

\* A loop that loses its connection waits, goes on or aborts.
LEMMA LostKnown ==
  ASSUME TypeOK, NEW s \in Seats, Lost(s) PROVE GivesUpKnowingly(s)
  BY AfterGraceKnown DEF TypeOK, LoopOK, Lost, GivesUpKnowingly

\* Every step of a seat keeps AbortKnown.
LEMMA SeatKeepsAbortKnown ==
  ASSUME TypeOK, DriverInv, AbortKnown, NEW s \in Seats, SeatStep(s)
  PROVE  AbortKnown'
  <1> USE DEF AbortKnown
  <1>0. ASSUME GivesUpKnowingly(s), UNCHANGED driver PROVE AbortKnown'
    BY <1>0 DEF GivesUpKnowingly
  <1> USE RequestAbortKnown, LoopEndsKnown, NextReadKnown
  <1>1. CASE DropDuplicate(s)  BY <1>0, <1>1 DEF DropDuplicate
  <1>2. CASE DiscardAction(s)  BY <1>0, <1>2 DEF DiscardAction
  <1>3. CASE AcceptAction(s)   BY <1>3 DEF AcceptAction, TypeOK, LoopOK
  <1>4. CASE RejectAction(s)   BY <1>0, <1>4 DEF RejectAction
  <1>5. CASE ReadDisconnect(s) BY <1>0, <1>5, LostKnown DEF ReadDisconnect
  <1>6. CASE GraceEnds(s)      BY <1>0, <1>6, AfterGraceKnown DEF GraceEnds
  <1>7. CASE ResendRequest(s)  BY <1>0, <1>7 DEF ResendRequest
  <1>8. CASE ReadExpires(s)    BY <1>0, <1>8 DEF ReadExpires, Expire
  <1>9. CASE AborterReturns(s) BY <1>9 DEF AborterReturns, TypeOK, LoopOK
  <1>10. CASE DeadlineFires(s) BY <1>10 DEF DeadlineFires
  <1>11. CASE ResumeStep(s)    BY <1>11 DEF ResumeStep, ResumeRegisters
  <1>12. CASE ClientStep(s)
    <2>1. ASSUME NEW id, NEW legal, ReadAction(s, id, legal) PROVE AbortKnown'
      BY <2>1 DEF ReadAction, TypeOK, LoopOK
    <2>2. CASE ReadMalformed(s)
      BY <1>0, <2>2, LostKnown DEF ReadMalformed
    <2>3. CASE HeartbeatPing(s) \/ HeartbeatTimeout(s) \/ Resume(s)
      BY <2>3 DEF HeartbeatPing, HeartbeatTimeout, Resume
    <2>4. ASSUME NEW k, Drop(s, k) PROVE AbortKnown'
      BY <2>4 DEF Drop
    <2> QED BY <1>12, <2>1, <2>2, <2>3, <2>4 DEF ClientStep
  <1> QED BY <1>1, <1>2, <1>3, <1>4, <1>5, <1>6, <1>7, <1>8, <1>9, <1>10, <1>11, <1>12
          DEF LoopStep, SeatStep

\* So does every step of run_match.
LEMMA MatchKeepsAbortKnown ==
  ASSUME TypeOK, DriverInv, AbortKnown, DriverStep \/ EndStep \/ FaultStep
  PROVE  AbortKnown'
  <1> USE DEF AbortKnown, LoopsStop
  <1>1. CASE DriverStep
    <2>1. CASE Start \/ Commit \/ TurnCapReached \/ FinishMatch \/ EndingFails
      BY <2>1 DEF Start, Commit, TurnCapReached, FinishMatch, EndingFails,
                  DriverInv, EndFollowsSession
    <2>2. CASE RoundBreaks
      BY <2>2 DEF RoundBreaks, TypeOK, DriverOK
    <2>3. CASE HandleCrash
      BY <2>3 DEF HandleCrash, AfterCrash
    <2>4. CASE Exit
      BY <2>4 DEF Exit
    <2>5. ASSUME NEW S \in Rounds, BeginRound(S, {}) PROVE AbortKnown'
      BY <2>5 DEF BeginRound
    <2> QED BY <1>1, <2>1, <2>2, <2>3, <2>4, <2>5 DEF DriverStep
  <1>2. CASE EndStep
    BY <1>2 DEF EndStep, AbortSession, Publish, CloseSeat
  <1>3. CASE FaultStep
    <2>1. ASSUME NEW S \in Rounds, NEW b \in Seats, BeginRound(S, {b}) PROVE AbortKnown'
      BY <2>1 DEF BeginRound
    <2> QED BY <1>3, <2>1 DEF FaultStep, JointRefused, PublishFails, DriverRaises
  <1> QED BY <1>1, <1>2, <1>3

\* Nothing that run_match started outlives it: only Exit ends it, and past its
\* end no loop is there to arm a timer or a heartbeat again.
LEMMA StepKeepsCleanExit ==
  ASSUME TypeOK, DriverInv, AbortKnown, CleanExit, Next PROVE CleanExit'
  <1> USE DEF CleanExit
  <1>1. CASE driver' # "done"
    BY <1>1
  <1>2. CASE driver # "done" /\ driver' = "done"
    <2>1. Exit
      <3>1. ASSUME NEW s \in Seats, SeatStep(s) PROVE FALSE
        BY <1>2, <3>1, SeatStepSummary DEF SeatStep, SeatSummary
      <3>2. CASE EndStep \/ FaultStep
        BY <1>2, <3>2 DEF EndStep, FaultStep, AbortSession, Publish, CloseSeat,
           BeginRound, JointRefused, PublishFails, DriverRaises
      <3>3. CASE Terminated
        BY <1>2, <3>3 DEF Terminated
      <3>4. CASE DriverStep
        BY <1>2, <3>4 DEF DriverStep, Start, Commit, TurnCapReached, RoundBreaks,
           FinishMatch, EndingFails, HandleCrash, BeginRound
      <3> QED BY <3>1, <3>2, <3>3, <3>4 DEF Next, SeatStep
    <2>2. ending \in {"done", "failed"}
      BY <2>1 DEF Exit, AbortFinished, AbortKnown
    <2>3. \A s \in Seats : loop[s] = "off"
      BY <1>2, <2>1 DEF Exit, DriverInv, LoopsInRound
    <2> QED BY <2>1, <2>2, <2>3 DEF Exit, DriverInv, EndFollowsSession
  <1>3. CASE driver = "done" /\ driver' = "done"
    <2>1. /\ \A s \in Seats : loop[s] = "off" /\ dl[s] = "off" /\ hb[s] = None
          /\ ending \in {"done", "failed"} /\ lifecycle \in {"finished", "aborted"}
      BY <1>3
    <2>2. ASSUME NEW s \in Seats, SeatStep(s)
          PROVE  UNCHANGED <<loop, dl, hb, ending, lifecycle>>
      <3>1. ~LoopStep(s)
        BY <2>1 DEF LoopStep, DropDuplicate, DiscardAction, AcceptAction,
           RejectAction, ReadDisconnect, GraceEnds, ResendRequest, ReadExpires,
           AborterReturns
      <3>2. ~DeadlineFires(s)
        BY <2>1 DEF DeadlineFires
      <3>3. CASE ResumeStep(s)
        BY <3>3 DEF ResumeStep, ResumeRegisters
      <3>4. CASE ClientStep(s)
        BY <2>1, <3>4 DEF ClientStep, ReadAction, ReadMalformed, HeartbeatPing,
           HeartbeatTimeout, Drop, Resume
      <3> QED BY <2>2, <3>1, <3>2, <3>3, <3>4 DEF SeatStep
    <2>3. CASE DriverStep \/ FaultStep
      BY <1>3, <2>1, <2>3 DEF DriverStep, Start, Commit, TurnCapReached, RoundBreaks,
         FinishMatch, EndingFails, HandleCrash, Exit, BeginRound, FaultStep,
         JointRefused, PublishFails, DriverRaises
    <2>4. CASE EndStep
      BY <2>1, <2>4 DEF EndStep, AbortSession, Publish, CloseSeat
    <2>5. CASE Terminated
      BY <2>1, <2>5 DEF Terminated, vars
    <2> QED BY <2>1, <2>2, <2>3, <2>4, <2>5 DEF Next, SeatStep
  <1> QED BY <1>1, <1>2, <1>3

-----------------------------------------------------------------------------
(* The connections of a seat, and the one its heartbeat pings. *)

\* A loop that goes on, gives up or ends leaves its connections as they are.
LoopMoves(s) ==
  /\ \A r \in Seats \ {s} : loop'[r] = loop[r]
  /\ loop'[s] \in {loop[s], "receive", "aborting", "ended"}

\* The helpers move no loop but their own.
LEMMA ReadsOrGivesUp ==
  ASSUME TypeOK, NEW s \in Seats,
         NextRead(s) \/ LoopEnds(s) \/ (\E why : RequestAbort(s, why))
  PROVE  LoopMoves(s)
  BY DEF TypeOK, LoopOK, NextRead, Expire, LoopEnds, RequestAbort, LoopMoves

Links == ConnsInOrder /\ HeartbeatFollowsReader

\* What the wait for a resume may install is a connection that was opened.
LEMMA GraceKeepsLinks ==
  ASSUME TypeOK, Links, NEW s \in Seats, AfterGrace(s),
         UNCHANGED <<hb, used, rc, pend>>,
         \A r \in Seats \ {s} : open'[r] = open[r]
  PROVE  Links'
  <1> DEFINE next == IF cur[s] # act[s] THEN cur[s] ELSE rc[s]
  <1> USE DEF Links, ConnsInOrder, HeartbeatFollowsReader
  <1>1. CASE loop' = [loop EXCEPT ![s] = "aborting"] /\ UNCHANGED <<cur, act>>
    BY <1>1 DEF TypeOK, LoopOK, ConnOK
  <1>2. CASE Install(s, next)
    <2>1. next <= used[s]
      OBVIOUS
    <2> HIDE DEF next
    <2>2. /\ cur' = [cur EXCEPT ![s] = next] /\ act' = [act EXCEPT ![s] = next]
          /\ loop' = [loop EXCEPT ![s] = "resuming"]
      BY <1>2 DEF Install
    <2> QED BY <2>1, <2>2 DEF TypeOK, LoopOK, ConnOK
  <1> QED BY <1>1, <1>2 DEF AfterGrace, RequestAbort

\* A loop whose connection is closed waits, or goes on with another.
LEMMA LostKeepsLinks ==
  ASSUME TypeOK, Links, NEW s \in Seats, Lost(s), act[s] \notin open'[s],
         UNCHANGED <<hb, used, rc, pend>>,
         \A r \in Seats \ {s} : open'[r] = open[r]
  PROVE  Links'
  <1>1. CASE cur[s] = act[s]
    BY <1>1 DEF Lost, Links, ConnsInOrder, HeartbeatFollowsReader, TypeOK, LoopOK
  <1>2. CASE cur[s] # act[s]
    BY <1>2, GraceKeepsLinks DEF Lost
  <1> QED BY <1>1, <1>2

\* A loop that was not reading and goes on reading has a heartbeat of its own.
LEMMA MoveKeepsLinks ==
  ASSUME TypeOK, Links, NEW s \in Seats, LoopMoves(s),
         loop[s] \in {"receive", "held"} \/ hb'[s] = act[s],
         \A r \in Seats \ {s} : hb'[r] = hb[r], hb'[s] \in {hb[s], act[s]},
         UNCHANGED <<cur, open, used, rc, pend, act>>
  PROVE  Links'
  BY DEF Links, ConnsInOrder, HeartbeatFollowsReader, LoopMoves, TypeOK, LoopOK, ConnOK

\* Every step of a seat keeps its connections in order and its heartbeat with
\* its reader.
LEMMA SeatKeepsLinks ==
  ASSUME TypeOK, Links, NEW s \in Seats, SeatStep(s) PROVE Links'
  <1> USE DEF LoopMoves
  <1>a. ASSUME NextRead(s) \/ LoopEnds(s) \/ (\E why : RequestAbort(s, why))
        PROVE  LoopMoves(s)
    BY <1>a, ReadsOrGivesUp
  <1>1. CASE DropDuplicate(s)
    BY <1>1, <1>a, MoveKeepsLinks DEF DropDuplicate
  <1>2. CASE DiscardAction(s)
    BY <1>2, <1>a, MoveKeepsLinks DEF DiscardAction
  <1>3. CASE AcceptAction(s)
    BY <1>3 DEF AcceptAction, Links, ConnsInOrder, HeartbeatFollowsReader, TypeOK, LoopOK
  <1>4. CASE RejectAction(s)
    BY <1>4, <1>a, MoveKeepsLinks DEF RejectAction
  <1>5. CASE ReadDisconnect(s)
    <2>1. CASE MatchOver
      BY <1>5, <2>1, <1>a, MoveKeepsLinks DEF ReadDisconnect
    <2>2. CASE ~MatchOver
      BY <1>5, <2>2, LostKeepsLinks DEF ReadDisconnect
    <2> QED BY <2>1, <2>2
  <1>6. CASE GraceEnds(s)
    BY <1>6, GraceKeepsLinks DEF GraceEnds
  <1>7. CASE ResendRequest(s)
    BY <1>7, <1>a, MoveKeepsLinks DEF ResendRequest, StartHeartbeat, TypeOK, LoopOK
  <1>8. CASE ReadExpires(s)
    BY <1>8, <1>a, MoveKeepsLinks DEF ReadExpires, Expire
  <1>9. CASE AborterReturns(s)
    BY <1>9 DEF AborterReturns, Links, ConnsInOrder, HeartbeatFollowsReader, TypeOK, LoopOK
  <1>10. CASE DeadlineFires(s)
    BY <1>10 DEF DeadlineFires, Links, ConnsInOrder, HeartbeatFollowsReader
  <1>11. CASE ResumeStep(s)
    <2>1. PICK k \in Conns, old \in Conns : ResumeRegisters(s, k, old)
      BY <1>11 DEF ResumeStep
    <2>2. k <= used[s]
      BY <2>1 DEF ResumeRegisters, Links, ConnsInOrder
    <2>3. /\ rc' = [rc EXCEPT ![s] = k]
          /\ pend' = [pend EXCEPT ![s] = @ \ {<<k, old>>}]
          /\ open' = [open EXCEPT ![s] = @ \ {old}]
          /\ UNCHANGED <<loop, act, cur, used, hb>>
      BY <2>1 DEF ResumeRegisters, CloseReplaced
    <2>4. ConnsInOrder'
      BY <2>2, <2>3 DEF Links, ConnsInOrder, TypeOK, ConnOK
    <2>5. HeartbeatFollowsReader'
      BY <2>3 DEF Links, HeartbeatFollowsReader, TypeOK, ConnOK
    <2> QED BY <2>4, <2>5 DEF Links
  <1>12. CASE ClientStep(s)
    <2>1. ASSUME NEW id, NEW legal, ReadAction(s, id, legal) PROVE Links'
      BY <2>1 DEF ReadAction, Links, ConnsInOrder, HeartbeatFollowsReader, TypeOK, LoopOK
    <2>2. CASE ReadMalformed(s)
      <3>1. CASE MatchOver \/ perr[s] + 1 < MaxProtocolErrors
        BY <2>2, <3>1, <1>a, MoveKeepsLinks DEF ReadMalformed
      <3>2. CASE ~MatchOver /\ ~(perr[s] + 1 < MaxProtocolErrors)
        <4>1. /\ open' = [open EXCEPT ![s] = @ \ {act[s]}] /\ Lost(s)
              /\ UNCHANGED <<hb, used, rc, pend>>
          BY <2>2, <3>2 DEF ReadMalformed
        <4>2. act[s] \notin open'[s] /\ \A r \in Seats \ {s} : open'[r] = open[r]
          BY <4>1 DEF TypeOK, ConnOK
        <4> QED BY <4>1, <4>2, LostKeepsLinks
      <3> QED BY <3>1, <3>2
    <2>3. CASE HeartbeatPing(s)
      BY <2>3 DEF HeartbeatPing, Links, ConnsInOrder, HeartbeatFollowsReader
    <2>4. CASE HeartbeatTimeout(s)
      BY <2>4 DEF HeartbeatTimeout, Links, ConnsInOrder, HeartbeatFollowsReader,
         TypeOK, LoopOK, ConnOK
    <2>5. ASSUME NEW k, Drop(s, k) PROVE Links'
      BY <2>5 DEF Drop, Links, ConnsInOrder, HeartbeatFollowsReader, TypeOK, ConnOK
    <2>6. CASE Resume(s)
      <3>1. /\ used[s] \in Nat /\ used' = [used EXCEPT ![s] = used[s] + 1]
            /\ cur' = [cur EXCEPT ![s] = used[s] + 1]
            /\ open' = [open EXCEPT ![s] = @ \cup {used[s] + 1}]
            /\ pend' = [pend EXCEPT ![s] = @ \cup {<<used[s] + 1, cur[s]>>}]
            /\ UNCHANGED <<loop, act, hb, rc>>
        BY <2>6 DEF Resume, TypeOK, ConnOK, Conns
      <3>2. act[s] <= used[s] /\ rc[s] <= used[s] /\ act[s] \in Nat /\ rc[s] \in Nat
        <4>1. act[s] <= used[s] /\ rc[s] <= used[s]
          BY DEF Links, ConnsInOrder
        <4>2. act[s] \in 1 .. MaxConns /\ rc[s] \in (1 .. MaxConns) \cup {0}
          BY DEF TypeOK, LoopOK, ConnOK, Conns, None
        <4> QED BY <4>1, <4>2
      <3>3. \A p \in pend'[s] : p[1] <= used'[s]
        <4>1. \A p \in pend[s] : p[1] <= used[s] /\ p[1] \in Nat
          BY DEF Links, ConnsInOrder, TypeOK, ConnOK, Conns
        <4> QED BY <3>1, <4>1 DEF TypeOK, ConnOK
      <3>4. ConnsInOrder'
        BY <3>1, <3>2, <3>3 DEF Links, ConnsInOrder, TypeOK, LoopOK, ConnOK
      <3>5. HeartbeatFollowsReader'
        BY <3>1, <3>2 DEF Links, HeartbeatFollowsReader, TypeOK, ConnOK
      <3> QED BY <3>4, <3>5 DEF Links
    <2> QED BY <1>12, <2>1, <2>2, <2>3, <2>4, <2>5, <2>6 DEF ClientStep
  <1> QED BY <1>1, <1>2, <1>3, <1>4, <1>5, <1>6, <1>7, <1>8, <1>9, <1>10, <1>11, <1>12
          DEF LoopStep, SeatStep

\* So does every step of run_match.
LEMMA MatchKeepsLinks ==
  ASSUME TypeOK, DriverInv, Links, DriverStep \/ EndStep \/ FaultStep PROVE Links'
  <1> USE DEF Links, ConnsInOrder, HeartbeatFollowsReader, LoopsStop
  <1>1. CASE Start \/ Commit \/ TurnCapReached \/ RoundBreaks \/ FinishMatch
             \/ EndingFails \/ HandleCrash
    BY <1>1 DEF Start, Commit, TurnCapReached, RoundBreaks, FinishMatch, EndingFails,
       HandleCrash
  <1>2. CASE Exit
    BY <1>2 DEF Exit, DriverInv, LoopsInRound
  <1>3. ASSUME NEW S \in Rounds, NEW broken, BeginRound(S, broken) PROVE Links'
    BY <1>3 DEF BeginRound
  <1>4. CASE AbortSession \/ Publish
    BY <1>4 DEF AbortSession, Publish
  <1>5. ASSUME NEW s \in Seats, CloseSeat(s) PROVE Links'
    BY <1>5 DEF CloseSeat, TypeOK, ConnOK
  <1>6. CASE JointRefused \/ PublishFails \/ DriverRaises
    BY <1>6 DEF JointRefused, PublishFails, DriverRaises
  <1> QED BY <1>1, <1>2, <1>3, <1>4, <1>5, <1>6 DEF DriverStep, FaultStep, EndStep

-----------------------------------------------------------------------------
(* The retry budget of a turn. *)

\* A step of a loop that is not one of these spends no retry.
NothingSpent(s) ==
  /\ UNCHANGED <<spent, retries>>
  /\ \A r \in Seats \ {s} : loop'[r] = loop[r]
  /\ \/ loop'[s] = loop[s]
     \/ loop'[s] \in {"accepted", "aborting", "ended", "raised"}
     \/ loop[s] \in {"receive", "held", "grace", "resuming"}

\* A step that spends nothing keeps the budget.
LEMMA KeepsBudget ==
  ASSUME TypeOK, BudgetKept, NEW s \in Seats, NothingSpent(s) PROVE BudgetKept'
  BY DEF BudgetKept, NothingSpent

\* Only a rejection spends a retry, and one past the last aborts the match.
LEMMA SeatKeepsBudget ==
  ASSUME TypeOK, BudgetKept, NEW s \in Seats, SeatStep(s) PROVE BudgetKept'
  <1> USE DEF NothingSpent, LoopMoves
  <1>a. ASSUME NextRead(s) \/ LoopEnds(s) \/ (\E why : RequestAbort(s, why))
        PROVE  LoopMoves(s)
    BY <1>a, ReadsOrGivesUp
  <1>b. ASSUME AfterGrace(s) \/ Lost(s)
        PROVE  /\ \A r \in Seats \ {s} : loop'[r] = loop[r]
    BY <1>b DEF AfterGrace, Lost, Install, RequestAbort, TypeOK, LoopOK
  <1>1. CASE DropDuplicate(s)
    BY <1>1, <1>a, KeepsBudget DEF DropDuplicate
  <1>2. CASE DiscardAction(s)
    BY <1>2, <1>a, KeepsBudget DEF DiscardAction
  <1>3. CASE AcceptAction(s)
    BY <1>3, KeepsBudget DEF AcceptAction, TypeOK, LoopOK
  <1>4. CASE RejectAction(s)
    <2>0. /\ spent[s] + retries[s] = RetryBudget
          /\ spent' = [spent EXCEPT ![s] = @ + 1]
          /\ spent[s] \in Nat /\ retries[s] \in 0 .. RetryBudget
      BY <1>4 DEF RejectAction, BudgetKept, TypeOK, LoopOK
    <2>1. CASE retries[s] = 0
      <3>1. loop' = [loop EXCEPT ![s] = "aborting"] /\ UNCHANGED retries
        BY <1>4, <2>1 DEF RejectAction, OutOfRetries, RequestAbort
      <3> QED BY <2>0, <2>1, <3>1 DEF BudgetKept, TypeOK, LoopOK
    <2>2. CASE retries[s] # 0
      <3>1. LoopMoves(s) /\ retries' = [retries EXCEPT ![s] = @ - 1]
        BY <1>4, <2>2, <1>a DEF RejectAction, OutOfRetries, SpendRetry
      <3>2. \A r \in Seats \ {s} : loop'[r] = loop[r] /\ spent'[r] = spent[r]
                                    /\ retries'[r] = retries[r]
        BY <2>0, <3>1 DEF TypeOK, LoopOK
      <3>3. spent'[s] = spent[s] + 1 /\ retries'[s] = retries[s] - 1
        BY <2>0, <3>1 DEF TypeOK, LoopOK
      <3>4. spent'[s] + retries'[s] = RetryBudget /\ spent'[s] <= RetryBudget + 1
        BY <2>0, <3>3
      <3> QED BY <3>2, <3>4 DEF BudgetKept
    <2> QED BY <2>1, <2>2
  <1>5. CASE ReadDisconnect(s)
    BY <1>5, <1>a, <1>b, KeepsBudget DEF ReadDisconnect
  <1>6. CASE GraceEnds(s)
    BY <1>6, <1>b, KeepsBudget DEF GraceEnds
  <1>7. CASE ResendRequest(s)
    BY <1>7, <1>a, KeepsBudget DEF ResendRequest
  <1>8. CASE ReadExpires(s)
    BY <1>8, <1>a, KeepsBudget DEF ReadExpires, Expire
  <1>9. CASE AborterReturns(s)
    BY <1>9, KeepsBudget DEF AborterReturns, TypeOK, LoopOK
  <1>10. CASE DeadlineFires(s) \/ ResumeStep(s)
    BY <1>10, KeepsBudget DEF DeadlineFires, ResumeStep, ResumeRegisters
  <1>11. CASE ClientStep(s)
    <2>1. ASSUME NEW id, NEW legal, ReadAction(s, id, legal) PROVE BudgetKept'
      BY <2>1, KeepsBudget DEF ReadAction, TypeOK, LoopOK
    <2>2. CASE ReadMalformed(s)
      BY <2>2, <1>a, <1>b, KeepsBudget DEF ReadMalformed
    <2>3. CASE HeartbeatPing(s) \/ HeartbeatTimeout(s) \/ Resume(s)
      BY <2>3, KeepsBudget DEF HeartbeatPing, HeartbeatTimeout, Resume
    <2>4. ASSUME NEW k, Drop(s, k) PROVE BudgetKept'
      BY <2>4, KeepsBudget DEF Drop
    <2> QED BY <1>11, <2>1, <2>2, <2>3, <2>4 DEF ClientStep
  <1> QED BY <1>1, <1>2, <1>3, <1>4, <1>5, <1>6, <1>7, <1>8, <1>9, <1>10, <1>11
          DEF LoopStep, SeatStep

\* run_match gives every turn a fresh budget and spends none itself.
LEMMA MatchKeepsBudget ==
  ASSUME TypeOK, BudgetKept, DriverStep \/ EndStep \/ FaultStep PROVE BudgetKept'
  <1> USE DEF BudgetKept, LoopsStop
  <1>1. CASE Start \/ Commit \/ TurnCapReached \/ RoundBreaks \/ FinishMatch
             \/ EndingFails \/ HandleCrash \/ Exit
    BY <1>1 DEF Start, Commit, TurnCapReached, RoundBreaks, FinishMatch, EndingFails,
       HandleCrash, Exit
  <1>2. ASSUME NEW S \in Rounds, NEW broken, BeginRound(S, broken) PROVE BudgetKept'
    BY <1>2 DEF BeginRound
  <1>3. CASE EndStep
    BY <1>3 DEF EndStep, AbortSession, Publish, CloseSeat
  <1>4. CASE JointRefused \/ PublishFails \/ DriverRaises
    BY <1>4 DEF JointRefused, PublishFails, DriverRaises
  <1> QED BY <1>1, <1>2, <1>3, <1>4 DEF DriverStep, FaultStep

-----------------------------------------------------------------------------
(* Turn ids, and what a seat is sent after its terminal frame. *)

\* A step of a seat decides a turn id only by rejecting the action it holds.
LEMMA SeatKeepsAccepted ==
  ASSUME TypeOK, AcceptedIsFree, NEW s \in Seats, SeatStep(s) PROVE AcceptedIsFree'
  <1>a. SeatSummary(s)
    BY SeatStepSummary DEF SeatStep
  <1>1. CASE RejectAction(s)
    <2>1. /\ UNCHANGED <<committed, held, driver, round>>
          /\ rejected' = rejected \cup ({<<s, held[s].id>>} \cap (Seats \X TurnIds))
          /\ <<s, held[s].id>> \notin committed \cup rejected
      BY <1>1 DEF RejectAction, Decided
    <2>2. loop'[s] # "accepted"
      <3>1. CASE LoopMoves(s)
        BY <1>1, <3>1 DEF LoopMoves, RejectAction
      <3> QED BY <1>1, <3>1, ReadsOrGivesUp DEF RejectAction
    <2>3. \A r \in Seats \ {s} : loop'[r] = loop[r]
      BY <1>a DEF SeatSummary
    <2> QED BY <2>1, <2>2, <2>3 DEF AcceptedIsFree, Decided
  <1>2. CASE AcceptAction(s)
    BY <1>2 DEF AcceptAction, AcceptedIsFree, Decided, TypeOK, LoopOK
  <1>3. CASE ~RejectAction(s) /\ ~AcceptAction(s)
    <2>1. UNCHANGED <<committed, rejected, driver, round>>
      BY <1>3 DEF SeatStep, LoopStep, DropDuplicate, DiscardAction, ReadDisconnect,
         GraceEnds, ResendRequest, ReadExpires, AborterReturns, DeadlineFires,
         ResumeStep, ResumeRegisters, ClientStep, ReadAction, ReadMalformed,
         HeartbeatPing, HeartbeatTimeout, Drop, Resume
    <2>2. \A r \in Seats \ {s} : loop'[r] = loop[r] /\ held'[r] = held[r]
      <3>1. UNCHANGED held \/ \E f : held' = [held EXCEPT ![s] = f]
        BY <1>3 DEF SeatStep, LoopStep, DropDuplicate, DiscardAction, ReadDisconnect,
           GraceEnds, ResendRequest, ReadExpires, AborterReturns, DeadlineFires,
           ResumeStep, ResumeRegisters, ClientStep, ReadAction, ReadMalformed,
           HeartbeatPing, HeartbeatTimeout, Drop, Resume
      <3> QED BY <1>a, <3>1 DEF SeatSummary, TypeOK, LoopOK
    <2>3. loop'[s] # "accepted" \/ (loop'[s] = loop[s] /\ UNCHANGED held)
      <3>1. ASSUME AfterGrace(s) \/ Lost(s) PROVE loop'[s] # "accepted"
        BY <3>1 DEF AfterGrace, Lost, Install, RequestAbort, TypeOK, LoopOK
      <3>2. ASSUME loop[s] # "accepted", NextRead(s) \/ LoopEnds(s) \/ (\E why : RequestAbort(s, why))
            PROVE  loop'[s] # "accepted"
        BY <3>2, ReadsOrGivesUp DEF LoopMoves
      <3>3. CASE LoopStep(s)
        BY <1>3, <3>1, <3>2, <3>3 DEF LoopStep, DropDuplicate, DiscardAction,
           ReadDisconnect, GraceEnds, ResendRequest, ReadExpires, Expire,
           AborterReturns, TypeOK, LoopOK
      <3>4. CASE ClientStep(s)
        <4>1. CASE ReadMalformed(s)
          BY <3>1, <3>2, <4>1 DEF ReadMalformed
        <4>2. ASSUME NEW id, NEW legal, ReadAction(s, id, legal) PROVE loop'[s] # "accepted"
          BY <4>2 DEF ReadAction, TypeOK, LoopOK
        <4> QED BY <3>4, <4>1, <4>2 DEF ClientStep, HeartbeatPing, HeartbeatTimeout,
                Drop, Resume
      <3>5. CASE DeadlineFires(s) \/ ResumeStep(s)
        BY <3>5 DEF DeadlineFires, ResumeStep, ResumeRegisters
      <3> QED BY <3>3, <3>4, <3>5 DEF SeatStep
    <2> QED BY <2>1, <2>2, <2>3 DEF AcceptedIsFree, Decided
  <1> QED BY <1>1, <1>2, <1>3

\* A round commits the ids of the actions its loops accepted, which are free.
LEMMA MatchKeepsAccepted ==
  ASSUME TypeOK, AcceptedIsFree, DriverStep \/ EndStep \/ FaultStep
  PROVE  AcceptedIsFree'
  <1> USE DEF LoopsStop
  <1>1. CASE Commit
    <2>1. round \subseteq Seats
      BY DEF TypeOK, DriverOK
    <2>2. \A s \in round : <<s, held[s].id>> \notin rejected
      BY <1>1, <2>1 DEF Commit, AllAccepted, AcceptedIsFree, Decided
    <2>3. committed' \cap rejected' = {}
      BY <1>1, <2>2 DEF Commit, AcceptedIsFree
    <2> QED BY <1>1, <2>3 DEF Commit, AcceptedIsFree
  <1>2. ASSUME NEW S \in Rounds, NEW broken, BeginRound(S, broken) PROVE AcceptedIsFree'
    BY <1>2 DEF BeginRound, AcceptedIsFree, Decided
  <1>3. CASE Start \/ TurnCapReached \/ RoundBreaks \/ FinishMatch
             \/ EndingFails \/ HandleCrash \/ Exit
    BY <1>3 DEF Start, TurnCapReached, RoundBreaks, FinishMatch, EndingFails,
       HandleCrash, Exit, AcceptedIsFree, Decided
  <1>4. CASE EndStep
    BY <1>4 DEF EndStep, AbortSession, Publish, CloseSeat, AcceptedIsFree, Decided
  <1>5. CASE JointRefused \/ PublishFails \/ DriverRaises
    BY <1>5 DEF JointRefused, PublishFails, DriverRaises, AcceptedIsFree, Decided
  <1> QED BY <1>1, <1>2, <1>3, <1>4, <1>5 DEF DriverStep, FaultStep

\* A loop answers a frame only while the session runs, when no terminal frame
\* can have been sent.
LEMMA StepKeepsSilence ==
  ASSUME TypeOK, DriverInv, NoReplyAfterTerminal, Next PROVE NoReplyAfterTerminal'
  <1> USE DEF NoReplyAfterTerminal
  <1>1. ASSUME ~MatchOver, NEW s \in Seats, NEW k \in Conns, NEW kind, Send(s, k, kind)
        PROVE  UNCHANGED late
    BY <1>1 DEF Send, DriverInv, TerminalFrameTracked, EndFollowsSession, Closing,
       MatchOver, Running
  <1>2. ASSUME NEW s \in Seats, SeatStep(s)
        PROVE  late' \subseteq late \cup {"observation", "ping"}
    <2>1. act[s] \in Conns
      BY DEF TypeOK, LoopOK
    <2>2. CASE RejectAction(s) \/ ReadMalformed(s)
      BY <1>1, <2>1, <2>2 DEF RejectAction, ReadMalformed
    <2>3. CASE ResendRequest(s) \/ HeartbeatPing(s)
      BY <2>3 DEF ResendRequest, HeartbeatPing, Send
    <2>4. CASE ~(RejectAction(s) \/ ReadMalformed(s) \/ ResendRequest(s) \/ HeartbeatPing(s))
      BY <1>2, <2>4 DEF SeatStep, LoopStep, DropDuplicate, DiscardAction, AcceptAction,
         ReadDisconnect, GraceEnds, ReadExpires, AborterReturns, DeadlineFires,
         ResumeStep, ResumeRegisters, ClientStep, ReadAction, HeartbeatTimeout,
         Drop, Resume
    <2> QED BY <2>2, <2>3, <2>4
  <1>3. CASE DriverStep \/ EndStep \/ FaultStep \/ Terminated
    BY <1>3 DEF DriverStep, Start, Commit, TurnCapReached, RoundBreaks, FinishMatch,
       EndingFails, HandleCrash, Exit, BeginRound, EndStep, AbortSession, Publish,
       CloseSeat, FaultStep, JointRefused, PublishFails, DriverRaises, Terminated, vars
  <1> QED BY <1>2, <1>3 DEF Next, SeatStep

-----------------------------------------------------------------------------
(* The invariant of the loops, and what follows from it. *)

\* LoopInv is inductive relative to the types and to DriverInv,
LEMMA LoopInvInductive ==
  ASSUME TypeOK, DriverInv, LoopInv, [Next]_vars PROVE LoopInv'
  <1>1. CASE UNCHANGED vars
    BY <1>1 DEF vars, LoopInv, AbortKnown, CleanExit, ConnsInOrder,
       HeartbeatFollowsReader, BudgetKept, AcceptedIsFree, NoReplyAfterTerminal, Decided
  <1>2. CASE Next
    <2> USE DEF LoopInv
    <2>1. CleanExit' /\ NoReplyAfterTerminal'
      BY <1>2, StepKeepsCleanExit, StepKeepsSilence
    <2>2. CASE DriverStep \/ EndStep \/ FaultStep
      BY <2>1, <2>2, MatchKeepsAbortKnown, MatchKeepsLinks, MatchKeepsBudget,
         MatchKeepsAccepted DEF Links
    <2>3. ASSUME NEW s \in Seats, SeatStep(s) PROVE LoopInv'
      BY <2>1, <2>3, SeatKeepsAbortKnown, SeatKeepsLinks, SeatKeepsBudget,
         SeatKeepsAccepted DEF Links
    <2> QED BY <1>1, <1>2, <2>2, <2>3 DEF Next, SeatStep, Terminated
  <1> QED BY <1>1, <1>2

\* and holds of the state in which run_match is called.
LEMMA LoopInvariant == Spec => []LoopInv
  <1>1. Init => LoopInv
    <2> SUFFICES ASSUME Init PROVE LoopInv
      OBVIOUS
    <2>1. AbortKnown /\ CleanExit /\ NoReplyAfterTerminal
      BY DEF Init, AbortKnown, CleanExit, NoReplyAfterTerminal
    <2>2. ConnsInOrder /\ HeartbeatFollowsReader
      BY DEF Init, ConnsInOrder, HeartbeatFollowsReader, None
    <2>3. BudgetKept /\ AcceptedIsFree
      BY DEF Init, BudgetKept, AcceptedIsFree
    <2> QED BY <2>1, <2>2, <2>3 DEF LoopInv
  <1> QED BY <1>1, LoopInvInductive, TypeCorrect, DriverInvariant, PTL DEF Spec

\* When run_match has returned its match is over and nothing it started runs on.
THEOREM ExitIsClean == Spec => []CleanExit
  <1>1. LoopInv => CleanExit
    BY DEF LoopInv
  <1> QED BY <1>1, LoopInvariant, PTL

\* A reading loop is the one whose pongs its heartbeat waits for.
THEOREM ReaderIsPinged == Spec => []HeartbeatFollowsReader
  <1>1. LoopInv => HeartbeatFollowsReader
    BY DEF LoopInv
  <1> QED BY <1>1, LoopInvariant, PTL

\* No seat is rejected more often in a turn than its budget allows, however
\* often it resumes (section 8.6).
THEOREM BudgetHolds == Spec => []RejectionsBounded
  <1>1. LoopInv => RejectionsBounded
    BY DEF LoopInv, BudgetKept, RejectionsBounded
  <1> QED BY <1>1, LoopInvariant, PTL

\* No error and no rejection follows a terminal frame (runtime_bridge.py:1553).
THEOREM SilentAfterTerminal == Spec => []NoReplyAfterTerminal
  <1>1. LoopInv => NoReplyAfterTerminal
    BY DEF LoopInv
  <1> QED BY <1>1, LoopInvariant, PTL

\* Only a commit records a committed turn id.
LEMMA OnlyCommitCommits ==
  ASSUME Next, ~Commit PROVE UNCHANGED committed
  <1>1. ASSUME NEW s \in Seats, SeatStep(s) PROVE UNCHANGED committed
    BY <1>1 DEF SeatStep, LoopStep, DropDuplicate, DiscardAction, AcceptAction,
       RejectAction, ReadDisconnect, GraceEnds, ResendRequest, ReadExpires,
       AborterReturns, DeadlineFires, ResumeStep, ResumeRegisters, ClientStep,
       ReadAction, ReadMalformed, HeartbeatPing, HeartbeatTimeout, Drop, Resume
  <1>2. ASSUME NEW S \in Rounds, NEW broken, BeginRound(S, broken)
        PROVE  UNCHANGED committed
    BY <1>2 DEF BeginRound
  <1>3. CASE DriverStep \/ EndStep \/ FaultStep
    BY <1>2, <1>3 DEF DriverStep, Start, TurnCapReached, RoundBreaks, FinishMatch,
       EndingFails, HandleCrash, Exit, EndStep, AbortSession, Publish, CloseSeat,
       FaultStep, JointRefused, PublishFails, DriverRaises
  <1> QED BY <1>1, <1>3 DEF Next, SeatStep, Terminated, vars

\* A refused turn id is never committed, and no id is committed in two turns.
THEOREM TurnIdsAreSpent == Spec => TurnIdsDecidedOnce
  <1> DEFINE Once == \A s \in Seats : \A id \in TurnIds :
       /\ <<s, id>> \in rejected => <<s, id>> \notin committed'
       /\ (turns' # turns /\ s \in round /\ held[s].id = id)
            => <<s, id>> \notin committed \cup rejected
  <1>1. TypeOK /\ DriverInv /\ LoopInv /\ LoopInv' /\ [Next]_vars => [Once]_vars
    <2> SUFFICES ASSUME TypeOK, DriverInv, LoopInv, LoopInv', Next PROVE Once
      BY DEF vars
    <2> USE DEF LoopInv, AcceptedIsFree
    <2>1. CASE Commit
      <3>1. \A s \in round : ~Decided(s)
        BY <2>1 DEF Commit, AllAccepted, TypeOK, DriverOK
      <3> QED BY <2>1, <3>1 DEF Commit, Decided
    <2>2. CASE Start
      BY <2>2 DEF Start
    <2>3. CASE ~Commit /\ ~Start
      <3>1. UNCHANGED turns
        BY <2>3, OtherStepsKeepSession DEF SessionStep, AbortSession, Publish
      <3>2. UNCHANGED committed
        BY <2>3, OnlyCommitCommits
      <3> QED BY <3>1, <3>2
    <2> QED BY <2>1, <2>2, <2>3
  <1> QED BY <1>1, LoopInvariant, TypeCorrect, DriverInvariant, PTL
          DEF Spec, TurnIdsDecidedOnce

\* A seat is given up as lost only by its own loop, at the end of its grace or
\* on finding its connection gone, when it has no other open connection.
LEMMA LostSeatIsGone ==
  ASSUME TypeOK, LoopInv, NEW s \in Seats, SeatStep(s),
         loop[s] # "aborting", loop'[s] = "aborting",
         reason # "seat_lost", reason' = "seat_lost"
  PROVE  cur[s] \notin open[s]
  <1>0. cur[s] # None
    BY DEF TypeOK, ConnOK, Conns, None
  <1>1. ASSUME AfterGrace(s) PROVE cur[s] = act[s]
    BY <1>0, <1>1 DEF AfterGrace, Install, RequestAbort, Reconnected
  <1>2. ASSUME Lost(s) PROVE FALSE
    <2>1. CASE cur[s] = act[s]
      BY <1>2, <2>1 DEF Lost
    <2> QED BY <1>1, <1>2, <2>1 DEF Lost
  <1>3. ASSUME NextRead(s) \/ LoopEnds(s) \/ RequestAbort(s, "budget") \/ Expire(s) PROVE FALSE
    BY <1>3 DEF NextRead, LoopEnds, Expire, RequestAbort
  <1>4. CASE GraceEnds(s)
    BY <1>1, <1>4 DEF GraceEnds, LoopInv, ConnsInOrder
  <1>5. CASE LoopStep(s) /\ ~GraceEnds(s)
    BY <1>2, <1>3, <1>5 DEF LoopStep, DropDuplicate, DiscardAction, AcceptAction,
       RejectAction, ReadDisconnect, ResendRequest, ReadExpires, AborterReturns
  <1>6. CASE ClientStep(s)
    <2>1. CASE ReadMalformed(s)
      BY <1>2, <1>3, <2>1 DEF ReadMalformed
    <2> QED BY <1>6, <2>1 DEF ClientStep, ReadAction, HeartbeatPing,
            HeartbeatTimeout, Drop, Resume
  <1>7. CASE DeadlineFires(s) \/ ResumeStep(s)
    BY <1>7 DEF DeadlineFires, ResumeStep, ResumeRegisters
  <1> QED BY <1>4, <1>5, <1>6, <1>7 DEF SeatStep

\* No match is aborted for a lost seat that has an open connection.
THEOREM ResumedSeatNotLost == Spec => ResumedSeatIsKept
  <1> DEFINE Kept == \A s \in Seats :
       (ending = "no" /\ reason' = "seat_lost" /\ loop'[s] = "aborting")
         => cur[s] \notin open[s]
  <1>1. TypeOK /\ LoopInv /\ [Next]_vars => [Kept]_vars
    <2> SUFFICES ASSUME TypeOK, LoopInv, Next, NEW s \in Seats,
                        ending = "no", reason' = "seat_lost", loop'[s] = "aborting"
                 PROVE  cur[s] \notin open[s]
      BY DEF vars
    <2>0. reason # "seat_lost" /\ loop[s] # "aborting"
      BY DEF LoopInv, AbortKnown
    <2>1. ASSUME NEW r \in Seats, SeatStep(r) PROVE cur[s] \notin open[s]
      <3>1. r = s
        BY <2>0, <2>1, SeatStepSummary DEF SeatStep, SeatSummary
      <3> QED BY <2>0, <2>1, <3>1, LostSeatIsGone
    <2>2. CASE DriverStep \/ EndStep \/ FaultStep
      <3>1. ASSUME NEW S \in Rounds, NEW broken, BeginRound(S, broken) PROVE UNCHANGED reason
        BY <3>1 DEF BeginRound
      <3> QED BY <2>0, <2>2, <3>1 DEF DriverStep, Start, Commit, TurnCapReached,
              RoundBreaks, FinishMatch, EndingFails, HandleCrash, Exit, EndStep,
              AbortSession, Publish, CloseSeat, FaultStep, JointRefused,
              PublishFails, DriverRaises
    <2> QED BY <2>0, <2>1, <2>2 DEF Next, SeatStep, Terminated, vars
  <1> QED BY <1>1, LoopInvariant, TypeCorrect, PTL DEF Spec, ResumedSeatIsKept

-----------------------------------------------------------------------------
(* Where one seat acts at a time and game code raises at most once, no exit *)
(* is silent.                                                               *)

\* What ExitInv needs to know of a step of the only loop of a round.
SoleLoopSummary(s) ==
  /\ SeatSummary(s) /\ UNCHANGED faults
  /\ loop'[s] = "raised" => loop[s] = "raised" \/ ending = "failed"
  /\ loop'[s] = "ended" => loop[s] = "ended" \/ ending = "done" \/ (MatchOver /\ loop[s] \notin Hopeless)

\* A loop raises only what its own abort raised, and returns None when its own
\* abort is through or the match is over.
LEMMA SeatStepOfSoleLoop ==
  ASSUME TypeOK, NEW s \in Seats, SeatStep(s) PROVE SoleLoopSummary(s)
  <1>0. SeatSummary(s) /\ UNCHANGED faults
    <2>1. UNCHANGED faults
      BY DEF SeatStep, LoopStep, DropDuplicate, DiscardAction, AcceptAction,
         RejectAction, ReadDisconnect, GraceEnds, ResendRequest, ReadExpires,
         AborterReturns, DeadlineFires, ResumeStep, ResumeRegisters, ClientStep,
         ReadAction, ReadMalformed, HeartbeatPing, HeartbeatTimeout, Drop, Resume
    <2> QED BY <2>1, SeatStepSummary DEF SeatStep
  <1> USE <1>0 DEF SoleLoopSummary, Hopeless
  <1>1. ASSUME AfterGrace(s) \/ Lost(s) PROVE loop'[s] \notin {"raised", "ended"}
    BY <1>1 DEF AfterGrace, Lost, Install, RequestAbort, TypeOK, LoopOK
  <1>2. ASSUME NextRead(s) \/ LoopEnds(s) \/ (\E why : RequestAbort(s, why))
        PROVE  loop'[s] # "raised"
    BY <1>2 DEF NextRead, Expire, RequestAbort, LoopEnds, TypeOK, LoopOK
  <1>3. ASSUME NextRead(s) \/ (\E why : RequestAbort(s, why)) \/ Expire(s), ~MatchOver
        PROVE  loop'[s] # "ended"
    BY <1>3 DEF NextRead, Expire, RequestAbort, TypeOK, LoopOK
  <1>4. CASE LoopStep(s)
    <2>1. CASE AborterReturns(s)
      BY <2>1 DEF AborterReturns, TypeOK, LoopOK
    <2>2. CASE AcceptAction(s)
      BY <2>2 DEF AcceptAction, TypeOK, LoopOK
    <2> QED BY <1>1, <1>2, <1>3, <1>4, <2>1, <2>2 DEF LoopStep, DropDuplicate,
            DiscardAction, RejectAction, ReadDisconnect, GraceEnds, ResendRequest,
            ReadExpires, Expire
  <1>5. CASE ClientStep(s)
    <2>1. ASSUME NEW id, NEW legal, ReadAction(s, id, legal) PROVE SoleLoopSummary(s)
      BY <2>1 DEF ReadAction, TypeOK, LoopOK
    <2>2. CASE ReadMalformed(s)
      BY <1>1, <1>2, <1>3, <2>2 DEF ReadMalformed
    <2> QED BY <1>5, <2>1, <2>2 DEF ClientStep, HeartbeatPing, HeartbeatTimeout,
            Drop, Resume
  <1>6. CASE DeadlineFires(s) \/ ResumeStep(s)
    BY <1>6 DEF DeadlineFires, ResumeStep, ResumeRegisters
  <1> QED BY <1>4, <1>5, <1>6 DEF SeatStep

\* A step of the only loop keeps ExitInv: were the match over before the loop
\* gave up, another loop would have ended it.
LEMMA SeatKeepsExit ==
  ASSUME TypeOK, DriverInv, ExitInv, NEW s \in Seats, SeatStep(s) PROVE ExitInv'
  <1>0. SoleLoopSummary(s)
    BY SeatStepOfSoleLoop
  <1> USE <1>0 DEF ExitInv, SoleLoopSummary, SeatSummary
  <1>1. ASSUME loop'[s] = "ended" PROVE ending' = "done"
    <2>1. CASE loop[s] = "ended" \/ ending = "done"
      BY <2>1
    <2>2. CASE MatchOver /\ loop[s] \notin Hopeless /\ loop[s] # "off"
      BY <2>2 DEF DriverInv, LoopsInRound, AborterInRound, EndFollowsSession,
         MatchOver, Running, Hopeless
    <2> QED BY <1>1, <2>1, <2>2 DEF Hopeless
  <1>2. (\E r \in Seats : loop'[r] = "raised") => faults >= 1
    OBVIOUS
  <1>3. AllTold' = AllTold
    BY DEF AllTold, Told
  <1>4. ending' # ending => ending' = "requested" /\ ending = "no"
    OBVIOUS
  <1>5. \A r \in Seats \ {s} : loop'[r] = "ended" => ending' = "done"
    BY <1>4
  <1> QED BY <1>1, <1>2, <1>3, <1>4, <1>5 DEF Closing

\* So does every step of run_match: the one exception it may have to survive is
\* the one that brought it to its crash handler.
LEMMA MatchKeepsExit ==
  ASSUME OneLoopOneFault, TypeOK, DriverInv, LoopInv, ExitInv,
         DriverStep \/ EndStep \/ FaultStep
  PROVE  ExitInv'
  <1> USE DEF ExitInv, LoopsStop, AllTold, Told, Closing
  <1>0. faults \in Nat /\ MaxFaults <= 1 /\ MaxFaults \in Nat
    BY DEF OneLoopOneFault, TypeOK, DriverOK
  <1>1. CASE Start \/ Commit \/ TurnCapReached \/ FinishMatch \/ EndingFails
    <2>1. CASE Start
      BY <2>1 DEF Start
    <2>2. CASE Commit
      BY <2>2 DEF Commit
    <2>3. CASE TurnCapReached \/ FinishMatch \/ EndingFails
      BY <2>3 DEF TurnCapReached, FinishMatch, EndingFails, DriverInv, EndFollowsSession
    <2> QED BY <1>1, <2>1, <2>2, <2>3
  <1>2. CASE RoundBreaks
    BY <1>2 DEF RoundBreaks, TypeOK, DriverOK
  <1>3. CASE HandleCrash
    BY <1>3 DEF HandleCrash, AfterCrash, DriverInv, LoopsInRound
  <1>4. CASE Exit
    BY <1>4 DEF Exit
  <1>5. ASSUME NEW S \in Rounds, NEW broken, BeginRound(S, broken),
               broken = {} \/ \E b \in Seats : broken = {b}
        PROVE  ExitInv'
    <2>1. broken = {} \/ faults' >= 1
      <3>1. broken = {} \/ Cardinality(broken) = 1
        BY <1>5, FS_Singleton
      <3> QED BY <1>0, <1>5, <3>1 DEF BeginRound
    <2>2. faults' \in Nat /\ faults' >= faults
      <3>1. Cardinality(broken) \in {0, 1}
        BY <1>5, FS_Singleton, FS_EmptySet
      <3> QED BY <1>0, <1>5, <3>1 DEF BeginRound
    <2>3. \E s \in Seats : S = {s}
      BY DEF OneLoopOneFault
    <2>4. /\ ending = "no" /\ UNCHANGED <<ending, crashed, terminalSent, told>>
          /\ driver' = "round" /\ round' = S
          /\ \A s \in Seats : loop'[s] # "ended"
          /\ \A s \in Seats : loop'[s] = "raised" => broken # {}
      <3>1. ending = "no"
        BY <1>5 DEF BeginRound, DriverInv, EndFollowsSession
      <3>2. \A s \in Seats : loop'[s] = IF s \in broken THEN "raised"
                                        ELSE IF s \in S THEN "receive" ELSE "off"
        BY <1>5 DEF BeginRound
      <3> QED BY <1>5, <3>1, <3>2 DEF BeginRound
    <2> QED BY <1>0, <2>1, <2>2, <2>3, <2>4
  <1>6. CASE AbortSession
    BY <1>6 DEF AbortSession
  <1>7. CASE Publish
    <2>1. AllTold'
      <3> SUFFICES ASSUME NEW s \in Seats PROVE \E k \in Conns : told'[s][k] > 0
        OBVIOUS
      <3>1. cur[s] \in Conns /\ told[s][cur[s]] \in Nat
        BY DEF TypeOK, ConnOK
      <3>2. told'[s] = [told[s] EXCEPT ![cur[s]] = @ + 1]
        BY <1>7 DEF Publish, TellSeats
      <3>3. told'[s][cur[s]] > 0
        BY <3>1, <3>2 DEF TypeOK, ConnOK
      <3> QED BY <3>1, <3>3
    <2> HIDE DEF AllTold
    <2> QED BY <1>7, <2>1 DEF Publish
  <1>8. ASSUME NEW s \in Seats, CloseSeat(s) PROVE ExitInv'
    BY <1>8 DEF CloseSeat
  <1>9. CASE JointRefused
    <2>1. PICK s \in Seats : round = {s}
      BY <1>9 DEF JointRefused
    <2>2. Cardinality(round) = 1
      BY <2>1, FS_Singleton
    <2> QED BY <1>9, <2>2 DEF JointRefused
  <1>10. CASE PublishFails
    BY <1>0, <1>10 DEF PublishFails, Handling
  <1>11. CASE DriverRaises
    BY <1>0, <1>11 DEF DriverRaises
  <1> QED BY <1>1, <1>2, <1>3, <1>4, <1>5, <1>6, <1>7, <1>8, <1>9, <1>10, <1>11
          DEF DriverStep, EndStep, FaultStep

\* In a game whose seats take turns, run_match never returns without having sent
\* each seat its terminal frame, though game code raises anywhere once.
THEOREM NoSilentExit ==
  ASSUME OneLoopOneFault PROVE Spec => []ExitTellsEverySeat
  <1>1. Init => ExitInv
    BY DEF Init, ExitInv, Closing
  <1>2. TypeOK /\ DriverInv /\ LoopInv /\ ExitInv /\ [Next]_vars => ExitInv'
    <2> SUFFICES ASSUME TypeOK, DriverInv, LoopInv, ExitInv, [Next]_vars
                 PROVE  ExitInv'
      OBVIOUS
    <2>1. CASE UNCHANGED vars
      BY <2>1 DEF vars, ExitInv, Closing, AllTold, Told
    <2>2. CASE Next
      BY <2>1, <2>2, MatchKeepsExit, SeatKeepsExit DEF Next, SeatStep, Terminated
    <2> QED BY <2>1, <2>2
  <1>3. ExitInv => ExitTellsEverySeat
    BY DEF ExitInv, AllTold, ExitTellsEverySeat
  <1> QED BY <1>1, <1>2, <1>3, TypeCorrect, DriverInvariant, LoopInvariant, PTL DEF Spec

=============================================================================
