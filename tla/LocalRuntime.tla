---------------------------- MODULE LocalRuntime ----------------------------
(***************************************************************************)
(* Local sessions (src/src/arena/runtime/session.py) asking their policies  *)
(* (src/src/arena/adapters/in_process.py), driven as the command line       *)
(* drives them (src/src/arena/cli/play/__init__.py): request a turn, let    *)
(* the policy answer, drain the notes agents left, and at the end write the *)
(* status and the transcript.                                               *)
(*                                                                          *)
(* A session is immutable in the code; the variables are the fields of the  *)
(* one play_match holds.  What a policy does is chosen: it answers, for any *)
(* seat and with any action tried, it fails, or the human at it quits.      *)
(***************************************************************************)
EXTENDS RuntimePayloads

CONSTANTS Configs,          \* the games and configs played
          BoundSeats,       \* sets of seats that may have a policy
          Agents,           \* seats played by agents, which leave notes
          Answers(_, _, _), \* responses a policy tries: config, state, seat
          MaxTurns(_),      \* bound: a config's turns, past which none is requested
          MaxRetries        \* bound: times an agent asks again, in a match

\* The games the project ships, with any config their classes accept.
ASSUME RuntimeAssumption ==
    /\ Configs \subseteq GameConfigs
    /\ BoundSeats \subseteq SUBSET VALID_SEATS
    /\ Agents \subseteq VALID_SEATS
    /\ MaxRetries \in Nat

VARIABLES config, bindings, lifecycle, match, events, abort,
          requested,        \* the seat of the requested turn, NoSeat
          artefacts         \* <<>>, or the status and the transcript written

vars == <<config, bindings, lifecycle, match, events, abort, requested, artefacts>>

Session == [config |-> config, lifecycle |-> lifecycle, match |-> match,
            events |-> events, abort |-> abort]

TheMatch == match[1]

Over(m) == Terminal(m.config, m.state)

JointNow == Joint(config, TheMatch.state)

ActingNow == Acting(config, TheMatch.state)

(***************************************************************************)
(* Runtime events.  What an agent writes is about the hand it was shown.    *)
(***************************************************************************)
Plain(type) == [event_type |-> type]

TurnRequested(seat) == [event_type |-> "TurnRequested", seat |-> seat]

\* Mutant: the index of the turn before.
TurnAcceptedEarly(seat) == [event_type |-> "TurnAccepted", seat |-> seat,
                            turn_index |-> Len(TheMatch.turns)]

TurnAccepted(seat) == [event_type |-> "TurnAccepted", seat |-> seat,
                       turn_index |-> Len(TheMatch.turns) + 1]

MatchAborted(a) == [event_type |-> "MatchAborted", abort |-> a]

Note(type, seat) ==
    [event_type |-> type, seat |-> seat,
     says |-> IF HiddenInformation(config) THEN Text(TheMatch.state.dice[seat])
              ELSE Text(<<>>)]

\* An event for each of the seats, in seat order.
ForSeats(Event(_), seats) ==
    When(0 \in seats, Event(0)) \o When(1 \in seats, Event(1))

\* _drain_retry_sink, then _drain_decision_sink.
Notes(retried, decided) ==
    ForSeats(LAMBDA seat : Note("PolicyRetried", seat), retried)
        \o ForSeats(LAMBDA seat : Note("PolicyDecided", seat), decided)

Retried == Cardinality({i \in DOMAIN events : events[i].event_type = "PolicyRetried"})

\* The asked agents that asked their model again before they answered.
MayRetry(asked) ==
    {seats \in SUBSET (asked \cap Agents) : Retried + Cardinality(seats) <= MaxRetries}

(***************************************************************************)
(* How a step ends: _abort_session, or the next match and _finish_session.  *)
(* The notes of the step are drained after it, also past the match's end.   *)
(***************************************************************************)
AbortWith(reason, cause, told, notes) ==
    LET a == [reason |-> reason, cause |-> cause]
    IN /\ lifecycle' = "aborted"
       /\ abort' = a
       /\ events' = events \o told \o <<MatchAborted(a)>> \o notes
       /\ requested' = NoSeat
       /\ UNCHANGED <<config, bindings, match, artefacts>>

AdvanceTo(next, told, notes) ==
    /\ match' = <<next>>
    /\ lifecycle' = IF Over(next) THEN "finished" ELSE "running"
    /\ events' = events \o told \o When(Over(next), Plain("MatchFinished")) \o notes
    /\ requested' = NoSeat
    /\ UNCHANGED <<config, bindings, abort, artefacts>>

\* create_session, for every game, config and set of bound policies.
Init ==
    /\ config \in Configs
    /\ bindings \in BoundSeats
    /\ lifecycle = "created"
    /\ match = <<>>
    /\ events = <<Plain("MatchCreated")>>
    /\ abort = NoData
    /\ requested = NoSeat
    /\ artefacts = <<>>

StartSession ==
    /\ lifecycle = "created"
    /\ \E m \in StartMatch(config) :
          /\ match' = <<m>>
          /\ lifecycle' = IF Over(m) THEN "finished" ELSE "running"
          /\ events' = events \o <<Plain("MatchStarted")>>
                              \o When(Over(m), Plain("MatchFinished"))
    /\ UNCHANGED <<config, bindings, abort, requested, artefacts>>

Playing == lifecycle = "running" /\ Len(TheMatch.turns) < MaxTurns(config)

RequestTurn ==
    /\ Playing
    /\ requested = NoSeat
    /\ ~JointNow
    /\ requested' = CurrentSeat(TheMatch)
    /\ events' = Append(events, TurnRequested(requested'))
    /\ UNCHANGED <<config, bindings, lifecycle, match, abort, artefacts>>

(***************************************************************************)
(* complete_turn.                                                           *)
(***************************************************************************)
Asked == requested # NoSeat /\ requested \in bindings

PolicyMissing ==
    /\ requested # NoSeat
    /\ requested \notin bindings
    /\ AbortWith("missing_policy", NoData, <<>>, <<>>)

\* A response may name any seat and any action of the game.
PolicyAnswers ==
    /\ Asked
    /\ \E r \in [seat : VALID_SEATS, action : Actions(config)]
                   \cap Answers(config, TheMatch.state, requested),
          retried \in MayRetry({requested}) :
          LET notes == Notes(retried, {requested} \cap Agents)
          IN IF ActionAccepted(TheMatch, r.seat, r.action)
             THEN \E next \in Settled(AfterAction(TheMatch, r.seat, r.action)) :
                      AdvanceTo(next, <<TurnAccepted(requested)>>, notes)
             ELSE AbortWith("core_error", Text(<<>>), <<>>, notes)

\* The policy raises: the exception's text may quote what it was shown.
PolicyFails ==
    /\ Asked
    /\ \E retried \in MayRetry({requested}) :
          AbortWith("adapter_error", Note("failed", requested).says, <<>>,
                    Notes(retried, {}))

\* HumanQuit, or an interrupt at any policy, leaves complete_turn: the
\* requested session is aborted and the loop left with the sinks undrained.
UserStops ==
    /\ Asked
    /\ AbortWith("user_quit", NoData, <<>>, <<>>)

(***************************************************************************)
(* _step_joint: every acting seat is asked in seat order, then the round is *)
(* applied at once.                                                         *)
(***************************************************************************)
JointTurn == Playing /\ JointNow

AllRequested == ForSeats(TurnRequested, ActingNow)

JointPolicyMissing ==
    /\ JointTurn
    /\ ~(ActingNow \subseteq bindings)
    /\ AbortWith("missing_policy", NoData, AllRequested, <<>>)

JointPoliciesAnswer ==
    /\ JointTurn
    /\ ActingNow \subseteq bindings
    /\ \E actions \in [ActingNow -> Actions(config)], retried \in MayRetry(ActingNow) :
          LET notes == Notes(retried, ActingNow \cap Agents)
          IN IF JointValid(config, TheMatch.state, actions)
             THEN AdvanceTo(AfterJoint(TheMatch, actions),
                            AllRequested \o ForSeats(TurnAccepted, ActingNow), notes)
             ELSE AbortWith("core_error", Text(<<>>), AllRequested, notes)

Before(seat) == {other \in ActingNow : other < seat}

\* One policy raises, or answers for a seat it was not asked for; the seats
\* before it have decided already.
JointPolicyFails ==
    /\ JointTurn
    /\ ActingNow \subseteq bindings
    /\ \E seat \in ActingNow, wrongSeat \in BOOLEAN :
          LET decided == Before(seat) \cup (IF wrongSeat THEN {seat} ELSE {})
          IN \E retried \in MayRetry(Before(seat) \cup {seat}) :
                AbortWith("adapter_error", Text(<<>>), AllRequested,
                          Notes(retried, decided \cap Agents))

\* The step is lost with its exception: the driver records the requests of
\* the round, and the notes the agents left before the user stopped it.
JointUserStops ==
    /\ JointTurn
    /\ ActingNow \subseteq bindings
    /\ \E seat \in ActingNow :
          \E retried \in MayRetry(Before(seat) \cup {seat}) :
             LET a == [reason |-> "user_quit", cause |-> NoData]
             IN /\ lifecycle' = "aborted"
                /\ abort' = a
                /\ events' = events \o AllRequested
                                    \o Notes(retried, Before(seat) \cap Agents)
                                    \o <<MatchAborted(a)>>
                /\ UNCHANGED <<config, bindings, match, requested, artefacts>>

(***************************************************************************)
(* _viewer and _render: what the terminal shows while the match runs.  The  *)
(* seats without an agent are humans at this terminal.                      *)
(***************************************************************************)
HumanSeats == VALID_SEATS \ Agents

ScreenViewer(session) ==
    IF ~HiddenInformation(session.config) THEN FULL_VIEW
    ELSE IF Cardinality(HumanSeats) = 1 THEN CHOOSE seat \in HumanSeats : TRUE
    ELSE IF HumanSeats # {} THEN session.match[1].state.current_seat
    ELSE PUBLIC

Screen(session) ==
    LET viewer == ScreenViewer(session)
        shown(e) == HumanSeats = {} \/ ~SeatPrivate(e) \/ e.seat \in HumanSeats
    IN [status |-> DumpStatus(session, viewer),
        transcript |-> [DumpRuntime(session, viewer) EXCEPT
                          !.events = Listed(@, shown, LAMBDA e : e)]]

\* Mutant: an aborted match leaves no record.
WriteArtefactsFinished ==
    /\ lifecycle = "finished"
    /\ artefacts = <<>>
    /\ artefacts' = <<DumpStatus(Session, FULL_VIEW), DumpRuntime(Session, FULL_VIEW)>>
    /\ UNCHANGED <<config, bindings, lifecycle, match, events, abort, requested>>

\* play_match writes status.json and transcript.json, always the full record.
WriteArtefacts ==
    /\ lifecycle \in {"finished", "aborted"}
    /\ artefacts = <<>>
    /\ artefacts' = <<DumpStatus(Session, FULL_VIEW), DumpRuntime(Session, FULL_VIEW)>>
    /\ UNCHANGED <<config, bindings, lifecycle, match, events, abort, requested>>

Next ==
    \/ StartSession
    \/ RequestTurn
    \/ PolicyMissing \/ PolicyAnswers \/ PolicyFails \/ UserStops
    \/ JointPolicyMissing \/ JointPoliciesAnswer \/ JointPolicyFails \/ JointUserStops
    \/ WriteArtefacts

\* play_match is one loop in one thread: while it can step, it steps, if the
\* policies answer.
Spec == Init /\ [][Next]_vars /\ WF_vars(Next)
-----------------------------------------------------------------------------
(***************************************************************************)
(* PROPERTIES                                                               *)
(***************************************************************************)
Started == match # <<>>

LastTurn == TheMatch.turns[Len(TheMatch.turns)]

\* The three readings of a game's rules agree at every state play reaches: an
\* action is listed for a seat exactly when validating it succeeds, the result
\* computed from the state alone is the one the last move announced, the state
\* is one load_state accepts, and a live match waits for a seat, never a die.
RulesAgree ==
    Started =>
        LET m == TheMatch
        IN /\ \A seat \in VALID_SEATS :
                 Legal(config, m.state, seat)
                     = {a \in Actions(config) : Valid(config, m.state, seat, a)}
           /\ m.turns # <<>> => LastTurn.result = Result(config, m.state)
           /\ GameState(config, m.state)
           /\ Over(m) \/ Acting(config, m.state) # {}

Saved == artefacts # <<>> /\ Started

SavedRuntime == artefacts[2]

SavedMatch == SavedRuntime.match_transcript[1]

\* A match judged by the default winning length, which is not always its own.
DefaultRules == Shared(config) = config

\* The same record, passed off as that of a match that ended the other way.
Claims ==
    {[SavedRuntime EXCEPT !.lifecycle = other, !.abort = NoData] :
        other \in (IF lifecycle = "finished" THEN {"running"} ELSE {"finished"})}

\* Whatever was played, the transcript written at the end replays to the same
\* states, events and results, with no seed; and, for a match of the default
\* rules, the runtime transcript that wraps it validates, so a finished match
\* is never refused and an unfinished one never passes for a finished one.
ReplaysAsPlayed ==
    Saved =>
        /\ Replays(config, SavedMatch) = {TheMatch}
        /\ DefaultRules =>
              \A p \in {SavedRuntime} \cup Claims :
                 RuntimeValidates(config, p) <=> p = SavedRuntime

\* The same without the exception: every transcript play_match writes of a
\* match of this game validates.
RuntimeTranscriptsValidate == Saved => RuntimeValidates(config, SavedRuntime)

(***************************************************************************)
(* A payload that was tampered with.  IsPlay says, turn by turn and without *)
(* replaying, that a transcript could have been written by a match.         *)
(***************************************************************************)
Without(s, i) == [j \in 1..(Len(s) - 1) |-> IF j < i THEN s[j] ELSE s[j + 1]]

Twice(s, i) == [j \in 1..(Len(s) + 1) |-> IF j <= i THEN s[j] ELSE s[j - 1]]

Swapped(s, i) == [s EXCEPT ![i] = s[i + 1], ![i + 1] = s[i]]

\* The first event of a turn marked for seat 0, and for nobody else or for all.
Addressed(s, i, b) == [s EXCEPT ![i].events[1].audience = {0},
                                ![i].events[1].is_public = b]

\* The turns tampered with: the first, and the last two.
Touched(n) == ({1} \cup (n - 1)..n) \cap 1..n

Tampered(p) ==
    LET n == Len(p.turns)
        turns(new) == [p EXCEPT !.turns = new]
    IN {turns(Without(p.turns, i)) : i \in Touched(n)}
       \cup {turns(Twice(p.turns, i)) : i \in Touched(n)}
       \cup {turns(Swapped(p.turns, i)) : i \in Touched(n) \ {n}}
       \cup {turns([p.turns EXCEPT ![i].result = r]) :
                i \in Touched(n), r \in {Win(0), Draw, NoResult}}
       \cup {turns([p.turns EXCEPT ![i].post_state = p.initial_state]) : i \in Touched(n)}
       \cup {turns(Addressed(p.turns, i, b)) : i \in Touched(n), b \in BOOLEAN}
       \cup {[p EXCEPT !.schema_version = v] : v \in 0..5}
       \cup {[p EXCEPT !.view = "public"]}

StateBefore(p, i) == IF i = 1 THEN Initial(p.config) ELSE p.turns[i - 1].post_state

\* The turn i is one a game at the state before it could make.
IsMove(p, i) ==
    LET s == StateBefore(p, i)
        t == p.turns[i]
        made(kind, seat, action, actions, outcome, transition) ==
            t = [Turn(kind, seat, action, actions, outcome, transition) EXCEPT
                    !.events = DumpEvents(@)]
    IN CASE Chance(p.config, s) ->
              \E o \in Outcomes(p.config, s) :
                 made("chance", NoSeat, NoData, <<>>, o, ApplyChance(p.config, s, o))
         [] Joint(p.config, s) ->
              \E a \in [VALID_SEATS -> Actions(p.config)] :
                 made("joint", NoSeat, NoData, <<a>>, NoData, ApplyJoint(p.config, s, a))
         [] OTHER ->
              \E seat \in Acting(p.config, s) : \E a \in Legal(p.config, s, seat) :
                 made("action", seat, a, <<>>, NoData, Apply(p.config, s, seat, a))

\* The oldest version that has all the transcript uses.
NeedsVersion(p) ==
    IF \E i \in DOMAIN p.turns : p.turns[i].kind = "joint" THEN 4
    ELSE IF \E i \in DOMAIN p.turns : \E j \in DOMAIN p.turns[i].events :
                p.turns[i].events[j].audience # {} THEN 3
    ELSE IF \E i \in DOMAIN p.turns : p.turns[i].kind = "chance" THEN 2
    ELSE 1

IsPlay(p) ==
    /\ p.view = "full"
    /\ p.schema_version \in NeedsVersion(p)..MATCH_TRANSCRIPT_SCHEMA_VERSION
    /\ \A i \in DOMAIN p.turns : IsMove(p, i)
    /\ ~Chance(p.config, FinalState(p))

\* A finished match's transcript with a turn dropped, repeated, exchanged or
\* altered, or of another version, is refused, unless what is left is itself a
\* play; and the finished runtime transcript cut short is refused as well.
TamperedIsRefused ==
    Saved /\ lifecycle = "finished" =>
        /\ \A p \in Tampered(SavedMatch) : Validates(config, p) <=> IsPlay(p)
        /\ DefaultRules =>
              ~RuntimeValidates(config,
                  [SavedRuntime EXCEPT
                     !.match_transcript[1].turns = Without(@, Len(@))])

(***************************************************************************)
(* What a viewer may not learn: the hands of the round being played, and    *)
(* what the other seats' agents wrote.                                      *)
(***************************************************************************)
OtherHand(hand, faces) == [i \in DOMAIN hand |-> (hand[i] % faces) + 1]

\* The session with the hidden hands of these seats, and their agents' notes,
\* replaced by others.
Reimagined(session, seats) ==
    LET m == session.match[1]
        s == m.state
        live == HiddenInformation(session.config) /\ s.dice # NoDice
        dealt == Cardinality({i \in DOMAIN m.turns :
                    m.turns[i].post_state.round_number < s.round_number})
        other(dice) == [seat \in VALID_SEATS |->
                           IF seat \in seats THEN OtherHand(dice[seat], s.faces) ELSE dice[seat]]
        event(e) == IF e.event_type = "DiceDealt" /\ e.seat \in seats
                    THEN [e EXCEPT !.dice = OtherHand(@, s.faces)] ELSE e
        turn(t) == [t EXCEPT
                      !.events = [i \in DOMAIN @ |-> event(@[i])],
                      !.outcome = IF t.kind = "chance" THEN [dice |-> other(@.dice)] ELSE @,
                      !.post_state.dice = other(@)]
        note(e) == IF SeatPrivate(e) /\ e.seat \in seats
                   THEN [e EXCEPT !.says = Text(<<0>>)]
                   ELSE IF e.event_type = "MatchAborted" /\ e.abort.cause # NoData
                   THEN [e EXCEPT !.abort.cause = Text(<<0>>)] ELSE e
        told == [session EXCEPT
                   !.events = [i \in DOMAIN @ |-> note(@[i])],
                   !.abort = IF @ # NoData /\ @.cause # NoData
                             THEN [@ EXCEPT !.cause = Text(<<0>>)] ELSE @]
    IN IF ~live THEN told
       ELSE [told EXCEPT
               !.match[1].state.dice = other(@),
               !.match[1].turns = [i \in DOMAIN @ |->
                     IF i > dealt THEN turn(@[i]) ELSE @[i]]]

\* Nothing a seat, a spectator or a policy is sent, and nothing on the screen
\* a single human plays at, depends on the hand another seat holds in this
\* round or on what its agent wrote of it.
HandsStaySecret ==
    Started =>
        /\ HiddenInformation(config) =>
              \A viewer \in Viewers :
                 LET other == Reimagined(Session, VALID_SEATS \ {viewer})
                 IN /\ DumpStatus(other, viewer) = DumpStatus(Session, viewer)
                    /\ DumpRuntime(other, viewer) = DumpRuntime(Session, viewer)
                    /\ viewer \in VALID_SEATS =>
                          Observation(config, other.match[1].state, viewer)
                              = Observation(config, TheMatch.state, viewer)
        /\ lifecycle = "running" /\ Cardinality(HumanSeats) = 1 =>
              Screen(Reimagined(Session, Agents)) = Screen(Session)

\* Redacting the archived full record for a viewer gives what the session
\* itself would have dumped for that viewer, and either is a well-formed
\* envelope: the two code paths that hide things hide the same things.
RedactedIsTheView ==
    artefacts # <<>> =>
        \A viewer \in Viewers :
           LET status  == RedactStatus(config, artefacts[1], viewer)
               runtime == RedactRuntime(config, SavedRuntime, viewer)
           IN /\ status = DumpStatus(Session, viewer)
              /\ runtime = DumpRuntime(Session, viewer)
              /\ Envelope(status)
              /\ TranscriptEnvelope(runtime)

(***************************************************************************)
(* The events of a session tell the match.                                  *)
(***************************************************************************)
Told(type) == {i \in DOMAIN events : events[i].event_type = type}

AcceptedFor(n) ==
    {events[i].seat : i \in {j \in Told("TurnAccepted") : events[j].turn_index = n}}

\* The seats a turn of the match is due to.
SeatsOf(t) ==
    CASE t.kind = "chance" -> {}
      [] t.kind = "action" -> {t.seat}
      [] t.kind = "joint"  -> DOMAIN t.actions[1]

\* Every turn of a seat is accepted once for each seat that took it, under its
\* own position though chance turns lie between, after it was requested; the
\* match ends in the events exactly when and as it ends, and only agents'
\* notes of the last step follow.
EventsTellTheMatch ==
    Started =>
        /\ \A n \in DOMAIN TheMatch.turns : AcceptedFor(n) = SeatsOf(TheMatch.turns[n])
        /\ \A i \in Told("TurnAccepted") :
              /\ events[i].turn_index \in DOMAIN TheMatch.turns
              /\ \A j \in Told("TurnAccepted") \ {i} :
                    <<events[i].turn_index, events[i].seat>>
                        # <<events[j].turn_index, events[j].seat>>
              /\ Cardinality({j \in Told("TurnRequested") : j < i /\ events[j].seat = events[i].seat})
                    = Cardinality({j \in Told("TurnAccepted") : j <= i /\ events[j].seat = events[i].seat})
        /\ Cardinality(Told("MatchFinished")) = (IF lifecycle = "finished" THEN 1 ELSE 0)
        /\ Cardinality(Told("MatchAborted")) = (IF lifecycle = "aborted" THEN 1 ELSE 0)
        /\ \A i \in Told("MatchFinished") \cup Told("MatchAborted") :
              \A j \in (i + 1)..Len(events) : SeatPrivate(events[j])

\* A session whose policies answer ends, and its artefacts are written: every
\* game but Pig, where seats may bust for ever, comes to its end.
SessionEnds == config.game # "pig" => <>(artefacts # <<>>)
=============================================================================
