---------------------------- MODULE Transcripts ----------------------------
(***************************************************************************)
(* Match transcripts (src/src/arena/match/transcript.py): dumping a match   *)
(* for a viewer, checking the shape of a payload, replaying it, and         *)
(* redacting a saved one.  A payload is a record; JSON spelling is left     *)
(* out, and an operator is false where the code raises ValueError.          *)
(***************************************************************************)
EXTENDS LocalMatch, SequencesExt

\* A list comprehension: Of(x) for each x of s that passes the test, in order.
Listed(s, Test(_), Of(_)) == FlattenSeq([i \in DOMAIN s |-> When(Test(s[i]), Of(s[i]))])

MATCH_TRANSCRIPT_SCHEMA_VERSION == 4

\* A viewer who gets everything: the server, and archived transcripts.
FULL_VIEW == 3

(***************************************************************************)
(* Events carry their audience: none for a public event.                    *)
(***************************************************************************)
VisibleTo(e, viewer) == DiceDealtTo(e, viewer)

DumpEvent(e) ==
    [event |-> e, is_public |-> VisibleTo(e, PUBLIC),
     audience |-> IF VisibleTo(e, PUBLIC) THEN {}
                  ELSE {seat \in VALID_SEATS : VisibleTo(e, seat)}]

\* event_payload_visible_to: a payload's own markers decide.
PayloadVisible(p, viewer) == p.is_public \/ viewer \in p.audience

DumpEvents(events) == [i \in DOMAIN events |-> DumpEvent(events[i])]

FilterEvents(payloads, viewer) ==
    Listed(payloads, LAMBDA p : PayloadVisible(p, viewer), LAMBDA p : p)

\* The view a viewer's transcript declares, and the seat it belongs to.
TranscriptView(c, viewer) ==
    IF viewer = FULL_VIEW \/ ~HiddenInformation(c)
    THEN [view |-> "full", viewer_seat |-> NoSeat]
    ELSE IF viewer = PUBLIC THEN [view |-> "public", viewer_seat |-> NoSeat]
    ELSE [view |-> "seat", viewer_seat |-> viewer]

\* Mutant: the state of a turn is not redacted.
TurnForViewerLeaky(c, t, viewer) ==
    [t EXCEPT !.outcome = IF t.kind = "chance" THEN OutcomeView(c, @, viewer) ELSE @,
              !.events = FilterEvents(DumpEvents(@), viewer)]

\* Actions and results are public; outcome, events and state are redacted.
TurnForViewer(c, t, viewer) ==
    [t EXCEPT !.outcome = IF t.kind = "chance" THEN OutcomeView(c, @, viewer) ELSE @,
              !.events = FilterEvents(DumpEvents(@), viewer),
              !.post_state = StateView(c, @, viewer)]

\* dump_match_transcript.
FullTranscript(m) ==
    [game_id |-> m.config.game, schema_version |-> MATCH_TRANSCRIPT_SCHEMA_VERSION,
     config |-> m.config, initial_state |-> m.initial_state,
     turns |-> [i \in DOMAIN m.turns |->
                   [m.turns[i] EXCEPT !.events = DumpEvents(@)]],
     view |-> "full", viewer_seat |-> NoSeat]

\* dump_match_transcript_for_viewer.
MatchTranscript(m, viewer) ==
    LET v == TranscriptView(m.config, viewer)
        full == FullTranscript(m)
    IN IF v.view = "full"
       THEN full
       ELSE [full EXCEPT
               !.initial_state = StateView(m.config, Initial(m.config), viewer),
               !.turns = [i \in DOMAIN m.turns |->
                             TurnForViewer(m.config, m.turns[i], viewer)],
               !.view = v.view, !.viewer_seat = v.viewer_seat]

(***************************************************************************)
(* _ensure_turn_shapes: what no build of the code could have written.       *)
(***************************************************************************)
EventShape(e, version) ==
    /\ version < 3 => e.is_public /\ e.audience = {}
    /\ e.is_public <=> e.audience = {}

TurnShape(t, version) ==
    /\ \A i \in DOMAIN t.events : EventShape(t.events[i], version)
    /\ \/ /\ t.kind = "chance" /\ version >= 2
          /\ t.seat = NoSeat /\ t.action = NoData /\ t.outcome # NoData
       \/ /\ t.kind = "action"
          /\ t.seat # NoSeat /\ t.action # NoData /\ t.outcome = NoData
       \/ /\ t.kind = "joint" /\ version >= 4
          /\ t.seat = NoSeat /\ t.action = NoData /\ t.outcome = NoData
          /\ t.actions # <<>> /\ Cardinality(DOMAIN t.actions[1]) >= 2
    /\ t.kind # "joint" => t.actions = <<>>

TranscriptShape(p) ==
    /\ p.schema_version \in 1..MATCH_TRANSCRIPT_SCHEMA_VERSION
    /\ p.schema_version < 3 => p.view = "full"
    /\ p.view = "seat" <=> p.viewer_seat # NoSeat
    /\ \A i \in DOMAIN p.turns : TurnShape(p.turns[i], p.schema_version)

\* load_match_transcript: only a full transcript of this game whose actions
\* and states the game's own classes accept.
Loads(c, p) ==
    /\ p.game_id = c.game
    /\ TranscriptShape(p)
    /\ p.view = "full"
    /\ GameState(p.config, p.initial_state)
    /\ \A i \in DOMAIN p.turns :
          /\ p.turns[i].kind = "action" => p.turns[i].action \in Actions(p.config)
          /\ GameState(p.config, p.turns[i].post_state)

(***************************************************************************)
(* Replay: every recorded turn applied to a fresh match that never samples. *)
(***************************************************************************)
Refused == [refused |-> TRUE]

ReplayTurn(m, t) ==
    IF m = Refused THEN Refused
    ELSE CASE t.kind = "chance" ->
              IF Chance(m.config, m.state) /\ OutcomeValid(m.config, m.state, t.outcome)
              THEN ResolveOne(m, t.outcome) ELSE Refused
           [] t.kind = "joint" ->
              IF JointValid(m.config, m.state, t.actions[1])
              THEN AfterJoint(m, t.actions[1]) ELSE Refused
           [] t.kind = "action" ->
              IF ActionAccepted(m, t.seat, t.action)
              THEN AfterAction(m, t.seat, t.action) ELSE Refused

\* Mutant: the announced result is not compared.
TurnMatchesLoose(recorded, replayed) ==
    /\ recorded.kind = replayed.kind
    /\ recorded.post_state = replayed.post_state
    /\ recorded.events = DumpEvents(replayed.events)

\* The recorded turn is the replayed one: state, events with their markers,
\* result.
TurnMatches(recorded, replayed) ==
    /\ recorded.kind = replayed.kind
    /\ recorded.post_state = replayed.post_state
    /\ recorded.events = DumpEvents(replayed.events)
    /\ recorded.result = replayed.result

Replay(p) ==
    LET replayed[n \in 0..Len(p.turns)] ==
            IF n = 0 THEN Fresh(p.config) ELSE ReplayTurn(replayed[n - 1], p.turns[n])
    IN replayed[Len(p.turns)]

\* _validate_match_transcript: the matches, one or none, a transcript replays to.
Replays(c, p) ==
    IF ~Loads(c, p) \/ p.initial_state # Initial(p.config) THEN {}
    ELSE {m \in {Replay(p)} :
            /\ m # Refused
            /\ ~Chance(m.config, m.state)
            /\ Len(m.turns) = Len(p.turns)
            /\ \A i \in DOMAIN p.turns : TurnMatches(p.turns[i], m.turns[i])}

Validates(c, p) == Replays(c, p) # {}

\* redact_match_transcript: the view is built from the replayed match, never
\* from the markers in the file.
RedactMatch(c, p, viewer) ==
    LET views == {IF HiddenInformation(c) THEN MatchTranscript(m, viewer) ELSE p :
                     m \in Replays(c, p)}
    IN IF views = {} THEN Refused ELSE CHOOSE view \in views : TRUE
=============================================================================
