-------------------------- MODULE RuntimePayloads --------------------------
(***************************************************************************)
(* Runtime envelopes (src/src/arena/runtime/payloads.py): the status and    *)
(* the transcript of a session for a viewer, their validation, and the      *)
(* redaction of a saved full one.  A session is a record                    *)
(*    [config, lifecycle, match, events, abort]                             *)
(* whose match is a sequence of at most one local match, and whose abort is *)
(* NoData or [reason, cause].  The text an exception or an agent wrote is   *)
(* a Text, NoData where there is none; ids and labels are left out.         *)
(***************************************************************************)
EXTENDS Transcripts

RUNTIME_TRANSCRIPT_SCHEMA_VERSION == 4

Lifecycles == {"created", "running", "finished", "aborted"}

AbortReasons == {"adapter_error", "core_error", "missing_policy", "user_quit"}

\* What an agent says of the hand it holds.
Text(hand) == [hand |-> hand]

\* An agent's reasoning: only its own seat's, outside the full view.
SeatPrivate(e) == e.event_type \in {"PolicyDecided", "PolicyRetried"}

RuntimeEventVisible(e, view, viewer) ==
    \/ view = "full" \/ ~SeatPrivate(e)
    \/ view = "seat" /\ e.seat = viewer

\* _dump_abort and _redact_abort_payload: the cause's text stays in the full view.
DumpAbort(abort, view) ==
    IF abort = NoData \/ view = "full" THEN abort ELSE [abort EXCEPT !.cause = NoData]

DumpRuntimeEvent(e, view) ==
    IF e.event_type = "MatchAborted" THEN [e EXCEPT !.abort = DumpAbort(@, view)] ELSE e

RuntimeEvents(events, view, viewer) ==
    Listed(events, LAMBDA e : RuntimeEventVisible(e, view, viewer),
                   LAMBDA e : DumpRuntimeEvent(e, view))

(***************************************************************************)
(* dump_session_status and dump_runtime_transcript.                         *)
(***************************************************************************)
CurrentSeat(m) ==
    LET seats == Acting(m.config, m.state)
    IN IF Cardinality(seats) = 1 THEN CHOOSE seat \in seats : TRUE ELSE NoSeat

DumpStatus(session, viewer) ==
    LET v == TranscriptView(session.config, viewer)
        m == session.match[1]
        none == session.match = <<>>
    IN [schema_version |-> RUNTIME_TRANSCRIPT_SCHEMA_VERSION,
        lifecycle |-> session.lifecycle,
        current_seat |-> IF none THEN NoSeat ELSE CurrentSeat(m),
        turn_count |-> IF none THEN 0 ELSE Len(m.turns),
        result |-> IF none THEN NoResult ELSE Result(m.config, m.state),
        latest |-> IF none THEN <<>>
                   ELSE IF viewer = FULL_VIEW THEN <<m.state>>
                   ELSE <<StateView(m.config, m.state, viewer)>>,
        abort |-> DumpAbort(session.abort, v.view),
        view |-> v.view, viewer_seat |-> v.viewer_seat]

DumpRuntime(session, viewer) ==
    LET v == TranscriptView(session.config, viewer)
    IN [schema_version |-> RUNTIME_TRANSCRIPT_SCHEMA_VERSION,
        game_id |-> session.config.game,
        lifecycle |-> session.lifecycle,
        events |-> RuntimeEvents(session.events, v.view, viewer),
        abort |-> DumpAbort(session.abort, v.view),
        match_transcript |-> IF session.match = <<>> THEN <<>>
                             ELSE <<MatchTranscript(session.match[1], viewer)>>,
        view |-> v.view, viewer_seat |-> v.viewer_seat]

\* _check_envelope: what both envelopes must agree with themselves on.
Envelope(p) ==
    /\ p.lifecycle \in Lifecycles
    /\ (p.lifecycle = "aborted") = (p.abort # NoData)
    /\ IF p.view = "seat" THEN p.viewer_seat \in VALID_SEATS ELSE p.viewer_seat = NoSeat
    /\ p.view # "full" /\ p.abort # NoData => p.abort.cause = NoData

\* RuntimeTranscriptPayload: its view is the view of the transcript it wraps.
TranscriptEnvelope(p) ==
    /\ Envelope(p)
    /\ \A i \in DOMAIN p.match_transcript :
          /\ p.match_transcript[i].view = p.view
          /\ p.match_transcript[i].viewer_seat = p.viewer_seat

(***************************************************************************)
(* validate_runtime_transcript.  The last check asks the definition's own   *)
(* engine, not one that started this match, whether the game is over.       *)
(***************************************************************************)
\* Mutant: the wrong end of the transcript.
FinalStateFirst(p) == p.initial_state

FinalState(p) == IF p.turns = <<>> THEN p.initial_state ELSE p.turns[Len(p.turns)].post_state

RuntimeValidates(c, p) ==
    /\ p.schema_version \in 1..RUNTIME_TRANSCRIPT_SCHEMA_VERSION
    /\ TranscriptEnvelope(p)
    /\ p.game_id = c.game
    /\ p.abort # NoData => p.abort.reason \in AbortReasons
    /\ \A i \in DOMAIN p.match_transcript :
          /\ Validates(c, p.match_transcript[i])
          /\ (p.lifecycle = "finished")
                 = Terminal(Shared(c), FinalState(p.match_transcript[i]))

(***************************************************************************)
(* A viewer's payload from a saved full one.                                *)
(***************************************************************************)
RedactRuntime(c, p, viewer) ==
    LET v == TranscriptView(c, viewer)
    IN IF ~TranscriptEnvelope(p) \/ p.view # "full" THEN Refused
       ELSE [p EXCEPT !.match_transcript =
                        IF @ = <<>> THEN <<>> ELSE <<RedactMatch(c, @[1], viewer)>>,
                      !.events = RuntimeEvents(@, v.view, viewer),
                      !.abort = DumpAbort(@, v.view),
                      !.view = v.view, !.viewer_seat = v.viewer_seat]

\* Mutant: the abort keeps the text of its cause.
RedactStatusCause(c, p, viewer) ==
    LET v == TranscriptView(c, viewer)
    IN IF ~Envelope(p) \/ p.view # "full" THEN Refused
       ELSE [p EXCEPT !.latest = [i \in DOMAIN @ |-> StateView(c, @[i], viewer)],
                      !.view = v.view, !.viewer_seat = v.viewer_seat]

RedactStatus(c, p, viewer) ==
    LET v == TranscriptView(c, viewer)
    IN IF ~Envelope(p) \/ p.view # "full" THEN Refused
       ELSE [p EXCEPT !.latest = [i \in DOMAIN @ |-> StateView(c, @[i], viewer)],
                      !.abort = DumpAbort(@, v.view),
                      !.view = v.view, !.viewer_seat = v.viewer_seat]
=============================================================================
