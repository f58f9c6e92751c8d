----------------------------- MODULE LocalMatch -----------------------------
(***************************************************************************)
(* A local match and its turns (src/src/arena/match/local_match.py).  A     *)
(* match is immutable: every operator maps a match to the matches the call  *)
(* may return.  A live match drains its chance nodes as part of the step;   *)
(* a replay waits at each for the recorded outcome.                         *)
(*                                                                          *)
(* A turn keeps None as NoSeat, NoData or <<>>: actions is a sequence of at *)
(* most one map from seats to actions.  A snapshot is the state it holds:   *)
(* its config is the match's own.                                           *)
(***************************************************************************)
EXTENDS Games

CONSTANT Draws(_, _)    \* the outcomes a run lets the generator draw: config, state

NoData == [absent |-> TRUE]

Turn(kind, seat, action, actions, outcome, t) ==
    [kind |-> kind, seat |-> seat, action |-> action, actions |-> actions,
     outcome |-> outcome, events |-> t.events, result |-> t.result,
     post_state |-> t.state]

Fresh(c) == [config |-> c, initial_state |-> Initial(c), state |-> Initial(c),
             turns |-> <<>>]

After(m, turn) == [m EXCEPT !.state = turn.post_state, !.turns = Append(@, turn)]

\* One chance node resolved, and recorded as a turn of nobody.
ResolveOne(m, o) ==
    After(m, Turn("chance", NoSeat, NoData, <<>>, o,
                  ApplyChance(m.config, m.state, o)))

(***************************************************************************)
(* _drain_chance_nodes: sample until a seat is to move or the match is      *)
(* over, and give up on a match that is still at a chance node after that   *)
(* many, of which the shipped games have none (RulesAgree).                 *)
(***************************************************************************)
MAX_CONSECUTIVE_CHANCE_STEPS == 128

Sampled(m) ==
    IF Chance(m.config, m.state)
    THEN {ResolveOne(m, o) : o \in Outcomes(m.config, m.state) \cap Draws(m.config, m.state)}
    ELSE {m}

Settled(m) ==
    LET drained[n \in 0..MAX_CONSECUTIVE_CHANCE_STEPS] ==
            IF n = 0 THEN {m} ELSE UNION {Sampled(x) : x \in drained[n - 1]}
    IN {x \in drained[MAX_CONSECUTIVE_CHANCE_STEPS] : ~Chance(x.config, x.state)}

StartMatch(c) == Settled(Fresh(c))

\* apply_match_action refuses a chance node, a joint node, an invalid action.
ActionAccepted(m, seat, a) ==
    /\ ~Chance(m.config, m.state)
    /\ ~Joint(m.config, m.state)
    /\ Sequential(m.config)
    /\ Valid(m.config, m.state, seat, a)

AfterAction(m, seat, a) ==
    After(m, Turn("action", seat, a, <<>>, NoData, Apply(m.config, m.state, seat, a)))

AfterJoint(m, actions) ==
    After(m, Turn("joint", NoSeat, NoData, <<actions>>, NoData,
                  ApplyJoint(m.config, m.state, actions)))
=============================================================================
