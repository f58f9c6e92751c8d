----------------------------- MODULE LiarsDice -----------------------------
(***************************************************************************)
(* Two-seat Liar's Dice (src/src/arena/games/liarsdice): hidden hands that  *)
(* are rolled at a chance node at the start of every round.  Seats raise    *)
(* each other's bid until one calls; both hands are then revealed, and the  *)
(* loser of the showdown loses a die and opens the next round.              *)
(*                                                                          *)
(* dice is NoDice while a roll is pending; last_showdown is a sequence of   *)
(* at most one showdown.                                                    *)
(***************************************************************************)
EXTENDS GameCore

MAX_DICE_PER_SEAT == 6
FaceCounts == 2..9

LiarsDiceConfigs == [game : {"liarsdice"}, dice_per_seat : 1..MAX_DICE_PER_SEAT,
                     faces : FaceCounts]

NoDice == <<>>

Call == [type |-> "call"]

Bids(quantities, faces) == [type : {"bid"}, quantity : quantities, face : faces]

\* Bids strictly rise: more dice, or as many dice of a higher face.
Outranks(a, b) ==
    a.quantity > b.quantity \/ (a.quantity = b.quantity /\ a.face > b.face)

Total(s) == s.dice_counts[0] + s.dice_counts[1]

Showing(dice, face) ==
    Cardinality({p \in VALID_SEATS \X (1..MAX_DICE_PER_SEAT) :
                    p[2] \in DOMAIN dice[p[1]] /\ dice[p[1]][p[2]] = face})

\* One hand per seat, counts[seat] dice in it, every die one of the faces.
Dealt(dice, counts, faces) ==
    /\ DOMAIN dice = VALID_SEATS
    /\ \A seat \in VALID_SEATS :
          /\ Len(dice[seat]) \in counts[seat]
          /\ \A i \in DOMAIN dice[seat] : dice[seat][i] \in 1..faces

\* Showdown.__post_init__: its count and its loser follow from the dice.
ShowdownState(d) ==
    /\ {d.caller, d.loser} \subseteq VALID_SEATS
    /\ d.count = Showing(d.dice, d.bid.face)
    /\ d.loser = IF d.count >= d.bid.quantity THEN d.caller ELSE Other(d.caller)

LiarsDiceResult(s) ==
    IF s.dice_counts[0] = 0 THEN Win(1)
    ELSE IF s.dice_counts[1] = 0 THEN Win(0)
    ELSE NoResult

LiarsDiceTerminal(s) == LiarsDiceResult(s) # NoResult

\* LiarsDiceState.__post_init__.
LiarsDiceState(s) ==
    /\ s.faces \in FaceCounts
    /\ s.round_number >= 0
    /\ s.current_seat \in VALID_SEATS
    /\ \A seat \in VALID_SEATS : s.dice_counts[seat] \in 0..MAX_DICE_PER_SEAT
    /\ Total(s) > 0
    /\ s.dice # NoDice =>
          /\ s.round_number >= 1
          /\ Dealt(s.dice, [seat \in VALID_SEATS |-> {s.dice_counts[seat]}], s.faces)
    /\ LiarsDiceTerminal(s) =>
          s.dice = NoDice /\ s.current_seat = LiarsDiceResult(s).seat
    /\ s.dice = NoDice => s.bids = <<>>
    /\ s.round_number = 0 => s.last_showdown = <<>>
    /\ \A i \in DOMAIN s.last_showdown :
          LET d == s.last_showdown[i]
          IN /\ ShowdownState(d)
             /\ d.bid.face <= s.faces
             /\ Dealt(d.dice, [seat \in VALID_SEATS |-> 1..MAX_DICE_PER_SEAT], s.faces)
    /\ \A i \in DOMAIN s.bids :
          /\ s.bids[i].quantity <= Total(s) /\ s.bids[i].face <= s.faces
          /\ i > 1 => Outranks(s.bids[i], s.bids[i - 1])

\* Every action a seat can name, one die and one face past the most there are.
LiarsDiceActions(c) ==
    {Call} \cup Bids(1..(2 * c.dice_per_seat + 1), 1..(c.faces + 1))

LiarsDiceInitial(c) ==
    [dice |-> NoDice, dice_counts |-> [seat \in VALID_SEATS |-> c.dice_per_seat],
     bids |-> <<>>, current_seat |-> 0, round_number |-> 0, faces |-> c.faces,
     last_showdown |-> <<>>]

LiarsDiceChance(s) == s.dice = NoDice /\ ~LiarsDiceTerminal(s)

\* The standing bid, when a bid stands.
Standing(s) == s.bids[Len(s.bids)]

LiarsDiceLegal(s, seat) ==
    IF LiarsDiceTerminal(s) \/ LiarsDiceChance(s) \/ seat # s.current_seat
    THEN {}
    ELSE IF s.bids = <<>> THEN Bids(1..Total(s), 1..s.faces)
    ELSE {Call} \cup {b \in Bids(1..Total(s), 1..s.faces) : Outranks(b, Standing(s))}

LiarsDiceValid(s, seat, a) ==
    /\ ~LiarsDiceTerminal(s)
    /\ ~LiarsDiceChance(s)
    /\ seat = s.current_seat
    /\ \/ a.type = "call" /\ s.bids # <<>>
       \/ /\ a.type = "bid"
          /\ a.quantity \in 1..Total(s)
          /\ a.face \in 1..s.faces
          /\ s.bids # <<>> => Outranks(a, Standing(s))

MakeBid(s, seat, a) ==
    Transition([s EXCEPT !.bids = Append(@, a), !.current_seat = Other(seat)],
               <<[event_type |-> "BidMade", seat |-> seat,
                  quantity |-> a.quantity, face |-> a.face]>>,
               NoResult)

\* The standing bid is the other seat's, because seats alternate.
CallBid(s, seat) ==
    LET bid   == Standing(s)
        count == Showing(s.dice, bid.face)
        loser == IF count >= bid.quantity THEN seat ELSE Other(seat)
        left  == s.dice_counts[loser] - 1
        next  == [s EXCEPT !.dice = NoDice,
                           !.dice_counts[loser] = left,
                           !.bids = <<>>,
                           !.current_seat = IF left > 0 THEN loser ELSE Other(loser),
                           !.last_showdown =
                               <<[caller |-> seat, bid |-> bid, dice |-> s.dice,
                                  count |-> count, loser |-> loser]>>]
    IN Transition(next,
          <<[event_type |-> "BidCalled", seat |-> seat, dice |-> s.dice,
             quantity |-> bid.quantity, face |-> bid.face,
             count |-> count, loser |-> loser],
            [event_type |-> "DieLost", seat |-> loser, remaining |-> left]>>
              \o When(left = 0, [event_type |-> "LiarsDiceMatchWon",
                                 winner_seat |-> Other(loser)]),
          LiarsDiceResult(next))

LiarsDiceApply(s, seat, a) ==
    IF a.type = "bid" THEN MakeBid(s, seat, a) ELSE CallBid(s, seat)

Hands(n, faces) == [1..n -> 1..faces]

\* Every roll of the dice that are left.
LiarsDiceOutcomes(s) ==
    {[dice |-> [seat \in VALID_SEATS |-> IF seat = 0 THEN h ELSE g]] :
        h \in Hands(s.dice_counts[0], s.faces), g \in Hands(s.dice_counts[1], s.faces)}

LiarsDiceOutcomeValid(s, o) ==
    /\ LiarsDiceChance(s)
    /\ Dealt(o.dice, [seat \in VALID_SEATS |-> {s.dice_counts[seat]}], s.faces)

LiarsDiceApplyChance(s, o) ==
    Transition([s EXCEPT !.dice = o.dice, !.bids = <<>>, !.round_number = @ + 1],
               <<[event_type |-> "RoundRolled", round_number |-> s.round_number + 1,
                  dice_counts |-> s.dice_counts],
                 [event_type |-> "DiceDealt", seat |-> 0, dice |-> o.dice[0]],
                 [event_type |-> "DiceDealt", seat |-> 1, dice |-> o.dice[1]]>>,
               NoResult)

(***************************************************************************)
(* The views of the serializer.  An event is public unless it is the hand   *)
(* dealt to a seat; a viewer is a seat or PUBLIC, a spectator.              *)
(***************************************************************************)
PUBLIC == 2

DiceDealtTo(e, viewer) == e.event_type = "DiceDealt" => viewer = e.seat

\* The public fields: everything but the dice.
PublicFields(s) ==
    [dice_counts |-> s.dice_counts, bids |-> s.bids, current_seat |-> s.current_seat,
     round_number |-> s.round_number, faces |-> s.faces,
     last_showdown |-> s.last_showdown,
     roll_pending |-> LiarsDiceChance(s)]

\* dump_public_state, and dump_state_for_seat: the public fields and one hand.
LiarsDiceView(s, viewer) ==
    [shown |-> PublicFields(s), seat |-> IF viewer = PUBLIC THEN NoSeat ELSE viewer,
     my_dice |-> IF viewer = PUBLIC \/ s.dice = NoDice THEN <<>> ELSE s.dice[viewer]]

\* A roll as a seat sees it, its own hand; as the public does, the counts.
LiarsDiceOutcomeView(o, viewer) ==
    IF viewer = PUBLIC
    THEN [dice_counts |-> [seat \in VALID_SEATS |-> Len(o.dice[seat])]]
    ELSE [my_dice |-> o.dice[viewer]]
=============================================================================
