---------------------------- MODULE BroadcastProofs ----------------------------
(***************************************************************************)
(* What a broadcast promises holds for every number of seats' connections, *)
(* spectators, turns and faults and for every outbox of two frames or more.*)
(*                                                                         *)
(* The invariant follows one connection: the frames its client is still to *)
(* be sent (the one in its writer's hand and those in the outbox) continue *)
(* what the client has, and end where the broadcast under way goes on.  A  *)
(* frame that is dropped breaks this; then the connection is being closed, *)
(* the outbox stays full until the broadcast is over, and the driver finds *)
(* the socket closed before it commits again.                              *)
(***************************************************************************)
EXTENDS Broadcast, FiniteSetTheorems, WellFoundedInduction, TLAPS

\* What a client that has v turns has after the first i frames of s.
Carries(f) == f.kind \in {"welcome", "turn", "end"}
Gives(f) == IF f.kind = "turn" THEN f.n + 1 ELSE f.n
At(v, s, i) ==
  LET carriers == {j \in 1 .. i : Carries(s[j])}
  IN  IF carriers = {} THEN v
      ELSE Gives(s[CHOOSE j \in carriers : \A k \in carriers : k <= j])

\* The frames a connection's client is still to be sent.
Pend(r) == (IF r.hand = NoFrame THEN <<>> ELSE <<r.hand>>) \o r.queue

\* The broadcast under way has turns left; the turns it has queued already.
Turning == todo # <<>> /\ Head(todo).kind = "turn"
Reached == IF Turning THEN Head(todo).n ELSE turns

\* The end of the match has been broadcast, or could not be.
Closing == phase \in {"closing", "draining", "done"}

----------------------------------------------------------------------------
(* The invariant *)

\* What is left of a broadcast of turns, or of the end of the match.
TurnsLeft ==
  /\ Len(todo) <= turns + 1
  /\ \A i \in DOMAIN todo :
       todo[i] = IF i = Len(todo) THEN Frame("state", turns)
                 ELSE Frame("turn", turns - Len(todo) + i)
EndLeft ==
  \/ todo = <<Frame("end", turns)>>
  \/ todo = <<Frame("state", turns), Frame("end", turns)>>

DriverInv ==
  /\ turns \in Nat /\ faults \in Nat /\ todo \in Seq(Frames)
  /\ lifecycle \in {"created", "running", "finished", "aborted"}
  /\ phase = "idle" => lifecycle = "created" /\ turns = 0 /\ todo = <<>>
  /\ phase \in {"running", "crashed"} => lifecycle = "running"
  /\ phase \in {"over", "telling"} \/ Closing => Over
  /\ phase \in {"idle", "running", "crashed", "over", "telling"} \/ Closing
  /\ phase \in {"running", "over"} => todo = <<>> \/ (TurnsLeft /\ ~crashed)
  /\ phase = "telling" => EndLeft
  /\ phase = "crashed" \/ Closing => todo = <<>>
  /\ phase = "over" => owed \in {<<"end">>, <<"state", "end">>}
  /\ crashed => faults > 0 /\ phase \notin {"idle", "running"}
  /\ cur \in [Seats -> 1 .. MaxConns]
  /\ cache.carries \in Nat /\ cache.at[1] = cache.carries

\* Where a connection is, and what its writer and its socket may be then.
Placed(c, r) ==
  /\ r.role \in {"absent", "new"} =>
       /\ r.sock = "none" /\ r.writer = "off" /\ r.stop = "no"
       /\ ~r.slow /\ ~r.closing /\ r.mark = 0 /\ r.seen = -1 /\ r.ended = 0
  /\ r.role = "parked" => phase = "idle"
  /\ r.role = "live" => phase # "idle"
  /\ r.role \in {"parked", "live"} => r.mark <= Reached /\ r.stop = "no"
  /\ r.role = "stopping" => r.stop \in {"draining", "cut"}
  /\ r.writer = "off" => r.role \in {"absent", "new"} \/ (r.role = "parked" /\ c \in SeatConns)
  /\ r.writer # "on" => r.hand = NoFrame /\ r.queue = <<>>
  /\ r.sock = "closed" \/ r.stop = "drained" => r.role = "gone"
  /\ r.gap => r.slow /\ r.role \in {"live", "stopping", "gone"}
  /\ c \in SeatConns =>
       /\ r.slow => r.closing \/ r.sock # "open"
       /\ r.role = "parked" => r.writer = "off"
       /\ r.role = "live" /\ r.sock = "open" => r.writer = "on"
       /\ r.stop # "no" => Closing
  /\ c \notin SeatConns => ~(r.gap /\ r.role = "live")

\* The frame at i continues what comes before it.
Continues(r, i) ==
  LET f == Pend(r)[i] IN
  /\ f.kind = "turn" => f.n < turns /\ (r.sock = "open" => f.n = At(r.seen, Pend(r), i - 1))
  /\ f.kind \in {"state", "note"} /\ ~crashed /\ ~r.gap => f.n = At(r.seen, Pend(r), i - 1)
  /\ f.kind = "welcome" => i = 1 /\ r.seen = -1 /\ f.n <= turns
  /\ f.kind = "end" =>
       /\ f.n = turns /\ r.ended = 0
       /\ \A j \in DOMAIN Pend(r) : i < j => Pend(r)[j].kind \in {"stop", "error"}
  /\ f.kind = "stop" => i = Len(Pend(r)) /\ r.role = "stopping"
  /\ r.ended = 1 => f.kind \in {"stop", "error"}

\* The frames of one connection, and how far they bring its client.
Streams(c, r) ==
  /\ \A i \in DOMAIN Pend(r) : Continues(r, i)
  /\ r.ended \in {0, 1}
  /\ ~Closing => r.ended = 0 /\ \A i \in DOMAIN Pend(r) : Pend(r)[i].kind # "end"
  /\ r.seen = -1 /\ Pend(r) # <<>> => Pend(r)[1].kind = "welcome"
  /\ r.role \in {"parked", "live"} /\ r.writer # "done" => r.seen # -1 \/ Pend(r) # <<>>
  /\ r.role \in {"parked", "live"} /\ r.writer # "done" /\ ~crashed /\ ~r.gap =>
       At(r.seen, Pend(r), Len(Pend(r))) = Reached
  /\ Turning /\ r.role = "live" /\ r.writer = "on" /\ r.gap /\ r.sock = "open" =>
       Len(r.queue) >= OutboxMax

\* A seat that keeps up is told the end, before its socket is closed.
HasEnd(r) == r.ended = 1 \/ \E i \in DOMAIN Pend(r) : Pend(r)[i].kind = "end"
Told(c, r) ==
  c \in SeatConns /\ ~r.slow =>
    /\ Closing /\ r.role \in {"live", "stopping"} /\ r.stop # "cut" /\ r.sock = "open" =>
         HasEnd(r) \/ (crashed /\ faults > 1)
    /\ r.stop = "drained" /\ r.sock = "closed" => r.ended = 1 \/ (crashed /\ faults > 1)

Sane(c, r) ==
  /\ r \in ConnRecord /\ r.hand.kind \notin {"stop", "close"}
  /\ \A i \in DOMAIN Pend(r) : Pend(r)[i].kind # "none"
  /\ Placed(c, r) /\ Streams(c, r) /\ Told(c, r)

IInv ==
  /\ DriverInv
  /\ net \in [Conns -> ConnRecord]
  /\ \A c \in Conns : Sane(c, net[c])

----------------------------------------------------------------------------
(* What a client has after some of its frames *)

\* A set of positions has a last one.
LEMMA LastPosition ==
  ASSUME NEW n \in Nat, NEW C, C \subseteq 1 .. n, C # {}
  PROVE  \E j \in C : \A k \in C : k <= j
<1> DEFINE D == {n - j : j \in C}
<1>1. D \subseteq Nat /\ D # {}
  <2>1. \A j \in C : j \in 1 .. n /\ n - j \in Nat
    OBVIOUS
  <2> QED BY <2>1
<1>2. PICK x \in D : \A y \in D : ~ (<<y, x>> \in OpToRel(<, Nat))
  BY <1>1, NatLessThanWellFounded, WFMin
<1>3. PICK j \in C : x = n - j
  OBVIOUS
<1>4. ASSUME NEW k \in C PROVE k <= j
  <2>1. n - k \in D /\ n - k \in Nat /\ x \in Nat
    BY <1>1
  <2>2. ~(n - k < x)
    BY <1>2, <2>1 DEF OpToRel
  <2> QED BY <1>3, <2>1, <2>2
<1> QED BY <1>4

\* Either no frame up to i tells of the turns, or the last of those does.
LEMMA AtIs ==
  ASSUME NEW v, NEW s, NEW i \in Nat
  PROVE  /\ (\A j \in 1 .. i : ~Carries(s[j])) => At(v, s, i) = v
         /\ \A j \in 1 .. i :
              Carries(s[j]) /\ (\A k \in 1 .. i : Carries(s[k]) => k <= j) =>
                At(v, s, i) = Gives(s[j])
         /\ \/ \A j \in 1 .. i : ~Carries(s[j])
            \/ \E j \in 1 .. i :
                 Carries(s[j]) /\ \A k \in 1 .. i : Carries(s[k]) => k <= j
<1> DEFINE C == {j \in 1 .. i : Carries(s[j])}
<1>1. At(v, s, i) = IF C = {} THEN v
                    ELSE Gives(s[CHOOSE j \in C : \A k \in C : k <= j])
  BY DEF At
<1>2. (\A j \in 1 .. i : ~Carries(s[j])) => C = {}
  OBVIOUS
<1>3. ASSUME NEW j \in 1 .. i, Carries(s[j]), \A k \in 1 .. i : Carries(s[k]) => k <= j
      PROVE  At(v, s, i) = Gives(s[j])
  <2>1. j \in C /\ \A k \in C : k <= j
    BY <1>3
  <2>2. (CHOOSE l \in C : \A k \in C : k <= l) = j
    <3>1. \A l \in C : (\A k \in C : k <= l) => l = j
      BY <2>1
    <3> HIDE DEF C
    <3> QED BY <2>1, <3>1
  <2> QED BY <1>1, <2>1, <2>2
<1>4. C = {} \/ \E j \in C : \A k \in C : k <= j
  <2>1. C \subseteq 1 .. i
    OBVIOUS
  <2> HIDE DEF C
  <2> QED BY <2>1, LastPosition
<1> QED BY <1>1, <1>2, <1>3, <1>4

\* Before the first frame.
LEMMA AtFirst == ASSUME NEW v, NEW s PROVE At(v, s, 0) = v
BY AtIs

\* One frame on.
LEMMA AtStep ==
  ASSUME NEW v, NEW s, NEW i \in Nat, i > 0
  PROVE  /\ Carries(s[i]) => At(v, s, i) = Gives(s[i])
         /\ ~Carries(s[i]) => At(v, s, i) = At(v, s, i - 1)
<1>1. CASE Carries(s[i])
  <2>1. i \in 1 .. i /\ \A k \in 1 .. i : k <= i
    OBVIOUS
  <2>2. At(v, s, i) = Gives(s[i])
    BY <1>1, <2>1, AtIs
  <2> QED BY <1>1, <2>2
<1>2. CASE ~Carries(s[i])
  <2>1. i - 1 \in Nat /\ \A k \in 1 .. i : k = i \/ k \in 1 .. (i - 1)
    OBVIOUS
  <2>2. \A k \in 1 .. (i - 1) : k \in 1 .. i
    OBVIOUS
  <2>3. CASE \A j \in 1 .. (i - 1) : ~Carries(s[j])
    <3>1. At(v, s, i - 1) = v
      BY <2>1, <2>3, AtIs
    <3>2. \A j \in 1 .. i : ~Carries(s[j])
      BY <1>2, <2>1, <2>3
    <3>3. At(v, s, i) = v
      BY <3>2, AtIs
    <3> QED BY <1>2, <3>1, <3>3
  <2>4. CASE \E j \in 1 .. (i - 1) :
               Carries(s[j]) /\ \A k \in 1 .. (i - 1) : Carries(s[k]) => k <= j
    <3>1. PICK j \in 1 .. (i - 1) :
               Carries(s[j]) /\ \A k \in 1 .. (i - 1) : Carries(s[k]) => k <= j
      BY <2>4
    <3>2. j \in 1 .. i /\ \A k \in 1 .. i : Carries(s[k]) => k <= j
      BY <1>2, <2>1, <2>2, <3>1
    <3>3. At(v, s, i) = Gives(s[j])
      BY <3>1, <3>2, AtIs
    <3>4. At(v, s, i - 1) = Gives(s[j])
      BY <2>1, <3>1, AtIs
    <3> QED BY <1>2, <3>3, <3>4
  <2> QED BY <2>1, <2>3, <2>4, AtIs
<1> QED BY <1>1, <1>2

\* Only the frames up to i count.
LEMMA AtAgrees ==
  ASSUME NEW v, NEW s, NEW t, NEW i \in Nat, \A j \in 1 .. i : s[j] = t[j]
  PROVE  At(v, s, i) = At(v, t, i)
<1>1. CASE \A j \in 1 .. i : ~Carries(s[j])
  BY <1>1, AtIs
<1>2. CASE \E j \in 1 .. i :
             Carries(s[j]) /\ \A k \in 1 .. i : Carries(s[k]) => k <= j
  <2>1. PICK j \in 1 .. i :
             Carries(s[j]) /\ \A k \in 1 .. i : Carries(s[k]) => k <= j
    BY <1>2
  <2>2. At(v, s, i) = Gives(s[j])
    BY <2>1, AtIs
  <2>3. Carries(t[j]) /\ \A k \in 1 .. i : Carries(t[k]) => k <= j
    BY <2>1
  <2>4. At(v, t, i) = Gives(t[j])
    BY <2>3, AtIs
  <2> QED BY <2>1, <2>2, <2>4
<1> QED BY <1>1, <1>2, AtIs

\* The first frame has been sent.
LEMMA AtShifts ==
  ASSUME NEW v, NEW w, NEW s, NEW t, NEW i \in Nat,
         \A j \in 1 .. i : t[j] = s[j + 1],
         w = IF Carries(s[1]) THEN Gives(s[1]) ELSE v
  PROVE  At(w, t, i) = At(v, s, i + 1)
<1>1. \A k \in 1 .. (i + 1) : k = 1 \/ (k - 1 \in 1 .. i /\ s[k] = t[k - 1])
  <2> SUFFICES ASSUME NEW k \in 1 .. (i + 1), k # 1
               PROVE  k - 1 \in 1 .. i /\ s[k] = t[k - 1]
    OBVIOUS
  <2>1. k - 1 \in 1 .. i /\ (k - 1) + 1 = k
    OBVIOUS
  <2> QED BY <2>1
<1>2. \A j \in 1 .. i : j + 1 \in 1 .. (i + 1) /\ j + 1 # 1
  OBVIOUS
<1>3. i + 1 \in Nat /\ 1 \in 1 .. (i + 1)
  OBVIOUS
<1>4. CASE \A j \in 1 .. i : ~Carries(t[j])
  <2>1. At(w, t, i) = w
    BY <1>4, AtIs
  <2>2. CASE Carries(s[1])
    <3>1. \A k \in 1 .. (i + 1) : Carries(s[k]) => k <= 1
      BY <1>1, <1>4
    <3>2. At(v, s, i + 1) = Gives(s[1])
      BY <1>3, <2>2, <3>1, AtIs
    <3> QED BY <2>1, <2>2, <3>2
  <2>3. CASE ~Carries(s[1])
    <3>1. \A k \in 1 .. (i + 1) : ~Carries(s[k])
      BY <1>1, <1>4, <2>3
    <3>2. At(v, s, i + 1) = v
      BY <1>3, <3>1, AtIs
    <3> QED BY <2>1, <2>3, <3>2
  <2> QED BY <2>2, <2>3
<1>5. CASE \E j \in 1 .. i :
             Carries(t[j]) /\ \A k \in 1 .. i : Carries(t[k]) => k <= j
  <2>1. PICK j \in 1 .. i :
             Carries(t[j]) /\ \A k \in 1 .. i : Carries(t[k]) => k <= j
    BY <1>5
  <2>2. At(w, t, i) = Gives(t[j])
    BY <2>1, AtIs
  <2>3. j + 1 \in 1 .. (i + 1) /\ s[j + 1] = t[j] /\ Carries(s[j + 1])
    BY <1>2, <2>1
  <2>4. \A k \in 1 .. (i + 1) : Carries(s[k]) => k <= j + 1
    <3> SUFFICES ASSUME NEW k \in 1 .. (i + 1), Carries(s[k]), k # 1 PROVE k <= j + 1
      BY <2>1
    <3>1. k - 1 \in 1 .. i /\ Carries(t[k - 1])
      BY <1>1
    <3>2. k - 1 <= j
      BY <2>1, <3>1
    <3> QED BY <2>1, <3>1, <3>2
  <2>5. At(v, s, i + 1) = Gives(s[j + 1])
    BY <1>3, <2>3, <2>4, AtIs
  <2> QED BY <2>2, <2>3, <2>5
<1> QED BY <1>4, <1>5, AtIs

----------------------------------------------------------------------------
(* One connection *)

\* The constants that bound the outboxes.
LEMMA Constants == OutboxMax \in Nat /\ OutboxMax > 1 /\ Spectators \cap SeatConns = {}
BY BroadcastAssumption DEF BroadcastAssumption

\* The frames the model builds.
LEMMA FrameIs ==
  ASSUME NEW n \in Nat,
         NEW k \in {"none", "welcome", "turn", "state", "note", "end", "error", "stop", "close"}
  PROVE  Frame(k, n) \in Frames /\ Frame(k, n).kind = k /\ Frame(k, n).n = n
BY DEF Frame, Frames

\* No frame is the frame of no kind.
LEMMA NoFrameIs == NoFrame \in Frames /\ NoFrame.kind = "none" /\ \A f \in Frames : f.n \in Nat
BY DEF NoFrame, Frame, Frames

\* The frame in the writer's hand comes before those in the outbox.
LEMMA PendIs ==
  ASSUME NEW r, r.hand \in Frames, r.queue \in Seq(Frames)
  PROVE  /\ Pend(r) \in Seq(Frames)
         /\ r.hand = NoFrame => Pend(r) = r.queue
         /\ r.hand # NoFrame =>
              /\ Len(Pend(r)) = Len(r.queue) + 1 /\ Pend(r)[1] = r.hand
              /\ \A i \in 1 .. Len(r.queue) : Pend(r)[i + 1] = r.queue[i]
<1> DEFINE q == r.queue h == r.hand
<1>1. h \in Frames /\ q \in Seq(Frames)
  OBVIOUS
<1>2. r.hand = NoFrame => Pend(r) = <<>> \o q
  BY DEF Pend
<1>3. r.hand # NoFrame => Pend(r) = <<h>> \o q
  BY DEF Pend
<1> HIDE DEF q, h
<1>4. <<>> \o q = q
  BY <1>1
<1>5. /\ <<h>> \o q \in Seq(Frames) /\ Len(<<h>> \o q) = Len(q) + 1 /\ (<<h>> \o q)[1] = h
      /\ \A i \in 1 .. Len(q) : (<<h>> \o q)[i + 1] = q[i]
  BY <1>1
<1> QED BY <1>1, <1>2, <1>3, <1>4, <1>5 DEF q, h

\* The writer stops, and what it had is gone.
LEMMA WriterEndsIs ==
  ASSUME NEW r \in ConnRecord, NEW R, R = WriterEnds(r)
  PROVE  /\ R \in ConnRecord /\ R.writer = "done" /\ R.hand = NoFrame /\ R.queue = <<>>
         /\ R.role = r.role /\ R.sock = r.sock /\ R.slow = r.slow /\ R.closing = r.closing
         /\ R.gap = r.gap /\ R.mark = r.mark /\ R.stop = r.stop /\ R.seen = r.seen
         /\ R.ended = r.ended /\ Pend(R) = <<>>
<1>1. /\ R \in ConnRecord /\ R.writer = "done" /\ R.hand = NoFrame /\ R.queue = <<>>
      /\ R.role = r.role /\ R.sock = r.sock /\ R.slow = r.slow /\ R.closing = r.closing
      /\ R.gap = r.gap /\ R.mark = r.mark /\ R.stop = r.stop /\ R.seen = r.seen
      /\ R.ended = r.ended
  <2>1. NoFrame \in Frames /\ <<>> \in Seq(Frames)
    BY NoFrameIs
  <2>2. R = [r EXCEPT !.writer = "done", !.hand = NoFrame, !.queue = <<>>]
    BY DEF WriterEnds
  <2> QED BY <2>1, <2>2 DEF ConnRecord
<1> QED BY <1>1, NoFrameIs, PendIs DEF ConnRecord

\* A frame is queued behind the others.
LEMMA QueuedIs ==
  ASSUME NEW c, NEW r \in ConnRecord, NEW f \in Frames, NEW R, R = Queued(c, r, f),
         r.writer # "done", Len(r.queue) < OutboxMax
  PROVE  /\ R \in ConnRecord /\ R.writer = r.writer /\ R.hand = r.hand
         /\ R.role = r.role /\ R.sock = r.sock /\ R.mark = r.mark /\ R.stop = r.stop
         /\ R.seen = r.seen /\ R.ended = r.ended /\ R.slow = r.slow
         /\ R.closing = r.closing /\ R.gap = r.gap
<1>1. R = [r EXCEPT !.queue = Append(@, f)]
  BY DEF Queued
<1>2. Append(r.queue, f) \in Seq(Frames)
  BY DEF ConnRecord
<1> QED BY <1>1, <1>2 DEF ConnRecord

\* It is the last one the client is still to be sent.
LEMMA QueuedLast ==
  ASSUME NEW c, NEW r \in ConnRecord, NEW f \in Frames, NEW R, R = Queued(c, r, f),
         r.writer # "done", Len(r.queue) < OutboxMax
  PROVE  Pend(R) = Append(Pend(r), f)
<1> DEFINE q == r.queue h == r.hand
<1>1. q \in Seq(Frames) /\ h \in Frames
  BY DEF ConnRecord
<1>2. R = [r EXCEPT !.queue = Append(@, f)]
  BY DEF Queued
<1>3. R.queue = Append(q, f) /\ R.hand = h
  BY <1>2 DEF ConnRecord
<1>4. /\ Pend(r) = (IF h = NoFrame THEN <<>> ELSE <<h>>) \o q
      /\ Pend(R) = (IF h = NoFrame THEN <<>> ELSE <<h>>) \o Append(q, f)
  BY <1>3 DEF Pend
<1> HIDE DEF q, h
<1>5. <<h>> \o Append(q, f) = Append(<<h>> \o q, f)
  BY <1>1
<1>6. <<>> \o Append(q, f) = Append(<<>> \o q, f)
  BY <1>1
<1> QED BY <1>4, <1>5, <1>6

\* The outbox has no room.
Full(r) == ~(Len(r.queue) < OutboxMax)

\* A frame that a full outbox drops makes the connection slow.
LEMMA DroppedIs ==
  ASSUME NEW c, NEW r \in ConnRecord, NEW f \in Frames, NEW R, R = Queued(c, r, f),
         r.writer # "done", Full(r)
  PROVE  /\ R \in ConnRecord /\ R.writer = r.writer /\ R.hand = r.hand
         /\ R.role = r.role /\ R.sock = r.sock /\ R.mark = r.mark /\ R.stop = r.stop
         /\ R.seen = r.seen /\ R.ended = r.ended /\ R.slow /\ R.gap
         /\ R.queue = r.queue
<1>1. R = [Overflowed(c, r) EXCEPT !.gap = TRUE]
  BY DEF Queued, Full
<1> QED BY <1>1 DEF Overflowed, ConnRecord

\* A seat that lost a frame is to be closed, unless that was done before.
LEMMA DroppedSeatIs ==
  ASSUME NEW c \in SeatConns, NEW r \in ConnRecord, NEW f \in Frames, NEW R, R = Queued(c, r, f),
         r.writer # "done", Full(r)
  PROVE  R.closing \/ (r.slow /\ (r.closing => R.closing))
<1>1. R = [Overflowed(c, r) EXCEPT !.gap = TRUE]
  BY DEF Queued, Full
<1>2. R.closing = (r.closing \/ (~r.slow /\ c \in SeatConns))
  BY <1>1 DEF Overflowed, ConnRecord
<1> QED BY <1>2 DEF ConnRecord

\* A connection whose frames stay, or that sees less of them, keeps them in order.
LEMMA SameContinues ==
  ASSUME NEW r, NEW R, Pend(R) = Pend(r), R.seen = r.seen, R.ended = r.ended,
         R.sock = "open" => r.sock = "open", ~R.gap => ~r.gap,
         r.role = "stopping" => R.role = "stopping",
         \A i \in DOMAIN Pend(r) : Continues(r, i)
  PROVE  \A i \in DOMAIN Pend(R) : Continues(R, i)
BY DEF Continues

\* A frame behind the others continues them, if it is the one that is due.
LEMMA Behind ==
  ASSUME NEW r, NEW R, NEW f \in Frames, Pend(r) \in Seq(Frames),
         Pend(R) = Append(Pend(r), f), R.seen = r.seen, R.ended = r.ended,
         R.sock = "open" => r.sock = "open", ~R.gap => ~r.gap,
         \A i \in DOMAIN Pend(r) : Continues(r, i) /\ Pend(r)[i].kind # "stop",
         f.kind # "welcome",
         f.kind = "turn" =>
           f.n < turns /\ (r.sock = "open" => f.n = At(r.seen, Pend(r), Len(Pend(r)))),
         f.kind \in {"state", "note"} /\ ~crashed /\ ~r.gap =>
           f.n = At(r.seen, Pend(r), Len(Pend(r))),
         f.kind = "end" => f.n = turns /\ r.ended = 0,
         f.kind = "stop" => R.role = "stopping",
         HasEnd(r) => f.kind \in {"stop", "error"}
  PROVE  /\ \A i \in DOMAIN Pend(R) : Continues(R, i)
         /\ Pend(R) # <<>> /\ (Pend(r) # <<>> => Pend(R)[1] = Pend(r)[1])
         /\ \A i \in DOMAIN Pend(R) :
              Pend(R)[i] = f \/ (i \in DOMAIN Pend(r) /\ Pend(R)[i] = Pend(r)[i])
         /\ At(R.seen, Pend(R), Len(Pend(R))) =
              IF Carries(f) THEN Gives(f) ELSE At(r.seen, Pend(r), Len(Pend(r)))
         /\ HasEnd(r) \/ f.kind = "end" => HasEnd(R)
<1> DEFINE P == Pend(r) Q == Pend(R) n == Len(P)
<1>1. /\ n \in Nat /\ DOMAIN P = 1 .. n /\ DOMAIN Q = 1 .. (n + 1) /\ Len(Q) = n + 1
      /\ \A i \in 1 .. n : Q[i] = P[i]
      /\ Q[n + 1] = f /\ Q # <<>>
  <2> HIDE DEF P
  <2>1. P \in Seq(Frames) /\ Q = Append(P, f)
    BY DEF P
  <2> HIDE DEF Q
  <2> QED BY <2>1
<1>2. \A i \in 0 .. n : At(r.seen, Q, i) = At(r.seen, P, i)
  <2> SUFFICES ASSUME NEW i \in 0 .. n PROVE At(r.seen, Q, i) = At(r.seen, P, i)
    OBVIOUS
  <2>1. i \in Nat /\ \A j \in 1 .. i : j \in 1 .. n
    BY <1>1
  <2>2. \A j \in 1 .. i : Q[j] = P[j]
    BY <1>1, <2>1
  <2> HIDE DEF P, Q, n
  <2> QED BY <2>1, <2>2, AtAgrees
<1>3. At(R.seen, Q, n + 1) = IF Carries(f) THEN Gives(f) ELSE At(r.seen, P, n)
  <2>1. n + 1 \in Nat /\ n + 1 > 0 /\ (n + 1) - 1 = n /\ n \in 0 .. n
    BY <1>1
  <2> DEFINE m == n + 1 v == R.seen
  <2>2. m \in Nat /\ m > 0 /\ m - 1 = n
    BY <2>1
  <2> HIDE DEF P, Q, n, m, v
  <2>3. /\ Carries(Q[m]) => At(v, Q, m) = Gives(Q[m])
        /\ ~Carries(Q[m]) => At(v, Q, m) = At(v, Q, m - 1)
    BY <2>2, AtStep
  <2>4. At(R.seen, Q, n) = At(r.seen, P, n)
    BY <1>2, <2>1
  <2> QED BY <1>1, <2>2, <2>3, <2>4 DEF m, v
<1>4. \A i \in 1 .. (n + 1) : i \in 1 .. n \/ i = n + 1
  BY <1>1
<1>5. \A i \in 1 .. n : i - 1 \in 0 .. n /\ i # n + 1
  BY <1>1
<1>6. ASSUME NEW i \in 1 .. (n + 1) PROVE Continues(R, i)
  <2>1. CASE i \in 1 .. n
    <3>1. Continues(r, i) /\ P[i].kind # "stop" /\ Q[i] = P[i]
      BY <1>1, <2>1
    <3>2. At(R.seen, Q, i - 1) = At(r.seen, P, i - 1)
      BY <1>2, <1>5, <2>1
    <3>3. P[i].kind = "end" => HasEnd(r)
      BY <1>1, <2>1 DEF HasEnd
    <3>4. P[i].kind = "end" => \A j \in 1 .. (n + 1) : i < j => Q[j].kind \in {"stop", "error"}
      BY <1>1, <1>4, <3>1, <3>3 DEF Continues
    <3> QED BY <1>1, <3>1, <3>2, <3>4 DEF Continues
  <2>2. CASE i = n + 1
    <3>1. Q[i] = f /\ i = Len(Q) /\ i - 1 = n
      BY <1>1, <2>2
    <3>2. At(R.seen, Q, i - 1) = At(r.seen, P, n)
      BY <1>1, <1>2, <3>1
    <3>3. r.ended = 1 => HasEnd(r)
      BY DEF HasEnd
    <3>4. \A j \in DOMAIN Q : ~(i < j)
      BY <1>1, <3>1
    <3> QED BY <3>1, <3>2, <3>3, <3>4 DEF Continues
  <2> QED BY <1>4, <2>1, <2>2
<1>7. HasEnd(r) \/ f.kind = "end" => HasEnd(R)
  BY <1>1, <1>4 DEF HasEnd
<1>8. n >= 1 => Q[1] = P[1]
  BY <1>1
<1>9. P # <<>> => n >= 1
  BY <1>1
<1> QED BY <1>1, <1>3, <1>4, <1>6, <1>7, <1>8, <1>9

\* A connection whose frames stay where they were.
LEMMA SameStream ==
  ASSUME NEW c, NEW r, NEW R \in ConnRecord, Sane(c, r),
         Pend(R) = Pend(r), R.hand.kind \notin {"stop", "close"},
         R.seen = r.seen, R.ended = r.ended, R.writer = r.writer, R.role = r.role,
         R.sock = "open" => r.sock = "open", ~R.gap => ~r.gap,
         Turning /\ R.role = "live" /\ R.writer = "on" /\ R.gap /\ R.sock = "open" =>
           Len(R.queue) >= OutboxMax,
         Placed(c, R), Told(c, R)
  PROVE  Sane(c, R)
<1>1. \A i \in DOMAIN Pend(R) : Continues(R, i)
  BY SameContinues DEF Sane, Streams
<1> QED BY <1>1 DEF Sane, Streams

\* A connection that has nothing more to send.
LEMMA Emptied ==
  ASSUME NEW c, NEW r, NEW R \in ConnRecord, Sane(c, r),
         R.hand = NoFrame, R.queue = <<>>, R.writer = "done",
         R.seen = r.seen, R.ended = r.ended, Placed(c, R), Told(c, R)
  PROVE  Sane(c, R)
<1>1. Pend(R) = <<>> /\ DOMAIN Pend(R) = {}
  BY PendIs DEF ConnRecord
<1> QED BY <1>1, NoFrameIs DEF Sane, Streams

\* Between two broadcasts a frame is put behind the others.
LEMMA Appended ==
  ASSUME NEW c, NEW r, NEW R \in ConnRecord, NEW f \in Frames, Sane(c, r), todo = <<>>,
         Pend(R) = Append(Pend(r), f), R.hand = r.hand, R.writer = r.writer,
         r.writer # "done", R.seen = r.seen, R.ended = r.ended, R.sock = r.sock,
         R.gap = r.gap, R.slow = r.slow, r.role \in {"parked", "live"},
         f.kind \in {"state", "note", "error", "close", "stop"},
         f.kind \in {"state", "note"} => f.n = turns,
         f.kind \in {"state", "note", "close"} => ~Closing,
         IF f.kind = "stop" THEN R.role = "stopping" /\ (c \in SeatConns => Closing)
                            ELSE R.role = r.role,
         Placed(c, R)
  PROVE  Sane(c, R)
<1>1. Pend(r) \in Seq(Frames) /\ Pend(R) \in Seq(Frames)
  BY PendIs DEF Sane, ConnRecord
<1>2. \A i \in DOMAIN Pend(r) : Continues(r, i) /\ Pend(r)[i].kind # "stop"
  BY DEF Sane, Streams, Continues
<1>3. ~Turning /\ Reached = turns
  BY DEF Turning, Reached
<1>4. ~crashed /\ ~r.gap => At(r.seen, Pend(r), Len(Pend(r))) = turns
  BY <1>3 DEF Sane, Streams
<1>5. f.kind \in {"state", "note", "close"} => ~HasEnd(r)
  BY DEF Sane, Streams, HasEnd
<1>6. /\ \A i \in DOMAIN Pend(R) : Continues(R, i)
      /\ Pend(R) # <<>> /\ (Pend(r) # <<>> => Pend(R)[1] = Pend(r)[1])
      /\ \A i \in DOMAIN Pend(R) :
           Pend(R)[i] = f \/ (i \in DOMAIN Pend(r) /\ Pend(R)[i] = Pend(r)[i])
      /\ At(R.seen, Pend(R), Len(Pend(R))) =
           IF Carries(f) THEN Gives(f) ELSE At(r.seen, Pend(r), Len(Pend(r)))
      /\ HasEnd(r) \/ f.kind = "end" => HasEnd(R)
  <2>1. f.kind \in {"state", "note"} /\ ~crashed /\ ~r.gap =>
          f.n = At(r.seen, Pend(r), Len(Pend(r)))
    BY <1>4
  <2>2. f.kind # "welcome" /\ f.kind # "turn" /\ f.kind # "end"
    OBVIOUS
  <2>3. HasEnd(r) => f.kind \in {"stop", "error"}
    BY <1>5
  <2>4. f.kind = "stop" => R.role = "stopping"
    OBVIOUS
  <2>5. R.sock = "open" => r.sock = "open"
    OBVIOUS
  <2>6. ~R.gap => ~r.gap
    OBVIOUS
  <2> QED BY <1>1, <1>2, <2>1, <2>2, <2>3, <2>4, <2>5, <2>6, Behind
<1>7. ~Carries(f)
  BY DEF Carries
<1>8. Streams(c, R)
  <2>1. r.seen = -1 => Pend(r) # <<>> /\ Pend(r)[1].kind = "welcome"
    BY DEF Sane, Streams
  <2>2. R.role \in {"parked", "live"} => R.role = r.role
    OBVIOUS
  <2>3. ~Closing => R.ended = 0 /\ \A i \in DOMAIN Pend(R) : Pend(R)[i].kind # "end"
    BY <1>6 DEF Sane, Streams
  <2>4. R.ended \in {0, 1}
    BY DEF Sane, Streams
  <2> QED BY <1>3, <1>4, <1>6, <1>7, <2>1, <2>2, <2>3, <2>4 DEF Streams
<1>9. Told(c, R)
  <2>1. R.role # "gone" /\ ~(R.stop = "drained")
    BY DEF Placed
  <2>2. Closing => r.role = "live" /\ r.stop = "no"
    BY DEF Sane, Placed, Closing
  <2>3. c \in SeatConns /\ ~r.slow /\ Closing /\ r.sock = "open" =>
          HasEnd(r) \/ (crashed /\ faults > 1)
    BY <2>2 DEF Sane, Told
  <2> QED BY <1>6, <2>1, <2>3 DEF Told
<1> QED BY <1>6, <1>8, <1>9 DEF Sane

\* The driver or a handler stops a connection's writer, drained if it has room.
LEMMA StoppingIs ==
  ASSUME NEW c, NEW r, NEW R, Sane(c, r), todo = <<>>, R = Stopping(r),
         r.role \in {"parked", "live"}, c \in SeatConns => Closing
  PROVE  Sane(c, R)
<1>1. r \in ConnRecord /\ r.stop = "no" /\ ~Turning /\ Reached = turns
  BY DEF Sane, Placed, Turning, Reached
<1>2. CASE ~(Len(r.queue) < OutboxMax)
  <2>1. PICK W : W = WriterEnds(r)
    OBVIOUS
  <2>2. R = [W EXCEPT !.role = "stopping", !.stop = "cut"]
    BY <1>2, <2>1 DEF Stopping
  <2>3. /\ W \in ConnRecord /\ W.writer = "done" /\ W.hand = NoFrame /\ W.queue = <<>>
        /\ W.sock = r.sock /\ W.slow = r.slow /\ W.closing = r.closing /\ W.gap = r.gap
        /\ W.seen = r.seen /\ W.ended = r.ended
    BY <1>1, <2>1, WriterEndsIs
  <2>4. /\ R \in ConnRecord /\ R.writer = "done" /\ R.hand = NoFrame /\ R.queue = <<>>
        /\ R.sock = r.sock /\ R.slow = r.slow /\ R.closing = r.closing /\ R.gap = r.gap
        /\ R.seen = r.seen /\ R.ended = r.ended /\ R.role = "stopping" /\ R.stop = "cut"
    BY <2>2, <2>3 DEF ConnRecord
  <2>5. Placed(c, R)
    BY <2>4 DEF Sane, Placed
  <2>6. Told(c, R)
    BY <2>4 DEF Told
  <2> QED BY <2>4, <2>5, <2>6, Emptied
<1>3. CASE Len(r.queue) < OutboxMax /\ r.writer = "done"
  <2>1. R = [r EXCEPT !.role = "stopping", !.stop = "draining", !.queue = @]
    BY <1>3 DEF Stopping
  <2>2. r.hand = NoFrame /\ r.queue = <<>>
    BY <1>3 DEF Sane, Placed
  <2>3. /\ R \in ConnRecord /\ R.writer = "done" /\ R.hand = NoFrame /\ R.queue = <<>>
        /\ R.sock = r.sock /\ R.slow = r.slow /\ R.closing = r.closing /\ R.gap = r.gap
        /\ R.seen = r.seen /\ R.ended = r.ended /\ R.role = "stopping" /\ R.stop = "draining"
    BY <1>1, <1>3, <2>1, <2>2 DEF ConnRecord
  <2>4. Placed(c, R)
    BY <2>3 DEF Sane, Placed
  <2>5. Pend(r) = <<>> /\ Pend(R) = <<>>
    BY <1>1, <2>2, <2>3, PendIs DEF ConnRecord
  <2>6. HasEnd(r) => HasEnd(R)
    BY <2>3, <2>5 DEF HasEnd
  <2>7. Closing => r.role = "live"
    BY DEF Sane, Placed, Closing
  <2>8. Told(c, R)
    BY <1>1, <2>3, <2>6, <2>7 DEF Sane, Told
  <2> QED BY <2>3, <2>4, <2>8, Emptied
<1>4. CASE Len(r.queue) < OutboxMax /\ r.writer # "done"
  <2>1. PICK f : f = Frame("stop", 0)
    OBVIOUS
  <2>2. f \in Frames /\ f.kind = "stop"
    BY <2>1, FrameIs
  <2>3. PICK B : B = [r EXCEPT !.queue = Append(@, f)]
    OBVIOUS
  <2>4. B = Queued(c, r, f)
    BY <1>4, <2>3 DEF Queued
  <2>5. /\ B \in ConnRecord /\ B.writer = r.writer /\ B.hand = r.hand /\ B.sock = r.sock
        /\ B.mark = r.mark /\ B.seen = r.seen /\ B.ended = r.ended
        /\ B.slow = r.slow /\ B.closing = r.closing /\ B.gap = r.gap
    BY <1>1, <1>4, <2>2, <2>4, QueuedIs
  <2>11. Pend(B) = Append(Pend(r), f)
    BY <1>1, <1>4, <2>2, <2>4, QueuedLast
  <2>6. R = [B EXCEPT !.role = "stopping", !.stop = "draining"]
    BY <1>1, <1>4, <2>1, <2>3 DEF Stopping, ConnRecord
  <2>7. /\ R \in ConnRecord /\ R.writer = r.writer /\ R.hand = r.hand /\ R.sock = r.sock
        /\ R.mark = r.mark /\ R.seen = r.seen /\ R.ended = r.ended /\ R.queue = B.queue
        /\ R.slow = r.slow /\ R.closing = r.closing /\ R.gap = r.gap
        /\ R.role = "stopping" /\ R.stop = "draining"
    BY <2>5, <2>6 DEF ConnRecord
  <2>8. Pend(R) = Append(Pend(r), f)
    <3>1. Pend(R) = Pend(B)
      BY ONLY <2>5, <2>7 DEF Pend
    <3> QED BY <2>11, <3>1
  <2>9. r.writer = "on"
    <3>1. r.writer # "off"
      BY DEF Sane, Placed, Closing
    <3>2. r.writer \in {"off", "on", "done"}
      BY <1>1 DEF ConnRecord
    <3> QED BY <1>4, <3>1, <3>2
  <2>10. Placed(c, R)
    BY <2>7, <2>9 DEF Sane, Placed
  <2> QED BY <1>4, <2>2, <2>7, <2>8, <2>10, Appended
<1> QED BY <1>2, <1>3, <1>4

\* A socket is lost or closed under its connection.
LEMMA ShutIs ==
  ASSUME NEW c, NEW r, NEW R \in ConnRecord, Sane(c, r),
         R.role = r.role, R.writer = r.writer, R.hand = r.hand, R.queue = r.queue,
         R.slow = r.slow, R.gap = r.gap, R.mark = r.mark, R.stop = r.stop,
         R.seen = r.seen, R.ended = r.ended, R.closing => r.closing,
         R.sock # "open", r.sock # "open" => R.sock = r.sock, r.sock = "open" => R.sock # "closed"
  PROVE  Sane(c, R)
<1>1. Pend(R) = Pend(r) /\ R.hand.kind \notin {"stop", "close"}
  BY DEF Pend, Sane
<1>2. Placed(c, R)
  BY DEF Sane, Placed
<1>3. Told(c, R)
  BY DEF Sane, Told
<1> QED BY <1>1, <1>2, <1>3, SameStream

\* The writer takes the next frame: it waits for the socket, or ends it all.
LEMMA TakenIs ==
  ASSUME NEW c, NEW r, NEW R, Sane(c, r), todo = <<>>,
         r.writer = "on", r.hand = NoFrame, r.queue # <<>>,
         R = LET f == Head(r.queue)
                 rest == [r EXCEPT !.queue = Tail(@)]
             IN  CASE f.kind = "stop"  -> WriterEnds(rest)
                   [] f.kind = "close" -> Shut(WriterEnds(rest), "kicked")
                   [] OTHER            -> [rest EXCEPT !.hand = f]
  PROVE  Sane(c, R)
<1> DEFINE q == r.queue
<1>1. r \in ConnRecord /\ q \in Seq(Frames) /\ q # <<>> /\ Pend(r) = q
  BY PendIs DEF Sane, ConnRecord
<1>2. PICK f \in Frames : f = Head(q)
  <2> HIDE DEF q
  <2> QED BY <1>1
<1>3. /\ Tail(q) \in Seq(Frames) /\ q = <<f>> \o Tail(q) /\ 1 \in DOMAIN q /\ q[1] = f
      /\ \A i \in DOMAIN q : i >= 1
  <2> HIDE DEF q
  <2> QED BY <1>1, <1>2
<1>4. PICK rest : rest = [r EXCEPT !.queue = Tail(@)]
  OBVIOUS
<1>5. rest \in ConnRecord /\ rest = [r EXCEPT !.queue = rest.queue] /\ rest.queue = Tail(q)
  BY <1>1, <1>3, <1>4 DEF ConnRecord
<1>6. /\ rest.role = r.role /\ rest.sock = r.sock /\ rest.writer = r.writer /\ rest.slow = r.slow
      /\ rest.closing = r.closing /\ rest.gap = r.gap /\ rest.mark = r.mark
      /\ rest.stop = r.stop /\ rest.seen = r.seen /\ rest.ended = r.ended
  BY <1>1, <1>4 DEF ConnRecord
<1>7. Continues(r, 1) /\ f.kind # "none"
  BY <1>1, <1>3 DEF Sane, Streams
<1>8. CASE f.kind = "stop"
  <2>1. PICK W : W = WriterEnds(rest)
    OBVIOUS
  <2>2. /\ W \in ConnRecord /\ W.writer = "done" /\ W.hand = NoFrame /\ W.queue = <<>>
        /\ W.role = r.role /\ W.sock = r.sock /\ W.slow = r.slow /\ W.closing = r.closing
        /\ W.gap = r.gap /\ W.mark = r.mark /\ W.stop = r.stop /\ W.seen = r.seen
        /\ W.ended = r.ended
    BY <1>5, <1>6, <2>1, WriterEndsIs
  <2>7. R = W
    BY <1>2, <1>4, <1>8, <2>1
  <2>3. r.role = "stopping" /\ Len(q) = 1
    BY <1>1, <1>3, <1>7, <1>8 DEF Continues
  <2>4. Placed(c, R)
    BY <2>2, <2>7, <2>3 DEF Sane, Placed
  <2>5. HasEnd(r) => r.ended = 1
    BY <1>1, <1>3, <1>8, <2>3 DEF HasEnd
  <2>6. Told(c, R)
    BY <2>2, <2>7, <2>5 DEF Sane, Told, HasEnd
  <2> QED BY <2>2, <2>7, <2>4, <2>6, Emptied
<1>9. CASE f.kind = "close"
  <2>1. PICK W : W = WriterEnds(rest)
    OBVIOUS
  <2>2. R = [W EXCEPT !.sock = IF @ = "open" THEN "kicked" ELSE @]
    BY <1>2, <1>4, <1>9, <2>1 DEF Shut
  <2>3. /\ W \in ConnRecord /\ W.writer = "done" /\ W.hand = NoFrame /\ W.queue = <<>>
        /\ W.role = r.role /\ W.sock = r.sock /\ W.slow = r.slow /\ W.closing = r.closing
        /\ W.gap = r.gap /\ W.mark = r.mark /\ W.stop = r.stop /\ W.seen = r.seen
        /\ W.ended = r.ended
    BY <1>5, <1>6, <2>1, WriterEndsIs
  <2>4. /\ R \in ConnRecord /\ R.writer = "done" /\ R.hand = NoFrame /\ R.queue = <<>>
        /\ R.role = r.role /\ R.slow = r.slow /\ R.closing = r.closing
        /\ R.gap = r.gap /\ R.mark = r.mark /\ R.stop = r.stop /\ R.seen = r.seen
        /\ R.ended = r.ended
        /\ R.sock = IF r.sock = "open" THEN "kicked" ELSE r.sock
    BY ONLY <2>2, <2>3 DEF ConnRecord
  <2>5. Placed(c, R)
    BY <2>4 DEF Sane, Placed
  <2>6. Told(c, R)
    BY <2>4 DEF Sane, Told
  <2> QED BY <2>4, <2>5, <2>6, Emptied
<1>10. CASE f.kind \notin {"stop", "close"}
  <2>1. PICK W : W = [rest EXCEPT !.hand = f]
    OBVIOUS
  <2>8. /\ W \in ConnRecord /\ W.hand = f /\ W.queue = rest.queue
        /\ W.role = rest.role /\ W.sock = rest.sock /\ W.writer = rest.writer
        /\ W.slow = rest.slow /\ W.closing = rest.closing /\ W.gap = rest.gap
        /\ W.mark = rest.mark /\ W.stop = rest.stop /\ W.seen = rest.seen
        /\ W.ended = rest.ended
    BY ONLY <1>2, <1>5, <2>1 DEF ConnRecord
  <2>9. R = W
    BY <1>2, <1>4, <1>10, <2>1
  <2>2. /\ R \in ConnRecord /\ R.hand = f /\ R.queue = Tail(q)
        /\ R.role = r.role /\ R.sock = r.sock /\ R.writer = r.writer /\ R.slow = r.slow
        /\ R.closing = r.closing /\ R.gap = r.gap /\ R.mark = r.mark
        /\ R.stop = r.stop /\ R.seen = r.seen /\ R.ended = r.ended
    BY <1>5, <1>6, <2>8, <2>9
  <2>3. Pend(R) = Pend(r)
    BY <1>1, <1>3, <1>7, <2>2, NoFrameIs DEF Pend
  <2>4. Placed(c, R)
    BY <2>2 DEF Sane, Placed
  <2>5. HasEnd(R) <=> HasEnd(r)
    BY <2>2, <2>3 DEF HasEnd
  <2>6. Told(c, R)
    BY <2>2, <2>5 DEF Sane, Told
  <2>7. ~Turning
    BY DEF Turning
  <2> QED BY <1>10, <2>2, <2>3, <2>4, <2>6, <2>7, SameStream
<1> QED BY <1>8, <1>9, <1>10

\* Behind the end of the match only a sentinel or an error is left to send.
LEMMA EndIs ==
  ASSUME NEW r, NEW i, Continues(r, i), Pend(r)[i].kind = "end"
  PROVE  /\ Pend(r)[i].n = turns /\ r.ended = 0
         /\ \A j \in DOMAIN Pend(r) : i < j => Pend(r)[j].kind \in {"stop", "error"}
BY DEF Continues

\* The connection once the frame in its writer's hand has been sent.
Delivered(r) == [Read(r, r.hand) EXCEPT !.hand = NoFrame]

\* The first frame is sent: what is left continues what the client has now.
LEMMA SentIs ==
  ASSUME NEW c, NEW r, NEW R, Sane(c, r), todo = <<>>, r.hand # NoFrame,
         R = Delivered(r)
  PROVE  Sane(c, R) /\ R.role = r.role /\ R.writer = "on"
<1> DEFINE P == Pend(r) Q == Pend(R) h == r.hand n == Len(r.queue)
<1>1. /\ r \in ConnRecord /\ h \in Frames /\ r.queue \in Seq(Frames) /\ h.n \in Nat
      /\ h.kind # "none" /\ n \in Nat
  <2>1. r \in ConnRecord /\ h \in Frames /\ r.queue \in Seq(Frames)
    BY DEF Sane, ConnRecord
  <2>2. P[1] = h /\ 1 \in DOMAIN P
    BY <2>1, PendIs
  <2> QED BY <2>1, <2>2, NoFrameIs DEF Sane
<1>2. /\ R \in ConnRecord /\ R.hand = NoFrame /\ R.queue = r.queue
      /\ R.role = r.role /\ R.sock = r.sock /\ R.writer = r.writer /\ R.slow = r.slow
      /\ R.closing = r.closing /\ R.gap = r.gap /\ R.mark = r.mark /\ R.stop = r.stop
      /\ R.seen = IF Carries(h) THEN Gives(h) ELSE r.seen
      /\ R.ended = IF h.kind = "end" THEN r.ended + 1 ELSE r.ended
  <2>1. CASE h.kind = "welcome"
    <3>1. R = [r EXCEPT !.seen = h.n, !.hand = NoFrame]
      BY <1>1, <2>1 DEF Delivered, Read, ConnRecord
    <3> QED BY <1>1, <2>1, <3>1, NoFrameIs DEF ConnRecord, Carries, Gives
  <2>2. CASE h.kind = "turn"
    <3>1. PICK m \in Nat : m = h.n + 1
      BY <1>1
    <3>2. R = [r EXCEPT !.seen = m, !.hand = NoFrame]
      BY <1>1, <2>2, <3>1 DEF Delivered, Read, ConnRecord
    <3>3. Carries(h) /\ Gives(h) = m
      BY <2>2, <3>1 DEF Carries, Gives
    <3> QED BY <1>1, <2>2, <3>2, <3>3, NoFrameIs DEF ConnRecord
  <2>3. CASE h.kind = "end"
    <3>1. PICK m \in Nat : m = h.n
      BY <1>1
    <3>2. PICK e \in Nat : e = r.ended + 1
      BY <1>1 DEF ConnRecord
    <3>3. Read(r, h) = [r EXCEPT !.seen = m, !.ended = e]
      BY <1>1, <2>3, <3>1, <3>2 DEF Read
    <3>4. R = [r EXCEPT !.seen = m, !.ended = e, !.hand = NoFrame]
      BY <1>1, <3>3 DEF Delivered, ConnRecord
    <3>5. Carries(h) /\ Gives(h) = m
      BY <2>3, <3>1 DEF Carries, Gives
    <3> QED BY <1>1, <2>3, <3>2, <3>4, <3>5, NoFrameIs DEF ConnRecord
  <2>4. CASE h.kind \notin {"welcome", "turn", "end"}
    <3>1. R = [r EXCEPT !.hand = NoFrame]
      BY <1>1, <2>4 DEF Delivered, Read
    <3> QED BY <1>1, <2>4, <3>1, NoFrameIs DEF ConnRecord, Carries, Gives
  <2> QED BY <2>1, <2>2, <2>3, <2>4
<1>3. /\ P \in Seq(Frames) /\ Q \in Seq(Frames) /\ Len(P) = n + 1 /\ Len(Q) = n
      /\ DOMAIN P = 1 .. (n + 1) /\ DOMAIN Q = 1 .. n
      /\ P[1] = h /\ \A i \in 1 .. n : Q[i] = P[i + 1]
  <2>1. P \in Seq(Frames) /\ Len(P) = n + 1 /\ P[1] = h /\ \A i \in 1 .. n : P[i + 1] = r.queue[i]
    BY <1>1, PendIs
  <2>2. Q = r.queue
    BY <1>1, <1>2, NoFrameIs, PendIs
  <2> HIDE DEF P, Q
  <2> QED BY <1>1, <2>1, <2>2
<1>4. \A i \in 0 .. n : At(R.seen, Q, i) = At(r.seen, P, i + 1)
  <2> SUFFICES ASSUME NEW i \in 0 .. n PROVE At(R.seen, Q, i) = At(r.seen, P, i + 1)
    OBVIOUS
  <2> DEFINE v == r.seen w == R.seen
  <2>1. i \in Nat /\ \A j \in 1 .. i : Q[j] = P[j + 1]
    BY <1>1, <1>3
  <2>2. w = IF Carries(P[1]) THEN Gives(P[1]) ELSE v
    BY <1>2, <1>3
  <2> HIDE DEF P, Q, v, w
  <2>3. At(w, Q, i) = At(v, P, i + 1)
    BY ONLY <2>1, <2>2, AtShifts
  <2> QED BY <2>3 DEF v, w
<1>5. \A i \in 1 .. (n + 1) : Continues(r, i)
  BY <1>3 DEF Sane, Streams
<1>6. \A i \in 1 .. n : i + 1 \in 1 .. (n + 1) /\ i - 1 \in 0 .. n /\ (i - 1) + 1 = (i + 1) - 1
  BY <1>1
<1>7. r.ended \in {0, 1} /\ Continues(r, 1) /\ 1 \in 1 .. (n + 1)
  BY <1>1, <1>5 DEF Sane, Streams
<1>8. h.kind = "end" => r.ended = 0 /\ \A i \in 1 .. n : Q[i].kind \in {"stop", "error"}
  <2>1. h.kind = "end" => r.ended = 0 /\ \A j \in 1 .. (n + 1) : 1 < j => P[j].kind \in {"stop", "error"}
    <3> SUFFICES ASSUME P[1].kind = "end"
                 PROVE  /\ r.ended = 0
                        /\ \A j \in 1 .. (n + 1) : 1 < j => P[j].kind \in {"stop", "error"}
      BY <1>3
    <3>1. r.ended = 0 /\ \A j \in DOMAIN P : 1 < j => P[j].kind \in {"stop", "error"}
      BY <1>7, EndIs
    <3> QED BY <1>3, <3>1
  <2>2. \A i \in 1 .. n : 1 < i + 1
    BY <1>1
  <2> HIDE DEF P, Q, h, n
  <2> QED BY <1>3, <1>6, <2>1, <2>2
<1>9. ASSUME NEW i \in 1 .. n PROVE Continues(R, i)
  <2>1. Continues(r, i + 1) /\ Q[i] = P[i + 1]
    BY <1>3, <1>5, <1>6
  <2>2. At(R.seen, Q, i - 1) = At(r.seen, P, (i + 1) - 1)
    BY <1>4, <1>6
  <2>3. Q[i].kind = "welcome" => i = 1 /\ FALSE
    BY <1>1, <2>1 DEF Continues
  <2>4. Q[i].kind = "end" =>
          Q[i].n = turns /\ R.ended = 0 /\ \A j \in 1 .. n : i < j => Q[j].kind \in {"stop", "error"}
    <3>1. Q[i].kind = "end" =>
            r.ended = 0 /\ Q[i].n = turns
            /\ \A j \in 1 .. (n + 1) : i + 1 < j => P[j].kind \in {"stop", "error"}
      BY <1>3, <2>1, EndIs
    <3>2. Q[i].kind = "end" => \A j \in 1 .. n : i < j => Q[j].kind \in {"stop", "error"}
      <4>1. \A j \in 1 .. n : i < j => i + 1 < j + 1
        BY <1>1
      <4> QED BY <1>3, <1>6, <3>1, <4>1
    <3>3. Q[i].kind = "end" => h.kind # "end"
      BY <1>8
    <3> QED BY <1>2, <3>1, <3>2, <3>3
  <2>5. Q[i].kind = "stop" => i = n /\ R.role = "stopping"
    BY <1>1, <1>2, <1>3, <2>1 DEF Continues
  <2>6. R.ended = 1 => Q[i].kind \in {"stop", "error"}
    BY <1>2, <1>7, <1>8, <2>1 DEF Continues
  <2>7. Q[i].kind = "turn" =>
          Q[i].n < turns /\ (R.sock = "open" => Q[i].n = At(R.seen, Q, i - 1))
    BY <1>2, <2>1, <2>2 DEF Continues
  <2>8. Q[i].kind \in {"state", "note"} /\ ~crashed /\ ~R.gap => Q[i].n = At(R.seen, Q, i - 1)
    BY <1>2, <2>1, <2>2 DEF Continues
  <2> QED BY <1>3, <2>3, <2>4, <2>5, <2>6, <2>7, <2>8 DEF Continues
<1>10. R.seen # -1
  <2>1. Carries(h) => R.seen # -1
    BY <1>1, <1>2 DEF Gives
  <2>2. ~Carries(h) => r.seen # -1
    BY <1>3, <1>7 DEF Sane, Streams, Carries
  <2> QED BY <1>2, <2>1, <2>2
<1>11. ~Turning
  BY DEF Turning
<1>12. Streams(c, R)
  <2>1. R.ended \in {0, 1}
    BY <1>2, <1>7, <1>8
  <2>2. ~Closing => R.ended = 0 /\ \A i \in DOMAIN Q : Q[i].kind # "end"
    <3>1. ~Closing => r.ended = 0 /\ \A i \in 1 .. (n + 1) : P[i].kind # "end"
      BY <1>3 DEF Sane, Streams
    <3>2. ~Closing => h.kind # "end" /\ \A i \in 1 .. n : Q[i].kind # "end"
      BY <1>3, <1>6, <1>7, <3>1
    <3> QED BY <1>2, <1>3, <3>1, <3>2
  <2>3. At(R.seen, Q, Len(Q)) = At(r.seen, P, Len(P))
    <3>1. n \in 0 .. n /\ Len(Q) = n /\ Len(P) = n + 1
      BY <1>1, <1>3
    <3> QED BY <1>4, <3>1
  <2>4. R.role \in {"parked", "live"} /\ R.writer # "done" /\ ~crashed /\ ~R.gap =>
          At(R.seen, Q, Len(Q)) = Reached
    BY <1>2, <2>3 DEF Sane, Streams
  <2> QED BY <1>3, <1>9, <1>10, <1>11, <2>1, <2>2, <2>4 DEF Streams
<1>13. r.writer = "on"
  BY DEF Sane, Placed
<1>14. Placed(c, R)
  BY <1>2, <1>13 DEF Sane, Placed
<1>15. HasEnd(r) => HasEnd(R)
  <2>1. r.ended = 1 => R.ended = 1
    BY <1>2, <1>8
  <2>2. ASSUME NEW i \in 1 .. (n + 1), P[i].kind = "end" PROVE HasEnd(R)
    <3>1. CASE i = 1
      BY <1>2, <1>3, <1>8, <2>2, <3>1 DEF HasEnd
    <3>2. CASE i # 1
      <4>1. i - 1 \in 1 .. n /\ (i - 1) + 1 = i
        BY <1>1, <3>2
      <4>2. Q[i - 1].kind = "end"
        BY <1>3, <2>2, <4>1
      <4> QED BY <1>3, <4>1, <4>2 DEF HasEnd
    <3> QED BY <3>1, <3>2
  <2> QED BY <1>3, <2>1, <2>2 DEF HasEnd
<1>16. r.ended = 1 => R.ended = 1
  BY <1>2, <1>8
<1>17. Told(c, R)
  BY <1>2, <1>15, <1>16 DEF Sane, Told
<1>18. \A i \in DOMAIN Q : Q[i].kind # "none"
  BY <1>3, <1>6 DEF Sane
<1> QED BY <1>2, <1>12, <1>13, <1>14, <1>17, <1>18, NoFrameIs DEF Sane

\* The transport holds too much, or the outbox is full: the connection is slow.
LEMMA SlowIs ==
  ASSUME NEW c, NEW r, NEW R, Sane(c, r), R = Overflowed(c, r), r.role \notin {"absent", "new"}
  PROVE  Sane(c, R)
<1>1. /\ R \in ConnRecord /\ R.hand = r.hand /\ R.queue = r.queue
      /\ R.role = r.role /\ R.sock = r.sock /\ R.writer = r.writer /\ R.slow = TRUE
      /\ R.gap = r.gap /\ R.mark = r.mark /\ R.stop = r.stop
      /\ R.seen = r.seen /\ R.ended = r.ended
      /\ R.closing = (r.closing \/ (~r.slow /\ c \in SeatConns))
  BY DEF Overflowed, ConnRecord, Sane
<1>2. Pend(R) = Pend(r)
  BY <1>1 DEF Pend
<1>3. Placed(c, R)
  BY <1>1 DEF Sane, Placed
<1>4. Told(c, R)
  BY <1>1 DEF Sane, Told
<1>5. Turning /\ R.role = "live" /\ R.writer = "on" /\ R.gap /\ R.sock = "open" =>
        Len(R.queue) >= OutboxMax
  BY <1>1 DEF Sane, Streams
<1>6. R.hand.kind \notin {"stop", "close"}
  BY <1>1 DEF Sane
<1> QED BY <1>1, <1>2, <1>3, <1>4, <1>5, <1>6, SameStream

\* A send fails: the writer ends with its socket.
LEMMA FailedIs ==
  ASSUME NEW c, NEW r, NEW R, Sane(c, r), R = WriterEnds(r), r.hand # NoFrame, r.sock # "open"
  PROVE  Sane(c, R)
<1>1. /\ R \in ConnRecord /\ R.writer = "done" /\ R.hand = NoFrame /\ R.queue = <<>>
      /\ R.role = r.role /\ R.sock = r.sock /\ R.slow = r.slow /\ R.closing = r.closing
      /\ R.gap = r.gap /\ R.mark = r.mark /\ R.stop = r.stop /\ R.seen = r.seen
      /\ R.ended = r.ended
  BY WriterEndsIs DEF Sane
<1>2. r.writer = "on"
  BY DEF Sane, Placed
<1>3. Placed(c, R)
  BY <1>1, <1>2 DEF Sane, Placed
<1>4. Told(c, R)
  BY <1>1 DEF Sane, Told
<1> QED BY <1>1, <1>3, <1>4, Emptied

\* A connection is given up: its writer ends and its socket is closed.
LEMMA GoneIs ==
  ASSUME NEW c, NEW r, NEW R, NEW how \in {"no", "cut", "drained", "expired"}, Sane(c, r),
         R = [Shut(WriterEnds(r), "closed") EXCEPT !.role = "gone", !.stop = how],
         c \in SeatConns /\ how # "no" => Closing,
         c \in SeatConns /\ ~r.slow /\ how = "drained" /\ (r.sock = "open" \/ r.sock = "closed") =>
           r.ended = 1 \/ (crashed /\ faults > 1)
  PROVE  Sane(c, R)
<1>1. PICK W : W = WriterEnds(r)
  OBVIOUS
<1>2. /\ W \in ConnRecord /\ W.writer = "done" /\ W.hand = NoFrame /\ W.queue = <<>>
      /\ W.role = r.role /\ W.sock = r.sock /\ W.slow = r.slow /\ W.closing = r.closing
      /\ W.gap = r.gap /\ W.mark = r.mark /\ W.stop = r.stop /\ W.seen = r.seen
      /\ W.ended = r.ended
  BY <1>1, WriterEndsIs DEF Sane
<1>3. PICK sk : sk = IF r.sock = "open" THEN "closed" ELSE r.sock
  OBVIOUS
<1>4. sk \in {"none", "open", "lost", "kicked", "closed"}
  BY <1>3 DEF Sane, ConnRecord
<1>5. R = [W EXCEPT !.sock = sk, !.role = "gone", !.stop = how]
  <2>1. R = [Shut(W, "closed") EXCEPT !.role = "gone", !.stop = how]
    BY <1>1
  <2>2. Shut(W, "closed") = [W EXCEPT !.sock = sk]
    BY <1>2, <1>3 DEF Shut
  <2>3. W \in ConnRecord
    BY <1>2
  <2> QED BY ONLY <2>1, <2>2, <2>3 DEF ConnRecord
<1>6. /\ R \in ConnRecord /\ R.writer = "done" /\ R.hand = NoFrame /\ R.queue = <<>>
      /\ R.slow = r.slow /\ R.closing = r.closing /\ R.gap = r.gap /\ R.mark = r.mark
      /\ R.seen = r.seen /\ R.ended = r.ended /\ R.role = "gone" /\ R.stop = how
      /\ R.sock = IF r.sock = "open" THEN "closed" ELSE r.sock
  <2>1. /\ R \in ConnRecord /\ R.writer = W.writer /\ R.hand = W.hand /\ R.queue = W.queue
        /\ R.slow = W.slow /\ R.closing = W.closing /\ R.gap = W.gap /\ R.mark = W.mark
        /\ R.seen = W.seen /\ R.ended = W.ended /\ R.role = "gone" /\ R.stop = how
        /\ R.sock = sk
    <3>1. W \in ConnRecord /\ how \in {"no", "cut", "drained", "expired"}
      BY <1>2
    <3>2. how \in {"no", "draining", "cut", "drained", "expired"}
      OBVIOUS
    <3> QED BY ONLY <3>1, <3>2, <1>5, <1>4 DEF ConnRecord
  <2> QED BY <1>2, <1>3, <2>1
<1>7. Placed(c, R)
  BY <1>6 DEF Sane, Placed
<1>8. Told(c, R)
  BY <1>6 DEF Sane, Told
<1> QED BY <1>6, <1>7, <1>8, Emptied

\* A handler has just welcomed a connection with the turns so far.
LEMMA WelcomedIs ==
  ASSUME NEW c, NEW R \in ConnRecord, NEW w \in Frames, todo = <<>>, turns \in Nat,
         w.kind = "welcome", w.n = turns, R.hand = NoFrame, R.queue = <<w>>,
         R.writer = "on", R.sock = "open", R.seen = -1, R.ended = 0,
         ~R.gap, ~R.slow, R.mark <= turns, R.stop = "no",
         R.role = IF phase = "idle" THEN "parked" ELSE "live",
         c \in SeatConns => phase # "idle" /\ ~Closing
  PROVE  Sane(c, R)
<1> DEFINE q == <<w>>
<1>1. q \in Seq(Frames) /\ Len(q) = 1 /\ q[1] = w /\ q # <<>> /\ DOMAIN q = {1}
  OBVIOUS
<1>2. Pend(R) = q
  <2>1. R.hand \in Frames /\ R.queue \in Seq(Frames) /\ R.hand = NoFrame /\ R.queue = q
    BY DEF ConnRecord
  <2> HIDE DEF q
  <2> QED BY <2>1, PendIs
<1>3. ~Turning /\ Reached = turns
  BY DEF Turning, Reached
<1>4. At(-1, q, 1) = turns
  <2>1. Carries(q[1]) /\ Gives(q[1]) = turns
    BY <1>1 DEF Carries, Gives
  <2> HIDE DEF q
  <2> QED BY <2>1, AtStep
<1>5. \A i \in DOMAIN Pend(R) : Continues(R, i)
  BY <1>1, <1>2 DEF Continues
<1>6. Streams(c, R)
  BY <1>1, <1>2, <1>3, <1>4, <1>5 DEF Streams
<1>7. Placed(c, R)
  BY <1>3 DEF Placed
<1>8. Told(c, R)
  BY DEF Told
<1> QED BY <1>1, <1>2, <1>6, <1>7, <1>8, NoFrameIs DEF Sane

\* A seat is sent a frame of its own between two broadcasts.
LEMMA NotedIs ==
  ASSUME NEW c \in SeatConns, NEW r, NEW R, Sane(c, r), todo = <<>>, turns \in Nat,
         r.role = "live", ~Closing, R = Queued(c, r, Frame("note", turns))
  PROVE  Sane(c, R)
<1>1. PICK f : f = Frame("note", turns)
  OBVIOUS
<1>2. f \in Frames /\ f.kind = "note" /\ f.n = turns
  BY <1>1, FrameIs
<1>3. r \in ConnRecord
  BY DEF Sane
<1>4. CASE r.writer = "done"
  <2>1. R = Queued(c, r, f)
    BY <1>1
  <2>2. R = r
    BY ONLY <1>4, <2>1 DEF Queued
  <2> QED BY <2>2
<1>5. CASE r.writer # "done" /\ Len(r.queue) < OutboxMax
  <2>1. /\ R \in ConnRecord /\ R.writer = r.writer /\ R.hand = r.hand
        /\ R.role = r.role /\ R.sock = r.sock /\ R.mark = r.mark /\ R.stop = r.stop
        /\ R.seen = r.seen /\ R.ended = r.ended
        /\ R.slow = r.slow /\ R.closing = r.closing /\ R.gap = r.gap
    BY <1>1, <1>2, <1>3, <1>5, QueuedIs
  <2>4. Pend(R) = Append(Pend(r), f)
    BY <1>1, <1>2, <1>3, <1>5, QueuedLast
  <2>2. r.writer = "on"
    <3>1. r.writer # "off"
      BY DEF Sane, Placed
    <3>2. r.writer \in {"off", "on", "done"}
      BY <1>3 DEF ConnRecord
    <3> QED BY <1>5, <3>1, <3>2
  <2>3. Placed(c, R)
    BY <2>1, <2>2 DEF Sane, Placed
  <2> QED BY <1>2, <1>5, <2>1, <2>3, <2>4, Appended
<1>6. CASE r.writer # "done" /\ Full(r)
  <2>1. /\ R \in ConnRecord /\ R.writer = r.writer /\ R.hand = r.hand
        /\ R.role = r.role /\ R.sock = r.sock /\ R.mark = r.mark /\ R.stop = r.stop
        /\ R.seen = r.seen /\ R.ended = r.ended /\ R.slow /\ R.gap
        /\ R.queue = r.queue
    BY <1>1, <1>2, <1>3, <1>6, DroppedIs
  <2>2. R.closing \/ (r.slow /\ (r.closing => R.closing))
    BY <1>1, <1>2, <1>3, <1>6, DroppedSeatIs
  <2>3. Pend(R) = Pend(r)
    BY ONLY <2>1 DEF Pend
  <2>4. Placed(c, R)
    BY <2>1, <2>2 DEF Sane, Placed
  <2>5. Told(c, R)
    BY <2>1 DEF Told
  <2>6. ~Turning /\ R.hand.kind \notin {"stop", "close"}
    BY <2>1 DEF Turning, Sane
  <2> QED BY <2>1, <2>3, <2>4, <2>5, <2>6, SameStream
<1> QED BY <1>4, <1>5, <1>6 DEF Full

\* A seat that sent too many malformed frames is closed behind its frames, or
\* at once.
LEMMA CloseQueuedIs ==
  ASSUME NEW c \in SeatConns, NEW r, NEW R, Sane(c, r), todo = <<>>,
         r.role = "live", ~Closing, R = CloseQueued(r)
  PROVE  Sane(c, R)
<1>1. PICK f : f = Frame("close", 0)
  OBVIOUS
<1>2. f \in Frames /\ f.kind = "close"
  BY <1>1, FrameIs
<1>3. r \in ConnRecord
  BY DEF Sane
<1>4. CASE Len(r.queue) < OutboxMax /\ r.writer = "done"
  <2>1. R = r
    BY <1>3, <1>4 DEF ConnRecord, CloseQueued
  <2> QED BY <2>1
<1>5. CASE Len(r.queue) < OutboxMax /\ r.writer # "done"
  <2>1. R = Queued(c, r, f)
    BY <1>1, <1>5 DEF Queued, CloseQueued
  <2>2. /\ R \in ConnRecord /\ R.writer = r.writer /\ R.hand = r.hand
        /\ R.role = r.role /\ R.sock = r.sock /\ R.mark = r.mark /\ R.stop = r.stop
        /\ R.seen = r.seen /\ R.ended = r.ended
        /\ R.slow = r.slow /\ R.closing = r.closing /\ R.gap = r.gap
    BY ONLY <1>2, <1>3, <1>5, <2>1, QueuedIs
  <2>5. Pend(R) = Append(Pend(r), f)
    BY ONLY <1>2, <1>3, <1>5, <2>1, QueuedLast
  <2>3. r.writer = "on"
    <3>1. r.writer # "off"
      BY DEF Sane, Placed
    <3>2. r.writer \in {"off", "on", "done"}
      BY <1>3 DEF ConnRecord
    <3> QED BY <1>5, <3>1, <3>2
  <2>4. Placed(c, R)
    BY <2>2, <2>3 DEF Sane, Placed
  <2> QED BY <1>2, <1>5, <2>2, <2>4, <2>5, Appended
<1>6. CASE ~(Len(r.queue) < OutboxMax)
  <2>1. R = [r EXCEPT !.closing = TRUE]
    BY <1>6 DEF CloseQueued
  <2>2. /\ R \in ConnRecord /\ R.writer = r.writer /\ R.hand = r.hand /\ R.queue = r.queue
        /\ R.role = r.role /\ R.sock = r.sock /\ R.mark = r.mark /\ R.stop = r.stop
        /\ R.seen = r.seen /\ R.ended = r.ended /\ R.slow = r.slow /\ R.gap = r.gap
        /\ R.closing = TRUE
    BY <1>3, <2>1 DEF ConnRecord
  <2>3. Pend(R) = Pend(r)
    BY ONLY <2>2 DEF Pend
  <2>4. Placed(c, R)
    BY <2>2 DEF Sane, Placed
  <2>5. Told(c, R)
    BY <2>2, <2>3 DEF Sane, Told, HasEnd
  <2>6. ~Turning /\ R.hand.kind \notin {"stop", "close"}
    BY <2>2 DEF Turning, Sane
  <2> QED BY <2>2, <2>3, <2>4, <2>5, <2>6, SameStream
<1> QED BY <1>4, <1>5, <1>6


----------------------------------------------------------------------------
(* The driver moves on around a connection *)

\* What the driver does leaves a connection as it should be when no turns are
\* committed or unsent behind its back and the end is not passed over.
LEMMA Onward ==
  ASSUME NEW c, NEW r, Sane(c, r),
         turns \in Nat, turns' \in Nat, turns <= turns',
         Closing => Closing' /\ turns' = turns,
         crashed => crashed', faults \in Nat, faults' \in Nat, faults <= faults',
         ((phase' = "idle") <=> (phase = "idle")) \/ r.role \notin {"parked", "live"},
         Closing' /\ c \in SeatConns /\ r.role \in {"live", "stopping"} /\ r.sock = "open"
           /\ ~r.slow => Closing \/ (crashed' /\ faults' > 1),
         r.role \in {"parked", "live"} => r.mark <= Reached',
         ~crashed' /\ r.role \in {"parked", "live"} /\ r.writer # "done" /\ ~r.gap =>
           Reached' = Reached,
         Turning' /\ r.role = "live" /\ r.writer = "on" /\ r.gap /\ r.sock = "open" =>
           Len(r.queue) >= OutboxMax
  PROVE  Sane(c, r)'
<1>1. \A i \in DOMAIN Pend(r) : Pend(r)[i] \in Frames /\ Pend(r)[i].n \in Nat
  <2>1. Pend(r) \in Seq(Frames)
    BY PendIs DEF Sane, ConnRecord
  <2> DEFINE P == Pend(r)
  <2>2. P \in Seq(Frames)
    BY <2>1
  <2> HIDE DEF P
  <2>3. \A i \in DOMAIN P : P[i] \in Frames
    BY <2>2
  <2> QED BY <2>3, NoFrameIs DEF P
<1>2. Placed(c, r)'
  BY DEF Sane, Placed
<1>3. Told(c, r)'
  BY DEF Sane, Told
<1>4. ASSUME NEW i \in DOMAIN Pend(r) PROVE Continues(r, i)'
  <2>1. Continues(r, i)
    BY DEF Sane, Streams
  <2>2. Pend(r)[i].kind = "end" => turns' = turns
    BY DEF Sane, Streams
  <2> QED BY <1>1, <2>1, <2>2 DEF Continues
<1>5. Streams(c, r)'
  BY <1>4 DEF Sane, Streams
<1> QED BY <1>2, <1>3, <1>5 DEF Sane

\* The driver sends nothing, and does not enter or leave the end of the match.
Rests ==
  /\ UNCHANGED <<turns, todo, crashed, faults>>
  /\ Closing' = Closing /\ ((phase' = "idle") <=> (phase = "idle"))

\* Connections are as they should be after such a step if they were before.
LEMMA DriverRests ==
  ASSUME NEW c, NEW r, Sane(c, r), DriverInv, Rests
  PROVE  Sane(c, r)'
<1>1. turns' = turns /\ todo' = todo /\ crashed' = crashed /\ faults' = faults
  BY DEF Rests
<1>2. Turning' = Turning /\ Reached' = Reached
  BY <1>1 DEF Turning, Reached
<1>3. turns \in Nat /\ faults \in Nat
  BY DEF DriverInv
<1>4. r.role \in {"parked", "live"} => r.mark <= Reached'
  BY <1>2 DEF Sane, Placed
<1>5. Turning' /\ r.role = "live" /\ r.writer = "on" /\ r.gap /\ r.sock = "open" =>
        Len(r.queue) >= OutboxMax
  BY <1>2 DEF Sane, Streams
<1>6. Closing' = Closing /\ ((phase' = "idle") <=> (phase = "idle"))
  BY DEF Rests
<1> QED BY <1>1, <1>2, <1>3, <1>4, <1>5, <1>6, Onward

----------------------------------------------------------------------------
(* A broadcast *)

\* The first of some frames, and the rest.
LEMMA TailIs ==
  ASSUME NEW s \in Seq(Frames), s # <<>>
  PROVE  /\ Len(s) \in Nat /\ Len(s) > 0 /\ Head(s) = s[1] /\ Head(s) \in Frames
         /\ DOMAIN s = 1 .. Len(s)
         /\ Tail(s) \in Seq(Frames) /\ Len(Tail(s)) = Len(s) - 1
         /\ Len(s) = 1 => Tail(s) = <<>>
         /\ Len(s) # 1 => Tail(s) # <<>> /\ Head(Tail(s)) = s[2]
<1>1. /\ Len(s) \in Nat /\ Len(s) > 0 /\ Head(s) = s[1] /\ Head(s) \in Frames
      /\ DOMAIN s = 1 .. Len(s)
  OBVIOUS
<1>2. PICK t : t = Tail(s)
  OBVIOUS
<1>3. t \in Seq(Frames) /\ Len(t) = Len(s) - 1
  BY <1>2
<1>4. \A i \in 1 .. Len(s) - 1 : t[i] = s[i + 1]
  BY <1>2
<1>5. Len(s) = 1 => t = <<>>
  BY <1>3
<1>6. Len(s) # 1 => t # <<>> /\ Head(t) = t[1] /\ t[1] = s[2]
  BY <1>1, <1>3, <1>4
<1> QED BY <1>1, <1>2, <1>3, <1>5, <1>6

\* The driver queues the next frame of a broadcast.
Feeds ==
  /\ todo # <<>> /\ todo' = Tail(todo) /\ UNCHANGED <<turns, crashed>>
  /\ phase' = IF phase = "telling" /\ todo' = <<>> THEN "closing" ELSE phase
  /\ faults' \in Nat /\ faults <= faults'

\* What a broadcast queues next, and what it will have reached then.
LEMMA Due ==
  ASSUME DriverInv, Feeds, NEW f, f = Head(todo)
  PROVE  /\ f \in Frames /\ f.kind \in {"turn", "state", "end"} /\ ~Closing
         /\ phase # "idle" /\ phase' # "idle" /\ Reached \in Nat /\ Reached <= turns
         /\ Closing' <=> f.kind = "end"
         /\ f.kind = "turn" =>
              f.n < turns /\ f.n = Reached /\ Reached' = f.n + 1 /\ ~crashed
         /\ f.kind # "turn" => f.n = turns /\ ~Turning /\ ~Turning' /\ Reached = turns /\ Reached' = turns
         /\ Turning' => f.kind = "turn"
<1> USE DEF Feeds
<1>1. todo \in Seq(Frames) /\ turns \in Nat
  BY DEF DriverInv
<1>2. phase \in {"running", "over", "telling"} /\ ~Closing /\ phase # "idle"
  BY DEF DriverInv, Closing
<1>3. CASE TurnsLeft /\ ~crashed /\ phase \in {"running", "over"}
  <2> DEFINE n == Len(todo)
  <2>1. n \in Nat /\ n > 0 /\ n <= turns + 1 /\ f = todo[1] /\ f \in Frames /\ DOMAIN todo = 1 .. n
    BY <1>1, <1>3, TailIs DEF TurnsLeft
  <2>5. /\ todo[1] = IF 1 = n THEN Frame("state", turns) ELSE Frame("turn", turns - n + 1)
        /\ n # 1 => todo[2] = IF 2 = n THEN Frame("state", turns) ELSE Frame("turn", turns - n + 2)
    <3>1. \A i \in DOMAIN todo :
            todo[i] = IF i = n THEN Frame("state", turns) ELSE Frame("turn", turns - n + i)
      BY <1>3 DEF TurnsLeft
    <3>2. 1 \in DOMAIN todo /\ (n # 1 => 2 \in DOMAIN todo)
      BY <2>1
    <3> HIDE DEF n
    <3> QED BY <3>1, <3>2
  <2>2. phase' = phase /\ ~Closing'
    BY <1>2, <1>3 DEF Closing
  <2>3. CASE Len(todo) = 1
    <3>1. f.kind = "state" /\ f.n = turns /\ todo' = <<>>
      BY <1>1, <2>1, <2>3, <2>5, TailIs DEF Frame
    <3> QED BY <1>1, <1>2, <1>3, <2>1, <2>2, <3>1 DEF Turning, Reached
  <2>4. CASE Len(todo) # 1
    <3>1. f.kind = "turn" /\ f.n = turns - n + 1 /\ f.n \in Nat /\ f.n < turns
      <4>1. f = Frame("turn", turns - n + 1)
        BY <2>1, <2>4, <2>5
      <4> HIDE DEF n
      <4> QED BY <1>1, <2>1, <2>4, <4>1 DEF Frame
    <3>2. todo' # <<>> /\ Head(todo') = todo[2]
      BY <1>1, <2>1, <2>4, TailIs
    <3>3. CASE Len(todo) = 2
      <4>1. todo[2].kind = "state" /\ f.n + 1 = turns
        BY <1>1, <2>1, <2>4, <2>5, <3>1, <3>3 DEF Frame
      <4>2. ~Turning' /\ Reached' = turns
        BY <3>2, <4>1 DEF Turning, Reached
      <4> QED BY <1>1, <1>2, <1>3, <2>1, <2>2, <3>1, <4>1, <4>2 DEF Turning, Reached
    <3>4. CASE Len(todo) # 2
      <4>1. todo[2].kind = "turn" /\ todo[2].n = f.n + 1
        <5>1. todo[2] = Frame("turn", turns - n + 2)
          BY <2>4, <2>5, <3>4
        <5> HIDE DEF n
        <5> QED BY <1>1, <2>1, <3>1, <5>1 DEF Frame
      <4>2. Turning' /\ Reached' = f.n + 1
        BY <3>2, <4>1 DEF Turning, Reached
      <4> QED BY <1>1, <1>2, <1>3, <2>1, <2>2, <3>1, <4>1, <4>2 DEF Turning, Reached
    <3> QED BY <3>3, <3>4
  <2> QED BY <2>3, <2>4
<1>4. CASE EndLeft /\ phase = "telling"
  <2>1. PICK s, e : s = Frame("state", turns) /\ e = Frame("end", turns)
    OBVIOUS
  <2>2. /\ s \in Frames /\ s.kind = "state" /\ s.n = turns
        /\ e \in Frames /\ e.kind = "end" /\ e.n = turns
    BY <1>1, <2>1, FrameIs
  <2>3. CASE todo = <<e>>
    <3>1. f = e /\ todo' = <<>>
      BY <2>3
    <3>2. Closing' /\ phase' # "idle"
      BY <1>4, <3>1 DEF Closing
    <3> QED BY <1>1, <1>2, <2>2, <3>1, <3>2 DEF Turning, Reached
  <2>4. CASE todo = <<s, e>>
    <3>1. f = s /\ todo' = <<e>> /\ Head(todo') = e /\ todo' # <<>>
      BY <2>4
    <3>2. phase' = phase /\ ~Closing'
      BY <1>4, <3>1 DEF Closing
    <3> QED BY <1>1, <1>2, <2>2, <3>1, <3>2 DEF Turning, Reached
  <2> QED BY <1>4, <2>1, <2>3, <2>4 DEF EndLeft
<1> QED BY <1>2, <1>3, <1>4 DEF DriverInv

\* A connection that the broadcast does not reach.
LEMMA FedAside ==
  ASSUME DriverInv, Feeds, NEW c, NEW r, Sane(c, r), r.role # "live" \/ r.writer = "done"
  PROVE  Sane(c, r)'
<1>1. PICK f : f = Head(todo)
  OBVIOUS
<1>2. /\ ~Closing /\ phase # "idle" /\ phase' # "idle" /\ Reached <= Reached'
      /\ Reached \in Nat /\ Reached' \in Nat
  BY <1>1, Due DEF DriverInv
<1>3. turns \in Nat /\ turns' = turns /\ crashed' = crashed
      /\ faults \in Nat /\ faults' \in Nat /\ faults <= faults'
  BY DEF DriverInv, Feeds
<1>4. r.role # "parked"
  BY <1>2 DEF Sane, Placed
<1>5. r.role = "live" => r.mark <= Reached'
  BY <1>2 DEF Sane, Placed, ConnRecord
<1>6. ~(c \in SeatConns /\ r.role \in {"live", "stopping"} /\ r.sock = "open")
  BY <1>2 DEF Sane, Placed
<1> QED BY <1>2, <1>3, <1>4, <1>5, <1>6, Onward

\* A connection with room is queued the frame.
LEMMA FedAppended ==
  ASSUME DriverInv, Feeds, NEW c, NEW r, Sane(c, r), NEW f, f = Head(todo), NEW R \in ConnRecord,
         r.role = "live", r.writer # "done", Len(r.queue) < OutboxMax,
         Pend(R) = Append(Pend(r), f), R.hand = r.hand, R.writer = r.writer, R.role = r.role,
         R.sock = r.sock, R.slow = r.slow, R.closing = r.closing, R.gap = r.gap,
         R.mark = r.mark, R.stop = r.stop, R.seen = r.seen, R.ended = r.ended
  PROVE  Sane(c, R)'
<1>1. /\ f \in Frames /\ f.kind \in {"turn", "state", "end"} /\ ~Closing
      /\ phase # "idle" /\ phase' # "idle" /\ Reached \in Nat /\ Reached <= turns
      /\ Closing' <=> f.kind = "end"
      /\ f.kind = "turn" =>
           f.n < turns /\ f.n = Reached /\ Reached' = f.n + 1 /\ ~crashed
      /\ f.kind # "turn" => f.n = turns /\ ~Turning /\ ~Turning' /\ Reached = turns /\ Reached' = turns
      /\ Turning' => f.kind = "turn"
  BY Due
<1>2. turns' = turns /\ crashed' = crashed /\ turns \in Nat
  BY DEF DriverInv, Feeds
<1>3. OutboxMax \in Nat /\ r \in ConnRecord /\ Len(r.queue) \in Nat
  BY Constants DEF Sane, ConnRecord
<1>4. r.writer = "on"
  <2>1. r.writer # "off"
    BY DEF Sane, Placed
  <2>2. r.writer \in {"off", "on", "done"}
    BY <1>3 DEF ConnRecord
  <2> QED BY <2>1, <2>2
<1>5. f.kind = "turn" /\ r.sock = "open" => ~r.gap
  <2>1. f.kind = "turn" => Turning
    BY DEF Turning, Feeds
  <2> QED BY <1>3, <1>4, <2>1 DEF Sane, Streams
<1>6. ~crashed /\ ~r.gap => At(r.seen, Pend(r), Len(Pend(r))) = Reached
  BY <1>4 DEF Sane, Streams
<1>7. ~HasEnd(r) /\ r.ended = 0 /\ \A i \in DOMAIN Pend(r) : Pend(r)[i].kind # "end"
  BY <1>1 DEF Sane, Streams, HasEnd
<1>8. \A i \in DOMAIN Pend(r) : Continues(r, i) /\ Pend(r)[i].kind # "stop"
  BY DEF Sane, Streams, Continues
<1>9. /\ \A i \in DOMAIN Pend(R) : Continues(R, i)
      /\ Pend(R) # <<>> /\ (Pend(r) # <<>> => Pend(R)[1] = Pend(r)[1])
      /\ \A i \in DOMAIN Pend(R) :
           Pend(R)[i] = f \/ (i \in DOMAIN Pend(r) /\ Pend(R)[i] = Pend(r)[i])
      /\ At(R.seen, Pend(R), Len(Pend(R))) =
           IF Carries(f) THEN Gives(f) ELSE At(r.seen, Pend(r), Len(Pend(r)))
      /\ HasEnd(r) \/ f.kind = "end" => HasEnd(R)
  <2>1. Pend(r) \in Seq(Frames)
    BY <1>3, PendIs DEF ConnRecord
  <2>2. f.kind = "turn" =>
          f.n < turns /\ (r.sock = "open" => f.n = At(r.seen, Pend(r), Len(Pend(r))))
    BY <1>1, <1>5, <1>6
  <2>3. f.kind \in {"state", "note"} /\ ~crashed /\ ~r.gap =>
          f.n = At(r.seen, Pend(r), Len(Pend(r)))
    BY <1>1, <1>6
  <2>4. f.kind = "end" => f.n = turns /\ r.ended = 0
    BY <1>1, <1>7
  <2>5. f \in Frames /\ f.kind # "welcome" /\ (f.kind = "stop" => R.role = "stopping")
    BY <1>1
  <2>6. (R.sock = "open" => r.sock = "open") /\ (~R.gap => ~r.gap)
    OBVIOUS
  <2>7. HasEnd(r) => f.kind \in {"stop", "error"}
    BY <1>7
  <2>8. Pend(R) = Append(Pend(r), f) /\ R.seen = r.seen /\ R.ended = r.ended
    OBVIOUS
  <2> QED BY ONLY <1>8, <2>1, <2>2, <2>3, <2>4, <2>5, <2>6, <2>7, <2>8, Behind
<1>10. Placed(c, R)'
  <2>1. R.mark <= Reached'
    BY <1>1, <1>3 DEF Sane, Placed, ConnRecord
  <2> QED BY <1>1, <1>4, <2>1 DEF Sane, Placed
<1>11. Streams(c, R)'
  <2>1. \A i \in DOMAIN Pend(R) : Continues(R, i)'
    BY <1>2, <1>9 DEF Continues
  <2>2. ~Closing' => R.ended = 0 /\ \A i \in DOMAIN Pend(R) : Pend(R)[i].kind # "end"
    BY <1>1, <1>7, <1>9
  <2>3. R.seen = -1 => Pend(R)[1].kind = "welcome"
    BY <1>4, <1>9 DEF Sane, Streams
  <2>4. ~crashed /\ ~R.gap => At(R.seen, Pend(R), Len(Pend(R))) = Reached'
    BY <1>1, <1>6, <1>9 DEF Carries, Gives
  <2>5. ~(Turning' /\ R.gap /\ R.sock = "open")
    BY <1>1, <1>5
  <2> QED BY <1>2, <1>7, <1>9, <2>1, <2>2, <2>3, <2>4, <2>5 DEF Streams
<1>12. Told(c, R)'
  <2>1. r.stop = "no"
    BY DEF Sane, Placed
  <2> QED BY <1>1, <1>9, <2>1 DEF Told
<1>13. \A i \in DOMAIN Pend(R) : Pend(R)[i].kind # "none"
  BY <1>1, <1>9 DEF Sane
<1> QED BY <1>10, <1>11, <1>12, <1>13 DEF Sane

\* A seat whose outbox is full loses the frame, and is to be closed.
LEMMA FedFull ==
  ASSUME DriverInv, Feeds, NEW c \in SeatConns, NEW r, Sane(c, r), NEW f, f = Head(todo),
         r.role = "live", r.writer # "done", Full(r), NEW R, R = Queued(c, r, f)
  PROVE  Sane(c, R)'
<1>1. r \in ConnRecord /\ f \in Frames
  BY Due DEF Sane
<1>2. /\ ~Closing /\ phase # "idle" /\ phase' # "idle" /\ Reached <= Reached'
      /\ Reached \in Nat /\ Reached' \in Nat
  BY Due DEF DriverInv
<1>3. turns \in Nat /\ turns' = turns /\ crashed' = crashed
      /\ faults \in Nat /\ faults' \in Nat /\ faults <= faults'
  BY DEF DriverInv, Feeds
<1>4. /\ R \in ConnRecord /\ R.writer = r.writer /\ R.hand = r.hand
      /\ R.role = r.role /\ R.sock = r.sock /\ R.mark = r.mark /\ R.stop = r.stop
      /\ R.seen = r.seen /\ R.ended = r.ended /\ R.slow /\ R.gap /\ R.queue = r.queue
  BY <1>1, DroppedIs
<1>5. Pend(R) = Pend(r)
  BY ONLY <1>4 DEF Pend
<1>6. Len(R.queue) >= OutboxMax
  BY <1>1, <1>4, Constants DEF ConnRecord, Full
<1>7. Placed(c, R)
  <2>1. R.closing \/ (r.slow /\ (r.closing => R.closing))
    BY <1>1, DroppedSeatIs
  <2> QED BY <1>4, <2>1 DEF Sane, Placed
<1>8. Told(c, R)
  BY <1>4 DEF Told
<1>9. R.hand.kind \notin {"stop", "close"}
  BY <1>4 DEF Sane
<1>10. Sane(c, R)
  BY <1>4, <1>5, <1>6, <1>7, <1>8, <1>9, SameStream
<1>11. R.mark <= Reached'
  BY <1>1, <1>2, <1>4 DEF Sane, Placed, ConnRecord
<1> QED BY <1>2, <1>3, <1>4, <1>6, <1>10, <1>11, Onward

\* A spectator that is too slow is dropped with what it was to be sent.
LEMMA ShedIs ==
  ASSUME DriverInv, Feeds, NEW c, c \notin SeatConns, NEW r, Sane(c, r), r.role = "live",
         NEW S \in ConnRecord, S.slow, S.sock = r.sock, S.stop = r.stop, S.seen = r.seen,
         S.ended = r.ended, NEW R, R = Shed(S)
  PROVE  Sane(c, R)'
<1>1. PICK f : f = Head(todo)
  OBVIOUS
<1>2. phase # "idle" /\ phase' # "idle" /\ ~Closing
  BY <1>1, Due
<1>3. turns \in Nat /\ turns' = turns /\ crashed' = crashed
      /\ faults \in Nat /\ faults' \in Nat /\ faults <= faults'
  BY DEF DriverInv, Feeds
<1>4. PICK W : W = WriterEnds(S)
  OBVIOUS
<1>5. /\ W \in ConnRecord /\ W.writer = "done" /\ W.hand = NoFrame /\ W.queue = <<>>
      /\ W.sock = r.sock /\ W.slow = S.slow /\ W.stop = r.stop /\ W.seen = r.seen
      /\ W.ended = r.ended
  BY <1>4, WriterEndsIs
<1>6. R = [W EXCEPT !.role = "gone", !.closing = TRUE]
  BY <1>4 DEF Shed
<1>7. /\ R \in ConnRecord /\ R.writer = "done" /\ R.hand = NoFrame /\ R.queue = <<>>
      /\ R.sock = r.sock /\ R.slow = S.slow /\ R.stop = r.stop /\ R.seen = r.seen
      /\ R.ended = r.ended /\ R.role = "gone"
  BY ONLY <1>5, <1>6 DEF ConnRecord
<1>8. Placed(c, R)
  BY <1>7 DEF Sane, Placed
<1>9. Told(c, R)
  BY DEF Told
<1>10. Sane(c, R)
  BY <1>7, <1>8, <1>9, Emptied
<1> QED BY <1>2, <1>3, <1>7, <1>10, Onward

\* A spectator that was queued a turn skips it from now on.
LEMMA MarkedIs ==
  ASSUME NEW c, NEW r, Sane(c, r)', NEW m \in Nat, m <= Reached', r.role \notin {"absent", "new"},
         NEW R, R = [r EXCEPT !.mark = m]
  PROVE  Sane(c, R)'
<1>1. r \in ConnRecord
  BY DEF Sane
<1>2. /\ R \in ConnRecord /\ R.writer = r.writer /\ R.hand = r.hand /\ R.queue = r.queue
      /\ R.role = r.role /\ R.sock = r.sock /\ R.slow = r.slow /\ R.closing = r.closing
      /\ R.gap = r.gap /\ R.mark = m /\ R.stop = r.stop /\ R.seen = r.seen
      /\ R.ended = r.ended
  BY <1>1 DEF ConnRecord
<1>3. Pend(R) = Pend(r)
  BY ONLY <1>2 DEF Pend
<1>4. Placed(c, R)'
  BY <1>2 DEF Sane, Placed
<1>5. Told(c, R)'
  BY <1>2, <1>3 DEF Sane, Told, HasEnd
<1>6. \A i \in DOMAIN Pend(R) : Continues(R, i)'
  BY <1>2, <1>3 DEF Sane, Streams, Continues
<1>7. Streams(c, R)'
  BY <1>2, <1>3, <1>6 DEF Sane, Streams
<1> QED BY <1>2, <1>3, <1>4, <1>5, <1>7 DEF Sane

\* A connection after the driver has queued the next frame of a broadcast.
LEMMA FedIs ==
  ASSUME DriverInv, Feeds, NEW c \in Conns, NEW r, Sane(c, r), NEW f, f = Head(todo),
         NEW public \in BOOLEAN, NEW R, R = Fed(c, r, f, public)
  PROVE  Sane(c, R)'
<1>1. r \in ConnRecord
  BY DEF Sane
<1>2. f \in Frames
  BY Due
<1>3. CASE r.role # "live"
  <2>1. R = r
    BY <1>3 DEF Fed
  <2> QED BY <1>3, <2>1, FedAside
<1>4. PICK W : W = Queued(c, r, f)
  OBVIOUS
<1>5. r.writer = "done" => W = r
  BY ONLY <1>4 DEF Queued
<1>6. ASSUME r.writer # "done", Len(r.queue) < OutboxMax
      PROVE  /\ W \in ConnRecord /\ W.writer = r.writer /\ W.hand = r.hand
             /\ W.role = r.role /\ W.sock = r.sock /\ W.mark = r.mark /\ W.stop = r.stop
             /\ W.seen = r.seen /\ W.ended = r.ended
             /\ W.slow = r.slow /\ W.closing = r.closing /\ W.gap = r.gap
  BY ONLY <1>1, <1>2, <1>4, <1>6, QueuedIs
<1>7. ASSUME r.writer # "done", Full(r)
      PROVE  /\ W \in ConnRecord /\ W.writer = r.writer /\ W.hand = r.hand
             /\ W.role = r.role /\ W.sock = r.sock /\ W.mark = r.mark /\ W.stop = r.stop
             /\ W.seen = r.seen /\ W.ended = r.ended /\ W.slow /\ W.gap
             /\ W.queue = r.queue
  BY ONLY <1>1, <1>2, <1>4, <1>7, DroppedIs
<1>8. /\ W \in ConnRecord /\ W.writer = r.writer /\ W.hand = r.hand
      /\ W.role = r.role /\ W.sock = r.sock /\ W.mark = r.mark /\ W.stop = r.stop
      /\ W.seen = r.seen /\ W.ended = r.ended
  BY <1>1, <1>5, <1>6, <1>7 DEF Full
<1>9. ASSUME r.role = "live", c \in SeatConns \/ ~W.slow PROVE Sane(c, W)'
  <2>1. CASE r.writer = "done"
    <3>1. W = r
      BY <1>5, <2>1
    <3> QED BY <2>1, <3>1, FedAside
  <2>2. CASE r.writer # "done" /\ Len(r.queue) < OutboxMax
    <3>1. Pend(W) = Append(Pend(r), f)
      BY ONLY <1>1, <1>2, <1>4, <2>2, QueuedLast
    <3> QED BY <1>6, <1>9, <2>2, <3>1, FedAppended
  <2>3. CASE r.writer # "done" /\ Full(r)
    <3>1. c \in SeatConns
      BY <1>9, <1>7, <2>3
    <3>2. r.role = "live"
      BY <1>9
    <3> QED BY <1>4, <2>3, <3>1, <3>2, FedFull
  <2> QED BY <2>1, <2>2, <2>3 DEF Full
<1>10. CASE r.role = "live" /\ c \in SeatConns
  <2>1. R = W
    BY <1>4, <1>10 DEF Fed
  <2> QED BY <1>9, <1>10, <2>1
<1>11. CASE r.role = "live" /\ c \notin SeatConns /\ ~public
  <2>1. PICK S : S = [r EXCEPT !.slow = TRUE]
    OBVIOUS
  <2>2. R = Shed(S)
    BY <1>11, <2>1 DEF Fed, FeedSpectator
  <2>3. /\ S \in ConnRecord /\ S.slow /\ S.sock = r.sock /\ S.stop = r.stop
        /\ S.seen = r.seen /\ S.ended = r.ended
    BY ONLY <1>1, <2>1 DEF ConnRecord
  <2> QED BY <1>11, <2>2, <2>3, ShedIs
<1>12. CASE r.role = "live" /\ c \notin SeatConns /\ public /\ f.kind # "turn"
  <2>1. R = Shed(W)
    BY <1>4, <1>12 DEF Fed, FeedSpectator
  <2>2. CASE W.slow
    BY <1>8, <1>12, <2>1, <2>2, ShedIs
  <2>3. CASE ~W.slow
    <3>1. R = W
      BY <2>1, <2>3 DEF Shed
    <3> QED BY <1>9, <1>12, <2>3, <3>1
  <2> QED BY <2>2, <2>3
<1>13. CASE r.role = "live" /\ c \notin SeatConns /\ public /\ f.kind = "turn"
  <2>1. f.n \in Nat /\ f.n = Reached /\ Reached' = f.n + 1
    BY <1>2, <1>13, Due, NoFrameIs
  <2>2. ~(f.n < r.mark)
    BY <1>1, <1>13, <2>1 DEF Sane, Placed, ConnRecord
  <2>3. PICK m \in Nat : m = f.n + 1
    BY <2>1
  <2>4. PICK S : S = [W EXCEPT !.mark = m]
    OBVIOUS
  <2>5. R = Shed(S)
    BY <1>4, <1>13, <2>2, <2>3, <2>4 DEF Fed, FeedSpectator
  <2>6. /\ S \in ConnRecord /\ S.slow = W.slow /\ S.sock = W.sock /\ S.stop = W.stop
        /\ S.seen = W.seen /\ S.ended = W.ended
    BY ONLY <1>8, <2>4 DEF ConnRecord
  <2>7. CASE W.slow
    BY <1>8, <1>13, <2>5, <2>6, <2>7, ShedIs
  <2>8. CASE ~W.slow
    <3>1. R = S
      BY <2>5, <2>6, <2>8 DEF Shed
    <3>2. Sane(c, W)'
      BY <1>9, <1>13, <2>8
    <3>3. m <= Reached' /\ W.role \notin {"absent", "new"}
      BY <1>8, <1>13, <2>1, <2>3
    <3> QED BY <2>4, <3>1, <3>2, <3>3, MarkedIs
  <2> QED BY <2>7, <2>8
<1> QED BY <1>3, <1>10, <1>11, <1>12, <1>13


----------------------------------------------------------------------------
(* Steps of one connection *)

\* The driver's part stays when nothing it speaks of changes.
LEMMA DriverKept ==
  ASSUME DriverInv,
         UNCHANGED <<lifecycle, turns, phase, todo, owed, crashed, faults, cur, cache>>
  PROVE  DriverInv'
BY DEF DriverInv, TurnsLeft, EndLeft, Closing, Over

\* Nothing of the driver's that connections depend on changes either.
LEMMA RestsKept ==
  ASSUME UNCHANGED <<turns, phase, todo, crashed, faults>>
  PROVE  Rests
BY DEF Rests, Closing

\* A step that changes one connection, to one as it should be.
LEMMA OneConn ==
  ASSUME IInv, DriverInv', Rests, NEW c \in Conns, NEW R, Sane(c, R),
         net' = [net EXCEPT ![c] = R]
  PROVE  IInv'
<1>1. ASSUME NEW d \in Conns PROVE Sane(d, net[d])'
  <2>1. PICK r : r = net'[d]
    OBVIOUS
  <2>2. r = IF d = c THEN R ELSE net[d]
    BY <2>1 DEF IInv
  <2>3. Sane(d, r)
    BY <2>2 DEF IInv
  <2>4. Sane(d, r)'
    BY <2>3, DriverRests DEF IInv
  <2> QED BY <2>1, <2>4
<1>2. net' \in [Conns -> ConnRecord]
  BY DEF IInv, Sane
<1> QED BY <1>1, <1>2 DEF IInv

\* A step that changes no connection.
LEMMA NoConn ==
  ASSUME IInv, DriverInv', Rests, net' = net
  PROVE  IInv'
<1>1. ASSUME NEW d \in Conns PROVE Sane(d, net[d])'
  <2>1. PICK r : r = net[d]
    OBVIOUS
  <2>2. Sane(d, r)
    BY <2>1 DEF IInv
  <2>3. Sane(d, r)'
    BY <2>2, DriverRests DEF IInv
  <2> QED BY <2>1, <2>3
<1> QED BY <1>1 DEF IInv

\* The writer's and the socket's steps keep every connection as it should be.
LEMMA ConnStep ==
  ASSUME IInv, NEW c \in Conns,
         Take(c) \/ Sent(c) \/ SendFails(c) \/ CloseSlow(c) \/ Drop(c)
  PROVE  IInv'
<1>1. UNCHANGED <<lifecycle, turns, phase, todo, owed, crashed, faults, cur, cache>> /\ todo = <<>>
  BY DEF Take, Sent, SendFails, CloseSlow, Drop, driver, Quiet
<1>2. DriverInv' /\ Rests
  BY <1>1, DriverKept, RestsKept DEF IInv
<1>3. PICK r : r = net[c]
  OBVIOUS
<1>4. Sane(c, r) /\ r \in ConnRecord
  BY <1>3 DEF IInv, Sane
<1>5. CASE Take(c)
  <2>1. PICK R : R = LET f == Head(r.queue)
                         rest == [r EXCEPT !.queue = Tail(@)]
                     IN  CASE f.kind = "stop"  -> WriterEnds(rest)
                           [] f.kind = "close" -> Shut(WriterEnds(rest), "kicked")
                           [] OTHER            -> [rest EXCEPT !.hand = f]
    OBVIOUS
  <2>2. net' = [net EXCEPT ![c] = R]
    BY <1>3, <1>5, <2>1 DEF Take
  <2>3. r.writer = "on" /\ r.hand = NoFrame /\ r.queue # <<>>
    BY <1>3, <1>5 DEF Take
  <2>4. Sane(c, R)
    BY <1>1, <1>4, <2>1, <2>3, TakenIs
  <2> QED BY <1>2, <2>2, <2>4, OneConn
<1>6. CASE Sent(c)
  <2>1. PICK R : R = Delivered(r)
    OBVIOUS
  <2>2. r.hand # NoFrame
    BY <1>3, <1>6 DEF Sent
  <2>3. Sane(c, R) /\ R.role = r.role /\ R.writer = "on"
    BY <1>1, <1>4, <2>1, <2>2, SentIs
  <2>4. PICK backlog \in BOOLEAN :
          net' = [net EXCEPT ![c] = IF backlog THEN Overflowed(c, R) ELSE R]
    BY <1>3, <1>6, <2>1 DEF Sent, Delivered
  <2>5. CASE backlog
    <3>1. PICK S : S = Overflowed(c, R)
      OBVIOUS
    <3>2. Sane(c, S)
      BY <2>3, <3>1, SlowIs DEF Sane, Placed
    <3> QED BY <1>2, <2>4, <2>5, <3>1, <3>2, OneConn
  <2>6. CASE ~backlog
    BY <1>2, <2>3, <2>4, <2>6, OneConn
  <2> QED BY <2>5, <2>6
<1>7. CASE SendFails(c)
  <2>1. PICK R : R = WriterEnds(r)
    OBVIOUS
  <2>2. net' = [net EXCEPT ![c] = R] /\ r.hand # NoFrame /\ r.sock # "open"
    BY <1>3, <1>7, <2>1 DEF SendFails
  <2>3. Sane(c, R)
    BY <1>4, <2>1, <2>2, FailedIs
  <2> QED BY <1>2, <2>2, <2>3, OneConn
<1>8. CASE CloseSlow(c)
  <2>1. PICK R : R = [Shut(r, "kicked") EXCEPT !.closing = FALSE]
    OBVIOUS
  <2>2. net' = [net EXCEPT ![c] = R]
    BY <1>3, <1>8, <2>1 DEF CloseSlow
  <2>3. PICK sk : sk = IF r.sock = "open" THEN "kicked" ELSE r.sock
    OBVIOUS
  <2>4. sk \in {"none", "open", "lost", "kicked", "closed"}
    BY <1>4, <2>3 DEF ConnRecord
  <2>5. R = [r EXCEPT !.sock = sk, !.closing = FALSE]
    <3>1. Shut(r, "kicked") = [r EXCEPT !.sock = sk]
      BY <1>4, <2>3 DEF Shut, ConnRecord
    <3> QED BY <1>4, <2>1, <3>1 DEF ConnRecord
  <2>6. /\ R \in ConnRecord /\ R.role = r.role /\ R.writer = r.writer /\ R.hand = r.hand
        /\ R.queue = r.queue /\ R.slow = r.slow /\ R.gap = r.gap /\ R.mark = r.mark
        /\ R.stop = r.stop /\ R.seen = r.seen /\ R.ended = r.ended /\ ~R.closing
        /\ R.sock = sk
    BY ONLY <1>4, <2>4, <2>5 DEF ConnRecord
  <2>7. Sane(c, R)
    BY <1>4, <2>3, <2>6, ShutIs
  <2> QED BY <1>2, <2>2, <2>7, OneConn
<1>9. CASE Drop(c)
  <2>1. PICK R : R = Shut(r, "lost")
    OBVIOUS
  <2>2. net' = [net EXCEPT ![c] = R] /\ r.sock = "open"
    BY <1>3, <1>9, <2>1 DEF Drop
  <2>3. R = [r EXCEPT !.sock = "lost"]
    BY <2>1, <2>2 DEF Shut
  <2>4. /\ R \in ConnRecord /\ R.role = r.role /\ R.writer = r.writer /\ R.hand = r.hand
        /\ R.queue = r.queue /\ R.slow = r.slow /\ R.gap = r.gap /\ R.mark = r.mark
        /\ R.stop = r.stop /\ R.seen = r.seen /\ R.ended = r.ended /\ R.closing = r.closing
        /\ R.sock = "lost"
    BY ONLY <1>4, <2>3 DEF ConnRecord
  <2>5. Sane(c, R)
    BY <1>4, <2>2, <2>4, ShutIs
  <2> QED BY <1>2, <2>2, <2>5, OneConn
<1> QED BY <1>5, <1>6, <1>7, <1>8, <1>9

\* A stopped connection is closed: a seat's has been sent its terminal frame.
LEMMA StopReturnsStep ==
  ASSUME IInv, NEW c \in Conns, StopReturns(c)
  PROVE  IInv'
<1>1. PICK r : r = net[c]
  OBVIOUS
<1>2. Sane(c, r) /\ r \in ConnRecord /\ r.role = "stopping" /\ todo = <<>>
  BY <1>1 DEF IInv, Sane, StopReturns, Quiet
<1>3. PICK how : how = IF r.stop # "draining" THEN r.stop
                       ELSE IF r.writer = "done" THEN "drained" ELSE "expired"
  OBVIOUS
<1>4. PICK R : R = [Shut(WriterEnds(r), "closed") EXCEPT !.role = "gone", !.stop = how]
  OBVIOUS
<1>5. net' = [net EXCEPT ![c] = R]
  BY <1>1, <1>3, <1>4 DEF StopReturns
<1>6. /\ UNCHANGED <<lifecycle, turns, todo, owed, crashed, faults, cur, cache>>
      /\ phase' = IF c \in SeatConns THEN "closing" ELSE phase
  BY DEF StopReturns
<1>7. r.stop \in {"draining", "cut"} /\ (c \in SeatConns => Closing)
  BY <1>2 DEF Sane, Placed
<1>8. how \in {"no", "cut", "drained", "expired"}
  BY <1>3, <1>7
<1>9. c \in SeatConns /\ ~r.slow /\ how = "drained" /\ (r.sock = "open" \/ r.sock = "closed") =>
        r.ended = 1 \/ (crashed /\ faults > 1)
  <2> SUFFICES ASSUME c \in SeatConns, ~r.slow, how = "drained", r.sock = "open" \/ r.sock = "closed"
               PROVE  r.ended = 1 \/ (crashed /\ faults > 1)
    OBVIOUS
  <2>1. r.stop = "draining" /\ r.writer = "done"
    BY <1>3, <1>7
  <2>2. r.hand = NoFrame /\ r.queue = <<>> /\ r.sock = "open"
    BY <1>2, <2>1 DEF Sane, Placed
  <2>3. Pend(r) = <<>>
    BY <1>2, <2>2, PendIs DEF ConnRecord
  <2>4. HasEnd(r) \/ (crashed /\ faults > 1)
    BY <1>2, <1>7, <2>1, <2>2 DEF Sane, Told
  <2> QED BY <2>3, <2>4 DEF HasEnd
<1>10. Sane(c, R)
  BY <1>2, <1>4, <1>7, <1>8, <1>9, GoneIs
<1>11. Closing' = Closing /\ ((phase' = "idle") <=> (phase = "idle"))
  BY <1>6, <1>7 DEF Closing
<1>12. Rests
  BY <1>6, <1>11 DEF Rests
<1>13. DriverInv'
  <2>1. CASE c \in SeatConns
    BY <1>2, <1>6, <1>7, <2>1 DEF IInv, DriverInv, Closing, Over, TurnsLeft, EndLeft
  <2>2. CASE c \notin SeatConns
    BY <1>6, <2>2, DriverKept DEF IInv
  <2> QED BY <2>1, <2>2
<1> QED BY <1>5, <1>10, <1>12, <1>13, OneConn

\* The driver sends to, and closes, the current connection of a seat.
LEMMA SeatConnIs ==
  ASSUME DriverInv, NEW s \in Seats
  PROVE  SeatConn(s) \in SeatConns /\ SeatConn(s) \in Conns
BY DEF DriverInv, SeatConn, SeatConns, Conns

\* What the driver does with one seat.
LEMMA SeatStep ==
  ASSUME IInv, NEW s \in Seats, Note(s) \/ QueueClose(s) \/ StopSeat(s)
  PROVE  IInv'
<1>1. PICK c : c = SeatConn(s)
  OBVIOUS
<1>2. c \in SeatConns /\ c \in Conns
  BY <1>1, SeatConnIs DEF IInv
<1>3. PICK r : r = net[c]
  OBVIOUS
<1>4. Sane(c, r) /\ todo = <<>> /\ turns \in Nat
  BY <1>2, <1>3 DEF IInv, DriverInv, Note, QueueClose, StopSeat, Quiet
<1>5. CASE Note(s)
  <2>1. PICK R : R = Queued(c, r, Frame("note", turns))
    OBVIOUS
  <2>2. net' = [net EXCEPT ![c] = R] /\ r.role = "live" /\ ~Closing
    BY <1>1, <1>3, <1>5, <2>1 DEF Note, Closing
  <2>3. Sane(c, R)
    BY <1>2, <1>4, <2>1, <2>2, NotedIs
  <2>4. UNCHANGED <<lifecycle, turns, phase, todo, owed, crashed, faults, cur, cache>>
    BY <1>5 DEF Note
  <2>5. DriverInv' /\ Rests
    BY <2>4, DriverKept, RestsKept DEF IInv
  <2> QED BY <1>2, <2>2, <2>3, <2>5, OneConn
<1>6. CASE QueueClose(s)
  <2>1. PICK R : R = CloseQueued(r)
    OBVIOUS
  <2>2. r.role = "live" /\ ~Closing
    BY <1>1, <1>3, <1>6 DEF QueueClose, Closing
  <2>6. net' = [net EXCEPT ![c] = CloseQueued(net[c])]
    BY <1>1, <1>6 DEF QueueClose
  <2>3. Sane(c, R)
    BY <1>2, <1>4, <2>1, <2>2, CloseQueuedIs
  <2>4. UNCHANGED <<lifecycle, turns, phase, todo, owed, crashed, faults, cur, cache>>
    BY <1>6 DEF QueueClose, driver
  <2>5. DriverInv' /\ Rests
    BY <2>4, DriverKept, RestsKept DEF IInv
  <2> QED BY <1>2, <1>3, <2>1, <2>3, <2>5, <2>6, OneConn
<1>7. CASE StopSeat(s)
  <2>1. PICK R : R = Stopping(r)
    OBVIOUS
  <2>2. /\ net' = [net EXCEPT ![c] = R] /\ r.role = "live"
        /\ phase = "closing" /\ phase' = "draining"
        /\ UNCHANGED <<lifecycle, turns, todo, owed, crashed, faults, cur, cache>>
    BY <1>1, <1>3, <1>7, <2>1 DEF StopSeat
  <2>3. Closing /\ Closing' /\ Closing' = Closing
    BY <2>2 DEF Closing
  <2>4. Sane(c, R)
    BY <1>4, <2>1, <2>2, <2>3, StoppingIs
  <2>5. Rests
    BY <2>2, <2>3 DEF Rests
  <2>6. DriverInv'
    BY <1>4, <2>2 DEF IInv, DriverInv, Closing, Over
  <2> QED BY <1>2, <2>2, <2>4, <2>5, <2>6, OneConn
<1> QED BY <1>5, <1>6, <1>7

\* A handler's welcome: the turns so far, for the queue of a new connection.
LEMMA GreetedIs ==
  ASSUME NEW n \in Nat, NEW R, R = Greeted(n)
  PROVE  /\ R \in ConnRecord /\ R.role = "parked" /\ R.sock = "open" /\ R.writer = "on"
         /\ R.hand = NoFrame /\ R.queue = <<Frame("welcome", n)>> /\ ~R.slow /\ ~R.closing
         /\ ~R.gap /\ R.mark = 0 /\ R.stop = "no" /\ R.seen = -1 /\ R.ended = 0
<1>1. PICK f : f = Frame("welcome", n)
  OBVIOUS
<1>2. PICK q : q = <<f>>
  OBVIOUS
<1>3. q \in Seq(Frames)
  BY <1>1, <1>2, FrameIs
<1>4. R = [Unused EXCEPT !.role = "parked", !.sock = "open", !.writer = "on", !.queue = q]
  BY <1>1, <1>2 DEF Greeted, Accepted, Unused
<1>5. NoFrame \in Frames /\ <<>> \in Seq(Frames) /\ -1 \in Nat \cup {-1} /\ 0 \in Nat
  BY NoFrameIs
<1>6. Unused \in ConnRecord
  BY <1>5 DEF Unused, ConnRecord
<1>7. /\ R \in ConnRecord /\ R.role = "parked" /\ R.sock = "open" /\ R.writer = "on"
      /\ R.hand = Unused.hand /\ R.queue = q /\ R.slow = Unused.slow
      /\ R.closing = Unused.closing /\ R.gap = Unused.gap /\ R.mark = Unused.mark
      /\ R.stop = Unused.stop /\ R.seen = Unused.seen /\ R.ended = Unused.ended
  BY ONLY <1>3, <1>4, <1>6 DEF ConnRecord
<1> QED BY <1>1, <1>2, <1>7 DEF Unused

\* A spectator attaches: parked, live, or only to read its welcome.
LEMMA AttachStep ==
  ASSUME IInv, NEW p \in Spectators, Attach(p)
  PROVE  IInv'
<1>1. p \in Conns /\ p \notin SeatConns /\ todo = <<>> /\ turns \in Nat
  BY Constants DEF IInv, DriverInv, Attach, Quiet, Conns
<1>2. PICK carries \in {turns, cache.carries} :
        LET r == [Greeted(carries) EXCEPT !.mark = turns]
        IN  /\ Welcome(carries)
            /\ net' = [net EXCEPT ![p] =
                 IF Over THEN Stopping(r)
                 ELSE [r EXCEPT !.role = IF phase = "idle" THEN "parked" ELSE "live"]]
  BY DEF Attach
<1>3. carries = turns
  BY <1>2 DEF Welcome, IInv, DriverInv
<1>4. /\ UNCHANGED <<lifecycle, turns, phase, todo, owed, crashed, faults, cur>>
      /\ cache' = [at |-> <<turns, lifecycle>>, carries |-> turns]
  BY <1>2, <1>3 DEF Attach, Welcome, driver
<1>5. Rests
  BY <1>4, RestsKept
<1>6. DriverInv'
  BY <1>1, <1>4 DEF IInv, DriverInv, TurnsLeft, EndLeft, Closing, Over
<1>7. PICK g : g = Greeted(turns)
  OBVIOUS
<1>8. PICK w : w = Frame("welcome", turns)
  OBVIOUS
<1>9. w \in Frames /\ w.kind = "welcome" /\ w.n = turns
  BY <1>1, <1>8, FrameIs
<1>10. /\ g \in ConnRecord /\ g.role = "parked" /\ g.sock = "open" /\ g.writer = "on"
       /\ g.hand = NoFrame /\ g.queue = <<w>> /\ ~g.slow /\ ~g.closing
       /\ ~g.gap /\ g.mark = 0 /\ g.stop = "no" /\ g.seen = -1 /\ g.ended = 0
  BY <1>1, <1>7, <1>8, GreetedIs
<1>11. PICK r : r = [g EXCEPT !.mark = turns]
  OBVIOUS
<1>12. r \in ConnRecord /\ r.role = "parked"
  BY <1>1, <1>10, <1>11 DEF ConnRecord
<1>13. PICK role : role = IF phase = "idle" THEN "parked" ELSE "live"
  OBVIOUS
<1>14. PICK a : a = [r EXCEPT !.role = role]
  OBVIOUS
<1>15. /\ a \in ConnRecord /\ a.role = role /\ a.sock = "open" /\ a.writer = "on"
       /\ a.hand = NoFrame /\ a.queue = <<w>> /\ ~a.slow
       /\ ~a.gap /\ a.mark = turns /\ a.stop = "no" /\ a.seen = -1 /\ a.ended = 0
  <2>1. role \in {"absent", "new", "parked", "live", "stopping", "gone"}
    BY <1>13
  <2>2. /\ a \in ConnRecord /\ a.role = role /\ a.sock = g.sock /\ a.writer = g.writer
        /\ a.hand = g.hand /\ a.queue = g.queue /\ a.slow = g.slow
        /\ a.gap = g.gap /\ a.mark = turns /\ a.stop = g.stop /\ a.seen = g.seen
        /\ a.ended = g.ended
    BY ONLY <1>1, <1>10, <1>11, <1>14, <2>1 DEF ConnRecord
  <2> QED BY <1>10, <2>2
<1>16. Sane(p, a)
  <2>1. a.mark <= turns /\ a.role = IF phase = "idle" THEN "parked" ELSE "live"
    BY <1>1, <1>13, <1>15
  <2> QED BY <1>1, <1>9, <1>15, <2>1, WelcomedIs
<1>17. CASE ~Over
  <2>1. net' = [net EXCEPT ![p] = a]
    BY <1>2, <1>3, <1>7, <1>11, <1>13, <1>14, <1>17
  <2> QED BY <1>1, <1>5, <1>6, <1>16, <2>1, OneConn
<1>18. CASE Over
  <2>1. role = "live"
    BY <1>13, <1>18 DEF IInv, DriverInv, Over
  <2>2. PICK S : S = Stopping(a)
    OBVIOUS
  <2>3. S = Stopping(r)
    BY <1>12, <1>14, <2>2 DEF Stopping, WriterEnds, ConnRecord
  <2>4. Sane(p, S)
    BY <1>1, <1>15, <1>16, <2>1, <2>2, StoppingIs
  <2>5. net' = [net EXCEPT ![p] = S]
    BY <1>2, <1>3, <1>7, <1>11, <1>18, <2>3
  <2> QED BY <1>1, <1>5, <1>6, <2>4, <2>5, OneConn
<1> QED BY <1>17, <1>18

\* A spectator that is told of its mistake, and stopped.
LEMMA ErredIs ==
  ASSUME NEW c, c \notin SeatConns, NEW r, NEW S, Sane(c, r), todo = <<>>,
         r.role \in {"parked", "live"}, S = Stopping(Queued(c, r, Frame("error", 0)))
  PROVE  Sane(c, S)
<1>1. PICK f : f = Frame("error", 0)
  OBVIOUS
<1>2. f \in Frames /\ f.kind = "error"
  BY <1>1, FrameIs
<1>3. r \in ConnRecord
  BY DEF Sane
<1>4. PICK Q : Q = Queued(c, r, f)
  OBVIOUS
<1>5. S = Stopping(Q)
  BY <1>1, <1>4
<1>6. CASE r.writer = "done"
  <2>1. Q = r
    BY ONLY <1>4, <1>6 DEF Queued
  <2> QED BY <1>5, <2>1, StoppingIs
<1>7. CASE r.writer # "done" /\ Len(r.queue) < OutboxMax
  <2>1. /\ Q \in ConnRecord /\ Q.writer = r.writer /\ Q.hand = r.hand
        /\ Q.role = r.role /\ Q.sock = r.sock /\ Q.mark = r.mark /\ Q.stop = r.stop
        /\ Q.seen = r.seen /\ Q.ended = r.ended
        /\ Q.slow = r.slow /\ Q.closing = r.closing /\ Q.gap = r.gap
    BY ONLY <1>2, <1>3, <1>4, <1>7, QueuedIs
  <2>2. Pend(Q) = Append(Pend(r), f)
    BY ONLY <1>2, <1>3, <1>4, <1>7, QueuedLast
  <2>3. r.writer = "on"
    <3>1. r.writer # "off"
      BY DEF Sane, Placed
    <3>2. r.writer \in {"off", "on", "done"}
      BY <1>3 DEF ConnRecord
    <3> QED BY <1>7, <3>1, <3>2
  <2>4. Placed(c, Q)
    BY <2>1, <2>3 DEF Sane, Placed
  <2>5. Sane(c, Q)
    BY <1>2, <1>7, <2>1, <2>2, <2>4, Appended
  <2> QED BY <1>5, <2>1, <2>5, StoppingIs
<1>8. CASE r.writer # "done" /\ Full(r)
  <2>1. /\ Q \in ConnRecord /\ Q.writer = r.writer /\ Q.hand = r.hand
        /\ Q.role = r.role /\ Q.sock = r.sock /\ Q.mark = r.mark /\ Q.stop = r.stop
        /\ Q.seen = r.seen /\ Q.ended = r.ended /\ Q.slow /\ Q.gap
        /\ Q.queue = r.queue
    BY ONLY <1>2, <1>3, <1>4, <1>8, DroppedIs
  <2>2. PICK W : W = WriterEnds(Q)
    OBVIOUS
  <2>3. /\ W \in ConnRecord /\ W.writer = "done" /\ W.hand = NoFrame /\ W.queue = <<>>
        /\ W.sock = Q.sock /\ W.slow = Q.slow /\ W.gap = Q.gap
        /\ W.seen = Q.seen /\ W.ended = Q.ended
    BY <2>1, <2>2, WriterEndsIs
  <2>4. S = [W EXCEPT !.role = "stopping", !.stop = "cut"]
    BY <1>5, <1>8, <2>1, <2>2 DEF Stopping, Full
  <2>5. /\ S \in ConnRecord /\ S.writer = "done" /\ S.hand = NoFrame /\ S.queue = <<>>
        /\ S.sock = r.sock /\ S.seen = r.seen /\ S.ended = r.ended
        /\ S.role = "stopping" /\ S.stop = "cut"
    BY ONLY <2>1, <2>3, <2>4 DEF ConnRecord
  <2>6. S.slow
    BY ONLY <2>1, <2>3, <2>4 DEF ConnRecord
  <2>7. Placed(c, S)
    BY <2>5, <2>6 DEF Sane, Placed
  <2>8. Told(c, S)
    BY DEF Told
  <2> QED BY <2>5, <2>7, <2>8, Emptied
<1> QED BY <1>6, <1>7, <1>8 DEF Full

\* A spectator's handler returns, and stops its writer.
LEMMA LeaveStep ==
  ASSUME IInv, NEW p \in Spectators, SpectatorGone(p) \/ Misbehave(p) \/ SpectatorDone(p)
  PROVE  IInv'
<1>1. PICK r : r = net[p]
  OBVIOUS
<1>2. p \in Conns /\ p \notin SeatConns
  BY Constants DEF Conns
<1>3. /\ Sane(p, r) /\ r.role \in {"parked", "live"} /\ todo = <<>>
      /\ UNCHANGED <<lifecycle, turns, phase, todo, owed, crashed, faults, cur, cache>>
  BY <1>1, <1>2 DEF IInv, SpectatorGone, Misbehave, SpectatorDone, Leave, Quiet, driver
<1>4. DriverInv' /\ Rests
  BY <1>3, DriverKept, RestsKept DEF IInv
<1>5. CASE SpectatorGone(p) \/ SpectatorDone(p)
  <2>1. PICK S : S = Stopping(r)
    OBVIOUS
  <2>2. net' = [net EXCEPT ![p] = S]
    BY <1>1, <1>5, <2>1 DEF SpectatorGone, SpectatorDone, Leave
  <2>3. Sane(p, S)
    BY <1>2, <1>3, <2>1, StoppingIs
  <2> QED BY <1>2, <1>4, <2>2, <2>3, OneConn
<1>6. CASE Misbehave(p)
  <2>1. PICK S : S = Stopping(Queued(p, r, Frame("error", 0)))
    OBVIOUS
  <2>2. net' = [net EXCEPT ![p] = S]
    BY <1>1, <1>6, <2>1 DEF Misbehave, Leave
  <2>3. Sane(p, S)
    BY <1>2, <1>3, <2>1, ErredIs
  <2> QED BY <1>2, <1>4, <2>2, <2>3, OneConn
<1> QED BY <1>5, <1>6

\* A replaced connection is given up while the match runs.
LEMMA ReplacedIs ==
  ASSUME NEW c \in SeatConns, NEW r, NEW R, Sane(c, r), ~Closing,
         R = [Shut(WriterEnds(r), "closed") EXCEPT !.role = "gone"]
  PROVE  Sane(c, R)
<1>1. r \in ConnRecord /\ r.stop = "no"
  BY DEF Sane, Placed
<1>2. PICK W : W = WriterEnds(r)
  OBVIOUS
<1>3. W \in ConnRecord /\ W.stop = "no"
  BY <1>1, <1>2, WriterEndsIs
<1>4. PICK X : X = Shut(W, "closed")
  OBVIOUS
<1>5. X \in ConnRecord /\ X.stop = "no"
  BY <1>3, <1>4 DEF Shut, ConnRecord
<1>6. [X EXCEPT !.role = "gone"] = [X EXCEPT !.role = "gone", !.stop = "no"]
  BY <1>5 DEF ConnRecord
<1>7. R = [Shut(WriterEnds(r), "closed") EXCEPT !.role = "gone", !.stop = "no"]
  BY <1>2, <1>4, <1>6
<1> QED BY <1>7, GoneIs

\* The connection a seat resumed with: the welcome, then match_state.
LEMMA ResumedIs ==
  ASSUME NEW c \in SeatConns, NEW R, todo = <<>>, turns \in Nat, phase # "idle", ~Closing,
         R = [Greeted(turns) EXCEPT !.role = "live", !.queue = Append(@, Frame("state", turns))]
  PROVE  Sane(c, R)
<1>1. PICK w : w = Frame("welcome", turns)
  OBVIOUS
<1>2. PICK f : f = Frame("state", turns)
  OBVIOUS
<1>3. /\ w \in Frames /\ w.kind = "welcome" /\ w.n = turns
      /\ f \in Frames /\ f.kind = "state" /\ f.n = turns
  BY <1>1, <1>2, FrameIs
<1>4. PICK g : g = Greeted(turns)
  OBVIOUS
<1>5. /\ g \in ConnRecord /\ g.role = "parked" /\ g.sock = "open" /\ g.writer = "on"
      /\ g.hand = NoFrame /\ g.queue = <<w>> /\ ~g.slow /\ ~g.closing
      /\ ~g.gap /\ g.mark = 0 /\ g.stop = "no" /\ g.seen = -1 /\ g.ended = 0
  BY <1>1, <1>4, GreetedIs
<1>6. PICK a : a = [g EXCEPT !.role = "live"]
  OBVIOUS
<1>7. /\ a \in ConnRecord /\ a.role = "live" /\ a.sock = g.sock /\ a.writer = g.writer
      /\ a.hand = g.hand /\ a.queue = g.queue /\ a.slow = g.slow
      /\ a.gap = g.gap /\ a.mark = g.mark /\ a.stop = g.stop /\ a.seen = g.seen
      /\ a.ended = g.ended
  BY ONLY <1>5, <1>6 DEF ConnRecord
<1>8. Sane(c, a)
  <2>1. a.mark <= turns
    BY <1>5, <1>7
  <2> QED BY <1>3, <1>5, <1>7, <2>1, WelcomedIs
<1>9. a.writer # "done" /\ a.writer = "on" /\ Len(a.queue) < OutboxMax
  <2> DEFINE q == <<w>>
  <2>1. Len(q) = 1 /\ a.queue = q
    BY <1>5, <1>7
  <2> HIDE DEF q
  <2> QED BY <1>5, <1>7, <2>1, Constants
<1>10. R = Queued(c, a, f)
  <2>1. Queued(c, a, f) = [a EXCEPT !.queue = Append(@, f)]
    BY <1>9 DEF Queued
  <2>2. R = [g EXCEPT !.role = "live", !.queue = Append(@, f)]
    BY <1>2, <1>4
  <2> QED BY <1>5, <1>6, <2>1, <2>2 DEF ConnRecord
<1>11. /\ R \in ConnRecord /\ R.writer = a.writer /\ R.hand = a.hand
       /\ R.role = a.role /\ R.sock = a.sock /\ R.mark = a.mark /\ R.stop = a.stop
       /\ R.seen = a.seen /\ R.ended = a.ended
       /\ R.slow = a.slow /\ R.closing = a.closing /\ R.gap = a.gap
  BY ONLY <1>3, <1>7, <1>9, <1>10, QueuedIs
<1>12. Pend(R) = Append(Pend(a), f)
  BY ONLY <1>3, <1>7, <1>9, <1>10, QueuedLast
<1>13. Placed(c, R)
  BY <1>8, <1>9, <1>11 DEF Sane, Placed
<1> QED BY <1>3, <1>7, <1>8, <1>9, <1>11, <1>12, <1>13, Appended

\* A seat resumes: its old connection is given up, the new one is welcomed.
LEMMA ResumeStep ==
  ASSUME IInv, NEW s \in Seats, Resume(s)
  PROVE  IInv'
<1>1. PICK old : old = SeatConn(s)
  OBVIOUS
<1>2. PICK new : new = <<s, cur[s] + 1>>
  OBVIOUS
<1>3. /\ todo = <<>> /\ turns \in Nat /\ phase # "idle" /\ ~Closing
      /\ cur[s] \in 1 .. MaxConns /\ cur[s] < MaxConns
      /\ cur' = [cur EXCEPT ![s] = @ + 1]
      /\ UNCHANGED <<lifecycle, turns, phase, todo, owed, crashed, faults, cache>>
  BY DEF Resume, Quiet, Closing, IInv, DriverInv, driver
<1>4. MaxConns \in Nat
  BY BroadcastAssumption DEF BroadcastAssumption
<1>5. old \in SeatConns /\ old \in Conns
  BY <1>1, SeatConnIs DEF IInv
<1>6. new \in SeatConns /\ new \in Conns /\ new # old
  BY <1>1, <1>2, <1>3, <1>4 DEF SeatConn, SeatConns, Conns
<1>7. PICK O : O = [Shut(WriterEnds(net[old]), "closed") EXCEPT !.role = "gone"]
  OBVIOUS
<1>8. PICK N : N = [Greeted(turns) EXCEPT !.role = "live", !.queue = Append(@, Frame("state", turns))]
  OBVIOUS
<1>9. net' = [net EXCEPT ![old] = O, ![new] = N]
  BY <1>1, <1>2, <1>7, <1>8 DEF Resume
<1>10. Sane(old, O)
  BY <1>3, <1>5, <1>7, ReplacedIs DEF IInv
<1>11. Sane(new, N)
  BY <1>3, <1>6, <1>8, ResumedIs
<1>12. DriverInv'
  <2>1. cur' \in [Seats -> 1 .. MaxConns]
    BY <1>3, <1>4 DEF IInv, DriverInv
  <2> QED BY <1>3, <2>1 DEF IInv, DriverInv, TurnsLeft, EndLeft, Closing, Over
<1>13. Rests
  BY <1>3, RestsKept
<1>14. ASSUME NEW d \in Conns PROVE Sane(d, net[d])'
  <2>1. PICK r : r = net'[d]
    OBVIOUS
  <2>2. r = IF d = new THEN N ELSE IF d = old THEN O ELSE net[d]
    BY <1>5, <1>6, <1>9, <2>1 DEF IInv
  <2>3. Sane(d, r)
    BY <1>10, <1>11, <2>2 DEF IInv
  <2>4. Sane(d, r)'
    BY <1>13, <2>3, DriverRests DEF IInv
  <2> QED BY <2>1, <2>4
<1>15. net' \in [Conns -> ConnRecord]
  BY <1>9, <1>10, <1>11 DEF IInv, Sane
<1> QED BY <1>12, <1>14, <1>15 DEF IInv

----------------------------------------------------------------------------
(* Steps of the driver *)

\* The driver's part of the invariant, once the next frame is queued.
LEMMA FeedsOn ==
  ASSUME DriverInv, Feeds, UNCHANGED <<lifecycle, owed, cur, cache>>
  PROVE  DriverInv'
<1> USE DEF Feeds
<1>1. todo \in Seq(Frames) /\ turns \in Nat /\ turns' = turns
  BY DEF DriverInv
<1>2. todo' \in Seq(Frames) /\ Len(todo) \in Nat /\ Len(todo) > 0 /\ Len(todo') = Len(todo) - 1
  BY <1>1, TailIs
<1>3. \A i \in DOMAIN todo' : i \in 1 .. Len(todo') /\ i + 1 \in DOMAIN todo /\ todo'[i] = todo[i + 1]
  <2> DEFINE t == todo
  <2>1. t \in Seq(Frames) /\ t # <<>> /\ todo' = Tail(t)
    BY <1>1
  <2> HIDE DEF t
  <2>2. \A i \in DOMAIN Tail(t) : i \in 1 .. Len(Tail(t)) /\ i + 1 \in DOMAIN t /\ Tail(t)[i] = t[i + 1]
    BY <2>1
  <2> QED BY <2>1, <2>2 DEF t
<1>4. TurnsLeft => TurnsLeft'
  <2> SUFFICES ASSUME TurnsLeft PROVE TurnsLeft'
    OBVIOUS
  <2>1. Len(todo') <= turns' + 1
    BY <1>1, <1>2 DEF TurnsLeft
  <2>2. ASSUME NEW i \in DOMAIN todo'
        PROVE  todo'[i] = IF i = Len(todo') THEN Frame("state", turns')
                          ELSE Frame("turn", turns' - Len(todo') + i)
    <3>1. i \in 1 .. Len(todo') /\ i + 1 \in DOMAIN todo /\ todo'[i] = todo[i + 1]
      BY <1>3
    <3>2. todo[i + 1] = IF i + 1 = Len(todo) THEN Frame("state", turns)
                        ELSE Frame("turn", turns - Len(todo) + (i + 1))
      BY <3>1 DEF TurnsLeft
    <3>3. (i + 1 = Len(todo)) <=> (i = Len(todo'))
      BY <1>2, <3>1
    <3>4. turns - Len(todo) + (i + 1) = turns' - Len(todo') + i
      BY <1>1, <1>2, <3>1
    <3> QED BY ONLY <1>1, <3>1, <3>2, <3>3, <3>4
  <2> QED BY <2>1, <2>2 DEF TurnsLeft
<1>5. EndLeft => todo' = <<>> \/ EndLeft'
  <2>1. PICK s, e : s = Frame("state", turns) /\ e = Frame("end", turns)
    OBVIOUS
  <2>2. todo = <<e>> => todo' = <<>>
    OBVIOUS
  <2>3. todo = <<s, e>> => todo' = <<e>>
    OBVIOUS
  <2> QED BY <1>1, <2>1, <2>2, <2>3 DEF EndLeft
<1>6. phase \in {"running", "over", "telling"} /\ Closing' = (phase' = "closing")
  BY DEF DriverInv, Closing
<1>7. CASE phase \in {"running", "over"}
  <2>1. phase' = phase /\ TurnsLeft' /\ ~crashed
    BY <1>4, <1>7 DEF DriverInv
  <2> QED BY <1>1, <1>2, <1>6, <1>7, <2>1 DEF DriverInv, Over, Closing
<1>8. CASE phase = "telling"
  <2>1. (phase' = "telling" /\ EndLeft') \/ (phase' = "closing" /\ todo' = <<>>)
    BY <1>5, <1>8 DEF DriverInv
  <2> QED BY <1>1, <1>2, <1>6, <1>8, <2>1 DEF DriverInv, Over, Closing
<1> QED BY <1>6, <1>7, <1>8

\* The next frame of a broadcast is queued for everyone.
LEMMA FrameStep ==
  ASSUME IInv, NEW public \in BOOLEAN, BroadcastFrame(public)
  PROVE  IInv'
<1>1. /\ todo # <<>> /\ todo' = Tail(todo)
      /\ net' = [c \in Conns |-> Fed(c, net[c], Head(todo), public)]
      /\ UNCHANGED <<lifecycle, turns, owed, crashed, cur, cache>>
  BY DEF BroadcastFrame
<1>2. Feeds
  <2>1. faults' \in Nat /\ faults <= faults'
    BY DEF BroadcastFrame, IInv, DriverInv
  <2> QED BY <1>1, <2>1 DEF BroadcastFrame, Feeds
<1>3. DriverInv'
  BY <1>1, <1>2, FeedsOn DEF IInv
<1>4. PICK f : f = Head(todo)
  OBVIOUS
<1>5. ASSUME NEW c \in Conns PROVE Sane(c, net[c])'
  <2>1. PICK R : R = net'[c]
    OBVIOUS
  <2>2. R = Fed(c, net[c], f, public)
    BY <1>1, <1>4, <2>1
  <2>3. Sane(c, R)'
    BY <1>2, <1>4, <2>2, FedIs DEF IInv
  <2> QED BY <2>1, <2>3
<1>6. net' \in [Conns -> ConnRecord]
  <2>1. \A c \in Conns : net'[c] \in ConnRecord
    BY <1>5 DEF Sane
  <2> QED BY <1>1, <2>1
<1> QED BY <1>3, <1>5, <1>6 DEF IInv

\* A broadcast never starts past the turns that are committed.
LEMMA ReachedIs ==
  ASSUME DriverInv
  PROVE  Reached \in Nat /\ Reached <= turns
<1>1. todo \in Seq(Frames) /\ turns \in Nat
  BY DEF DriverInv
<1>2. CASE ~Turning
  BY <1>1, <1>2 DEF Reached
<1>3. CASE Turning
  <2>1. todo # <<>> /\ Head(todo).kind = "turn"
    BY <1>3 DEF Turning
  <2>2. Head(todo) = todo[1] /\ Head(todo) \in Frames /\ Len(todo) \in Nat /\ Len(todo) > 0
        /\ 1 \in DOMAIN todo
    BY <1>1, <2>1, TailIs
  <2>3. ~EndLeft
    <3>1. PICK s, e : s = Frame("state", turns) /\ e = Frame("end", turns)
      OBVIOUS
    <3>2. s.kind # "turn" /\ e.kind # "turn"
      BY <1>1, <3>1, FrameIs
    <3>3. todo # <<e>> /\ todo # <<s, e>>
      BY <2>1, <3>2
    <3> QED BY <3>1, <3>3 DEF EndLeft
  <2>4. TurnsLeft
    BY <2>1, <2>3 DEF DriverInv, Closing
  <2>5. todo[1] = IF 1 = Len(todo) THEN Frame("state", turns)
                  ELSE Frame("turn", turns - Len(todo) + 1)
    BY <2>2, <2>4 DEF TurnsLeft
  <2>6. Head(todo).n <= turns
    BY <1>1, <2>2, <2>5 DEF Frame
  <2> QED BY <1>3, <2>2, <2>6, NoFrameIs DEF Reached
<1> QED BY <1>2, <1>3

\* A frame could not be built: its broadcast ends there.
LEMMA RaiseStep ==
  ASSUME IInv, BroadcastRaises
  PROVE  IInv'
<1>1. /\ todo # <<>> /\ todo' = <<>> /\ faults' = faults + 1 /\ crashed' = TRUE
      /\ owed' = <<"end">>
      /\ phase' = IF crashed THEN "closing" ELSE IF Over THEN "over" ELSE "crashed"
      /\ UNCHANGED <<lifecycle, turns, cur, net, cache>>
  BY DEF BroadcastRaises
<1>2. /\ turns \in Nat /\ faults \in Nat /\ ~Closing /\ phase \in {"running", "over", "telling"}
      /\ (crashed => faults > 0 /\ Over) /\ (~Over => lifecycle = "running")
  BY <1>1 DEF IInv, DriverInv, Closing, Over
<1>3. DriverInv'
  <2>1. todo' \in Seq(Frames) /\ faults' \in Nat /\ faults' > 0
    BY <1>1, <1>2
  <2>2. crashed' => phase' \notin {"idle", "running"}
    BY <1>1
  <2>3. owed' \in {<<"end">>, <<"state", "end">>}
    BY <1>1
  <2>4. phase' = "closing" \/ phase' = "over" => Over'
    BY <1>1, <1>2 DEF Over
  <2>5. phase' \in {"closing", "over", "crashed"} /\ (phase' = "crashed" => lifecycle' = "running")
    BY <1>1, <1>2
  <2>6. Closing' <=> phase' = "closing"
    BY <2>5 DEF Closing
  <2> QED BY <1>1, <2>1, <2>2, <2>3, <2>4, <2>5, <2>6 DEF IInv, DriverInv
<1>4. Reached \in Nat /\ Reached <= turns /\ Reached' = turns /\ ~Turning'
  BY <1>1, ReachedIs DEF IInv, Reached, Turning
<1>5. ASSUME NEW c \in Conns PROVE Sane(c, net[c])'
  <2>1. PICK r : r = net[c]
    OBVIOUS
  <2>2. Sane(c, r)
    BY <2>1 DEF IInv
  <2>3. r.role \in {"parked", "live"} => r.mark <= Reached'
    BY <1>2, <1>4, <2>2 DEF Sane, Placed, ConnRecord
  <2>4. crashed' /\ (Closing' => faults' > 1) /\ faults' \in Nat /\ faults <= faults'
    <3>1. Closing' => crashed
      BY <1>1 DEF Closing
    <3> QED BY <1>1, <1>2, <3>1
  <2>5. phase # "idle" /\ phase' # "idle" /\ turns' = turns
    BY <1>1, <1>2
  <2>6. Sane(c, r)'
    BY <1>2, <1>4, <2>2, <2>3, <2>4, <2>5, Onward
  <2> QED BY <1>1, <2>1, <2>6
<1>6. net' \in [Conns -> ConnRecord]
  BY <1>1 DEF IInv
<1> QED BY <1>3, <1>5, <1>6 DEF IInv

\* The turns from the a-th on, then the match_state.
LEMMA NewsIs ==
  ASSUME NEW a \in Nat, NEW b \in Nat, a <= b, NEW s, s = News(a, b)
  PROVE  /\ s \in Seq(Frames) /\ s # <<>> /\ Len(s) = b - a + 1 /\ DOMAIN s = 1 .. b - a + 1
         /\ \A i \in 1 .. b - a : s[i] = Frame("turn", a + i - 1)
         /\ s[Len(s)] = Frame("state", b)
<1>1. PICK n \in Nat : n = b - a
  OBVIOUS
<1>2. PICK last : last = Frame("state", b)
  OBVIOUS
<1>3. last \in Frames
  BY <1>2, FrameIs
<1>4. PICK t : t = [i \in 1 .. n |-> Frame("turn", a + i - 1)]
  OBVIOUS
<1>5. t \in Seq(Frames) /\ Len(t) = n /\ \A i \in 1 .. n : t[i] = Frame("turn", a + i - 1)
  <2>1. \A i \in 1 .. n : Frame("turn", a + i - 1) \in Frames
    <3> SUFFICES ASSUME NEW i \in 1 .. n PROVE Frame("turn", a + i - 1) \in Frames
      OBVIOUS
    <3>1. a + i - 1 \in Nat
      OBVIOUS
    <3> QED BY <3>1, FrameIs
  <2> QED BY <1>4, <2>1
<1>6. PICK u : u = <<last>>
  OBVIOUS
<1>7. u \in Seq(Frames) /\ Len(u) = 1 /\ u[1] = last
  BY <1>3, <1>6
<1>8. s = t \o u
  BY <1>1, <1>2, <1>4, <1>6 DEF News
<1>9. /\ s \in Seq(Frames) /\ Len(s) = n + 1 /\ DOMAIN s = 1 .. n + 1
      /\ \A i \in 1 .. n : s[i] = t[i]
      /\ s[n + 1] = last
  <2>1. s \in Seq(Frames) /\ Len(s) = n + 1
    <3>1. t \in Seq(Frames) /\ u \in Seq(Frames) /\ s = t \o u
      BY <1>5, <1>7, <1>8
    <3>2. s \in Seq(Frames) /\ Len(s) = Len(t) + Len(u)
      BY ONLY <3>1
    <3>3. Len(t) = n /\ Len(u) = 1
      BY <1>5, <1>7
    <3> QED BY ONLY <1>1, <3>2, <3>3
  <2>2. DOMAIN s = 1 .. n + 1
    BY ONLY <1>1, <2>1
  <2>3. ASSUME NEW i \in 1 .. n PROVE s[i] = t[i]
    <3>1. i \in 1 .. Len(t) /\ i \in 1 .. Len(t) + Len(u)
      BY ONLY <1>1, <1>5, <1>7, <2>3
    <3> QED BY ONLY <1>5, <1>7, <1>8, <3>1
  <2>4. s[n + 1] = last
    <3>1. n + 1 \in 1 .. Len(t) + Len(u) /\ n + 1 > Len(t) /\ n + 1 - Len(t) = 1
      BY ONLY <1>1, <1>5, <1>7
    <3>2. t \in Seq(Frames) /\ u \in Seq(Frames) /\ s = t \o u /\ u[1] = last
      BY <1>5, <1>7, <1>8
    <3> QED BY ONLY <3>1, <3>2
  <2> QED BY <2>1, <2>2, <2>3, <2>4
<1>10. ASSUME NEW i \in 1 .. b - a PROVE s[i] = Frame("turn", a + i - 1)
  <2>1. i \in 1 .. n
    BY <1>1
  <2> QED BY <1>5, <1>9, <2>1
<1>11. s # <<>>
  BY <1>9
<1>13. s \in Seq(Frames) /\ Len(s) = b - a + 1 /\ DOMAIN s = 1 .. b - a + 1
  BY <1>1, <1>9
<1>14. s[Len(s)] = Frame("state", b)
  BY <1>1, <1>2, <1>9
<1> QED BY <1>10, <1>11, <1>13, <1>14

\* They begin with the a-th turn, if there is any.
LEMMA NewsFirst ==
  ASSUME NEW a \in Nat, NEW b \in Nat, a <= b, NEW s, s = News(a, b)
  PROVE  /\ a = b => Head(s) = Frame("state", b)
         /\ a # b => Head(s) = Frame("turn", a)
<1>1. s \in Seq(Frames) /\ s # <<>> /\ Len(s) = b - a + 1
  BY NewsIs
<1>2. Head(s) = s[1]
  BY ONLY <1>1
<1>3. s[Len(s)] = Frame("state", b)
  BY NewsIs
<1>4. \A i \in 1 .. b - a : s[i] = Frame("turn", a + i - 1)
  BY NewsIs
<1>5. ASSUME a # b PROVE s[1] = Frame("turn", a)
  <2>1. 1 \in 1 .. b - a /\ a + 1 - 1 = a
    BY <1>5
  <2> QED BY ONLY <1>4, <2>1
<1>6. ASSUME a = b PROVE s[1] = Frame("state", b)
  <2>1. Len(s) = 1
    BY <1>1, <1>6
  <2> QED BY ONLY <1>3, <2>1
<1> QED BY <1>2, <1>5, <1>6

\* What a driver that broadcasts news leaves to queue.
LEMMA NewsLeft ==
  ASSUME NEW a \in Nat, turns' \in Nat, a <= turns', todo' = News(a, turns')
  PROVE  todo' \in Seq(Frames) /\ TurnsLeft' /\ Reached' = a
<1>1. PICK b \in Nat : b = turns'
  OBVIOUS
<1>2. PICK s : s = todo'
  OBVIOUS
<1>3. /\ s \in Seq(Frames) /\ s # <<>> /\ Len(s) = b - a + 1 /\ DOMAIN s = 1 .. b - a + 1
      /\ \A i \in DOMAIN s : s[i] = IF i = Len(s) THEN Frame("state", b)
                                    ELSE Frame("turn", b - Len(s) + i)
      /\ a = b => Head(s) = Frame("state", b)
      /\ a # b => Head(s) = Frame("turn", a)
  <2>1. a \in Nat /\ b \in Nat /\ a <= b /\ s = News(a, b)
    BY <1>1, <1>2
  <2>2. s \in Seq(Frames) /\ s # <<>> /\ Len(s) = b - a + 1
    BY ONLY <2>1, NewsIs
  <2>3. DOMAIN s = 1 .. b - a + 1
    BY ONLY <2>1, NewsIs
  <2>6. s[Len(s)] = Frame("state", b)
    BY ONLY <2>1, NewsIs
  <2>4. ASSUME NEW i \in DOMAIN s
        PROVE  s[i] = IF i = Len(s) THEN Frame("state", b)
                      ELSE Frame("turn", b - Len(s) + i)
    <3>1. i \in 1 .. b - a + 1
      BY <2>3
    <3>2. CASE i = b - a + 1
      BY ONLY <2>2, <2>6, <3>1, <3>2
    <3>3. CASE i # b - a + 1
      <4>1. i \in 1 .. b - a
        BY ONLY <2>1, <3>1, <3>3
      <4>2. s[i] = Frame("turn", a + i - 1)
        BY ONLY <2>1, <4>1, NewsIs
      <4>3. a + i - 1 = b - (b - a + 1) + i
        BY ONLY <2>1, <4>1
      <4> QED BY ONLY <2>2, <3>3, <4>2, <4>3
    <3> QED BY <3>2, <3>3
  <2>5. /\ a = b => Head(s) = Frame("state", b)
        /\ a # b => Head(s) = Frame("turn", a)
    BY ONLY <2>1, NewsFirst
  <2> QED BY <2>2, <2>3, <2>4, <2>5
<1>4. TurnsLeft'
  <2>1. Len(s) <= b + 1
    <3>1. a \in Nat /\ b \in Nat /\ Len(s) = b - a + 1
      BY <1>3
    <3> QED BY ONLY <3>1
  <2> QED BY <1>1, <1>2, <1>3, <2>1 DEF TurnsLeft
<1>5. Reached' = a
  <2>1. CASE a = b
    <3>1. Head(s).kind # "turn"
      BY <1>3, <2>1 DEF Frame
    <3> QED BY <1>1, <1>2, <2>1, <3>1 DEF Reached, Turning
  <2>2. CASE a # b
    <3>1. Head(s).kind = "turn" /\ Head(s).n = a
      BY <1>3, <2>2 DEF Frame
    <3> QED BY <1>2, <1>3, <3>1 DEF Reached, Turning
  <2> QED BY <2>1, <2>2
<1> QED BY <1>2, <1>3, <1>4, <1>5

\* A parked connection joins the match when it starts.
LEMMA JoinedIs ==
  ASSUME DriverInv, NEW c, NEW r, Sane(c, r), r.role = "parked",
         NEW w, w = (IF r.writer = "off" THEN "on" ELSE r.writer),
         NEW R, R = [r EXCEPT !.role = "live", !.writer = w],
         turns' \in Nat, phase' # "idle", ~Closing', crashed' = crashed, faults' = faults,
         Reached' = 0
  PROVE  Sane(c, R)'
<1>1. r \in ConnRecord /\ phase = "idle" /\ turns = 0 /\ todo = <<>>
  BY DEF Sane, Placed, DriverInv
<1>2. Reached = 0 /\ ~crashed /\ ~Closing
  BY <1>1 DEF Reached, Turning, DriverInv, Closing
<1>3. w \in {"off", "on", "done"} /\ w # "off" /\ (w = "done" <=> r.writer = "done")
  BY <1>1 DEF ConnRecord
<1>4. /\ R \in ConnRecord /\ R.writer = w /\ R.hand = r.hand /\ R.queue = r.queue
      /\ R.role = "live" /\ R.sock = r.sock /\ R.slow = r.slow /\ R.closing = r.closing
      /\ R.gap = r.gap /\ R.mark = r.mark /\ R.stop = r.stop /\ R.seen = r.seen
      /\ R.ended = r.ended
  BY <1>1, <1>3 DEF ConnRecord
<1>5. Pend(R) = Pend(r)
  BY ONLY <1>4 DEF Pend
<1>6. ~r.gap /\ r.mark = 0 /\ r.stop = "no" /\ (c \in SeatConns => w = "on")
  BY <1>1, <1>2 DEF Sane, Placed, ConnRecord
<1>7. Placed(c, R)'
  BY <1>3, <1>4, <1>6 DEF Sane, Placed
<1>8. Told(c, R)'
  BY <1>4, <1>6 DEF Told
<1>9. \A i \in DOMAIN Pend(r) : Pend(r)[i] \in Frames /\ Pend(r)[i].n \in Nat
  <2>1. Pend(r) \in Seq(Frames)
    BY <1>1, PendIs DEF ConnRecord
  <2> DEFINE P == Pend(r)
  <2>2. P \in Seq(Frames)
    BY <2>1
  <2> HIDE DEF P
  <2>3. \A i \in DOMAIN P : P[i] \in Frames
    BY <2>2
  <2> QED BY <2>3, NoFrameIs DEF P
<1>10. ASSUME NEW i \in DOMAIN Pend(R) PROVE Continues(R, i)'
  <2>1. Continues(r, i) /\ i \in DOMAIN Pend(r)
    BY <1>5 DEF Sane, Streams
  <2>2. Pend(r)[i].kind # "end" /\ Pend(r)[i].kind # "stop"
    BY <1>2, <2>1 DEF Sane, Streams, Continues
  <2>3. Pend(r)[i].kind = "turn" => FALSE
    BY <1>1, <1>9, <2>1 DEF Continues
  <2> QED BY <1>1, <1>2, <1>4, <1>5, <1>6, <1>9, <2>1, <2>2, <2>3 DEF Continues
<1>11. Streams(c, R)'
  BY <1>2, <1>3, <1>4, <1>5, <1>6, <1>10 DEF Sane, Streams
<1> QED BY <1>4, <1>5, <1>7, <1>8, <1>11 DEF Sane

\* The match starts, or fails to: whoever waits for it joins.
LEMMA StartStep ==
  ASSUME IInv, Start
  PROVE  IInv'
<1>1. /\ phase = "idle" /\ turns = 0 /\ todo = <<>> /\ lifecycle = "created" /\ ~crashed /\ ~Closing
      /\ faults \in Nat
  BY DEF Start, IInv, DriverInv, Closing
<1>2. /\ phase' = IF lifecycle' = "running" THEN "running" ELSE "over"
      /\ UNCHANGED <<crashed, faults, cur, cache>>
      /\ net' = [c \in Conns |->
            IF net[c].role # "parked" THEN net[c]
            ELSE [net[c] EXCEPT !.role = "live", !.writer = IF @ = "off" THEN "on" ELSE @]]
  BY DEF Start
<1>3. phase' \in {"running", "over"} /\ phase' # "idle" /\ ~Closing'
  BY <1>2 DEF Closing
<1>4. /\ turns' \in Nat /\ Reached' = 0 /\ todo' \in Seq(Frames)
      /\ todo' = <<>> \/ TurnsLeft'
      /\ lifecycle' \in {"running", "finished", "aborted"}
      /\ phase' = "over" => owed' \in {<<"end">>, <<"state", "end">>}
  <2>1. CASE lifecycle' \in {"running", "finished"}
    <3>1. turns' \in Nat /\ todo' = News(0, turns')
      <4>1. MaxChance \in Nat
        BY BroadcastAssumption DEF BroadcastAssumption
      <4>2. lifecycle' # "aborted"
        BY <2>1
      <4>3. turns' \in 0 .. MaxChance /\ todo' = News(0, turns')
        BY <4>2 DEF Start
      <4> QED BY <4>1, <4>3
    <3>2. phase' = "over" => owed' = <<"end">>
      BY <1>2, <2>1 DEF Start
    <3>3. 0 \in Nat /\ 0 <= turns'
      BY <3>1
    <3>4. todo' \in Seq(Frames) /\ TurnsLeft' /\ Reached' = 0
      BY <3>1, <3>3, NewsLeft
    <3> QED BY <2>1, <3>1, <3>2, <3>4
  <2>2. CASE lifecycle' \notin {"running", "finished"}
    <3>1. lifecycle' = "aborted" /\ owed' = <<"state", "end">> /\ turns' = 0 /\ todo' = <<>>
      BY <1>1, <2>2 DEF Start
    <3> QED BY <3>1 DEF Reached, Turning
  <2> QED BY <2>1, <2>2
<1>5. DriverInv'
  <2>1. phase' = "running" <=> lifecycle' = "running"
    BY <1>2
  <2>2. phase' = "over" => Over'
    BY <1>2, <1>4 DEF Over
  <2>3. ~crashed' /\ faults' \in Nat
    BY <1>1, <1>2
  <2> QED BY <1>2, <1>3, <1>4, <2>1, <2>2, <2>3 DEF IInv, DriverInv
<1>6. ASSUME NEW c \in Conns PROVE Sane(c, net[c])'
  <2>1. PICK r : r = net[c]
    OBVIOUS
  <2>2. PICK R : R = net'[c]
    OBVIOUS
  <2>3. Sane(c, r)
    BY <2>1 DEF IInv
  <2>4. CASE r.role = "parked"
    <3>1. PICK w : w = IF r.writer = "off" THEN "on" ELSE r.writer
      OBVIOUS
    <3>2. R = [r EXCEPT !.role = "live", !.writer = w]
      <4>1. R = [r EXCEPT !.role = "live", !.writer = IF @ = "off" THEN "on" ELSE @]
        BY <1>2, <2>1, <2>2, <2>4
      <4>2. r \in ConnRecord
        BY <2>3 DEF Sane
      <4> QED BY <3>1, <4>1, <4>2 DEF ConnRecord
    <3>3. Sane(c, R)'
      BY <1>2, <1>3, <1>4, <2>3, <2>4, <3>1, <3>2, JoinedIs DEF IInv
    <3> QED BY <2>2, <3>3
  <2>5. CASE r.role # "parked"
    <3>1. R = r
      BY <1>2, <2>1, <2>2, <2>5
    <3>2. r.role \notin {"parked", "live"}
      BY <1>1, <2>3, <2>5 DEF Sane, Placed
    <3>3. ~(Closing' /\ c \in SeatConns)
      BY <1>3
    <3>4. turns \in Nat /\ turns' \in Nat /\ turns <= turns'
      <4>1. turns = 0 /\ turns' \in Nat
        BY <1>1, <1>4
      <4> QED BY ONLY <4>1
    <3>6. crashed => crashed'
      BY <1>1
    <3>7. faults' \in Nat /\ faults <= faults'
      <4>1. faults' = faults /\ faults \in Nat
        BY <1>1, <1>2
      <4> QED BY ONLY <4>1
    <3>5. Sane(c, r)'
      BY <1>1, <1>3, <2>3, <3>2, <3>3, <3>4, <3>6, <3>7, Onward
    <3> QED BY <2>2, <3>1, <3>5
  <2> QED BY <2>4, <2>5
<1>7. net' \in [Conns -> ConnRecord]
  <2>1. \A c \in Conns : net'[c] \in ConnRecord
    BY <1>6 DEF Sane
  <2> QED BY <1>2, <2>1
<1> QED BY <1>5, <1>6, <1>7 DEF IInv

\* A round is committed, once the connections that lost a frame are closed.
LEMMA CommitStep ==
  ASSUME IInv, Commit
  PROVE  IInv'
<1>1. /\ phase = "running" /\ todo = <<>> /\ lifecycle = "running" /\ ~crashed /\ ~Closing
      /\ turns \in Nat /\ faults \in Nat
      /\ UNCHANGED <<crashed, faults, cur, net, cache>>
  BY DEF Commit, Quiet, IInv, DriverInv, Closing
<1>2. turns' \in Nat /\ turns <= turns' /\ todo' = News(turns, turns')
  <2>1. PICK more \in 1 .. MaxChance + 1 : turns' = turns + more
    BY DEF Commit
  <2>2. MaxChance \in Nat
    BY BroadcastAssumption DEF BroadcastAssumption
  <2>3. more \in Nat
    BY <2>2
  <2>4. todo' = News(turns, turns')
    BY DEF Commit
  <2> QED BY <1>1, <2>1, <2>3, <2>4
<1>3. todo' \in Seq(Frames) /\ TurnsLeft' /\ Reached' = turns
  BY <1>1, <1>2, NewsLeft
<1>4. /\ lifecycle' \in {"running", "finished"}
      /\ phase' = IF lifecycle' = "finished" THEN "over" ELSE phase
      /\ owed' = IF lifecycle' = "finished" THEN <<"end">> ELSE owed
  BY DEF Commit
<1>5. phase' \in {"running", "over"} /\ phase' # "idle" /\ ~Closing'
  BY <1>1, <1>4 DEF Closing
<1>6. DriverInv'
  <2>1. phase' = "running" => lifecycle' = "running"
    BY <1>4
  <2>2. phase' = "over" => Over' /\ owed' = <<"end">>
    BY <1>1, <1>4 DEF Over
  <2> QED BY <1>1, <1>2, <1>3, <1>4, <1>5, <2>1, <2>2 DEF IInv, DriverInv
<1>7. ASSUME NEW c \in Conns PROVE Sane(c, net[c])'
  <2>1. PICK r : r = net[c]
    OBVIOUS
  <2>2. Sane(c, r)
    BY <2>1 DEF IInv
  <2>3. ~(r.closing /\ r.gap)
    BY <2>1 DEF Commit
  <2>4. ~(r.role = "live" /\ r.gap /\ r.sock = "open")
    BY <2>2, <2>3 DEF Sane, Placed
  <2>5. Reached = turns
    BY <1>1 DEF Reached, Turning
  <2>6. r.role \in {"parked", "live"} => r.mark <= Reached'
    BY <1>3, <2>2, <2>5 DEF Sane, Placed
  <2>7. Sane(c, r)'
    BY <1>1, <1>2, <1>3, <1>5, <2>2, <2>4, <2>5, <2>6, Onward
  <2> QED BY <1>1, <2>1, <2>7
<1>8. net' \in [Conns -> ConnRecord]
  BY <1>1 DEF IInv
<1> QED BY <1>6, <1>7, <1>8 DEF IInv

\* The end of the match is about to be told.
LEMMA TellStep ==
  ASSUME IInv, Tell
  PROVE  IInv'
<1>1. /\ phase = "over" /\ phase' = "telling" /\ todo = <<>> /\ Over /\ ~Closing /\ ~Closing'
      /\ turns \in Nat /\ faults \in Nat /\ owed \in {<<"end">>, <<"state", "end">>}
      /\ todo' = [i \in DOMAIN owed |-> Frame(owed[i], turns)]
      /\ UNCHANGED <<lifecycle, turns, owed, crashed, faults, cur, net, cache>>
  BY DEF Tell, Quiet, IInv, DriverInv, Closing
<1>2. PICK s, e : s = Frame("state", turns) /\ e = Frame("end", turns)
  OBVIOUS
<1>3. s \in Frames /\ s.kind = "state" /\ e \in Frames /\ e.kind = "end"
  BY <1>1, <1>2, FrameIs
<1>4. todo' = <<e>> \/ todo' = <<s, e>>
  <2>1. CASE owed = <<"end">>
    <3>1. DOMAIN owed = {1} /\ owed[1] = "end"
      BY <2>1
    <3>2. todo' = [i \in {1} |-> e]
      BY <1>1, <1>2, <3>1
    <3>3. [i \in {1} |-> e] = <<e>>
      OBVIOUS
    <3> QED BY <3>2, <3>3
  <2>2. CASE owed = <<"state", "end">>
    <3>1. DOMAIN owed = {1, 2} /\ owed[1] = "state" /\ owed[2] = "end"
      BY <2>2
    <3>2. todo' = [i \in {1, 2} |-> IF i = 1 THEN s ELSE e]
      BY <1>1, <1>2, <3>1
    <3>3. [i \in {1, 2} |-> IF i = 1 THEN s ELSE e] = <<s, e>>
      OBVIOUS
    <3> QED BY <3>2, <3>3
  <2> QED BY <1>1, <2>1, <2>2
<1>5. todo' \in Seq(Frames) /\ EndLeft'
  <2>1. EndLeft'
    <3>1. turns' = turns
      BY <1>1
    <3>2. todo' = <<Frame("end", turns)>> \/ todo' = <<Frame("state", turns), Frame("end", turns)>>
      BY ONLY <1>2, <1>4
    <3> QED BY ONLY <3>1, <3>2 DEF EndLeft
  <2>2. <<e>> \in Seq(Frames) /\ <<s, e>> \in Seq(Frames)
    BY <1>3
  <2> QED BY <1>4, <2>1, <2>2
<1>6. ~Turning' /\ Reached' = turns /\ Reached = turns
  <2>1. Head(todo') = s \/ Head(todo') = e
    BY <1>4
  <2> QED BY <1>1, <1>3, <2>1 DEF Turning, Reached
<1>7. DriverInv'
  BY <1>1, <1>5 DEF IInv, DriverInv, Over
<1>8. ASSUME NEW c \in Conns PROVE Sane(c, net[c])'
  <2>1. PICK r : r = net[c]
    OBVIOUS
  <2>2. Sane(c, r)
    BY <2>1 DEF IInv
  <2>3. r.role \in {"parked", "live"} => r.mark <= Reached'
    BY <1>6, <2>2 DEF Sane, Placed
  <2>4. phase # "idle" /\ phase' # "idle" /\ turns' = turns
    BY <1>1
  <2>5. Sane(c, r)'
    BY <1>1, <1>6, <2>2, <2>3, <2>4, Onward
  <2> QED BY <1>1, <2>1, <2>5
<1>9. net' \in [Conns -> ConnRecord]
  BY <1>1 DEF IInv
<1> QED BY <1>7, <1>8, <1>9 DEF IInv

\* Steps that queue nothing and touch no connection.
LEMMA QuietStep ==
  ASSUME IInv, Abort \/ Exit \/ OtherAttaches \/ UNCHANGED vars
  PROVE  IInv'
<1>1. CASE Abort
  <2>1. /\ phase \in {"running", "crashed"} /\ todo = <<>> /\ lifecycle' = "aborted" /\ phase' = "over"
        /\ owed' = <<"state", "end">>
        /\ UNCHANGED <<turns, todo, crashed, faults, cur, net, cache>>
    BY <1>1 DEF Abort, Quiet
  <2>2. ~Closing /\ ~Closing'
    BY <2>1 DEF Closing
  <2>3. DriverInv'
    BY <2>1, <2>2 DEF IInv, DriverInv, Over
  <2>4. Rests
    <3>1. Closing' = Closing /\ ((phase' = "idle") <=> (phase = "idle"))
      BY <2>1 DEF Closing
    <3> QED BY <2>1, <3>1 DEF Rests
  <2> QED BY <2>1, <2>3, <2>4, NoConn
<1>2. CASE Exit
  <2>1. /\ phase = "closing" /\ todo = <<>> /\ phase' = "done"
        /\ UNCHANGED <<lifecycle, turns, todo, owed, crashed, faults, cur, net, cache>>
    BY <1>2 DEF Exit, Quiet
  <2>2. Closing /\ Closing'
    BY <2>1 DEF Closing
  <2>3. DriverInv'
    BY <2>1, <2>2 DEF IInv, DriverInv, Over
  <2>4. Rests
    BY <2>1, <2>2 DEF Rests
  <2> QED BY <2>1, <2>3, <2>4, NoConn
<1>3. CASE OtherAttaches
  <2>1. /\ UNCHANGED <<lifecycle, turns, phase, todo, owed, crashed, faults, cur, net>>
        /\ cache' = [at |-> <<turns, lifecycle>>, carries |-> turns] /\ todo = <<>>
    BY <1>3 DEF OtherAttaches, Welcome, driver, Quiet
  <2>2. Rests
    BY <2>1, RestsKept
  <2>4. cache'.carries \in Nat /\ cache'.at[1] = cache'.carries
    BY <2>1 DEF IInv, DriverInv
  <2>3. DriverInv'
    BY <2>1, <2>4 DEF IInv, DriverInv, TurnsLeft, EndLeft, Closing, Over
  <2> QED BY <2>1, <2>2, <2>3, NoConn
<1>4. CASE UNCHANGED vars
  <2>1. UNCHANGED <<lifecycle, turns, phase, todo, owed, crashed, faults, cur, net, cache>>
    BY <1>4 DEF vars, driver
  <2>2. DriverInv' /\ Rests
    BY <2>1, DriverKept, RestsKept DEF IInv
  <2> QED BY <2>1, <2>2, NoConn
<1> QED BY <1>1, <1>2, <1>3, <1>4

----------------------------------------------------------------------------
(* The invariant *)

\* A connection before the match: not there, or a seat that was welcomed and waits.
LEMMA FreshIs ==
  ASSUME NEW c, NEW r \in ConnRecord, phase = "idle", turns = 0, todo = <<>>, ~crashed,
         r.hand = NoFrame, r.queue = <<>>, r.writer = "off", ~r.slow, ~r.closing, ~r.gap,
         r.mark = 0, r.stop = "no", r.ended = 0,
         \/ r.role \in {"absent", "new"} /\ r.sock = "none" /\ r.seen = -1
         \/ r.role = "parked" /\ c \in SeatConns /\ r.sock = "open" /\ r.seen = 0
  PROVE  Sane(c, r)
<1>1. Pend(r) = <<>>
  BY PendIs DEF ConnRecord
<1>2. DOMAIN Pend(r) = {} /\ Len(Pend(r)) = 0
  BY <1>1
<1>3. ~Turning /\ Reached = 0 /\ ~Closing
  BY DEF Turning, Reached, Closing
<1>4. Placed(c, r)
  BY <1>3 DEF Placed
<1>5. r.role \in {"parked", "live"} => At(r.seen, Pend(r), Len(Pend(r))) = Reached
  <2>1. At(r.seen, Pend(r), 0) = r.seen
    BY AtFirst
  <2> QED BY <1>2, <1>3, <2>1
<1>6. Streams(c, r)
  BY <1>1, <1>2, <1>3, <1>5 DEF Streams
<1>7. Told(c, r)
  BY <1>3 DEF Told
<1> QED BY <1>2, <1>4, <1>6, <1>7, NoFrameIs DEF Sane

\* The invariant holds when both seats have been welcomed.
LEMMA InitIs == Init => IInv
<1> SUFFICES ASSUME Init PROVE IInv
  OBVIOUS
<1>1. MaxConns \in Nat /\ MaxConns > 0
  BY BroadcastAssumption DEF BroadcastAssumption
<1>2. /\ lifecycle = "created" /\ turns = 0 /\ phase = "idle" /\ todo = <<>>
      /\ ~crashed /\ faults = 0 /\ cur = [s \in Seats |-> 1]
      /\ cache = [at |-> <<0, "none">>, carries |-> 0]
  BY DEF Init
<1>3. DriverInv
  <2>1. cur \in [Seats -> 1 .. MaxConns]
    BY <1>1, <1>2
  <2>2. cache.carries = 0 /\ cache.at[1] = 0
    BY <1>2
  <2>3. turns \in Nat /\ faults \in Nat /\ todo \in Seq(Frames)
    BY <1>2
  <2> QED BY <1>2, <2>1, <2>2, <2>3 DEF DriverInv, Closing
<1>4. PICK cast \in Casts : net = InitialNet(cast)
  BY DEF Init
<1>5. ASSUME NEW c \in Conns PROVE Sane(c, net[c])
  <2>1. PICK r : r = net[c]
    OBVIOUS
  <2>2. r = IF c \notin cast THEN [Unused EXCEPT !.role = "absent"]
            ELSE IF c \in Seats \X {1} THEN [Accepted EXCEPT !.seen = 0] ELSE Unused
    BY <1>4, <2>1 DEF InitialNet
  <2>3. c \in Seats \X {1} => c \in SeatConns
    BY <1>1 DEF SeatConns
  <2>4. NoFrame \in Frames /\ <<>> \in Seq(Frames) /\ -1 \in Nat \cup {-1} /\ 0 \in Nat
    BY NoFrameIs
  <2>5. PICK u : u = Unused
    OBVIOUS
  <2>6. /\ u \in ConnRecord /\ u.role = "new" /\ u.sock = "none" /\ u.writer = "off"
        /\ u.hand = NoFrame /\ u.queue = <<>> /\ ~u.slow /\ ~u.closing /\ ~u.gap
        /\ u.mark = 0 /\ u.stop = "no" /\ u.seen = -1 /\ u.ended = 0
    BY <2>4, <2>5 DEF Unused, ConnRecord
  <2>7. CASE c \notin cast
    <3>1. r = [u EXCEPT !.role = "absent"]
      BY <2>2, <2>5, <2>7
    <3>2. /\ r \in ConnRecord /\ r.role = "absent" /\ r.sock = u.sock /\ r.writer = u.writer
          /\ r.hand = u.hand /\ r.queue = u.queue /\ r.slow = u.slow /\ r.closing = u.closing
          /\ r.gap = u.gap /\ r.mark = u.mark /\ r.stop = u.stop /\ r.seen = u.seen
          /\ r.ended = u.ended
      BY ONLY <2>6, <3>1 DEF ConnRecord
    <3>3. r.mark = 0 /\ r.ended = 0 /\ r.seen = -1
      BY <2>6, <3>2
    <3> QED BY <1>2, <2>1, <2>6, <3>2, <3>3, FreshIs
  <2>8. CASE c \in cast /\ c \in Seats \X {1}
    <3>1. r = [u EXCEPT !.role = "parked", !.sock = "open", !.seen = 0]
      BY <2>2, <2>5, <2>6, <2>8 DEF Accepted, ConnRecord
    <3>2. /\ r \in ConnRecord /\ r.role = "parked" /\ r.sock = "open" /\ r.writer = u.writer
          /\ r.hand = u.hand /\ r.queue = u.queue /\ r.slow = u.slow /\ r.closing = u.closing
          /\ r.gap = u.gap /\ r.mark = u.mark /\ r.stop = u.stop /\ r.seen = 0
          /\ r.ended = u.ended
      BY ONLY <2>4, <2>6, <3>1 DEF ConnRecord
    <3>3. r.mark = 0 /\ r.ended = 0
      BY <2>6, <3>2
    <3> QED BY <1>2, <2>1, <2>3, <2>6, <2>8, <3>2, <3>3, FreshIs
  <2>9. CASE c \in cast /\ c \notin Seats \X {1}
    <3>1. r = u
      BY <2>2, <2>5, <2>9
    <3> QED BY <1>2, <2>1, <2>6, <3>1, FreshIs
  <2> QED BY <2>7, <2>8, <2>9
<1>6. net \in [Conns -> ConnRecord]
  <2>1. \A c \in Conns : net[c] \in ConnRecord
    BY <1>5 DEF Sane
  <2> QED BY <1>4, <2>1 DEF InitialNet
<1> QED BY <1>3, <1>5, <1>6 DEF IInv

\* Every step keeps the invariant.
LEMMA NextIs == IInv /\ [Next]_vars => IInv'
<1> SUFFICES ASSUME IInv, [Next]_vars PROVE IInv'
  OBVIOUS
<1>1. ASSUME NEW public \in BOOLEAN, BroadcastFrame(public) PROVE IInv'
  BY <1>1, FrameStep
<1>2. CASE BroadcastRaises
  BY <1>2, RaiseStep
<1>3. CASE Start
  BY <1>3, StartStep
<1>4. CASE Commit
  BY <1>4, CommitStep
<1>5. CASE Tell
  BY <1>5, TellStep
<1>6. CASE Abort \/ Exit \/ OtherAttaches \/ UNCHANGED vars
  BY <1>6, QuietStep
<1>7. ASSUME NEW s \in Seats, Note(s) \/ QueueClose(s) \/ StopSeat(s) PROVE IInv'
  BY <1>7, SeatStep
<1>8. ASSUME NEW s \in Seats, Resume(s) PROVE IInv'
  BY <1>8, ResumeStep
<1>9. ASSUME NEW p \in Spectators, Attach(p) PROVE IInv'
  BY <1>9, AttachStep
<1>10. ASSUME NEW p \in Spectators, SpectatorGone(p) \/ Misbehave(p) \/ SpectatorDone(p)
       PROVE  IInv'
  BY <1>10, LeaveStep
<1>11. ASSUME NEW c \in Conns, Take(c) \/ Sent(c) \/ SendFails(c) \/ CloseSlow(c) \/ Drop(c)
       PROVE  IInv'
  BY <1>11, ConnStep
<1>12. ASSUME NEW c \in Conns, StopReturns(c) PROVE IInv'
  BY <1>12, StopReturnsStep
<1> QED BY <1>1, <1>2, <1>3, <1>4, <1>5, <1>6, <1>7, <1>8, <1>9, <1>10, <1>11, <1>12
        DEF Next, Handlers, ConnSteps

\* What a connection's client has, and is still to be sent, goes on where the
\* broadcast under way does.
THEOREM StreamsStaySane == Safety => []IInv
BY InitIs, NextIs, PTL DEF Safety

\* What the properties say of a connection's client, in the invariant's terms.
LEMMA KnownIs ==
  ASSUME NEW c, NEW i
  PROVE  Pending(c) = Pend(net[c]) /\ Known(c, i) = At(net[c].seen, Pend(net[c]), i)
<1>1. Pending(c) = Pend(net[c])
  BY DEF Pending, Pend
<1>2. Known(c, i) = At(net[c].seen, Pending(c), i)
  BY DEF Known, At, Carries, Gives
<1> QED BY <1>1, <1>2

\* Between two broadcasts every recipient that keeps up has been sent, or is to
\* be sent, all turns committed so far.
THEOREM NobodyMissesATurn == Safety => []CaughtUp
<1>1. IInv => CaughtUp
  <2> SUFFICES ASSUME IInv, Quiet, phase # "idle", ~crashed, NEW c \in Conns, Recipient(c)
               PROVE  Known(c, Len(Pending(c))) = turns
    BY DEF CaughtUp
  <2>1. PICK r : r = net[c]
    OBVIOUS
  <2>2. Sane(c, r) /\ r.role = "live" /\ r.writer = "on" /\ ~r.slow
    BY <2>1 DEF IInv, Recipient
  <2>3. ~r.gap
    BY <2>2 DEF Sane, Placed
  <2>4. At(r.seen, Pend(r), Len(Pend(r))) = Reached
    BY <2>2, <2>3 DEF Sane, Streams
  <2>5. Reached = turns
    BY DEF Quiet, Reached, Turning
  <2> QED BY <2>1, <2>4, <2>5, KnownIs
<1> QED BY <1>1, StreamsStaySane, PTL

\* A client is sent the turns a frame speaks of before that frame, and one
\* terminal frame, the last that moves the match on.
THEOREM FramesStayInOrder == Safety => []FramesInOrder
<1>1. IInv => FramesInOrder
  <2> SUFFICES ASSUME IInv, NEW c \in Conns
               PROVE  LET queue == Pending(c)
                          ends == {i \in DOMAIN queue : queue[i].kind = "end"}
                          After(i) == {queue[j].kind : j \in {k \in DOMAIN queue : k > i}}
                      IN  /\ ~crashed => \A i \in DOMAIN queue :
                               queue[i].kind \in {"state", "note"} /\ ~net[c].gap =>
                                 Known(c, i - 1) = queue[i].n
                          /\ net[c].ended + Cardinality(ends) <= 1
                          /\ net[c].ended = 1 => After(0) \subseteq {"stop", "error"}
                          /\ \A i \in ends : After(i) \subseteq {"stop", "error"}
    BY DEF FramesInOrder
  <2>1. PICK r : r = net[c]
    OBVIOUS
  <2>2. PICK queue : queue = Pend(r)
    OBVIOUS
  <2>3. Pending(c) = queue
    BY <2>1, <2>2, KnownIs
  <2>4. Sane(c, r) /\ r \in ConnRecord
    BY <2>1 DEF IInv, Sane
  <2>5. queue \in Seq(Frames)
    BY <2>2, <2>4, PendIs DEF ConnRecord
  <2>6. /\ \A i \in DOMAIN queue : Continues(r, i)
        /\ r.ended \in {0, 1}
    BY <2>2, <2>4 DEF Sane, Streams
  <2>7. DOMAIN queue \subseteq Nat \ {0}
    BY <2>5
  <2>8. ASSUME ~crashed, NEW i \in DOMAIN queue, queue[i].kind \in {"state", "note"}, ~net[c].gap
        PROVE  Known(c, i - 1) = queue[i].n
    <3>1. queue[i].n = At(r.seen, queue, i - 1)
      BY <2>1, <2>2, <2>6, <2>8 DEF Continues
    <3> QED BY <2>1, <2>2, <3>1, KnownIs
  <2>9. PICK ends : ends = {i \in DOMAIN queue : queue[i].kind = "end"}
    OBVIOUS
  <2>10. \A i \in ends : r.ended = 0 /\ \A j \in DOMAIN queue : i < j => queue[j].kind \in {"stop", "error"}
    BY <2>2, <2>6, <2>9, EndIs
  <2>11. r.ended = 1 => \A j \in DOMAIN queue : queue[j].kind \in {"stop", "error"}
    BY <2>2, <2>6 DEF Continues
  <2>12. net[c].ended + Cardinality(ends) <= 1
    <3>1. CASE ends = {}
      <4>1. Cardinality(ends) = 0
        BY <3>1, FS_EmptySet
      <4> QED BY <2>1, <2>6, <4>1
    <3>2. CASE ends # {}
      <4>1. PICK i \in ends : TRUE
        BY <3>2
      <4>2. \A j \in ends : j = i
        <5> SUFFICES ASSUME NEW j \in ends, j # i PROVE FALSE
          OBVIOUS
        <5>1. /\ i \in DOMAIN queue /\ queue[i].kind = "end"
              /\ j \in DOMAIN queue /\ queue[j].kind = "end"
          BY <2>9, <4>1
        <5>2. i < j \/ j < i
          BY <2>7, <5>1
        <5> QED BY <2>10, <4>1, <5>1, <5>2
      <4>3. ends = {i}
        BY <4>1, <4>2
      <4>4. Cardinality(ends) = 1
        BY <4>3, FS_Singleton
      <4>5. r.ended = 0
        BY <2>10, <4>1
      <4> QED BY <2>1, <4>4, <4>5
    <3> QED BY <3>1, <3>2
  <2>13. ASSUME net[c].ended = 1
         PROVE  {queue[j].kind : j \in {k \in DOMAIN queue : k > 0}} \subseteq {"stop", "error"}
    BY <2>1, <2>11, <2>13
  <2>14. ASSUME NEW i \in ends
         PROVE  {queue[j].kind : j \in {k \in DOMAIN queue : k > i}} \subseteq {"stop", "error"}
    <3>1. i \in Nat
      BY <2>7, <2>9
    <3>2. \A k \in DOMAIN queue : k > i => i < k
      BY <2>7, <3>1
    <3> QED BY <2>10, <2>14, <3>2
  <2> QED BY <2>3, <2>8, <2>9, <2>12, <2>13, <2>14
<1> QED BY <1>1, StreamsStaySane, PTL

\* A seat that keeps up, and whose drain was not cut short, was sent the end of
\* the match before its socket is closed.
THEOREM SeatsAreToldTheEnd == Safety => []TerminalDrained
<1>1. IInv => TerminalDrained
  <2> SUFFICES ASSUME IInv, NEW c \in SeatConns, net[c].stop = "drained", net[c].sock = "closed",
                      ~net[c].slow
               PROVE  net[c].ended = 1 \/ (crashed /\ faults > 1)
    BY DEF TerminalDrained
  <2>1. c \in Conns
    BY DEF Conns
  <2>2. Told(c, net[c])
    BY <2>1 DEF IInv, Sane
  <2> QED BY <2>2 DEF Told
<1> QED BY <1>1, StreamsStaySane, PTL

----------------------------------------------------------------------------
(* The feed of turns that the clients follow *)

\* What a connection's client has been sent is the same.
SameClient(r, R) == R.seen = r.seen /\ R.ended = r.ended

\* Queueing a frame, or dropping it, sends a client nothing.
LEMMA QueuedSends ==
  ASSUME NEW c, NEW r \in ConnRecord, NEW f \in Frames, NEW R, R = Queued(c, r, f)
  PROVE  R \in ConnRecord /\ SameClient(r, R)
<1>1. CASE r.writer = "done"
  BY <1>1 DEF Queued, SameClient
<1>2. CASE r.writer # "done" /\ Len(r.queue) < OutboxMax
  BY <1>2, QueuedIs DEF SameClient
<1>3. CASE r.writer # "done" /\ Full(r)
  BY <1>3, DroppedIs DEF SameClient
<1> QED BY <1>1, <1>2, <1>3 DEF Full

\* Stopping a writer does not either.
LEMMA StoppingSends ==
  ASSUME NEW r \in ConnRecord, NEW R, R = Stopping(r)
  PROVE  SameClient(r, R)
<1>1. CASE Len(r.queue) < OutboxMax
  <2>1. R = [r EXCEPT !.role = "stopping", !.stop = "draining",
                      !.queue = IF r.writer = "done" THEN @ ELSE Append(@, Frame("stop", 0))]
    BY <1>1 DEF Stopping
  <2> QED BY <2>1 DEF ConnRecord, SameClient
<1>2. CASE ~(Len(r.queue) < OutboxMax)
  <2>1. PICK W : W = WriterEnds(r)
    OBVIOUS
  <2>2. W \in ConnRecord /\ W.seen = r.seen /\ W.ended = r.ended
    BY <2>1, WriterEndsIs
  <2>3. R = [W EXCEPT !.role = "stopping", !.stop = "cut"]
    BY <1>2, <2>1 DEF Stopping
  <2> QED BY <2>2, <2>3 DEF ConnRecord, SameClient
<1> QED BY <1>1, <1>2

\* Nor does shedding a slow spectator.
LEMMA ShedSends ==
  ASSUME NEW r \in ConnRecord, NEW R, R = Shed(r)
  PROVE  SameClient(r, R)
<1>1. CASE r.slow
  <2>1. PICK W : W = WriterEnds(r)
    OBVIOUS
  <2>2. W \in ConnRecord /\ W.seen = r.seen /\ W.ended = r.ended
    BY <2>1, WriterEndsIs
  <2>3. R = [W EXCEPT !.role = "gone", !.closing = TRUE]
    BY <1>1, <2>1 DEF Shed
  <2> QED BY <2>2, <2>3 DEF ConnRecord, SameClient
<1>2. CASE ~r.slow
  BY <1>2 DEF Shed, SameClient
<1> QED BY <1>1, <1>2

\* Nor does the loss or the close of a socket.
LEMMA ShutSends ==
  ASSUME NEW r \in ConnRecord, NEW how \in {"lost", "kicked", "closed"}, NEW R, R = Shut(r, how)
  PROVE  R \in ConnRecord /\ SameClient(r, R)
BY DEF Shut, ConnRecord, SameClient

\* Nor does a broadcast.
LEMMA FedSends ==
  ASSUME NEW c, NEW r \in ConnRecord, NEW f \in Frames, NEW public \in BOOLEAN,
         NEW R, R = Fed(c, r, f, public)
  PROVE  SameClient(r, R)
<1>1. PICK W : W = Queued(c, r, f)
  OBVIOUS
<1>2. W \in ConnRecord /\ SameClient(r, W)
  BY <1>1, QueuedSends
<1>3. CASE r.role # "live"
  BY <1>3 DEF Fed, SameClient
<1>4. CASE r.role = "live" /\ c \in SeatConns
  BY <1>1, <1>2, <1>4 DEF Fed
<1>5. CASE r.role = "live" /\ c \notin SeatConns
  <2>1. PICK S : S = FeedSpectator(c, r, f, public)
    OBVIOUS
  <2>2. S \in ConnRecord /\ SameClient(r, S)
    <3>1. CASE ~public
      <4>1. S = [r EXCEPT !.slow = TRUE]
        BY <2>1, <3>1 DEF FeedSpectator
      <4> QED BY ONLY <4>1, r \in ConnRecord DEF ConnRecord, SameClient
    <3>2. CASE public /\ f.kind # "turn"
      BY <1>1, <1>2, <2>1, <3>2 DEF FeedSpectator
    <3>3. CASE public /\ f.kind = "turn" /\ f.n < r.mark
      BY <2>1, <3>3 DEF FeedSpectator, SameClient
    <3>4. CASE public /\ f.kind = "turn" /\ ~(f.n < r.mark)
      <4>1. PICK m \in Nat : m = f.n + 1
        BY NoFrameIs
      <4>2. S = [W EXCEPT !.mark = m]
        BY <1>1, <2>1, <3>4, <4>1 DEF FeedSpectator
      <4>3. S \in ConnRecord /\ S.seen = W.seen /\ S.ended = W.ended
        BY ONLY <1>2, <4>1, <4>2 DEF ConnRecord
      <4> QED BY <1>2, <4>3 DEF SameClient
    <3> QED BY <3>1, <3>2, <3>3, <3>4
  <2>3. R = Shed(S)
    BY <1>5, <2>1 DEF Fed
  <2> QED BY <2>2, <2>3, ShedSends DEF SameClient
<1> QED BY <1>3, <1>4, <1>5

\* No client is sent anything.
NoneSent == \A c \in Conns : SameClient(net[c], net'[c])

\* One connection changes, and its client is sent nothing.
LEMMA OneClient ==
  ASSUME IInv, NEW c \in Conns, NEW R, SameClient(net[c], R), net' = [net EXCEPT ![c] = R]
  PROVE  NoneSent
<1> SUFFICES ASSUME NEW d \in Conns PROVE SameClient(net[d], net'[d])
  BY DEF NoneSent
<1>1. net'[d] = IF d = c THEN R ELSE net[d]
  BY DEF IInv
<1> QED BY <1>1 DEF SameClient

\* A connection step but a send.
LEMMA ConnSends ==
  ASSUME IInv, NEW c \in Conns,
         Take(c) \/ SendFails(c) \/ CloseSlow(c) \/ Drop(c) \/ StopReturns(c)
  PROVE  NoneSent
<1>1. PICK r : r = net[c]
  OBVIOUS
<1>2. r \in ConnRecord
  BY <1>1 DEF IInv
<1>3. CASE Take(c)
  <2>1. PICK f : f = Head(r.queue)
    OBVIOUS
  <2>2. PICK q : q = Tail(r.queue)
    OBVIOUS
  <2>3. PICK rest : rest = [r EXCEPT !.queue = q]
    OBVIOUS
  <2>4. f \in Frames /\ q \in Seq(Frames)
    <3>1. r.queue \in Seq(Frames) /\ r.queue # <<>>
      BY <1>1, <1>2, <1>3 DEF Take, ConnRecord
    <3> QED BY <2>1, <2>2, <3>1, TailIs
  <2>5. rest \in ConnRecord /\ SameClient(r, rest)
    BY <1>2, <2>3, <2>4 DEF ConnRecord, SameClient
  <2>6. net' = [net EXCEPT ![c] =
          CASE f.kind = "stop"  -> WriterEnds(rest)
            [] f.kind = "close" -> Shut(WriterEnds(rest), "kicked")
            [] OTHER            -> [rest EXCEPT !.hand = f]]
    BY <1>1, <1>3, <2>1, <2>2, <2>3 DEF Take
  <2>7. PICK W : W = WriterEnds(rest)
    OBVIOUS
  <2>8. W \in ConnRecord /\ SameClient(r, W)
    BY <2>5, <2>7, WriterEndsIs DEF SameClient
  <2>9. PICK R : R = IF f.kind = "stop" THEN W ELSE IF f.kind = "close" THEN Shut(W, "kicked")
                     ELSE [rest EXCEPT !.hand = f]
    OBVIOUS
  <2>10. net' = [net EXCEPT ![c] = R]
    BY <2>6, <2>7, <2>9
  <2>11. SameClient(r, R)
    <3>1. CASE f.kind = "stop"
      BY <2>8, <2>9, <3>1
    <3>2. CASE f.kind = "close"
      BY <2>8, <2>9, <3>2, ShutSends DEF SameClient
    <3>3. CASE f.kind \notin {"stop", "close"}
      <4>1. R = [rest EXCEPT !.hand = f]
        BY <2>9, <3>3
      <4>2. R.seen = rest.seen /\ R.ended = rest.ended
        BY ONLY <2>5, <4>1 DEF ConnRecord
      <4> QED BY <2>5, <4>2 DEF SameClient
    <3> QED BY <3>1, <3>2, <3>3
  <2> QED BY <1>1, <2>10, <2>11, OneClient
<1>4. CASE SendFails(c)
  <2>1. PICK R : R = WriterEnds(r)
    OBVIOUS
  <2>2. net' = [net EXCEPT ![c] = R]
    BY <1>1, <1>4, <2>1 DEF SendFails
  <2>3. SameClient(r, R)
    BY <1>2, <2>1, WriterEndsIs DEF SameClient
  <2> QED BY <1>1, <2>2, <2>3, OneClient
<1>5. CASE CloseSlow(c)
  <2>1. PICK X : X = Shut(r, "kicked")
    OBVIOUS
  <2>2. PICK R : R = [X EXCEPT !.closing = FALSE]
    OBVIOUS
  <2>3. net' = [net EXCEPT ![c] = R]
    BY <1>1, <1>5, <2>1, <2>2 DEF CloseSlow
  <2>4. X \in ConnRecord /\ SameClient(r, X)
    BY <1>2, <2>1, ShutSends
  <2>5. R.seen = X.seen /\ R.ended = X.ended
    BY ONLY <2>2, <2>4 DEF ConnRecord
  <2>6. SameClient(r, R)
    BY <2>4, <2>5 DEF SameClient
  <2> QED BY <1>1, <2>3, <2>6, OneClient
<1>6. CASE Drop(c)
  <2>1. PICK R : R = Shut(r, "lost")
    OBVIOUS
  <2>2. net' = [net EXCEPT ![c] = R]
    BY <1>1, <1>6, <2>1 DEF Drop
  <2>3. SameClient(r, R)
    BY <1>2, <2>1, ShutSends
  <2> QED BY <1>1, <2>2, <2>3, OneClient
<1>7. CASE StopReturns(c)
  <2>1. PICK W : W = WriterEnds(r)
    OBVIOUS
  <2>2. PICK X : X = Shut(W, "closed")
    OBVIOUS
  <2>3. W \in ConnRecord /\ SameClient(r, W)
    BY <1>2, <2>1, WriterEndsIs DEF SameClient
  <2>4. X \in ConnRecord /\ SameClient(W, X)
    BY <2>2, <2>3, ShutSends
  <2>5. PICK how, R : R = [X EXCEPT !.role = "gone", !.stop = how] /\ net' = [net EXCEPT ![c] = R]
    BY <1>1, <1>7, <2>1, <2>2 DEF StopReturns
  <2>6. R.seen = X.seen /\ R.ended = X.ended
    BY ONLY <2>4, <2>5 DEF ConnRecord
  <2>7. SameClient(r, R)
    BY <2>3, <2>4, <2>6 DEF SameClient
  <2> QED BY <1>1, <2>5, <2>7, OneClient
<1> QED BY <1>3, <1>4, <1>5, <1>6, <1>7

\* What the driver does with its connections.
LEMMA DriverSends ==
  ASSUME IInv,
         \/ \E public \in BOOLEAN : BroadcastFrame(public)
         \/ BroadcastRaises \/ Start \/ Commit \/ Abort \/ Tell \/ Exit
         \/ \E s \in Seats : Note(s) \/ QueueClose(s) \/ StopSeat(s)
  PROVE  NoneSent
<1>1. ASSUME NEW public \in BOOLEAN, BroadcastFrame(public) PROVE NoneSent
  <2> SUFFICES ASSUME NEW c \in Conns PROVE SameClient(net[c], net'[c])
    BY DEF NoneSent
  <2>1. PICK f : f = Head(todo)
    OBVIOUS
  <2>2. f \in Frames
    BY <1>1, <2>1, TailIs DEF BroadcastFrame, IInv, DriverInv
  <2>3. net'[c] = Fed(c, net[c], f, public)
    BY <1>1, <2>1 DEF BroadcastFrame
  <2> QED BY <2>2, <2>3, FedSends DEF IInv
<1>2. CASE BroadcastRaises \/ Commit \/ Abort \/ Tell \/ Exit
  BY <1>2 DEF BroadcastRaises, Commit, Abort, Tell, Exit, NoneSent, SameClient
<1>3. CASE Start
  <2> SUFFICES ASSUME NEW c \in Conns PROVE SameClient(net[c], net'[c])
    BY DEF NoneSent
  <2>1. PICK r : r = net[c]
    OBVIOUS
  <2>2. r \in ConnRecord
    BY <2>1 DEF IInv
  <2>3. PICK w : w = IF r.writer = "off" THEN "on" ELSE r.writer
    OBVIOUS
  <2>4. net'[c] = IF r.role # "parked" THEN r
                  ELSE [r EXCEPT !.role = "live", !.writer = IF @ = "off" THEN "on" ELSE @]
    BY <1>3, <2>1 DEF Start
  <2>5. PICK R : R = [r EXCEPT !.role = "live", !.writer = w]
    OBVIOUS
  <2>6. net'[c] = r \/ net'[c] = R
    BY <2>2, <2>3, <2>4, <2>5 DEF ConnRecord
  <2>7. R.seen = r.seen /\ R.ended = r.ended
    BY ONLY <2>2, <2>5 DEF ConnRecord
  <2> QED BY <2>1, <2>6, <2>7 DEF SameClient
<1>4. ASSUME NEW s \in Seats, Note(s) \/ QueueClose(s) \/ StopSeat(s) PROVE NoneSent
  <2>1. PICK c : c = SeatConn(s)
    OBVIOUS
  <2>2. c \in Conns
    BY <2>1, SeatConnIs DEF IInv
  <2>3. PICK r : r = net[c]
    OBVIOUS
  <2>4. r \in ConnRecord
    BY <2>2, <2>3 DEF IInv
  <2>5. CASE Note(s)
    <3>1. PICK f : f = Frame("note", turns)
      OBVIOUS
    <3>2. f \in Frames
      BY <3>1, FrameIs DEF IInv, DriverInv
    <3>3. PICK R : R = Queued(c, r, f)
      OBVIOUS
    <3>4. net' = [net EXCEPT ![c] = R]
      BY <2>1, <2>3, <2>5, <3>1, <3>3 DEF Note
    <3>5. SameClient(r, R)
      BY <2>4, <3>2, <3>3, QueuedSends
    <3> QED BY <2>2, <2>3, <3>4, <3>5, OneClient
  <2>6. CASE QueueClose(s)
    <3>1. PICK R : R = CloseQueued(r)
      OBVIOUS
    <3>2. net' = [net EXCEPT ![c] = CloseQueued(net[c])]
      BY <2>1, <2>6 DEF QueueClose
    <3>3. SameClient(r, R)
      BY <2>4, <3>1 DEF CloseQueued, ConnRecord, SameClient
    <3> QED BY <2>2, <2>3, <3>1, <3>2, <3>3, OneClient
  <2>7. CASE StopSeat(s)
    <3>1. PICK R : R = Stopping(r)
      OBVIOUS
    <3>2. net' = [net EXCEPT ![c] = R]
      BY <2>1, <2>3, <2>7, <3>1 DEF StopSeat
    <3>3. SameClient(r, R)
      BY <2>4, <3>1, StoppingSends
    <3> QED BY <2>2, <2>3, <3>2, <3>3, OneClient
  <2> QED BY <1>4, <2>5, <2>6, <2>7
<1> QED BY <1>1, <1>2, <1>3, <1>4

\* What the handlers do: a new connection's client has been sent nothing yet.
LEMMA HandlerSends ==
  ASSUME IInv,
         \/ OtherAttaches
         \/ \E s \in Seats : Resume(s)
         \/ \E p \in Spectators : Handlers(p)
  PROVE  NoneSent
<1>1. CASE OtherAttaches
  BY <1>1 DEF OtherAttaches, NoneSent, SameClient
<1>2. ASSUME NEW c \in Conns, net[c].role = "new" PROVE net[c].seen = -1 /\ net[c].ended = 0
  BY <1>2 DEF IInv, Sane, Placed
<1>3. turns \in Nat /\ cache.carries \in Nat
  BY DEF IInv, DriverInv
<1>4. ASSUME NEW s \in Seats, Resume(s) PROVE NoneSent
  <2> SUFFICES ASSUME NEW c \in Conns PROVE SameClient(net[c], net'[c])
    BY DEF NoneSent
  <2>1. PICK old : old = SeatConn(s)
    OBVIOUS
  <2>2. PICK new : new = <<s, cur[s] + 1>>
    OBVIOUS
  <2>3. PICK W : W = WriterEnds(net[old])
    OBVIOUS
  <2>4. PICK X : X = Shut(W, "closed")
    OBVIOUS
  <2>5. PICK O : O = [X EXCEPT !.role = "gone"]
    OBVIOUS
  <2>6. PICK g : g = Greeted(turns)
    OBVIOUS
  <2>7. PICK N : N = [g EXCEPT !.role = "live", !.queue = Append(@, Frame("state", turns))]
    OBVIOUS
  <2>8. net' = [net EXCEPT ![old] = O, ![new] = N]
    BY <1>4, <2>1, <2>2, <2>3, <2>4, <2>5, <2>6, <2>7 DEF Resume
  <2>9. net'[c] = IF c = new THEN N ELSE IF c = old THEN O ELSE net[c]
    BY <2>8 DEF IInv
  <2>10. CASE c = new
    <3>1. g \in ConnRecord /\ g.seen = -1 /\ g.ended = 0
      BY <1>3, <2>6, GreetedIs
    <3>2. N.seen = g.seen /\ N.ended = g.ended
      BY ONLY <2>7, <3>1 DEF ConnRecord
    <3>3. net[c].seen = -1 /\ net[c].ended = 0
      BY <1>2, <1>4, <2>2, <2>10 DEF Resume
    <3> QED BY <2>9, <2>10, <3>1, <3>2, <3>3 DEF SameClient
  <2>11. CASE c = old /\ c # new
    <3>1. net[old] \in ConnRecord
      BY <2>11 DEF IInv
    <3>2. W \in ConnRecord /\ SameClient(net[old], W)
      BY <2>3, <3>1, WriterEndsIs DEF SameClient
    <3>3. X \in ConnRecord /\ SameClient(W, X)
      BY <2>4, <3>2, ShutSends
    <3>4. O.seen = X.seen /\ O.ended = X.ended
      BY ONLY <2>5, <3>3 DEF ConnRecord
    <3> QED BY <2>9, <2>11, <3>2, <3>3, <3>4 DEF SameClient
  <2>12. CASE c # old /\ c # new
    BY <2>9, <2>12 DEF SameClient
  <2> QED BY <2>10, <2>11, <2>12
<1>5. ASSUME NEW p \in Spectators, Attach(p) PROVE NoneSent
  <2>1. p \in Conns /\ net[p].seen = -1 /\ net[p].ended = 0
    BY <1>2, <1>5 DEF Attach, Conns
  <2>2. PICK carries \in {turns, cache.carries} :
          LET r == [Greeted(carries) EXCEPT !.mark = turns]
          IN  net' = [net EXCEPT ![p] =
                 IF Over THEN Stopping(r)
                 ELSE [r EXCEPT !.role = IF phase = "idle" THEN "parked" ELSE "live"]]
    BY <1>5 DEF Attach
  <2>3. PICK g : g = Greeted(carries)
    OBVIOUS
  <2>4. g \in ConnRecord /\ g.seen = -1 /\ g.ended = 0
    BY <1>3, <2>3, GreetedIs
  <2>5. PICK r : r = [g EXCEPT !.mark = turns]
    OBVIOUS
  <2>6. r \in ConnRecord /\ r.seen = g.seen /\ r.ended = g.ended
    BY ONLY <1>3, <2>4, <2>5 DEF ConnRecord
  <2>7. PICK role : role = IF phase = "idle" THEN "parked" ELSE "live"
    OBVIOUS
  <2>8. PICK S : S = Stopping(r)
    OBVIOUS
  <2>9. PICK L : L = [r EXCEPT !.role = role]
    OBVIOUS
  <2>10. net' = [net EXCEPT ![p] = IF Over THEN S ELSE L]
    BY <2>2, <2>3, <2>5, <2>7, <2>8, <2>9
  <2>11. SameClient(r, S)
    BY <2>6, <2>8, StoppingSends
  <2>12. L.seen = r.seen /\ L.ended = r.ended
    BY ONLY <2>6, <2>9 DEF ConnRecord
  <2>13. SameClient(net[p], S) /\ SameClient(net[p], L)
    BY <2>1, <2>4, <2>6, <2>11, <2>12 DEF SameClient
  <2> QED BY <2>1, <2>10, <2>13, OneClient
<1>6. ASSUME NEW p \in Spectators, SpectatorGone(p) \/ SpectatorDone(p) PROVE NoneSent
  <2>1. PICK S : S = Stopping(net[p])
    OBVIOUS
  <2>2. net' = [net EXCEPT ![p] = S]
    BY <1>6, <2>1 DEF SpectatorGone, SpectatorDone, Leave
  <2>3. p \in Conns /\ SameClient(net[p], S)
    BY <2>1, StoppingSends DEF IInv, Conns
  <2> QED BY <2>2, <2>3, OneClient
<1>7. ASSUME NEW p \in Spectators, Misbehave(p) PROVE NoneSent
  <2>1. PICK Q : Q = Queued(p, net[p], Frame("error", 0))
    OBVIOUS
  <2>2. PICK S : S = Stopping(Q)
    OBVIOUS
  <2>3. net' = [net EXCEPT ![p] = S]
    BY <1>7, <2>1, <2>2 DEF Misbehave, Leave
  <2>4. p \in Conns /\ net[p] \in ConnRecord
    BY DEF IInv, Conns
  <2>5. Frame("error", 0) \in Frames
    BY FrameIs
  <2>6. Q \in ConnRecord /\ SameClient(net[p], Q)
    BY <2>1, <2>4, <2>5, QueuedSends
  <2>7. SameClient(Q, S)
    BY <2>2, <2>6, StoppingSends
  <2>8. SameClient(net[p], S)
    BY <2>6, <2>7 DEF SameClient
  <2> QED BY <2>3, <2>4, <2>8, OneClient
<1> QED BY <1>1, <1>4, <1>5, <1>6, <1>7 DEF Handlers

\* A frame is sent: its client is greeted, follows by one turn, or is finished.
LEMMA SentFeeds ==
  ASSUME IInv, NEW c \in Conns, Sent(c)
  PROVE  Feed!Next \/ UNCHANGED Feed!vars
<1>1. PICK r : r = net[c]
  OBVIOUS
<1>2. /\ Sane(c, r) /\ r \in ConnRecord /\ r.hand # NoFrame /\ r.sock = "open"
      /\ UNCHANGED <<turns, lifecycle>> /\ turns \in Nat
  BY <1>1 DEF IInv, DriverInv, Sane, Sent, driver
<1>3. PICK h : h = r.hand
  OBVIOUS
<1>4. h \in Frames /\ h.n \in Nat /\ h # NoFrame
  BY <1>2, <1>3, NoFrameIs DEF ConnRecord
<1>5. /\ Pend(r) \in Seq(Frames) /\ Len(Pend(r)) = Len(r.queue) + 1 /\ Pend(r)[1] = h
  BY <1>2, <1>3, PendIs DEF ConnRecord
<1>6. Pend(r) # <<>> /\ 1 \in DOMAIN Pend(r)
  <2> DEFINE P == Pend(r)
  <2>1. P \in Seq(Frames) /\ Len(P) = Len(r.queue) + 1 /\ Len(r.queue) \in Nat
    BY <1>2, <1>5 DEF ConnRecord
  <2> HIDE DEF P
  <2>2. P # <<>> /\ 1 \in DOMAIN P
    BY <2>1
  <2> QED BY <2>2 DEF P
<1>7. Continues(r, 1)
  BY <1>2, <1>6 DEF Sane, Streams
<1>8. PICK R : R = Delivered(r)
  OBVIOUS
<1>9. R \in ConnRecord
  BY <1>2, <1>8, SentIs DEF Sent, Quiet, Sane
<1>10. PICK N : net' = [net EXCEPT ![c] = N] /\ N.seen = R.seen /\ N.ended = R.ended
  <2>1. PICK backlog \in BOOLEAN :
          net' = [net EXCEPT ![c] = IF backlog THEN Overflowed(c, R) ELSE R]
    BY <1>1, <1>8 DEF Sent, Delivered
  <2>2. PICK O : O = Overflowed(c, R)
    OBVIOUS
  <2>3. O.seen = R.seen /\ O.ended = R.ended
    BY ONLY <1>9, <2>2 DEF Overflowed, ConnRecord
  <2> QED BY <2>1, <2>2, <2>3
<1>11. \A d \in Conns : d # c => net'[d] = net[d]
  BY <1>10 DEF IInv
<1>12. net'[c].seen = R.seen /\ net'[c].ended = R.ended
  BY <1>10 DEF IInv
<1>13. r.ended \in {0, 1} /\ (r.ended = 1 => h.kind \in {"stop", "error"})
  BY <1>2, <1>5, <1>7 DEF Sane, Streams, Continues
<1>14. (Over' <=> Over) /\ turns' = turns
  BY <1>2 DEF Over
<1>15. ASSUME h.kind \in {"welcome", "turn"}
       PROVE  c \notin {d \in Conns : net[d].ended > 0}
  BY <1>1, <1>13, <1>15
<1>16. ASSUME R.ended = r.ended
       PROVE  {d \in Conns : net'[d].ended > 0} = {d \in Conns : net[d].ended > 0}
  BY <1>1, <1>11, <1>12, <1>16
<1>17. [d \in Conns |-> net'[d].seen] = [[d \in Conns |-> net[d].seen] EXCEPT ![c] = R.seen]
  BY <1>11, <1>12
<1>18. CASE h.kind = "welcome"
  <2>1. R.seen = h.n /\ R.ended = r.ended
    BY <1>2, <1>3, <1>4, <1>8, <1>18 DEF Delivered, Read, ConnRecord
  <2>2. r.seen = -1 /\ h.n \in 0 .. turns
    BY <1>2, <1>4, <1>5, <1>7, <1>18 DEF Continues
  <2>4. [d \in Conns |-> net[d].seen][c] = -1
    BY <1>1, <2>2
  <2>5. [d \in Conns |-> net'[d].seen] = [[d \in Conns |-> net[d].seen] EXCEPT ![c] = h.n]
    BY <1>17, <2>1
  <2>6. /\ c \notin {d \in Conns : net[d].ended > 0}
        /\ {d \in Conns : net'[d].ended > 0} = {d \in Conns : net[d].ended > 0}
    BY <1>15, <1>16, <1>18, <2>1
  <2>7. Over' = Over /\ turns' = turns
    BY <1>2 DEF Over
  <2>3. Feed!Greet(c)
    BY ONLY <2>2, <2>4, <2>5, <2>6, <2>7 DEF Feed!Greet, Feed!NotYet
  <2> QED BY <2>3 DEF Feed!Next
<1>19. CASE h.kind = "turn"
  <2>1. R.seen = h.n + 1 /\ R.ended = r.ended
    BY <1>2, <1>3, <1>4, <1>8, <1>19 DEF Delivered, Read, ConnRecord
  <2>2. h.n < turns /\ h.n = r.seen
    BY <1>2, <1>5, <1>7, <1>19, AtFirst DEF Continues
  <2>3. r.seen # -1 /\ r.seen < turns /\ R.seen = r.seen + 1
    BY <1>4, <2>1, <2>2
  <2>5. [d \in Conns |-> net[d].seen][c] = r.seen
    BY <1>1
  <2>6. [d \in Conns |-> net'[d].seen] =
          [[d \in Conns |-> net[d].seen] EXCEPT ![c] = [d \in Conns |-> net[d].seen][c] + 1]
    BY <1>17, <2>3, <2>5
  <2>7. /\ c \notin {d \in Conns : net[d].ended > 0}
        /\ {d \in Conns : net'[d].ended > 0} = {d \in Conns : net[d].ended > 0}
    BY <1>15, <1>16, <1>19, <2>1
  <2>8. Over' = Over /\ turns' = turns
    BY <1>2 DEF Over
  <2>4. Feed!Follow(c)
    BY ONLY <2>3, <2>5, <2>6, <2>7, <2>8 DEF Feed!Follow, Feed!NotYet
  <2> QED BY <2>4 DEF Feed!Next
<1>20. CASE h.kind = "end"
  <2>1. R.seen = h.n /\ R.ended = r.ended + 1
    BY <1>2, <1>3, <1>4, <1>8, <1>20 DEF Delivered, Read, ConnRecord
  <2>2. h.n = turns /\ r.ended = 0
    BY <1>5, <1>6, <1>7, <1>20, EndIs
  <2>3. Over
    <3>1. Closing
      BY <1>2, <1>5, <1>6, <1>20 DEF Sane, Streams
    <3> QED BY <3>1 DEF IInv, DriverInv
  <2>4. r.seen # -1
    BY <1>2, <1>5, <1>6, <1>20 DEF Sane, Streams
  <2>5. {d \in Conns : net'[d].ended > 0} = {d \in Conns : net[d].ended > 0} \cup {c}
    <3>1. net'[c].ended > 0
      BY <1>12, <2>1, <2>2
    <3> QED BY <1>11, <3>1
  <2>6. c \notin {d \in Conns : net[d].ended > 0}
    BY <1>1, <2>2
  <2>7. Feed!Finish(c)
    BY <1>1, <1>14, <1>17, <2>1, <2>2, <2>3, <2>4, <2>5, <2>6 DEF Feed!Finish, Feed!NotYet, Over
  <2> QED BY <2>7 DEF Feed!Next
<1>21. CASE h.kind \notin {"welcome", "turn", "end"}
  <2>1. R.seen = r.seen /\ R.ended = r.ended
    BY <1>2, <1>3, <1>4, <1>8, <1>21 DEF Delivered, Read, ConnRecord
  <2>2. [d \in Conns |-> net'[d].seen] = [d \in Conns |-> net[d].seen]
    BY <1>1, <1>11, <1>12, <2>1
  <2> QED BY <1>14, <1>16, <2>1, <2>2 DEF Feed!vars, Over
<1> QED BY <1>18, <1>19, <1>20, <1>21

\* No client is sent anything, and the driver goes on or stays.
LEMMA NoneFeeds ==
  ASSUME NoneSent
  PROVE  /\ UNCHANGED <<turns, lifecycle>> => UNCHANGED Feed!vars
         /\ ~Over /\ turns' \in Nat /\ turns' >= turns => Feed!Next
<1>1. [c \in Conns |-> net'[c].seen] = [c \in Conns |-> net[c].seen]
  BY DEF NoneSent, SameClient
<1>2. {c \in Conns : net'[c].ended > 0} = {c \in Conns : net[c].ended > 0}
  BY DEF NoneSent, SameClient
<1>3. UNCHANGED <<turns, lifecycle>> => UNCHANGED Feed!vars
  BY <1>1, <1>2 DEF Feed!vars, Over
<1>4. ASSUME ~Over, turns' \in Nat, turns' >= turns PROVE Feed!Grow
  <2>1. Over' \in BOOLEAN
    BY DEF Over
  <2> QED BY <1>1, <1>2, <1>4, <2>1 DEF Feed!Grow
<1> QED BY <1>3, <1>4 DEF Feed!Next

\* Every step is a step of the feed, or changes nothing the feed speaks of.
LEMMA NextFeeds == IInv /\ [Next]_vars => [Feed!Next]_(Feed!vars)
<1> SUFFICES ASSUME IInv, [Next]_vars PROVE Feed!Next \/ UNCHANGED Feed!vars
  OBVIOUS
<1>1. CASE Start
  <2>1. NoneSent
    BY <1>1, DriverSends
  <2>2. ~Over /\ turns = 0
    BY <1>1 DEF Start, IInv, DriverInv, Over
  <2>3. turns' \in Nat
    <3>1. MaxChance \in Nat
      BY BroadcastAssumption DEF BroadcastAssumption
    <3>2. turns' \in 0 .. MaxChance \/ turns' = turns
      BY <1>1 DEF Start
    <3> QED BY <2>2, <3>1, <3>2
  <2>4. turns' >= turns
    BY <2>2, <2>3
  <2> QED BY <2>1, <2>2, <2>3, <2>4, NoneFeeds
<1>2. CASE Commit
  <2>1. NoneSent
    BY <1>2, DriverSends
  <2>2. ~Over /\ turns \in Nat
    BY <1>2 DEF Commit, IInv, DriverInv, Over
  <2>3. PICK more \in 1 .. MaxChance + 1 : turns' = turns + more
    BY <1>2 DEF Commit
  <2>4. more \in Nat
    BY BroadcastAssumption DEF BroadcastAssumption
  <2>5. turns' \in Nat /\ turns' >= turns
    BY <2>2, <2>3, <2>4
  <2> QED BY <2>1, <2>2, <2>5, NoneFeeds
<1>3. CASE Abort
  <2>1. NoneSent
    BY <1>3, DriverSends
  <2>2. ~Over /\ turns \in Nat /\ turns' = turns
    BY <1>3 DEF Abort, IInv, DriverInv, Over
  <2>3. turns' \in Nat /\ turns' >= turns
    BY <2>2
  <2> QED BY <2>1, <2>2, <2>3, NoneFeeds
<1>4. CASE \/ \E public \in BOOLEAN : BroadcastFrame(public)
           \/ BroadcastRaises \/ Tell \/ Exit
           \/ \E s \in Seats : Note(s) \/ QueueClose(s) \/ StopSeat(s)
  <2>1. NoneSent
    BY <1>4, DriverSends
  <2>2. UNCHANGED <<turns, lifecycle>>
    BY <1>4 DEF BroadcastFrame, BroadcastRaises, Tell, Exit, Note, QueueClose, StopSeat, driver
  <2> QED BY <2>1, <2>2, NoneFeeds
<1>5. CASE \/ OtherAttaches \/ \E s \in Seats : Resume(s)
           \/ \E p \in Spectators : Handlers(p)
  <2>1. NoneSent
    BY <1>5, HandlerSends
  <2>2. UNCHANGED <<turns, lifecycle>>
    BY <1>5 DEF OtherAttaches, Resume, Handlers, Attach, SpectatorGone, Misbehave,
                SpectatorDone, Leave, driver
  <2> QED BY <2>1, <2>2, NoneFeeds
<1>6. ASSUME NEW c \in Conns, Take(c) \/ SendFails(c) \/ CloseSlow(c) \/ Drop(c) \/ StopReturns(c)
      PROVE  Feed!Next \/ UNCHANGED Feed!vars
  <2>1. NoneSent
    BY <1>6, ConnSends
  <2>2. UNCHANGED <<turns, lifecycle>>
    BY <1>6 DEF Take, SendFails, CloseSlow, Drop, StopReturns, driver
  <2> QED BY <2>1, <2>2, NoneFeeds
<1>7. ASSUME NEW c \in Conns, Sent(c) PROVE Feed!Next \/ UNCHANGED Feed!vars
  BY <1>7, SentFeeds
<1>8. CASE UNCHANGED vars
  BY <1>8 DEF vars, driver, Feed!vars, Over
<1> QED BY <1>1, <1>2, <1>3, <1>4, <1>5, <1>6, <1>7, <1>8 DEF Next, ConnSteps

\* Every client follows the match as TurnFeed says: its history first, then no
\* turn twice and none skipped, and the last frame leaves it with every turn.
THEOREM ClientsFollowTheFeed == Safety => ImplementsFeed
<1>1. Init => Feed!Init
  <2> SUFFICES ASSUME Init PROVE Feed!Init
    OBVIOUS
  <2>1. IInv /\ phase = "idle" /\ turns = 0 /\ lifecycle = "created"
    BY InitIs DEF Init
  <2>2. ASSUME NEW c \in Conns PROVE net[c].seen \in {-1, 0} /\ ~(net[c].ended > 0)
    <3>1. PICK cast : net = InitialNet(cast)
      BY DEF Init
    <3>2. /\ Unused.seen = -1 /\ Unused.ended = 0
          /\ [Unused EXCEPT !.role = "absent"].seen = -1
          /\ [Unused EXCEPT !.role = "absent"].ended = 0
      BY DEF Unused
    <3>3. [Accepted EXCEPT !.seen = 0].seen = 0 /\ [Accepted EXCEPT !.seen = 0].ended = 0
      BY DEF Accepted, Unused
    <3> QED BY <3>1, <3>2, <3>3 DEF InitialNet
  <2>3. {c \in Conns : net[c].ended > 0} = {}
    BY <2>2
  <2>4. [c \in Conns |-> net[c].seen] \in [Conns -> {-1, 0}]
    BY <2>2
  <2>5. Over = FALSE
    BY <2>1 DEF Over
  <2> QED BY <2>1, <2>3, <2>4, <2>5 DEF Feed!Init, Feed!NotYet
<1>2. IInv /\ [Next]_vars => [Feed!Next]_(Feed!vars)
  BY NextFeeds
<1> QED BY <1>1, <1>2, StreamsStaySane, PTL DEF Safety, ImplementsFeed, Feed!Spec

=============================================================================
