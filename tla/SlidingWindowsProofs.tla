-------------------------- MODULE SlidingWindowsProofs --------------------------
(***************************************************************************)
(* What the windows of rate_limits.py forget does not matter, for every    *)
(* cap, span and time.                                                     *)
(*                                                                         *)
(* A window is compared with the sequence of everything it ever granted:   *)
(* it is the tail of that, and what it has lost is a span old.  A slot in  *)
(* the future is exactly a span after the one cap places before it: so     *)
(* while one waits the window holds at least cap slots, and a free slot is *)
(* given only when none waits.                                             *)
(***************************************************************************)
EXTENDS SlidingWindows, WellFoundedInduction, NaturalsInduction, TLAPS

InOrder(g) == \A i, j \in 1..Len(g) : i <= j => g[i] <= g[j]

\* w is the tail of g, and what it has lost of g is no later than t.
IsTailFrom(w, g, t) ==
  /\ Len(w) <= Len(g)
  /\ \A i \in 1..Len(w) : w[i] = g[Len(g) - Len(w) + i]
  /\ \A i \in 1..(Len(g) - Len(w)) : g[i] <= t

\* A slot to wait for, at time t, follows the one cap places before it by a span.
Waiting(g, t, span, cap) ==
  \A i \in 1..Len(g) : g[i] > t => i > cap /\ g[i] = g[i - cap] + span

----------------------------------------------------------------------------
(* Windows and the sequences they are tails of *)

\* A set of natural numbers that is not empty has a least one.
LEMMA Least ==
  ASSUME NEW T, T \subseteq Nat, T # {}
  PROVE  \E x \in T : \A y \in T : x <= y
<1> DEFINE R == OpToRel(<, Nat)
<1>1. R = {ss \in Nat \X Nat : ss[1] < ss[2]}
  BY DEF OpToRel
<1>2. IsWellFoundedOn(R, Nat)
  BY NatLessThanWellFounded
<1> HIDE DEF R
<1>3. PICK x \in T : \A y \in T : ~(<<y, x>> \in R)
  BY <1>2, WFMin
<1>4. ASSUME NEW y \in T, y < x PROVE FALSE
  <2>1. <<y, x>> \in Nat \X Nat /\ <<y, x>>[1] < <<y, x>>[2]
    BY <1>4
  <2> QED BY <2>1, <1>1, <1>3
<1>5. \A y \in T : x <= y
  BY <1>4
<1> QED BY <1>5

\* _prune stops at the first time still in the span.
LEMMA StaleIsAPrefix ==
  ASSUME NEW w \in Seq(Int), NEW t \in Int, NEW span \in Int
  PROVE  /\ Stale(w, t, span) \in 0..Len(w)
         /\ \A i \in 1..Stale(w, t, span) : w[i] <= t - span
         /\ \/ Stale(w, t, span) = Len(w)
            \/ w[Stale(w, t, span) + 1] > t - span
<1> DEFINE T == {k \in 0..Len(w) : k = Len(w) \/ w[k + 1] > t - span}
<1>1. T \subseteq Nat /\ Len(w) \in T
  OBVIOUS
<1>2. PICK k \in T : \A j \in T : k <= j
  <2> HIDE DEF T
  <2> QED BY <1>1, Least
<1>3. \A i \in 1..k : w[i] <= t - span
  <2> SUFFICES ASSUME NEW i \in 1..k, ~(w[i] <= t - span) PROVE FALSE
    OBVIOUS
  <2>1. i - 1 \in T /\ i - 1 < k /\ k \in Nat
    OBVIOUS
  <2>2. k <= i - 1
    <3> HIDE DEF T
    <3> QED BY <2>1, <1>2
  <2> QED BY <2>1, <2>2
<1>4. \E j \in 0..Len(w) :
        /\ \A i \in 1..j : w[i] <= t - span
        /\ j = Len(w) \/ w[j + 1] > t - span
  BY <1>2, <1>3
<1> QED BY <1>4 DEF Stale

\* What is left of a window is its tail.
LEMMA PrunedIsATail ==
  ASSUME NEW w \in Seq(Int), NEW t \in Int, NEW span \in Int
  PROVE  /\ Pruned(w, t, span) \in Seq(Int)
         /\ IsTailFrom(Pruned(w, t, span), w, t - span)
<1> DEFINE s == Stale(w, t, span)
<1>1. s \in 0..Len(w) /\ (\A i \in 1..s : w[i] <= t - span)
        /\ (s = Len(w) \/ w[s + 1] > t - span)
  BY StaleIsAPrefix
<1> HIDE DEF s
<1>2. Pruned(w, t, span) = SubSeq(w, s + 1, Len(w))
  BY DEF Pruned, s
<1>3. /\ SubSeq(w, s + 1, Len(w)) \in Seq(Int)
      /\ Len(SubSeq(w, s + 1, Len(w))) = Len(w) - s
      /\ \A i \in 1..(Len(w) - s) : SubSeq(w, s + 1, Len(w))[i] = w[s + i]
  BY <1>1
<1>4. Len(w) \in Nat /\ Len(w) - (Len(w) - s) = s /\ Len(w) - s \in 0..Len(w)
  BY <1>1
<1>5. PICK p \in Seq(Int) : p = Pruned(w, t, span) /\ p = SubSeq(w, s + 1, Len(w))
  BY <1>2, <1>3
<1>6. Len(p) = Len(w) - s /\ Len(p) <= Len(w) /\ Len(w) - Len(p) = s
  BY <1>1, <1>3, <1>5
<1>7. /\ \A i \in 1..Len(p) : p[i] = w[Len(w) - Len(p) + i]
      /\ \A i \in 1..(Len(w) - Len(p)) : w[i] <= t - span
  BY <1>1, <1>3, <1>5, <1>6
<1>8. IsTailFrom(p, w, t - span)
  BY ONLY <1>6, <1>7 DEF IsTailFrom
<1> QED BY ONLY <1>5, <1>8

\* The tail of a tail is a tail.
LEMMA TailOfATail ==
  ASSUME NEW p \in Seq(Int), NEW w \in Seq(Int), NEW g \in Seq(Int), NEW t \in Int,
         IsTailFrom(p, w, t), IsTailFrom(w, g, t)
  PROVE  IsTailFrom(p, g, t)
<1> DEFINE a == Len(p) b == Len(w) c == Len(g)
<1>1. a \in Nat /\ b \in Nat /\ c \in Nat /\ a <= b /\ b <= c
  BY DEF IsTailFrom
<1>2. /\ \A i \in 1..a : p[i] = w[b - a + i]
      /\ \A i \in 1..(b - a) : w[i] <= t
      /\ \A i \in 1..b : w[i] = g[c - b + i]
      /\ \A i \in 1..(c - b) : g[i] <= t
  BY DEF IsTailFrom
<1> HIDE DEF a, b, c
<1>3. ASSUME NEW i \in 1..a PROVE p[i] = g[c - a + i]
  <2>1. b - a + i \in 1..b /\ c - b + (b - a + i) = c - a + i
    BY <1>1
  <2> QED BY <2>1, <1>2
<1>4. ASSUME NEW i \in 1..(c - a) PROVE g[i] <= t
  <2>1. CASE i <= c - b
    BY <2>1, <1>1, <1>2
  <2>2. CASE i > c - b
    <3> DEFINE j == i - (c - b)
    <3>1. j \in 1..(b - a) /\ j \in 1..b /\ c - b + j = i
      BY <2>2, <1>1
    <3> HIDE DEF j
    <3> QED BY <3>1, <1>2
  <2> QED BY <2>1, <2>2, <1>1
<1>5. a <= c
  BY <1>1
<1> QED BY <1>3, <1>4, <1>5 DEF IsTailFrom, a, b, c

\* What a tail has lost only gets older.
LEMMA TailAges ==
  ASSUME NEW w \in Seq(Int), NEW g \in Seq(Int), NEW t \in Int, NEW u \in Int,
         t <= u, IsTailFrom(w, g, t)
  PROVE  IsTailFrom(w, g, u)
<1>1. ASSUME NEW i \in 1..(Len(g) - Len(w)) PROVE g[i] <= u
  <2>1. g[i] \in Int /\ g[i] <= t
    BY DEF IsTailFrom
  <2> QED BY <2>1
<1> QED BY <1>1 DEF IsTailFrom

\* A window none of which is later than t can be dropped whole.
LEMMA StaleIsDropped ==
  ASSUME NEW w \in Seq(Int), NEW g \in Seq(Int), NEW t \in Int,
         IsTailFrom(w, g, t), InOrder(g), w = <<>> \/ w[Len(w)] <= t
  PROVE  IsTailFrom(<<>>, g, t)
<1>1. ASSUME NEW i \in 1..Len(g) PROVE g[i] <= t
  <2>1. CASE w = <<>>
    <3>1. Len(g) - Len(w) = Len(g)
      BY <2>1
    <3> QED BY <3>1 DEF IsTailFrom
  <2>2. CASE w # <<>>
    <3>1. Len(w) \in 1..Len(w) /\ Len(w) <= Len(g) /\ Len(g) \in 1..Len(g)
      BY <2>2 DEF IsTailFrom
    <3>2. w[Len(w)] = g[Len(g)]
      <4>1. w[Len(w)] = g[Len(g) - Len(w) + Len(w)]
        BY <3>1 DEF IsTailFrom
      <4> QED BY <4>1, <3>1
    <3>3. g[i] <= g[Len(g)] /\ g[i] \in Int /\ g[Len(g)] \in Int
      BY <3>1 DEF InOrder
    <3> QED BY <3>2, <3>3, <2>2
  <2> QED BY <2>1, <2>2
<1>2. Len(<<>>) = 0 /\ Len(g) \in Nat
  OBVIOUS
<1> QED BY <1>1, <1>2 DEF IsTailFrom

\* Whatever moment is appended to a window, it is still a tail of what was granted.
LEMMA AppendedToATail ==
  ASSUME NEW w \in Seq(Int), NEW g \in Seq(Int), NEW t \in Int, NEW x \in Int,
         IsTailFrom(w, g, t)
  PROVE  IsTailFrom(Append(w, x), Append(g, x), t)
<1> DEFINE n == Len(g) a == Len(w) h == Append(g, x) v == Append(w, x)
<1>1. /\ n \in Nat /\ a \in Nat /\ a <= n
      /\ \A i \in 1..a : w[i] = g[n - a + i]
      /\ \A i \in 1..(n - a) : g[i] <= t
  BY DEF IsTailFrom
<1>2. /\ Len(h) = n + 1 /\ (\A i \in 1..n : h[i] = g[i]) /\ h[n + 1] = x
      /\ Len(v) = a + 1 /\ (\A i \in 1..a : v[i] = w[i]) /\ v[a + 1] = x
  OBVIOUS
<1> HIDE DEF n, a, h, v
<1>3. ASSUME NEW i \in 1..(a + 1) PROVE v[i] = h[(n + 1) - (a + 1) + i]
  <2>1. CASE i \in 1..a
    <3>1. n - a + i \in 1..n /\ (n + 1) - (a + 1) + i = n - a + i
      BY <2>1, <1>1
    <3> QED BY <3>1, <2>1, <1>1, <1>2
  <2>2. CASE i = a + 1
    <3>1. (n + 1) - (a + 1) + i = n + 1
      BY <2>2, <1>1
    <3> QED BY <3>1, <2>2, <1>2
  <2>3. i \in 1..a \/ i = a + 1
    BY <1>1
  <2> QED BY <2>1, <2>2, <2>3
<1>4. ASSUME NEW i \in 1..((n + 1) - (a + 1)) PROVE h[i] <= t
  <2>1. i \in 1..(n - a) /\ i \in 1..n
    BY <1>1
  <2> QED BY <2>1, <1>1, <1>2
<1>5. a + 1 <= n + 1
  BY <1>1
<1>6. IsTailFrom(v, h, t)
  BY <1>2, <1>3, <1>4, <1>5 DEF IsTailFrom
<1> QED BY <1>6 DEF v, h

\* A creation allowed while the window has room keeps the rate: the one it could
\* break it with is before the window, and a span old.
LEMMA RoomKeepsTheRate ==
  ASSUME NEW w \in Seq(Int), NEW g \in Seq(Int), NEW t \in Int,
         NEW span \in Int, NEW cap \in Nat \ {0},
         IsTailFrom(w, g, t - span), Len(w) < cap, InOrder(g),
         \A i \in 1..Len(g) : g[i] <= t, KeepsRate(g, span, cap)
  PROVE  /\ InOrder(Append(g, t)) /\ KeepsRate(Append(g, t), span, cap)
         /\ \A i \in 1..Len(Append(g, t)) : Append(g, t)[i] <= t
         /\ IsTailFrom(Append(w, t), Append(g, t), t - span)
<1> DEFINE n == Len(g) a == Len(w) h == Append(g, t) v == Append(w, t)
<1>1. /\ n \in Nat /\ a \in Nat /\ a <= n /\ a < cap
      /\ \A i \in 1..a : w[i] = g[n - a + i]
      /\ \A i \in 1..(n - a) : g[i] <= t - span
      /\ \A i \in 1..n : g[i] \in Int /\ g[i] <= t
  BY DEF IsTailFrom
<1>2. /\ Len(h) = n + 1 /\ (\A i \in 1..n : h[i] = g[i]) /\ h[n + 1] = t
      /\ Len(v) = a + 1 /\ (\A i \in 1..a : v[i] = w[i]) /\ v[a + 1] = t
  OBVIOUS
<1>3. /\ \A i, j \in 1..n : i <= j => g[i] <= g[j]
      /\ \A i \in 1..(n - cap) : g[i + cap] >= g[i] + span
  BY DEF InOrder, KeepsRate
<1> HIDE DEF n, a, h, v
<1>4. ASSUME NEW i \in 1..(n + 1) PROVE h[i] <= t
  <2>1. CASE i \in 1..n
    BY <2>1, <1>1, <1>2
  <2>2. CASE i = n + 1
    BY <2>2, <1>2
  <2> QED BY <2>1, <2>2, <1>1
<1>5. ASSUME NEW i \in 1..(n + 1), NEW j \in 1..(n + 1), i <= j PROVE h[i] <= h[j]
  <2>1. CASE j \in 1..n
    <3>1. i \in 1..n
      BY <2>1, <1>1, <1>5
    <3> QED BY <3>1, <2>1, <1>2, <1>3, <1>5
  <2>2. CASE j = n + 1
    BY <2>2, <1>4, <1>2
  <2> QED BY <2>1, <2>2, <1>1
<1>6. ASSUME NEW i \in 1..(n + 1 - cap) PROVE h[i + cap] >= h[i] + span
  <2>1. CASE i \in 1..(n - cap)
    <3>1. i \in 1..n /\ i + cap \in 1..n
      BY <2>1, <1>1
    <3> QED BY <3>1, <2>1, <1>2, <1>3
  <2>2. CASE i = n + 1 - cap
    <3>1. i \in 1..(n - a) /\ i \in 1..n /\ i + cap = n + 1
      BY <2>2, <1>1
    <3>2. g[i] \in Int /\ g[i] <= t - span /\ h[i] = g[i] /\ h[i + cap] = t
      BY <3>1, <1>1, <1>2
    <3> QED BY <3>2
  <2> QED BY <2>1, <2>2, <1>1
<1>7. InOrder(h) /\ KeepsRate(h, span, cap) /\ (\A i \in 1..Len(h) : h[i] <= t)
  <2>1. Len(h) = n + 1
    BY <1>2
  <2>2. InOrder(h)
    BY <2>1, <1>5 DEF InOrder
  <2>3. KeepsRate(h, span, cap)
    BY <2>1, <1>1, <1>6 DEF KeepsRate
  <2> QED BY <2>1, <2>2, <2>3, <1>4
<1>8. IsTailFrom(v, h, t - span)
  BY AppendedToATail DEF v, h
<1> QED BY <1>7, <1>8 DEF h, v

----------------------------------------------------------------------------
(* The slots of reserve_action *)

\* The slot reserve_action computes from the window it pruned is the first moment that
\* keeps the rate of all the slots ever given: no action is read too early, and none
\* waits for longer than the rate asks for.
THEOREM SlotIsTheEarliest ==
  ASSUME NEW w \in Seq(Int), NEW g \in Seq(Int), NEW t \in Int,
         NEW span \in Nat, NEW cap \in Nat \ {0},
         NEW slot, slot = Slot(w, t, span, cap),
         IsTailFrom(w, g, t - span), InOrder(g), Waiting(g, t, span, cap),
         KeepsRate(g, span, cap)
  PROVE  /\ slot \in Int /\ slot >= t
         /\ InOrder(Append(g, slot)) /\ Waiting(Append(g, slot), t, span, cap)
         /\ KeepsRate(Append(g, slot), span, cap)
         /\ \A s \in t..(slot - 1) : ~KeepsRate(Append(g, s), span, cap)
<1> DEFINE n == Len(g) a == Len(w) h == Append(g, slot)
<1>1. /\ n \in Nat /\ a \in Nat /\ a <= n
      /\ \A i \in 1..a : w[i] = g[n - a + i]
      /\ \A i \in 1..(n - a) : g[i] <= t - span
      /\ \A i \in 1..n : g[i] \in Int
      /\ \A i \in 1..a : w[i] \in Int
  BY DEF IsTailFrom
<1>2. /\ \A i, j \in 1..n : i <= j => g[i] <= g[j]
      /\ \A i \in 1..n : g[i] > t => i > cap /\ g[i] = g[i - cap] + span
      /\ \A i \in 1..(n - cap) : g[i + cap] >= g[i] + span
  BY DEF InOrder, Waiting, KeepsRate
<1>s. slot = IF a < cap THEN t
             ELSE IF w[a - cap + 1] + span > t THEN w[a - cap + 1] + span ELSE t
  BY DEF Slot
<1> HIDE DEF n, a
\* Where the slot stands to the slots before it.
<1>3. /\ slot \in Int /\ slot >= t
      /\ \A i \in 1..n : g[i] <= slot
      /\ n + 1 > cap => g[n + 1 - cap] + span <= slot
      /\ slot > t => n + 1 > cap /\ slot = g[n + 1 - cap] + span
  <2>1. CASE a < cap
    <3>1. slot = t
      BY <2>1, <1>s
    <3>2. ASSUME NEW i \in 1..n PROVE g[i] <= t
      <4> SUFFICES ASSUME g[i] > t PROVE FALSE
        BY <1>1
      <4>1. i > cap /\ g[i] = g[i - cap] + span
        BY <1>2
      <4>2. i - cap \in 1..(n - a) /\ i - cap \in 1..n
        BY <4>1, <2>1, <1>1
      <4>3. g[i - cap] \in Int /\ g[i - cap] <= t - span
        BY <4>2, <1>1
      <4> QED BY <4>1, <4>3, <1>1
    <3>3. ASSUME n + 1 > cap PROVE g[n + 1 - cap] + span <= t
      <4>1. n + 1 - cap \in 1..(n - a) /\ n + 1 - cap \in 1..n
        BY <3>3, <2>1, <1>1
      <4>2. g[n + 1 - cap] \in Int /\ g[n + 1 - cap] <= t - span
        BY <4>1, <1>1
      <4> QED BY <4>2
    <3> QED BY <3>1, <3>2, <3>3
  <2>2. CASE a >= cap
    <3> DEFINE before == g[n + 1 - cap]
    <3>1. /\ a - cap + 1 \in 1..a /\ n - a + (a - cap + 1) = n + 1 - cap
          /\ n + 1 - cap \in 1..n /\ n + 1 > cap
      BY <2>2, <1>1
    <3>2. w[a - cap + 1] = before /\ before \in Int
      BY <3>1, <1>1
    <3> HIDE DEF before
    <3>3. slot = IF before + span > t THEN before + span ELSE t
      BY <2>2, <3>2, <1>s, <1>1
    <3>4. /\ slot \in Int /\ slot >= before + span /\ slot >= t
          /\ slot > t => slot = before + span
      BY <3>2, <3>3
    <3>5. ASSUME NEW i \in 1..n PROVE g[i] <= slot
      <4>1. CASE g[i] <= t
        BY <4>1, <3>4, <1>1
      <4>2. CASE g[i] > t
        <5>1. i > cap /\ g[i] = g[i - cap] + span
          BY <4>2, <1>2
        <5>2. i - cap \in 1..n /\ i - cap <= n + 1 - cap
          BY <5>1, <1>1
        <5>3. g[i - cap] <= before /\ g[i - cap] \in Int
          BY <5>2, <3>1, <1>1, <1>2 DEF before
        <5> QED BY <5>1, <5>3, <3>2, <3>4
      <4> QED BY <4>1, <4>2, <1>1
    <3> QED BY <3>1, <3>4, <3>5 DEF before
  <2> QED BY <2>1, <2>2, <1>1
<1> HIDE DEF h
<1>4. /\ Len(h) = n + 1 /\ h[n + 1] = slot
      /\ \A i \in 1..n : h[i] = g[i]
  BY <1>3 DEF h, n
<1>5. InOrder(h)
  <2> SUFFICES ASSUME NEW i \in 1..(n + 1), NEW j \in 1..(n + 1), i <= j
               PROVE  h[i] <= h[j]
    BY <1>4 DEF InOrder
  <2>1. CASE j \in 1..n
    <3>1. i \in 1..n
      BY <2>1, <1>1
    <3> QED BY <3>1, <2>1, <1>2, <1>4
  <2>2. CASE j = n + 1
    <3>1. h[j] = slot /\ (i = n + 1 \/ (i \in 1..n /\ h[i] = g[i]))
      BY <2>2, <1>4, <1>1
    <3>2. CASE i = n + 1
      BY <3>1, <3>2, <2>2, <1>3
    <3>3. CASE i \in 1..n
      BY <3>1, <3>3, <1>3, <1>1
    <3> QED BY <3>1, <3>2, <3>3
  <2> QED BY <2>1, <2>2, <1>1
<1>6. Waiting(h, t, span, cap)
  <2> SUFFICES ASSUME NEW i \in 1..(n + 1), h[i] > t
               PROVE  i > cap /\ h[i] = h[i - cap] + span
    BY <1>4 DEF Waiting
  <2>1. CASE i \in 1..n
    <3>1. i > cap /\ g[i] = g[i - cap] + span
      BY <2>1, <1>2, <1>4
    <3>2. i - cap \in 1..n
      BY <3>1, <2>1, <1>1
    <3> QED BY <3>1, <3>2, <2>1, <1>4
  <2>2. CASE i = n + 1
    <3>1. n + 1 > cap /\ slot = g[n + 1 - cap] + span
      BY <2>2, <1>3, <1>4
    <3>2. n + 1 - cap \in 1..n
      BY <3>1, <1>1
    <3>3. h[i] = slot /\ i - cap = n + 1 - cap /\ h[n + 1 - cap] = g[n + 1 - cap]
      BY <3>2, <2>2, <1>4, <1>1
    <3> QED BY <3>1, <3>3, <2>2
  <2> QED BY <2>1, <2>2, <1>1
<1>7. KeepsRate(h, span, cap)
  <2>0. Len(h) - cap = n + 1 - cap
    BY <1>1, <1>4
  <2> SUFFICES ASSUME NEW i \in 1..(n + 1 - cap) PROVE h[i + cap] >= h[i] + span
    BY <2>0 DEF KeepsRate
  <2>1. CASE i \in 1..(n - cap)
    <3>1. i \in 1..n /\ i + cap \in 1..n
      BY <2>1, <1>1
    <3> QED BY <3>1, <2>1, <1>2, <1>4
  <2>2. CASE i = n + 1 - cap
    <3>1. n + 1 > cap /\ i + cap = n + 1 /\ i \in 1..n
      BY <2>2, <1>1
    <3>2. h[i + cap] = slot /\ h[i] = g[i] /\ g[i] \in Int
      BY <3>1, <1>1, <1>4
    <3> QED BY <3>1, <3>2, <2>2, <1>3
  <2> QED BY <2>1, <2>2, <1>1
\* A moment before it is less than a span after the slot cap places earlier.
<1>8. ASSUME NEW s \in t..(slot - 1), KeepsRate(Append(g, s), span, cap) PROVE FALSE
  <2> DEFINE k == Append(g, s)
  <2>1. s \in Int /\ s < slot /\ slot > t
    BY <1>3
  <2>2. /\ Len(k) = n + 1 /\ k[n + 1] = s
        /\ \A i \in 1..n : k[i] = g[i]
    BY <2>1 DEF n
  <2> HIDE DEF k
  <2>3. n + 1 > cap /\ slot = g[n + 1 - cap] + span
    BY <2>1, <1>3
  <2>4. n + 1 - cap \in 1..n /\ n + 1 - cap + cap = n + 1
    BY <2>3, <1>1
  <2>5. k[n + 1] >= k[n + 1 - cap] + span
    <3>1. KeepsRate(k, span, cap) /\ n + 1 - cap \in 1..(Len(k) - cap)
      BY <1>8, <2>2, <2>4 DEF k
    <3>2. k[n + 1 - cap + cap] >= k[n + 1 - cap] + span
      BY <3>1 DEF KeepsRate
    <3> QED BY <3>2, <2>4
  <2>6. s >= g[n + 1 - cap] + span
    BY <2>2, <2>4, <2>5
  <2> QED BY <2>1, <2>3, <2>6
<1> QED BY <1>3, <1>5, <1>6, <1>7, <1>8 DEF h

\* Time makes no slot one to wait for.
LEMMA WaitingAges ==
  ASSUME NEW g \in Seq(Int), NEW t \in Int, NEW u \in Int, t <= u,
         NEW span \in Nat, NEW cap \in Nat, Waiting(g, t, span, cap)
  PROVE  Waiting(g, u, span, cap)
<1> SUFFICES ASSUME NEW i \in 1..Len(g), g[i] > u
             PROVE  i > cap /\ g[i] = g[i - cap] + span
  BY DEF Waiting
<1>1. g[i] \in Int /\ g[i] > t
  OBVIOUS
<1> QED BY <1>1 DEF Waiting
=============================================================================
