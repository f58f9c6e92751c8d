-------------------------- MODULE MatchRegistryProofs --------------------------
(***************************************************************************)
(* The limits of POST /matches hold for every number of addresses and      *)
(* matches, every cap and span and every schedule of the clock.            *)
(*                                                                         *)
(* CreationRate speaks of every creation ever allowed to an address, and   *)
(* the code remembers a window of them, or nothing at all once a scan has  *)
(* dropped it.  The invariant says what is lost: the window is the tail of *)
(* the creations allowed, and those before it are a span old.              *)
(*                                                                         *)
(* WindowsBounded holds because a scan is due before the dict outgrows     *)
(* pruneAt.size, and that size is set from the survivors, each of them an  *)
(* address active at that moment.                                          *)
(*                                                                         *)
(* LimitsAreMinima needs the age of a match to be counted from a sweep no  *)
(* earlier than its last change: a match whose activity is what the last   *)
(* sweep saw has not changed since.                                        *)
(*                                                                         *)
(* Nothing in reserve_action asks whether its match is still registered:   *)
(* that a window outlives no match rests on every driven match being so,   *)
(* which the sweep sees to.                                                *)
(***************************************************************************)
EXTENDS MatchRegistry, SlidingWindowsProofs, FiniteSetTheorems

Lifecycles == {"created", "running", "ended"}

Match == [lifecycle : Lifecycles, turns : Nat, activity : Lifecycles \X Nat,
          at : Nat]

LimiterTypes ==
  /\ now \in Nat /\ posts \in Nat /\ busiest \in Nat
  /\ DOMAIN windows \subseteq Ips
  /\ windows \in [DOMAIN windows -> Seq(Int)]
  /\ pruneAt \in [size : Nat, scan : Nat]
  /\ allowed \in [Ips -> Seq(Int)]

MatchTypes ==
  /\ ids \subseteq Ids
  /\ DOMAIN matches \subseteq Ids \ ids
  /\ matches \in [DOMAIN matches -> Match]
  /\ driving \subseteq DOMAIN matches
  /\ DOMAIN actions \subseteq DOMAIN matches
  /\ actions \in [DOMAIN actions -> Seq(Int)]
  /\ slots \in [Ids -> Seq(Int)]
  /\ \A m \in ids : slots[m] = <<>>
  /\ changed \in [Ids -> Nat]

WindowOf(ip) == IF ip \in DOMAIN windows THEN windows[ip] ELSE <<>>

\* What a window forgets of the creations allowed no longer counts.
Remembered ==
  \A ip \in Ips :
    /\ InOrder(allowed[ip])
    /\ \A i \in 1..Len(allowed[ip]) : allowed[ip][i] <= now
    /\ IsTailFrom(WindowOf(ip), allowed[ip], now - CreationSpan)

\* What a window forgets of the slots given no longer counts, while the match is there.
SlotsRemembered ==
  \A m \in Ids :
    /\ InOrder(slots[m]) /\ KeepsRate(slots[m], ActionSpan, ActionCap)
    /\ Waiting(slots[m], now, ActionSpan, ActionCap)
    /\ m \in DOMAIN matches => IsTailFrom(ActionsOf(m), slots[m], now - ActionSpan)

\* The next scan is due before the dict outgrows what the last one left.
ScannedInTime ==
  /\ Cardinality(DOMAIN windows) <= pruneAt.size
  /\ \/ pruneAt.size = PruneThreshold
     \/ pruneAt.size <= 2 * busiest
  /\ pruneAt.size >= PruneThreshold

\* What a sweep saw of a match is behind it, and is as late as its last change
\* when the match is still what the sweep saw.
AgesAreMinima ==
  \A m \in DOMAIN matches :
    LET r == matches[m]
    IN /\ changed[m] <= now
       /\ r.activity = <<r.lifecycle, r.turns>> => changed[m] <= r.at
       /\ r.activity[2] <= r.turns
       /\ \/ r.activity[1] \in {"created", r.lifecycle}
          \/ r.activity[1] = "running" /\ r.lifecycle = "ended"

IInv ==
  /\ LimiterTypes /\ MatchTypes
  /\ Remembered /\ CreationRate
  /\ SlotsRemembered
  /\ ScannedInTime
  /\ AgesAreMinima

----------------------------------------------------------------------------
(* The limiter *)

\* The constants, one by one.
LEMMA Constants ==
  /\ IsFiniteSet(Ips) /\ IsFiniteSet(Ids)
  /\ CreationCap \in Nat \ {0} /\ ActionCap \in Nat \ {0}
  /\ CreationSpan \in Nat \ {0} /\ ActionSpan \in Nat \ {0}
  /\ PruneThreshold \in Nat \ {0} /\ MaxMatches \in Nat \ {0}
BY RegistryAssumption DEF RegistryAssumption

\* The greater of two numbers.
LEMMA MaxOfTwo ==
  ASSUME NEW x \in Int, NEW y \in Int
  PROVE  /\ Max({x, y}) \in {x, y}
         /\ Max({x, y}) >= x /\ Max({x, y}) >= y
<1>1. \E z \in {x, y} : \A u \in {x, y} : z >= u
  <2>1. CASE x >= y
    BY <2>1
  <2>2. CASE y >= x
    BY <2>2
  <2> QED BY <2>1, <2>2
<1> QED BY <1>1 DEF Max

\* What a counted creation does to the dict of windows.
LEMMA WindowsAfter ==
  ASSUME LimiterTypes, Remembered, NEW ip \in Ips, NEW granted \in BOOLEAN,
         CountCreation(ip, granted)
  PROVE  /\ DOMAIN windows' = Tracked(ip) /\ ip \in Tracked(ip)
         /\ Tracked(ip) \subseteq DOMAIN windows \union {ip} /\ Tracked(ip) \subseteq Ips
         /\ \A k \in Tracked(ip) \ {ip} : windows'[k] = windows[k]
         /\ windows'[ip] = IF granted THEN Append(Window(ip), now) ELSE Window(ip)
         /\ Window(ip) \in Seq(Int)
         /\ IsTailFrom(Window(ip), allowed[ip], now - CreationSpan)
         /\ windows' \in [DOMAIN windows' -> Seq(Int)]
<1> DEFINE f == [k \in Tracked(ip) |->
                   IF k # ip THEN windows[k]
                   ELSE IF granted THEN Append(Window(ip), now) ELSE Window(ip)]
<1>1. windows' = f
  BY DEF CountCreation
<1>2. ip \in Tracked(ip) /\ Tracked(ip) \subseteq DOMAIN windows \union {ip}
        /\ Tracked(ip) \subseteq Ips
  BY DEF Tracked, Survivors, LimiterTypes
<1>3. now \in Int /\ CreationSpan \in Int /\ now - CreationSpan \in Int
        /\ allowed[ip] \in Seq(Int)
  BY Constants DEF LimiterTypes
<1>4. Window(ip) \in Seq(Int) /\ IsTailFrom(Window(ip), allowed[ip], now - CreationSpan)
  <2>1. IsTailFrom(WindowOf(ip), allowed[ip], now - CreationSpan)
    BY DEF Remembered
  <2>2. CASE ip \in DOMAIN windows
    <3>1. windows[ip] \in Seq(Int) /\ WindowOf(ip) = windows[ip]
            /\ Window(ip) = Pruned(windows[ip], now, CreationSpan)
      BY <2>2 DEF LimiterTypes, WindowOf, Window
    <3>2. Window(ip) \in Seq(Int) /\ IsTailFrom(Window(ip), windows[ip], now - CreationSpan)
      BY <3>1, <1>3, PrunedIsATail
    <3> QED BY <3>1, <3>2, <2>1, <1>3, TailOfATail
  <2>3. CASE ip \notin DOMAIN windows
    BY <2>3, <2>1 DEF WindowOf, Window
  <2> QED BY <2>2, <2>3
<1>5. Append(Window(ip), now) \in Seq(Int)
  BY <1>3, <1>4
<1>6. ASSUME NEW k \in Tracked(ip) PROVE f[k] \in Seq(Int)
  BY <1>2, <1>4, <1>5 DEF LimiterTypes
<1>7. DOMAIN f = Tracked(ip) /\ f \in [Tracked(ip) -> Seq(Int)]
        /\ (\A k \in Tracked(ip) \ {ip} : f[k] = windows[k])
        /\ f[ip] = IF granted THEN Append(Window(ip), now) ELSE Window(ip)
  BY <1>2, <1>6
<1> HIDE DEF f
<1> QED BY <1>1, <1>2, <1>4, <1>7

\* A counted creation, refused or allowed, keeps each address's history and window
\* together, and its rate.
LEMMA CountKeepsTheRate ==
  ASSUME LimiterTypes, Remembered, CreationRate, NEW ip \in Ips, NEW granted \in BOOLEAN,
         granted => Len(Window(ip)) < CreationCap,
         CountCreation(ip, granted), now' = now
  PROVE  Remembered' /\ CreationRate' /\ allowed' \in [Ips -> Seq(Int)]
<1>1. /\ now \in Int /\ CreationSpan \in Int /\ now - CreationSpan \in Int
      /\ CreationCap \in Nat \ {0}
  BY Constants DEF LimiterTypes
<1>2. allowed' = IF granted THEN [allowed EXCEPT ![ip] = Append(@, now)] ELSE allowed
  BY DEF CountCreation
<1>3. ASSUME NEW k \in Ips
      PROVE  /\ allowed[k] \in Seq(Int) /\ allowed'[k] \in Seq(Int)
             /\ allowed'[k] = IF k = ip /\ granted THEN Append(allowed[k], now) ELSE allowed[k]
  <2>1. allowed[k] \in Seq(Int) /\ Append(allowed[k], now) \in Seq(Int)
    BY <1>1 DEF LimiterTypes
  <2> QED BY <1>2, <2>1 DEF LimiterTypes
<1>4. allowed' \in [Ips -> Seq(Int)]
  <2>1. allowed' = [k \in Ips |-> allowed'[k]]
    BY <1>2 DEF LimiterTypes
  <2> QED BY <2>1, <1>3
<1>5. ASSUME NEW k \in Ips
      PROVE  /\ InOrder(allowed[k]) /\ KeepsRate(allowed[k], CreationSpan, CreationCap)
             /\ \A i \in 1..Len(allowed[k]) : allowed[k][i] <= now
             /\ IsTailFrom(WindowOf(k), allowed[k], now - CreationSpan)
             /\ WindowOf(k) \in Seq(Int)
  <2>1. WindowOf(k) \in Seq(Int)
    BY DEF WindowOf, LimiterTypes
  <2> QED BY <2>1 DEF Remembered, CreationRate
<1>6. ASSUME NEW k \in Ips
      PROVE  /\ InOrder(allowed'[k]) /\ KeepsRate(allowed'[k], CreationSpan, CreationCap)
             /\ \A i \in 1..Len(allowed'[k]) : allowed'[k][i] <= now
             /\ IsTailFrom(WindowOf(k)', allowed'[k], now - CreationSpan)
  <2>1. CASE k = ip /\ granted
    <3>1. WindowOf(k)' = Append(Window(ip), now) /\ allowed'[k] = Append(allowed[k], now)
      BY <2>1, <1>3, WindowsAfter DEF WindowOf
    <3>2. Window(ip) \in Seq(Int) /\ IsTailFrom(Window(ip), allowed[k], now - CreationSpan)
      BY <2>1, WindowsAfter
    <3>3. PICK w \in Seq(Int) : w = Window(ip)
      BY <3>2
    <3>4. PICK g \in Seq(Int) : g = allowed[k]
      BY <1>3
    <3>5. /\ IsTailFrom(w, g, now - CreationSpan) /\ InOrder(g)
          /\ KeepsRate(g, CreationSpan, CreationCap) /\ \A i \in 1..Len(g) : g[i] <= now
      BY <3>2, <3>3, <3>4, <1>5
    <3>6. Len(w) < CreationCap
      BY <2>1, <3>3
    <3>7. /\ InOrder(Append(g, now)) /\ KeepsRate(Append(g, now), CreationSpan, CreationCap)
          /\ \A i \in 1..Len(Append(g, now)) : Append(g, now)[i] <= now
          /\ IsTailFrom(Append(w, now), Append(g, now), now - CreationSpan)
      BY ONLY <3>5, <3>6, <1>1, RoomKeepsTheRate
    <3>8. WindowOf(k)' = Append(w, now) /\ allowed'[k] = Append(g, now)
      BY <3>1, <3>3, <3>4
    <3> QED BY <3>7, <3>8
  <2>2. CASE k = ip /\ ~granted
    <3>1. WindowOf(k)' = Window(ip) /\ allowed'[k] = allowed[k]
      BY <2>2, <1>3, WindowsAfter DEF WindowOf
    <3>2. IsTailFrom(Window(ip), allowed[k], now - CreationSpan)
      BY <2>2, WindowsAfter
    <3> QED BY <3>1, <3>2, <1>5
  <2>3. CASE k # ip /\ k \in Tracked(ip)
    <3>1. WindowOf(k)' = WindowOf(k) /\ allowed'[k] = allowed[k]
      BY <2>3, <1>3, WindowsAfter DEF WindowOf
    <3> QED BY <3>1, <1>5
  <2>4. CASE k # ip /\ k \notin Tracked(ip)
    <3>1. WindowOf(k)' = <<>> /\ allowed'[k] = allowed[k]
      BY <2>4, <1>3, WindowsAfter DEF WindowOf
    <3>2. WindowOf(k) = <<>> \/ WindowOf(k)[Len(WindowOf(k))] <= now - CreationSpan
      <4>1. CASE k \notin DOMAIN windows
        BY <4>1 DEF WindowOf
      <4>2. CASE k \in DOMAIN windows
        <5>1. ~Fresh(windows[k]) /\ WindowOf(k) = windows[k] /\ windows[k] \in Seq(Int)
          BY <4>2, <2>4 DEF Tracked, Survivors, WindowOf, LimiterTypes
        <5>2. windows[k] # <<>> => windows[k][Len(windows[k])] \in Int
          BY <5>1
        <5> QED BY <5>1, <5>2, <1>1 DEF Fresh
      <4> QED BY <4>1, <4>2
    <3>3. IsTailFrom(<<>>, allowed[k], now - CreationSpan)
      BY <3>2, <1>1, <1>3, <1>5, StaleIsDropped
    <3> QED BY <3>1, <3>3, <1>5
  <2> QED BY <2>1, <2>2, <2>3, <2>4
<1>7. Remembered'
  BY <1>6 DEF Remembered
<1>8. CreationRate'
  BY <1>6 DEF CreationRate
<1> QED BY <1>4, <1>7, <1>8

\* A scan leaves only addresses that are active as it is made.
LEMMA SurvivorsAreActive ==
  ASSUME LimiterTypes, Remembered, NEW ip \in Ips, NEW granted \in BOOLEAN,
         CountCreation(ip, granted), ScanDue(ip)
  PROVE  /\ Survivors \subseteq Active /\ Active \subseteq Ips
         /\ Survivors \subseteq DOMAIN windows
<1>1. ASSUME NEW k \in Survivors PROVE k \in Active
  <2>1. k \in DOMAIN windows /\ Fresh(windows[k]) /\ k \in Ips /\ k # ip
    BY DEF Survivors, LimiterTypes, ScanDue
  <2>2. allowed'[k] = allowed[k]
    BY <2>1 DEF CountCreation, LimiterTypes
  <2>3. /\ WindowOf(k) = windows[k] /\ windows[k] \in Seq(Int) /\ allowed[k] \in Seq(Int)
        /\ IsTailFrom(windows[k], allowed[k], now - CreationSpan)
    BY <2>1 DEF WindowOf, LimiterTypes, Remembered
  <2>4. windows[k] # <<>> /\ Len(windows[k]) \in 1..Len(windows[k])
          /\ Len(windows[k]) <= Len(allowed[k]) /\ allowed[k] # <<>>
    BY <2>1, <2>3 DEF Fresh, IsTailFrom
  <2>5. windows[k][Len(windows[k])] = allowed[k][Len(allowed[k])]
    <3>1. windows[k][Len(windows[k])]
            = allowed[k][Len(allowed[k]) - Len(windows[k]) + Len(windows[k])]
      BY <2>3, <2>4 DEF IsTailFrom
    <3>2. Len(allowed[k]) - Len(windows[k]) + Len(windows[k]) = Len(allowed[k])
      BY <2>3
    <3> QED BY <3>1, <3>2
  <2>6. Fresh(allowed[k])
    BY <2>1, <2>4, <2>5 DEF Fresh
  <2> QED BY <2>1, <2>2, <2>6 DEF Active
<1> QED BY <1>1 DEF Active, Survivors

\* The dict is scanned before it outgrows what the last scan left, and a scan leaves
\* no more than the addresses active at once.
LEMMA CountIsScannedInTime ==
  ASSUME LimiterTypes, Remembered, ScannedInTime, NEW ip \in Ips, NEW granted \in BOOLEAN,
         CountCreation(ip, granted)
  PROVE  /\ ScannedInTime' /\ busiest' \in Nat
         /\ pruneAt' \in [size : Nat, scan : Nat]
<1> DEFINE D == DOMAIN windows S == Survivors T == Tracked(ip)
<1>1. /\ IsFiniteSet(D) /\ Cardinality(D) \in Nat
      /\ IsFiniteSet(D \union {ip}) /\ Cardinality(D \union {ip}) <= Cardinality(D) + 1
  <2>1. IsFiniteSet(D)
    BY Constants, FS_Subset DEF LimiterTypes
  <2>2. Cardinality(D) \in Nat
    BY <2>1, FS_CardinalityType
  <2> HIDE DEF D
  <2>3. IsFiniteSet(D \union {ip}) /\ Cardinality(D \union {ip})
          = IF ip \in D THEN Cardinality(D) ELSE Cardinality(D) + 1
    BY <2>1, FS_AddElement
  <2> QED BY <2>1, <2>2, <2>3
<1>2. DOMAIN windows' = T
  BY WindowsAfter
<1>3. PruneThreshold \in Nat \ {0} /\ pruneAt.size \in Nat /\ busiest \in Nat
        /\ now \in Nat /\ pruneAt \in [size : Nat, scan : Nat]
  BY Constants DEF LimiterTypes
<1>4. IsFiniteSet(Active) /\ Cardinality(Active) \in Nat
  BY Constants, FS_Subset, FS_CardinalityType DEF Active
<1>5. busiest' \in Nat /\ busiest' >= busiest /\ busiest' >= Cardinality(Active)
  <2>1. busiest' = Max({busiest, Cardinality(Active)})
    BY DEF CountCreation
  <2>2. busiest \in Int /\ Cardinality(Active) \in Int
    BY <1>3, <1>4
  <2>3. /\ Max({busiest, Cardinality(Active)}) \in {busiest, Cardinality(Active)}
        /\ Max({busiest, Cardinality(Active)}) >= busiest
        /\ Max({busiest, Cardinality(Active)}) >= Cardinality(Active)
    BY <2>2, MaxOfTwo
  <2> QED BY <2>1, <2>3, <1>3, <1>4
<1>6. CASE ScanDue(ip)
  <2>1. IsFiniteSet(S) /\ Cardinality(S) \in Nat /\ Cardinality(S) <= Cardinality(Active)
    BY <1>6, <1>4, SurvivorsAreActive, FS_Subset, FS_CardinalityType
  <2>2. T = S \union {ip}
    BY <1>6 DEF Tracked
  <2>3. Cardinality(T) <= Cardinality(S) + 1
    <3> HIDE DEF D, S, T
    <3>1. Cardinality(S \union {ip})
            = IF ip \in S THEN Cardinality(S) ELSE Cardinality(S) + 1
      BY ONLY <2>1, FS_AddElement
    <3> QED BY <2>1, <2>2, <3>1
  <2>4. pruneAt' = [size |-> Max({PruneThreshold, 2 * Cardinality(S)}), scan |-> now]
    BY <1>6 DEF CountCreation
  <2>5. /\ pruneAt'.size \in {PruneThreshold, 2 * Cardinality(S)}
        /\ pruneAt'.size >= PruneThreshold /\ pruneAt'.size >= 2 * Cardinality(S)
        /\ pruneAt' \in [size : Nat, scan : Nat]
    <3> HIDE DEF S
    <3>1. 2 * Cardinality(S) \in Nat /\ PruneThreshold \in Int
      BY <2>1, <1>3
    <3>2. /\ Max({PruneThreshold, 2 * Cardinality(S)}) \in {PruneThreshold, 2 * Cardinality(S)}
          /\ Max({PruneThreshold, 2 * Cardinality(S)}) >= PruneThreshold
          /\ Max({PruneThreshold, 2 * Cardinality(S)}) >= 2 * Cardinality(S)
      BY <3>1, MaxOfTwo
    <3> QED BY <2>4, <3>1, <3>2, <1>3
  <2>6. Cardinality(T) \in Nat
    <3> HIDE DEF D, S, T
    <3>1. IsFiniteSet(S \union {ip})
      BY ONLY <2>1, FS_AddElement
    <3>2. Cardinality(S \union {ip}) \in Nat
      BY ONLY <3>1, FS_CardinalityType
    <3> QED BY <2>2, <3>2
  <2> HIDE DEF S, T
  <2>7. Cardinality(T) <= pruneAt'.size
    BY <2>1, <2>3, <2>5, <2>6, <1>3
  <2>8. pruneAt'.size = PruneThreshold \/ pruneAt'.size <= 2 * busiest'
    BY <2>1, <2>5, <1>4, <1>5
  <2> QED BY <2>5, <2>7, <2>8, <1>2, <1>5 DEF ScannedInTime
<1>7. CASE ~ScanDue(ip)
  <2>1. pruneAt' = pruneAt /\ T = D \union {ip}
    BY <1>7 DEF CountCreation, Tracked
  <2>2. Cardinality(T) <= pruneAt.size
    <3>1. CASE ip \in D
      <4>1. T = D
        BY <3>1, <2>1
      <4> QED BY <4>1 DEF ScannedInTime
    <3>2. CASE ip \notin D
      <4>1. ~(Cardinality(D) >= pruneAt.size)
        BY <1>7, <3>2 DEF ScanDue
      <4>2. Cardinality(D \union {ip}) \in Nat
        BY <1>1, FS_CardinalityType
      <4> HIDE DEF D, T
      <4> QED BY <4>1, <4>2, <2>1, <1>1, <1>3
    <3> QED BY <3>1, <3>2
  <2>3. pruneAt.size = PruneThreshold \/ pruneAt.size <= 2 * busiest'
    BY <1>3, <1>5 DEF ScannedInTime
  <2> QED BY <2>1, <2>2, <2>3, <1>2, <1>3, <1>5 DEF ScannedInTime
<1> QED BY <1>6, <1>7

\* What the limiter keeps, kept by a counted creation.
LEMMA CountKeepsTheLimiter ==
  ASSUME IInv, NEW ip \in Ips, NEW granted \in BOOLEAN,
         granted => Len(Window(ip)) < CreationCap,
         CountCreation(ip, granted), now' = now
  PROVE  LimiterTypes' /\ Remembered' /\ CreationRate' /\ ScannedInTime'
<1>1. Remembered' /\ CreationRate' /\ allowed' \in [Ips -> Seq(Int)]
  BY CountKeepsTheRate DEF IInv
<1>2. ScannedInTime' /\ busiest' \in Nat /\ pruneAt' \in [size : Nat, scan : Nat]
  BY CountIsScannedInTime DEF IInv
<1>3. DOMAIN windows' \subseteq Ips /\ windows' \in [DOMAIN windows' -> Seq(Int)]
  BY WindowsAfter DEF IInv
<1>4. now' \in Nat /\ posts' \in Nat
  BY DEF IInv, LimiterTypes, CountCreation
<1> QED BY <1>1, <1>2, <1>3, <1>4 DEF LimiterTypes

----------------------------------------------------------------------------
(* The sweep *)

\* What a sweep sees of a match is a match.
LEMMA SeenIsAMatch ==
  ASSUME MatchTypes, now \in Nat, NEW k \in DOMAIN matches
  PROVE  /\ Seen(k) \in Match /\ matches[k] \in Match
         /\ Seen(k).lifecycle = matches[k].lifecycle /\ Seen(k).turns = matches[k].turns
         /\ \/ Seen(k) = matches[k]
            \/ /\ Seen(k).activity = <<matches[k].lifecycle, matches[k].turns>>
               /\ Seen(k).at = now
<1>1. matches[k] \in Match
  BY DEF MatchTypes
<1>2. <<matches[k].lifecycle, matches[k].turns>> \in Lifecycles \X Nat
  BY <1>1 DEF Match
<1>3. CASE k \in driving
             \/ matches[k].activity = <<matches[k].lifecycle, matches[k].turns>>
  <2>1. Seen(k) = matches[k]
    BY <1>3 DEF Seen
  <2> QED BY <2>1, <1>1
<1>4. CASE ~(k \in driving
             \/ matches[k].activity = <<matches[k].lifecycle, matches[k].turns>>)
  <2>1. Seen(k) = [matches[k] EXCEPT
                     !.activity = <<matches[k].lifecycle, matches[k].turns>>, !.at = now]
    BY <1>4 DEF Seen
  <2> QED BY <2>1, <1>1, <1>2 DEF Match
<1> QED BY <1>3, <1>4

\* The sweep makes room only when the registry is full.
LEMMA ShedWhenFull ==
  ASSUME MatchTypes, NEW shed \in Shed(DOMAIN matches \ TooOld), NEW k \in shed
  PROVE  /\ k \in DOMAIN matches /\ Sheddable(k)
         /\ Cardinality(DOMAIN matches) >= MaxMatches
<1> DEFINE D == DOMAIN matches
           left == D \ TooOld
           can == {x \in left : Sheddable(x)}
           over == Cardinality(left) - MaxMatches + 1
<1>1. shed \subseteq can
        /\ Cardinality(shed) = IF over <= 0 THEN 0 ELSE Min({over, Cardinality(can)})
  BY DEF Shed
<1>2. k \in D /\ Sheddable(k)
  BY <1>1
<1>3. IsFiniteSet(D) /\ IsFiniteSet(left) /\ IsFiniteSet(shed)
        /\ Cardinality(left) <= Cardinality(D)
        /\ Cardinality(left) \in Nat /\ Cardinality(D) \in Nat
  <2>1. IsFiniteSet(D)
    BY Constants, FS_Subset DEF MatchTypes
  <2>2. left \subseteq D /\ shed \subseteq D
    BY <1>1
  <2> HIDE DEF D, left
  <2> QED BY <2>1, <2>2, FS_Subset, FS_CardinalityType
<1>4. Cardinality(shed) # 0
  BY <1>3, FS_EmptySet
<1> HIDE DEF D, left, can
<1>5. ~(over <= 0)
  BY <1>1, <1>4
<1>6. MaxMatches \in Nat
  BY Constants
<1>7. Cardinality(D) >= MaxMatches
  BY <1>3, <1>5, <1>6
<1> QED BY <1>2, <1>7 DEF D

\* What a creation does to the registry: which matches it drops, and what is left.
LEMMA MatchesAfter ==
  ASSUME LimiterTypes, MatchTypes, NEW ip \in Ips, NEW m \in Ids, Create(ip, m)
  PROVE  /\ m \in ids /\ m \notin DOMAIN matches
         /\ DOMAIN matches' \subseteq DOMAIN matches \union {m}
         /\ matches' \in [DOMAIN matches' -> Match]
         /\ \A k \in DOMAIN matches \ DOMAIN matches' :
              \/ k \in TooOld
              \/ Sheddable(k) /\ Cardinality(DOMAIN matches) >= MaxMatches
         /\ \A k \in DOMAIN matches \intersect DOMAIN matches' : matches'[k] = Seen(k)
         /\ \/ /\ m \in DOMAIN matches' /\ matches'[m] = Created
               /\ ids' = ids \ {m} /\ changed' = [changed EXCEPT ![m] = now]
            \/ m \notin DOMAIN matches' /\ ids' = ids /\ changed' = changed
<1>1. m \in ids /\ m \notin DOMAIN matches /\ now \in Nat
  BY DEF Create, MatchTypes, LimiterTypes
<1>2. PICK shed \in Shed(DOMAIN matches \ TooOld) :
        LET kept == Kept(TooOld \union shed)
        IN IF Cardinality(DOMAIN kept) >= MaxMatches
             THEN /\ matches' = kept
                  /\ UNCHANGED <<ids, changed>>
             ELSE /\ matches' = [k \in DOMAIN kept \union {m} |->
                                   IF k = m THEN Created ELSE kept[k]]
                  /\ ids' = ids \ {m} /\ changed' = [changed EXCEPT ![m] = now]
  BY DEF Create
<1> DEFINE kept == Kept(TooOld \union shed)
           L == DOMAIN matches \ (TooOld \union shed)
<1>3. DOMAIN kept = L /\ (\A k \in L : kept[k] = Seen(k)) /\ kept \in [L -> Match]
  <2>1. \A k \in L : Seen(k) \in Match
    BY <1>1, SeenIsAMatch
  <2> QED BY <2>1 DEF Kept
<1>4. Created \in Match
  BY <1>1 DEF Created, Match, Lifecycles
<1>5. ASSUME NEW k \in DOMAIN matches \ L
      PROVE  \/ k \in TooOld
             \/ Sheddable(k) /\ Cardinality(DOMAIN matches) >= MaxMatches
  BY ShedWhenFull
<1> HIDE DEF kept, L
<1>6. L \subseteq DOMAIN matches
  BY DEF L
<1>7. \/ /\ matches' = kept /\ ids' = ids /\ changed' = changed
      \/ /\ matches' = [k \in L \union {m} |-> IF k = m THEN Created ELSE kept[k]]
         /\ ids' = ids \ {m} /\ changed' = [changed EXCEPT ![m] = now]
  BY <1>2, <1>3 DEF kept
<1>8. CASE matches' = kept /\ ids' = ids /\ changed' = changed
  <2>1. DOMAIN matches' = L /\ matches' \in [L -> Match] /\ m \notin L
          /\ \A k \in L : matches'[k] = Seen(k)
    BY <1>8, <1>3, <1>6, <1>1
  <2> QED BY <2>1, <1>8, <1>1, <1>5, <1>6
<1>9. CASE /\ matches' = [k \in L \union {m} |-> IF k = m THEN Created ELSE kept[k]]
           /\ ids' = ids \ {m} /\ changed' = [changed EXCEPT ![m] = now]
  <2>1. DOMAIN matches' = L \union {m} /\ m \notin L /\ matches'[m] = Created
          /\ \A k \in L : matches'[k] = Seen(k)
    BY <1>9, <1>3, <1>6, <1>1
  <2>2. matches' \in [L \union {m} -> Match]
    BY <1>9, <1>3, <1>4
  <2> QED BY <2>1, <2>2, <1>9, <1>1, <1>5, <1>6
<1> QED BY <1>7, <1>8, <1>9

\* A creation keeps what the registry keeps.
LEMMA CreateKeepsTheMatches ==
  ASSUME IInv, NEW ip \in Ips, NEW m \in Ids, Create(ip, m)
  PROVE  MatchTypes' /\ AgesAreMinima'
<1>1. LimiterTypes /\ MatchTypes /\ AgesAreMinima /\ now \in Nat
  BY DEF IInv, LimiterTypes
<1>2. /\ m \in ids /\ m \notin DOMAIN matches
      /\ DOMAIN matches' \subseteq DOMAIN matches \union {m}
      /\ matches' \in [DOMAIN matches' -> Match]
      /\ \A k \in DOMAIN matches \intersect DOMAIN matches' : matches'[k] = Seen(k)
      /\ \/ /\ m \in DOMAIN matches' /\ matches'[m] = Created
            /\ ids' = ids \ {m} /\ changed' = [changed EXCEPT ![m] = now]
         \/ m \notin DOMAIN matches' /\ ids' = ids /\ changed' = changed
  BY <1>1, MatchesAfter
<1>3. /\ now' = now /\ slots' = slots /\ driving' = driving
      /\ actions' = [k \in DOMAIN actions \ (DOMAIN matches \ DOMAIN matches') |-> actions[k]]
  BY DEF Create, ForgetMatches
<1>4. MatchTypes'
  <2>1. /\ ids' \subseteq Ids /\ DOMAIN matches' \subseteq Ids \ ids'
        /\ changed' \in [Ids -> Nat] /\ \A k \in ids' : slots'[k] = <<>>
    BY <1>1, <1>2, <1>3 DEF MatchTypes
  <2>2. DOMAIN actions' \subseteq DOMAIN matches' /\ actions' \in [DOMAIN actions' -> Seq(Int)]
    BY <1>1, <1>3 DEF MatchTypes
  <2>3. driving' \subseteq DOMAIN matches'
    <3> SUFFICES ASSUME NEW k \in driving, k \notin DOMAIN matches' PROVE FALSE
      BY <1>3
    <3>1. k \in DOMAIN matches \ DOMAIN matches'
      BY <1>1 DEF MatchTypes
    <3>2. k \in TooOld \/ Sheddable(k)
      BY <3>1, <1>1, MatchesAfter
    <3> QED BY <3>2 DEF TooOld, Sheddable
  <2> QED BY <2>1, <2>2, <2>3, <1>1, <1>2, <1>3 DEF MatchTypes
<1>5. ASSUME NEW k \in DOMAIN matches'
      PROVE  /\ changed'[k] <= now
             /\ matches'[k].activity = <<matches'[k].lifecycle, matches'[k].turns>>
                  => changed'[k] <= matches'[k].at
             /\ matches'[k].activity[2] <= matches'[k].turns
             /\ \/ matches'[k].activity[1] \in {"created", matches'[k].lifecycle}
                \/ matches'[k].activity[1] = "running" /\ matches'[k].lifecycle = "ended"
  <2>1. CASE k = m
    <3>1. matches'[k] = Created /\ changed'[k] = now
      BY <2>1, <1>1, <1>2 DEF MatchTypes
    <3> QED BY <3>1, <1>1 DEF Created
  <2>2. CASE k # m
    <3>1. k \in DOMAIN matches /\ matches'[k] = Seen(k) /\ changed'[k] = changed[k] /\ k \in Ids
      BY <2>2, <1>1, <1>2 DEF MatchTypes
    <3>2. /\ changed[k] <= now /\ changed[k] \in Nat
          /\ matches[k].activity = <<matches[k].lifecycle, matches[k].turns>>
               => changed[k] <= matches[k].at
          /\ matches[k].activity[2] <= matches[k].turns
          /\ \/ matches[k].activity[1] \in {"created", matches[k].lifecycle}
             \/ matches[k].activity[1] = "running" /\ matches[k].lifecycle = "ended"
      BY <3>1, <1>1 DEF AgesAreMinima, MatchTypes
    <3>3. matches[k] \in Match /\ matches[k].turns \in Nat
      BY <3>1, <1>1, SeenIsAMatch DEF Match
    <3>4. CASE Seen(k) = matches[k]
      BY <3>4, <3>1, <3>2
    <3>5. CASE /\ Seen(k).activity = <<matches[k].lifecycle, matches[k].turns>>
               /\ Seen(k).at = now
      <4>1. Seen(k).lifecycle = matches[k].lifecycle /\ Seen(k).turns = matches[k].turns
        BY <3>1, <1>1, SeenIsAMatch
      <4> QED BY <4>1, <3>5, <3>1, <3>2, <3>3
    <3> QED BY <3>4, <3>5, <3>1, <1>1, SeenIsAMatch
  <2> QED BY <2>1, <2>2
<1>6. AgesAreMinima'
  BY <1>5, <1>3 DEF AgesAreMinima
<1> QED BY <1>4, <1>6

----------------------------------------------------------------------------
(* The driver of a match, and the clock *)

\* A step of a driver changes one match, whose lifecycle only goes forward: what a
\* sweep saw of it is either still so, and nothing has changed, or never so again.
LEMMA DriverStep ==
  ASSUME IInv, NEW m \in Ids, Start(m) \/ Commit(m) \/ End(m) \/ Return(m)
  PROVE  /\ m \in DOMAIN matches /\ DOMAIN matches' = DOMAIN matches
         /\ MatchTypes' /\ AgesAreMinima'
         /\ UNCHANGED <<now, limiter, actions, ids, slots>>
<1> DEFINE o == matches[m] r == matches'[m]
<1>1. MatchTypes /\ AgesAreMinima /\ now \in Nat
  BY DEF IInv, LimiterTypes
<1>2. /\ m \in DOMAIN matches /\ UNCHANGED <<now, limiter, actions, ids, slots>>
      /\ matches' = [matches EXCEPT ![m] = r]
      /\ changed' = changed \/ changed' = [changed EXCEPT ![m] = now]
  BY <1>1 DEF Start, Commit, End, Return, Playing, Step, MatchTypes
<1>d. driving' \subseteq driving \union {m}
  BY DEF Start, Commit, End, Return
<1>3. o \in Match /\ changed[m] \in Nat
  BY <1>1, <1>2 DEF MatchTypes
<1>4. /\ changed[m] <= now
      /\ o.activity = <<o.lifecycle, o.turns>> => changed[m] <= o.at
      /\ o.activity[2] <= o.turns
      /\ \/ o.activity[1] \in {"created", o.lifecycle}
         \/ o.activity[1] = "running" /\ o.lifecycle = "ended"
  BY <1>1, <1>2 DEF AgesAreMinima
\* What is left to show: the match after the step.
<1>5. ASSUME r \in Match, changed'[m] <= now,
             r.activity = <<r.lifecycle, r.turns>> => changed'[m] <= r.at,
             r.activity[2] <= r.turns,
             \/ r.activity[1] \in {"created", r.lifecycle}
             \/ r.activity[1] = "running" /\ r.lifecycle = "ended"
      PROVE  /\ DOMAIN matches' = DOMAIN matches
             /\ MatchTypes' /\ AgesAreMinima'
  <2> HIDE DEF r
  <2>1. /\ DOMAIN matches' = DOMAIN matches
        /\ \A k \in DOMAIN matches \ {m} : matches'[k] = matches[k] /\ changed'[k] = changed[k]
    BY <1>1, <1>2 DEF MatchTypes
  <2>2. MatchTypes'
    <3>1. matches' \in [DOMAIN matches' -> Match]
      BY <1>1, <1>2, <1>5, <2>1 DEF MatchTypes
    <3>2. changed' \in [Ids -> Nat]
      BY <1>1, <1>2 DEF MatchTypes
    <3>3. driving' \subseteq DOMAIN matches'
      BY <2>1, <1>1, <1>2, <1>d DEF MatchTypes
    <3> QED BY <3>1, <3>2, <3>3, <2>1, <1>1, <1>2 DEF MatchTypes
  <2>3. matches'[m] = r
    BY DEF r
  <2>4. AgesAreMinima'
    <3> SUFFICES ASSUME NEW k \in DOMAIN matches
                 PROVE  /\ changed'[k] <= now
                        /\ matches'[k].activity = <<matches'[k].lifecycle, matches'[k].turns>>
                             => changed'[k] <= matches'[k].at
                        /\ matches'[k].activity[2] <= matches'[k].turns
                        /\ \/ matches'[k].activity[1] \in {"created", matches'[k].lifecycle}
                           \/ matches'[k].activity[1] = "running"
                                 /\ matches'[k].lifecycle = "ended"
      BY <2>1, <1>2 DEF AgesAreMinima
    <3>1. CASE k = m
      BY <3>1, <2>3, <1>5
    <3>2. CASE k # m
      BY <3>2, <2>1, <1>1 DEF AgesAreMinima
    <3> QED BY <3>1, <3>2
  <2> QED BY <2>1, <2>2, <2>4
<1>6. CASE Start(m)
  <2>1. /\ o.lifecycle = "created" /\ changed' = [changed EXCEPT ![m] = now]
        /\ r = [o EXCEPT !.lifecycle = "running"]
    BY <1>6, <1>2 DEF Start, Step
  <2>2. /\ r \in Match /\ r.activity = o.activity /\ r.lifecycle = "running"
        /\ r.turns = o.turns
    BY <2>1, <1>3 DEF Match, Lifecycles
  <2>3. changed'[m] = now /\ o.activity[1] = "created"
    BY <2>1, <1>1, <1>4 DEF MatchTypes
  <2>4. r.activity # <<r.lifecycle, r.turns>>
    BY <2>2, <2>3
  <2> HIDE DEF r, o
  <2> QED BY <2>2, <2>3, <2>4, <1>1, <1>2, <1>4, <1>5
<1>7. CASE Commit(m)
  <2>1. /\ changed' = [changed EXCEPT ![m] = now]
        /\ r = [o EXCEPT !.turns = @ + 1]
    BY <1>7, <1>2 DEF Commit, Playing, Step
  <2>2. /\ r \in Match /\ r.activity = o.activity /\ r.lifecycle = o.lifecycle
        /\ r.turns = o.turns + 1 /\ o.turns \in Nat /\ o.activity[2] \in Nat
    BY <2>1, <1>3 DEF Match
  <2>3. changed'[m] = now
    BY <2>1, <1>1 DEF MatchTypes
  <2>4. r.activity[2] <= r.turns /\ r.activity[2] # r.turns
    BY <2>2, <1>4
  <2>5. r.activity # <<r.lifecycle, r.turns>>
    BY <2>4
  <2> HIDE DEF r, o
  <2> QED BY <2>2, <2>3, <2>4, <2>5, <1>1, <1>2, <1>4, <1>5
<1>8. CASE End(m)
  <2>1. /\ o.lifecycle = "running" /\ changed' = [changed EXCEPT ![m] = now]
        /\ r = [o EXCEPT !.lifecycle = "ended"]
    BY <1>8, <1>2 DEF End, Playing, Step
  <2>2. /\ r \in Match /\ r.activity = o.activity /\ r.lifecycle = "ended"
        /\ r.turns = o.turns
    BY <2>1, <1>3 DEF Match, Lifecycles
  <2>3. changed'[m] = now /\ o.activity[1] \in {"created", "running"}
    BY <2>1, <1>1, <1>4 DEF MatchTypes
  <2>4. r.activity # <<r.lifecycle, r.turns>>
    BY <2>2, <2>3
  <2> HIDE DEF r, o
  <2> QED BY <2>2, <2>3, <2>4, <1>1, <1>2, <1>4, <1>5
<1>9. CASE Return(m)
  <2>1. changed' = changed /\ r = o
    BY <1>9 DEF Return
  <2> HIDE DEF r, o
  <2> QED BY <2>1, <1>2, <1>3, <1>4, <1>5
<1> QED BY <1>2, <1>6, <1>7, <1>8, <1>9

\* A reservation: a driven match is registered, and its window holds all the slots it
\* was given that still count, so that the slot is the first that keeps its rate.
LEMMA ReserveStep ==
  ASSUME IInv, NEW m \in Ids, Reserve(m)
  PROVE  \E w \in Seq(Int), g \in Seq(Int), slot \in Int :
           /\ m \in DOMAIN matches /\ g = slots[m]
           /\ actions' = [k \in DOMAIN actions \union {m} |->
                            IF k = m THEN Append(w, slot) ELSE actions[k]]
           /\ slots' = [slots EXCEPT ![m] = Append(g, slot)]
           /\ UNCHANGED <<now, limiter, matches, driving, ids, changed>>
           /\ slot >= now /\ InOrder(Append(g, slot))
           /\ KeepsRate(Append(g, slot), ActionSpan, ActionCap)
           /\ Waiting(Append(g, slot), now, ActionSpan, ActionCap)
           /\ IsTailFrom(Append(w, slot), Append(g, slot), now - ActionSpan)
           /\ \A t \in now..(slot - 1) : ~KeepsRate(Append(g, t), ActionSpan, ActionCap)
<1>1. MatchTypes /\ SlotsRemembered /\ now \in Int
  BY DEF IInv, LimiterTypes
<1>2. ActionSpan \in Nat /\ ActionSpan \in Int /\ ActionCap \in Nat \ {0}
        /\ now - ActionSpan \in Int
  BY <1>1, Constants
<1>3. m \in DOMAIN matches
  BY <1>1 DEF Reserve, MatchTypes
<1>4. PICK g \in Seq(Int) : g = slots[m]
  BY <1>1 DEF MatchTypes
<1>5. PICK o \in Seq(Int) : o = ActionsOf(m)
  <2>1. ActionsOf(m) \in Seq(Int)
    BY <1>1 DEF MatchTypes, ActionsOf
  <2> QED BY <2>1
<1>6. /\ InOrder(g) /\ KeepsRate(g, ActionSpan, ActionCap)
      /\ Waiting(g, now, ActionSpan, ActionCap) /\ IsTailFrom(o, g, now - ActionSpan)
  BY <1>1, <1>3, <1>4, <1>5 DEF SlotsRemembered
<1>7. PICK w \in Seq(Int) : w = Pruned(o, now, ActionSpan)
  BY <1>1, <1>2, PrunedIsATail
<1>8. IsTailFrom(w, g, now - ActionSpan)
  <2>1. IsTailFrom(w, o, now - ActionSpan)
    BY <1>1, <1>2, <1>7, PrunedIsATail
  <2> QED BY <2>1, <1>2, <1>6, TailOfATail
<1>9. PICK slot : slot = Slot(w, now, ActionSpan, ActionCap)
  OBVIOUS
<1>10. /\ slot \in Int /\ slot >= now /\ InOrder(Append(g, slot))
       /\ Waiting(Append(g, slot), now, ActionSpan, ActionCap)
       /\ KeepsRate(Append(g, slot), ActionSpan, ActionCap)
       /\ \A t \in now..(slot - 1) : ~KeepsRate(Append(g, t), ActionSpan, ActionCap)
  BY <1>1, <1>2, <1>6, <1>8, <1>9, SlotIsTheEarliest
<1>11. IsTailFrom(Append(w, slot), Append(g, slot), now - ActionSpan)
  BY <1>2, <1>8, <1>10, AppendedToATail
<1>12. /\ actions' = [k \in DOMAIN actions \union {m} |->
                        IF k = m THEN Append(w, slot) ELSE actions[k]]
       /\ slots' = [slots EXCEPT ![m] = Append(g, slot)]
       /\ UNCHANGED <<now, limiter, matches, driving, ids, changed>>
  BY <1>4, <1>5, <1>7, <1>9 DEF Reserve, Remember
<1> QED BY <1>3, <1>4, <1>10, <1>11, <1>12

\* A reservation keeps the registry, and its match's slots remembered.
LEMMA ReserveKeepsTheMatches ==
  ASSUME IInv, NEW m \in Ids, Reserve(m)
  PROVE  MatchTypes' /\ AgesAreMinima' /\ SlotsRemembered'
<1>1. MatchTypes /\ AgesAreMinima /\ SlotsRemembered
  BY DEF IInv
<1>2. PICK w \in Seq(Int), g \in Seq(Int), slot \in Int :
        /\ m \in DOMAIN matches /\ g = slots[m]
        /\ actions' = [k \in DOMAIN actions \union {m} |->
                         IF k = m THEN Append(w, slot) ELSE actions[k]]
        /\ slots' = [slots EXCEPT ![m] = Append(g, slot)]
        /\ UNCHANGED <<now, limiter, matches, driving, ids, changed>>
        /\ InOrder(Append(g, slot))
        /\ KeepsRate(Append(g, slot), ActionSpan, ActionCap)
        /\ Waiting(Append(g, slot), now, ActionSpan, ActionCap)
        /\ IsTailFrom(Append(w, slot), Append(g, slot), now - ActionSpan)
  BY ReserveStep
<1>3. Append(w, slot) \in Seq(Int) /\ Append(g, slot) \in Seq(Int)
  OBVIOUS
<1>4. actions' \in [DOMAIN actions' -> Seq(Int)] /\ DOMAIN actions' \subseteq DOMAIN matches
  BY <1>1, <1>2, <1>3 DEF MatchTypes
<1>5. slots' \in [Ids -> Seq(Int)]
  BY <1>1, <1>2, <1>3 DEF MatchTypes
<1>6. \A k \in ids : slots'[k] = <<>>
  BY <1>1, <1>2 DEF MatchTypes
<1>7. MatchTypes'
  BY <1>1, <1>2, <1>4, <1>5, <1>6 DEF MatchTypes
<1>8. ASSUME NEW k \in Ids
      PROVE  /\ InOrder(slots'[k]) /\ KeepsRate(slots'[k], ActionSpan, ActionCap)
             /\ Waiting(slots'[k], now, ActionSpan, ActionCap)
             /\ k \in DOMAIN matches => IsTailFrom(ActionsOf(k)', slots'[k], now - ActionSpan)
  <2>1. CASE k = m
    <3>1. slots'[k] = Append(g, slot) /\ ActionsOf(k)' = Append(w, slot)
      BY <2>1, <1>1, <1>2 DEF MatchTypes, ActionsOf
    <3> QED BY <3>1, <1>2
  <2>2. CASE k # m
    <3>1. slots'[k] = slots[k] /\ ActionsOf(k)' = ActionsOf(k)
      BY <2>2, <1>1, <1>2 DEF MatchTypes, ActionsOf
    <3> QED BY <3>1, <1>1 DEF SlotsRemembered
  <2> QED BY <2>1, <2>2
<1>9. SlotsRemembered'
  BY <1>2, <1>8 DEF SlotsRemembered
<1> QED BY <1>1, <1>2, <1>7, <1>9 DEF AgesAreMinima

\* A creation drops the windows of the matches it evicts, and no other.
LEMMA CreateKeepsTheSlots ==
  ASSUME IInv, NEW ip \in Ips, NEW m \in Ids, Create(ip, m)
  PROVE  SlotsRemembered'
<1>1. MatchTypes /\ LimiterTypes /\ SlotsRemembered
  BY DEF IInv
<1>2. m \in ids /\ DOMAIN matches' \subseteq DOMAIN matches \union {m}
  BY <1>1, MatchesAfter
<1>3. /\ now' = now /\ slots' = slots
      /\ actions' = [k \in DOMAIN actions \ (DOMAIN matches \ DOMAIN matches') |-> actions[k]]
  BY DEF Create, ForgetMatches
<1>4. ASSUME NEW k \in Ids, k \in DOMAIN matches'
      PROVE  IsTailFrom(ActionsOf(k)', slots[k], now - ActionSpan)
  <2>1. CASE k \in DOMAIN matches
    <3>1. ActionsOf(k)' = ActionsOf(k)
      BY <2>1, <1>3, <1>4 DEF ActionsOf
    <3> QED BY <3>1, <2>1, <1>1 DEF SlotsRemembered
  <2>2. CASE k \notin DOMAIN matches
    <3>1. slots[k] = <<>> /\ ActionsOf(k)' = <<>>
      BY <2>2, <1>1, <1>2, <1>3, <1>4 DEF MatchTypes, ActionsOf
    <3> QED BY <3>1 DEF IsTailFrom
  <2> QED BY <2>1, <2>2
<1> QED BY <1>1, <1>3, <1>4 DEF SlotsRemembered

\* Time passes: what the windows have lost only gets older.
LEMMA TickKeepsIt ==
  ASSUME IInv, Tick PROVE IInv'
<1>1. /\ now \in Nat /\ now' = now + 1
      /\ UNCHANGED <<limiter, matches, driving, actions, ids, slots, changed>>
  BY DEF Tick, IInv, LimiterTypes
<1>2. LimiterTypes' /\ MatchTypes' /\ CreationRate' /\ ScannedInTime'
  BY <1>1 DEF limiter, IInv, LimiterTypes, MatchTypes, CreationRate, ScannedInTime
<1>3. AgesAreMinima'
  <2> SUFFICES ASSUME NEW k \in DOMAIN matches, changed[k] <= now PROVE changed[k] <= now + 1
    BY <1>1 DEF IInv, AgesAreMinima
  <2>1. changed[k] \in Nat
    BY DEF IInv, MatchTypes
  <2> QED BY <2>1, <1>1
<1>4. ASSUME NEW ip \in Ips
      PROVE  /\ InOrder(allowed[ip])
             /\ \A i \in 1..Len(allowed[ip]) : allowed[ip][i] <= now'
             /\ IsTailFrom(WindowOf(ip)', allowed[ip], now' - CreationSpan)
  <2>1. WindowOf(ip) \in Seq(Int) /\ allowed[ip] \in Seq(Int) /\ CreationSpan \in Int
    BY Constants DEF IInv, LimiterTypes, WindowOf
  <2>2. /\ InOrder(allowed[ip])
        /\ \A i \in 1..Len(allowed[ip]) : allowed[ip][i] <= now
        /\ IsTailFrom(WindowOf(ip), allowed[ip], now - CreationSpan)
    BY DEF IInv, Remembered
  <2>3. ASSUME NEW i \in 1..Len(allowed[ip]) PROVE allowed[ip][i] <= now'
    <3>1. allowed[ip][i] \in Int /\ allowed[ip][i] <= now
      BY <2>1, <2>2
    <3> QED BY <3>1, <1>1
  <2>4. /\ now - CreationSpan \in Int /\ now' - CreationSpan \in Int
        /\ now - CreationSpan <= now' - CreationSpan
    BY <2>1, <1>1
  <2>5. IsTailFrom(WindowOf(ip), allowed[ip], now' - CreationSpan)
    BY <2>1, <2>2, <2>4, TailAges
  <2>6. WindowOf(ip)' = WindowOf(ip)
    BY <1>1 DEF limiter, WindowOf
  <2> QED BY <2>2, <2>3, <2>5, <2>6
<1>5. Remembered'
  <2>1. allowed' = allowed
    BY <1>1 DEF limiter
  <2> QED BY <2>1, <1>4 DEF Remembered
<1>6. ASSUME NEW m \in Ids
      PROVE  /\ InOrder(slots[m]) /\ KeepsRate(slots[m], ActionSpan, ActionCap)
             /\ Waiting(slots[m], now', ActionSpan, ActionCap)
             /\ m \in DOMAIN matches => IsTailFrom(ActionsOf(m), slots[m], now' - ActionSpan)
  <2>1. /\ slots[m] \in Seq(Int) /\ ActionsOf(m) \in Seq(Int)
        /\ ActionSpan \in Nat /\ ActionCap \in Nat
    BY Constants DEF IInv, MatchTypes, ActionsOf
  <2>2. /\ InOrder(slots[m]) /\ KeepsRate(slots[m], ActionSpan, ActionCap)
        /\ Waiting(slots[m], now, ActionSpan, ActionCap)
        /\ m \in DOMAIN matches => IsTailFrom(ActionsOf(m), slots[m], now - ActionSpan)
    BY DEF IInv, SlotsRemembered
  <2>3. /\ now \in Int /\ now' \in Int /\ now <= now'
        /\ now - ActionSpan \in Int /\ now' - ActionSpan \in Int
        /\ now - ActionSpan <= now' - ActionSpan
    BY <2>1, <1>1
  <2>4. Waiting(slots[m], now', ActionSpan, ActionCap)
    BY <2>1, <2>2, <2>3, WaitingAges
  <2>5. m \in DOMAIN matches => IsTailFrom(ActionsOf(m), slots[m], now' - ActionSpan)
    BY <2>1, <2>2, <2>3, TailAges
  <2> QED BY <2>2, <2>4, <2>5
<1>7. SlotsRemembered'
  BY <1>1, <1>6 DEF SlotsRemembered, ActionsOf
<1> QED BY <1>2, <1>3, <1>5, <1>7 DEF IInv

\* No creation has been counted, and no match created.
LEMMA InitIsGood ==
  ASSUME Init PROVE IInv
<1>1. /\ now = 0 /\ windows = <<>> /\ pruneAt = [size |-> PruneThreshold, scan |-> 0]
      /\ matches = <<>> /\ driving = {} /\ actions = <<>> /\ ids = Ids /\ posts = 0
      /\ busiest = 0
      /\ allowed = [ip \in Ips |-> <<>>] /\ slots = [m \in Ids |-> <<>>]
      /\ changed = [m \in Ids |-> 0]
  BY DEF Init
<1>2. DOMAIN windows = {} /\ DOMAIN matches = {} /\ DOMAIN actions = {}
  BY <1>1
<1>3. LimiterTypes
  BY <1>1, <1>2, Constants DEF LimiterTypes
<1>4. MatchTypes
  BY <1>1, <1>2 DEF MatchTypes
<1>5. Remembered /\ CreationRate
  <2>1. ASSUME NEW ip \in Ips
        PROVE  /\ allowed[ip] = <<>> /\ Len(allowed[ip]) = 0 /\ WindowOf(ip) = <<>>
               /\ CreationCap \in Nat \ {0}
    BY <1>1, <1>2, Constants DEF WindowOf
  <2>0. /\ Len(<<>>) = 0 /\ InOrder(<<>>)
        /\ \A t \in Int : IsTailFrom(<<>>, <<>>, t)
    BY DEF InOrder, IsTailFrom
  <2>2. Remembered
    <3>1. now - CreationSpan \in Int
      BY <1>1, Constants
    <3> QED BY <3>1, <2>0, <2>1 DEF Remembered
  <2>3. CreationRate
    BY <2>1 DEF CreationRate, KeepsRate
  <2> QED BY <2>2, <2>3
<1>6. ScannedInTime
  BY <1>1, <1>2, Constants, FS_EmptySet DEF ScannedInTime
<1>7. AgesAreMinima
  BY <1>2 DEF AgesAreMinima
<1>8. SlotsRemembered
  <2>1. \A m \in Ids : slots[m] = <<>> /\ m \notin DOMAIN matches
    BY <1>1, <1>2
  <2>2. /\ InOrder(<<>>) /\ KeepsRate(<<>>, ActionSpan, ActionCap)
        /\ Waiting(<<>>, now, ActionSpan, ActionCap)
    BY Constants DEF InOrder, KeepsRate, Waiting
  <2> QED BY <2>1, <2>2 DEF SlotsRemembered
<1> QED BY <1>3, <1>4, <1>5, <1>6, <1>7, <1>8 DEF IInv

\* Every step keeps the invariant.
LEMMA NextKeepsIt ==
  ASSUME IInv, [Next]_vars PROVE IInv'
<1>1. CASE UNCHANGED vars
  BY <1>1 DEF vars, limiter, IInv, LimiterTypes, MatchTypes, Remembered, WindowOf,
              CreationRate, ScannedInTime, AgesAreMinima, SlotsRemembered, ActionsOf
<1>2. CASE Tick
  BY <1>2, TickKeepsIt
<1>3. ASSUME NEW ip \in Ips, TooMany(ip) PROVE IInv'
  <2>1. CountCreation(ip, FALSE) /\ UNCHANGED <<now, matches, driving, actions, ids, slots, changed>>
    BY <1>3 DEF TooMany
  <2>2. LimiterTypes' /\ Remembered' /\ CreationRate' /\ ScannedInTime'
    BY <2>1, CountKeepsTheLimiter
  <2>3. MatchTypes' /\ AgesAreMinima' /\ SlotsRemembered'
    BY <2>1 DEF IInv, MatchTypes, AgesAreMinima, SlotsRemembered, ActionsOf
  <2> QED BY <2>2, <2>3 DEF IInv
<1>4. ASSUME NEW ip \in Ips, BadRequest(ip) PROVE IInv'
  <2>1. /\ CountCreation(ip, TRUE) /\ Len(Window(ip)) < CreationCap
        /\ UNCHANGED <<now, matches, driving, actions, ids, slots, changed>>
    BY <1>4 DEF BadRequest
  <2>2. LimiterTypes' /\ Remembered' /\ CreationRate' /\ ScannedInTime'
    BY <2>1, CountKeepsTheLimiter
  <2>3. MatchTypes' /\ AgesAreMinima' /\ SlotsRemembered'
    BY <2>1 DEF IInv, MatchTypes, AgesAreMinima, SlotsRemembered, ActionsOf
  <2> QED BY <2>2, <2>3 DEF IInv
<1>5. ASSUME NEW ip \in Ips, NEW m \in Ids, Create(ip, m) PROVE IInv'
  <2>1. CountCreation(ip, TRUE) /\ Len(Window(ip)) < CreationCap /\ now' = now
    BY <1>5 DEF Create
  <2>2. LimiterTypes' /\ Remembered' /\ CreationRate' /\ ScannedInTime'
    BY <2>1, CountKeepsTheLimiter
  <2> QED BY <2>2, <1>5, CreateKeepsTheMatches, CreateKeepsTheSlots DEF IInv
<1>6. ASSUME NEW m \in Ids, Start(m) \/ Commit(m) \/ End(m) \/ Return(m) PROVE IInv'
  <2>1. /\ MatchTypes' /\ AgesAreMinima' /\ DOMAIN matches' = DOMAIN matches
        /\ UNCHANGED <<now, limiter, actions, slots>>
    BY <1>6, DriverStep
  <2>2. LimiterTypes' /\ Remembered' /\ CreationRate' /\ ScannedInTime'
    BY <2>1 DEF limiter, IInv, LimiterTypes, Remembered, WindowOf, CreationRate, ScannedInTime
  <2>3. SlotsRemembered'
    BY <2>1 DEF IInv, SlotsRemembered, ActionsOf
  <2> QED BY <2>1, <2>2, <2>3 DEF IInv
<1>7. ASSUME NEW m \in Ids, Reserve(m) PROVE IInv'
  <2>1. MatchTypes' /\ AgesAreMinima' /\ SlotsRemembered' /\ UNCHANGED <<now, limiter>>
    BY <1>7, ReserveKeepsTheMatches DEF Reserve
  <2>2. LimiterTypes' /\ Remembered' /\ CreationRate' /\ ScannedInTime'
    BY <2>1 DEF limiter, IInv, LimiterTypes, Remembered, WindowOf, CreationRate, ScannedInTime
  <2> QED BY <2>1, <2>2 DEF IInv
<1> QED BY <1>1, <1>2, <1>3, <1>4, <1>5, <1>6, <1>7 DEF Next

----------------------------------------------------------------------------
(* The theorems *)

\* The invariant holds of every reachable state.
LEMMA IInvHolds == Spec => []IInv
<1>1. Init => IInv
  BY InitIsGood
<1>2. IInv /\ [Next]_vars => IInv'
  BY NextKeepsIt
<1> QED BY <1>1, <1>2, PTL DEF Spec

\* check_match_creation allows an address no more than the cap in any span, whatever
\* the scans of RateLimiter._window have dropped in between.
THEOREM CreationsKeepTheRate == Spec => []CreationRate
<1>1. IInv => CreationRate
  BY DEF IInv
<1> QED BY <1>1, IInvHolds, PTL

\* The dict of address windows holds the threshold, or twice the addresses that have
\* been active at once; and no window of a match outlives it.
THEOREM WindowsStayBounded == Spec => []WindowsBounded
<1>1. IInv => WindowsBounded
  <2> SUFFICES ASSUME IInv PROVE WindowsBounded
    OBVIOUS
  <2>1. DOMAIN actions \subseteq DOMAIN matches
    BY DEF IInv, MatchTypes
  <2>2. /\ PruneThreshold \in Int /\ 2 * busiest \in Int /\ pruneAt.size \in Int
        /\ Cardinality(DOMAIN windows) \in Int
    <3>1. IsFiniteSet(DOMAIN windows)
      BY Constants, FS_Subset DEF IInv, LimiterTypes
    <3> QED BY <3>1, Constants, FS_CardinalityType DEF IInv, LimiterTypes
  <2>3. /\ Max({PruneThreshold, 2 * busiest}) \in {PruneThreshold, 2 * busiest}
        /\ Max({PruneThreshold, 2 * busiest}) >= PruneThreshold
        /\ Max({PruneThreshold, 2 * busiest}) >= 2 * busiest
    BY <2>2, MaxOfTwo
  <2>4. /\ Cardinality(DOMAIN windows) <= pruneAt.size
        /\ pruneAt.size = PruneThreshold \/ pruneAt.size <= 2 * busiest
    BY DEF IInv, ScannedInTime
  <2>5. Cardinality(DOMAIN windows) <= Max({PruneThreshold, 2 * busiest})
    BY <2>2, <2>3, <2>4
  <2> QED BY <2>1, <2>5 DEF WindowsBounded
<1> QED BY <1>1, IInvHolds, PTL

\* A sweep evicts no match with a driver, and any other only when it has been
\* unchanged for its limit, or to make room in a full registry.
LEMMA EvictedInTime ==
  ASSUME IInv, [Next]_vars, NEW m \in DOMAIN matches \ DOMAIN matches'
  PROVE  /\ m \notin driving
         /\ \/ now - changed[m] >= Limit(matches[m].lifecycle)
            \/ Sheddable(m) /\ Cardinality(DOMAIN matches) >= MaxMatches
<1>1. MatchTypes /\ LimiterTypes /\ AgesAreMinima /\ now \in Nat
  BY DEF IInv, LimiterTypes
<1>2. \E ip \in Ips, k \in Ids : Create(ip, k)
  <2>1. CASE UNCHANGED vars
    BY <2>1 DEF vars
  <2>2. CASE Tick
    BY <2>2 DEF Tick
  <2>3. CASE \E ip \in Ips : TooMany(ip) \/ BadRequest(ip)
    BY <2>3 DEF TooMany, BadRequest
  <2>4. CASE \E k \in Ids : Start(k) \/ Commit(k) \/ End(k) \/ Return(k)
    BY <2>4, DriverStep
  <2>5. CASE \E k \in Ids : Reserve(k)
    BY <2>5 DEF Reserve
  <2> QED BY <2>1, <2>2, <2>3, <2>4, <2>5 DEF Next
<1>3. m \in TooOld \/ (Sheddable(m) /\ Cardinality(DOMAIN matches) >= MaxMatches)
  BY <1>1, <1>2, MatchesAfter
<1>4. CASE Sheddable(m) /\ Cardinality(DOMAIN matches) >= MaxMatches
  BY <1>4 DEF Sheddable
<1>5. CASE m \in TooOld
  <2>1. m \notin driving /\ now - Seen(m).at >= Limit(matches[m].lifecycle)
    BY <1>5 DEF TooOld
  <2>2. /\ changed[m] \in Nat /\ changed[m] <= now /\ matches[m] \in Match
        /\ matches[m].activity = <<matches[m].lifecycle, matches[m].turns>>
             => changed[m] <= matches[m].at
    BY <1>1 DEF MatchTypes, AgesAreMinima
  <2>3. changed[m] <= Seen(m).at /\ Seen(m).at \in Nat
    <3>1. CASE matches[m].activity = <<matches[m].lifecycle, matches[m].turns>>
      <4>1. Seen(m) = matches[m]
        BY <3>1 DEF Seen
      <4> QED BY <4>1, <3>1, <2>2 DEF Match
    <3>2. CASE matches[m].activity # <<matches[m].lifecycle, matches[m].turns>>
      <4>1. Seen(m).at = now
        BY <3>2, <2>1, <2>2 DEF Seen, Match
      <4> QED BY <4>1, <2>2, <1>1
    <3> QED BY <3>1, <3>2
  <2>4. Limit(matches[m].lifecycle) \in Nat
    BY RegistryAssumption DEF RegistryAssumption, Limit
  <2>5. now - changed[m] >= Limit(matches[m].lifecycle)
    BY <2>1, <2>2, <2>3, <2>4, <1>1
  <2> QED BY <2>1, <2>5
<1> QED BY <1>3, <1>4, <1>5

\* evict_expired: every age it evicts at is a minimum, counted from the last change,
\* and a match that is driven stays.
THEOREM EvictionsRespectTheLimits == Spec => LimitsAreMinima
<1>1. IInv /\ [Next]_vars =>
        [\A m \in DOMAIN matches \ DOMAIN matches' :
           /\ m \notin driving
           /\ \/ now - changed[m] >= Limit(matches[m].lifecycle)
              \/ Sheddable(m) /\ Cardinality(DOMAIN matches) >= MaxMatches]_vars
  BY EvictedInTime
<1> QED BY <1>1, IInvHolds, PTL DEF LimitsAreMinima, Spec

\* To the slots of one match, a step of the registry is a step of ActionSlots, or none.
LEMMA SlotsStep ==
  ASSUME IInv, [Next]_vars, NEW m \in Ids
  PROVE  [Slots(m)!Next]_(Slots(m)!vars)
<1> USE DEF Slots!vars, Slots!Next
<1>1. MatchTypes /\ LimiterTypes /\ now \in Nat
  BY DEF IInv, LimiterTypes
<1>2. CASE UNCHANGED <<now, matches, slots>>
  BY <1>2
<1>3. CASE Tick
  <2>1. now' = now + 1 /\ UNCHANGED <<matches, slots>>
    BY <1>3 DEF Tick
  <2> QED BY <2>1, <1>1 DEF Slots!Tick
<1>4. ASSUME NEW ip \in Ips, NEW k \in Ids, Create(ip, k)
      PROVE  [Slots(m)!Next]_(Slots(m)!vars)
  <2>1. /\ k \in ids /\ k \notin DOMAIN matches
        /\ DOMAIN matches' \subseteq DOMAIN matches \union {k}
    BY <1>1, <1>4, MatchesAfter
  <2>2. now' = now /\ slots' = slots
    BY <1>4 DEF Create
  <2>3. CASE m \in DOMAIN matches /\ m \in DOMAIN matches'
    BY <2>2, <2>3
  <2>4. CASE m \in DOMAIN matches /\ m \notin DOMAIN matches'
    BY <2>2, <2>4 DEF Slots!Forget
  <2>5. CASE m \notin DOMAIN matches
    <3>1. CASE m \in DOMAIN matches'
      <4>1. slots[m] = <<>>
        BY <3>1, <2>1, <2>5, <1>1 DEF MatchTypes
      <4> QED BY <4>1, <3>1, <2>2, <2>5 DEF Slots!Open
    <3>2. CASE m \notin DOMAIN matches'
      BY <3>2, <2>2, <2>5
    <3> QED BY <3>1, <3>2
  <2> QED BY <2>3, <2>4, <2>5
<1>5. ASSUME NEW k \in Ids, Start(k) \/ Commit(k) \/ End(k) \/ Return(k)
      PROVE  [Slots(m)!Next]_(Slots(m)!vars)
  <2>1. DOMAIN matches' = DOMAIN matches /\ UNCHANGED <<now, slots>>
    BY <1>5, DriverStep
  <2> QED BY <2>1
<1>6. ASSUME NEW k \in Ids, Reserve(k) PROVE [Slots(m)!Next]_(Slots(m)!vars)
  <2>1. PICK w \in Seq(Int), g \in Seq(Int), slot \in Int :
          /\ k \in DOMAIN matches /\ g = slots[k]
          /\ slots' = [slots EXCEPT ![k] = Append(g, slot)]
          /\ UNCHANGED <<now, limiter, matches, driving, ids, changed>>
          /\ slot >= now
          /\ KeepsRate(Append(g, slot), ActionSpan, ActionCap)
          /\ \A t \in now..(slot - 1) : ~KeepsRate(Append(g, t), ActionSpan, ActionCap)
    BY <1>6, ReserveStep
  <2>2. CASE k = m
    <3>1. slots[m] = g /\ slots'[m] = Append(g, slot)
      BY <2>1, <2>2, <1>1 DEF MatchTypes
    <3>2. slot \in Slots(m)!Range(slots'[m])
      <4>1. Len(g) + 1 \in DOMAIN Append(g, slot) /\ Append(g, slot)[Len(g) + 1] = slot
        OBVIOUS
      <4> QED BY <3>1, <4>1 DEF Slots!Range
    <3>3. Slots(m)!Earliest(slot)
      BY <2>1, <3>1 DEF Slots!Earliest, Slots!KeepsRate, KeepsRate
    <3>4. Slots(m)!Reserve
      BY <2>1, <2>2, <3>1, <3>2, <3>3 DEF Slots!Reserve
    <3> QED BY <3>4
  <2>3. CASE k # m
    <3>1. slots'[m] = slots[m]
      BY <2>1, <2>3, <1>1 DEF MatchTypes
    <3> QED BY <3>1, <2>1, <2>3
  <2> QED BY <2>2, <2>3
<1>7. CASE UNCHANGED vars
  BY <1>2, <1>7 DEF vars
<1>8. CASE \E ip \in Ips : TooMany(ip) \/ BadRequest(ip)
  BY <1>2, <1>8 DEF TooMany, BadRequest
<1> QED BY <1>3, <1>4, <1>5, <1>6, <1>7, <1>8 DEF Next

\* reserve_action and forget_match, in the registry, are ActionSlots for each match: an
\* action is given the first moment that keeps the rate of all the match was ever given,
\* although its window has forgotten most of them, and never once it is evicted.
THEOREM EachMatchHasItsSlots == Spec => ActionsKeepTheirSlots
<1>1. IInv /\ [Next]_vars => [\A m \in Ids : [Slots(m)!Next]_(Slots(m)!vars)]_vars
  BY SlotsStep
<1> QED BY <1>1, IInvHolds, PTL DEF ActionsKeepTheirSlots, Spec
=============================================================================
