--------------------------- MODULE SeatClientsProofs ---------------------------
(***************************************************************************)
(* What the two clients promise holds for every length of match, retry     *)
(* budget and number of actions.                                           *)
(*                                                                         *)
(* The frames a client has not handled yet are in two places: received and *)
(* kept (backlog, queue), and on the wire (down).  Among them those that   *)
(* ask the client for an action and those that confirm its own matter.     *)
(* The invariant is that server and client take turns: of a request not    *)
(* read, a decision under way and an action on its way there is at most    *)
(* one, each of them means that the server is asking for the present turn, *)
(* and behind a request nothing else of the kind follows.  That no frame   *)
(* overtakes another on the way from the wire to the client, though tools  *)
(* defer frames and put them back, is what keeps it.                       *)
(***************************************************************************)
EXTENDS SeatClients, TLAPS

IsAsk(e) == e.kind = "observation" \/ (e.kind = "rejected" /\ e.n > 0)
IsOwn(e) == e.kind = "turn" /\ e.n > 0

HasAsk(E) == \E e \in E : IsAsk(e)
Quiet(E) == \A e \in E : ~IsAsk(e) /\ ~IsOwn(e)

\* Nothing that asks or confirms comes after a request.
AskLast(s) ==
  \A i, j \in DOMAIN s : i < j /\ IsAsk(s[i]) => ~IsAsk(s[j]) /\ ~IsOwn(s[j])

\* What has been received, and what has been sent, and is not handled yet.
Kept == ToSet(backlog) \union ToSet(queue)
Pipe == Kept \union ToSet(down)

Deciding == sdk = "choosing" \/ may
Observed == IF sdk = "off" THEN seen ELSE obs

Links == {"dialing", "open", "ended", "known", "refused"}
Lives == {"running"} \union Terminal
Events == Frames \union {Lost, Raw}
Actions == [id : Nat \ {0}, for : Int]

WireTypes ==
  /\ link \in Links /\ life \in Lives /\ told \in {"none"} \union Terminal
  /\ phase \in {"idle", "asked", "acted"}
  /\ down \in Seq(Frames) /\ up \in Seq(Actions)
  /\ sent \in Nat /\ turn \in Nat /\ retries \in Nat
  /\ act \in [id : Nat, for : Int, turn : Nat]

ClientTypes ==
  /\ sdk \in {"off", "next", "choosing", "done"} /\ obs \in Int
  /\ backlog \in Seq(Events)
  /\ tool \in {"off", "none", "observe", "move"}
  /\ queue \in Seq(Frames) /\ deferred \in Seq(Frames)
  /\ seen \in Nat /\ moved \in Nat /\ may \in BOOLEAN

\* A seat is played by one of the clients; the other has nothing.
OneClient ==
  /\ sdk = "off" \/ tool = "off"
  /\ sdk = "off" => backlog = <<>>
  /\ tool = "off" => ~loop /\ ~held /\ ~may /\ queue = <<>> /\ deferred = <<>>

\* What a tool puts aside asks, confirms and ends nothing.
InOrder ==
  /\ AskLast(backlog) /\ AskLast(queue) /\ AskLast(down)
  /\ HasAsk(Kept) => Quiet(ToSet(down))
  /\ Quiet(ToSet(deferred)) /\ \A e \in ToSet(deferred) : e.kind \notin Terminal

TakingTurns ==
  /\ HasAsk(Pipe) => ~Deciding /\ up = <<>>
  /\ Deciding => up = <<>>
  /\ HasAsk(Pipe) \/ Deciding \/ up # <<>> => phase = "asked"
  /\ Len(up) <= 1

\* Each of the three is about the turn the server is at.
AboutThisTurn ==
  /\ \A e \in Pipe : e.kind = "observation" => e.n = turn
  /\ (\E e \in Pipe : e.kind = "rejected" /\ e.n > 0) => Observed = turn
  /\ Deciding => Observed = turn
  /\ up # <<>> => up[1].for = turn /\ Observed = turn

\* The action make_move sent last is the only one whose confirmation is to come.
LastMove ==
  tool # "off" =>
    /\ \A e \in Pipe : IsOwn(e) => e.n = moved
    /\ up # <<>> => up[1].id = moved
    /\ phase = "acted" => act.id = moved
    /\ may => Quiet(Pipe) /\ ~(reply.tool = "move" /\ reply.kind = "turn")

\* A terminal frame tells how the match ended; one that arrives is read before the
\* end of the connection is.
EndIsTold ==
  /\ \A e \in Pipe : e.kind \in Terminal => life = e.kind
  /\ told # "none" /\ sdk \in {"next", "choosing"} =>
       \E e \in ToSet(backlog) \union ToSet(down) : e.kind \in Terminal
  /\ sdk \in {"next", "choosing"} =>
       \A i \in DOMAIN backlog : backlog[i].kind = "lost" =>
         /\ link = "known"
         /\ told # "none" => \E j \in DOMAIN backlog : j < i /\ backlog[j].kind \in Terminal
  /\ sdk = "done" => link \in {"known", "refused"}

IInv ==
  /\ WireTypes /\ ClientTypes /\ OneClient
  /\ InOrder /\ TakingTurns /\ AboutThisTurn /\ LastMove /\ EndIsTold
  /\ ActionsAnswerTheirTurn /\ MoveConfirmsItself /\ OutcomeIsTheMatchs

----------------------------------------------------------------------------
(* Sequences of frames *)

\* The first of a sequence, and the rest.
LEMMA Headed ==
  ASSUME NEW S, NEW s \in Seq(S), s # <<>>
  PROVE  /\ Head(s) \in S /\ Tail(s) \in Seq(S) /\ Len(Tail(s)) = Len(s) - 1
         /\ Head(s) \in ToSet(s) /\ ToSet(Tail(s)) \subseteq ToSet(s)
         /\ ToSet(s) = {Head(s)} \union ToSet(Tail(s))
         /\ AskLast(s) => AskLast(Tail(s))
         /\ AskLast(s) /\ IsAsk(Head(s)) => Quiet(ToSet(Tail(s)))
<1>1. /\ Head(s) = s[1] /\ Head(s) \in S /\ Len(s) \in Nat /\ Len(s) >= 1
      /\ Tail(s) \in Seq(S) /\ Len(Tail(s)) = Len(s) - 1
      /\ \A i \in 1..(Len(s) - 1) : Tail(s)[i] = s[i + 1]
      /\ DOMAIN s = 1..Len(s) /\ DOMAIN Tail(s) = 1..(Len(s) - 1)
  OBVIOUS
<1> DEFINE t == Tail(s) n == Len(s)
<1> HIDE DEF t, n
<1>2. /\ Head(s) = s[1] /\ n \in Nat /\ n >= 1
      /\ \A i \in 1..(n - 1) : t[i] = s[i + 1]
      /\ DOMAIN s = 1..n /\ DOMAIN t = 1..(n - 1)
  BY <1>1 DEF t, n
<1>3. ToSet(s) = {Head(s)} \union ToSet(t)
  <2>1. ASSUME NEW i \in 1..n PROVE s[i] \in {Head(s)} \union ToSet(t)
    <3>1. CASE i = 1
      BY <3>1, <1>2
    <3>2. CASE i # 1
      <4>1. i - 1 \in 1..(n - 1) /\ t[i - 1] = s[i]
        BY <3>2, <1>2
      <4> QED BY <4>1, <1>2 DEF ToSet
    <3> QED BY <3>1, <3>2
  <2>2. ASSUME NEW i \in 1..(n - 1) PROVE t[i] \in ToSet(s)
    <3>1. i + 1 \in 1..n /\ t[i] = s[i + 1]
      BY <1>2
    <3> QED BY <3>1, <1>2 DEF ToSet
  <2>3. 1 \in 1..n
    BY <1>2
  <2> QED BY <2>1, <2>2, <2>3, <1>2 DEF ToSet
<1>4. AskLast(s) => AskLast(t)
  <2> SUFFICES ASSUME AskLast(s), NEW i \in 1..(n - 1), NEW j \in 1..(n - 1),
                      i < j, IsAsk(t[i])
               PROVE  ~IsAsk(t[j]) /\ ~IsOwn(t[j])
    BY <1>2 DEF AskLast
  <2>1. /\ i + 1 \in 1..n /\ j + 1 \in 1..n /\ i + 1 < j + 1
        /\ t[i] = s[i + 1] /\ t[j] = s[j + 1]
    BY <1>2
  <2> QED BY <2>1, <1>2 DEF AskLast
<1>5. AskLast(s) /\ IsAsk(Head(s)) => Quiet(ToSet(t))
  <2> SUFFICES ASSUME AskLast(s), IsAsk(Head(s)), NEW i \in 1..(n - 1)
               PROVE  ~IsAsk(t[i]) /\ ~IsOwn(t[i])
    BY <1>2 DEF Quiet, ToSet
  <2>1. 1 \in 1..n /\ i + 1 \in 1..n /\ 1 < i + 1 /\ t[i] = s[i + 1]
    BY <1>2
  <2> QED BY <2>1, <1>2 DEF AskLast
<1> QED BY <1>1, <1>3, <1>4, <1>5 DEF t

\* Frames behind frames.
LEMMA Joined ==
  ASSUME NEW S, NEW s \in Seq(S), NEW t \in Seq(S)
  PROVE  /\ s \o t \in Seq(S) /\ ToSet(s \o t) = ToSet(s) \union ToSet(t)
         /\ AskLast(s) /\ Quiet(ToSet(t)) => AskLast(s \o t)
         /\ ~HasAsk(ToSet(s)) /\ AskLast(t) => AskLast(s \o t)
<1> DEFINE r == s \o t m == Len(s) n == Len(t)
<1>1. /\ r \in Seq(S) /\ m \in Nat /\ n \in Nat /\ Len(r) = m + n
      /\ DOMAIN s = 1..m /\ DOMAIN t = 1..n /\ DOMAIN r = 1..(m + n)
      /\ \A i \in 1..m : r[i] = s[i]
      /\ \A i \in (m + 1)..(m + n) : r[i] = t[i - m]
  OBVIOUS
<1> HIDE DEF r, m, n
<1>2. ASSUME NEW i \in 1..(m + n)
      PROVE  \/ i \in 1..m /\ r[i] = s[i]
             \/ i \notin 1..m /\ i - m \in 1..n /\ r[i] = t[i - m]
  <2>1. CASE i \in 1..m
    BY <2>1, <1>1
  <2>2. CASE i \notin 1..m
    <3>1. i \in (m + 1)..(m + n) /\ i - m \in 1..n
      BY <2>2, <1>1
    <3> QED BY <2>2, <3>1, <1>1
  <2> QED BY <2>1, <2>2
<1>3. ToSet(r) = ToSet(s) \union ToSet(t)
  <2>1. ASSUME NEW i \in 1..(m + n) PROVE r[i] \in ToSet(s) \union ToSet(t)
    BY <1>1, <1>2 DEF ToSet
  <2>2. ASSUME NEW i \in 1..m PROVE s[i] \in ToSet(r)
    <3>1. i \in 1..(m + n) /\ r[i] = s[i]
      BY <1>1
    <3> QED BY <3>1, <1>1 DEF ToSet
  <2>3. ASSUME NEW i \in 1..n PROVE t[i] \in ToSet(r)
    <3>1. m + i \in (m + 1)..(m + n) /\ m + i \in 1..(m + n) /\ (m + i) - m = i
      BY <1>1
    <3>2. r[m + i] = t[i]
      BY <3>1, <1>1
    <3> QED BY <3>1, <3>2, <1>1 DEF ToSet
  <2> QED BY <2>1, <2>2, <2>3, <1>1 DEF ToSet
<1>4. ASSUME AskLast(s), Quiet(ToSet(t)) PROVE AskLast(r)
  <2> SUFFICES ASSUME NEW i \in 1..(m + n), NEW j \in 1..(m + n), i < j, IsAsk(r[i])
               PROVE  ~IsAsk(r[j]) /\ ~IsOwn(r[j])
    BY <1>1 DEF AskLast
  <2>1. CASE j \in 1..m
    <3>1. i \in 1..m /\ r[i] = s[i] /\ r[j] = s[j]
      BY <2>1, <1>1
    <3> QED BY <3>1, <2>1, <1>1, <1>4 DEF AskLast
  <2>2. CASE j \notin 1..m
    <3>1. r[j] \in ToSet(t)
      BY <2>2, <1>1, <1>2 DEF ToSet
    <3> QED BY <3>1, <1>4 DEF Quiet
  <2> QED BY <2>1, <2>2
<1>5. ASSUME ~HasAsk(ToSet(s)), AskLast(t) PROVE AskLast(r)
  <2> SUFFICES ASSUME NEW i \in 1..(m + n), NEW j \in 1..(m + n), i < j, IsAsk(r[i])
               PROVE  ~IsAsk(r[j]) /\ ~IsOwn(r[j])
    BY <1>1 DEF AskLast
  <2>1. i \notin 1..m
    <3> SUFFICES ASSUME i \in 1..m PROVE FALSE
      OBVIOUS
    <3>1. r[i] \in ToSet(s)
      BY <1>1 DEF ToSet
    <3> QED BY <3>1, <1>5 DEF HasAsk
  <2>2. j \notin 1..m /\ i - m < j - m
    BY <2>1, <1>1
  <2>3. i - m \in 1..n /\ j - m \in 1..n /\ r[i] = t[i - m] /\ r[j] = t[j - m]
    BY <2>1, <2>2, <1>2
  <2> QED BY <2>2, <2>3, <1>1, <1>5 DEF AskLast
<1> QED BY <1>1, <1>3, <1>4, <1>5 DEF r

\* Short sequences.
LEMMA Short ==
  ASSUME NEW S, NEW a \in S, NEW b \in S
  PROVE  /\ <<a>> \in Seq(S) /\ ToSet(<<a>>) = {a} /\ AskLast(<<a>>)
         /\ <<a, b>> \in Seq(S) /\ ToSet(<<a, b>>) = {a, b}
         /\ <<>> \in Seq(S) /\ ToSet(<<>>) = {} /\ AskLast(<<>>)
<1>1. DOMAIN <<a>> = {1} /\ DOMAIN <<a, b>> = {1, 2} /\ DOMAIN <<>> = {}
        /\ <<a>>[1] = a /\ <<a, b>>[1] = a /\ <<a, b>>[2] = b
  OBVIOUS
<1>2. ToSet(<<a>>) = {a} /\ ToSet(<<a, b>>) = {a, b} /\ ToSet(<<>>) = {}
  BY <1>1 DEF ToSet
<1>3. AskLast(<<a>>) /\ AskLast(<<>>)
  BY <1>1 DEF AskLast
<1>4. <<a>> \in Seq(S) /\ <<a, b>> \in Seq(S) /\ <<>> \in Seq(S)
  OBVIOUS
<1> QED BY <1>2, <1>3, <1>4

\* One more at the end.
LEMMA Appended ==
  ASSUME NEW S, NEW s \in Seq(S), NEW e \in S
  PROVE  /\ Append(s, e) \in Seq(S) /\ ToSet(Append(s, e)) = ToSet(s) \union {e}
         /\ AskLast(s) /\ ~IsAsk(e) /\ ~IsOwn(e) => AskLast(Append(s, e))
         /\ ~HasAsk(ToSet(s)) => AskLast(Append(s, e))
<1>1. Append(s, e) = s \o <<e>>
  OBVIOUS
<1>2. <<e>> \in Seq(S) /\ ToSet(<<e>>) = {e} /\ AskLast(<<e>>)
  BY Short
<1>3. /\ s \o <<e>> \in Seq(S) /\ ToSet(s \o <<e>>) = ToSet(s) \union ToSet(<<e>>)
      /\ AskLast(s) /\ Quiet(ToSet(<<e>>)) => AskLast(s \o <<e>>)
      /\ ~HasAsk(ToSet(s)) /\ AskLast(<<e>>) => AskLast(s \o <<e>>)
  <2>1. <<e>> \in Seq(S)
    BY <1>2
  <2> QED BY <2>1, Joined
<1>4. ~IsAsk(e) /\ ~IsOwn(e) => Quiet({e})
  BY DEF Quiet
<1> QED BY <1>1, <1>2, <1>3, <1>4

\* A connection that is lost loses the last frames.
LEMMA Prefix ==
  ASSUME NEW S, NEW s \in Seq(S), NEW k \in 0..Len(s)
  PROVE  /\ SubSeq(s, 1, k) \in Seq(S) /\ ToSet(SubSeq(s, 1, k)) \subseteq ToSet(s)
         /\ AskLast(s) => AskLast(SubSeq(s, 1, k))
<1> DEFINE r == SubSeq(s, 1, k)
<1>1. /\ r \in Seq(S) /\ Len(r) = k /\ DOMAIN r = 1..k /\ DOMAIN s = 1..Len(s)
      /\ \A i \in 1..k : r[i] = s[i]
      /\ k \in Nat /\ Len(s) \in Nat /\ k <= Len(s)
  OBVIOUS
<1> HIDE DEF r
<1>2. \A i \in 1..k : i \in 1..Len(s) /\ r[i] = s[i]
  BY <1>1
<1>3. ToSet(r) \subseteq ToSet(s)
  BY <1>1, <1>2 DEF ToSet
<1>4. AskLast(s) => AskLast(r)
  BY <1>1, <1>2 DEF AskLast
<1> QED BY <1>1, <1>3, <1>4 DEF r

\* What a send does to the frames on the wire, whether the seat is there or not.
LEMMA Pushed ==
  ASSUME down \in Seq(Frames), NEW f \in Seq(Frames), Push(f)
  PROVE  /\ down' \in Seq(Frames)
         /\ ToSet(down') \subseteq ToSet(down) \union ToSet(f)
         /\ ToSet(down) \subseteq ToSet(down')
         /\ link = "open" => ToSet(f) \subseteq ToSet(down')
         /\ AskLast(down) /\ Quiet(ToSet(f)) => AskLast(down')
         /\ AskLast(down) /\ ~HasAsk(ToSet(down)) /\ AskLast(f) => AskLast(down')
<1>1. CASE link = "open"
  <2>1. down' = down \o f
    BY <1>1 DEF Push
  <2> QED BY <2>1, Joined
<1>2. CASE link # "open"
  <2>1. down' = down
    BY <1>2 DEF Push
  <2> QED BY <2>1, <1>2
<1> QED BY <1>1, <1>2

----------------------------------------------------------------------------
(* The wire *)

\* The constants are bounds of the match.
LEMMA Constants == MaxTurns \in Nat /\ RetryBudget \in Nat /\ MaxSends \in Nat
BY WireAssumption DEF WireAssumption

\* What the clients keep, when they take no step.
LEMMA ClientsStay ==
  ASSUME UNCHANGED <<sdkVars, mcpVars>>
  PROVE  /\ UNCHANGED <<sdk, obs, backlog, outcome>>
         /\ UNCHANGED <<held, loop, queue, history, status>>
         /\ UNCHANGED <<tool, deferred, moved, seen, may, idle, reply>>
         /\ Kept' = Kept /\ Observed' = Observed /\ (Deciding' <=> Deciding)
BY DEF sdkVars, mcpVars, Kept, Observed, Deciding

\* A step of the server or of the connection keeps the invariant when it sends a
\* request or a confirmation in its turn only, leaves the rest of an exchange alone,
\* and when the frame of the end is sent to a seat that is there.
LEMMA WireKeepsIt ==
  ASSUME IInv, UNCHANGED <<sdkVars, mcpVars>>, WireTypes', AskLast(down'),
         \A e \in ToSet(down') \ ToSet(down) :
           /\ e.kind \in Terminal => life' = e.kind
           /\ IsOwn(e) => ~HasAsk(Pipe) /\ ~may /\ (tool # "off" => e.n = moved)
           /\ IsAsk(e) =>
                /\ ~HasAsk(Pipe) /\ ~Deciding /\ up' = <<>> /\ phase' = "asked"
                /\ e.kind = "observation" => e.n = turn'
                /\ e.kind = "rejected" => Observed = turn',
         up' = up \/ up' = <<>>,
         \/ phase' = phase /\ turn' = turn
         \/ ~HasAsk(Pipe) /\ ~Deciding /\ up' = <<>>,
         phase' = "acted" /\ tool # "off" => act'.id = moved,
         ActionsAnswerTheirTurn',
         life' = life \/ life = "running",
         \/ told' = "none"
         \/ told' = told /\ \A e \in ToSet(down) \ ToSet(down') : e.kind \notin Terminal
         \/ link = "open" /\ \E e \in ToSet(down') : e.kind \in Terminal,
         link = "known" => link' = "known", link = "refused" => link' = "refused"
  PROVE  IInv'
<1> DEFINE D == ToSet(down) E == ToSet(down')
<1>1. /\ UNCHANGED <<sdk, obs, backlog, outcome>>
      /\ UNCHANGED <<held, loop, queue, history, status>>
      /\ UNCHANGED <<tool, deferred, moved, seen, may, idle, reply>>
      /\ Kept' = Kept /\ Observed' = Observed /\ (Deciding' <=> Deciding)
  BY ClientsStay
<1>2. ClientTypes' /\ OneClient' /\ MoveConfirmsItself'
  BY <1>1 DEF IInv, ClientTypes, OneClient, MoveConfirmsItself
<1>3. Pipe = Kept \union D /\ Pipe' = Kept \union E
  BY <1>1 DEF Pipe
<1> HIDE DEF D, E
<1>4. \A e \in E \ D :
           /\ e.kind \in Terminal => life' = e.kind
           /\ IsOwn(e) => ~HasAsk(Pipe) /\ ~may /\ (tool # "off" => e.n = moved)
           /\ IsAsk(e) =>
                /\ ~HasAsk(Pipe) /\ ~Deciding /\ up' = <<>> /\ phase' = "asked"
                /\ e.kind = "observation" => e.n = turn'
                /\ e.kind = "rejected" => Observed = turn'
  BY DEF D, E
<1>5. InOrder'
  <2>1. /\ AskLast(backlog') /\ AskLast(queue') /\ AskLast(down') /\ Quiet(ToSet(deferred'))
        /\ \A e \in ToSet(deferred') : e.kind \notin Terminal
    BY <1>1 DEF IInv, InOrder
  <2>2. HasAsk(Kept) => Quiet(E)
    <3> SUFFICES ASSUME HasAsk(Kept), NEW e \in E PROVE ~IsAsk(e) /\ ~IsOwn(e)
      BY DEF Quiet
    <3>1. HasAsk(Pipe)
      BY <1>3 DEF HasAsk
    <3>2. Quiet(D)
      BY DEF IInv, InOrder, D
    <3> QED BY <3>1, <3>2, <1>4 DEF Quiet
  <2> QED BY <2>1, <2>2, <1>1 DEF InOrder, E
<1>6. HasAsk(Pipe') => \/ HasAsk(Pipe) /\ ~(\E e \in E \ D : IsAsk(e))
                       \/ ~HasAsk(Pipe) /\ ~Deciding /\ up' = <<>> /\ phase' = "asked"
  BY <1>3, <1>4 DEF HasAsk
<1>7. TakingTurns'
  <2>1. TakingTurns /\ up \in Seq(Actions)
    BY DEF IInv, WireTypes
  <2>2. Len(up') <= 1
    BY <2>1 DEF TakingTurns
  <2>3. HasAsk(Pipe') => ~Deciding /\ up' = <<>> /\ phase' = "asked"
    BY <1>6, <2>1 DEF TakingTurns
  <2>4. Deciding => up' = <<>> /\ phase' = "asked"
    BY <2>1 DEF TakingTurns
  <2>5. up' # <<>> => phase' = "asked"
    BY <2>1 DEF TakingTurns
  <2> QED BY <1>1, <2>2, <2>3, <2>4, <2>5 DEF TakingTurns
<1>8. AboutThisTurn'
  <2>1. AboutThisTurn /\ TakingTurns
    BY DEF IInv
  <2>2. ASSUME NEW e \in Pipe', IsAsk(e)
        PROVE  /\ e.kind = "observation" => e.n = turn'
               /\ e.kind = "rejected" => Observed = turn'
    <3>1. CASE e \in E \ D
      BY <3>1, <1>4, <2>2
    <3>2. CASE e \notin E \ D
      <4>1. e \in Pipe /\ HasAsk(Pipe)
        BY <3>2, <1>3, <2>2 DEF HasAsk
      <4>2. turn' = turn
        BY <4>1
      <4> QED BY <4>1, <4>2, <2>1, <2>2 DEF AboutThisTurn, IsAsk
    <3> QED BY <3>1, <3>2
  <2>3. Deciding => Observed = turn'
    BY <2>1 DEF AboutThisTurn
  <2>4. up' # <<>> => up'[1].for = turn' /\ Observed = turn'
    BY <2>1 DEF AboutThisTurn
  <2> QED BY <1>1, <2>2, <2>3, <2>4 DEF AboutThisTurn, IsAsk
<1>9. LastMove'
  <2> SUFFICES ASSUME tool # "off"
               PROVE  /\ \A e \in Pipe' : IsOwn(e) => e.n = moved
                      /\ up' # <<>> => up'[1].id = moved
                      /\ phase' = "acted" => act'.id = moved
                      /\ may => Quiet(Pipe') /\ ~(reply.tool = "move" /\ reply.kind = "turn")
    BY <1>1 DEF LastMove
  <2>1. LastMove /\ (may => Deciding)
    BY DEF IInv, Deciding
  <2>2. \A e \in Pipe' : IsOwn(e) => e.n = moved
    BY <2>1, <1>3, <1>4 DEF LastMove
  <2>3. may => Quiet(Pipe')
    BY <2>1, <1>3, <1>4 DEF LastMove, Quiet
  <2> QED BY <2>1, <2>2, <2>3 DEF LastMove
<1>10. EndIsTold /\ OutcomeIsTheMatchs
  BY DEF IInv
<1>11. link \in Links /\ told \in {"none"} \union Terminal /\ life \in Lives
  BY DEF IInv, WireTypes
<1>12. EndIsTold'
  <2>1. \A e \in Pipe' : e.kind \in Terminal => life' = e.kind
    <3>1. ASSUME NEW e \in Pipe, e.kind \in Terminal PROVE life' = e.kind
      <4>1. life = e.kind /\ life # "running"
        BY <1>10, <3>1 DEF EndIsTold, Terminal
      <4> QED BY <4>1
    <3> QED BY <3>1, <1>3, <1>4
  <2>2. told' # "none" /\ sdk \in {"next", "choosing"} =>
          \E e \in ToSet(backlog) \union E : e.kind \in Terminal
    BY <1>10 DEF EndIsTold, D, E
  <2>3. sdk \in {"next", "choosing"} =>
          \A i \in DOMAIN backlog : backlog[i].kind = "lost" =>
            /\ link' = "known"
            /\ told' # "none" =>
                 \E j \in DOMAIN backlog : j < i /\ backlog[j].kind \in Terminal
    BY <1>10 DEF EndIsTold
  <2>4. sdk = "done" => link' \in {"known", "refused"}
    BY <1>10 DEF EndIsTold
  <2> QED BY <1>1, <2>1, <2>2, <2>3, <2>4 DEF EndIsTold, E
<1>13. OutcomeIsTheMatchs'
  <2> SUFFICES ASSUME sdk = "done"
               PROVE  /\ outcome = "result" => life' = "finished"
                      /\ outcome = "aborted" => life' = "aborted"
                      /\ outcome = "lost" => told' = "none"
    BY <1>1 DEF OutcomeIsTheMatchs
  <2>1. link \in {"known", "refused"} /\ link # "open"
    BY <1>10 DEF EndIsTold
  <2> QED BY <2>1, <1>10 DEF OutcomeIsTheMatchs
<1> QED BY <1>2, <1>5, <1>7, <1>8, <1>9, <1>12, <1>13 DEF IInv

\* The frames the server sends, and which of them the turns are about.
LEMMA FrameKinds ==
  ASSUME NEW n \in Nat
  PROVE  /\ \A k \in {"observation", "turn", "state", "rejected", "ping", "finished", "aborted"} :
              Frame(k, n) \in Frames /\ Frame(k, n).kind = k /\ Frame(k, n).n = n
         /\ \A k \in {"state", "ping", "finished", "aborted"} :
              ~IsAsk(Frame(k, n)) /\ ~IsOwn(Frame(k, n))
         /\ ~IsAsk(Frame("turn", n)) /\ ~IsOwn(Frame("turn", 0))
         /\ ~IsOwn(Frame("observation", n)) /\ ~IsOwn(Frame("rejected", n))
         /\ ~IsAsk(Frame("rejected", 0))
BY DEF Frame, Frames, IsAsk, IsOwn, Terminal

\* Nothing is on its way before the server asks, and nothing asks while it is answered.
LEMMA NoneUnderWay ==
  ASSUME IInv, phase # "asked" PROVE ~HasAsk(Pipe) /\ ~Deciding /\ up = <<>>
BY DEF IInv, TakingTurns

\* Only a terminal frame is one.
LEMMA RunningHasNoEnd ==
  ASSUME IInv, life = "running", NEW e \in Pipe PROVE e.kind \notin Terminal
BY DEF IInv, EndIsTold, Terminal

\* The seat is asked: its request is the last thing on the wire.
LEMMA AskKeepsIt ==
  ASSUME IInv, Wire(Ask) PROVE IInv'
<1> DEFINE e == Frame("observation", turn)
<1>1. /\ Running /\ phase = "idle" /\ phase' = "asked" /\ retries' = RetryBudget
      /\ Push(<<e>>) /\ UNCHANGED <<link, up, sent, life, turn, act, told>>
      /\ UNCHANGED <<sdkVars, mcpVars>>
  BY DEF Wire, Ask
<1>2. WireTypes /\ turn \in Nat /\ down \in Seq(Frames) /\ AskLast(down)
  BY DEF IInv, WireTypes, InOrder
<1>3. e \in Frames /\ e.kind = "observation" /\ e.n = turn /\ ~IsOwn(e)
  BY <1>2, FrameKinds
<1>4. <<e>> \in Seq(Frames) /\ ToSet(<<e>>) = {e} /\ AskLast(<<e>>)
  BY <1>3, Short
<1> HIDE DEF e
<1>5. ~HasAsk(Pipe) /\ ~Deciding /\ up = <<>> /\ ~HasAsk(ToSet(down))
  BY <1>1, NoneUnderWay DEF HasAsk, Pipe
<1>6. /\ down' \in Seq(Frames) /\ AskLast(down')
      /\ ToSet(down') \subseteq ToSet(down) \union {e} /\ ToSet(down) \subseteq ToSet(down')
  BY <1>1, <1>2, <1>4, <1>5, Pushed
<1>7. WireTypes'
  BY <1>1, <1>2, <1>6, Constants DEF WireTypes
<1>8. ActionsAnswerTheirTurn' /\ ToSet(down) \ ToSet(down') = {}
  BY <1>1, <1>6 DEF IInv, ActionsAnswerTheirTurn
<1>9. e.kind \notin Terminal
  BY <1>3 DEF Terminal
<1> QED BY <1>1, <1>3, <1>5, <1>6, <1>7, <1>8, <1>9, WireKeepsIt

\* Another's turn: nobody is asked.
LEMMA OtherTurnKeepsIt ==
  ASSUME IInv, Wire(OtherTurn) PROVE IInv'
<1> DEFINE a == Frame("turn", 0) b == Frame("state", 0)
<1>1. /\ Running /\ phase = "idle" /\ turn' = turn + 1
      /\ Push(<<a, b>>) /\ UNCHANGED <<link, up, sent, life, phase, retries, act, told>>
      /\ UNCHANGED <<sdkVars, mcpVars>>
  BY DEF Wire, OtherTurn
<1>2. WireTypes /\ down \in Seq(Frames) /\ AskLast(down)
  BY DEF IInv, WireTypes, InOrder
<1>3. /\ a \in Frames /\ b \in Frames /\ a.kind \notin Terminal /\ b.kind \notin Terminal
      /\ ~IsAsk(a) /\ ~IsOwn(a) /\ ~IsAsk(b) /\ ~IsOwn(b)
  BY FrameKinds DEF Terminal
<1>4. <<a, b>> \in Seq(Frames) /\ ToSet(<<a, b>>) = {a, b} /\ Quiet(ToSet(<<a, b>>))
  <2>1. a \in Frames /\ b \in Frames
    BY <1>3
  <2> HIDE DEF a, b
  <2>2. <<a, b>> \in Seq(Frames) /\ ToSet(<<a, b>>) = {a, b}
    BY <2>1, Short
  <2>3. Quiet({a, b})
    BY <1>3 DEF Quiet
  <2> QED BY <2>2, <2>3
<1> HIDE DEF a, b
<1>5. ~HasAsk(Pipe) /\ ~Deciding /\ up = <<>>
  BY <1>1, NoneUnderWay
<1>6. /\ down' \in Seq(Frames) /\ AskLast(down')
      /\ ToSet(down') \subseteq ToSet(down) \union {a, b} /\ ToSet(down) \subseteq ToSet(down')
  BY <1>1, <1>2, <1>4, Pushed
<1>7. WireTypes'
  BY <1>1, <1>2, <1>6 DEF WireTypes
<1>8. ActionsAnswerTheirTurn' /\ ToSet(down) \ ToSet(down') = {}
  BY <1>1, <1>6 DEF IInv, ActionsAnswerTheirTurn
<1> QED BY <1>1, <1>3, <1>5, <1>6, <1>7, <1>8, WireKeepsIt

\* The action accepted is the one on its way, and was chosen for this turn.
LEMMA AcceptKeepsIt ==
  ASSUME IInv, Wire(Accept) PROVE IInv'
<1>1. /\ phase = "asked" /\ up # <<>> /\ up' = Tail(up) /\ phase' = "acted"
      /\ act' = [id |-> Head(up).id, for |-> Head(up).for, turn |-> turn]
      /\ UNCHANGED <<link, down, sent, life, turn, retries, told>>
      /\ UNCHANGED <<sdkVars, mcpVars>>
  BY DEF Wire, Accept
<1>2. WireTypes /\ turn \in Nat /\ up \in Seq(Actions) /\ AskLast(down) /\ Len(up) <= 1
  BY DEF IInv, WireTypes, InOrder, TakingTurns
<1>3. /\ Head(up) = up[1] /\ Head(up) \in Actions /\ up' = <<>>
  BY <1>1, <1>2
<1>4. act' \in [id : Nat, for : Int, turn : Nat] /\ act'.id = up[1].id
        /\ act'.for = up[1].for /\ act'.turn = turn
  BY <1>1, <1>2, <1>3 DEF Actions
<1>5. ~HasAsk(Pipe) /\ ~Deciding
  BY <1>1 DEF IInv, TakingTurns
<1>6. ActionsAnswerTheirTurn'
  BY <1>1, <1>4 DEF IInv, AboutThisTurn, ActionsAnswerTheirTurn
<1>7. tool # "off" => act'.id = moved
  BY <1>1, <1>4 DEF IInv, LastMove
<1>8. WireTypes'
  BY <1>1, <1>2, <1>3, <1>4 DEF WireTypes
<1> QED BY <1>1, <1>2, <1>3, <1>5, <1>6, <1>7, <1>8, WireKeepsIt

\* The confirmation is of the action accepted.
LEMMA CommitKeepsIt ==
  ASSUME IInv, NEW chance, chance = <<>> \/ chance = <<Frame("turn", 0)>>,
         Wire(CommitOwn(chance))
  PROVE  IInv'
<1> DEFINE a == Frame("turn", act.id) b == Frame("state", 0) c == Frame("turn", 0)
           f == <<a>> \o chance \o <<b>>
<1>1. /\ phase = "acted" /\ turn' = turn + 1 /\ phase' = "idle" /\ Push(f)
      /\ UNCHANGED <<link, up, sent, life, retries, act, told>>
      /\ UNCHANGED <<sdkVars, mcpVars>>
  BY DEF Wire, CommitOwn
<1>2. WireTypes /\ act.id \in Nat /\ down \in Seq(Frames) /\ AskLast(down)
  BY DEF IInv, WireTypes, InOrder
<1>3. /\ a \in Frames /\ b \in Frames /\ c \in Frames
      /\ a.kind \notin Terminal /\ b.kind \notin Terminal /\ c.kind \notin Terminal
      /\ ~IsAsk(a) /\ a.n = act.id
      /\ ~IsAsk(b) /\ ~IsOwn(b) /\ ~IsAsk(c) /\ ~IsOwn(c)
  BY <1>2, FrameKinds DEF Terminal
<1>4. f \in Seq(Frames) /\ ToSet(f) \subseteq {a, b, c} /\ AskLast(f)
  <2>1. /\ <<a>> \in Seq(Frames) /\ ToSet(<<a>>) = {a}
        /\ <<b>> \in Seq(Frames) /\ ToSet(<<b>>) = {b} /\ AskLast(<<b>>)
        /\ chance \in Seq(Frames) /\ ToSet(chance) \subseteq {c}
    BY <1>3, Short
  <2> DEFINE p == <<a>> q == <<b>> g == p \o chance
  <2>2. /\ p \in Seq(Frames) /\ ToSet(p) = {a}
        /\ q \in Seq(Frames) /\ ToSet(q) = {b} /\ AskLast(q)
    BY <2>1
  <2>3. f = g \o q
    OBVIOUS
  <2> HIDE DEF a, b, c, f, p, q
  <2>4. g \in Seq(Frames) /\ ToSet(g) = ToSet(p) \union ToSet(chance)
    BY <2>1, <2>2, Joined
  <2> HIDE DEF g
  <2>5. ToSet(g) \subseteq {a, c} /\ ~HasAsk(ToSet(g))
    BY <1>3, <2>1, <2>2, <2>4 DEF HasAsk
  <2>6. /\ g \o q \in Seq(Frames) /\ ToSet(g \o q) = ToSet(g) \union ToSet(q)
        /\ AskLast(g \o q)
    <3>1. g \in Seq(Frames) /\ q \in Seq(Frames)
      BY <2>2, <2>4
    <3>2. /\ g \o q \in Seq(Frames) /\ ToSet(g \o q) = ToSet(g) \union ToSet(q)
          /\ ~HasAsk(ToSet(g)) /\ AskLast(q) => AskLast(g \o q)
      BY <3>1, Joined
    <3> QED BY <2>2, <2>5, <3>2
  <2> QED BY <2>2, <2>3, <2>5, <2>6
<1> HIDE DEF a, b, c, f
<1>5. ~HasAsk(Pipe) /\ ~Deciding /\ up = <<>> /\ ~HasAsk(ToSet(down)) /\ ~may
  BY <1>1, NoneUnderWay DEF HasAsk, Pipe, Deciding
<1>6. /\ down' \in Seq(Frames) /\ AskLast(down')
      /\ ToSet(down') \subseteq ToSet(down) \union {a, b, c} /\ ToSet(down) \subseteq ToSet(down')
  <2>1. /\ down' \in Seq(Frames) /\ AskLast(down')
        /\ ToSet(down') \subseteq ToSet(down) \union ToSet(f) /\ ToSet(down) \subseteq ToSet(down')
    BY <1>1, <1>2, <1>4, <1>5, Pushed
  <2> QED BY <2>1, <1>4
<1>7. WireTypes'
  BY <1>1, <1>2, <1>6 DEF WireTypes
<1>8. ActionsAnswerTheirTurn' /\ ToSet(down) \ ToSet(down') = {}
  BY <1>1, <1>6 DEF IInv, ActionsAnswerTheirTurn
<1>9. tool # "off" => a.n = moved
  BY <1>1, <1>3 DEF IInv, LastMove
<1> QED BY <1>1, <1>3, <1>5, <1>6, <1>7, <1>8, <1>9, WireKeepsIt

\* The end of the match, and the frames that tell of it.
LEMMA EndsKeepsIt ==
  ASSUME IInv, NEW how \in Terminal, NEW f \in Seq(Frames), Running,
         \A e \in ToSet(f) : ~IsAsk(e) /\ ~IsOwn(e) /\ e.kind \notin Terminal,
         Ends(how, f), up' = up \/ up' = <<>>,
         UNCHANGED <<sent, turn, phase, retries, act>>,
         UNCHANGED <<sdkVars, mcpVars>>
  PROVE  IInv'
<1> DEFINE a == Frame("state", 0) b == Frame(how, 0) g == f \o <<a, b>>
<1>1. /\ life' = how /\ link' = (IF link = "open" THEN "ended" ELSE link)
      /\ told' = (IF link = "open" THEN how ELSE told) /\ Push(g) /\ life = "running"
  BY DEF Ends, Running
<1>2. WireTypes /\ down \in Seq(Frames) /\ AskLast(down)
  BY DEF IInv, WireTypes, InOrder
<1>3. /\ a \in Frames /\ b \in Frames /\ a.kind \notin Terminal /\ b.kind = how
      /\ ~IsAsk(a) /\ ~IsOwn(a) /\ ~IsAsk(b) /\ ~IsOwn(b)
  BY FrameKinds DEF Terminal
<1>4. g \in Seq(Frames) /\ ToSet(g) = ToSet(f) \union {a, b} /\ Quiet(ToSet(g))
  <2>1. <<a, b>> \in Seq(Frames) /\ ToSet(<<a, b>>) = {a, b}
    BY <1>3, Short
  <2> DEFINE p == <<a, b>>
  <2>2. p \in Seq(Frames) /\ ToSet(p) = {a, b} /\ g = f \o p
    BY <2>1
  <2> HIDE DEF a, b, g, p
  <2>3. f \o p \in Seq(Frames) /\ ToSet(f \o p) = ToSet(f) \union ToSet(p)
    BY <2>2, Joined
  <2>4. g \in Seq(Frames) /\ ToSet(g) = ToSet(f) \union {a, b}
    BY <2>2, <2>3
  <2>5. Quiet(ToSet(g))
    BY <2>4, <1>3 DEF Quiet
  <2> QED BY <2>4, <2>5
<1> HIDE DEF a, b, g
<1>5. /\ down' \in Seq(Frames) /\ AskLast(down')
      /\ ToSet(down') \subseteq ToSet(down) \union ToSet(g) /\ ToSet(down) \subseteq ToSet(down')
      /\ link = "open" => b \in ToSet(down')
  BY <1>1, <1>2, <1>4, Pushed
<1>6. WireTypes'
  <2>1. up \in Seq(Actions) /\ <<>> \in Seq(Actions)
    BY <1>2 DEF WireTypes
  <2>2. up' \in Seq(Actions)
    <3>1. CASE up' = up
      BY <2>1, <3>1
    <3>2. CASE up' = <<>>
      BY <2>1, <3>2
    <3> QED BY <3>1, <3>2
  <2> QED BY <1>1, <1>2, <1>5, <2>2 DEF WireTypes, Links, Lives
<1>7. ActionsAnswerTheirTurn' /\ ToSet(down) \ ToSet(down') = {}
  BY <1>5 DEF IInv, ActionsAnswerTheirTurn
<1>8. \A e \in ToSet(down') \ ToSet(down) :
        ~IsAsk(e) /\ ~IsOwn(e) /\ (e.kind \in Terminal => life' = e.kind)
  BY <1>1, <1>3, <1>4, <1>5 DEF Quiet
<1>9. \/ told' = told /\ \A e \in ToSet(down) \ ToSet(down') : e.kind \notin Terminal
      \/ link = "open" /\ \E e \in ToSet(down') : e.kind \in Terminal
  BY <1>1, <1>3, <1>5, <1>7
<1>10. phase' = "acted" /\ tool # "off" => act'.id = moved
  BY DEF IInv, LastMove
<1>11. (link = "known" => link' = "known") /\ (link = "refused" => link' = "refused")
  BY <1>1
<1> QED BY <1>1, <1>5, <1>6, <1>7, <1>8, <1>9, <1>10, <1>11, WireKeepsIt

\* A refused action leaves attempts, and is asked for again, or ends the match.
LEMMA RefuseKeepsIt ==
  ASSUME IInv, Wire(Refuse) PROVE IInv'
<1>1. /\ Running /\ phase = "asked" /\ up # <<>> /\ up' = Tail(up)
      /\ UNCHANGED <<sent, turn, phase, act>> /\ UNCHANGED <<sdkVars, mcpVars>>
  BY DEF Wire, Refuse
<1>2. /\ WireTypes /\ retries \in Nat /\ up \in Seq(Actions) /\ Len(up) <= 1
      /\ down \in Seq(Frames) /\ AskLast(down)
  BY DEF IInv, WireTypes, InOrder, TakingTurns
<1>3. up' = <<>> /\ Observed = turn /\ ~HasAsk(Pipe) /\ ~Deciding /\ ~HasAsk(ToSet(down))
  <2>1. up' = <<>>
    BY <1>1, <1>2
  <2>2. Observed = turn
    BY <1>1 DEF IInv, AboutThisTurn
  <2>3. ~HasAsk(Pipe) /\ ~Deciding
    BY <1>1 DEF IInv, TakingTurns
  <2> QED BY <2>1, <2>2, <2>3 DEF HasAsk, Pipe
<1>4. CASE /\ retries > 0 /\ retries' = retries - 1
           /\ Push(<<Frame("rejected", retries)>>)
           /\ UNCHANGED <<link, life, told>>
  <2> DEFINE e == Frame("rejected", retries)
  <2>1. e \in Frames /\ e.kind = "rejected" /\ ~IsOwn(e) /\ e.kind \notin Terminal
    BY <1>2, FrameKinds DEF Terminal
  <2>2. <<e>> \in Seq(Frames) /\ ToSet(<<e>>) = {e} /\ AskLast(<<e>>)
    BY <2>1, Short
  <2>3. Push(<<e>>)
    BY <1>4
  <2> HIDE DEF e
  <2>4. /\ down' \in Seq(Frames) /\ AskLast(down')
        /\ ToSet(down') \subseteq ToSet(down) \union {e} /\ ToSet(down) \subseteq ToSet(down')
    BY <1>2, <1>3, <2>2, <2>3, Pushed
  <2>5. WireTypes'
    <3>1. retries' \in Nat
      BY <1>2, <1>4
    <3>2. up' \in Seq(Actions)
      BY <1>3
    <3> QED BY <3>1, <3>2, <1>1, <1>2, <1>4, <2>4 DEF WireTypes
  <2>6. ActionsAnswerTheirTurn' /\ ToSet(down) \ ToSet(down') = {}
    BY <1>1, <2>4 DEF IInv, ActionsAnswerTheirTurn
  <2> QED BY <1>1, <1>3, <1>4, <2>1, <2>4, <2>5, <2>6, WireKeepsIt
<1>5. CASE retries = 0 /\ Ends("aborted", <<Frame("rejected", 0)>>) /\ UNCHANGED retries
  <2> DEFINE e == Frame("rejected", 0)
  <2>1. e \in Frames /\ ~IsOwn(e) /\ ~IsAsk(e) /\ e.kind \notin Terminal
    BY FrameKinds DEF Terminal
  <2>2. <<e>> \in Seq(Frames) /\ ToSet(<<e>>) = {e}
    BY <2>1, Short
  <2>3. Ends("aborted", <<e>>) /\ "aborted" \in Terminal
    BY <1>5 DEF Terminal
  <2> HIDE DEF e
  <2> QED BY <1>1, <1>3, <1>5, <2>1, <2>2, <2>3, EndsKeepsIt
<1> QED BY <1>4, <1>5 DEF Wire, Refuse

\* The match is over, or is aborted.
LEMMA MatchEndsKeepsIt ==
  ASSUME IInv, Wire(MatchEnds) PROVE IInv'
<1>1. PICK how \in Terminal : Ends(how, <<>>)
  BY DEF Wire, MatchEnds, Terminal
<1>2. /\ Running /\ UNCHANGED <<up, sent, turn, phase, retries, act>>
      /\ UNCHANGED <<sdkVars, mcpVars>>
  BY DEF Wire, MatchEnds
<1>3. <<>> \in Seq(Frames) /\ ToSet(<<>>) = {}
  BY DEF ToSet
<1> QED BY <1>1, <1>2, <1>3, EndsKeepsIt

\* What comes out of turn is dropped; a ping asks for nothing; a connection that is
\* lost, or ends, brings nothing new.
LEMMA WireRestKeepsIt ==
  ASSUME IInv, Wire(Discard) \/ Wire(Ping) \/ Wire(Lose) \/ Wire(Heard) PROVE IInv'
<1>1. WireTypes /\ down \in Seq(Frames) /\ up \in Seq(Actions) /\ Len(up) <= 1 /\ AskLast(down)
  BY DEF IInv, WireTypes, InOrder, TakingTurns
<1>2. phase = "acted" /\ tool # "off" => act.id = moved
  BY DEF IInv, LastMove
<1>3. CASE Wire(Discard)
  <2>1. up # <<>> /\ up' = Tail(up) /\ UNCHANGED <<link, down, sent, matchVars, told>>
          /\ UNCHANGED <<sdkVars, mcpVars>>
    BY <1>3 DEF Wire, Discard
  <2>2. up' = <<>> /\ UNCHANGED <<life, turn, phase, retries, act>>
    BY <1>1, <2>1 DEF matchVars
  <2>3. WireTypes' /\ ActionsAnswerTheirTurn'
    BY <1>1, <2>1, <2>2 DEF WireTypes, IInv, ActionsAnswerTheirTurn
  <2> QED BY <1>1, <1>2, <2>1, <2>2, <2>3, WireKeepsIt
<1>4. CASE Wire(Ping)
  <2> DEFINE e == Frame("ping", 0)
  <2>1. /\ Push(<<e>>) /\ UNCHANGED <<link, up, sent, matchVars, told>>
        /\ UNCHANGED <<life, turn, phase, retries, act>>
        /\ UNCHANGED <<sdkVars, mcpVars>>
    BY <1>4 DEF Wire, Ping, matchVars
  <2>2. e \in Frames /\ ~IsOwn(e) /\ ~IsAsk(e) /\ e.kind \notin Terminal
    BY FrameKinds DEF Terminal
  <2>3. <<e>> \in Seq(Frames) /\ ToSet(<<e>>) = {e} /\ Quiet(ToSet(<<e>>))
    BY <2>2, Short DEF Quiet
  <2> HIDE DEF e
  <2>4. /\ down' \in Seq(Frames) /\ AskLast(down')
        /\ ToSet(down') \subseteq ToSet(down) \union {e} /\ ToSet(down) \subseteq ToSet(down')
    BY <1>1, <2>1, <2>3, Pushed
  <2>5. WireTypes' /\ ActionsAnswerTheirTurn' /\ ToSet(down) \ ToSet(down') = {}
    BY <1>1, <2>1, <2>4 DEF WireTypes, IInv, ActionsAnswerTheirTurn
  <2> QED BY <1>1, <1>2, <2>1, <2>2, <2>4, <2>5, WireKeepsIt
<1>5. CASE Wire(Lose)
  <2>1. PICK k \in 0..Len(down) : down' = SubSeq(down, 1, k)
    BY <1>5 DEF Wire, Lose
  <2>2. /\ link \in {"open", "ended"} /\ link' = "ended" /\ told' = "none"
        /\ UNCHANGED <<up, sent, life, turn, phase, retries, act>>
        /\ UNCHANGED <<sdkVars, mcpVars>>
    BY <1>5 DEF Wire, Lose, matchVars
  <2>3. down' \in Seq(Frames) /\ AskLast(down') /\ ToSet(down') \subseteq ToSet(down)
    BY <1>1, <2>1, Prefix
  <2>4. WireTypes' /\ ActionsAnswerTheirTurn'
    BY <1>1, <2>2, <2>3 DEF WireTypes, Links, IInv, ActionsAnswerTheirTurn
  <2> QED BY <1>1, <1>2, <2>2, <2>3, <2>4, WireKeepsIt
<1>6. CASE Wire(Heard)
  <2>1. /\ link = "ended" /\ link' = "known" /\ UNCHANGED <<down, up, told>>
        /\ UNCHANGED <<sent, life, turn, phase, retries, act>>
        /\ UNCHANGED <<sdkVars, mcpVars>>
    BY <1>6 DEF Wire, Heard, matchVars
  <2>2. WireTypes' /\ ActionsAnswerTheirTurn'
    BY <1>1, <2>1 DEF WireTypes, Links, IInv, ActionsAnswerTheirTurn
  <2> QED BY <1>1, <1>2, <2>1, <2>2, WireKeepsIt
<1> QED BY <1>3, <1>4, <1>5, <1>6

\* A ping is answered, and is gone.
LEMMA PongsKeepsIt ==
  ASSUME IInv, Pongs, UNCHANGED <<sdkVars, mcpVars>> PROVE IInv'
<1>1. WireTypes /\ down \in Seq(Frames) /\ AskLast(down)
  BY DEF IInv, WireTypes, InOrder
<1>2. phase = "acted" /\ tool # "off" => act.id = moved
  BY DEF IInv, LastMove
<1>3. /\ down # <<>> /\ Head(down).kind = "ping" /\ down' = Tail(down)
      /\ UNCHANGED <<link, up, sent, told>> /\ UNCHANGED <<life, turn, phase, retries, act>>
  BY DEF Pongs, matchVars
<1>4. /\ down' \in Seq(Frames) /\ AskLast(down')
      /\ ToSet(down) = {Head(down)} \union ToSet(down')
  BY <1>1, <1>3, Headed
<1>5. \A e \in ToSet(down) \ ToSet(down') : e.kind \notin Terminal
  BY <1>3, <1>4 DEF Terminal
<1>6. WireTypes' /\ ActionsAnswerTheirTurn'
  BY <1>1, <1>3, <1>4 DEF WireTypes, IInv, ActionsAnswerTheirTurn
<1> QED BY <1>1, <1>2, <1>3, <1>4, <1>5, <1>6, WireKeepsIt

----------------------------------------------------------------------------
(* connect() *)

\* The kinds of the events that are no frames.
LEMMA EventKinds ==
  /\ Lost.kind = "lost" /\ Raw.kind = "raw" /\ Lost.n = 0 /\ Raw.n = 0
  /\ Lost \in Events /\ Raw \in Events
  /\ \A e \in Events : /\ e.n \in Nat /\ (e \in Frames \/ e = Lost \/ e = Raw)
                       /\ e.kind \in {"lost", "raw"} <=> e \notin Frames
  /\ ~IsAsk(Lost) /\ ~IsOwn(Lost) /\ ~IsAsk(Raw) /\ ~IsOwn(Raw)
  /\ Lost.kind \notin Terminal /\ Raw.kind \notin Terminal
BY DEF Lost, Raw, Frame, Events, Frames, Terminal, IsAsk, IsOwn

\* What is received is the first frame on the wire, or the end of the connection.
LEMMA Received ==
  ASSUME IInv, NEW e \in ToSet(down) \union {Lost, Raw}, Receives(e)
  PROVE  /\ down' \in Seq(Frames) /\ AskLast(down') /\ ToSet(down') \subseteq ToSet(down)
         /\ e \in Events /\ (e \in Frames => e \in ToSet(down))
         /\ e \in Frames /\ IsAsk(e) => Quiet(ToSet(down'))
         /\ \A x \in ToSet(down) : x = e \/ x \in ToSet(down') \/ x.kind = "ping"
         /\ e = Lost => down = <<>> /\ link = "known"
<1>1. down \in Seq(Frames) /\ AskLast(down)
  BY DEF IInv, WireTypes, InOrder
<1>2. CASE down = <<>> /\ link = "known" /\ e = Lost /\ UNCHANGED down
  <2>1. ToSet(down) = {} /\ ToSet(down') = {}
    BY <1>2 DEF ToSet
  <2> QED BY <1>1, <1>2, <2>1, EventKinds
<1>3. CASE /\ down # <<>> /\ down' = Tail(down)
           /\ \/ Head(down).kind # "ping" /\ e = Head(down)
              \/ Head(down).kind = "ping" /\ link = "known" /\ e = Raw
  <2>1. /\ Head(down) \in Frames /\ down' \in Seq(Frames)
        /\ ToSet(down) = {Head(down)} \union ToSet(down') /\ AskLast(down')
        /\ IsAsk(Head(down)) => Quiet(ToSet(down'))
    BY <1>1, <1>3, Headed
  <2>2. e = Head(down) \/ e = Raw
    BY <1>3
  <2>3. Lost \notin Frames /\ Raw \notin Frames /\ Lost # Raw
    BY EventKinds
  <2>4. e \in Events
    BY <2>1, <2>2, EventKinds DEF Events
  <2> QED BY <1>3, <2>1, <2>2, <2>3, <2>4
<1> QED BY <1>2, <1>3 DEF Receives

\* A seat that connect() plays has nothing in the tools.
LEMMA SdkAlone ==
  ASSUME OneClient, sdk # "off"
  PROVE  /\ tool = "off" /\ queue = <<>> /\ deferred = <<>> /\ ~may /\ Kept = ToSet(backlog)
         /\ Pipe = ToSet(backlog) \union ToSet(down)
         /\ (Deciding <=> sdk = "choosing") /\ Observed = obs
<1>1. tool = "off" /\ queue = <<>> /\ deferred = <<>> /\ ~may
  BY DEF OneClient
<1>2. ToSet(queue) = {}
  BY <1>1 DEF ToSet
<1> QED BY <1>1, <1>2 DEF Kept, Pipe, Deciding, Observed

\* A step of connect() keeps the invariant when it brings nothing into the pipe,
\* decides only about a request it took from there, and sends only a decision.
LEMMA SdkKeepsIt ==
  ASSUME IInv, sdk # "off", UNCHANGED mcpVars, UNCHANGED <<matchVars, told>>,
         WireTypes', ClientTypes', sdk' # "off",
         AskLast(backlog'), AskLast(down'),
         HasAsk(ToSet(backlog')) => Quiet(ToSet(down')),
         ToSet(backlog') \union ToSet(down') \subseteq Pipe \union {Lost, Raw},
         sdk' = "choosing" =>
           /\ up' = <<>> /\ obs' = turn /\ phase = "asked"
           /\ ~HasAsk(ToSet(backlog') \union ToSet(down')),
         \/ up' = up
         \/ /\ Len(up') = 1 /\ up'[1].for = turn /\ obs' = turn /\ phase = "asked"
            /\ sdk' # "choosing" /\ ~HasAsk(ToSet(backlog') \union ToSet(down')),
         obs' = obs \/ sdk' = "choosing",
         told # "none" /\ sdk' \in {"next", "choosing"} =>
           \E x \in ToSet(backlog') \union ToSet(down') : x.kind \in Terminal,
         sdk' \in {"next", "choosing"} =>
           \A i \in DOMAIN backlog' : backlog'[i].kind = "lost" =>
             /\ link' = "known"
             /\ told # "none" => \E j \in DOMAIN backlog' : j < i /\ backlog'[j].kind \in Terminal,
         sdk' = "done" => link' \in {"known", "refused"},
         OutcomeIsTheMatchs'
  PROVE  IInv'
<1> DEFINE P == ToSet(backlog') \union ToSet(down')
<1>1. /\ UNCHANGED <<held, loop, queue, history, status>>
      /\ UNCHANGED <<tool, deferred, moved, seen, may, idle, reply>>
      /\ UNCHANGED <<life, turn, phase, retries, act, told>>
  BY DEF mcpVars, matchVars
<1>2. OneClient /\ TakingTurns /\ AboutThisTurn /\ InOrder /\ EndIsTold
  BY DEF IInv
<1>3. /\ tool = "off" /\ queue = <<>> /\ deferred = <<>> /\ ~may
      /\ (Deciding <=> sdk = "choosing") /\ Observed = obs
  BY <1>2, SdkAlone
<1>4. OneClient'
  BY <1>1, <1>2, <1>3 DEF OneClient
<1>5. /\ Kept' = ToSet(backlog') /\ Pipe' = P /\ Observed' = obs'
      /\ (Deciding' <=> sdk' = "choosing")
  <2>1. ToSet(queue') = {}
    BY <1>1, <1>3 DEF ToSet
  <2> QED BY <1>1, <1>3, <2>1 DEF Kept, Pipe, Observed, Deciding
<1>6. InOrder'
  BY <1>1, <1>2, <1>5 DEF InOrder
<1>7. P \subseteq Pipe \union {Lost, Raw} /\ (sdk' = "choosing" => ~HasAsk(P))
  OBVIOUS
<1>8. up' = up \/ (Len(up') = 1 /\ up'[1].for = turn /\ obs' = turn /\ phase = "asked"
                    /\ sdk' # "choosing" /\ ~HasAsk(P))
  OBVIOUS
<1> HIDE DEF P
<1>9. HasAsk(P) => HasAsk(Pipe) /\ sdk' # "choosing" /\ up' = <<>> /\ obs' = obs
  <2>1. HasAsk(P) => HasAsk(Pipe)
    BY <1>7, EventKinds DEF HasAsk
  <2>2. HasAsk(Pipe) => up = <<>>
    BY <1>2 DEF TakingTurns
  <2> QED BY <1>7, <1>8, <2>1, <2>2
<1>10. TakingTurns'
  <2>1. Len(up') <= 1
    <3>1. CASE up' = up
      BY <1>2, <3>1 DEF TakingTurns
    <3>2. CASE Len(up') = 1
      BY <3>2
    <3> QED BY <1>8, <3>1, <3>2
  <2>2. HasAsk(P) \/ sdk' = "choosing" \/ up' # <<>> => phase = "asked"
    BY <1>2, <1>8, <1>9 DEF TakingTurns
  <2> QED BY <1>1, <1>5, <1>9, <2>1, <2>2 DEF TakingTurns
<1>11. AboutThisTurn'
  <2>1. \A x \in P : x.kind = "observation" => x.n = turn
    BY <1>2, <1>7, EventKinds DEF AboutThisTurn
  <2>2. (\E x \in P : x.kind = "rejected" /\ x.n > 0) => obs' = turn
    <3> SUFFICES ASSUME NEW x \in P, x.kind = "rejected", x.n > 0 PROVE obs' = turn
      OBVIOUS
    <3>1. x \in Pipe /\ HasAsk(P)
      BY <1>7, EventKinds DEF HasAsk, IsAsk
    <3> QED BY <3>1, <1>2, <1>3, <1>9 DEF AboutThisTurn
  <2>3. up' # <<>> => up'[1].for = turn /\ obs' = turn
    BY <1>2, <1>3, <1>8 DEF AboutThisTurn
  <2> QED BY <1>1, <1>5, <2>1, <2>2, <2>3 DEF AboutThisTurn
<1>12. LastMove' /\ MoveConfirmsItself' /\ ActionsAnswerTheirTurn'
  BY <1>1, <1>3 DEF LastMove, IInv, MoveConfirmsItself, ActionsAnswerTheirTurn
<1>13. EndIsTold'
  <2>1. \A x \in P : x.kind \in Terminal => life' = x.kind
    BY <1>1, <1>2, <1>7, EventKinds DEF EndIsTold
  <2>2. told # "none" /\ sdk' \in {"next", "choosing"} =>
          \E x \in ToSet(backlog') \union ToSet(down') : x.kind \in Terminal
    OBVIOUS
  <2>3. sdk' \in {"next", "choosing"} =>
           \A i \in DOMAIN backlog' : backlog'[i].kind = "lost" =>
             /\ link' = "known"
             /\ told # "none" => \E j \in DOMAIN backlog' : j < i /\ backlog'[j].kind \in Terminal
    OBVIOUS
  <2> QED BY <1>1, <1>5, <2>1, <2>2, <2>3 DEF EndIsTold
<1> QED BY <1>4, <1>6, <1>10, <1>11, <1>12, <1>13 DEF IInv

\* The loop of _run_session takes an event out of the pipe, the first there: it
\* decides about a request, and returns at the end of the match.
LEMMA SdkHandles ==
  ASSUME IInv, sdk = "next", NEW e \in Events, Handles(e), UNCHANGED mcpVars,
         UNCHANGED <<up, sent, matchVars, told>>,
         backlog' \in Seq(Events), down' \in Seq(Frames),
         AskLast(backlog'), AskLast(down'),
         HasAsk(ToSet(backlog')) => Quiet(ToSet(down')),
         ToSet(backlog') \union ToSet(down') \subseteq Pipe,
         e \in Frames => e \in Pipe,
         IsAsk(e) => Quiet(ToSet(backlog') \union ToSet(down')),
         \A x \in Pipe : x.kind \in Terminal =>
           x = e \/ x \in ToSet(backlog') \union ToSet(down'),
         e.kind = "lost" => told = "none",
         e.kind \notin Terminal =>
           \A i \in DOMAIN backlog' : backlog'[i].kind = "lost" =>
             /\ link = "known"
             /\ told # "none" => \E j \in DOMAIN backlog' : j < i /\ backlog'[j].kind \in Terminal
  PROVE  IInv'
<1> DEFINE P == ToSet(backlog') \union ToSet(down')
<1>1. WireTypes /\ ClientTypes /\ OneClient /\ TakingTurns /\ AboutThisTurn /\ EndIsTold
      /\ OutcomeIsTheMatchs
  BY DEF IInv
<1>2. /\ UNCHANGED <<life, turn, phase, retries, act>>
      /\ UNCHANGED <<held, loop, queue, history, status>>
      /\ UNCHANGED <<tool, deferred, moved, seen, may, idle, reply>>
      /\ turn \in Nat /\ e.n \in Nat
  BY <1>1, EventKinds DEF matchVars, mcpVars, WireTypes
<1>3. Observed = obs /\ Pipe = ToSet(backlog) \union ToSet(down)
  BY <1>1, SdkAlone
<1>4. IsAsk(e) => e \in Pipe /\ HasAsk(Pipe)
  BY EventKinds DEF HasAsk
<1>5. CASE Decides(e) /\ sdk' = "choosing" /\ UNCHANGED <<link, outcome>>
           /\ obs' = (IF e.kind = "observation" THEN e.n ELSE obs)
  <2>1. IsAsk(e)
    BY <1>5 DEF Decides, IsAsk
  <2>2. up' = <<>> /\ obs' = turn /\ phase = "asked"
    BY <1>1, <1>3, <1>4, <1>5, <2>1 DEF TakingTurns, AboutThisTurn, Decides
  <2>3. ~HasAsk(P)
    BY <2>1 DEF Quiet, HasAsk
  <2>4. e.kind \notin Terminal
    BY <2>1 DEF IsAsk, Terminal
  <2>5. WireTypes' /\ ClientTypes'
    BY <1>1, <1>2, <1>5, <2>2 DEF WireTypes, ClientTypes
  <2>6. told # "none" => \E x \in P : x.kind \in Terminal
    BY <1>1, <1>3, <2>4 DEF EndIsTold
  <2>7. OutcomeIsTheMatchs'
    BY <1>5 DEF OutcomeIsTheMatchs
  <2> HIDE DEF Events
  <2> QED BY <1>1, <1>5, <2>2, <2>3, <2>4, <2>5, <2>6, <2>7, SdkKeepsIt
<1>6. ASSUME NEW how \in {"result", "aborted", "lost", "raw"}, Returns(how),
             how = "result" => e.kind = "finished",
             how = "aborted" => e.kind = "aborted",
             how = "lost" => e.kind = "lost"
      PROVE  IInv'
  <2>1. sdk' = "done" /\ outcome' = how /\ link' = "known" /\ UNCHANGED obs
    BY <1>6 DEF Returns
  <2>2. WireTypes' /\ ClientTypes'
    BY <1>1, <1>2, <2>1 DEF WireTypes, ClientTypes, Links
  <2>3. e.kind \in Terminal => e \in Pipe /\ life = e.kind
    BY <1>1, EventKinds DEF EndIsTold, Terminal
  <2>4. OutcomeIsTheMatchs'
    BY <1>2, <1>6, <2>1, <2>3 DEF OutcomeIsTheMatchs, Terminal
  <2> QED BY <2>1, <2>2, <2>4, SdkKeepsIt
<1>7. CASE e.kind \in {"turn", "state", "rejected"} /\ UNCHANGED <<link, sdk, obs, outcome>>
  <2>1. e.kind \notin Terminal
    BY <1>7 DEF Terminal
  <2>2. WireTypes' /\ ClientTypes'
    BY <1>1, <1>2, <1>7 DEF WireTypes, ClientTypes
  <2>3. told # "none" => \E x \in P : x.kind \in Terminal
    BY <1>1, <1>3, <2>1 DEF EndIsTold
  <2>4. OutcomeIsTheMatchs'
    BY <1>7 DEF OutcomeIsTheMatchs
  <2> QED BY <1>7, <2>1, <2>2, <2>3, <2>4, SdkKeepsIt
<1> QED BY <1>5, <1>6, <1>7 DEF Handles

\* What was kept while choosing is handled first, in order.
LEMMA NextKeptKeepsIt ==
  ASSUME IInv, Sdk(NextKept) PROVE IInv'
<1> DEFINE e == Head(backlog)
<1>1. /\ sdk = "next" /\ backlog # <<>> /\ backlog' = Tail(backlog) /\ Handles(e)
      /\ UNCHANGED <<down, up, sent, matchVars, told>> /\ UNCHANGED mcpVars
  BY DEF Sdk, NextKept
<1>2. WireTypes /\ ClientTypes /\ OneClient /\ InOrder /\ EndIsTold
  BY DEF IInv
<1>3. backlog \in Seq(Events) /\ down \in Seq(Frames) /\ AskLast(backlog) /\ AskLast(down)
  BY <1>2 DEF ClientTypes, WireTypes, InOrder
<1>4. Kept = ToSet(backlog) /\ Pipe = ToSet(backlog) \union ToSet(down)
  BY <1>1, <1>2, SdkAlone
<1>5. /\ e \in Events /\ backlog' \in Seq(Events) /\ AskLast(backlog')
      /\ ToSet(backlog) = {e} \union ToSet(backlog')
      /\ IsAsk(e) => Quiet(ToSet(backlog'))
  BY <1>1, <1>3, Headed
<1>6. e = backlog[1] /\ Len(backlog) \in Nat /\ Len(backlog) >= 1
        /\ DOMAIN backlog = 1..Len(backlog) /\ DOMAIN backlog' = 1..(Len(backlog) - 1)
        /\ \A i \in 1..(Len(backlog) - 1) : backlog'[i] = backlog[i + 1]
  BY <1>1, <1>3
<1> HIDE DEF e
<1>7. HasAsk(ToSet(backlog)) => Quiet(ToSet(down))
  BY <1>2, <1>4 DEF InOrder
<1>8. /\ HasAsk(ToSet(backlog')) => Quiet(ToSet(down'))
      /\ IsAsk(e) => Quiet(ToSet(backlog') \union ToSet(down'))
  BY <1>1, <1>5, <1>7 DEF HasAsk, Quiet
<1>9. \A i \in DOMAIN backlog : backlog[i].kind = "lost" =>
        /\ link = "known"
        /\ told # "none" => \E j \in DOMAIN backlog : j < i /\ backlog[j].kind \in Terminal
  BY <1>1, <1>2 DEF EndIsTold
<1>10. e.kind = "lost" => told = "none"
  BY <1>6, <1>9
<1>11. ASSUME e.kind \notin Terminal, NEW i \in DOMAIN backlog', backlog'[i].kind = "lost"
       PROVE  /\ link = "known"
              /\ told # "none" => \E j \in DOMAIN backlog' : j < i /\ backlog'[j].kind \in Terminal
  <2>1. i + 1 \in DOMAIN backlog /\ backlog[i + 1].kind = "lost"
    BY <1>6, <1>11
  <2>2. link = "known"
    BY <1>9, <2>1
  <2>3. ASSUME told # "none"
        PROVE  \E j \in DOMAIN backlog' : j < i /\ backlog'[j].kind \in Terminal
    <3>1. PICK j \in DOMAIN backlog : j < i + 1 /\ backlog[j].kind \in Terminal
      BY <1>9, <2>1, <2>3
    <3>2. j # 1
      BY <3>1, <1>6, <1>11
    <3>3. j - 1 \in DOMAIN backlog' /\ j - 1 < i /\ backlog'[j - 1] = backlog[j]
      BY <3>1, <3>2, <1>6
    <3> QED BY <3>1, <3>3
  <2> QED BY <2>2, <2>3
<1>12. /\ down' \in Seq(Frames) /\ AskLast(down')
       /\ ToSet(backlog') \union ToSet(down') \subseteq Pipe /\ e \in Pipe
       /\ \A x \in Pipe : x = e \/ x \in ToSet(backlog') \union ToSet(down')
  BY <1>1, <1>3, <1>4, <1>5
<1> HIDE DEF Events
<1> QED BY <1>1, <1>5, <1>8, <1>10, <1>11, <1>12, SdkHandles

\* With nothing kept, what is received is handled.
LEMMA NextReceivedKeepsIt ==
  ASSUME IInv, Sdk(NextReceived) PROVE IInv'
<1>1. PICK e \in ToSet(down) \union {Lost, Raw} : Receives(e) /\ Handles(e)
  BY DEF Sdk, NextReceived
<1>2. /\ sdk = "next" /\ backlog = <<>> /\ backlog' = backlog
      /\ UNCHANGED <<up, sent, matchVars, told>> /\ UNCHANGED mcpVars
  BY DEF Sdk, NextReceived
<1>3. WireTypes /\ ClientTypes /\ OneClient /\ EndIsTold
  BY DEF IInv
<1>4. ToSet(backlog) = {} /\ ToSet(backlog') = {} /\ backlog' \in Seq(Events)
        /\ DOMAIN backlog' = {} /\ AskLast(backlog')
  <2>1. backlog' = <<>>
    BY <1>2
  <2>2. DOMAIN <<>> = {}
    OBVIOUS
  <2> QED BY <1>2, <2>1, <2>2 DEF ToSet, AskLast
<1>5. Pipe = ToSet(down)
  BY <1>2, <1>3, <1>4, SdkAlone
<1>6. /\ down' \in Seq(Frames) /\ AskLast(down') /\ ToSet(down') \subseteq ToSet(down)
      /\ e \in Events /\ (e \in Frames => e \in ToSet(down))
      /\ e \in Frames /\ IsAsk(e) => Quiet(ToSet(down'))
      /\ \A x \in ToSet(down) : x = e \/ x \in ToSet(down') \/ x.kind = "ping"
      /\ e = Lost => down = <<>>
  BY <1>1, Received
<1>7. IsAsk(e) => e \in Frames
  BY <1>6, EventKinds
<1>8. e.kind = "lost" => told = "none"
  <2> SUFFICES ASSUME e.kind = "lost", told # "none" PROVE FALSE
    OBVIOUS
  <2>1. e = Lost
    BY <1>6, EventKinds DEF Events
  <2>2. ToSet(down) = {}
    BY <1>6, <2>1 DEF ToSet
  <2> QED BY <1>2, <1>3, <1>4, <2>2 DEF EndIsTold
<1>9. \A x \in Pipe : x.kind \in Terminal => x = e \/ x \in ToSet(backlog') \union ToSet(down')
  BY <1>5, <1>6 DEF Terminal
<1>10. ~HasAsk(ToSet(backlog'))
  BY <1>4 DEF HasAsk
<1>11. /\ ToSet(backlog') \union ToSet(down') = ToSet(down')
       /\ ToSet(backlog') \union ToSet(down') \subseteq Pipe
       /\ e \in Frames => e \in Pipe
  BY <1>4, <1>5, <1>6
<1>12. IsAsk(e) => Quiet(ToSet(backlog') \union ToSet(down'))
  BY <1>6, <1>7, <1>11
<1> HIDE DEF Events
<1> QED BY <1>1, <1>2, <1>4, <1>6, <1>8, <1>9, <1>10, <1>11, <1>12, SdkHandles

\* While it chooses, what is received is kept behind what was kept before.
LEMMA KeepsKeepsIt ==
  ASSUME IInv, Sdk(Keeps) PROVE IInv'
<1>1. PICK e \in ToSet(down) \union {Lost, Raw} :
        /\ Receives(e) /\ backlog' = Append(backlog, e)
        /\ sdk' = (IF EndsChoice(e) THEN "next" ELSE sdk)
  BY DEF Sdk, Keeps
<1>2. /\ sdk = "choosing" /\ UNCHANGED <<link, up, sent, matchVars, told, obs, outcome>>
      /\ UNCHANGED mcpVars /\ sdk' \in {"next", "choosing"}
  BY <1>1 DEF Sdk, Keeps
<1>3. WireTypes /\ ClientTypes /\ OneClient /\ InOrder /\ TakingTurns /\ AboutThisTurn
        /\ EndIsTold
  BY DEF IInv
<1>4. /\ Kept = ToSet(backlog) /\ Pipe = ToSet(backlog) \union ToSet(down)
      /\ Deciding /\ Observed = obs
  BY <1>2, <1>3, SdkAlone
<1>5. /\ ~HasAsk(Pipe) /\ up = <<>> /\ phase = "asked" /\ obs = turn
      /\ backlog \in Seq(Events)
  BY <1>3, <1>4 DEF TakingTurns, AboutThisTurn, ClientTypes
<1>6. /\ down' \in Seq(Frames) /\ AskLast(down') /\ ToSet(down') \subseteq ToSet(down)
      /\ e \in Events /\ (e \in Frames => e \in ToSet(down))
      /\ \A x \in ToSet(down) : x = e \/ x \in ToSet(down') \/ x.kind = "ping"
      /\ e = Lost => down = <<>> /\ link = "known"
  BY <1>1, Received
<1>7. ~HasAsk(ToSet(backlog))
  BY <1>4, <1>5 DEF HasAsk
<1>8. /\ backlog' \in Seq(Events) /\ ToSet(backlog') = ToSet(backlog) \union {e}
      /\ AskLast(backlog')
  <2>1. backlog \in Seq(Events) /\ e \in Events
    BY <1>5, <1>6
  <2>2. /\ Append(backlog, e) \in Seq(Events)
        /\ ToSet(Append(backlog, e)) = ToSet(backlog) \union {e}
        /\ ~HasAsk(ToSet(backlog)) => AskLast(Append(backlog, e))
    BY <2>1, Appended
  <2> QED BY <1>1, <1>7, <2>2
<1>9. /\ ~HasAsk(ToSet(backlog') \union ToSet(down')) /\ ~HasAsk(ToSet(backlog'))
      /\ ToSet(backlog') \union ToSet(down') \subseteq Pipe \union {Lost, Raw}
  <2>1. e \in Pipe \/ e \in {Lost, Raw}
    BY <1>4
  <2>2. ~IsAsk(e)
    BY <1>5, <2>1, EventKinds DEF HasAsk
  <2> QED BY <1>4, <1>5, <1>6, <1>8, <2>1, <2>2 DEF HasAsk
<1>10. told # "none" => \E x \in ToSet(backlog') \union ToSet(down') : x.kind \in Terminal
  <2> SUFFICES ASSUME told # "none"
               PROVE  \E x \in ToSet(backlog') \union ToSet(down') : x.kind \in Terminal
    OBVIOUS
  <2>1. PICK x \in ToSet(backlog) \union ToSet(down) : x.kind \in Terminal
    BY <1>2, <1>3 DEF EndIsTold
  <2>2. x.kind # "ping"
    BY <2>1 DEF Terminal
  <2> QED BY <2>1, <2>2, <1>6, <1>8
<1>11. ASSUME NEW i \in DOMAIN backlog', backlog'[i].kind = "lost"
       PROVE  /\ link' = "known"
              /\ told # "none" => \E j \in DOMAIN backlog' : j < i /\ backlog'[j].kind \in Terminal
  <2> DEFINE n == Len(backlog)
  <2>1. /\ n \in Nat /\ DOMAIN backlog = 1..n /\ DOMAIN backlog' = 1..(n + 1)
        /\ \A k \in 1..n : backlog'[k] = backlog[k]
        /\ backlog'[n + 1] = e
    BY <1>1, <1>5, <1>6
  <2> HIDE DEF n
  <2>2. CASE i \in 1..n
    <3>1. backlog[i].kind = "lost"
      BY <1>11, <2>1, <2>2
    <3>2. /\ link = "known"
          /\ told # "none" => \E j \in DOMAIN backlog : j < i /\ backlog[j].kind \in Terminal
      BY <1>2, <1>3, <2>1, <2>2, <3>1 DEF EndIsTold
    <3> QED BY <1>2, <2>1, <3>2
  <2>3. CASE i = n + 1
    <3>1. e = Lost
      BY <1>6, <1>11, <2>1, <2>3, EventKinds DEF Events
    <3>2. link = "known" /\ ToSet(down) = {}
      BY <1>6, <3>1 DEF ToSet
    <3>3. told # "none" => \E x \in ToSet(backlog) : x.kind \in Terminal
      BY <1>2, <1>3, <3>2 DEF EndIsTold
    <3>4. told # "none" => \E j \in 1..n : backlog[j].kind \in Terminal
      BY <2>1, <3>3 DEF ToSet
    <3>5. \A j \in 1..n : j \in 1..(n + 1) /\ j < n + 1
      BY <2>1
    <3> QED BY <1>2, <2>1, <2>3, <3>2, <3>4, <3>5
  <2> QED BY <2>1, <2>2, <2>3
<1>12. /\ UNCHANGED <<life, turn, phase, retries, act>>
       /\ UNCHANGED <<held, loop, queue, history, status>>
       /\ UNCHANGED <<tool, deferred, moved, seen, may, idle, reply>>
  BY <1>2 DEF matchVars, mcpVars
<1>13. WireTypes' /\ ClientTypes'
  BY <1>2, <1>3, <1>6, <1>8, <1>12 DEF WireTypes, ClientTypes
<1>14. OutcomeIsTheMatchs'
  BY <1>2 DEF OutcomeIsTheMatchs
<1> HIDE DEF Events
<1> QED BY <1>2, <1>5, <1>6, <1>8, <1>9, <1>10, <1>11, <1>13, <1>14, SdkKeepsIt

\* A decision is sent for the turn observed, or dropped; connect() connects, and
\* raises what choose() raises.
LEMMA SdkRestKeepsIt ==
  ASSUME IInv, Sdk(Decided) \/ Sdk(ChooseRaises) \/ Sdk(SdkConnects) PROVE IInv'
<1>1. WireTypes /\ ClientTypes /\ OneClient /\ InOrder /\ TakingTurns /\ AboutThisTurn
        /\ EndIsTold /\ OutcomeIsTheMatchs
  BY DEF IInv
<1>2. /\ sdk \in {"next", "choosing"} /\ UNCHANGED <<down, matchVars, told, obs, backlog>>
      /\ UNCHANGED mcpVars
  BY DEF Sdk, Decided, ChooseRaises, SdkConnects, Returns
<1>3. /\ Kept = ToSet(backlog) /\ Pipe = ToSet(backlog) \union ToSet(down)
      /\ (Deciding <=> sdk = "choosing") /\ Observed = obs
  BY <1>1, <1>2, SdkAlone
<1>4. /\ UNCHANGED <<life, turn, phase, retries, act>>
      /\ UNCHANGED <<held, loop, queue, history, status>>
      /\ UNCHANGED <<tool, deferred, moved, seen, may, idle, reply>>
  BY <1>2 DEF matchVars, mcpVars
<1>5. /\ AskLast(backlog') /\ AskLast(down')
      /\ HasAsk(ToSet(backlog')) => Quiet(ToSet(down'))
      /\ ToSet(backlog') \union ToSet(down') = Pipe
  BY <1>1, <1>2, <1>3 DEF InOrder
<1>6. told # "none" => \E x \in ToSet(backlog') \union ToSet(down') : x.kind \in Terminal
  BY <1>1, <1>2 DEF EndIsTold
<1>7. \A i \in DOMAIN backlog : backlog[i].kind = "lost" =>
        /\ link = "known"
        /\ told # "none" => \E j \in DOMAIN backlog : j < i /\ backlog[j].kind \in Terminal
  BY <1>1, <1>2 DEF EndIsTold
<1>8. CASE Sdk(Decided)
  <2>1. /\ sdk = "choosing" /\ sdk' = "next" /\ UNCHANGED <<link, outcome>>
        /\ Sends(obs) \/ UNCHANGED <<up, sent>>
    BY <1>8 DEF Sdk, Decided
  <2>2. ~HasAsk(Pipe) /\ up = <<>> /\ phase = "asked" /\ obs = turn /\ sent \in Nat /\ obs \in Int
    BY <1>1, <1>3, <2>1 DEF TakingTurns, AboutThisTurn, WireTypes, ClientTypes
  <2>3. \/ up' = up
        \/ Len(up') = 1 /\ up'[1] = [id |-> sent + 1, for |-> obs] /\ up' \in Seq(Actions)
    <3> DEFINE a == [id |-> sent + 1, for |-> obs]
    <3>1. a \in Actions
      BY <2>2 DEF Actions
    <3> HIDE DEF a
    <3>2. up' = up \/ up' = Append(<<>>, a)
      BY <2>1, <2>2 DEF Sends, a
    <3>3. Append(<<>>, a) \in Seq(Actions) /\ Len(Append(<<>>, a)) = 1 /\ Append(<<>>, a)[1] = a
      BY <3>1
    <3> QED BY <3>2, <3>3 DEF a
  <2>4. sent' \in Nat
    BY <2>1, <2>2 DEF Sends
  <2>5. WireTypes'
    <3>1. up' \in Seq(Actions)
      BY <1>1, <2>3 DEF WireTypes
    <3> QED BY <1>1, <1>2, <1>4, <2>1, <2>4, <3>1 DEF WireTypes
  <2>6. ClientTypes' /\ OutcomeIsTheMatchs'
    BY <1>1, <1>2, <1>4, <2>1 DEF ClientTypes, OutcomeIsTheMatchs
  <2>7. \/ up' = up
        \/ Len(up') = 1 /\ up'[1].for = turn /\ obs' = turn /\ phase = "asked"
    BY <1>2, <2>2, <2>3
  <2> QED BY <1>2, <1>5, <1>6, <1>7, <2>1, <2>2, <2>5, <2>6, <2>7, SdkKeepsIt
<1>9. CASE Sdk(ChooseRaises)
  <2>1. sdk' = "done" /\ outcome' = "raised" /\ link' = "known" /\ UNCHANGED <<up, sent>>
    BY <1>9 DEF Sdk, ChooseRaises, Returns
  <2>2. WireTypes' /\ ClientTypes' /\ OutcomeIsTheMatchs'
    BY <1>1, <1>2, <1>4, <2>1 DEF WireTypes, Links, ClientTypes, OutcomeIsTheMatchs
  <2> QED BY <1>2, <1>5, <2>1, <2>2, SdkKeepsIt
<1>10. CASE Sdk(SdkConnects)
  <2>1. /\ link = "dialing" /\ sdk = "next" /\ UNCHANGED <<up, sent>>
        /\ \/ link' = "open" /\ UNCHANGED <<sdk, outcome>>
           \/ link' = "refused" /\ sdk' = "done" /\ outcome' = "refused"
    BY <1>10 DEF Sdk, SdkConnects
  <2>2. WireTypes' /\ ClientTypes' /\ OutcomeIsTheMatchs'
    BY <1>1, <1>2, <1>4, <2>1 DEF WireTypes, Links, ClientTypes, OutcomeIsTheMatchs
  <2>3. \A i \in DOMAIN backlog' : backlog'[i].kind # "lost"
    BY <1>2, <1>7, <2>1
  <2> QED BY <1>2, <1>5, <1>6, <2>1, <2>2, <2>3, SdkKeepsIt
<1> QED BY <1>8, <1>9, <1>10

----------------------------------------------------------------------------
(* The MCP tools *)

\* A seat that is played through the tools has nothing in connect().
LEMMA McpAlone ==
  ASSUME OneClient, tool # "off"
  PROVE  /\ sdk = "off" /\ backlog = <<>> /\ Kept = ToSet(queue)
         /\ Pipe = ToSet(queue) \union ToSet(down)
         /\ (Deciding <=> may) /\ Observed = seen
<1>1. sdk = "off" /\ backlog = <<>>
  BY DEF OneClient
<1>2. ToSet(backlog) = {}
  BY <1>1 DEF ToSet
<1> QED BY <1>1, <1>2 DEF Kept, Pipe, Deciding, Observed

\* A step of the tools keeps the invariant when what it puts back was there, or asks
\* and confirms nothing, and the agent may move once it has read a request and not
\* sent its answer.
LEMMA McpKeepsIt ==
  ASSUME IInv, tool # "off", tool' # "off", UNCHANGED sdkVars,
         UNCHANGED <<matchVars, told>>, WireTypes', ClientTypes', MoveConfirmsItself',
         AskLast(queue'), AskLast(down'),
         HasAsk(ToSet(queue')) => Quiet(ToSet(down')),
         Quiet(ToSet(deferred')), \A x \in ToSet(deferred') : x.kind \notin Terminal,
         \A x \in ToSet(queue') \union ToSet(down') :
           x \in Pipe \/ (~IsAsk(x) /\ ~IsOwn(x) /\ x.kind \notin Terminal),
         may' => /\ up' = <<>> /\ phase = "asked" /\ seen' = turn
                 /\ Quiet(ToSet(queue') \union ToSet(down'))
                 /\ ~(reply'.tool = "move" /\ reply'.kind = "turn"),
         seen' = seen \/ may',
         \/ up' = up
         \/ /\ Len(up') = 1 /\ up'[1].for = turn /\ up'[1].id = moved' /\ phase = "asked"
            /\ seen' = turn /\ Quiet(ToSet(queue') \union ToSet(down')),
         \/ moved' = moved
         \/ /\ Quiet(ToSet(queue') \union ToSet(down')) /\ phase = "asked"
            /\ up' # <<>> => up'[1].id = moved'
  PROVE  IInv'
<1> DEFINE P == ToSet(queue') \union ToSet(down')
<1>1. /\ UNCHANGED <<sdk, obs, backlog, outcome>>
      /\ UNCHANGED <<life, turn, phase, retries, act, told>>
  BY DEF sdkVars, matchVars
<1>2. OneClient /\ TakingTurns /\ AboutThisTurn /\ InOrder /\ EndIsTold /\ LastMove
  BY DEF IInv
<1>3. /\ sdk = "off" /\ backlog = <<>> /\ Kept = ToSet(queue)
      /\ (Deciding <=> may) /\ Observed = seen
  BY <1>2, McpAlone
<1>4. OneClient'
  BY <1>1, <1>2, <1>3 DEF OneClient
<1>5. /\ Kept' = ToSet(queue') /\ Pipe' = P /\ Observed' = seen' /\ (Deciding' <=> may')
  <2>1. ToSet(backlog') = {}
    BY <1>1, <1>3 DEF ToSet
  <2> QED BY <1>1, <1>3, <2>1 DEF Kept, Pipe, Observed, Deciding
<1>6. InOrder'
  BY <1>1, <1>2, <1>5 DEF InOrder
<1>7. /\ \A x \in P : x \in Pipe \/ (~IsAsk(x) /\ ~IsOwn(x) /\ x.kind \notin Terminal)
      /\ may' => /\ up' = <<>> /\ phase = "asked" /\ seen' = turn /\ Quiet(P)
                 /\ ~(reply'.tool = "move" /\ reply'.kind = "turn")
      /\ \/ up' = up
         \/ /\ Len(up') = 1 /\ up'[1].for = turn /\ up'[1].id = moved' /\ phase = "asked"
            /\ seen' = turn /\ Quiet(P)
      /\ \/ moved' = moved
         \/ Quiet(P) /\ phase = "asked" /\ (up' # <<>> => up'[1].id = moved')
  OBVIOUS
<1> HIDE DEF P
<1>8. HasAsk(P) => HasAsk(Pipe) /\ ~Quiet(P)
  BY <1>7 DEF HasAsk, Quiet
<1>9. HasAsk(P) => ~may' /\ up' = <<>> /\ seen' = seen /\ phase = "asked"
  BY <1>2, <1>7, <1>8 DEF TakingTurns
<1>10. TakingTurns'
  <2>1. Len(up') <= 1
    <3>1. CASE up' = up
      BY <1>2, <3>1 DEF TakingTurns
    <3>2. CASE Len(up') = 1
      BY <3>2
    <3> QED BY <1>7, <3>1, <3>2
  <2>2. up' # <<>> => phase = "asked"
    BY <1>2, <1>7 DEF TakingTurns
  <2> QED BY <1>1, <1>5, <1>7, <1>9, <2>1, <2>2 DEF TakingTurns
<1>11. AboutThisTurn'
  <2>1. \A x \in P : x.kind = "observation" => x.n = turn
    BY <1>2, <1>7 DEF AboutThisTurn, IsAsk
  <2>2. (\E x \in P : x.kind = "rejected" /\ x.n > 0) => seen' = turn
    <3> SUFFICES ASSUME NEW x \in P, x.kind = "rejected", x.n > 0 PROVE seen' = turn
      OBVIOUS
    <3>1. x \in Pipe /\ HasAsk(P)
      BY <1>7 DEF HasAsk, IsAsk
    <3> QED BY <3>1, <1>2, <1>3, <1>9 DEF AboutThisTurn
  <2>3. up' # <<>> => up'[1].for = turn /\ seen' = turn
    BY <1>2, <1>3, <1>7 DEF AboutThisTurn
  <2> QED BY <1>1, <1>5, <1>7, <2>1, <2>2, <2>3 DEF AboutThisTurn
<1>12. LastMove'
  <2>1. \A x \in P : IsOwn(x) => x.n = moved'
    BY <1>2, <1>7 DEF LastMove, Quiet
  <2>2. up' # <<>> => up'[1].id = moved'
    BY <1>2, <1>7 DEF LastMove
  <2>3. phase = "acted" => act.id = moved'
    BY <1>2, <1>7 DEF LastMove
  <2> QED BY <1>1, <1>5, <1>7, <2>1, <2>2, <2>3 DEF LastMove
<1>13. EndIsTold'
  <2>1. \A x \in P : x.kind \in Terminal => life' = x.kind
    BY <1>1, <1>2, <1>7 DEF EndIsTold
  <2> QED BY <1>1, <1>3, <1>5, <2>1 DEF EndIsTold
<1>14. ActionsAnswerTheirTurn' /\ OutcomeIsTheMatchs'
  BY <1>1, <1>3 DEF IInv, ActionsAnswerTheirTurn, OutcomeIsTheMatchs
<1> QED BY <1>4, <1>6, <1>10, <1>11, <1>12, <1>13, <1>14 DEF IInv

\* The receive loop queues what it receives, in order.
LEMMA BuffersKeepsIt ==
  ASSUME IInv, Mcp(Buffers) PROVE IInv'
<1>1. PICK e \in ToSet(down) \union {Lost, Raw} :
        Receives(e) /\ queue' = (IF e \in {Lost, Raw} THEN queue ELSE Append(queue, e))
  BY DEF Mcp, Buffers
<1>2. /\ loop /\ UNCHANGED <<link, up, sent, matchVars, told>> /\ UNCHANGED sdkVars
      /\ UNCHANGED <<tool, deferred, moved, seen, may, idle, reply>>
  BY DEF Mcp, Buffers, toolVars
<1>3. WireTypes /\ ClientTypes /\ OneClient /\ InOrder /\ TakingTurns /\ AboutThisTurn /\ LastMove
  BY DEF IInv
<1>4. /\ tool # "off" /\ Kept = ToSet(queue) /\ Pipe = ToSet(queue) \union ToSet(down)
      /\ (Deciding <=> may) /\ Observed = seen
  <2>1. tool # "off"
    BY <1>2, <1>3 DEF OneClient
  <2> QED BY <2>1, <1>3, McpAlone
<1>5. /\ down' \in Seq(Frames) /\ AskLast(down') /\ ToSet(down') \subseteq ToSet(down)
      /\ e \in Events /\ (e \in Frames => e \in ToSet(down))
      /\ e \in Frames /\ IsAsk(e) => Quiet(ToSet(down'))
  BY <1>1, Received
<1>6. queue \in Seq(Frames) /\ AskLast(queue) /\ (HasAsk(ToSet(queue)) => Quiet(ToSet(down)))
  BY <1>3, <1>4 DEF ClientTypes, InOrder
<1>7. /\ queue' \in Seq(Frames) /\ ToSet(queue') \subseteq ToSet(queue) \union ToSet(down)
      /\ AskLast(queue') /\ (HasAsk(ToSet(queue')) => Quiet(ToSet(down')))
  <2>1. CASE e \in {Lost, Raw}
    BY <1>1, <1>5, <1>6, <2>1 DEF Quiet
  <2>2. CASE e \notin {Lost, Raw}
    <3>1. e \in Frames /\ e \in ToSet(down)
      BY <1>5, <2>2, EventKinds
    <3>2. /\ Append(queue, e) \in Seq(Frames)
          /\ ToSet(Append(queue, e)) = ToSet(queue) \union {e}
          /\ AskLast(queue) /\ ~IsAsk(e) /\ ~IsOwn(e) => AskLast(Append(queue, e))
          /\ ~HasAsk(ToSet(queue)) => AskLast(Append(queue, e))
      BY <1>6, <3>1, Appended
    <3>3. HasAsk(ToSet(queue)) => ~IsAsk(e) /\ ~IsOwn(e) /\ Quiet(ToSet(down'))
      BY <1>5, <1>6, <3>1 DEF Quiet
    <3>4. HasAsk(ToSet(queue) \union {e}) => HasAsk(ToSet(queue)) \/ IsAsk(e)
      BY DEF HasAsk
    <3> QED BY <1>1, <1>5, <1>6, <2>2, <3>1, <3>2, <3>3, <3>4
  <2> QED BY <2>1, <2>2
<1>8. ToSet(queue') \union ToSet(down') \subseteq Pipe
  BY <1>4, <1>5, <1>7
<1>9. /\ UNCHANGED <<sdk, obs, backlog, outcome>>
      /\ UNCHANGED <<life, turn, phase, retries, act>>
  BY <1>2 DEF sdkVars, matchVars
<1>10. WireTypes' /\ ClientTypes'
  BY <1>2, <1>3, <1>5, <1>7, <1>9 DEF WireTypes, ClientTypes
<1>11. MoveConfirmsItself'
  BY <1>2 DEF IInv, MoveConfirmsItself
<1>12. may' => /\ up' = <<>> /\ phase = "asked" /\ seen' = turn
               /\ Quiet(ToSet(queue') \union ToSet(down'))
               /\ ~(reply'.tool = "move" /\ reply'.kind = "turn")
  BY <1>2, <1>3, <1>4, <1>8 DEF TakingTurns, AboutThisTurn, LastMove, Quiet
<1>13. Quiet(ToSet(deferred')) /\ \A x \in ToSet(deferred') : x.kind \notin Terminal
  BY <1>2, <1>3 DEF InOrder
<1> QED BY <1>2, <1>4, <1>5, <1>7, <1>8, <1>10, <1>11, <1>12, <1>13, McpKeepsIt

\* The agent asks, or is joined, or leaves: the frames stay as they are.
LEMMA CallsKeepIt ==
  ASSUME IInv, Mcp(Join) \/ Mcp(GetObservation) \/ Mcp(CloseAll) PROVE IInv'
<1>1. WireTypes /\ ClientTypes /\ OneClient /\ InOrder /\ TakingTurns /\ AboutThisTurn /\ LastMove
        /\ MoveConfirmsItself
  BY DEF IInv
<1>2. /\ UNCHANGED <<down, up, sent, matchVars, told>> /\ UNCHANGED sdkVars
      /\ UNCHANGED <<queue, deferred, moved, seen, may>>
  BY DEF Mcp, Join, GetObservation, CloseAll, wire, toolVars
<1>3. tool # "off" /\ tool' \in {"none", "observe", "move"}
  BY <1>1 DEF Mcp, Join, GetObservation, CloseAll, toolVars, OneClient, ClientTypes
<1>4. link' \in Links
  BY <1>1 DEF Mcp, Join, GetObservation, CloseAll, wire, WireTypes, Links
<1>5. reply' = reply \/ reply'.tool \in {"join", "observe"}
  BY DEF Mcp, Join, GetObservation, CloseAll, toolVars, Answers
<1>7. MoveConfirmsItself'
  BY <1>1, <1>2, <1>5 DEF MoveConfirmsItself
<1>8. /\ UNCHANGED <<sdk, obs, backlog, outcome>>
      /\ UNCHANGED <<life, turn, phase, retries, act>>
  BY <1>2 DEF sdkVars, matchVars
<1>9. WireTypes' /\ ClientTypes'
  BY <1>1, <1>2, <1>3, <1>4, <1>8 DEF WireTypes, ClientTypes
<1>10. /\ Kept = ToSet(queue) /\ Pipe = ToSet(queue) \union ToSet(down)
       /\ (Deciding <=> may) /\ Observed = seen
  BY <1>1, <1>3, McpAlone
<1>11. may' => /\ up' = <<>> /\ phase = "asked" /\ seen' = turn
               /\ Quiet(ToSet(queue') \union ToSet(down'))
               /\ ~(reply'.tool = "move" /\ reply'.kind = "turn")
  BY <1>1, <1>2, <1>3, <1>5, <1>10 DEF TakingTurns, AboutThisTurn, LastMove
<1>12. /\ AskLast(queue') /\ AskLast(down') /\ (HasAsk(ToSet(queue')) => Quiet(ToSet(down')))
       /\ Quiet(ToSet(deferred')) /\ \A x \in ToSet(deferred') : x.kind \notin Terminal
  BY <1>1, <1>2, <1>10 DEF InOrder
<1>13. \A x \in ToSet(queue') \union ToSet(down') : x \in Pipe
  BY <1>2, <1>10
<1> QED BY <1>2, <1>3, <1>7, <1>9, <1>11, <1>12, <1>13, McpKeepsIt

\* The agent moves when it was told to, and once.
LEMMA MakeMoveKeepsIt ==
  ASSUME IInv, Mcp(MakeMove) PROVE IInv'
<1>1. WireTypes /\ ClientTypes /\ OneClient /\ InOrder /\ TakingTurns /\ AboutThisTurn /\ LastMove
        /\ MoveConfirmsItself
  BY DEF IInv
<1>2. /\ tool = "none" /\ may /\ may' = FALSE /\ UNCHANGED sdkVars
      /\ UNCHANGED <<link, down, matchVars, told, queue, deferred, seen>>
  BY DEF Mcp, MakeMove
<1>3. /\ Kept = ToSet(queue) /\ Pipe = ToSet(queue) \union ToSet(down)
      /\ Deciding /\ Observed = seen
  BY <1>1, <1>2, McpAlone
<1>4. /\ up = <<>> /\ phase = "asked" /\ seen = turn /\ Quiet(Pipe)
      /\ ~(reply.tool = "move" /\ reply.kind = "turn")
      /\ sent \in Nat /\ seen \in Nat /\ moved \in Nat
  BY <1>1, <1>2, <1>3
     DEF TakingTurns, AboutThisTurn, LastMove, WireTypes, ClientTypes
<1>5. \/ /\ Sends(seen) /\ tool' = "move" /\ moved' = sent' /\ UNCHANGED reply
      \/ /\ UNCHANGED <<sent, up, tool, moved>>
         /\ reply' \in [tool : {"move"}, kind : {"sdk_error", "no_session"}, n : {0}]
  BY DEF Mcp, MakeMove, Answers
<1>6. /\ sent' \in Nat /\ moved' \in Nat /\ tool' \in {"none", "move"}
      /\ ~(reply'.tool = "move" /\ reply'.kind = "turn")
  BY <1>2, <1>4, <1>5 DEF Sends
<1>8. /\ up' \in Seq(Actions)
      /\ \/ up' = <<>>
         \/ Len(up') = 1 /\ up'[1].id = moved' /\ up'[1].for = turn
  <2>1. CASE Sends(seen) /\ moved' = sent'
    <3> DEFINE a == [id |-> sent + 1, for |-> seen]
    <3>1. a \in Actions /\ a.id = moved' /\ a.for = turn
      BY <1>4, <2>1 DEF Actions, Sends
    <3>2. up' = (IF link = "open" THEN Append(<<>>, a) ELSE <<>>)
      BY <1>4, <2>1 DEF Sends
    <3> HIDE DEF a
    <3>3. /\ Append(<<>>, a) \in Seq(Actions) /\ Len(Append(<<>>, a)) = 1
          /\ Append(<<>>, a)[1] = a
      BY <3>1
    <3>4. <<>> \in Seq(Actions)
      OBVIOUS
    <3> QED BY <3>1, <3>2, <3>3, <3>4
  <2>2. CASE UNCHANGED up
    BY <1>1, <1>4, <2>2 DEF WireTypes
  <2> QED BY <1>5, <2>1, <2>2
<1>9. /\ UNCHANGED <<sdk, obs, backlog, outcome>>
      /\ UNCHANGED <<life, turn, phase, retries, act>>
  BY <1>2 DEF sdkVars, matchVars
<1>10. WireTypes' /\ ClientTypes' /\ MoveConfirmsItself'
  BY <1>1, <1>2, <1>6, <1>8, <1>9 DEF WireTypes, ClientTypes, MoveConfirmsItself
<1>11. Quiet(ToSet(queue') \union ToSet(down'))
  BY <1>2, <1>3, <1>4
<1>12. /\ AskLast(queue') /\ AskLast(down') /\ (HasAsk(ToSet(queue')) => Quiet(ToSet(down')))
       /\ Quiet(ToSet(deferred')) /\ \A x \in ToSet(deferred') : x.kind \notin Terminal
  BY <1>1, <1>2, <1>3 DEF InOrder
<1>13. \A x \in ToSet(queue') \union ToSet(down') : x \in Pipe
  BY <1>2, <1>3
<1>14. /\ up' = up \/ /\ Len(up') = 1 /\ up'[1].for = turn /\ up'[1].id = moved'
                      /\ phase = "asked" /\ seen' = turn
       /\ phase = "asked" /\ (up' # <<>> => up'[1].id = moved')
  BY <1>2, <1>4, <1>8
<1> QED BY <1>2, <1>6, <1>10, <1>11, <1>12, <1>13, <1>14, McpKeepsIt

\* A tool's loop answers with the event it takes, or puts it aside or forgets it.
LEMMA TakesKeepsIt ==
  ASSUME IInv, Mcp(Takes) PROVE IInv'
<1> DEFINE e == Head(queue)
<1>1. WireTypes /\ ClientTypes /\ OneClient /\ InOrder /\ TakingTurns /\ AboutThisTurn /\ LastMove
        /\ MoveConfirmsItself
  BY DEF IInv
<1>2. /\ tool \in {"observe", "move"} /\ queue # <<>> /\ UNCHANGED sdkVars
      /\ UNCHANGED <<link, down, up, sent, matchVars, told>>
  BY DEF Mcp, Takes, wire
<1>3. /\ Kept = ToSet(queue) /\ Pipe = ToSet(queue) \union ToSet(down)
      /\ (Deciding <=> may) /\ Observed = seen
  BY <1>1, <1>2, McpAlone
<1>4. /\ queue \in Seq(Frames) /\ deferred \in Seq(Frames) /\ AskLast(queue) /\ AskLast(down)
      /\ HasAsk(ToSet(queue)) => Quiet(ToSet(down))
      /\ Quiet(ToSet(deferred)) /\ \A x \in ToSet(deferred) : x.kind \notin Terminal
  BY <1>1, <1>3 DEF ClientTypes, InOrder
<1>5. /\ e \in Frames /\ Tail(queue) \in Seq(Frames) /\ AskLast(Tail(queue))
      /\ ToSet(queue) = {e} \union ToSet(Tail(queue))
      /\ IsAsk(e) => Quiet(ToSet(Tail(queue)))
  BY <1>2, <1>4, Headed
<1>6. e \in Pipe /\ (IsAsk(e) => Quiet(ToSet(down))) /\ e.n \in Nat
  BY <1>3, <1>4, <1>5 DEF HasAsk, Frames, Terminal
<1>7. /\ UNCHANGED <<sdk, obs, backlog, outcome>>
      /\ UNCHANGED <<life, turn, phase, retries, act>>
  BY <1>2 DEF sdkVars, matchVars
<1>8. Answer(e) \/ /\ ~Answering(tool, e) /\ queue' = Tail(queue)
                   /\ deferred' = (IF Forgets(tool, e) THEN deferred ELSE Append(deferred, e))
                   /\ UNCHANGED <<tool, moved, seen, may, idle, reply>>
  BY DEF Mcp, Takes
<1> DEFINE t == Tail(queue)
<1> HIDE DEF e, t
<1>9. CASE Answer(e)
  <2> DEFINE b == IF HandsBack(tool, e) THEN <<e>> ELSE <<>>
  <2>1. /\ Answering(tool, e) /\ queue' = t \o b \o deferred /\ deferred' = <<>> /\ tool' = "none"
        /\ reply' = [tool |-> tool,
                     kind |-> IF HandsBack(tool, e) THEN "not_committed" ELSE e.kind, n |-> e.n]
        /\ seen' = (IF tool = "observe" /\ e.kind = "observation" THEN e.n ELSE seen)
        /\ may' = (\/ tool = "observe" /\ e.kind = "observation"
                   \/ e.kind = "rejected" /\ e.n > 0)
        /\ moved' = moved
    BY <1>9 DEF Answer, Answers, t
  <2>2. /\ t \in Seq(Frames) /\ AskLast(t) /\ ToSet(queue) = {e} \union ToSet(t)
        /\ IsAsk(e) => Quiet(ToSet(t))
    BY <1>5 DEF t
  <2>3. HandsBack(tool, e) => IsAsk(e) /\ ~may'
    BY <2>1 DEF HandsBack, IsAsk
  <2>4. /\ b \in Seq(Frames) /\ ToSet(b) = (IF HandsBack(tool, e) THEN {e} ELSE {}) /\ AskLast(b)
    BY <1>5, Short
  <2> HIDE DEF b
  <2> DEFINE g == t \o b
  <2>5. /\ g \in Seq(Frames) /\ ToSet(g) = ToSet(t) \union ToSet(b)
        /\ AskLast(t) /\ Quiet(ToSet(b)) => AskLast(g)
        /\ ~HasAsk(ToSet(t)) /\ AskLast(b) => AskLast(g)
    BY <2>2, <2>4, Joined
  <2>6. AskLast(g)
    <3>1. CASE HandsBack(tool, e)
      BY <2>2, <2>3, <2>4, <2>5, <3>1 DEF Quiet, HasAsk
    <3>2. CASE ~HandsBack(tool, e)
      <4>1. Quiet(ToSet(b))
        BY <2>4, <3>2 DEF Quiet
      <4> QED BY <2>2, <2>5, <4>1
    <3> QED BY <3>1, <3>2
  <2>7. ToSet(g) \subseteq ToSet(queue)
    BY <2>2, <2>4, <2>5
  <2>8. queue' = g \o deferred
    BY <2>1
  <2> HIDE DEF g
  <2>9. /\ queue' \in Seq(Frames) /\ AskLast(queue')
        /\ ToSet(queue') = ToSet(g) \union ToSet(deferred)
    <3>1. /\ g \o deferred \in Seq(Frames)
          /\ ToSet(g \o deferred) = ToSet(g) \union ToSet(deferred)
          /\ AskLast(g) /\ Quiet(ToSet(deferred)) => AskLast(g \o deferred)
      BY <1>4, <2>5, Joined
    <3> QED BY <1>4, <2>6, <2>8, <3>1
  <2>10. HasAsk(ToSet(queue')) => Quiet(ToSet(down'))
    BY <1>2, <1>4, <2>7, <2>9 DEF HasAsk, Quiet
  <2>11. \A x \in ToSet(queue') \union ToSet(down') :
           x \in Pipe \/ (~IsAsk(x) /\ ~IsOwn(x) /\ x.kind \notin Terminal)
    BY <1>2, <1>3, <1>4, <2>7, <2>9 DEF Quiet
  <2>12. ASSUME may'
         PROVE  /\ up' = <<>> /\ phase = "asked" /\ seen' = turn
                /\ Quiet(ToSet(queue') \union ToSet(down'))
                /\ ~(reply'.tool = "move" /\ reply'.kind = "turn")
    <3>1. IsAsk(e) /\ ~HandsBack(tool, e)
      BY <2>1, <2>3, <2>12 DEF IsAsk
    <3>2. HasAsk(Pipe)
      BY <1>6, <3>1 DEF HasAsk
    <3>3. up' = <<>> /\ phase = "asked"
      BY <1>1, <1>2, <3>2 DEF TakingTurns
    <3>4. seen' = turn
      BY <1>1, <1>3, <1>6, <2>1, <2>12 DEF AboutThisTurn
    <3>5. ToSet(g) = ToSet(t)
      BY <2>4, <2>5, <3>1
    <3>6. Quiet(ToSet(queue') \union ToSet(down'))
      BY <1>2, <1>4, <1>6, <2>2, <2>9, <3>1, <3>5 DEF Quiet
    <3>7. reply'.kind = e.kind /\ e.kind # "turn"
      BY <2>1, <2>12, <3>1
    <3> QED BY <3>3, <3>4, <3>6, <3>7
  <2>13. MoveConfirmsItself'
    <3> SUFFICES ASSUME reply'.tool = "move", reply'.kind = "turn" PROVE reply'.n = moved'
      BY DEF MoveConfirmsItself
    <3>1. tool = "move" /\ e.kind = "turn" /\ reply'.n = e.n
      BY <2>1
    <3>2. IsOwn(e)
      BY <2>1, <3>1 DEF Answering, IsOwn, Terminal
    <3> QED BY <1>1, <1>2, <1>6, <2>1, <3>1, <3>2 DEF LastMove
  <2>14. seen' = seen \/ may'
    BY <2>1
  <2>15. /\ deferred' \in Seq(Frames) /\ ToSet(deferred') = {}
         /\ seen' \in Nat /\ may' \in BOOLEAN
    <3>1. deferred' \in Seq(Frames) /\ ToSet(deferred') = {}
      BY <2>1 DEF ToSet
    <3>2. seen' \in Nat /\ may' \in BOOLEAN
      BY <1>1, <1>6, <2>1 DEF ClientTypes
    <3> QED BY <3>1, <3>2
  <2>16. WireTypes' /\ ClientTypes'
    BY <1>1, <1>2, <1>7, <2>1, <2>9, <2>15 DEF WireTypes, ClientTypes
  <2>17. Quiet(ToSet(deferred')) /\ \A x \in ToSet(deferred') : x.kind \notin Terminal
    BY <2>15 DEF Quiet
  <2>18. AskLast(down') /\ tool # "off" /\ tool' # "off" /\ up' = up
    BY <1>2, <1>4, <2>1
  <2> QED BY <1>2, <2>1, <2>9, <2>10, <2>11, <2>12, <2>13, <2>14, <2>16, <2>17, <2>18,
             McpKeepsIt
<1>10. CASE /\ ~Answering(tool, e) /\ queue' = Tail(queue)
            /\ deferred' = (IF Forgets(tool, e) THEN deferred ELSE Append(deferred, e))
            /\ UNCHANGED <<tool, moved, seen, may, idle, reply>>
  <2>1. ~IsAsk(e) /\ e.kind \notin Terminal /\ e.kind # "observation"
    BY <1>10 DEF Answering, IsAsk
  <2>2. IsOwn(e) => Forgets(tool, e)
    BY <1>2, <1>10 DEF Answering, IsOwn, Forgets
  <2>3. /\ deferred' \in Seq(Frames) /\ Quiet(ToSet(deferred'))
        /\ \A x \in ToSet(deferred') : x.kind \notin Terminal
    <3>1. CASE Forgets(tool, e)
      BY <1>4, <1>10, <3>1
    <3>2. CASE ~Forgets(tool, e)
      <4>1. Append(deferred, e) \in Seq(Frames)
              /\ ToSet(Append(deferred, e)) = ToSet(deferred) \union {e}
        BY <1>4, <1>5, Appended
      <4> QED BY <1>4, <1>10, <2>1, <2>2, <3>2, <4>1 DEF Quiet
    <3> QED BY <3>1, <3>2
  <2>4. /\ queue' \in Seq(Frames) /\ AskLast(queue') /\ ToSet(queue') \subseteq ToSet(queue)
    BY <1>5, <1>10
  <2>5. HasAsk(ToSet(queue')) => Quiet(ToSet(down'))
    BY <1>2, <1>4, <2>4 DEF HasAsk
  <2>6. \A x \in ToSet(queue') \union ToSet(down') : x \in Pipe
    BY <1>2, <1>3, <2>4
  <2>7. may' => /\ up' = <<>> /\ phase = "asked" /\ seen' = turn
                /\ Quiet(ToSet(queue') \union ToSet(down'))
                /\ ~(reply'.tool = "move" /\ reply'.kind = "turn")
    BY <1>1, <1>2, <1>3, <1>10, <2>6 DEF TakingTurns, AboutThisTurn, LastMove, Quiet
  <2>8. WireTypes' /\ ClientTypes' /\ MoveConfirmsItself'
    BY <1>1, <1>2, <1>7, <1>10, <2>3, <2>4 DEF WireTypes, ClientTypes, MoveConfirmsItself
  <2>9. AskLast(down') /\ tool # "off" /\ tool' # "off" /\ up' = up /\ seen' = seen
          /\ moved' = moved
    BY <1>2, <1>4, <1>10
  <2> QED BY <1>2, <2>3, <2>4, <2>5, <2>6, <2>7, <2>8, <2>9, McpKeepsIt
<1> QED BY <1>8, <1>9, <1>10

\* A tool that gives up puts back what it put aside, behind what came meanwhile.
LEMMA TimesOutKeepsIt ==
  ASSUME IInv, Mcp(TimesOut) PROVE IInv'
<1>1. WireTypes /\ ClientTypes /\ OneClient /\ InOrder /\ TakingTurns /\ AboutThisTurn /\ LastMove
        /\ MoveConfirmsItself
  BY DEF IInv
<1>2. /\ tool \in {"observe", "move"} /\ tool' = "none" /\ UNCHANGED sdkVars
      /\ queue' = queue \o deferred /\ deferred' = <<>>
      /\ reply' = [tool |-> tool, kind |-> "timeout", n |-> 0]
      /\ UNCHANGED <<link, down, up, sent, matchVars, told>> /\ UNCHANGED <<moved, seen, may>>
  BY DEF Mcp, TimesOut, wire, Answers
<1>3. /\ Kept = ToSet(queue) /\ Pipe = ToSet(queue) \union ToSet(down)
      /\ (Deciding <=> may) /\ Observed = seen
  BY <1>1, <1>2, McpAlone
<1>4. /\ queue \in Seq(Frames) /\ deferred \in Seq(Frames) /\ AskLast(queue) /\ AskLast(down)
      /\ HasAsk(ToSet(queue)) => Quiet(ToSet(down))
      /\ Quiet(ToSet(deferred)) /\ \A x \in ToSet(deferred) : x.kind \notin Terminal
  BY <1>1, <1>3 DEF ClientTypes, InOrder
<1>5. /\ queue' \in Seq(Frames) /\ AskLast(queue')
      /\ ToSet(queue') = ToSet(queue) \union ToSet(deferred)
  <2>1. /\ queue \o deferred \in Seq(Frames)
        /\ ToSet(queue \o deferred) = ToSet(queue) \union ToSet(deferred)
        /\ AskLast(queue) /\ Quiet(ToSet(deferred)) => AskLast(queue \o deferred)
    BY <1>4, Joined
  <2> QED BY <1>2, <1>4, <2>1
<1>6. HasAsk(ToSet(queue')) => Quiet(ToSet(down'))
  BY <1>2, <1>4, <1>5 DEF HasAsk, Quiet
<1>7. \A x \in ToSet(queue') \union ToSet(down') :
        x \in Pipe \/ (~IsAsk(x) /\ ~IsOwn(x) /\ x.kind \notin Terminal)
  BY <1>2, <1>3, <1>4, <1>5 DEF Quiet
<1>8. may' => /\ up' = <<>> /\ phase = "asked" /\ seen' = turn
              /\ Quiet(ToSet(queue') \union ToSet(down'))
              /\ ~(reply'.tool = "move" /\ reply'.kind = "turn")
  BY <1>1, <1>2, <1>3, <1>4, <1>5 DEF TakingTurns, AboutThisTurn, LastMove, Quiet
<1>9. deferred' \in Seq(Frames) /\ ToSet(deferred') = {}
  BY <1>2 DEF ToSet
<1>10. Quiet(ToSet(deferred')) /\ \A x \in ToSet(deferred') : x.kind \notin Terminal
  BY <1>9 DEF Quiet
<1>11. /\ UNCHANGED <<sdk, obs, backlog, outcome>>
       /\ UNCHANGED <<life, turn, phase, retries, act>>
  BY <1>2 DEF sdkVars, matchVars
<1>13. WireTypes' /\ ClientTypes' /\ MoveConfirmsItself'
  BY <1>1, <1>2, <1>5, <1>9, <1>11 DEF WireTypes, ClientTypes, MoveConfirmsItself
<1>14. AskLast(down') /\ tool # "off" /\ tool' # "off"
  BY <1>2, <1>4
<1> QED BY <1>2, <1>5, <1>6, <1>7, <1>8, <1>10, <1>13, <1>14, McpKeepsIt

----------------------------------------------------------------------------
(* The specification *)

\* Before the handshake nothing has been sent and nobody has decided anything.
LEMMA InitIsGood == ASSUME Init PROVE IInv
<1>1. /\ link = "dialing" /\ down = <<>> /\ up = <<>> /\ sent = 0 /\ life = "running"
      /\ turn = 0 /\ phase = "idle" /\ retries = 0 /\ act = [id |-> 0, for |-> 0, turn |-> 0]
      /\ told = "none"
  BY DEF Init, WireInit
<1>2. /\ sdk \in {"off", "next"} /\ obs = -1 /\ backlog = <<>> /\ outcome = "none"
      /\ ~held /\ ~loop /\ queue = <<>> /\ tool \in {"off", "none"} /\ deferred = <<>>
      /\ moved = 0 /\ seen = 0 /\ may = FALSE
      /\ reply = [tool |-> "none", kind |-> "none", n |-> 0]
      /\ sdk = "off" \/ tool = "off"
  BY DEF Init, SdkInit, McpInit
<1>3. DOMAIN <<>> = {}
  OBVIOUS
<1>4. ToSet(down) = {} /\ ToSet(backlog) = {} /\ ToSet(queue) = {} /\ ToSet(deferred) = {}
  BY <1>1, <1>2, <1>3 DEF ToSet
<1>5. Kept = {} /\ Pipe = {} /\ ~Deciding
  BY <1>2, <1>4 DEF Kept, Pipe, Deciding
<1>6. WireTypes /\ ClientTypes /\ OneClient
  <2>1. <<>> \in Seq(Frames) /\ <<>> \in Seq(Events) /\ <<>> \in Seq(Actions)
    OBVIOUS
  <2>2. WireTypes
    BY <1>1, <2>1 DEF WireTypes, Links, Lives
  <2>3. ClientTypes
    <3>1. seen \in Nat /\ moved \in Nat
      BY <1>2
    <3>3. may \in BOOLEAN
      BY <1>2
    <3>4. obs \in Int
      BY <1>2
    <3>2. backlog \in Seq(Events) /\ queue \in Seq(Frames) /\ deferred \in Seq(Frames)
      BY <1>2, <2>1
    <3> QED BY <1>2, <3>1, <3>2, <3>3, <3>4 DEF ClientTypes
  <2>4. OneClient
    BY <1>2 DEF OneClient
  <2> QED BY <2>2, <2>3, <2>4
<1>7. InOrder
  BY <1>1, <1>2, <1>3, <1>4, <1>5 DEF InOrder, AskLast, HasAsk, Quiet
<1>8. TakingTurns
  <2>1. Len(up) <= 1
    BY <1>1
  <2> QED BY <1>1, <1>5, <2>1 DEF TakingTurns, HasAsk
<1>9. AboutThisTurn /\ LastMove /\ MoveConfirmsItself
  BY <1>1, <1>2, <1>5 DEF AboutThisTurn, LastMove, MoveConfirmsItself
<1>10. EndIsTold
  BY <1>1, <1>2, <1>3, <1>5 DEF EndIsTold
<1>11. ActionsAnswerTheirTurn /\ OutcomeIsTheMatchs
  BY <1>1, <1>2 DEF ActionsAnswerTheirTurn, OutcomeIsTheMatchs
<1> QED BY <1>6, <1>7, <1>8, <1>9, <1>10, <1>11 DEF IInv

\* A step that changes nothing changes no part of the invariant.
LEMMA StutterKeepsIt == ASSUME IInv, UNCHANGED vars PROVE IInv'
<1>1. UNCHANGED <<link, down, up, sent, life, turn, phase, retries, act, told>>
        /\ UNCHANGED <<sdkVars, mcpVars>>
  BY DEF vars, wire, matchVars
<1>2. WireTypes' /\ ActionsAnswerTheirTurn' /\ AskLast(down')
        /\ (phase = "acted" /\ tool # "off" => act.id = moved)
  BY <1>1 DEF IInv, WireTypes, ActionsAnswerTheirTurn, InOrder, LastMove
<1> QED BY <1>1, <1>2, WireKeepsIt

\* Every action of the server, of the connection and of the clients keeps it.
LEMMA NextKeepsIt == ASSUME IInv, [Next]_vars PROVE IInv'
<1>1. CASE Wire(Ask) \/ Wire(OtherTurn) \/ Wire(Accept) \/ Wire(Refuse) \/ Wire(MatchEnds)
  BY <1>1, AskKeepsIt, OtherTurnKeepsIt, AcceptKeepsIt, RefuseKeepsIt, MatchEndsKeepsIt
<1>2. CASE Wire(CommitOwn(<<>>)) \/ Wire(CommitOwn(<<Frame("turn", 0)>>))
  BY <1>2, CommitKeepsIt
<1>3. CASE Wire(Discard) \/ Wire(Ping) \/ Wire(Lose) \/ Wire(Heard)
  BY <1>3, WireRestKeepsIt
<1>4. CASE Sdk(SdkConnects) \/ Sdk(Decided) \/ Sdk(ChooseRaises)
  BY <1>4, SdkRestKeepsIt
<1>5. CASE Sdk(NextKept) \/ Sdk(NextReceived) \/ Sdk(Keeps)
  BY <1>5, NextKeptKeepsIt, NextReceivedKeepsIt, KeepsKeepsIt
<1>6. CASE Sdk(SdkPongs) \/ Mcp(McpPongs)
  BY <1>6, PongsKeepsIt DEF Sdk, Mcp, SdkPongs, McpPongs
<1>7. CASE Mcp(Join) \/ Mcp(GetObservation) \/ Mcp(CloseAll)
  BY <1>7, CallsKeepIt
<1>8. CASE Mcp(Buffers) \/ Mcp(MakeMove) \/ Mcp(Takes) \/ Mcp(TimesOut)
  BY <1>8, BuffersKeepsIt, MakeMoveKeepsIt, TakesKeepsIt, TimesOutKeepsIt
<1>9. CASE UNCHANGED vars
  BY <1>9, StutterKeepsIt
<1> QED BY <1>1, <1>2, <1>3, <1>4, <1>5, <1>6, <1>7, <1>8, <1>9 DEF Next

\* Server and client take turns, whatever is lost, late or refused.
THEOREM ClientsTakeTurns == Spec => []IInv
BY InitIsGood, NextKeepsIt, PTL DEF Spec

\* No retry, rejection, late decision or tool that timed out makes a client answer a
\* turn with the decision for another: an action that the server accepts was chosen
\* for the observation of the turn it is accepted for.
THEOREM ActionsAnswer == Spec => []ActionsAnswerTheirTurn
<1>1. IInv => ActionsAnswerTheirTurn
  BY DEF IInv
<1> QED BY ClientsTakeTurns, <1>1, PTL

\* The turn make_move returns confirms the action that this very call sent.
THEOREM MovesConfirm == Spec => []MoveConfirmsItself
<1>1. IInv => MoveConfirmsItself
  BY DEF IInv
<1> QED BY ClientsTakeTurns, <1>1, PTL

\* connect() reports the end the match had, and a lost connection only when no
\* terminal frame had arrived.
THEOREM OutcomesAreTheMatchs == Spec => []OutcomeIsTheMatchs
<1>1. IInv => OutcomeIsTheMatchs
  BY DEF IInv
<1> QED BY ClientsTakeTurns, <1>1, PTL
=============================================================================
