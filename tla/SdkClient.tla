----------------------------- MODULE SdkClient -----------------------------
(***************************************************************************)
(* connect() of the Python SDK: _run_session of sdk/_connect.py, which     *)
(* reads a seat's events one by one and runs the caller's choose() on a    *)
(* thread while it goes on receiving.                                      *)
(***************************************************************************)
EXTENDS SeatWire

VARIABLES
  sdk,     \* "next", "choosing" or "done"; "off" when the seat is not connect()'s
  obs,     \* the turn of the last observation, -1 before the first
  backlog, \* what was received while choosing, exceptions included
  outcome  \* how connect() returned

sdkVars == <<sdk, obs, backlog, outcome>>

SdkTypeOK ==
  /\ sdk \in {"off", "next", "choosing", "done"} /\ obs \in -1 .. MaxTurns
  /\ backlog \in Seq(Frames \union {Lost, Raw})
  /\ outcome \in {"none", "result", "aborted", "lost", "raw", "raised", "refused"}

SdkInit == sdk \in {"off", "next"} /\ obs = -1 /\ backlog = <<>> /\ outcome = "none"

\* A result, or an exception, leaves `async with': the session is closed.
Returns(how) ==
  /\ sdk' = "done" /\ outcome' = how /\ link' = "known"
  /\ UNCHANGED obs

\* Session.connect: hello, then welcome, or a close code, or a frame or a seat
\* that is not what was asked for.
SdkConnects ==
  /\ link = "dialing" /\ sdk = "next"
  /\ \/ link' = "open" /\ UNCHANGED <<sdk, outcome>>
     \/ link' = "refused" /\ sdk' = "done" /\ outcome' = "refused"
  /\ UNCHANGED <<down, up, sent, matchVars, told, obs, backlog>>

\* A state update is taken for a new request as well.
DecidesOnState(e) == e.kind \in {"observation", "state"} \/ (e.kind = "rejected" /\ e.n > 0)

\* The event that makes the caller choose: an observation, or a rejection that
\* leaves attempts for the one observed before.
Decides(e) ==
  \/ e.kind = "observation"
  \/ e.kind = "rejected" /\ obs # -1 /\ e.n > 0

\* One turn of the loop of _run_session, with event e.
Handles(e) ==
  \/ /\ Decides(e) /\ sdk' = "choosing"
     /\ obs' = IF e.kind = "observation" THEN e.n ELSE obs
     /\ UNCHANGED <<link, outcome>>
  \/ e.kind = "finished" /\ Returns("result")
  \/ e.kind \in {"aborted", "lost", "raw"} /\ Returns(e.kind)
  \/ /\ ~Decides(e) /\ e.kind \in {"turn", "state", "rejected"}
     /\ UNCHANGED <<link, sdk, obs, outcome>>

\* _next_event hands back what was kept before it receives anything.
NextKept ==
  /\ link # "dialing" /\ sdk = "next" /\ backlog # <<>>
  /\ backlog' = Tail(backlog) /\ Handles(Head(backlog))
  /\ UNCHANGED <<down, up, sent, matchVars, told>>

NextReceived ==
  /\ link # "dialing" /\ sdk = "next" /\ backlog = <<>>
  /\ \E e \in ToSet(down) \union {Lost, Raw} : Receives(e) /\ Handles(e)
  /\ UNCHANGED <<up, sent, matchVars, told, backlog>>

\* choose() is called inline, and the session serves nothing meanwhile.
OnlyBetweenChoices == link # "dialing" /\ sdk = "next" /\ backlog = <<>>

\* It receives once beside choose(), and then only waits for the decision.
OneReceivePerChoice ==
  link # "dialing" /\ sdk \in {"next", "choosing"} /\ backlog = <<>>

\* Session.recv is running: for _next_event, or beside choose().
Receiving ==
  /\ link # "dialing"
  /\ sdk = "choosing" \/ (sdk = "next" /\ backlog = <<>>)

SdkPongs == Receiving /\ Pongs /\ UNCHANGED sdkVars

\* The match is over for _choose_while_serving: it abandons the decision.
EndsChoice(e) == e.kind \in {"lost", "aborted"}

\* _choose_while_serving keeps what it receives, in order.
Keeps ==
  /\ Receiving /\ sdk = "choosing"
  /\ \E e \in ToSet(down) \union {Lost, Raw} :
       /\ Receives(e)
       /\ backlog' = Append(backlog, e)
       /\ sdk' = IF EndsChoice(e) THEN "next" ELSE sdk
  /\ UNCHANGED <<link, up, sent, matchVars, told, obs, outcome>>

\* The ProtocolError of a send that finds the socket closed is not dropped.
DecidedOrRaised ==
  /\ sdk = "choosing"
  /\ \/ Sends(obs) /\ sdk' = "next" /\ UNCHANGED <<link, obs, outcome>>
     \/ link = "known" /\ Returns("lost") /\ UNCHANGED <<up, sent>>
  /\ UNCHANGED <<down, matchVars, told, backlog>>

\* _decide_and_send: choose() has returned; a send that finds the socket
\* closed raises a ProtocolError, which is dropped.
Decided ==
  /\ sdk = "choosing"
  /\ Sends(obs) \/ (link = "known" /\ UNCHANGED <<up, sent>>)
  /\ sdk' = "next"
  /\ UNCHANGED <<link, down, matchVars, told, obs, backlog, outcome>>

\* choose() raises: connect() raises it.
ChooseRaises ==
  /\ sdk = "choosing" /\ Returns("raised")
  /\ UNCHANGED <<down, up, sent, matchVars, told, backlog>>
=============================================================================
