---------------------------- MODULE SeatClients ----------------------------
(***************************************************************************)
(* The two clients of the repository against the same wire: a seat played  *)
(* through connect() or through the MCP tools.                             *)
(***************************************************************************)
EXTENDS SdkClient, McpTools

vars == <<wire, sdkVars, mcpVars>>

Init ==
  /\ WireInit /\ SdkInit /\ McpInit
  /\ (sdk = "off") # (tool = "off")

\* The match and the connection take a step; a client takes a step.
Wire(step) == step /\ UNCHANGED <<sdkVars, mcpVars>>
Sdk(step) == step /\ UNCHANGED mcpVars
Mcp(step) == step /\ UNCHANGED sdkVars

Next ==
  \/ Wire(Ask) \/ Wire(OtherTurn) \/ Wire(Accept) \/ Wire(Refuse)
  \/ Wire(CommitOwn(<<>>)) \/ Wire(CommitOwn(<<Frame("turn", 0)>>))
  \/ Wire(Discard) \/ Wire(MatchEnds) \/ Wire(Ping) \/ Wire(Lose) \/ Wire(Heard)
  \/ Sdk(SdkConnects) \/ Sdk(NextKept) \/ Sdk(NextReceived) \/ Sdk(SdkPongs)
  \/ Sdk(Keeps) \/ Sdk(Decided) \/ Sdk(ChooseRaises)
  \/ Mcp(Join) \/ Mcp(McpPongs) \/ Mcp(Buffers) \/ Mcp(GetObservation)
  \/ Mcp(MakeMove) \/ Mcp(Takes) \/ Mcp(TimesOut) \/ Mcp(CloseAll)

\* The close behind a terminal frame arrives, and a client's event loop runs
\* what is ready.  Nothing is assumed of choose(), of the agent or the match.
Fairness ==
  /\ WF_vars(Wire(CloseArrives))
  /\ WF_vars(Sdk(SdkPongs \/ NextKept \/ NextReceived \/ Keeps))
  /\ WF_vars(Mcp(McpPongs \/ Buffers))

Spec == Init /\ [][Next]_vars /\ Fairness

TypeOK == WireTypeOK /\ SdkTypeOK /\ McpTypeOK

-----------------------------------------------------------------------------
(* Properties.                                                              *)

\* A ping on an open connection is answered, however long choose() thinks and
\* whether or not a tool is running: neither client can be dropped for a
\* heartbeat while its agent deliberates.
PingsAnswered ==
  (link = "open" /\ \E i \in DOMAIN down : down[i].kind = "ping")
    ~> (link # "open" \/ \A i \in DOMAIN down : down[i].kind # "ping")

\* An action the server takes for a turn was chosen for that turn's
\* observation: no retry, rejection, late decision or timed-out tool call
\* makes a client answer a turn with another turn's decision.
ActionsAnswerTheirTurn == act.id > 0 => act.for = act.turn

\* The turn that make_move returns as its confirmation is the action this very
\* call sent, and not an earlier one whose call had timed out.
MoveConfirmsItself ==
  reply.tool = "move" /\ reply.kind = "turn" => reply.n = moved

\* connect() reports a result only of a finished match and an abort only of an
\* aborted one, and it says that the connection was lost only if no terminal
\* frame had arrived, even when its own send found the socket closed.
OutcomeIsTheMatchs ==
  sdk = "done" =>
    /\ outcome = "result" => life = "finished"
    /\ outcome = "aborted" => life = "aborted"
    /\ outcome = "lost" => told = "none"

\* Once the server has ended the match and closed, connect() returns or
\* raises, though choose() never does, unless those frames are lost.
ConnectReturns ==
  (sdk # "off" /\ told # "none") ~> (sdk = "done" \/ told = "none")

\* A terminal frame that arrived is what connect() reports: "Its terminal
\* frame, if it arrived, is read next, so the caller learns why".
TerminalFrameIsReported ==
  sdk = "done" /\ told # "none" => outcome \in {"result", "aborted", "raised"}

\* get_history returns "all TurnCommitted + terminal event".
HistoryTellsTheEnd ==
  \A i \in DOMAIN history : history[i].kind \in Terminal =>
    \E j \in DOMAIN HistoryReply : HistoryReply[j].kind \in Terminal
=============================================================================
