SPECIFICATION Spec
CONSTANTS
    Configs <- MCConfigs
    BoundSeats <- MCBoundSeats
    Agents <- MCAgents
    Answers <- MCAnswers
    Draws <- MCDraws
    MaxTurns <- MCMaxTurns
    MaxRetries = 1
INVARIANTS RulesAgree ReplaysAsPlayed TamperedIsRefused HandsStaySecret RedactedIsTheView EventsTellTheMatch
PROPERTY SessionEnds
CHECK_DEADLOCK FALSE
