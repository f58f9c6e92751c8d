SPECIFICATION Spec
CONSTANTS
    Configs <- MCShortLines
    BoundSeats <- MCBoundSeats
    Agents <- MCAgents
    Answers <- MCAnswers
    Draws <- MCDraws
    MaxTurns <- MCMaxTurns
    MaxRetries = 1
INVARIANT
    RuntimeTranscriptsValidate
CHECK_DEADLOCK FALSE
