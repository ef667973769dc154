SPECIFICATION CallSpec
CONSTANTS
    Answers <- MCAnswers
    MaxRetries = 3
INVARIANTS AnswerIsWhole RepairsAreTruncations
PROPERTY CallsReturn
CHECK_DEADLOCK FALSE
