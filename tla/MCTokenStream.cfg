CONSTANTS
    MaxTokens = 8
    MaxFiles = 2
SPECIFICATION FairSpec
CHECK_DEADLOCK FALSE
INVARIANTS TypeOK NeverFull InOrder TextOfToken
PROPERTY Ends
