SPECIFICATION ViewSpec
CONSTANTS
    Tokens <- McTokens
    ExecRows <- McRows
    Passwd <- McPasswd
    MaxU32 = 15
    MaxI32 = 7
    MaxTokens = 3
INVARIANTS LastTokenWins NegationComplements PatternsMean ClickKeepsRow
CHECK_DEADLOCK FALSE
