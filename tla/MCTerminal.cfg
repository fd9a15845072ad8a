SPECIFICATION Spec
CONSTANTS
    COLS = 4
    ROWS = 2
    LINE_MAX = 6
    HISTORY_MAX = 2
    ARGV_MAX = 2
    FIFO_MAX = 4
    Keys <- MCKeys
    Outputs <- MCOutputs
    PromptText <- MCPromptText
    HISTORY <- MCHISTORY
    CLEAR <- MCCLEAR
    EXIT <- MCEXIT
    Budgets <- MCBudgets
INVARIANTS
    KeysFollowHands
    ScreenShowsLine
    PromptResets
    HistoryIsRecent
\* The shell may have exited.
CHECK_DEADLOCK FALSE
