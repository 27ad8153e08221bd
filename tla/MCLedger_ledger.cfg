SPECIFICATION MCSpec
CONSTANTS
    Null = Null
    Accounts <- MCAccounts
    Account <- MCAccount
    Calls = {"topup", "topupAgain", "topupOther", "charge", "refund", "undo", "undoAgain", "skewed", "crossed"}
    Command <- MCCommand
INVARIANTS
    NoWaitCycle
    LosersKnowWhy
    TrialBalance
PROPERTIES
    ImplementsBook
CHECK_DEADLOCK FALSE
