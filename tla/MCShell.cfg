SPECIFICATION Spec
CONSTANTS
    CmdBufferLength = 6
    ArgLength = 3
    Letters = {"b", "c"}
    Name <- MCName
CHECK_DEADLOCK FALSE
INVARIANTS LineShownIsParsed OnlyTheNulSpills ReadsAReadyCard
PROPERTIES BootTakesTheWordsTyped
