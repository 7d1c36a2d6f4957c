SPECIFICATION LiveSpec
CONSTANTS
    Helpers = {h1}
    Platforms = {"unix", "windows"}
    MaxLines = 1
    MaxWrites = 2
INVARIANTS EnginesEndWithRun SuccessIsComplete OutputIsBounded
PROPERTIES RunReturns InputIsWiped
CHECK_DEADLOCK FALSE
