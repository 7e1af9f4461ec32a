SPECIFICATION ComparedSpec
CONSTANTS
    OutputIndexes = {0, 1}
    TextFragments = {"t", "u"}
    ArgFragments = {"{", "}", " "}
    Blanks = {" "}
    Objects <- MCObjects
    Signatures = {"sig"}
    NoSignature = ""
    Calls = {"a", "b"}
    NoCall = ""
    TrueResponses <- MCTrueResponses
INVARIANTS
    SameAnswer
    ToolsAreNotMixed
CHECK_DEADLOCK FALSE
