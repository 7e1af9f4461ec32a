SPECIFICATION Spec
CONSTANTS
    OutputIndexes = {0, 1}
    TextFragments = {"t"}
    TextStrings <- MCTextStrings
    ArgFragments = {"{", "}"}
    ArgStrings <- MCArgStrings
    Blanks = {}
    Objects <- MCObjects
    Signatures = {"sig"}
    NoSignature = ""
    TerminalOutputs <- MCMalformedOutputs
    MaxEmitted = 7
    MaxBuffer = 4
INVARIANTS
    MalformedToolsNeverSucceed
CHECK_DEADLOCK FALSE
