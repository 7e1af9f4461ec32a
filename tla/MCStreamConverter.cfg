SPECIFICATION Spec
CONSTANTS
    OutputIndexes = {0, 1}
    TextFragments = {"t"}
    TextStrings <- MCTextStrings
    ArgFragments = {"{", "}", " "}
    ArgStrings <- MCBlankStrings
    Blanks = {" "}
    Objects <- MCObjects
    Signatures = {"sig"}
    NoSignature = ""
    TerminalOutputs <- MCTerminalOutputs
    MaxEmitted = 7
    MaxBuffer = 4
INVARIANTS
    TypeOK
    CursorMatchesStream
    FlagsMatchStream
    BufferMirrorsClient
PROPERTIES
    ImplementsAnthropicStream
    FinishedToolsAreWhole
CHECK_DEADLOCK FALSE
