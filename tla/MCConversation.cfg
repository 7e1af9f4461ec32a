SPECIFICATION Spec
CONSTANTS
    TextFragments = {"t", " "}
    ArgFragments = {"{", "}", " "}
    Blanks = {" "}
    Objects <- MCObjects
    Signatures = {"one", "two"}
    NoSignature = ""
    NoId = ""
    NoName = ""
    ShortIds = {"a", "b"}
    LongIds = {"long"}
    Digest <- MCDigest
    ToolNames = {"read", "write"}
    ToolTypes = {"web_search"}
    Schemas = {"none", "object", "invalid"}
    Images = {"cat"}
    Systems <- MCSystems
    Options <- MCOptions
    Answers <- MCAnswers
    Extras <- MCExtras
    ResultContents <- MCResultContents
    OlderBodies <- MCOlderBodies
    MaxMessages = 5
INVARIANTS
    ResultsFollowCalls
    HistoryIsReplayed
    ImagesAreSent
    ExtendsAnswered
    ChosenToolIsOffered
CHECK_DEADLOCK FALSE
