---------------------------- MODULE CodexTransform ----------------------------
(***************************************************************************)
(* Transform (internal/upstream/codex/transform.go): the request as the    *)
(* Codex endpoint takes it.  It is given the requests AnthropicToResponses *)
(* makes, and, as its tests show (transform_test.go:103-133), those of     *)
(* callers that use the older functions and function_call fields.          *)
(*                                                                         *)
(* Fields that are only kept, removed or set are the set fields; values    *)
(* that are not of the type the code expects are left out.                 *)
(***************************************************************************)
EXTENDS AnthropicToResponses

CONSTANTS
    ShortIds,   \* call ids of at most 64 bytes
    LongIds,    \* longer ones
    Digest      \* the compressed form of each

\* SHA-256 does not collide, and no call is named like a digest.
ASSUME DigestAssumption ==
    /\ \A a, b \in LongIds : Digest[a] = Digest[b] => a = b
    /\ \A a \in LongIds : Digest[a] \notin ShortIds \cup LongIds

-----------------------------------------------------------------------------
(* Fields *)

UnsupportedFields ==
    {"user", "metadata", "prompt_cache_key", "max_output_tokens", "temperature", "top_p"}

\* normalizeInstructions, ensureReasoningInclude
EnsureReasoningInclude(body) ==
    IF body.reasoning = "" THEN body
    ELSE [body EXCEPT !.include = @ \cup {"reasoning.encrypted_content"}]

NormalizeFields(body) ==
    EnsureReasoningInclude([body EXCEPT !.fields = (@ \ UnsupportedFields) \cup {"model", "stream", "store"},
                                        !.instructions = TRUE])

\* normalizeLegacyFunctions
FunctionTool(name) == [type |-> "function", name |-> NoName, nested |-> name, parameters |-> "object"]
NormalizeLegacyFunctions(body) ==
    LET call == body.function_call
    IN  [body EXCEPT !.functions = Absent,
                     !.function_call = Absent,
                     !.tools = IF body.functions = Absent THEN @
                               ELSE Each(FunctionTool, body.functions.names),
                     !.tool_choice =
                         IF call.kind = "word" THEN call
                         ELSE IF call.kind = "object" /\ call.name # NoName
                              THEN Typed("function", call.name, NoName)
                         ELSE @]

\* normalizeTools: a function without a name anywhere is dropped.
NormalizeTools(body) ==
    LET Named(t) == t.type = "function" => t.name # NoName \/ t.nested # NoName
        Flat(t) == IF t.type # "function" THEN t
                   ELSE [t EXCEPT !.name = IF t.name = NoName THEN t.nested ELSE t.name,
                                  !.nested = NoName]
    IN  [body EXCEPT !.tools = Each(Flat, Which(@, Named))]

\* toolsContainFunction, toolsContainType
ContainsFunction(tools, name) ==
    \E i \in 1 .. Len(tools) : tools[i].type = "function" /\ tools[i].name = name
ContainsType(tools, type) == \E i \in 1 .. Len(tools) : tools[i].type = type

\* normalizeToolChoice
NormalizeToolChoice(body) ==
    LET choice == body.tool_choice
        name == IF choice.name = NoName THEN choice.nested ELSE choice.name
    IN  [body EXCEPT !.tool_choice =
            IF choice.kind # "object" THEN choice
            ELSE IF choice.type = "function"
                 THEN IF name = NoName \/ ~ContainsFunction(body.tools, name) THEN Word("auto")
                      ELSE Typed("function", name, NoName)
            ELSE IF ContainsType(body.tools, choice.type) THEN choice
            ELSE Word("auto")]

-----------------------------------------------------------------------------
(* Input *)

\* compactCallIDIfNeeded
CompactCallID(id) == IF id \in LongIds THEN Digest[id] ELSE id

CallTypes == {"function_call", "custom_tool_call", "mcp_tool_call"}
OutputTypes == {"function_call_output", "custom_tool_call_output", "mcp_tool_call_output"}

\* An item of normalizeInput.  The other fields a call without a name is named after,
\* tool_name and function, are in no request the transform is given.
NormalItem(item) ==
    LET callId == IF item.call_id = NoId THEN item.id ELSE item.call_id
    IN  [item EXCEPT !.id = IF item.type = "reasoning" THEN NoId ELSE @,
                     !.call_id = IF item.type \in CallTypes \cup OutputTypes
                                 THEN CompactCallID(callId) ELSE NoId,
                     !.name = IF item.type \in CallTypes /\ @ = NoName THEN "tool" ELSE @]

NormalizeInput(body) == [body EXCEPT !.input = Each(NormalItem, @)]

ChoosesFirst(body) ==   \* mutant: the choice is looked up before the tools are normalized
    NormalizeInput(NormalizeTools(NormalizeToolChoice(NormalizeLegacyFunctions(NormalizeFields(body)))))
Transform(body) ==
    NormalizeInput(NormalizeToolChoice(NormalizeTools(NormalizeLegacyFunctions(NormalizeFields(body)))))

================================================================================
