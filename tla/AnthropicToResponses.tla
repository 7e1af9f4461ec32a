------------------------- MODULE AnthropicToResponses -------------------------
(***************************************************************************)
(* AnthropicToResponses (internal/protocol/anthropic_to_responses.go): the *)
(* Responses request made of an Anthropic Messages request.                *)
(*                                                                         *)
(* A content block is a record of its kind and what the code reads of it;  *)
(* text is a sequence of fragments, as in ResponseOutput, and images and   *)
(* schemas are values.  Blocks of the assistant are those ResponseOutput   *)
(* makes, with the id of their call.  Content that does not parse, which   *)
(* net/http's caller answers with an error, is left out, except for the    *)
(* options below.                                                          *)
(***************************************************************************)
EXTENDS ResponseOutput

CONSTANTS NoId, NoName   \* the blank call id and tool name

-----------------------------------------------------------------------------
(* Content *)

TextBlock(text) == [kind |-> "text", data |-> text]
ImageBlock(image) == [kind |-> "image", data |-> image]
ToolResult(id, content, isError) ==
    [kind |-> "tool_result", id |-> id, content |-> content, isError |-> isError]

\* Every item of Input: what Transform looks at, and the rest of it.
InputItem(type, callId, name, body) ==
    [type |-> type, call_id |-> callId, id |-> NoId, name |-> name, body |-> body]
Message(role, parts) ==
    InputItem("message", NoId, NoName, [role |-> role, content |-> parts])
Part(type, data) == [type |-> type, data |-> data]

\* SelectSeq, as what each element contributes.
Which(s, Keeps(_)) == FlattenSeq([i \in 1 .. Len(s) |-> IF Keeps(s[i]) THEN <<s[i]>> ELSE <<>>])
Each(Op(_), s) == [i \in 1 .. Len(s) |-> Op(s[i])]
Kind(blocks, kind) == LET Is(b) == b.kind = kind IN Which(blocks, Is)
NonBlank(blocks) == LET Says(b) == b.data # <<>> IN Which(blocks, Says)

\* strings.Join(texts, "\n\n")
Joined(texts) ==
    FlattenSeq([i \in 1 .. Len(texts) |-> IF i = 1 THEN texts[i] ELSE <<"\n\n">> \o texts[i]])

-----------------------------------------------------------------------------
(* Messages *)

\* formatToolResultOutput, with "(empty)" for a result without text.  What stands between
\* texts is blank as well.
ErrorMark == "[tool_error]"
SaysNothing(output) == \A i \in 1 .. Len(output) : output[i] \in Blanks \cup {"\n\n"}
FormatToolResultOutput(output, isError) ==
    IF isError THEN <<ErrorMark>> \o (IF SaysNothing(output) THEN <<"failed without a message">> ELSE output)
    ELSE IF output = <<>> THEN <<"(empty)">> ELSE output

\* convertToolResult: its output, and the images that cannot be in it
Data(block) == block.data
ResultOutput(block) ==
    FormatToolResultOutput(Joined(Each(Data, NonBlank(Kind(block.content, "text")))), block.isError)
ImagePart(block) == Part("input_image", block.data)
ResultImages(block) == Each(ImagePart, Kind(block.content, "image"))

\* convertUserMessage: the results first, then one message with everything else
UserParts(blocks) ==
    LET Shows(b) == b.kind = "image" \/ (b.kind = "text" /\ b.data # <<>>)
        InputPart(b) == IF b.kind = "text" THEN Part("input_text", b.data) ELSE ImagePart(b)
    IN  Each(InputPart, Which(blocks, Shows))
        \o FlattenSeq(Each(ResultImages, Kind(blocks, "tool_result")))

OutputItem(block) == InputItem("function_call_output", block.id, NoName, ResultOutput(block))

InBlockOrder(blocks) ==   \* mutant: results stay behind the text before them
    LET ItemsOf(b) == IF b.kind = "tool_result" THEN <<OutputItem(b)>>
                      ELSE <<Message("user", UserParts(<<b>>))>>
    IN  FlattenSeq(Each(ItemsOf, blocks))
        \o LET images == FlattenSeq(Each(ResultImages, Kind(blocks, "tool_result")))
           IN  IF images = <<>> THEN <<>> ELSE <<Message("user", images)>>
ForgetsImages(blocks) ==   \* mutant: a user message of results alone loses their images
    Each(OutputItem, Kind(blocks, "tool_result"))
    \o (IF Kind(blocks, "text") = <<>> /\ Kind(blocks, "image") = <<>> THEN <<>>
        ELSE <<Message("user", UserParts(blocks))>>)
ConvertUserMessage(blocks) ==
    Each(OutputItem, Kind(blocks, "tool_result"))
    \o (IF UserParts(blocks) = <<>> THEN <<>> ELSE <<Message("user", UserParts(blocks))>>)

\* convertAssistantMessage: the ciphertexts, the texts as one message, the calls
ReasoningItem(block) == InputItem("reasoning", NoId, NoName, block.signature)
CallItem(block) ==
    InputItem("function_call", block.id, block.name, FunctionToolInput(block.data))

DropsSilentThoughts(blocks) ==   \* mutant: a thought without a summary is dropped
    LET Shown(b) == b.signature # NoSignature /\ b.data # <<>>
        texts == NonBlank(Kind(blocks, "text"))
    IN  Each(ReasoningItem, Which(Kind(blocks, "thinking"), Shown))
        \o (IF texts = <<>> THEN <<>>
            ELSE <<Message("assistant", <<Part("output_text", Joined(Each(Data, texts)))>>)>>)
        \o Each(CallItem, Kind(blocks, "tool_use"))
ConvertAssistantMessage(blocks) ==
    LET Signed(b) == b.signature # NoSignature
        texts == NonBlank(Kind(blocks, "text"))
    IN  Each(ReasoningItem, Which(Kind(blocks, "thinking"), Signed))
        \o (IF texts = <<>> THEN <<>>
            ELSE <<Message("assistant", <<Part("output_text", Joined(Each(Data, texts)))>>)>>)
        \o Each(CallItem, Kind(blocks, "tool_use"))

\* convertMessage; content that is one string is sent as it is.
ConvertMessage(message) ==
    CASE message.role = "user" /\ message.plain ->
            <<Message("user", <<Part("input_text", message.text)>>)>>
      [] message.role = "user" /\ ~message.plain -> ConvertUserMessage(message.blocks)
      [] message.role = "assistant" /\ message.plain ->
            <<Message("assistant", <<Part("output_text", message.text)>>)>>
      [] message.role = "assistant" /\ ~message.plain -> ConvertAssistantMessage(message.blocks)

\* convertSystem: billing headers are not sent.
ConvertSystem(texts) ==
    LET Sent(text) == text # <<>> /\ text[1] # "billing"
        InputText(text) == Part("input_text", text)
    IN  Each(InputText, Which(texts, Sent))

LatestThoughtsOnly(system, messages) ==   \* mutant: thoughts of older turns are not sent
    LET Old(i) == i < Len(messages) - 1
        IsThought(item) == item.type = "reasoning"
        Others(item) == ~IsThought(item)
        ItemsOf(i) == IF Old(i) THEN Which(ConvertMessage(messages[i]), Others)
                      ELSE ConvertMessage(messages[i])
    IN  FlattenSeq([i \in 1 .. Len(messages) |-> ItemsOf(i)])
ConvertInput(system, messages) ==
    (IF ConvertSystem(system) = <<>> THEN <<>> ELSE <<Message("developer", ConvertSystem(system))>>)
    \o FlattenSeq(Each(ConvertMessage, messages))

-----------------------------------------------------------------------------
(* Options *)

Absent == [kind |-> "absent"]
Word(word) == [kind |-> "word", word |-> word]
Typed(type, name, nested) == [kind |-> "object", type |-> type, name |-> name, nested |-> nested]

\* convertEffort; the blank effort leaves the default.
Efforts == {"low", "medium", "high", "max"}
ConvertEffort(effort) ==
    CASE effort = ""    -> "medium"
      [] effort = "max" -> "xhigh"
      [] OTHER          -> effort

\* convertToolChoice
ValidChoice(choice) ==
    choice # Absent =>
        \/ choice.type \in {"auto", "any", "none"}
        \/ choice.type = "tool" /\ choice.name # NoName
ConvertToolChoice(choice) ==
    IF choice = Absent THEN Absent
    ELSE CASE choice.type = "auto" -> Word("auto")
           [] choice.type = "any"  -> Word("required")
           [] choice.type = "none" -> Word("none")
           [] choice.type = "tool" -> Typed("function", choice.name, NoName)

\* convertTools, normalizeToolParameters: an object schema gets its properties.
ValidSchema(schema) == schema # "invalid"
NormalizeToolParameters(schema) ==
    IF schema \in {"none", "object without properties"} THEN "object" ELSE schema
ConvertTools(tools) ==
    [i \in 1 .. Len(tools) |->
        [type |-> "function", name |-> tools[i].name, nested |-> NoName,
         parameters |-> NormalizeToolParameters(tools[i].schema)]]

\* AnthropicToResponses
Convertible(request) ==
    /\ \A i \in 1 .. Len(request.tools) : ValidSchema(request.tools[i].schema)
    /\ request.effort \in Efforts \cup {""}
    /\ ValidChoice(request.choice)

ToResponses(request) ==
    [input         |-> ConvertInput(request.system, request.messages),
     fields        |-> {"model", "store", "parallel_tool_calls", "text", "max_output_tokens"},
     instructions  |-> FALSE,
     include       |-> {"reasoning.encrypted_content"},
     reasoning     |-> ConvertEffort(request.effort),
     functions     |-> Absent,
     function_call |-> Absent,
     tools         |-> ConvertTools(request.tools),
     tool_choice   |-> ConvertToolChoice(request.choice)]

================================================================================
