---------------------------- MODULE ResponseOutput ----------------------------
(***************************************************************************)
(* The Output list of a Responses object and what the client is shown of   *)
(* it (internal/protocol/responses_to_anthropic.go).  The streaming        *)
(* converter and the buffered answer share these functions.                *)
(*                                                                         *)
(* A string of the wire is a sequence of fragments, so that the deltas of  *)
(* an item and the text its done event repeats can be compared.            *)
(* The empty string is <<>>; a string of whitespace is one of Blanks.      *)
(* Identifiers, names, model labels and usage counters are copied and are  *)
(* not modelled.                                                           *)
(***************************************************************************)
EXTENDS Integers, SequencesExt

CONSTANTS
    TextFragments,   \* non-empty pieces of text and of reasoning
    ArgFragments,    \* non-empty pieces of tool arguments and inputs
    Blanks,          \* the fragments that are nothing but whitespace
    Objects,         \* the strings that parse as a JSON object
    Signatures,      \* encrypted_content values, which are not blank
    NoSignature      \* the empty encrypted_content

\* strings.TrimSpace(string) == ""
Blank(string) == \A i \in 1 .. Len(string) : string[i] \in Blanks

ASSUME BlanksAssumption == Blanks \cap {"{}", "{input:"} = {}

ASSUME ObjectsAssumption == \A object \in Objects : ~Blank(object)

\* The items of an Output list: a reasoning item with its summary text and
\* ciphertext, a message with its non-empty texts, a tool call with its
\* arguments or its freeform input.
OutputItems ==
    [type : {"reasoning"}, summary : Seq(TextFragments), signature : Signatures \cup {NoSignature}]
    \cup [type : {"message"}, texts : Seq(Seq(TextFragments) \ {<<>>})]
    \cup [type : {"function_call"}, arguments : Seq(ArgFragments)]
    \cup [type : {"custom_tool_call"}, input : Seq(ArgFragments)]

\* functionToolInput: blank arguments stand for the empty object, anything
\* else has to parse as an object.
EmptyObject == <<"{}">>
AnyArguments(arguments) == TRUE   \* mutant: not validated
ValidArguments(arguments) == Blank(arguments) \/ arguments \in Objects
FunctionToolInput(arguments) == IF Blank(arguments) THEN EmptyObject ELSE arguments

\* Blank, but not empty.
Whitespace(string) == string # <<>> /\ Blank(string)

\* customToolInput: freeform text becomes the string field of an object.
CustomToolInput(input) == <<"{input:">> \o input \o <<"}">>

\* stopReasonFor
StatusAsReason(status, maxTokens, tool) ==   \* mutant: the upstream status leaks out
    CASE status = "incomplete" /\ maxTokens -> "max_tokens"
      [] status = "completed" /\ tool       -> "tool_use"
      [] OTHER                              -> status
StopReasonFor(status, maxTokens, tool) ==
    CASE status = "incomplete" /\ maxTokens -> "max_tokens"
      [] status = "completed" /\ tool       -> "tool_use"
      [] OTHER                              -> "end_turn"

-----------------------------------------------------------------------------
(* The blocks of an Output list: responseOutputToBlocks. *)

ContentBlock(kind, data, signature) ==
    [kind |-> kind, data |-> data, signature |-> signature]

ItemBlocks(item) ==
    CASE item.type = "reasoning" ->
            IF item.summary # <<>> \/ item.signature # NoSignature
            THEN <<ContentBlock("thinking", item.summary, item.signature)>>
            ELSE <<>>
      [] item.type = "message" ->
            [i \in 1 .. Len(item.texts) |-> ContentBlock("text", item.texts[i], NoSignature)]
      [] item.type = "function_call" ->
            <<ContentBlock("tool_use", FunctionToolInput(item.arguments), NoSignature)>>
      [] item.type = "custom_tool_call" ->
            <<ContentBlock("tool_use", CustomToolInput(item.input), NoSignature)>>

\* responseOutputToBlocks fails on the first call whose arguments do not parse.
ValidOutput(output) ==
    \A i \in 1 .. Len(output) :
        output[i].type = "function_call" => ValidArguments(output[i].arguments)

OutputBlocks(output) == FlattenSeq([i \in 1 .. Len(output) |-> ItemBlocks(output[i])])

FunctionCallsOnly(output) ==   \* mutant: custom calls forgotten
    \E i \in 1 .. Len(output) : output[i].type = "function_call"
OutputHasTool(output) ==
    \E i \in 1 .. Len(output) : output[i].type \in {"function_call", "custom_tool_call"}

===============================================================================
