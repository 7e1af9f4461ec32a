------------------------------ MODULE Conversation ------------------------------
(***************************************************************************)
(* A conversation of several turns.  The client sends its whole transcript *)
(* with every request; the adapter translates it (AnthropicToResponses),   *)
(* transforms it (Transform) and sends it upstream; the blocks made of the *)
(* answer (responseOutputToBlocks) become part of the transcript, and come *)
(* back with the next request, with the results of the tools it called.    *)
(***************************************************************************)
EXTENDS CodexTransform, Bags

CONSTANTS
    ToolNames,      \* names of tools
    ToolTypes,      \* types of tools that are not functions
    Schemas,        \* what the schema of a tool says
    Images,         \* what an image block shows
    Systems,        \* system prompts: lists of texts
    Options,        \* tools, tool_choice and effort of a request
    Answers,        \* Output lists of the upstream, its calls without their ids
    Extras,         \* what a user may say besides the results of tools
    ResultContents, \* content of the result of a tool, and whether it is an error
    OlderBodies,    \* requests of other callers of Transform
    MaxMessages     \* bound: length of the transcript

\* What a user says and a tool returns is text or an image.
ShownBlocks == [kind : {"text"}, data : Seq(TextFragments)] \cup [kind : {"image"}, data : Images]
SomeName == ToolNames \cup {NoName}

ASSUME ClientAssumption ==
    /\ Systems \subseteq Seq(Seq(TextFragments \cup {"billing"}))
    /\ Extras \subseteq Seq(ShownBlocks)
    /\ ResultContents \subseteq [content : Seq(ShownBlocks), isError : BOOLEAN]
    /\ \A options \in Options :
          /\ options.tools \in Seq([name : SomeName, schema : Schemas])
          /\ options.choice \in {Absent} \cup [kind : {"choice"}, type : STRING, name : SomeName]

\* Items of OutputItems, before their calls have ids; a call names a tool.  The marks the
\* code puts between texts, and the blank name, are nobody's.
AnswerItems ==
    [type : {"reasoning"}, summary : Seq(TextFragments), signature : Signatures \cup {NoSignature},
     call_id : {NoId}, name : {NoName}]
    \cup [type : {"message"}, texts : Seq(Seq(TextFragments) \ {<<>>}), call_id : {NoId}, name : {NoName}]
    \cup [type : {"function_call"}, arguments : Seq(ArgFragments), call_id : {NoId}, name : ToolNames]
    \cup [type : {"custom_tool_call"}, input : Seq(ArgFragments), call_id : {NoId}, name : ToolNames]

ASSUME UpstreamAssumption ==
    /\ Answers \subseteq Seq(AnswerItems)
    /\ "\n\n" \notin TextFragments
    /\ NoName \notin ToolNames

\* Other callers name a function in one place (transform_test.go:103-133).
NamesOnce(x) == x.name = NoName \/ x.nested = NoName
Words == {Absent} \cup [kind : {"word"}, word : {"auto", "required", "none"}]
Types == ToolTypes \cup {"function"}
Parameters == Schemas \cup {"object"}
OlderTools == {t \in [type : Types, name : SomeName, nested : SomeName, parameters : Parameters] : NamesOnce(t)}
OlderCalls == Words \cup [kind : {"object"}, type : {""}, name : SomeName, nested : {NoName}]
OlderChoices ==
    Words \cup {c \in [kind : {"object"}, type : Types \ {""}, name : SomeName, nested : SomeName] : NamesOnce(c)}
Choosing(body) ==
    /\ DOMAIN body = {"input", "fields", "instructions", "include", "reasoning",
                      "functions", "function_call", "tools", "tool_choice"}
    /\ body.functions \in {Absent} \cup [kind : {"list"}, names : Seq(ToolNames)]
    /\ body.function_call \in OlderCalls
    /\ body.tool_choice \in OlderChoices
    /\ body.tools \in Seq(OlderTools)

ASSUME OlderAssumption == \A body \in OlderBodies : Choosing(body)

VARIABLES
    system, messages,   \* what the client sends
    turn,               \* who is to speak: the client or the upstream, or another caller
    sent,               \* the last request sent upstream
    answered,           \* history: the Input of the last request that was answered
    told,               \* history: the items of all answers
    transformed         \* the last request of another caller, and what became of it

vars == <<system, messages, turn, sent, answered, told, transformed>>

-----------------------------------------------------------------------------
(* The upstream's answers *)

IsCall(item) == item.type \in {"function_call", "custom_tool_call"}
CallsOf(items) == Which(items, IsCall)

\* Ids nobody has used yet, for every call of an answer.
Used == {CallsOf(told)[i].call_id : i \in 1 .. Len(CallsOf(told))}
Identified(answer) ==
    LET calls == {i \in 1 .. Len(answer) : IsCall(answer[i])}
    IN  {[i \in 1 .. Len(answer) |-> IF i \in calls THEN [answer[i] EXCEPT !.call_id = ids[i]] ELSE answer[i]] :
            ids \in {f \in [calls -> (ShortIds \cup LongIds) \ Used] : IsInjective(f)}}

\* responseOutputToBlocks, with the id and the name of a call
BlocksOf(item) ==
    [k \in 1 .. Len(ItemBlocks(item)) |->
        LET block == ItemBlocks(item)[k]
        IN  [kind |-> block.kind, data |-> block.data, signature |-> block.signature,
             id |-> item.call_id, name |-> item.name]]
Blocks(items) ==
    LET blocks == FlattenSeq(Each(BlocksOf, items))
    IN  IF blocks = <<>> THEN <<TextBlock(<<>>)>> ELSE blocks

-----------------------------------------------------------------------------
(* The client *)

\* Content is one string or a list of blocks.
Plain(role, text) == [role |-> role, plain |-> TRUE, text |-> text]
Blocked(role, blocks) == [role |-> role, plain |-> FALSE, blocks |-> blocks]

\* The calls of the last answer, each of which gets a result.
OpenCalls == IF messages = <<>> THEN <<>> ELSE Kind(Last(messages).blocks, "tool_use")

Orders(n) == {f \in [1 .. n -> 1 .. n] : IsInjective(f)}

Results(order, results) ==
    [i \in 1 .. Len(OpenCalls) |->
        ToolResult(OpenCalls[order[i]].id, results[i].content, results[i].isError)]

\* Results come in any order, with anything before and after them.
Replies ==
    IF OpenCalls = <<>>
    THEN {Blocked("user", extra) : extra \in Extras \ {<<>>}}
         \cup {Plain("user", <<fragment>>) : fragment \in TextFragments}
    ELSE {Blocked("user", before \o Results(order, results) \o after) :
              before \in Extras, after \in Extras,
              order \in Orders(Len(OpenCalls)), results \in [1 .. Len(OpenCalls) -> ResultContents]}

\* A request.  One that does not convert is answered with an error 400 and changes
\* nothing.
Ask(message) ==
    \E options \in Options :
        LET request == [system |-> system, messages |-> Append(messages, message), tools |-> options.tools,
                        effort |-> options.effort, choice |-> options.choice]
        IN  /\ Convertible(request)
            /\ messages' = request.messages
            /\ sent' = Transform(ToResponses(request))
            /\ turn' = "upstream"
            /\ UNCHANGED <<system, answered, told, transformed>>

\* The upstream answers, or the request fails and the client takes it back.
Answer ==
    /\ turn = "upstream"
    /\ \E answer \in Answers : \E items \in Identified(answer) :
          /\ told' = told \o items
          /\ messages' = Append(messages, Blocked("assistant", Blocks(items)))
    /\ answered' = sent.input
    /\ turn' = "client"
    /\ UNCHANGED <<system, sent, transformed>>

Fail ==
    /\ turn = "upstream"
    /\ messages' = Front(messages)
    /\ turn' = "client"
    /\ UNCHANGED <<system, sent, answered, told, transformed>>

\* Another caller has a request of its own transformed.
TransformOlder ==
    /\ turn = "client"
    /\ messages = <<>>
    /\ \E body \in OlderBodies : transformed' = [older |-> body, newer |-> Transform(body)]
    /\ turn' = "other"
    /\ UNCHANGED <<system, messages, sent, answered, told>>

-----------------------------------------------------------------------------
(* Specification *)

NoRequest ==
    [input |-> <<>>, tools |-> <<>>, tool_choice |-> Absent, functions |-> Absent, function_call |-> Absent]

Init ==
    /\ system \in Systems
    /\ messages = <<>>
    /\ turn = "client"
    /\ sent = NoRequest
    /\ answered = <<>>
    /\ told = <<>>
    /\ transformed = [older |-> NoRequest, newer |-> NoRequest]

Next ==
    \/ /\ turn = "client"
       /\ Len(messages) < MaxMessages
       /\ \E message \in Replies : Ask(message)
    \/ Answer
    \/ Fail
    \/ TransformOlder

Spec == Init /\ [][Next]_vars

-----------------------------------------------------------------------------
(* Properties *)

OfType(items, type) == LET Is(item) == item.type = type IN Which(items, Is)

\* The Responses API takes a result only for a call that was made: the result of
\* every call follows it, with the same id (README.md:54-57), and nothing but other
\* calls and results stands between them, however the client orders its blocks.
ResultsFollowCalls ==
    turn = "upstream" =>
        LET input == sent.input
            At(type) == {i \in 1 .. Len(input) : input[i].type = type}
        IN  /\ \A j \in At("function_call_output") :
                  \E i \in At("function_call") :
                      /\ i < j
                      /\ input[i].call_id = input[j].call_id
                      /\ \A k \in i .. j : input[k].type \in {"function_call", "function_call_output"}
            /\ \A i \in At("function_call") :
                  Cardinality({j \in At("function_call_output") : input[j].call_id = input[i].call_id}) = 1

\* README.md:53-57: "reasoning ciphertext, tool-call pairing, normalized tools, and
\* valid instructions are retained."  What the upstream has said in earlier turns
\* comes back to it: its ciphertexts, its texts and its calls, each in their order.
ToldThoughts == LET Signed(item) == item.type = "reasoning" /\ item.signature # NoSignature
                    Signature(item) == item.signature
                IN  Each(Signature, Which(told, Signed))
ToldTexts == LET Texts(item) == FlattenSeq(item.texts) IN FlattenSeq(Each(Texts, OfType(told, "message")))
ToldCalls == LET Call(item) == <<CompactCallID(item.call_id), item.name,
                                 IF item.type = "function_call" THEN FunctionToolInput(item.arguments)
                                 ELSE CustomToolInput(item.input)>>
             IN  Each(Call, CallsOf(told))

SentThoughts == LET Body(item) == item.body IN Each(Body, OfType(sent.input, "reasoning"))
SentTexts == LET IsText(fragment) == fragment \in TextFragments
                 Assistant(item) == item.type = "message" /\ item.body.role = "assistant"
                 SaidText(item) == Which(item.body.content[1].data, IsText)
             IN  FlattenSeq(Each(SaidText, Which(sent.input, Assistant)))
SentCalls == LET Call(item) == <<item.call_id, item.name, item.body>>
             IN  Each(Call, OfType(sent.input, "function_call"))

HistoryIsReplayed ==
    turn = "upstream" =>
        /\ SentThoughts = ToldThoughts
        /\ SentTexts = ToldTexts
        /\ SentCalls = ToldCalls

\* Nothing a user says or a tool shows is lost or sent twice: the images of tool
\* results, which an output item cannot hold, are in the message that follows.
ImagesIn(content) == LET Image(b) == b.data IN Each(Image, Kind(content, "image"))
ShownImages ==
    LET OfBlock(b) == CASE b.kind = "image"       -> <<b.data>>
                        [] b.kind = "tool_result" -> ImagesIn(b.content)
                        [] OTHER                  -> <<>>
        OfMessage(m) == IF m.plain THEN <<>> ELSE FlattenSeq(Each(OfBlock, m.blocks))
    IN  FlattenSeq(Each(OfMessage, messages))
SentImages ==
    LET Is(part) == part.type = "input_image"
        OfPart(part) == part.data
        OfItem(item) == Each(OfPart, Which(item.body.content, Is))
    IN  FlattenSeq(Each(OfItem, OfType(sent.input, "message")))

ImagesAreSent ==
    turn = "upstream" =>
        \A image \in Range(ShownImages) \cup Range(SentImages) :
            LET Is(i) == i = image
            IN  Len(Which(ShownImages, Is)) = Len(Which(SentImages, Is))

\* The upstream can reuse what it has kept of a conversation: each request begins
\* with all of the Input of the one that was answered before it.
ExtendsAnswered == turn = "upstream" => IsPrefix(answered, sent.input)

\* The upstream is told to call a function only if that is among its tools, and
\* whenever a caller of Transform has chosen one that is, in the older fields or in
\* the newer ones.
Chosen(body) ==
    IF body.function_call.kind = "word" THEN {}
    ELSE LET choice == IF body.function_call.kind = "object" /\ body.function_call.name # NoName
                       THEN body.function_call ELSE body.tool_choice
         IN  IF choice.kind = "object" /\ (choice = body.function_call \/ choice.type = "function")
             THEN {choice.name, choice.nested} \ {NoName}
             ELSE {}
Functions(body) ==
    IF body.functions # Absent THEN Range(body.functions.names)
    ELSE {body.tools[i].name : i \in {k \in DOMAIN body.tools : body.tools[k].type = "function"}}
         \cup {body.tools[i].nested : i \in {k \in DOMAIN body.tools : body.tools[k].type = "function"}}

ChosenToolIsOffered ==
    /\ Chosen(sent) \subseteq Functions(sent)
    /\ Chosen(transformed.newer) = Chosen(transformed.older) \cap Functions(transformed.older)

================================================================================
