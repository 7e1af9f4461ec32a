--------------------------- MODULE StreamConverter ---------------------------
(***************************************************************************)
(* ResponsesStreamConverter (internal/protocol/responses_to_anthropic.go): *)
(* the state machine that turns the events of one Responses stream into    *)
(* the events of one Anthropic message.                                    *)
(*                                                                         *)
(* Each action is one branch of Process, with everything the handler it    *)
(* calls does.  The upstream is free: any event may arrive in any state,   *)
(* because Process is given whatever the decoder could parse.  Events that *)
(* Process ignores (unknown types, empty deltas, an output_item.done with  *)
(* no block open, anything after the terminal event) change nothing and    *)
(* are the stuttering steps of the specification.                          *)
(***************************************************************************)
EXTENDS AnthropicEvents, ResponseOutput

CONSTANTS
    OutputIndexes,   \* output_index of the upstream's items
    TextStrings,     \* texts a done event may carry, the empty one included
    ArgStrings,      \* arguments and inputs a done event may carry, <<>> included
    TerminalOutputs, \* Output lists a terminal event may carry
    MaxEmitted,      \* bound: no event is processed once this many were emitted
    MaxBuffer        \* bound: nor once this many fragments of a call are buffered

ASSUME StringsAssumption ==
    /\ TextStrings \subseteq Seq(TextFragments)
    /\ ArgStrings \subseteq Seq(ArgFragments)

ASSUME OutputsAssumption == TerminalOutputs \subseteq Seq(OutputItems)

ASSUME BoundsAssumption == MaxEmitted \in Nat /\ MaxBuffer \in Nat

VARIABLES
    messageStarted, terminal, terminalErr, hasTool, sawContent,
    nextBlockIndex, active,
    emitted         \* every event Process has returned, in order

converterVars ==
    <<messageStarted, terminal, terminalErr, hasTool, sawContent, nextBlockIndex, active>>
vars == <<converterVars, emitted>>

-----------------------------------------------------------------------------
(* Data *)

\* The strings the client can be sent.
Fragments == TextFragments \cup ArgFragments \cup Signatures \cup {"{}", "{input:", "}"}
Strings == Seq(Fragments)

\* streamBlock, with the block index it was opened with.
Block(index, outputIndex, kind, custom, signature) ==
    [index |-> index, outputIndex |-> outputIndex, kind |-> kind, custom |-> custom,
     buffer |-> <<>>, hadDelta |-> FALSE, signature |-> signature]

NoBlock == [kind |-> "none"]

Blocks ==
    [index : Nat, outputIndex : OutputIndexes, kind : BlockKinds, custom : BOOLEAN,
     buffer : Seq(ArgFragments), hadDelta : BOOLEAN, signature : Signatures \cup {NoSignature}]

-----------------------------------------------------------------------------
(* The blocks of a terminal Output list *)

\* streamFullOutput: the events of one finished block.
DataDelta(kind) ==
    CASE kind = "text"     -> "text_delta"
      [] kind = "thinking" -> "thinking_delta"
      [] kind = "tool_use" -> "input_json_delta"

SignatureEvents(index, kind, signature) ==
    IF kind = "thinking" /\ signature # NoSignature
    THEN <<BlockDelta(index, "signature_delta", <<signature>>)>>
    ELSE <<>>

FullBlockEvents(index, block) ==
    <<BlockStart(index, block.kind)>>
    \o (IF block.data # <<>> THEN <<BlockDelta(index, DataDelta(block.kind), block.data)>> ELSE <<>>)
    \o SignatureEvents(index, block.kind, block.signature)
    \o <<BlockStop(index)>>

StreamFullOutput(blocks, startIndex) ==
    FlattenSeq([k \in 1 .. Len(blocks) |-> FullBlockEvents(startIndex + k - 1, blocks[k])])

-----------------------------------------------------------------------------
(* State *)

Init ==
    /\ messageStarted = FALSE
    /\ terminal = FALSE
    /\ terminalErr = "none"
    /\ hasTool = FALSE
    /\ sawContent = FALSE
    /\ nextBlockIndex = 0
    /\ active = NoBlock
    /\ emitted = <<>>

\* ensureMessageStart: what it returns; its caller sets messageStarted.
StartMessage == IF messageStarted THEN <<>> ELSE <<MessageStart>>

\* closeActive: what it returns, and the index of the next block afterwards.
Closing(block) ==
    SignatureEvents(block.index, block.kind, block.signature) \o <<BlockStop(block.index)>>

CloseActive == IF active = NoBlock THEN <<>> ELSE Closing(active)

IndexAfterClose == IF active = NoBlock THEN nextBlockIndex ELSE nextBlockIndex + 1

\* fail: the events of this call are dropped and the converter is finished.
FailWith(err) ==
    /\ terminal' = TRUE
    /\ terminalErr' = err
    /\ UNCHANGED <<hasTool, sawContent, nextBlockIndex, active, emitted>>

Fail(err) == FailWith(err) /\ UNCHANGED messageStarted

\* Close the active block, start the message if need be, and open the next
\* block with the given deltas in it.
OpenBlock(outputIndex, kind, custom, signature, deltas) ==
    LET block == Block(IndexAfterClose, outputIndex, kind, custom, signature)
    IN  /\ active' = [block EXCEPT !.hadDelta = (deltas # <<>>)]
        /\ emitted' = emitted \o StartMessage \o CloseActive
                              \o <<BlockStart(block.index, kind)>> \o deltas
        /\ messageStarted' = TRUE
        /\ sawContent' = TRUE
        /\ nextBlockIndex' = IndexAfterClose

\* A delta for the active block.
SendDelta(delta, data) ==
    emitted' = Append(emitted, BlockDelta(active.index, delta, data))

\* Send the given events of the active block, then close it.
ClosesUncounted(events) ==   \* mutant: closing does not count
    /\ emitted' = emitted \o events \o CloseActive
    /\ active' = NoBlock
    /\ UNCHANGED <<nextBlockIndex, messageStarted, terminal, terminalErr, hasTool, sawContent>>
SendAndClose(events) ==
    /\ emitted' = emitted \o events \o CloseActive
    /\ active' = NoBlock
    /\ nextBlockIndex' = nextBlockIndex + 1
    /\ UNCHANGED <<messageStarted, terminal, terminalErr, hasTool, sawContent>>

-----------------------------------------------------------------------------
(* The branches of Process *)

\* response.created, and the output_item.added of a message or of an unknown type
Created ==
    /\ ~terminal
    /\ emitted' = emitted \o StartMessage
    /\ messageStarted' = TRUE
    /\ UNCHANGED <<terminal, terminalErr, hasTool, sawContent, nextBlockIndex, active>>

\* response.failed and the top-level error event
UpstreamFailure ==
    /\ ~terminal
    /\ Fail("upstream")

\* response.output_item.added of a tool call and of reasoning
ToolAdded(outputIndex, custom) ==
    /\ ~terminal
    /\ OpenBlock(outputIndex, "tool_use", custom, NoSignature, <<>>)
    /\ hasTool' = TRUE
    /\ UNCHANGED <<terminal, terminalErr>>

ReasoningAdded(outputIndex, signature) ==
    /\ ~terminal
    /\ OpenBlock(outputIndex, "thinking", FALSE, signature, <<>>)
    /\ UNCHANGED <<terminal, terminalErr, hasTool>>

\* response.output_text.delta and the reasoning deltas: continue the active
\* block, or close it and open one for this output item.
SameItem(kind, outputIndex) ==   \* mutant: the kind of the block is not compared
    active # NoBlock /\ active.outputIndex = outputIndex
Continues(kind, outputIndex) == active.kind = kind /\ active.outputIndex = outputIndex

ContentDelta(kind, outputIndex, data) ==
    \/ /\ Continues(kind, outputIndex)
       /\ SendDelta(DataDelta(kind), data)
       /\ active' = [active EXCEPT !.hadDelta = TRUE]
       /\ sawContent' = TRUE
       /\ UNCHANGED <<messageStarted, terminal, terminalErr, hasTool, nextBlockIndex>>
    \/ /\ ~Continues(kind, outputIndex)
       /\ OpenBlock(outputIndex, kind, FALSE, NoSignature,
                    <<BlockDelta(IndexAfterClose, DataDelta(kind), data)>>)
       /\ UNCHANGED <<terminal, terminalErr, hasTool>>

TextDelta(outputIndex, fragment) ==
    /\ ~terminal
    /\ ContentDelta("text", outputIndex, <<fragment>>)

ReasoningDelta(outputIndex, fragment) ==
    /\ ~terminal
    /\ ContentDelta("thinking", outputIndex, <<fragment>>)

\* response.output_text.done.  With no block open, a text is sent as a block of
\* its own; an open text block is closed, whichever item it belongs to.  (The
\* branch for an open text block without a delta cannot be reached: a text block
\* is only opened by a delta.)
TextDone(text) ==
    /\ ~terminal
    /\ \/ /\ active = NoBlock
          /\ text # <<>>
          /\ emitted' = emitted \o StartMessage \o FullBlockEvents(nextBlockIndex,
                                       ContentBlock("text", text, NoSignature))
          /\ messageStarted' = TRUE
          /\ sawContent' = TRUE
          /\ nextBlockIndex' = nextBlockIndex + 1
          /\ UNCHANGED <<terminal, terminalErr, hasTool, active>>
       \/ /\ active.kind = "text"
          /\ SendAndClose(<<>>)

\* The reasoning done events send the text of a block that had no delta; the
\* block stays open for the ciphertext of its output_item.done.
RepeatsReasoning(text) ==   \* mutant: what the deltas said is sent again
    /\ ~terminal
    /\ active.kind = "thinking"
    /\ text # <<>>
    /\ SendDelta("thinking_delta", text)
    /\ active' = [active EXCEPT !.hadDelta = TRUE]
    /\ UNCHANGED <<messageStarted, terminal, terminalErr, hasTool, sawContent, nextBlockIndex>>
ReasoningDone(text) ==
    /\ ~terminal
    /\ active.kind = "thinking"
    /\ ~active.hadDelta
    /\ text # <<>>
    /\ SendDelta("thinking_delta", text)
    /\ active' = [active EXCEPT !.hadDelta = TRUE]
    /\ UNCHANGED <<messageStarted, terminal, terminalErr, hasTool, sawContent, nextBlockIndex>>

\* handleToolDelta: function arguments are passed on, custom input is held back.
AnyToolMatches(outputIndex, custom) ==   \* mutant: custom is not compared
    active.kind = "tool_use" /\ active.outputIndex = outputIndex
AnyCallMatches(outputIndex, custom) ==   \* mutant: the item is not compared
    active.kind = "tool_use" /\ active.custom = custom
ToolMatches(outputIndex, custom) ==
    /\ active.kind = "tool_use"
    /\ active.outputIndex = outputIndex
    /\ active.custom = custom

ToolDelta(outputIndex, custom, fragment) ==
    /\ ~terminal
    /\ \/ /\ ToolMatches(outputIndex, custom)
          /\ active' = [active EXCEPT !.buffer = Append(@, fragment),
                                      !.hadDelta = @ \/ ~custom]
          /\ IF custom THEN UNCHANGED emitted ELSE SendDelta("input_json_delta", <<fragment>>)
          /\ UNCHANGED <<messageStarted, terminal, terminalErr, hasTool, sawContent, nextBlockIndex>>
       \/ /\ ~ToolMatches(outputIndex, custom)
          /\ Fail("conversion")

\* handleToolDone: the string of the done event, or the deltas when it is empty.
Complete(value) == IF value = <<>> THEN active.buffer ELSE value

CustomDone(outputIndex, input) ==
    /\ ToolMatches(outputIndex, TRUE)
    /\ SendAndClose(<<BlockDelta(active.index, "input_json_delta", CustomToolInput(Complete(input)))>>)

\* Arguments without a delta are sent as they are, whitespace too, and as the
\* empty object only if there are none.
SentArguments(arguments) == IF arguments = <<>> THEN EmptyObject ELSE arguments

FunctionDone(outputIndex, arguments) ==
    /\ ToolMatches(outputIndex, FALSE)
    /\ IF ValidArguments(Complete(arguments))
       THEN SendAndClose(IF active.hadDelta THEN <<>>
                         ELSE <<BlockDelta(active.index, "input_json_delta",
                                           SentArguments(Complete(arguments)))>>)
       ELSE Fail("conversion")

HandleToolDone(outputIndex, custom, value) ==
    \/ custom /\ CustomDone(outputIndex, value)
    \/ ~custom /\ FunctionDone(outputIndex, value)
    \/ ~ToolMatches(outputIndex, custom) /\ Fail("conversion")

ToolDone(outputIndex, custom, value) ==
    /\ ~terminal
    /\ HandleToolDone(outputIndex, custom, value)

\* The active block with the ciphertext of its finished reasoning item.
Signed(signature) ==
    IF signature # NoSignature THEN [active EXCEPT !.signature = signature] ELSE active

\* response.output_item.done.  It is ignored unless a block is open, and has to
\* be for that block's item.
ItemDone(outputIndex, item) ==
    /\ ~terminal
    /\ active # NoBlock
    /\ IF active.outputIndex # outputIndex THEN Fail("conversion")
       ELSE \/ /\ item.type = "reasoning"
               /\ emitted' = emitted \o Closing(Signed(item.signature))
               /\ active' = NoBlock
               /\ nextBlockIndex' = nextBlockIndex + 1
               /\ UNCHANGED <<messageStarted, terminal, terminalErr, hasTool, sawContent>>
            \/ /\ item.type = "function_call"
               /\ HandleToolDone(outputIndex, FALSE, item.arguments)
            \/ /\ item.type = "custom_tool_call"
               /\ HandleToolDone(outputIndex, TRUE, item.input)
            \/ /\ item.type = "message"
               /\ active.kind = "text"
               /\ SendAndClose(<<>>)

\* response.completed, response.done and response.incomplete.  The Output list
\* is used only when no content was streamed; otherwise the active block is
\* closed as it stands.  When the list does not convert, the message_start made
\* for it is dropped with the other events, but the flag stays set.
TerminalStatus(type, response) ==
    IF response.status # "" THEN response.status
    ELSE IF type = "response.incomplete" THEN "incomplete"
    ELSE "completed"

UsesOutput(response) == ~sawContent /\ response.output # <<>>

HandleTerminal(type, response) ==
    LET blocks == IF UsesOutput(response) THEN OutputBlocks(response.output) ELSE <<>>
        tool == hasTool \/ (UsesOutput(response) /\ OutputHasTool(response.output))
        reason == StopReasonFor(TerminalStatus(type, response), response.maxTokens, tool)
    IN  /\ ~terminal
        /\ \/ /\ response.status = "failed"
              /\ Fail("upstream")
           \/ /\ response.status # "failed"
              /\ UsesOutput(response)
              /\ ~ValidOutput(response.output)
              /\ messageStarted' = TRUE
              /\ FailWith("conversion")
           \/ /\ response.status # "failed"
              /\ UsesOutput(response) => ValidOutput(response.output)
              /\ emitted' = emitted \o StartMessage \o CloseActive
                                    \o StreamFullOutput(blocks, nextBlockIndex)
                                    \o <<MessageDelta(reason), MessageStop>>
              /\ active' = NoBlock
              /\ nextBlockIndex' = IndexAfterClose + Len(blocks)
              /\ hasTool' = tool
              /\ messageStarted' = TRUE
              /\ terminal' = TRUE
              /\ UNCHANGED <<terminalErr, sawContent>>

\* Finalize: what the end of the upstream body is reported as.
Finalize == IF terminal THEN terminalErr ELSE "missing_terminal"

-----------------------------------------------------------------------------
(* Specification *)

Items ==
    [type : {"reasoning"}, signature : Signatures \cup {NoSignature}]
    \cup [type : {"function_call"}, arguments : ArgStrings]
    \cup [type : {"custom_tool_call"}, input : ArgStrings]
    \cup [type : {"message"}]

TerminalTypes == {"response.completed", "response.incomplete"}

\* A missing response object behaves like one with nothing in it, and one with
\* an error like one whose status is "failed".
Responses ==
    [status : {"", "completed", "incomplete", "failed"}, maxTokens : BOOLEAN,
     output : TerminalOutputs]

\* The events that may come for one output item.
ItemEvent(outputIndex) ==
    \/ \E custom \in BOOLEAN : ToolAdded(outputIndex, custom)
    \/ \E signature \in Signatures \cup {NoSignature} : ReasoningAdded(outputIndex, signature)
    \/ \E fragment \in TextFragments : TextDelta(outputIndex, fragment)
    \/ \E fragment \in TextFragments : ReasoningDelta(outputIndex, fragment)
    \/ \E custom \in BOOLEAN, fragment \in ArgFragments : ToolDelta(outputIndex, custom, fragment)
    \/ \E custom \in BOOLEAN, value \in ArgStrings : ToolDone(outputIndex, custom, value)
    \/ \E item \in Items : ItemDone(outputIndex, item)

\* The events that may come before the terminal one.
StreamEvent ==
    \/ Created
    \/ \E outputIndex \in OutputIndexes : ItemEvent(outputIndex)
    \/ \E text \in TextStrings : TextDone(text)
    \/ \E text \in TextStrings : ReasoningDone(text)

TerminalEvent ==
    \/ UpstreamFailure
    \/ \E type \in TerminalTypes, response \in Responses : HandleTerminal(type, response)

\* Bounds the length of a stream: the events sent to the client, and the
\* fragments of a custom input that are held back.
WithinBounds ==
    /\ Len(emitted) < MaxEmitted
    /\ active.kind = "tool_use" => Len(active.buffer) < MaxBuffer

Next ==
    \/ WithinBounds /\ StreamEvent
    \/ TerminalEvent

Spec == Init /\ [][Next]_vars

-----------------------------------------------------------------------------
(* Properties *)

\* What the converter's fields can hold.
TypeOK ==
    /\ messageStarted \in BOOLEAN
    /\ terminal \in BOOLEAN
    /\ terminalErr \in {"none", "upstream", "conversion"}
    /\ hasTool \in BOOLEAN
    /\ sawContent \in BOOLEAN
    /\ nextBlockIndex \in Nat
    /\ active \in Blocks \cup {NoBlock}
    /\ emitted \in Seq(ClientEvents(Strings))

\* The outcome the caller of Process and Finalize sees.
Outcome ==
    IF ~terminal THEN "open" ELSE IF terminalErr = "none" THEN "complete" ELSE "failed"

\* The doc comment of ResponsesStreamConverter promises "a correctly ordered
\* Anthropic Messages event stream", and that of Process that a failure never
\* produces a successful message_stop: whatever events arrive, in whatever order,
\* what the converter has emitted is what AnthropicStream allows.
Client == INSTANCE AnthropicStream WITH stream <- emitted, outcome <- Outcome
ImplementsAnthropicStream == Client!Spec

\* The converter's cursor agrees with what the client has seen: the block it
\* believes open is the one the last event left open, hadDelta says whether the
\* client got anything in it, and the next block will get the next free number.
CursorMatchesStream ==
    /\ active # NoBlock =>
          /\ ~terminal \/ terminalErr # "none"
          /\ emitted # <<>>
          /\ Inside(Last(emitted), active.index, active.kind)
          /\ active.index = nextBlockIndex
          /\ active.hadDelta <=> Last(emitted).type = "content_block_delta"
          /\ active.kind = "text" => active.hadDelta
    /\ active = NoBlock /\ emitted # <<>> /\ Outcome # "complete" =>
          Between(Last(emitted), nextBlockIndex)
    /\ Outcome = "complete" <=> emitted # <<>> /\ Last(emitted) = MessageStop

\* The flags that decide the stop reason, and whether the terminal Output list
\* is used, agree with the blocks the client has seen.
HasBlock(s) == \E i \in 1 .. Len(s) : s[i].type = "content_block_start"

FlagsMatchStream ==
    /\ hasTool <=> HasTool(emitted)
    /\ Outcome # "complete" => (sawContent <=> HasBlock(emitted))
    /\ emitted # <<>> => messageStarted
    /\ messageStarted /\ ~terminal => emitted # <<>>
    /\ active # NoBlock => sawContent

\* The tool input the client has put together for a block.
InputOf(e, index) ==
    IF e.type = "content_block_delta" /\ e.index = index /\ e.delta = "input_json_delta"
    THEN e.data
    ELSE <<>>

ClientInput(s, index) == FlattenSeq([i \in 1 .. Len(s) |-> InputOf(s[i], index)])

\* The arguments handleToolDone validates when the done event repeats none are
\* exactly the ones the client was sent, and none of a custom input was.
BufferMirrorsClient ==
    active.kind = "tool_use" =>
        ClientInput(emitted, active.index) = IF active.custom THEN <<>> ELSE active.buffer

\* A string a client can parse as the input of a tool call.
WholeInput(input) ==
    \/ input \in Objects \cup {EmptyObject}
    \/ \E i \in 1 .. Len(input) : input = CustomToolInput(SubSeq(input, 2, i))

\* A tool call finished by its own done event, empty or repeating what was
\* streamed, reaches the client with an input it can parse; but for arguments that
\* are nothing but whitespace, which functionToolInput accepts, and handleToolDone
\* passes on as they came (responses_to_anthropic.go:112, 450-463).
FinishedToolsAreWhole ==
    [][\A outputIndex \in OutputIndexes, custom \in BOOLEAN, value \in ArgStrings :
          /\ ToolMatches(outputIndex, custom)
          /\ ToolDone(outputIndex, custom, value)
          /\ value = <<>> \/ active.buffer \in {<<>>, value}
          /\ ~terminal'
          => \/ WholeInput(ClientInput(emitted', active.index))
             \/ /\ ~custom
                /\ Whitespace(Complete(value))
                /\ ClientInput(emitted', active.index) = Complete(value)]_vars

\* README.md:49-51: "`response.failed`, top-level `error`, malformed terminal tool
\* arguments, and EOF without a terminal Responses event are errors. They never
\* synthesize a successful Anthropic `message_delta` or `message_stop`."  So a
\* message that ends by asking the client to run its tools has tool inputs that
\* all parse.
MalformedToolsNeverSucceed ==
    (Outcome = "complete" /\ emitted[Len(emitted) - 1] = MessageDelta("tool_use")) =>
        \A i \in 1 .. Len(emitted) :
            (emitted[i].type = "content_block_start" /\ emitted[i].kind = "tool_use") =>
                LET input == ClientInput(emitted, emitted[i].index)
                IN  input = <<>> \/ WholeInput(input)

=============================================================================
