---------------------------- MODULE ComparedAnswers ----------------------------
(***************************************************************************)
(* The two answers the adapter can make of one stream of events: the one   *)
(* ResponsesStreamConverter streams, for "stream": true, and the one       *)
(* ResponsesToAnthropic makes of the Response a ResponseAccumulator puts   *)
(* together, for "stream": false.  Both are fed the same events of the     *)
(* upstream of ReconstructedResponse, which tells the truth in any order.  *)
(***************************************************************************)
EXTENDS ReconstructedResponse

VARIABLES
    messageStarted, hasTool, sawContent, nextBlockIndex, active, emitted,
    streamTerminal, streamErr,   \* the terminal and terminalErr of the converter
    orderly                      \* history: the events came in the usual order

streamVars ==
    <<messageStarted, hasTool, sawContent, nextBlockIndex, active, emitted, streamTerminal, streamErr>>
comparedVars == <<vars, streamVars, orderly>>

\* The strings and bounds of the converter's own upstream are not used.
Stream == INSTANCE StreamConverter WITH
    terminal <- streamTerminal, terminalErr <- streamErr,
    TextStrings <- {}, ArgStrings <- {}, TerminalOutputs <- {}, MaxEmitted <- 0, MaxBuffer <- 0

-----------------------------------------------------------------------------
(* The converter *)

\* The Response object of a terminal event, as HandleTerminal looks at it.
ShownResponse(r) ==
    IF r = NoResponse THEN [status |-> "", maxTokens |-> FALSE, output |-> <<>>]
    ELSE [status    |-> IF r.error THEN "failed" ELSE r.status,
          maxTokens |-> r.details = "max_output_tokens",
          output    |-> [i \in DOMAIN r.output |-> Shown(r.output[i])]]

\* ResponsesStreamConverter.Process
Added(index, item) ==
    \/ item.type = "message" /\ Stream!Created
    \/ item.type = "reasoning" /\ Stream!ReasoningAdded(index, item.signature)
    \/ item.type = "function_call" /\ Stream!ToolAdded(index, FALSE)
    \/ item.type = "custom_tool_call" /\ Stream!ToolAdded(index, TRUE)

DeltaOf(kind, index, fragment) ==
    \/ kind = "message" /\ Stream!TextDelta(index, fragment)
    \/ kind = "reasoning" /\ Stream!ReasoningDelta(index, fragment)
    \/ kind = "function_call" /\ Stream!ToolDelta(index, FALSE, fragment)
    \/ kind = "custom_tool_call" /\ Stream!ToolDelta(index, TRUE, fragment)

DoneOf(kind, index, text) ==
    \/ kind = "message" /\ Stream!TextDone(text)
    \/ kind = "reasoning" /\ Stream!ReasoningDone(text)
    \/ kind = "function_call" /\ Stream!ToolDone(index, FALSE, text)
    \/ kind = "custom_tool_call" /\ Stream!ToolDone(index, TRUE, text)

Handle(event) ==
    \/ event.type = "response.failed" /\ Stream!UpstreamFailure
    \/ event.type = "response.created" /\ Stream!Created
    \/ event.type = "response.output_item.added" /\ Added(event.index, event.item)
    \/ event.type = "delta" /\ DeltaOf(event.kind, event.index, event.fragment)
    \/ event.type = "done" /\ DoneOf(event.kind, event.index, event.text)
    \/ event.type = "response.output_item.done" /\ Stream!ItemDone(event.index, Shown(event.item))
    \/ /\ event.type \in Stream!TerminalTypes
       /\ Stream!HandleTerminal(event.type, ShownResponse(event.response))

\* What it has no use for, it ignores: anything after the end, the text of a part
\* that its deltas told, the end of an item of which no block is open.
NoUseFor(event) ==
    \/ streamTerminal
    \/ /\ event.type = "done"
       /\ event.kind = "message"
       /\ active.kind # "text"
       /\ ~(active = Stream!NoBlock /\ event.text # <<>>)
    \/ /\ event.type = "done"
       /\ event.kind = "reasoning"
       /\ ~(active.kind = "thinking" /\ ~active.hadDelta /\ event.text # <<>>)
    \/ /\ event.type = "response.output_item.done"
       /\ active = Stream!NoBlock
    \/ /\ event.type = "response.output_item.done"
       /\ event.item.type = "message"
       /\ active.kind \in {"thinking", "tool_use"}
       /\ active.outputIndex = event.index

Convert(event) ==
    \/ Handle(event)
    \/ NoUseFor(event) /\ UNCHANGED streamVars

-----------------------------------------------------------------------------
(* The usual order of a stream *)

SentWhole(index, part) == Sent(index, part) = Len(TrueParts(index)[part])

\* All that is said of a part was said by its deltas, or all by the event that
\* ends it.
TellsPart(index, part, text) ==
    \/ SentWhole(index, part)
    \/ Sent(index, part) = 0 /\ text = TrueParts(index)[part]

IsTool(index) == TrueItem(index).type \in {"function_call", "custom_tool_call"}

\* One item after the other, each one announced first and finished last; one part
\* after the other, told by its deltas or, if it is the first, by its done event.
InOrder(event) ==
    CASE event.type \in {"response.created", "response.failed"} -> TRUE
      [] event.type = "response.output_item.added" ->
            /\ \A lower \in TrueItems : lower < event.index => told[lower].closed
            /\ \A higher \in TrueItems : higher > event.index => ~told[higher].seen
      [] event.type \in {"delta", "done"} ->
            /\ told[event.index].seen
            /\ 1 .. event.part - 1 \subseteq told[event.index].done
            /\ event.type = "done" =>
                  \/ SentWhole(event.index, event.part)
                  \/ event.part = 1 /\ TellsPart(event.index, 1, event.text)
      [] event.type = "response.output_item.done" ->
            /\ told[event.index].seen
            /\ \/ DOMAIN TrueParts(event.index) \subseteq told[event.index].done
               \/ \A part \in DOMAIN TrueParts(event.index) : SentWhole(event.index, part)
               \/ IsTool(event.index) /\ TellsPart(event.index, 1, event.item.data[FieldOf[event.item.type]][1])
            /\ \/ told[event.index].signature
               \/ event.item.signature = TrueItem(event.index).signature
      [] OTHER ->
            \/ \A index \in TrueItems : told[index].closed
            \/ \A index \in TrueItems : ~told[index].seen

-----------------------------------------------------------------------------
(* Specification *)

ComparedInit ==
    /\ Init
    /\ Stream!Init
    /\ orderly = TRUE

ComparedNext ==
    \E event \in Offers :
        /\ Tell(event)
        /\ Process(event)
        /\ Convert(event)
        /\ orderly' = (orderly /\ InOrder(event))

ComparedSpec == ComparedInit /\ [][ComparedNext]_comparedVars

-----------------------------------------------------------------------------
(* What the client has been told *)

\* What the deltas of one sort have told of a block.
BlockData(s, index, delta) ==
    LET Part(e) == IF e.type = "content_block_delta" /\ e.index = index /\ e.delta = delta
                   THEN e.data
                   ELSE <<>>
    IN  FlattenSeq([i \in 1 .. Len(s) |-> Part(s[i])])

\* The block of a number, as far as it got: what FullBlockEvents is made of.
StreamedBlock(s, index) ==
    LET start == CHOOSE i \in 1 .. Len(s) : s[i].type = "content_block_start" /\ s[i].index = index
        signed == BlockData(s, index, "signature_delta")
    IN  ContentBlock(s[start].kind,
                     BlockData(s, index, Stream!DataDelta(s[start].kind)),
                     IF signed = <<>> THEN NoSignature ELSE signed[1])

\* The blocks of a stream, which are numbered from 0.
StreamedBlocks(s) ==
    LET starts == {i \in 1 .. Len(s) : s[i].type = "content_block_start"}
    IN  [k \in {s[i].index + 1 : i \in starts} |-> StreamedBlock(s, k - 1)]

\* What a reader makes of the blocks: the texts piece by piece, wherever one block of
\* text ends and the next one begins, and the other blocks, but for a thought that says
\* nothing.  An input that is nothing but whitespace counts as the empty object: that is
\* what the buffered answer makes of such arguments, where they are streamed as they came.
Reading(b) ==
    CASE b.kind = "text" -> [i \in 1 .. Len(b.data) |-> ContentBlock("text", <<b.data[i]>>, NoSignature)]
      [] b.kind = "thinking" -> IF b.data = <<>> /\ b.signature = NoSignature THEN <<>> ELSE <<b>>
      [] b.kind = "tool_use" -> IF Whitespace(b.data) THEN <<[b EXCEPT !.data = EmptyObject]>> ELSE <<b>>

Gist(blocks) == FlattenSeq([i \in 1 .. Len(blocks) |-> Reading(blocks[i])])

StopReason == emitted[Len(emitted) - 1].stop_reason

-----------------------------------------------------------------------------
(* Properties *)

\* Whichever way a client asks, it gets the same content and the same stop reason,
\* or an error both ways, as long as the events come in the usual order; of a call whose
\* arguments are nothing but whitespace, an input that says as little.
SameAnswer ==
    orderly /\ terminal =>
        /\ streamTerminal
        /\ streamErr = "none" <=>
              Finalize = "none" /\ ~ResponsesToAnthropic(response).failed
        /\ streamErr = "none" =>
              /\ Gist(StreamedBlocks(emitted)) = Gist(ResponsesToAnthropic(response).content)
              /\ StopReason = ResponsesToAnthropic(response).stop_reason

\* The input of a call, or as much of it as was told when the call was cut short:
\* arguments are passed on piece by piece, and none stand for the empty object; a
\* custom input is only sent as a whole object.
GivenInput(index, input) ==
    LET whole == TrueParts(index)[1]
    IN  IF TrueItem(index).type = "function_call"
        THEN IsPrefix(input, whole) \/ input = EmptyObject
        ELSE input = <<>> \/ \E n \in 0 .. Len(whole) : input = CustomToolInput(SubSeq(whole, 1, n))

\* In whatever order the events come, a client that is streamed a tool call is
\* given the input of a call the upstream made, or the beginning of one: the
\* arguments of two calls are never mixed.
ToolsAreNotMixed ==
    \A i \in 1 .. Len(emitted) :
        emitted[i].type = "content_block_start" /\ emitted[i].kind = "tool_use" =>
            \E index \in TrueItems :
                /\ IsTool(index)
                /\ GivenInput(index, Stream!ClientInput(emitted, emitted[i].index))

================================================================================
