-------------------------- MODULE ResponseAccumulator --------------------------
(***************************************************************************)
(* ResponseAccumulator (internal/protocol/accumulator.go): puts the events *)
(* of one Responses stream together to the Responses object they tell of,  *)
(* for a client that asked for stream=false, and ResponsesToAnthropic,     *)
(* which makes the answer of it.                                           *)
(*                                                                         *)
(* The four fields of a ResponsesOutput that hold strings are one field    *)
(* here, data, so that the eight branches of Process that fill them are    *)
(* two: a delta and a done event.  Content and Summary are lists of parts; *)
(* Arguments and Input are one part.  CallID and Name are one field, call; *)
(* ids, roles, model labels and usage are copied and left out.             *)
(***************************************************************************)
EXTENDS ResponseOutput

CONSTANTS
    OutputIndexes,   \* output_index of the upstream's items
    Calls,           \* call_id and name of a tool call
    NoCall           \* neither

ASSUME IndexesAssumption == OutputIndexes \subseteq Nat

VARIABLES
    items,      \* the items seen, by output_index
    response,   \* the response so far
    terminal, err

accumulatorVars == <<items, response, terminal, err>>

-----------------------------------------------------------------------------
(* Data *)

\* The field each type of item keeps its strings in.
FieldOf ==
    [message          |-> "content",
     reasoning        |-> "summary",
     function_call    |-> "arguments",
     custom_tool_call |-> "input"]

ItemTypes == DOMAIN FieldOf
Fields == {FieldOf[type] : type \in ItemTypes}

\* A ResponsesOutput with nothing in it.
BlankData == [content |-> <<>>, summary |-> <<>>, arguments |-> << <<>> >>, input |-> << <<>> >>]
BlankItem == [type |-> "", call |-> NoCall, signature |-> NoSignature, data |-> BlankData]

NoItem == [type |-> "none"]

Parts == Seq(Seq(TextFragments \cup ArgFragments))
ResponseItems ==
    [type : ItemTypes, call : Calls \cup {NoCall}, signature : Signatures \cup {NoSignature},
     data : [Fields -> Parts]]

\* ResponsesResponse; details is the reason of its incomplete_details.
NoDetails == ""
Details == {NoDetails, "max_output_tokens", "content_filter"}
Response(status, details, error, output) ==
    [status |-> status, details |-> details, error |-> error, output |-> output]

BlankResponse == Response("", NoDetails, FALSE, <<>>)

\* An event without a response object.
NoResponse == [status |-> "none"]

\* A value of an event, unless it is blank.
Latest(new, blank, old) == IF new # blank THEN new ELSE old

-----------------------------------------------------------------------------
(* Parts: ensureContentPart, ensureSummaryPart *)

Padded(parts, part) == parts \o [k \in 1 .. part - Len(parts) |-> <<>>]

Extended(parts, part, fragment) == [Padded(parts, part) EXCEPT ![part] = Append(@, fragment)]

BlankCorrects(parts, part, text) ==   \* mutant: a blank done event erases the deltas
    [Padded(parts, part) EXCEPT ![part] = text]
Corrected(parts, part, text) == [Padded(parts, part) EXCEPT ![part] = Latest(text, <<>>, @)]

-----------------------------------------------------------------------------
(* Items *)

\* item: the item at an index, made and typed if need be.
ItemAt(index, type) ==
    LET item == IF items[index] = NoItem THEN BlankItem ELSE items[index]
    IN  [item EXCEPT !.type = Latest(@, "", type)]

\* captureCallMetadata
Named(item, call) == [item EXCEPT !.call = Latest(call, NoCall, @)]

\* mergeOutput
Overwritten(current, done) == done   \* mutant: what the done item leaves out is lost
Merged(current, done) ==
    [type      |-> Latest(done.type, "", current.type),
     call      |-> Latest(done.call, NoCall, current.call),
     signature |-> Latest(done.signature, NoSignature, current.signature),
     data      |-> [field \in Fields |->
                       Latest(done.data[field], BlankData[field], current.data[field])]]

\* sort.Ints, of a finite set.  SetToSortSeq is not used because no theorem can be
\* proved about the SortSeq it is made of.
Ascending(S) ==
    CHOOSE s \in [1 .. Cardinality(S) -> S] : \A i, j \in DOMAIN s : i < j => s[i] < s[j]

\* sortedOutput
SortedOutput ==
    LET indices == Ascending({index \in OutputIndexes : items[index] # NoItem})
    IN  [k \in DOMAIN indices |-> items[indices[k]]]

-----------------------------------------------------------------------------
(* The response *)

\* captureResponse
StatusOnly(r, final) ==   \* mutant: the reason of an incomplete response is forgotten
    IF r = NoResponse THEN response
    ELSE [response EXCEPT !.status = Latest(r.status, "", @),
                          !.error  = r.error \/ @,
                          !.output = IF final THEN Latest(r.output, <<>>, @) ELSE @]
Captured(r, final) ==
    IF r = NoResponse THEN response
    ELSE [response EXCEPT !.status  = Latest(r.status, "", @),
                          !.details = Latest(r.details, NoDetails, @),
                          !.error   = r.error \/ @,
                          !.output  = IF final THEN Latest(r.output, <<>>, @) ELSE @]

\* What a terminal event leaves out is filled in.
Completed(type, r) ==
    [r EXCEPT !.status = Latest(@, "", IF type = "response.incomplete" THEN "incomplete"
                                       ELSE "completed"),
              !.output = Latest(@, <<>>, SortedOutput)]

-----------------------------------------------------------------------------
(* State *)

AccumulatorInit ==
    /\ items = [index \in OutputIndexes |-> NoItem]
    /\ response = BlankResponse
    /\ terminal = FALSE
    /\ err = "none"

Put(index, item) ==
    /\ items' = [items EXCEPT ![index] = item]
    /\ UNCHANGED <<response, terminal, err>>

\* fail
KeepsRunning ==   \* mutant: the accumulator goes on after an error
    /\ err' = "upstream"
    /\ UNCHANGED <<items, response, terminal>>
Fail ==
    /\ terminal' = TRUE
    /\ err' = "upstream"
    /\ UNCHANGED <<items, response>>

-----------------------------------------------------------------------------
(* The branches of Process *)

\* error, response.failed
UpstreamFailure ==
    /\ ~terminal
    /\ Fail

\* response.created
Created(r) ==
    /\ ~terminal
    /\ response' = Captured(r, FALSE)
    /\ UNCHANGED <<items, terminal, err>>

\* response.output_item.added
ItemAdded(index, item) ==
    /\ ~terminal
    /\ Put(index, item)

\* The deltas of texts, reasoning, arguments and inputs.
Delta(index, type, part, fragment, call) ==
    LET item == ItemAt(index, type)
    IN  /\ ~terminal
        /\ Put(index, Named([item EXCEPT !.data[FieldOf[type]] = Extended(@, part, fragment)], call))

\* Their done events.
Done(index, type, part, text, call) ==
    LET item == ItemAt(index, type)
    IN  /\ ~terminal
        /\ Put(index, Named([item EXCEPT !.data[FieldOf[type]] = Corrected(@, part, text)], call))

\* response.output_item.done
ItemDone(index, item) ==
    /\ ~terminal
    /\ Put(index, Merged(ItemAt(index, item.type), item))

\* response.completed, response.done, response.incomplete: a response that failed
\* after all, and one that did not.
TellsFailure(r) == r # NoResponse /\ (r.status = "failed" \/ r.error)

TerminalFailure(r) ==
    /\ ~terminal
    /\ TellsFailure(r)
    /\ Fail

Terminal(type, r) ==
    /\ ~terminal
    /\ ~TellsFailure(r)
    /\ response' = Completed(type, Captured(r, TRUE))
    /\ terminal' = TRUE
    /\ UNCHANGED <<items, err>>

\* Process.  The events whose branches fill a string are named by what they do.
Process(event) ==
    \/ event.type \in {"error", "response.failed"} /\ UpstreamFailure
    \/ event.type = "response.created" /\ Created(event.response)
    \/ event.type = "response.output_item.added" /\ ItemAdded(event.index, event.item)
    \/ event.type = "delta" /\ Delta(event.index, event.kind, event.part, event.fragment, event.call)
    \/ event.type = "done" /\ Done(event.index, event.kind, event.part, event.text, event.call)
    \/ event.type = "response.output_item.done" /\ ItemDone(event.index, event.item)
    \/ /\ event.type \in {"response.completed", "response.done", "response.incomplete"}
       /\ TerminalFailure(event.response) \/ Terminal(event.type, event.response)

\* Finalize
Finalize == IF err # "none" THEN err ELSE IF ~terminal THEN "missing_terminal" ELSE "none"

-----------------------------------------------------------------------------
(* ResponsesToAnthropic *)

\* The texts that are not blank, as what each contributes.
NotBlank(texts) == FlattenSeq([i \in 1 .. Len(texts) |-> IF texts[i] = <<>> THEN <<>> ELSE <<texts[i]>>])

\* What responseOutputToBlocks looks at in an item.
Shown(item) ==
    LET data == item.data[FieldOf[item.type]]
    IN  CASE item.type = "reasoning" ->
                [type |-> item.type, summary |-> FlattenSeq(data), signature |-> item.signature]
          [] item.type = "message"          -> [type |-> item.type, texts |-> NotBlank(data)]
          [] item.type = "function_call"    -> [type |-> item.type, arguments |-> data[1]]
          [] item.type = "custom_tool_call" -> [type |-> item.type, input |-> data[1]]

EmptyText == <<ContentBlock("text", <<>>, NoSignature)>>

FailedAnswer == [failed |-> TRUE]

ResponsesToAnthropic(r) ==
    LET output == [i \in 1 .. Len(r.output) |-> Shown(r.output[i])]
    IN  IF r.status = "failed" \/ r.error \/ ~ValidOutput(output) THEN FailedAnswer
        ELSE [failed      |-> FALSE,
              content     |-> Latest(OutputBlocks(output), <<>>, EmptyText),
              stop_reason |-> StopReasonFor(r.status, r.details = "max_output_tokens",
                                            OutputHasTool(output))]

================================================================================
