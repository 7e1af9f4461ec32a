------------------------- MODULE ReconstructedResponse -------------------------
(***************************************************************************)
(* ResponseAccumulator, fed by an upstream that tells the truth.           *)
(*                                                                         *)
(* The upstream produces a response and streams it in events, of which the *)
(* code asks little (accumulator.go, accumulator_test.go:13-38): an item   *)
(* may be announced or not, its strings may come in deltas, in the done    *)
(* event or both, done events and finished items may leave out whatever    *)
(* has been said, items may be streamed side by side and in any order, and *)
(* the terminal event may carry the whole Output list or none, or no       *)
(* response object.  Whatever is said is true, and everything has been     *)
(* said by the time the upstream completes the response.                   *)
(***************************************************************************)
EXTENDS ResponseAccumulator

CONSTANT TrueResponses   \* the responses the upstream may produce

\* A response that was produced did not fail.  An item has the strings of its type
\* and no others; a call has one string, be it blank.
ASSUME TrueResponsesAssumption ==
    \A r \in TrueResponses :
        /\ r \in [status : {"completed", "incomplete"}, details : Details, error : {FALSE},
                  output : Seq(ResponseItems)]
        /\ 0 .. Len(r.output) - 1 \subseteq OutputIndexes
        /\ \A k \in 1 .. Len(r.output) :
              LET item == r.output[k]
              IN  /\ item.type \in {"function_call", "custom_tool_call"} =>
                         Len(item.data[FieldOf[item.type]]) = 1
                  /\ \A field \in Fields \ {FieldOf[item.type]} :
                         item.data[field] = BlankData[field]

VARIABLES
    truth,      \* the response the upstream produces
    begun,      \* it has begun to tell of it
    told        \* what it has told of each item

vars == <<accumulatorVars, truth, begun, told>>

-----------------------------------------------------------------------------
(* The upstream *)

\* Items are numbered from 0.
TrueItems == 0 .. Len(truth.output) - 1
TrueItem(index) == truth.output[index + 1]
TrueParts(index) == TrueItem(index).data[FieldOf[TrueItem(index).type]]

\* Of an item nothing has been told.
Untold == [seen |-> FALSE, closed |-> FALSE, sent |-> <<>>, done |-> {}, whole |-> {},
           call |-> FALSE, signature |-> FALSE]

\* How many fragments of a part were sent as deltas.
Sent(index, part) == IF part \in DOMAIN told[index].sent THEN told[index].sent[part] ELSE 0

\* An item has a part, be it blank, as soon as something was told of the part; a call
\* has its string from the start.
HasPart(index, part) ==
    \/ Sent(index, part) > 0
    \/ part \in told[index].done
    \/ part \in DOMAIN BlankData[FieldOf[TrueItem(index).type]]

\* Everything has been said of an item.
WholeItem(index) ==
    LET item == TrueItem(index)
    IN  /\ told[index].seen
        /\ item.call # NoCall => told[index].call
        /\ item.signature # NoSignature => told[index].signature
        /\ \A part \in DOMAIN TrueParts(index) :
              \/ part \in told[index].whole
              \/ HasPart(index, part) /\ Sent(index, part) = Len(TrueParts(index)[part])

\* The parts whose end has not been told.
OpenParts(index) == DOMAIN TrueParts(index) \ told[index].done

\* The upstream may leave the call out of an event.
SomeCall(index) == {NoCall, TrueItem(index).call}

Init ==
    /\ AccumulatorInit
    /\ truth \in TrueResponses
    /\ begun = FALSE
    /\ told = [index \in OutputIndexes |-> Untold]

\* The events it may send.  The response is under way, as the first one may say.
Beginnings ==
    {[type |-> "response.created", response |-> Response(status, NoDetails, FALSE, <<>>)] :
        status \in {"", "in_progress"}}

\* An item is announced, without its strings, before anything else is told of it.
Announced(index, call, signature) ==
    [BlankItem EXCEPT !.type = TrueItem(index).type, !.call = call, !.signature = signature]

Announcements(index) ==
    {[type |-> "response.output_item.added", index |-> index, item |-> Announced(index, call, signature)] :
        call \in SomeCall(index), signature \in {NoSignature, TrueItem(index).signature}}

\* The next fragment of a part.
Deltas(index) ==
    {[type |-> "delta", index |-> index, kind |-> TrueItem(index).type, part |-> part,
      fragment |-> TrueParts(index)[part][Sent(index, part) + 1], call |-> call] :
        part \in {p \in OpenParts(index) : Sent(index, p) < Len(TrueParts(index)[p])},
        call \in SomeCall(index)}

\* The end of a part, which may repeat it.
Dones(index) ==
    {[type |-> "done", index |-> index, kind |-> TrueItem(index).type, part |-> part,
      text |-> IF repeated THEN TrueParts(index)[part] ELSE <<>>, call |-> call] :
        part \in OpenParts(index), repeated \in BOOLEAN, call \in SomeCall(index)}

\* The end of an item, which may repeat its strings and names.
ItemDones(index) ==
    {[type |-> "response.output_item.done", index |-> index,
      item |-> [type |-> TrueItem(index).type, call |-> call, signature |-> signature, data |-> data]] :
        call \in SomeCall(index), signature \in {NoSignature, TrueItem(index).signature},
        data \in {BlankData, TrueItem(index).data}}

ItemEvents(index) ==
    (IF told[index].seen THEN {} ELSE Announcements(index))
    \cup (IF told[index].closed THEN {} ELSE Deltas(index) \cup Dones(index) \cup ItemDones(index))

\* The response is complete.
TrueType == IF truth.status = "incomplete" THEN "response.incomplete" ELSE "response.completed"

Told == \A index \in TrueItems : WholeItem(index)

\* A status is told unless the type of the event tells it, which it does not once the
\* response was said to be in progress; the Output list is told unless its items were.
ToldStatuses == {status \in {"", truth.status} : status = "" => response.status = ""}
ToldOutputs == {output \in {<<>>, truth.output} : output = <<>> => Told}

Answer(status, output) == Response(status, truth.details, FALSE, output)

\* An event with a response object, and one without.
TellingAnswers == {Answer(status, output) : status \in ToldStatuses, output \in ToldOutputs}
SilentAnswers == IF Told /\ response.status = "" /\ truth.details = NoDetails THEN {NoResponse} ELSE {}

Answers == TellingAnswers \cup SilentAnswers

Conclusions == {[type |-> TrueType, response |-> r] : r \in Answers}

\* The response fails, which a terminal event may tell as well.
Failures ==
    {[type |-> "response.failed"]}
    \cup {[type |-> TrueType, response |-> r] :
             r \in {Response("failed", NoDetails, FALSE, <<>>), Response("", NoDetails, TRUE, <<>>)}}

Offers ==
    Failures
    \cup IF begun THEN Conclusions \cup UNION {ItemEvents(index) : index \in TrueItems}
         ELSE Beginnings

\* What has been told of an item after an event.
ToldBy(before, event) ==
    LET call(c) == before.call \/ c # NoCall
        signature(s) == before.signature \/ s # NoSignature
        entire(item) == item.data = TrueItem(event.index).data
    IN  CASE event.type = "response.output_item.added" ->
                [before EXCEPT !.seen = TRUE, !.call = call(event.item.call),
                               !.signature = signature(event.item.signature)]
          [] event.type = "delta" ->
                [before EXCEPT !.seen = TRUE, !.call = call(event.call),
                               !.sent = [p \in DOMAIN @ \cup {event.part} |->
                                            IF p = event.part THEN Sent(event.index, p) + 1 ELSE @[p]]]
          [] event.type = "done" ->
                [before EXCEPT !.seen = TRUE, !.call = call(event.call),
                               !.done = @ \cup {event.part},
                               !.whole = IF event.text = <<>> THEN @ ELSE @ \cup {event.part}]
          [] event.type = "response.output_item.done" ->
                [before EXCEPT !.seen = TRUE, !.closed = TRUE, !.call = call(event.item.call),
                               !.signature = signature(event.item.signature),
                               !.whole = IF entire(event.item) THEN DOMAIN TrueParts(event.index)
                                         ELSE @]

Tell(event) ==
    /\ begun' = (begun \/ event.type = "response.created")
    /\ told' = IF "index" \in DOMAIN event
               THEN [told EXCEPT ![event.index] = ToldBy(@, event)]
               ELSE told
    /\ UNCHANGED truth

Next == \E event \in Offers : Tell(event) /\ Process(event)

Spec == Init /\ [][Next]_vars

-----------------------------------------------------------------------------
(* Properties *)

\* What the accumulator's fields can hold.  An error ends it.
TypeOK ==
    /\ items \in [OutputIndexes -> ResponseItems \cup {NoItem}]
    /\ response.status \in {"", "in_progress", "completed", "incomplete"}
    /\ response.details \in Details
    /\ response.error = FALSE
    /\ response.output \in Seq(ResponseItems)
    /\ terminal \in BOOLEAN
    /\ err \in {"none", "upstream"}
    /\ err # "none" => terminal

\* "ResponseAccumulator reconstructs a terminal ResponsesResponse from its SSE
\* lifecycle" (accumulator.go:10-11): whatever is left out, repeated or streamed
\* side by side, the Output list is the one the upstream produced.
ReconstructsOutput == Finalize = "none" => response.output = truth.output

\* A client that asked for stream=false gets the answer the upstream's response
\* stands for: its content, and a stop reason that says whether tools are to be
\* run and whether the response was cut off.
AnswersTruthfully ==
    Finalize = "none" => ResponsesToAnthropic(response) = ResponsesToAnthropic(truth)

\* While a response is streamed, what has been put together of a part is what the
\* upstream has sent of it, or all of it.
KeepsUpWithStream ==
    \A index \in TrueItems :
        items[index] # NoItem =>
            LET parts == items[index].data[FieldOf[TrueItem(index).type]]
            IN  /\ items[index].type = TrueItem(index).type
                /\ \A part \in DOMAIN parts :
                      parts[part] = IF part \in told[index].whole THEN TrueParts(index)[part]
                                    ELSE SubSeq(TrueParts(index)[part], 1, Sent(index, part))

================================================================================
