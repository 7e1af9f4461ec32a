--------------------------- MODULE AnthropicEvents ---------------------------
(***************************************************************************)
(* The events of one streamed Anthropic message and the order they must    *)
(* come in.  The grammar is the one assertStrictAnthropicOrder checks in   *)
(* responses_to_anthropic_test.go:396-440,                                 *)
(*       message_start                                                     *)
(*       ( content_block_start content_block_delta* content_block_stop )*  *)
(*       message_delta message_stop                                        *)
(* with blocks numbered 0, 1, 2, ... and every delta of the kind of its    *)
(* block.  It is stated on neighbours: a stream is in strict order when    *)
(* each event may follow the one before it.                                *)
(***************************************************************************)
EXTENDS Integers, Sequences

-----------------------------------------------------------------------------
(***************************************************************************)
(* The events (AnthropicStreamEvent, types.go).  Identifiers, names, model *)
(* labels and usage counters are copied through and are left out.          *)
(***************************************************************************)

BlockKinds == {"text", "thinking", "tool_use"}

MessageStart == [type |-> "message_start"]

BlockStart(index, kind) ==
    [type |-> "content_block_start", index |-> index, kind |-> kind]

BlockDelta(index, delta, data) ==
    [type |-> "content_block_delta", index |-> index, delta |-> delta, data |-> data]

BlockStop(index) == [type |-> "content_block_stop", index |-> index]

MessageDelta(reason) == [type |-> "message_delta", stop_reason |-> reason]

MessageStop == [type |-> "message_stop"]

\* The kind of block each kind of delta belongs to.
DeltaKind ==
    [text_delta       |-> "text",
     thinking_delta   |-> "thinking",
     signature_delta  |-> "thinking",
     input_json_delta |-> "tool_use"]

\* The events whose data are among the given strings.
ClientEvents(strings) ==
    {MessageStart, MessageStop}
    \cup [type : {"content_block_start"}, index : Nat, kind : BlockKinds]
    \cup [type : {"content_block_delta"}, index : Nat, delta : DOMAIN DeltaKind, data : strings]
    \cup [type : {"content_block_stop"}, index : Nat]
    \cup [type : {"message_delta"}, stop_reason : {"end_turn", "max_tokens", "tool_use"}]

-----------------------------------------------------------------------------
(***************************************************************************)
(* Strict order.                                                           *)
(***************************************************************************)

\* After event e the block numbered index of the given kind can take a delta.
Inside(e, index, kind) ==
    \/ e = BlockStart(index, kind)
    \/ /\ e.type = "content_block_delta"
       /\ e.index = index
       /\ DeltaKind[e.delta] = kind
       /\ e.delta # "signature_delta"

\* After event e no block is open and the next one is numbered index.
Between(e, index) ==
    \/ e = MessageStart /\ index = 0
    \/ e = BlockStop(index - 1) /\ index > 0

\* After event e the block numbered index can be stopped.
Stoppable(e, index) ==
    /\ e.type \in {"content_block_start", "content_block_delta"}
    /\ e.index = index

\* Event f may be sent right after event e.
Follows(e, f) ==
    CASE f.type = "content_block_start" -> Between(e, f.index)
      [] f.type = "content_block_delta" -> Inside(e, f.index, DeltaKind[f.delta])
      [] f.type = "content_block_stop"  -> Stoppable(e, f.index)
      [] f.type = "message_delta"       -> e.type \in {"message_start", "content_block_stop"}
      [] f.type = "message_stop"        -> e.type = "message_delta"
      [] OTHER                          -> FALSE

StrictOrder(s) ==
    /\ s # <<>> => s[1] = MessageStart
    /\ \A i \in 1 .. Len(s) - 1 : Follows(s[i], s[i + 1])

HasTool(s) == \E i \in 1 .. Len(s) : s[i].type = "content_block_start" /\ s[i].kind = "tool_use"

\* The stop reason does not announce a tool call that was not sent.
HonestStopReason(s) ==
    \A i \in 1 .. Len(s) :
        s[i].type = "message_delta" /\ s[i].stop_reason = "tool_use" => HasTool(s)

=============================================================================
