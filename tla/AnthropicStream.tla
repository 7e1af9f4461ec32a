--------------------------- MODULE AnthropicStream ---------------------------
(***************************************************************************)
(* What a Claude Code client is promised about the Server-Sent Events of   *)
(* one streamed message, whatever the upstream does:                       *)
(*                                                                         *)
(*   - the events it has been sent so far are in strict order;             *)
(*   - the message either stays open, or completes with message_stop, or   *)
(*     fails, and a failed message never shows a message_delta;            *)
(*   - the stop reason is "tool_use" only when a tool_use block was sent.  *)
(***************************************************************************)
EXTENDS AnthropicEvents

VARIABLES
    stream,     \* the events the client has been sent
    outcome     \* "open", "complete" or "failed"

streamVars == <<stream, outcome>>

-----------------------------------------------------------------------------

Init ==
    /\ stream = <<>>
    /\ outcome = "open"

\* The client is sent more events, in order.
Grows ==
    /\ Len(stream) <= Len(stream')
    /\ SubSeq(stream', 1, Len(stream)) = stream
    /\ StrictOrder(stream')
    /\ HonestStopReason(stream')

\* Content of an open message.
Extend ==
    /\ outcome = "open"
    /\ outcome' = "open"
    /\ Grows
    /\ \A i \in 1 .. Len(stream') : stream'[i].type \notin {"message_delta", "message_stop"}

\* The last events of a message that succeeds.
Complete ==
    /\ outcome = "open"
    /\ outcome' = "complete"
    /\ Grows
    /\ stream' # <<>>
    /\ stream'[Len(stream')] = MessageStop

\* The message fails: nothing more is sent as part of it.
Fail ==
    /\ outcome = "open"
    /\ outcome' = "failed"
    /\ UNCHANGED stream

Next == Extend \/ Complete \/ Fail

Spec == Init /\ [][Next]_streamVars

=============================================================================
