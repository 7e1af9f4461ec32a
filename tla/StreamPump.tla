------------------------------ MODULE StreamPump ------------------------------
(***************************************************************************)
(* How one message's answer is moved from the upstream to the client       *)
(* (internal/server/stream.go): the goroutine of decodeResponseFrames      *)
(* reads and decodes the body and puts frames in a channel; nextFrame      *)
(* waits for a frame, the end of the request's context or the idle timer;  *)
(* streamResponse or nonStreamResponse deals with the frame and answers.   *)
(*                                                                         *)
(* A frame is what the handler makes of it.  With stream=true the          *)
(* converter decides that, with stream=false the accumulator and           *)
(* ResponsesToAnthropic; both are modules of their own.                    *)
(*                                                                         *)
(* Time is counted in ticks, and passes only while nobody can run: what a  *)
(* goroutine computes takes no time next to an idle timeout of 90 s.  The  *)
(* two processes are interleaved in every order all the same.              *)
(***************************************************************************)
EXTENDS Integers, SequencesExt

CONSTANTS
    IdleTimeout,  \* sseIdleTimeout, in ticks
    MaxReads,     \* bound: reads that bring bytes
    MaxFrames     \* bound: frames that are completed by the bytes of one read

ASSUME IdleTimeoutAssumption == IdleTimeout \in Nat \ {0}
ASSUME BoundsAssumption == MaxReads \in Nat /\ MaxFrames \in Nat

VARIABLES
    stream,     \* the client asked for stream=true
    reads,      \* reads that brought bytes
    buffered,   \* what the decoder has still to return
    reader,     \* the goroutine: "running", or "ended", with its channel closed
    frames,     \* the channel of results, with room for one
    activity,   \* the activity channel holds its one signal
    handler,    \* "waiting" in nextFrame, "writing", "closing" or "returned"
    timer,      \* ticks until nextFrame's timer fires
    terminal,   \* a terminal event has been processed
    answer,     \* what the client has been sent
    connected,  \* the client has not gone away
    cancelled,  \* the request's context has ended
    silence     \* history: ticks since the last byte came, up to IdleTimeout

readerVars == <<reads, buffered, reader>>
clientVars == <<connected, cancelled>>
vars == <<stream, readerVars, frames, activity, handler, timer, terminal, answer,
          clientVars, silence>>

-----------------------------------------------------------------------------
(* Data *)

\* "content" has something for a streaming client, "quiet" does not; "terminal"
\* is a terminal event that converts, "failure" is response.failed, error, and
\* whatever cannot be decoded or converted; "done" is the [DONE] sentinel.
FrameKinds == {"content", "quiet", "terminal", "failure", "done"}

\* What decoder.Next ends with: the end of the body, or an error.
ReadErrors == {"eof", "broken"}

Results == FrameKinds \cup ReadErrors

-----------------------------------------------------------------------------
(* State *)

\* The upstream has answered with a 2xx status, and nextFrame is called.
Init ==
    /\ stream \in BOOLEAN
    /\ reads = 0
    /\ buffered = <<>>
    /\ reader = "running"
    /\ frames = <<>>
    /\ activity = FALSE
    /\ handler = "waiting"
    /\ timer = IdleTimeout
    /\ terminal = FALSE
    /\ answer = "none"
    /\ connected = TRUE
    /\ cancelled = FALSE
    /\ silence = 0

-----------------------------------------------------------------------------
(* The goroutine of decodeResponseFrames *)

Reading == reader = "running" /\ buffered = <<>>

\* Read returns bytes, which complete some frames; activityReader signals it.
\* No frame at all is a comment, a keepalive or a part of a frame.
Read(decoded) ==
    /\ Reading
    /\ ~cancelled
    /\ reads < MaxReads
    /\ reads' = reads + 1
    /\ buffered' = decoded
    /\ activity' = TRUE
    /\ silence' = 0
    /\ UNCHANGED <<stream, reader, frames, handler, timer, terminal, answer, clientVars>>

\* The body ends or breaks, or a frame is too large.  The end of the body also
\* ends a last frame whose blank line never came.
BodyEnds(rest, error) ==
    /\ Reading
    /\ ~cancelled
    /\ rest # <<>> => error = "eof" /\ reads > 0
    /\ buffered' = Append(rest, error)
    /\ UNCHANGED <<stream, reads, reader, frames, activity, handler, timer, terminal, answer,
                   clientVars, silence>>

\* The end of the request's context ends the upstream request.
ReadAborted ==
    /\ Reading
    /\ cancelled
    /\ buffered' = <<"broken">>
    /\ UNCHANGED <<stream, reads, reader, frames, activity, handler, timer, terminal, answer,
                   clientVars, silence>>

\* A result goes to the channel; an error is the last one.
Deliver ==
    /\ reader = "running"
    /\ buffered # <<>>
    /\ frames = <<>>
    /\ frames' = <<Head(buffered)>>
    /\ buffered' = Tail(buffered)
    /\ reader' = IF Head(buffered) \in ReadErrors THEN "ended" ELSE "running"
    /\ UNCHANGED <<stream, reads, activity, handler, timer, terminal, answer, clientVars, silence>>

\* The context has ended: the goroutine does not wait for room in the channel.
NeverAbandons == FALSE   \* mutant: a plain send
Abandon ==
    /\ reader = "running"
    /\ buffered # <<>>
    /\ cancelled
    /\ reader' = "ended"
    /\ buffered' = <<>>
    /\ UNCHANGED <<stream, reads, frames, activity, handler, timer, terminal, answer,
                   clientVars, silence>>

-----------------------------------------------------------------------------
(* The handler *)

\* nextFrame is called again, with a new timer.
WaitsLonger ==   \* mutant: off by one
    /\ handler' = "waiting"
    /\ timer' = IdleTimeout + 1
    /\ UNCHANGED cancelled
Continue ==
    /\ handler' = "waiting"
    /\ timer' = IdleTimeout
    /\ UNCHANGED cancelled

\* The handler returns: the body is closed, and the server ends the context.
Return ==
    /\ handler' = "returned"
    /\ cancelled' = TRUE
    /\ UNCHANGED timer

\* writeProcessingError, and the end of the handler: the client is told that the
\* upstream failed, or that it timed out.
Report(error) ==
    /\ answer' = error
    /\ Return

\* Finalize: nothing more comes.  Without a terminal event that is an error.
EndsSilently == Return /\ UNCHANGED answer   \* mutant: the error is dropped
Finalize ==
    IF terminal THEN Return /\ UNCHANGED answer ELSE Report("error")

\* A frame is processed.  isTerminalResponsesEvent decides whether it is the last.
ReadsOn(frame) ==   \* mutant: the handler reads on after the terminal event
    /\ IF frame = "failure" THEN Report("error")
       ELSE IF frame = "done" THEN Finalize ELSE Continue /\ UNCHANGED answer
    /\ terminal' = (terminal \/ frame = "terminal")
Process(frame) ==
    \/ /\ frame = "content"
       /\ stream
       /\ handler' = "writing"
       /\ UNCHANGED <<timer, cancelled, terminal, answer>>
    \/ /\ frame = "quiet" \/ (frame = "content" /\ ~stream)
       /\ Continue
       /\ UNCHANGED <<terminal, answer>>
    \/ /\ frame = "terminal"
       /\ terminal' = TRUE
       /\ handler' = "closing"
       /\ UNCHANGED <<timer, cancelled, answer>>
    \/ /\ frame = "failure"
       /\ Report("error")
       /\ UNCHANGED terminal
    \/ /\ frame = "done"
       /\ Finalize
       /\ UNCHANGED terminal

\* nextFrame's select.  When several cases are ready any of them may be taken.
SeeCancelled ==
    /\ handler = "waiting"
    /\ cancelled
    /\ Return
    /\ UNCHANGED <<stream, readerVars, frames, activity, terminal, answer, connected, silence>>

SeeActivity ==
    /\ handler = "waiting"
    /\ activity
    /\ activity' = FALSE
    /\ timer' = IdleTimeout
    /\ UNCHANGED <<stream, readerVars, frames, handler, terminal, answer, clientVars, silence>>

SeeFrame ==
    /\ handler = "waiting"
    /\ frames # <<>>
    /\ Head(frames) \in FrameKinds
    /\ frames' = <<>>
    /\ Process(Head(frames))
    /\ UNCHANGED <<stream, readerVars, activity, connected, silence>>

\* An error of the decoder.  Once the context has ended nobody is told.
SeeError ==
    /\ handler = "waiting"
    /\ frames # <<>>
    /\ Head(frames) \in ReadErrors
    /\ frames' = <<>>
    /\ \/ /\ cancelled
          /\ Return
          /\ UNCHANGED answer
       \/ /\ ~cancelled
          /\ Head(frames) = "eof"
          /\ Finalize
       \/ /\ ~cancelled
          /\ Head(frames) = "broken"
          /\ Report("error")
    /\ UNCHANGED <<stream, readerVars, activity, terminal, connected, silence>>

\* The channel is closed and empty.  That only happens once the context has
\* ended, so the handler returns without a word.
SeeClosed ==
    /\ handler = "waiting"
    /\ frames = <<>>
    /\ reader = "ended"
    /\ IF cancelled THEN Return /\ UNCHANGED answer ELSE Finalize
    /\ UNCHANGED <<stream, readerVars, frames, activity, terminal, connected, silence>>

\* The timer has fired.  Activity that came at the same moment wins.
TimesOutAtOnce ==   \* mutant: the second look at the activity is left out
    /\ handler = "waiting"
    /\ timer = 0
    /\ Report("timeout")
    /\ UNCHANGED <<stream, readerVars, frames, activity, terminal, connected, silence>>
SeeTimer ==
    /\ handler = "waiting"
    /\ timer = 0
    /\ \/ /\ activity
          /\ activity' = FALSE
          /\ timer' = IdleTimeout
          /\ UNCHANGED <<handler, answer, cancelled>>
       \/ /\ ~activity
          /\ Report("timeout")
          /\ UNCHANGED activity
    /\ UNCHANGED <<stream, readerVars, frames, terminal, connected, silence>>

\* The events of a frame have been written and flushed.
Written ==
    /\ handler = "writing"
    /\ answer' = "partial"
    /\ Continue
    /\ UNCHANGED <<stream, readerVars, frames, activity, terminal, connected, silence>>

\* The last events, or the JSON body, have been written.
WrittenLast ==
    /\ handler = "closing"
    /\ answer' = "complete"
    /\ Return
    /\ UNCHANGED <<stream, readerVars, frames, activity, terminal, connected, silence>>

\* A write fails, which takes a client that is gone.  Some events of the frame
\* may have been sent before.
WriteFails ==
    /\ handler \in {"writing", "closing"}
    /\ ~connected
    /\ Return
    /\ \/ UNCHANGED answer
       \/ stream /\ answer' = "partial"
    /\ UNCHANGED <<stream, readerVars, frames, activity, terminal, connected, silence>>

-----------------------------------------------------------------------------
(* The client, and time *)

Leave ==
    /\ connected
    /\ connected' = FALSE
    /\ UNCHANGED <<stream, readerVars, frames, activity, handler, timer, terminal, answer,
                   cancelled, silence>>

\* The server notices that the connection is gone and ends the context.
NoticeLeft ==
    /\ ~connected
    /\ ~cancelled
    /\ cancelled' = TRUE
    /\ UNCHANGED <<stream, readerVars, frames, activity, handler, timer, terminal, answer,
                   connected, silence>>

ReaderRuns == Deliver \/ Abandon \/ ReadAborted

Select == SeeCancelled \/ SeeActivity \/ SeeFrame \/ SeeError \/ SeeClosed \/ SeeTimer

\* What is ready to run without anybody else.
ReaderReady == reader = "running" /\ (cancelled \/ (buffered # <<>> /\ frames = <<>>))
HandlerReady ==
    /\ handler = "waiting"
    /\ cancelled \/ activity \/ frames # <<>> \/ reader = "ended" \/ timer = 0

Tick ==
    /\ ~ReaderReady
    /\ ~HandlerReady
    /\ handler # "returned"
    /\ timer' = IF handler = "waiting" THEN timer - 1 ELSE timer
    /\ silence' = IF silence < IdleTimeout THEN silence + 1 ELSE silence
    /\ UNCHANGED <<stream, readerVars, frames, activity, handler, terminal, answer, clientVars>>

-----------------------------------------------------------------------------
(* Specification *)

Upstream ==
    \/ \E decoded \in BoundedSeq(FrameKinds, MaxFrames) : Read(decoded)
    \/ \E rest \in BoundedSeq(FrameKinds, 1), error \in ReadErrors : BodyEnds(rest, error)

Write == Written \/ WrittenLast \/ WriteFails

Next == Upstream \/ ReaderRuns \/ Select \/ Write \/ Leave \/ NoticeLeft \/ Tick

Spec == Init /\ [][Next]_vars

\* Goroutines are scheduled, time passes, and a client that stays reads what it
\* is sent.  Nothing is assumed of the upstream, which may stay silent.
Fairness ==
    /\ WF_vars(ReaderRuns)
    /\ WF_vars(Select)
    /\ WF_vars(Write)
    /\ WF_vars(NoticeLeft)
    /\ WF_vars(Tick)

FairSpec == Spec /\ Fairness

-----------------------------------------------------------------------------
(* Properties *)

\* The values each variable takes; the timer never runs below zero.
TypeOK ==
    /\ stream \in BOOLEAN
    /\ reads \in 0 .. MaxReads
    /\ buffered \in Seq(Results)
    /\ reader \in {"running", "ended"}
    /\ frames \in {<<>>} \cup {<<result>> : result \in Results}
    /\ activity \in BOOLEAN
    /\ handler \in {"waiting", "writing", "closing", "returned"}
    /\ timer \in 0 .. IdleTimeout
    /\ terminal \in BOOLEAN
    /\ answer \in {"none", "partial", "complete", "error", "timeout"}
    /\ connected \in BOOLEAN
    /\ cancelled \in BOOLEAN
    /\ silence \in 0 .. IdleTimeout

\* A client that is still there is told that the upstream timed out only when not
\* a byte has come for the whole idle timeout, keepalive comments included, and no
\* frame is under way but one that the end of the body has just ended.
UnderWay == {frames[i] : i \in DOMAIN frames} \cup {buffered[i] : i \in DOMAIN buffered}

NothingLeft == cancelled \/ "eof" \in UnderWay \/ UnderWay \cap FrameKinds = {}

TimeoutIsHonest ==
    [][answer' = "timeout" /\ answer # "timeout" => silence = IdleTimeout /\ NothingLeft]_vars

\* README.md: "EOF without a terminal Responses event [is an error]"; a complete
\* answer takes a terminal event, and comes out as one.
CompleteAfterTerminal ==
    /\ answer = "complete" => terminal
    /\ terminal /\ handler = "returned" /\ connected => answer = "complete"

\* The client gets one answer, complete or an error, and it gets it however
\* silent the upstream is, unless it goes away.
Answer == INSTANCE MessageAnswer WITH answer <- IF answer = "timeout" THEN "error" ELSE answer
ImplementsMessageAnswer == Answer!Spec

\* The goroutine of decodeResponseFrames ends after the handler has returned,
\* whatever it was doing: sending to a full channel, or reading from an
\* upstream that says nothing.
ReaderEnds == handler = "returned" ~> reader = "ended"

=============================================================================
