--------------------------- MODULE StreamPumpProofs ---------------------------
(***************************************************************************)
(* Proofs about StreamPump, for every idle timeout and any number of reads *)
(* and frames: its types, that a timeout is reported only after silence,   *)
(* that a complete answer and a terminal event come together, and that it  *)
(* is a safe MessageAnswer.                                                *)
(*                                                                         *)
(* TimerInv says why a timeout is honest.  As long as no activity is       *)
(* signalled, the time the timer has run is time without a byte, and once  *)
(* it has run at all nothing is under way but what the end of the body     *)
(* ended, since time passes only when nobody can run.  AnswerInv says      *)
(* which answers go with which place of the handler.                       *)
(***************************************************************************)
EXTENDS StreamPump, SequenceLemmas, SequenceTheorems, TLAPS

-----------------------------------------------------------------------------
(* The inductive invariant *)

TimerInv ==
    handler = "waiting" /\ ~activity =>
        /\ silence >= IdleTimeout - timer
        /\ timer < IdleTimeout => NothingLeft

AnswerInv ==
    /\ handler \in {"waiting", "writing"} => ~terminal
    /\ handler = "closing" => terminal
    /\ handler # "returned" => answer \in {"none", "partial"}
    /\ handler = "returned" /\ terminal => answer = "complete" \/ ~connected
    /\ answer = "complete" => terminal

Inv == TypeOK /\ TimerInv /\ AnswerInv

\* A step of the invariant, and what MessageAnswer makes of the step.
GoodStep ==
    /\ Inv'
    /\ [Answer!Next]_(Answer!answerVars)
    /\ answer' = "timeout" /\ answer # "timeout"
          => silence = IdleTimeout /\ NothingLeft

-----------------------------------------------------------------------------
(* What is under way *)

\* Delivering a result moves it.
LEMMA DeliverKeeps ==
    ASSUME TypeOK, Deliver
    PROVE  UnderWay' = UnderWay
<1>1. /\ buffered \in Seq(Results)
      /\ buffered # <<>>
      /\ frames' = <<Head(buffered)>>
      /\ buffered' = Tail(buffered)
  BY DEF TypeOK, Deliver
<1>2. ASSUME NEW i \in DOMAIN frames'
      PROVE  frames'[i] \in UnderWay
  BY <1>1, <1>2 DEF UnderWay
<1>3. ASSUME NEW i \in DOMAIN buffered'
      PROVE  buffered'[i] \in UnderWay
  <2>1. /\ i + 1 \in DOMAIN buffered
        /\ buffered'[i] = buffered[i + 1]
    BY <1>1, HeadTailProperties
  <2> QED
    BY <2>1 DEF UnderWay
<1>4. ASSUME NEW j \in DOMAIN buffered
      PROVE  buffered[j] \in UnderWay'
  <2>1. CASE j = 1
    BY <1>1, <2>1 DEF UnderWay
  <2>2. CASE j # 1
    <3>1. /\ j - 1 \in DOMAIN buffered'
          /\ buffered'[j - 1] = buffered[j]
      BY <1>1, <2>2, HeadTailProperties
    <3> QED
      BY <3>1 DEF UnderWay
  <2> QED
    BY <2>1, <2>2
<1>5. frames = <<>>
  BY DEF Deliver
<1> QED
  BY <1>2, <1>3, <1>4, <1>5 DEF UnderWay

\* An error is not a frame.
LEMMA ErrorsAreNotFrames == ReadErrors \cap FrameKinds = {}
BY DEF ReadErrors, FrameKinds

-----------------------------------------------------------------------------
(* Steps *)

\* Bytes are activity.
LEMMA ReadStep ==
    ASSUME Inv, NEW decoded \in Seq(FrameKinds), Read(decoded)
    PROVE  GoodStep
<1> USE DEF Read, Reading, readerVars, clientVars
<1>a. decoded \in Seq(Results)
  BY DEF Results
<1>b. reads' \in 0 .. MaxReads
  BY BoundsAssumption DEF Inv, TypeOK
<1>1. TypeOK'
  BY <1>a, <1>b, IdleTimeoutAssumption DEF Inv, TypeOK
<1>2. TimerInv'
  BY DEF Inv, TypeOK, TimerInv
<1>3. AnswerInv'
  BY DEF Inv, TypeOK, AnswerInv
<1>4. [Answer!Next]_(Answer!answerVars)
  BY DEF Inv, TypeOK, AnswerInv, Answer!Next, Answer!Start, Answer!Complete, Answer!Report, Answer!Leave, Answer!Unfinished, Answer!answerVars
<1>5. answer' = "timeout" /\ answer # "timeout"
        => silence = IdleTimeout /\ NothingLeft
  BY DEF Inv, TypeOK, TimerInv
<1> QED
  BY <1>1, <1>2, <1>3, <1>4, <1>5 DEF GoodStep, Inv

\* The end of the body is under way; any other error comes alone.
LEMMA BodyEndsStep ==
    ASSUME Inv, NEW rest \in Seq(FrameKinds), NEW error \in ReadErrors, BodyEnds(rest, error)
    PROVE  GoodStep
<1> USE DEF BodyEnds, Reading, readerVars, clientVars
<1>a. buffered' \in Seq(Results) /\ Len(buffered') = Len(rest) + 1 /\ buffered'[Len(rest) + 1] = error
  BY AppendProperties DEF Results
<1>b. frames' = frames
  OBVIOUS
<1>c. NothingLeft' \/ UnderWay' = UnderWay \cup {error}
  <2>1. CASE error = "eof"
    BY <1>a, <2>1 DEF NothingLeft, UnderWay
  <2>2. CASE error # "eof"
    BY <2>2 DEF UnderWay
  <2> QED
    BY <2>1, <2>2
<1>1. TypeOK'
  BY <1>a, <1>b DEF Inv, TypeOK
<1>2. TimerInv'
  BY <1>c, ErrorsAreNotFrames DEF Inv, TypeOK, TimerInv, NothingLeft
<1>3. AnswerInv'
  BY DEF Inv, TypeOK, AnswerInv
<1>4. [Answer!Next]_(Answer!answerVars)
  BY DEF Inv, TypeOK, AnswerInv, Answer!Next, Answer!Start, Answer!Complete, Answer!Report, Answer!Leave, Answer!Unfinished, Answer!answerVars
<1>5. answer' = "timeout" /\ answer # "timeout"
        => silence = IdleTimeout /\ NothingLeft
  BY DEF Inv, TypeOK, TimerInv
<1> QED
  BY <1>1, <1>2, <1>3, <1>4, <1>5 DEF GoodStep, Inv

\* The same for the end of the context.
LEMMA ReadAbortedStep ==
    ASSUME Inv, ReadAborted
    PROVE  GoodStep
<1> USE DEF ReadAborted, Reading, readerVars, clientVars
<1>1. TypeOK'
  BY DEF Inv, TypeOK, Results, ReadErrors
<1>2. TimerInv'
  BY DEF Inv, TypeOK, TimerInv, NothingLeft
<1>3. AnswerInv'
  BY DEF Inv, TypeOK, AnswerInv
<1>4. [Answer!Next]_(Answer!answerVars)
  BY DEF Inv, TypeOK, AnswerInv, Answer!Next, Answer!Start, Answer!Complete, Answer!Report, Answer!Leave, Answer!Unfinished, Answer!answerVars
<1>5. answer' = "timeout" /\ answer # "timeout"
        => silence = IdleTimeout /\ NothingLeft
  BY DEF Inv, TypeOK, TimerInv
<1> QED
  BY <1>1, <1>2, <1>3, <1>4, <1>5 DEF GoodStep, Inv

\* A result is delivered in order.
LEMMA DeliverStep ==
    ASSUME Inv, Deliver
    PROVE  GoodStep
<1> USE DEF Deliver, readerVars, clientVars
<1>1. TypeOK'
  BY HeadTailProperties DEF Inv, TypeOK
<1>2. TimerInv'
  BY DeliverKeeps DEF Inv, TypeOK, TimerInv, NothingLeft
<1>3. AnswerInv'
  BY DEF Inv, TypeOK, AnswerInv
<1>4. [Answer!Next]_(Answer!answerVars)
  BY DEF Inv, TypeOK, AnswerInv, Answer!Next, Answer!Start, Answer!Complete, Answer!Report, Answer!Leave, Answer!Unfinished, Answer!answerVars
<1>5. answer' = "timeout" /\ answer # "timeout"
        => silence = IdleTimeout /\ NothingLeft
  BY DEF Inv, TypeOK, TimerInv
<1> QED
  BY <1>1, <1>2, <1>3, <1>4, <1>5 DEF GoodStep, Inv

\* The reader gives up once the context has ended.
LEMMA AbandonStep ==
    ASSUME Inv, Abandon
    PROVE  GoodStep
<1> USE DEF Abandon, readerVars, clientVars
<1>1. TypeOK'
  BY DEF Inv, TypeOK
<1>2. TimerInv'
  BY DEF Inv, TypeOK, TimerInv, NothingLeft
<1>3. AnswerInv'
  BY DEF Inv, TypeOK, AnswerInv
<1>4. [Answer!Next]_(Answer!answerVars)
  BY DEF Inv, TypeOK, AnswerInv, Answer!Next, Answer!Start, Answer!Complete, Answer!Report, Answer!Leave, Answer!Unfinished, Answer!answerVars
<1>5. answer' = "timeout" /\ answer # "timeout"
        => silence = IdleTimeout /\ NothingLeft
  BY DEF Inv, TypeOK, TimerInv
<1> QED
  BY <1>1, <1>2, <1>3, <1>4, <1>5 DEF GoodStep, Inv

\* The client leaves, which is all that happens.
LEMMA LeaveStep ==
    ASSUME Inv, Leave
    PROVE  GoodStep
<1> USE DEF Leave, readerVars, clientVars
<1>1. TypeOK'
  BY DEF Inv, TypeOK
<1>2. TimerInv'
  BY DEF Inv, TypeOK, TimerInv, NothingLeft, UnderWay
<1>3. AnswerInv'
  BY DEF Inv, TypeOK, AnswerInv
<1>4. [Answer!Next]_(Answer!answerVars)
  BY DEF Inv, TypeOK, AnswerInv, Answer!Next, Answer!Start, Answer!Complete, Answer!Report, Answer!Leave, Answer!Unfinished, Answer!answerVars
<1>5. answer' = "timeout" /\ answer # "timeout"
        => silence = IdleTimeout /\ NothingLeft
  BY DEF Inv, TypeOK, TimerInv
<1> QED
  BY <1>1, <1>2, <1>3, <1>4, <1>5 DEF GoodStep, Inv

\* The context ends.
LEMMA NoticeLeftStep ==
    ASSUME Inv, NoticeLeft
    PROVE  GoodStep
<1> USE DEF NoticeLeft, readerVars, clientVars
<1>1. TypeOK'
  BY DEF Inv, TypeOK
<1>2. TimerInv'
  BY DEF Inv, TypeOK, TimerInv, NothingLeft, UnderWay
<1>3. AnswerInv'
  BY DEF Inv, TypeOK, AnswerInv
<1>4. [Answer!Next]_(Answer!answerVars)
  BY DEF Inv, TypeOK, AnswerInv, Answer!Next, Answer!Start, Answer!Complete, Answer!Report, Answer!Leave, Answer!Unfinished, Answer!answerVars
<1>5. answer' = "timeout" /\ answer # "timeout"
        => silence = IdleTimeout /\ NothingLeft
  BY DEF Inv, TypeOK, TimerInv
<1> QED
  BY <1>1, <1>2, <1>3, <1>4, <1>5 DEF GoodStep, Inv

\* Time passes when nothing is under way.
LEMMA TickStep ==
    ASSUME Inv, Tick
    PROVE  GoodStep
<1> USE DEF Tick, readerVars, clientVars
<1>a. handler = "waiting" => UnderWay' = {}
  BY DEF ReaderReady, HandlerReady, UnderWay, Inv, TypeOK
<1>1. TypeOK'
  BY IdleTimeoutAssumption DEF Inv, TypeOK, HandlerReady
<1>2. TimerInv'
  BY <1>a, IdleTimeoutAssumption DEF Inv, TypeOK, TimerInv, HandlerReady, NothingLeft
<1>3. AnswerInv'
  BY DEF Inv, TypeOK, AnswerInv
<1>4. [Answer!Next]_(Answer!answerVars)
  BY DEF Inv, TypeOK, AnswerInv, Answer!Next, Answer!Start, Answer!Complete, Answer!Report, Answer!Leave, Answer!Unfinished, Answer!answerVars
<1>5. answer' = "timeout" /\ answer # "timeout"
        => silence = IdleTimeout /\ NothingLeft
  BY DEF Inv, TypeOK, TimerInv
<1> QED
  BY <1>1, <1>2, <1>3, <1>4, <1>5 DEF GoodStep, Inv

\* The handler returns without a word.
LEMMA SeeCancelledStep ==
    ASSUME Inv, SeeCancelled
    PROVE  GoodStep
<1> USE DEF SeeCancelled, Return, readerVars, clientVars
<1>1. TypeOK'
  BY DEF Inv, TypeOK
<1>2. TimerInv'
  BY DEF Inv, TypeOK, TimerInv
<1>3. AnswerInv'
  BY DEF Inv, TypeOK, AnswerInv
<1>4. [Answer!Next]_(Answer!answerVars)
  BY DEF Inv, TypeOK, AnswerInv, Answer!Next, Answer!Start, Answer!Complete, Answer!Report, Answer!Leave, Answer!Unfinished, Answer!answerVars
<1>5. answer' = "timeout" /\ answer # "timeout"
        => silence = IdleTimeout /\ NothingLeft
  BY DEF Inv, TypeOK, TimerInv
<1> QED
  BY <1>1, <1>2, <1>3, <1>4, <1>5 DEF GoodStep, Inv

\* The timer starts again.
LEMMA SeeActivityStep ==
    ASSUME Inv, SeeActivity
    PROVE  GoodStep
<1> USE DEF SeeActivity, readerVars, clientVars
<1>t. IdleTimeout \in 0 .. IdleTimeout
  BY IdleTimeoutAssumption
<1>1. TypeOK'
  BY <1>t DEF Inv, TypeOK
<1>2. TimerInv'
  BY IdleTimeoutAssumption DEF Inv, TypeOK, TimerInv
<1>3. AnswerInv'
  BY DEF Inv, TypeOK, AnswerInv
<1>4. [Answer!Next]_(Answer!answerVars)
  BY DEF Inv, TypeOK, AnswerInv, Answer!Next, Answer!Start, Answer!Complete, Answer!Report, Answer!Leave, Answer!Unfinished, Answer!answerVars
<1>5. answer' = "timeout" /\ answer # "timeout"
        => silence = IdleTimeout /\ NothingLeft
  BY DEF Inv, TypeOK, TimerInv
<1> QED
  BY <1>1, <1>2, <1>3, <1>4, <1>5 DEF GoodStep, Inv

\* The body has ended, and not with a terminal event.
LEMMA SeeErrorStep ==
    ASSUME Inv, SeeError
    PROVE  GoodStep
<1> USE DEF SeeError, Finalize, Report, Return, readerVars, clientVars
<1>1. TypeOK'
  BY DEF Inv, TypeOK
<1>2. TimerInv'
  BY DEF Inv, TypeOK, TimerInv
<1>3. AnswerInv'
  BY DEF Inv, TypeOK, AnswerInv
<1>4. [Answer!Next]_(Answer!answerVars)
  BY DEF Inv, TypeOK, AnswerInv, Answer!Next, Answer!Start, Answer!Complete, Answer!Report, Answer!Leave, Answer!Unfinished, Answer!answerVars
<1>5. answer' = "timeout" /\ answer # "timeout"
        => silence = IdleTimeout /\ NothingLeft
  BY DEF Inv, TypeOK, TimerInv
<1> QED
  BY <1>1, <1>2, <1>3, <1>4, <1>5 DEF GoodStep, Inv

\* The channel is closed.
LEMMA SeeClosedStep ==
    ASSUME Inv, SeeClosed
    PROVE  GoodStep
<1> USE DEF SeeClosed, Finalize, Report, Return, readerVars, clientVars
<1>1. TypeOK'
  BY DEF Inv, TypeOK
<1>2. TimerInv'
  BY DEF Inv, TypeOK, TimerInv
<1>3. AnswerInv'
  BY DEF Inv, TypeOK, AnswerInv
<1>4. [Answer!Next]_(Answer!answerVars)
  BY DEF Inv, TypeOK, AnswerInv, Answer!Next, Answer!Start, Answer!Complete, Answer!Report, Answer!Leave, Answer!Unfinished, Answer!answerVars
<1>5. answer' = "timeout" /\ answer # "timeout"
        => silence = IdleTimeout /\ NothingLeft
  BY DEF Inv, TypeOK, TimerInv
<1> QED
  BY <1>1, <1>2, <1>3, <1>4, <1>5 DEF GoodStep, Inv

\* A timer that has run out with no activity means silence.
LEMMA SeeTimerStep ==
    ASSUME Inv, SeeTimer
    PROVE  GoodStep
<1> USE DEF SeeTimer, Report, Return, readerVars, clientVars
<1>t. IdleTimeout \in 0 .. IdleTimeout
  BY IdleTimeoutAssumption
<1>1. TypeOK'
  BY <1>t DEF Inv, TypeOK
<1>2. TimerInv'
  BY IdleTimeoutAssumption DEF Inv, TypeOK, TimerInv
<1>3. AnswerInv'
  BY DEF Inv, TypeOK, AnswerInv
<1>4. [Answer!Next]_(Answer!answerVars)
  BY DEF Inv, TypeOK, AnswerInv, Answer!Next, Answer!Start, Answer!Complete, Answer!Report, Answer!Leave, Answer!Unfinished, Answer!answerVars
<1>5. answer' = "timeout" /\ answer # "timeout"
        => silence = IdleTimeout /\ NothingLeft
  BY IdleTimeoutAssumption DEF Inv, TypeOK, TimerInv
<1> QED
  BY <1>1, <1>2, <1>3, <1>4, <1>5 DEF GoodStep, Inv

\* The stream has begun.
LEMMA WrittenStep ==
    ASSUME Inv, Written
    PROVE  GoodStep
<1> USE DEF Written, Continue, readerVars, clientVars
<1>1. TypeOK'
  BY IdleTimeoutAssumption DEF Inv, TypeOK
<1>2. TimerInv'
  BY IdleTimeoutAssumption DEF Inv, TypeOK, TimerInv
<1>3. AnswerInv'
  BY DEF Inv, TypeOK, AnswerInv
<1>4. [Answer!Next]_(Answer!answerVars)
  BY DEF Inv, TypeOK, AnswerInv, Answer!Next, Answer!Start, Answer!Complete, Answer!Report, Answer!Leave, Answer!Unfinished, Answer!answerVars
<1>5. answer' = "timeout" /\ answer # "timeout"
        => silence = IdleTimeout /\ NothingLeft
  BY DEF Inv, TypeOK, TimerInv
<1> QED
  BY <1>1, <1>2, <1>3, <1>4, <1>5 DEF GoodStep, Inv

\* The answer is complete.
LEMMA WrittenLastStep ==
    ASSUME Inv, WrittenLast
    PROVE  GoodStep
<1> USE DEF WrittenLast, Return, readerVars, clientVars
<1>1. TypeOK'
  BY DEF Inv, TypeOK
<1>2. TimerInv'
  BY DEF Inv, TypeOK, TimerInv
<1>3. AnswerInv'
  BY DEF Inv, TypeOK, AnswerInv
<1>4. [Answer!Next]_(Answer!answerVars)
  BY DEF Inv, TypeOK, AnswerInv, Answer!Next, Answer!Start, Answer!Complete, Answer!Report, Answer!Leave, Answer!Unfinished, Answer!answerVars
<1>5. answer' = "timeout" /\ answer # "timeout"
        => silence = IdleTimeout /\ NothingLeft
  BY DEF Inv, TypeOK, TimerInv
<1> QED
  BY <1>1, <1>2, <1>3, <1>4, <1>5 DEF GoodStep, Inv

\* The client is gone.
LEMMA WriteFailsStep ==
    ASSUME Inv, WriteFails
    PROVE  GoodStep
<1> USE DEF WriteFails, Return, readerVars, clientVars
<1>1. TypeOK'
  BY DEF Inv, TypeOK
<1>2. TimerInv'
  BY DEF Inv, TypeOK, TimerInv
<1>3. AnswerInv'
  BY DEF Inv, TypeOK, AnswerInv
<1>4. [Answer!Next]_(Answer!answerVars)
  BY DEF Inv, TypeOK, AnswerInv, Answer!Next, Answer!Start, Answer!Complete, Answer!Report, Answer!Leave, Answer!Unfinished, Answer!answerVars
<1>5. answer' = "timeout" /\ answer # "timeout"
        => silence = IdleTimeout /\ NothingLeft
  BY DEF Inv, TypeOK, TimerInv
<1> QED
  BY <1>1, <1>2, <1>3, <1>4, <1>5 DEF GoodStep, Inv

\* A frame that leaves the handler waiting or writing starts the timer again.
LEMMA SeeFrameStep ==
    ASSUME Inv, SeeFrame
    PROVE  GoodStep
<1> DEFINE frame == Head(frames)
<1> USE DEF SeeFrame, readerVars, clientVars
<1>a. Process(frame)
  OBVIOUS
<1> HIDE DEF frame
<1>t. IdleTimeout \in 0 .. IdleTimeout
  BY IdleTimeoutAssumption
<1>1. TypeOK'
  BY <1>a, <1>t DEF Inv, TypeOK, Process, Continue, Finalize, Report, Return
<1>2. TimerInv'
  BY <1>a, IdleTimeoutAssumption DEF Inv, TypeOK, TimerInv, Process, Continue, Finalize, Report, Return
<1>3. AnswerInv'
  BY <1>a DEF Inv, TypeOK, AnswerInv, Process, Continue, Finalize, Report, Return
<1>4. [Answer!Next]_(Answer!answerVars)
  BY <1>a DEF Inv, TypeOK, AnswerInv, Process, Continue, Finalize, Report, Return, Answer!Next, Answer!Start, Answer!Complete, Answer!Report, Answer!Leave, Answer!Unfinished, Answer!answerVars
<1>5. answer' # "timeout" \/ answer' = answer
  BY <1>a DEF Process, Finalize, Report
<1> QED
  BY <1>1, <1>2, <1>3, <1>4, <1>5 DEF GoodStep, Inv

\* Nothing changes.
LEMMA StutterStep ==
    ASSUME Inv, UNCHANGED vars
    PROVE  GoodStep
<1> USE DEF vars, readerVars, clientVars
<1>1. TypeOK'
  BY DEF Inv, TypeOK
<1>2. TimerInv'
  BY DEF Inv, TimerInv, NothingLeft, UnderWay
<1>3. AnswerInv'
  BY DEF Inv, AnswerInv
<1>4. [Answer!Next]_(Answer!answerVars)
  BY DEF Answer!answerVars
<1> QED
  BY <1>1, <1>2, <1>3, <1>4 DEF GoodStep, Inv

-----------------------------------------------------------------------------
(* The specification *)

\* The invariant holds when the upstream has answered.
LEMMA InitInv == Init => Inv /\ Answer!Init
<1> SUFFICES ASSUME Init
             PROVE  Inv /\ Answer!Init
  OBVIOUS
<1> USE DEF Init
<1>t. IdleTimeout \in 0 .. IdleTimeout /\ 0 \in 0 .. IdleTimeout /\ 0 \in 0 .. MaxReads
  BY IdleTimeoutAssumption, BoundsAssumption
<1>u. stream \in BOOLEAN /\ timer \in 0 .. IdleTimeout /\ silence \in 0 .. IdleTimeout /\ reads \in 0 .. MaxReads
  BY <1>t
<1>v. buffered \in Seq(Results)
  OBVIOUS
<1>w. <<activity, terminal, connected, cancelled>> = <<FALSE, FALSE, TRUE, FALSE>>
  OBVIOUS
<1>1. TypeOK
  BY <1>u, <1>v, <1>w DEF TypeOK
<1>2. TimerInv /\ AnswerInv /\ Answer!Init
  BY IdleTimeoutAssumption DEF TimerInv, AnswerInv, Answer!Init
<1> QED
  BY <1>1, <1>2 DEF Inv

\* Every step is a good one.
LEMMA NextGood == Inv /\ [Next]_vars => GoodStep
<1> SUFFICES ASSUME Inv, [Next]_vars
             PROVE  GoodStep
  OBVIOUS
<1>1. CASE Upstream
  <2>1. ASSUME NEW decoded \in BoundedSeq(FrameKinds, MaxFrames), Read(decoded)
        PROVE  GoodStep
    <3>1. PICK n \in 0 .. MaxFrames : decoded \in [1 .. n -> FrameKinds]
      BY DEF BoundedSeq, SeqOf
    <3>2. decoded \in Seq(FrameKinds)
      BY <3>1, BoundsAssumption, SeqOfFunction
    <3> QED
      BY <2>1, <3>2, ReadStep
  <2>2. ASSUME NEW rest \in BoundedSeq(FrameKinds, 1), NEW error \in ReadErrors,
               BodyEnds(rest, error)
        PROVE  GoodStep
    <3>1. PICK n \in 0 .. 1 : rest \in [1 .. n -> FrameKinds]
      BY DEF BoundedSeq, SeqOf
    <3>2. rest \in Seq(FrameKinds)
      BY <3>1, SeqOfFunction
    <3> QED
      BY <2>2, <3>2, BodyEndsStep
  <2> QED
    BY <1>1, <2>1, <2>2 DEF Upstream
<1>2. CASE ReaderRuns
  BY <1>2, DeliverStep, AbandonStep, ReadAbortedStep DEF ReaderRuns
<1>3. CASE Select
  BY <1>3, SeeCancelledStep, SeeActivityStep, SeeFrameStep, SeeErrorStep, SeeClosedStep,
     SeeTimerStep DEF Select
<1>4. CASE Write
  BY <1>4, WrittenStep, WrittenLastStep, WriteFailsStep DEF Write
<1>5. CASE Leave \/ NoticeLeft \/ Tick
  BY <1>5, LeaveStep, NoticeLeftStep, TickStep
<1>6. CASE UNCHANGED vars
  BY <1>6, StutterStep
<1> QED
  BY <1>1, <1>2, <1>3, <1>4, <1>5, <1>6 DEF Next

\* The inductive invariant.
THEOREM Invariant == Spec => []Inv
<1>1. Inv /\ [Next]_vars => Inv'
  BY NextGood DEF GoodStep
<1> QED
  BY <1>1, InitInv, PTL DEF Spec

\* The types of streamResponse's, nextFrame's and decodeResponseFrames' state.
THEOREM TypeCorrect == Spec => []TypeOK
<1>1. Inv => TypeOK
  BY DEF Inv
<1> QED
  BY <1>1, Invariant, PTL

\* streamResponse and nonStreamResponse: a complete answer and a terminal event
\* come together, unless the client is gone.
THEOREM TerminalCompletes == Spec => []CompleteAfterTerminal
<1>1. Inv => CompleteAfterTerminal
  BY DEF Inv, AnswerInv, CompleteAfterTerminal
<1> QED
  BY <1>1, Invariant, PTL

\* nextFrame reports a timeout only after the whole idle timeout without a byte,
\* and with no frame under way.
THEOREM TimeoutsAreHonest == Spec => TimeoutIsHonest
<1>1. Inv /\ [Next]_vars
        => [answer' = "timeout" /\ answer # "timeout"
              => silence = IdleTimeout /\ NothingLeft]_vars
  BY NextGood DEF GoodStep
<1> QED
  BY <1>1, Invariant, PTL DEF Spec, TimeoutIsHonest

\* Whatever the upstream and the client do, the client gets at most one answer:
\* the safety part of ImplementsMessageAnswer.
THEOREM PumpIsSafeAnswer == Spec => Answer!SafeSpec
<1>1. Inv /\ [Next]_vars => [Answer!Next]_(Answer!answerVars)
  BY NextGood DEF GoodStep
<1> QED
  BY <1>1, InitInv, Invariant, PTL DEF Spec, Answer!SafeSpec

=============================================================================
