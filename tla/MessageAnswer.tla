---------------------------- MODULE MessageAnswer ----------------------------
(***************************************************************************)
(* What a client is promised about the answer to one message: it gets one  *)
(* answer, which is complete or an error, and it gets it unless it goes    *)
(* away first.  A complete answer is never followed by an error.           *)
(***************************************************************************)

VARIABLES
    answer,      \* "none", "partial", "complete" or "error"
    connected    \* the client still waits for it

answerVars == <<answer, connected>>

Init == answer = "none" /\ connected = TRUE

Unfinished == answer \in {"none", "partial"}

\* A stream begins: the client is sent its first events.
Start == answer = "none" /\ answer' = "partial" /\ UNCHANGED connected

Complete == Unfinished /\ answer' = "complete" /\ UNCHANGED connected

Report == Unfinished /\ answer' = "error" /\ UNCHANGED connected

Leave == connected /\ connected' = FALSE /\ UNCHANGED answer

Next == Start \/ Complete \/ Report \/ Leave

\* One answer.
SafeSpec == Init /\ [][Next]_answerVars

\* The server owes it to a client that stays.
Spec == SafeSpec /\ WF_answerVars(connected /\ (Complete \/ Report))

=============================================================================
