---------------------------- MODULE MCMessagesServer ----------------------------
(***************************************************************************)
(* Three requests of two sessions: one session has two, the second of      *)
(* which may begin before or after the reply to the first, and its third   *)
(* request, or another session's, comes after both.                        *)
(***************************************************************************)
EXTENDS MessagesServer

================================================================================
