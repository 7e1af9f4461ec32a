----------------------------- MODULE MCStreamPump -----------------------------
(* StreamPump with the bounds of MCStreamPump.cfg. *)
EXTENDS StreamPump
=============================================================================
