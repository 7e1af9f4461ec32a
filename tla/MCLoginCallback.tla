---------------------------- MODULE MCLoginCallback ----------------------------
(***************************************************************************)
(* Three browsers, so that a second and a third attempt follow the first   *)
(* or wait for it together.                                                *)
(***************************************************************************)
EXTENDS LoginCallback

Asks(get, state, error, code) == [get |-> get, state |-> state, error |-> error, code |-> code]

MCRequests ==
    {Asks(TRUE, TRUE, FALSE, TRUE), Asks(TRUE, FALSE, FALSE, TRUE), Asks(TRUE, TRUE, TRUE, FALSE),
     Asks(TRUE, TRUE, FALSE, FALSE), Asks(FALSE, TRUE, FALSE, TRUE)}

================================================================================
