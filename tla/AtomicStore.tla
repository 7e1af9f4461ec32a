------------------------------ MODULE AtomicStore ------------------------------
(***************************************************************************)
(* What the callers of Store (internal/auth/token_store.go) rely on: the   *)
(* machine has the credentials of one login or none, they change as a      *)
(* whole, and a power failure leaves those of before or after a change     *)
(* that was under way, never anything else.                                *)
(***************************************************************************)
CONSTANTS Values, None

VARIABLES
    stored,     \* the credentials on the machine
    possible    \* what a power failure may leave of them

Contents == Values \cup {None}

Init == stored = None /\ possible = {None}

\* A save or a logout; until it is safe a power failure may take it back.
Change ==
    \E new \in Contents :
        /\ stored' = new
        /\ possible' \in {kept \cup {new} : kept \in SUBSET possible}

\* What is stored has become safe.
Settle ==
    /\ possible' = {stored}
    /\ UNCHANGED stored

PowerFailure ==
    \E left \in possible :
        /\ stored' = left
        /\ possible' = {left}

Next == Change \/ Settle \/ PowerFailure

Spec == Init /\ [][Next]_<<stored, possible>>

================================================================================
