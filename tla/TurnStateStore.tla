---------------------------- MODULE TurnStateStore ----------------------------
(***************************************************************************)
(* TurnStateStore (internal/upstream/codex/turn_state.go): the opaque      *)
(* state the upstream has last sent for a session, for a limited time.     *)
(* Its mutex makes a step of each method.  Put and Get are all the client  *)
(* calls; it never puts a blank state and never deletes one.               *)
(*                                                                         *)
(* An entry keeps how long it has left, where the code keeps when it       *)
(* expires: it has expired when nothing is left.                           *)
(***************************************************************************)
EXTENDS Integers

CONSTANTS
    Sessions,
    States,     \* the states the upstream may send
    NoState,
    TTL         \* ticks an entry lives

ASSUME NoStateAssumption == NoState \notin States
ASSUME TTLAssumption == TTL \in Nat \ {0}

VARIABLE entries   \* of every session

-----------------------------------------------------------------------------

NoEntry == [value |-> NoState, left |-> 0]
Entries == [value : States \cup {NoState}, left : 0 .. TTL]

\* NewTurnStateStore
StoreInit == entries = [s \in Sessions |-> NoEntry]

\* Get, and what it does to the entries: it removes the one that has expired.
NeverExpires(s) == FALSE   \* mutant: the lifetime is not looked at
Expired(s) == entries[s].left = 0

Get(s) == IF Expired(s) THEN NoState ELSE entries[s].value
Cleaned(s) == IF Expired(s) THEN [entries EXCEPT ![s] = NoEntry] ELSE entries

KeepsFirst(s, state) ==   \* mutant: a state that is still valid is not replaced
    IF Expired(s) THEN [entries EXCEPT ![s] = [value |-> state, left |-> TTL]] ELSE entries
Put(s, state) == [entries EXCEPT ![s] = [value |-> state, left |-> TTL]]

\* A tick of the clock.
Older(left) == IF left = 0 THEN 0 ELSE left - 1
Aged == [s \in Sessions |-> [entries[s] EXCEPT !.left = Older(@)]]

================================================================================
