--------------------------- MODULE HttpServersProofs ---------------------------
(***************************************************************************)
(* Proofs about the two HTTP servers of the program.                       *)
(*                                                                         *)
(* MessagesServer, for any sessions, requests, lifetimes and grace: calls  *)
(* carry the newest state of their own session, and the server stops as it *)
(* should.  LoginCallback, for any number of browsers and any requests     *)
(* they make: one attempt counts.                                          *)
(***************************************************************************)
EXTENDS MessagesServer, LoginCallback, FiniteSetTheorems, TLAPS

-----------------------------------------------------------------------------
(* MessagesServer: the inductive invariant *)

Labels == {"none", "new", "authorize", "send", "wait", "stream", "done", "cut"}

\* What the handlers, the store and the server can be in.
TypeOK ==
    /\ entries \in [Sessions -> Entries]
    /\ pc \in [Requests -> Labels]
    /\ session \in [Requests -> Sessions]
    /\ carried \in [Requests -> States \cup {NoState}]
    /\ main \in {"serve", "wait", "returned"}
    /\ shutdown \in {"waiting", "shutting", "complete"}
    /\ grace \in 0 .. Grace
    /\ life \in [Requests -> 0 .. TTL]
    /\ before \in [Requests -> SUBSET Requests]

\* While Serve accepts connections only a signal can have begun the shutdown; the
\* shutdown completes when no connection is left, or no time, and no new one comes.
Stopping ==
    /\ shutdown # "waiting" => cancelled
    /\ cancelled /\ main = "serve" => signalled
    /\ result = "closed" => signalled
    /\ shutdown = "complete" => Open = {} \/ grace = 0
    /\ (\E r \in Requests : pc[r] = "cut") => grace = 0

\* A request has been replied to when its state is received, or known to another.
Replied == {r \in Requests : pc[r] \in {"stream", "done", "cut"}}
RepliesKnown ==
    /\ Received \subseteq Replied
    /\ \A r \in Requests : before[r] \subseteq Replied

\* An entry that has not expired is a state received for its session and lives as
\* long; no call that brought another one had begun after it was received.
IsNewest(s) ==
    entries[s].left > 0 =>
        /\ entries[s].value \in Requests
        /\ session[entries[s].value] = s
        /\ life[entries[s].value] = entries[s].left
        /\ \A q \in Received : session[q] = s => entries[s].value \notin before[q]

\* While any state of a session may be used, its entry has not expired.
Lives == \A q \in Received : life[q] <= entries[session[q]].left

StatesKept == (\A s \in Sessions : IsNewest(s)) /\ Lives

Inv == TypeOK /\ Stopping /\ RepliesKnown /\ StatesKept

-----------------------------------------------------------------------------
(* Entries *)

\* What Get finds, by whether the entry has expired.
LEMMA GetNewest ==
    ASSUME Inv, NEW s \in Sessions
    PROVE  /\ Get(s) # NoState => entries[s].left > 0 /\ Get(s) = entries[s].value
           /\ entries[s].left > 0 => Get(s) = entries[s].value /\ Get(s) # NoState
<1>1. entries[s].left \in 0 .. TTL
  BY DEF Inv, TypeOK, Entries
<1>2. entries[s].left > 0 => entries[s].value \in Requests
  BY DEF Inv, StatesKept, IsNewest
<1>3. NoState \notin Requests
  BY NoStateAssumption, StatesAssumption
<1> QED
  BY <1>1, <1>2, <1>3, TTLAssumption DEF Get, Expired

\* A tick.
LEMMA OlderNat ==
    ASSUME NEW n \in 0 .. TTL
    PROVE  /\ Older(n) \in 0 .. TTL
           /\ Older(n) > 0 => n > 0 /\ Older(n) = n - 1
           /\ n > 0 => Older(n) = n - 1
BY TTLAssumption DEF Older

-----------------------------------------------------------------------------
(* Steps of the handlers *)

\* A handler moves on, and neither the store nor the server is touched.  Only a
\* connection can open, only while nobody shuts down.
LEMMA MoveHolds ==
    ASSUME Inv, NEW r \in Requests, NEW label \in Labels \ {"none", "cut"},
           Goto(r, label),
           pc[r] # "cut",
           pc[r] \in {"stream", "done"} => label = "done",
           r \in Open \/ shutdown = "waiting",
           carried' \in [Requests -> States \cup {NoState}],
           UNCHANGED <<session, entries, serverVars, historyVars>>
    PROVE  Inv'
<1>1. TypeOK'
  BY DEF Inv, TypeOK, Goto, serverVars, historyVars
<1>2. Replied \subseteq Replied'
  BY DEF Inv, TypeOK, Goto, Replied, Labels
<1>3. Received' = Received
  BY DEF Received, historyVars
<1>4. RepliesKnown'
  BY <1>2, <1>3 DEF Inv, RepliesKnown, historyVars
<1>5. StatesKept'
  BY <1>3 DEF Inv, StatesKept, IsNewest, Lives, historyVars
<1>6. shutdown = "complete" => Open' = {} \/ grace = 0
  BY DEF Inv, Stopping, Open, serverVars
<1>7. \A q \in Requests : pc'[q] = "cut" => pc[q] = "cut"
  BY DEF Inv, TypeOK, Goto
<1>8. Stopping'
  BY <1>6, <1>7 DEF Inv, Stopping, serverVars
<1> QED
  BY <1>1, <1>4, <1>5, <1>8 DEF Inv

LEMMA ConnectHolds ==
    ASSUME Inv, NEW r \in Requests, Connect(r)
    PROVE  Inv'
BY MoveHolds DEF Connect, Move, Labels, Inv, TypeOK

LEMMA AskHolds ==
    ASSUME Inv, NEW r \in Requests,
           CloseNew(r) \/ Messages(r) \/ Authorize(r) \/ CannotSend(r) \/ Unauthorized(r) \/ Fail(r) \/ Finish(r)
    PROVE  Inv'
<1>1. r \in Open
  BY DEF Open, CloseNew, Messages, Authorize, CannotSend, Unauthorized, Fail, Finish
<1>2. UNCHANGED <<session, entries, serverVars, historyVars>>
  BY DEF CloseNew, Messages, Authorize, CannotSend, Unauthorized, Fail, Finish, Move, Leave
<1>3. Goto(r, "done") \/ (pc[r] # "stream" /\ (Goto(r, "authorize") \/ Goto(r, "send")))
  BY DEF CloseNew, Messages, Authorize, CannotSend, Unauthorized, Fail, Finish, Move, Leave
<1>4. pc[r] \notin {"done", "cut"}
  BY <1>1 DEF Open
<1>5. carried' \in [Requests -> States \cup {NoState}]
  BY DEF CloseNew, Messages, Authorize, CannotSend, Unauthorized, Fail, Finish, Move, Leave, Inv, TypeOK
<1> QED
  BY <1>1, <1>2, <1>3, <1>4, <1>5, MoveHolds DEF Labels

\* The call that begins has not been replied to; expired entries do not matter.
LEMMA SendHolds ==
    ASSUME Inv, NEW r \in Requests, Send(r)
    PROVE  Inv'
<1> DEFINE known == {q \in Received : session[q] = session[r]}
<1>1. /\ pc[r] = "send" /\ Goto(r, "wait") /\ entries' = Cleaned(session[r])
      /\ before' = [before EXCEPT ![r] = known]
      /\ carried' = [carried EXCEPT ![r] = Get(session[r])]
      /\ UNCHANGED <<session, serverVars, life>>
  BY DEF Send
<1>2. session[r] \in Sessions /\ known \in SUBSET Requests
  BY DEF Inv, TypeOK, Received
<1>3. \A s \in Sessions : entries'[s] = entries[s] \/ (entries[s].left = 0 /\ entries'[s] = NoEntry)
  BY <1>1, <1>2 DEF Cleaned, Expired, Inv, TypeOK
<1>4. NoEntry \in Entries
  BY TTLAssumption DEF NoEntry, Entries
<1>5. entries' \in [Sessions -> Entries]
  BY <1>1, <1>2, <1>4 DEF Cleaned, Inv, TypeOK
<1>6. TypeOK'
  <2>1. Get(session[r]) \in States \cup {NoState}
    BY <1>2 DEF Inv, TypeOK, Entries, Get
  <2>2. carried' \in [Requests -> States \cup {NoState}]
    BY <1>1, <2>1 DEF Inv, TypeOK
  <2> QED
    BY <1>1, <1>2, <1>5, <2>2 DEF Inv, TypeOK, Goto, serverVars, Labels
<1>7. Received' = Received /\ r \notin Received
  BY <1>1 DEF Received, Inv, RepliesKnown, Replied
<1>8. Replied' = Replied
  BY <1>1 DEF Inv, TypeOK, Goto, Replied
<1>9. RepliesKnown'
  BY <1>1, <1>2, <1>7, <1>8 DEF Inv, TypeOK, RepliesKnown
<1>10. \A q \in Received : before'[q] = before[q]
  BY <1>1, <1>7 DEF Inv, TypeOK, Received
<1>11. ASSUME NEW s \in Sessions PROVE IsNewest(s)'
  <2>1. CASE entries'[s] = entries[s]
    BY <1>1, <1>7, <1>10, <2>1 DEF Inv, StatesKept, IsNewest
  <2>2. CASE entries'[s] = NoEntry
    BY <2>2 DEF IsNewest, NoEntry
  <2> QED
    BY <1>3, <2>1, <2>2
<1>12. Lives'
  <2>1. \A s \in Sessions : entries'[s].left = entries[s].left
    BY <1>3 DEF NoEntry
  <2> QED
    BY <1>1, <1>7, <2>1 DEF Inv, TypeOK, StatesKept, Lives, Received
<1>13. Stopping'
  BY <1>1 DEF Inv, TypeOK, Stopping, Goto, Open, serverVars
<1> QED
  BY <1>6, <1>9, <1>11, <1>12, <1>13 DEF Inv, StatesKept

\* A state that is kept is the newest: who has called before knew nothing of it.
LEMMA SucceedHolds ==
    ASSUME Inv, NEW r \in Requests, Succeed(r)
    PROVE  Inv'
<1>1. CASE UNCHANGED <<entries, historyVars>>
  BY <1>1, MoveHolds DEF Succeed, Move, Labels, Open, Inv, TypeOK
<1>2. CASE Remember(r)
  <2>1. /\ pc[r] = "wait" /\ Goto(r, "stream")
        /\ UNCHANGED <<session, carried, serverVars, before>>
        /\ life' = [life EXCEPT ![r] = TTL]
        /\ entries' = [entries EXCEPT ![session[r]] = [value |-> r, left |-> TTL]]
    BY <1>2 DEF Succeed, Move, Remember, Put
  <2>2. session[r] \in Sessions /\ r \in States /\ TTL \in 0 .. TTL
    BY StatesAssumption, TTLAssumption DEF Inv, TypeOK
  <2>3. TypeOK'
    BY <2>1, <2>2 DEF Inv, TypeOK, Goto, serverVars, Labels, Entries
  <2>4. Replied' = Replied \cup {r} /\ r \notin Replied
    BY <2>1 DEF Inv, TypeOK, Goto, Replied
  <2>5. Received' \subseteq Received \cup {r}
    BY <2>1 DEF Inv, TypeOK, Received
  <2>6. RepliesKnown'
    BY <2>1, <2>4, <2>5 DEF Inv, RepliesKnown
  <2>7. ASSUME NEW s \in Sessions PROVE IsNewest(s)'
    <3>1. CASE s = session[r]
      <4>1. entries'[s].value = r /\ entries'[s].left = TTL /\ life'[r] = TTL
        BY <2>1, <2>2, <3>1 DEF Inv, TypeOK
      <4>2. \A q \in Received' : r \notin before'[q]
        BY <2>1, <2>4 DEF Inv, RepliesKnown, Received
      <4> QED
        BY <2>1, <3>1, <4>1, <4>2 DEF IsNewest
    <3>2. CASE s # session[r]
      <4>1. entries'[s] = entries[s]
        BY <2>1, <2>2, <3>2 DEF Inv, TypeOK
      <4>2. SUFFICES ASSUME entries[s].left > 0
                     PROVE  /\ entries[s].value \in Requests
                            /\ session[entries[s].value] = s
                            /\ life'[entries[s].value] = entries[s].left
                            /\ \A q \in Received' : session[q] = s => entries[s].value \notin before[q]
        BY <2>1, <4>1 DEF IsNewest
      <4>3. /\ entries[s].value \in Requests
            /\ session[entries[s].value] = s
            /\ life[entries[s].value] = entries[s].left
            /\ \A q \in Received : session[q] = s => entries[s].value \notin before[q]
        BY <4>2 DEF Inv, StatesKept, IsNewest
      <4> QED
        BY <2>1, <2>5, <3>2, <4>3 DEF Inv, TypeOK
    <3> QED
      BY <3>1, <3>2
  <2>8. Lives'
    <3>1. SUFFICES ASSUME NEW q \in Received' PROVE life'[q] <= entries'[session[q]].left
      BY <2>1 DEF Lives
    <3>2. q \in Requests /\ session[q] \in Sessions /\ life'[q] \in 0 .. TTL
      BY <2>3 DEF Received, TypeOK, Inv
    <3>3. CASE session[q] = session[r]
      BY <2>1, <2>2, <3>2, <3>3, TTLAssumption DEF Inv, TypeOK
    <3>4. CASE session[q] # session[r]
      <4>1. q # r /\ q \in Received
        BY <2>5, <3>4
      <4>2. life'[q] = life[q] /\ entries'[session[q]] = entries[session[q]]
        BY <2>1, <2>2, <3>2, <3>4, <4>1 DEF Inv, TypeOK
      <4> QED
        BY <4>1, <4>2 DEF Inv, StatesKept, Lives
    <3> QED
      BY <3>3, <3>4
  <2>9. Stopping'
    BY <2>1 DEF Inv, TypeOK, Stopping, Goto, Open, serverVars
  <2> QED
    BY <2>3, <2>6, <2>7, <2>8, <2>9 DEF Inv, StatesKept
<1> QED
  BY <1>1, <1>2 DEF Succeed

-----------------------------------------------------------------------------
(* Steps of the server *)

\* A step of the goroutines of Serve that leaves the handlers and the store alone.
LEMMA ServerHolds ==
    ASSUME Inv, UNCHANGED <<entries, requestVars, grace, historyVars>>,
           Stopping', main' \in {"serve", "wait", "returned"},
           shutdown' \in {"waiting", "shutting", "complete"}
    PROVE  Inv'
<1>1. TypeOK'
  BY DEF Inv, TypeOK, requestVars, historyVars
<1>2. RepliesKnown'
  BY DEF Inv, RepliesKnown, Received, Replied, requestVars, historyVars
<1>3. StatesKept'
  BY DEF Inv, StatesKept, IsNewest, Lives, Received, requestVars, historyVars
<1> QED
  BY <1>1, <1>2, <1>3 DEF Inv

LEMMA SignalHolds == Inv /\ Signal => Inv'
<1> SUFFICES ASSUME Inv, Signal PROVE Inv'
  OBVIOUS
<1>1. Stopping'
  BY DEF Signal, Inv, Stopping, Open, requestVars
<1> QED
  BY <1>1, ServerHolds DEF Signal, Inv, TypeOK

LEMMA BeginShutdownHolds == Inv /\ BeginShutdown => Inv'
<1> SUFFICES ASSUME Inv, BeginShutdown PROVE Inv'
  OBVIOUS
<1>1. Stopping'
  BY DEF BeginShutdown, Inv, Stopping, Open, requestVars
<1> QED
  BY <1>1, ServerHolds DEF BeginShutdown, Inv, TypeOK

LEMMA EndShutdownHolds == Inv /\ EndShutdown => Inv'
<1> SUFFICES ASSUME Inv, EndShutdown PROVE Inv'
  OBVIOUS
<1>1. Stopping'
  BY DEF EndShutdown, Inv, Stopping, Open, requestVars
<1> QED
  BY <1>1, ServerHolds DEF EndShutdown, Inv, TypeOK

\* Serve returns without an error only if the shutdown has begun.
LEMMA ServeReturnsHolds == Inv /\ ServeReturns => Inv'
<1> SUFFICES ASSUME Inv, ServeReturns PROVE Inv'
  OBVIOUS
<1>1. Stopping'
  BY DEF ServeReturns, StopShutdown, Inv, Stopping, Open, requestVars
<1> QED
  BY <1>1, ServerHolds DEF ServeReturns, Inv, TypeOK

\* The handlers that still run are cut off once the shutdown is complete.
LEMMA ReturnHolds == Inv /\ Return => Inv'
<1> SUFFICES ASSUME Inv, Return PROVE Inv'
  OBVIOUS
<1>1. /\ shutdown = "complete" /\ main' = "returned"
      /\ pc' = [r \in Requests |-> IF r \in Open THEN "cut" ELSE pc[r]]
      /\ UNCHANGED <<entries, session, carried, shutdown, cancelled, signalled, grace, result, life, before>>
  BY DEF Return, Cut, historyVars
<1>2. TypeOK'
  BY <1>1 DEF Inv, TypeOK, Labels
<1>3. Replied \subseteq Replied' /\ Received' = Received
  BY <1>1 DEF Inv, TypeOK, Replied, Received, Labels
<1>4. RepliesKnown'
  BY <1>1, <1>3 DEF Inv, RepliesKnown
<1>5. StatesKept'
  BY <1>1, <1>3 DEF Inv, StatesKept, IsNewest, Lives
<1>6. Open' = {}
  BY <1>1 DEF Open
<1>7. (\E r \in Requests : pc'[r] = "cut") => grace = 0
  BY <1>1 DEF Inv, Stopping, Open
<1>8. Stopping'
  BY <1>1, <1>6, <1>7 DEF Inv, Stopping
<1> QED
  BY <1>2, <1>4, <1>5, <1>8 DEF Inv

\* States and entries grow old together.
LEMMA TickHolds == Inv /\ Tick => Inv'
<1> SUFFICES ASSUME Inv, Tick PROVE Inv'
  OBVIOUS
<1>1. /\ UNCHANGED <<pc, session, carried, main, shutdown, cancelled, signalled, result, before>>
      /\ entries' = [s \in Sessions |-> [entries[s] EXCEPT !.left = Older(@)]]
      /\ life' = [r \in Requests |-> Older(life[r])]
  BY DEF Tick, requestVars, Aged
<1>2. \A s \in Sessions :
          /\ entries[s] \in Entries
          /\ entries[s].left \in 0 .. TTL
          /\ entries'[s].value = entries[s].value
          /\ entries'[s].left = Older(entries[s].left)
          /\ entries'[s] \in Entries
  BY <1>1, OlderNat DEF Inv, TypeOK, Entries
<1>3. \A r \in Requests : life[r] \in 0 .. TTL /\ life'[r] = Older(life[r]) /\ life'[r] \in 0 .. TTL
  BY <1>1, OlderNat DEF Inv, TypeOK
<1>4. grace' \in 0 .. Grace /\ (grace = 0 => grace' = 0)
  <2>1. grace' = grace \/ grace' = Older(grace)
    BY DEF Tick
  <2>2. grace \in 0 .. Grace
    BY DEF Inv, TypeOK
  <2> QED
    BY <2>1, <2>2, GraceAssumption DEF Older
<1>5. TypeOK'
  <2>1. entries' \in [Sessions -> Entries]
    BY <1>1, <1>2
  <2>2. life' \in [Requests -> 0 .. TTL]
    BY <1>1, <1>3
  <2> QED
    BY <1>1, <1>4, <2>1, <2>2 DEF Inv, TypeOK
<1>6. Received' \subseteq Received /\ Replied' = Replied /\ Open' = Open
  BY <1>1, <1>3, OlderNat DEF Received, Replied, Open
<1>7. RepliesKnown'
  BY <1>1, <1>6 DEF Inv, RepliesKnown
<1>8. ASSUME NEW s \in Sessions PROVE IsNewest(s)'
  <2>1. entries'[s].left > 0 => entries[s].left > 0
    BY <1>2, OlderNat
  <2> QED
    BY <1>1, <1>2, <1>3, <1>6, <2>1 DEF Inv, StatesKept, IsNewest
<1>9. Lives'
  <2>1. SUFFICES ASSUME NEW q \in Received' PROVE life'[q] <= entries'[session[q]].left
    BY <1>1 DEF Lives
  <2>2. q \in Requests /\ q \in Received /\ session[q] \in Sessions /\ life[q] > 0
    BY <1>6 DEF Received, Inv, TypeOK
  <2>3. life[q] <= entries[session[q]].left
    BY <2>2 DEF Inv, StatesKept, Lives
  <2>4. life'[q] = life[q] - 1 /\ entries'[session[q]].left = entries[session[q]].left - 1
    BY <1>2, <1>3, <2>2, <2>3, OlderNat, TTLAssumption
  <2> QED
    BY <1>2, <1>3, <2>2, <2>3, <2>4, TTLAssumption
<1>10. Stopping'
  BY <1>1, <1>4, <1>6 DEF Inv, Stopping
<1> QED
  BY <1>5, <1>7, <1>8, <1>9, <1>10 DEF Inv, StatesKept

-----------------------------------------------------------------------------
(* The invariant is inductive *)

LEMMA InitHolds == Init => Inv
<1> SUFFICES ASSUME Init PROVE Inv
  OBVIOUS
<1>1. NoEntry \in Entries
  BY TTLAssumption DEF NoEntry, Entries
<1>2. TypeOK
  BY <1>1, TTLAssumption, GraceAssumption DEF Init, StoreInit, TypeOK, Labels
<1>3. Received = {}
  BY DEF Init, Received
<1>4. RepliesKnown /\ Stopping
  BY <1>3 DEF Init, RepliesKnown, Stopping
<1>5. StatesKept
  BY <1>3 DEF Init, StoreInit, NoEntry, StatesKept, IsNewest, Lives
<1> QED
  BY <1>2, <1>4, <1>5 DEF Inv

LEMMA NextHolds == Inv /\ [Next]_vars => Inv'
<1> SUFFICES ASSUME Inv, [Next]_vars PROVE Inv'
  OBVIOUS
<1>1. ASSUME NEW r \in Requests, Step(r) PROVE Inv'
  BY <1>1, ConnectHolds, AskHolds, SendHolds, SucceedHolds DEF Step
<1>2. CASE Signal \/ BeginShutdown \/ EndShutdown \/ ServeReturns \/ Return
  BY <1>2, SignalHolds, BeginShutdownHolds, EndShutdownHolds, ServeReturnsHolds, ReturnHolds
<1>3. CASE Tick
  BY <1>3, TickHolds
<1>4. CASE UNCHANGED vars
  <2>1. Stopping'
    BY <1>4 DEF Inv, Stopping, Open, vars, requestVars, serverVars
  <2> QED
    BY <1>4, <2>1, ServerHolds DEF Inv, TypeOK, vars, requestVars, serverVars, historyVars
<1> QED
  BY <1>1, <1>2, <1>3, <1>4 DEF Next

-----------------------------------------------------------------------------
(* Calls *)

\* Only Send begins a call.
LEMMA OnlySendCalls ==
    ASSUME Inv, [Next]_vars, NEW r \in Requests, Calls(r)
    PROVE  Send(r)
<1>1. pc[r] = "send" /\ pc'[r] = "wait"
  BY DEF Calls
<1>2. ASSUME NEW q \in Requests, Step(q) PROVE Send(r)
  <2>1. CASE Send(q)
    BY <1>1, <2>1 DEF Send, Goto, Inv, TypeOK
  <2>2. CASE ~Send(q)
    BY <1>1, <1>2, <2>2 DEF Step, Connect, CloseNew, Messages, Authorize, CannotSend, Succeed,
                            Unauthorized, Fail, Finish, Move, Leave, Goto, Inv, TypeOK
  <2> QED
    BY <2>1, <2>2
<1>3. CASE Signal \/ BeginShutdown \/ EndShutdown \/ ServeReturns \/ Tick \/ UNCHANGED vars
  BY <1>1, <1>3 DEF Signal, BeginShutdown, EndShutdown, ServeReturns, Tick, vars, requestVars
<1>4. CASE Return
  BY <1>1, <1>4 DEF Return, Cut, Open
<1> QED
  BY <1>2, <1>3, <1>4 DEF Next

\* What a call carries is what Get finds for its session.
LEMMA CarriesWhatGetFinds ==
    ASSUME Inv, [Next]_vars, NEW r \in Requests, Calls(r)
    PROVE  carried'[r] = Get(session[r]) /\ session[r] \in Sessions
BY OnlySendCalls DEF Send, Inv, TypeOK

LEMMA CarriesOwnState ==
    ASSUME Inv, [Next]_vars, NEW r \in Requests, Calls(r), carried'[r] # NoState
    PROVE  session[carried'[r]] = session[r] /\ carried'[r] \in Received
<1>1. entries[session[r]].left > 0 /\ carried'[r] = entries[session[r]].value /\ session[r] \in Sessions
  BY CarriesWhatGetFinds, GetNewest
<1>2. IsNewest(session[r])
  BY <1>1 DEF Inv, StatesKept
<1> QED
  BY <1>1, <1>2 DEF IsNewest, Received

LEMMA CarriesNewestState ==
    ASSUME Inv, [Next]_vars, NEW r \in Requests, Calls(r),
           NEW q \in Received, session[q] = session[r]
    PROVE  carried'[r] # NoState /\ carried'[r] \notin before[q]
<1>1. session[r] \in Sessions /\ carried'[r] = Get(session[r])
  BY CarriesWhatGetFinds
<1>2. entries[session[r]].left \in 0 .. TTL /\ life[q] \in 0 .. TTL /\ life[q] > 0
  BY <1>1 DEF Inv, TypeOK, Entries, Received
<1>3. life[q] <= entries[session[r]].left
  BY DEF Inv, StatesKept, Lives
<1>4. entries[session[r]].left > 0
  BY <1>2, <1>3, TTLAssumption
<1>5. carried'[r] = entries[session[r]].value /\ carried'[r] # NoState
  BY <1>1, <1>4, GetNewest
<1>6. IsNewest(session[r])
  BY <1>1 DEF Inv, StatesKept
<1> QED
  BY <1>4, <1>5, <1>6 DEF IsNewest

-----------------------------------------------------------------------------
(* Theorems *)

\* An entry that has not expired is the newest state received for its session, and a
\* shutdown is complete only when nobody is left or the time has passed.
THEOREM Invariant == Spec => []Inv
<1> QED
  BY InitHolds, NextHolds, PTL DEF Spec

\* No handler is cut off before its time, and Serve reports success only if it was
\* told to stop (README.md:25-27).
THEOREM StopsGracefully == Spec => []GracefulStop
<1>1. Inv => GracefulStop
  BY DEF Inv, Stopping, GracefulStop
<1> QED
  BY <1>1, Invariant, PTL

\* A turn state is only replayed within its session and its lifetime (README.md:62-64).
THEOREM StatesAreKept == Spec => StatesStayInSession
<1>1. Inv /\ [Next]_vars =>
          [\A r \in Requests :
              Calls(r) /\ carried'[r] # NoState =>
                  /\ session[carried'[r]] = session[r]
                  /\ carried'[r] \in Received]_vars
  BY CarriesOwnState
<1> QED
  BY <1>1, Invariant, PTL DEF Spec, StatesStayInSession

\* A conversation continues from the newest of its states, whatever other requests do
\* between a reply and the next call (client.go:91-117).
THEOREM NewestIsCarried == Spec => ContinuesFromNewest
<1>1. Inv /\ [Next]_vars =>
          [\A r \in Requests :
              Calls(r) =>
                  \A q \in Received :
                      session[q] = session[r] =>
                          carried'[r] # NoState /\ carried'[r] \notin before[q]]_vars
  BY CarriesNewestState
<1> QED
  BY <1>1, Invariant, PTL DEF Spec, ContinuesFromNewest

-----------------------------------------------------------------------------
(* LoginCallback: the inductive invariant *)

\* What the handlers, the channel and the login can be in.
LoginTypeOK ==
    /\ at \in [Browsers -> {"none", "do", "send", "done"}]
    /\ asked \in [Browsers -> CallbackRequests \cup {NoCallback}]
    /\ answer \in [Browsers -> {"none", "not allowed", "complete", "failed", "gone"}]
    /\ once \in {"new", "running", "done"}
    /\ handler \in Browsers \cup {NoBrowser}

\* The handler whose request has consumed the attempt is the only one that may send
\* a result or tell how the attempt went, and it tells what became of it.
Attempted ==
    /\ once = "new" <=> handler = NoBrowser
    /\ \A b \in Browsers :
          /\ at[b] = "do" => asked[b].get
          /\ at[b] = "send" => b = handler
          /\ answer[b] \in {"complete", "failed"} => b = handler
    /\ handler \in Browsers =>
          /\ at[handler] \in {"send", "done"}
          /\ asked[handler].get
          /\ answer[handler] = IF Valid(asked[handler]) THEN "complete" ELSE "failed"

\* A code that was sent, or returned, is the handler's.
CodeOfHandler(outcome) ==
    outcome = Error \/ (handler \in Browsers /\ Valid(asked[handler]) /\ outcome = Code(handler))

Sent ==
    /\ \A outcome \in results : CodeOfHandler(outcome)
    /\ CodeOfHandler(returned)

LoginInv == LoginTypeOK /\ Attempted /\ Sent

-----------------------------------------------------------------------------
(* The properties follow *)

\* At most one browser is told how the attempt went.
LEMMA OneTried ==
    ASSUME LoginInv
    PROVE  Cardinality({b \in Browsers : answer[b] \in {"complete", "failed"}}) <= 1
<1> DEFINE tried == {b \in Browsers : answer[b] \in {"complete", "failed"}}
<1>1. tried \in SUBSET {handler}
  BY DEF LoginInv, Attempted
<1>2. IsFiniteSet({handler}) /\ Cardinality({handler}) = 1
  BY FS_Singleton
<1>3. Cardinality(tried) <= Cardinality({handler})
  BY <1>1, <1>2, FS_Subset
<1> QED
  BY <1>2, <1>3

LEMMA OneAttemptHolds == LoginInv => OneAttempt
<1> SUFFICES ASSUME LoginInv PROVE OneAttempt
  OBVIOUS
<1> DEFINE tried == {b \in Browsers : answer[b] \in {"complete", "failed"}}
<1>1. Cardinality(tried) <= 1
  BY OneTried
<1>2. ASSUME NEW b \in tried
      PROVE  asked[b].get /\ (answer[b] = "complete" => asked[b].state)
  <2>1. b = handler /\ handler \in Browsers
    BY DEF LoginInv, Attempted
  <2>2. asked[handler].get /\ answer[handler] = IF Valid(asked[handler]) THEN "complete" ELSE "failed"
    BY <2>1 DEF LoginInv, Attempted
  <2> QED
    BY <2>1, <2>2 DEF Valid
<1>3. ASSUME returned # Error
      PROVE  answer[returned.browser] = "complete"
  <2>1. handler \in Browsers /\ Valid(asked[handler]) /\ returned = Code(handler)
    BY <1>3 DEF LoginInv, Sent, CodeOfHandler
  <2> QED
    BY <2>1 DEF LoginInv, Attempted, Code
<1> QED
  BY <1>1, <1>2, <1>3 DEF OneAttempt

-----------------------------------------------------------------------------
(* The invariant is inductive *)

LEMMA LoginInitHolds == LoginInit => LoginInv
BY NoBrowserAssumption DEF LoginInit, LoginInv, LoginTypeOK, Attempted, Sent, CodeOfHandler, Error

\* Nobody has consumed the attempt whose handler is nobody.
LEMMA HandlerKnown ==
    ASSUME LoginInv, once # "new"
    PROVE  handler \in Browsers
BY DEF LoginInv, LoginTypeOK, Attempted

LEMMA ArriveHolds ==
    ASSUME LoginInv, NEW b \in Browsers, Arrive(b)
    PROVE  LoginInv'
<1>1. PICK request \in CallbackRequests :
          /\ asked' = [asked EXCEPT ![b] = request]
          /\ IF request.get THEN MoveTo(b, "do") /\ UNCHANGED answer
             ELSE MoveTo(b, "done") /\ Answer(b, "not allowed")
  BY DEF Arrive
<1>2. b # handler
  BY DEF Arrive, LoginInv, Attempted
<1>3. LoginTypeOK'
  BY <1>1 DEF Arrive, LoginInv, LoginTypeOK, MoveTo, Answer
<1>4. Attempted'
  <2>1. UNCHANGED <<once, handler>>
    BY DEF Arrive
  <2>2. \A other \in Browsers : other # b =>
            at'[other] = at[other] /\ asked'[other] = asked[other] /\ answer'[other] = answer[other]
    BY <1>1 DEF LoginInv, LoginTypeOK, MoveTo, Answer
  <2>3. /\ at'[b] \in {"do", "done"} /\ asked'[b] = request
        /\ at'[b] = "do" => request.get
        /\ answer'[b] \notin {"complete", "failed"}
    <3>1. asked'[b] = request
      BY <1>1 DEF LoginInv, LoginTypeOK
    <3>2. CASE request.get
      BY <1>1, <1>2, <3>1, <3>2 DEF LoginInv, LoginTypeOK, Attempted, MoveTo
    <3>3. CASE ~request.get
      BY <1>1, <3>1, <3>3 DEF LoginInv, LoginTypeOK, MoveTo, Answer
    <3> QED
      BY <3>2, <3>3
  <2>4. ASSUME NEW other \in Browsers
        PROVE  /\ at'[other] = "do" => asked'[other].get
               /\ at'[other] = "send" => other = handler
               /\ answer'[other] \in {"complete", "failed"} => other = handler
    BY <2>2, <2>3 DEF LoginInv, Attempted
  <2>5. ASSUME handler \in Browsers
        PROVE  /\ at'[handler] \in {"send", "done"}
               /\ asked'[handler].get
               /\ answer'[handler] = IF Valid(asked'[handler]) THEN "complete" ELSE "failed"
    BY <1>2, <2>2, <2>5 DEF LoginInv, Attempted
  <2> QED
    BY <2>1, <2>4, <2>5 DEF LoginInv, Attempted, Valid
<1>5. Sent'
  BY <1>1, <1>2 DEF Arrive, LoginInv, LoginTypeOK, Sent, CodeOfHandler, waitVars, Valid, Code, Error
<1> QED
  BY <1>3, <1>4, <1>5 DEF LoginInv

LEMMA ConsumeHolds ==
    ASSUME LoginInv, NEW b \in Browsers, Consume(b)
    PROVE  LoginInv'
<1>1. handler = NoBrowser /\ handler' = b
  BY DEF Consume, LoginInv, Attempted
<1>2. LoginTypeOK'
  BY DEF Consume, LoginInv, LoginTypeOK, MoveTo, Answer
<1>3. Attempted'
  BY <1>1, NoBrowserAssumption DEF Consume, LoginInv, LoginTypeOK, Attempted, MoveTo, Answer, Valid
<1>4. Sent'
  BY <1>1, NoBrowserAssumption DEF Consume, LoginInv, Sent, CodeOfHandler, waitVars, Error
<1> QED
  BY <1>2, <1>3, <1>4 DEF LoginInv

LEMMA SendResultHolds ==
    ASSUME LoginInv, NEW b \in Browsers, SendResult(b)
    PROVE  LoginInv'
<1>1. b = handler
  BY DEF SendResult, LoginInv, Attempted
<1>2. once # "new"
  BY <1>1, NoBrowserAssumption DEF LoginInv, Attempted
<1>3. LoginTypeOK'
  BY DEF SendResult, LoginInv, LoginTypeOK, MoveTo
<1>4. Attempted'
  BY <1>1, <1>2 DEF SendResult, LoginInv, LoginTypeOK, Attempted, MoveTo, Valid
<1>5. Sent'
  BY <1>1 DEF SendResult, LoginInv, Sent, CodeOfHandler, waitVars, Valid, Code, Error
<1> QED
  BY <1>3, <1>4, <1>5 DEF LoginInv

LEMMA GoneHolds ==
    ASSUME LoginInv, NEW b \in Browsers, Gone(b)
    PROVE  LoginInv'
<1>1. b # handler
  BY DEF Gone, LoginInv, Attempted
<1>2. LoginTypeOK'
  BY DEF Gone, LoginInv, LoginTypeOK, MoveTo, Answer
<1>3. Attempted'
  BY <1>1 DEF Gone, LoginInv, LoginTypeOK, Attempted, MoveTo, Answer, Valid
<1>4. Sent'
  BY DEF Gone, LoginInv, Sent, CodeOfHandler, waitVars, Valid, Code, Error
<1> QED
  BY <1>2, <1>3, <1>4 DEF LoginInv

\* What WaitForCallback does leaves the handlers alone, and what it returns came
\* through the channel.
LEMMA MainHolds ==
    ASSUME LoginInv, UNCHANGED handlerVars,
           results' \subseteq results,
           returned' \in results \cup {returned, Error}
    PROVE  LoginInv'
<1>1. LoginTypeOK'
  BY DEF LoginInv, LoginTypeOK, handlerVars
<1>2. Attempted'
  BY DEF LoginInv, Attempted, handlerVars, Valid
<1>3. Sent'
  BY DEF LoginInv, Sent, CodeOfHandler, handlerVars, Valid, Code, Error
<1> QED
  BY <1>1, <1>2, <1>3 DEF LoginInv

LEMMA LoginNextHolds == LoginInv /\ [LoginNext]_loginVars => LoginInv'
<1> SUFFICES ASSUME LoginInv, [LoginNext]_loginVars PROVE LoginInv'
  OBVIOUS
<1>1. ASSUME NEW b \in Browsers, Arrive(b) PROVE LoginInv'
  BY <1>1, ArriveHolds
<1>2. ASSUME NEW b \in Browsers, Handle(b) PROVE LoginInv'
  BY <1>2, ConsumeHolds, SendResultHolds, GoneHolds DEF Handle
<1>3. CASE Expire
  BY <1>3, MainHolds DEF Expire
<1>4. CASE ServeFails
  BY <1>4, MainHolds DEF ServeFails
<1>5. CASE SeeResult
  BY <1>5, MainHolds DEF SeeResult
<1>6. CASE SeeEnd
  BY <1>6, MainHolds DEF SeeEnd
<1>7. CASE ShutdownTimesOut
  BY <1>7, MainHolds DEF ShutdownTimesOut
<1>8. CASE ReturnResult
  BY <1>8, MainHolds DEF ReturnResult
<1>9. CASE UNCHANGED loginVars
  BY <1>9, MainHolds DEF loginVars, handlerVars
<1> QED
  BY <1>1, <1>2, <1>3, <1>4, <1>5, <1>6, <1>7, <1>8, <1>9 DEF LoginNext

-----------------------------------------------------------------------------
(* Theorems *)

\* The handler that consumed the attempt is the only one whose result, and whose
\* answer about it, ever reach anybody.
THEOREM LoginInvariant == LoginSpec => []LoginInv
<1> QED
  BY LoginInitHolds, LoginNextHolds, PTL DEF LoginSpec

\* The first request that gets as far as the state decides about the login, whoever
\* else reaches the port (callback.go:23-25).
THEOREM OneAttemptCounts == LoginSpec => []OneAttempt
<1> QED
  BY LoginInvariant, OneAttemptHolds, PTL

================================================================================
