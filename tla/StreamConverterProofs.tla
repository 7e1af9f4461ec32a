------------------------- MODULE StreamConverterProofs -------------------------
(***************************************************************************)
(* Whatever the upstream sends, in whatever order, and however long:       *)
(* the converter's state is well typed, its cursor and its flags agree     *)
(* with what the client has seen, and what the client sees implements      *)
(* AnthropicStream.                                                        *)
(*                                                                         *)
(* The first part is a small calculus of streams: a stream is "at a gap"   *)
(* (no block open) or "in a block", and each group of events the converter *)
(* emits moves it from one to the other.  The second part walks through    *)
(* the actions once, with the inductive invariant Inv.                     *)
(***************************************************************************)
EXTENDS StreamConverter, SequenceLemmas

Events == ClientEvents(Strings)

EndTypes == {"message_delta", "message_stop"}

\* A stream in strict order that has not ended.
Ordered(s) ==
    /\ s \in Seq(Events)
    /\ StrictOrder(s)
    /\ \A i \in 1 .. Len(s) : s[i].type \notin EndTypes

\* No block is open and the next one is numbered index.
AtGap(s, index) == Ordered(s) /\ s # <<>> /\ Between(s[Len(s)], index)

\* Block index is open and can take deltas of its kind.
InBlock(s, index, kind) == Ordered(s) /\ s # <<>> /\ Inside(s[Len(s)], index, kind)

\* t is s with more events after it, tool and block say whether there is a
\* tool_use start, or any block start, among them.
Grown(s, t, tool, block) ==
    /\ Len(s) <= Len(t)
    /\ \A i \in 1 .. Len(s) : t[i] = s[i]
    /\ HasTool(t) <=> HasTool(s) \/ tool
    /\ HasBlock(t) <=> HasBlock(s) \/ block

-----------------------------------------------------------------------------
(* Types of the events *)

LEMMA EventTypes ==
    /\ MessageStart \in Events
    /\ MessageStop \in Events
    /\ \A index \in Nat, kind \in BlockKinds : BlockStart(index, kind) \in Events
    /\ \A index \in Nat : BlockStop(index) \in Events
    /\ \A index \in Nat, delta \in DOMAIN DeltaKind, data \in Strings :
          BlockDelta(index, delta, data) \in Events
    /\ \A reason \in {"end_turn", "max_tokens", "tool_use"} : MessageDelta(reason) \in Events
BY DEF Events, ClientEvents, MessageStart, MessageStop, BlockStart, BlockStop, BlockDelta,
       MessageDelta

LEMMA SignatureStrings ==
    ASSUME NEW signature \in Signatures
    PROVE  <<signature>> \in Strings
<1>1. signature \in Fragments
  BY DEF Fragments
<1> QED
  BY <1>1 DEF Strings

LEMMA SignatureEventTypes ==
    ASSUME NEW index \in Nat, NEW kind, NEW signature \in Signatures \cup {NoSignature}
    PROVE  SignatureEvents(index, kind, signature) \in Seq(Events)
<1>1. ASSUME signature # NoSignature
      PROVE  BlockDelta(index, "signature_delta", <<signature>>) \in Events
  <2>1. <<signature>> \in Strings /\ "signature_delta" \in DOMAIN DeltaKind
    BY <1>1, SignatureStrings DEF DeltaKind
  <2> QED
    BY <2>1, EventTypes
<1> QED
  BY <1>1 DEF SignatureEvents

LEMMA DeltaKinds ==
    /\ DOMAIN DeltaKind = {"text_delta", "thinking_delta", "signature_delta", "input_json_delta"}
    /\ DeltaKind["text_delta"] = "text"
    /\ DeltaKind["thinking_delta"] = "thinking"
    /\ DeltaKind["signature_delta"] = "thinking"
    /\ DeltaKind["input_json_delta"] = "tool_use"
BY DEF DeltaKind

-----------------------------------------------------------------------------
(* Appending one event *)

\* One more event that may follow keeps the order; the tools and blocks of the
\* longer stream are those of the shorter one and the event's own.
LEMMA AppendEvent ==
    ASSUME NEW s \in Seq(Events), NEW e \in Events, StrictOrder(s),
           s = <<>> => e = MessageStart,
           s # <<>> => Follows(s[Len(s)], e)
    PROVE  LET t == s \o <<e>>
           IN  /\ t \in Seq(Events)
               /\ t # <<>>
               /\ Len(t) = Len(s) + 1
               /\ t[Len(t)] = e
               /\ StrictOrder(t)
               /\ Grown(s, t, e.type = "content_block_start" /\ e.kind = "tool_use",
                              e.type = "content_block_start")
<1> DEFINE t == s \o <<e>>
<1>1. /\ t \in Seq(Events)
      /\ t # <<>>
      /\ Len(t) = Len(s) + 1
      /\ t[Len(s) + 1] = e
      /\ \A i \in 1 .. Len(s) : t[i] = s[i]
      /\ Len(s) \in Nat
  OBVIOUS
<1> HIDE DEF t
<1>2. StrictOrder(t)
  <2>1. t[1] = MessageStart
    BY <1>1 DEF StrictOrder
  <2>2. ASSUME NEW i \in 1 .. Len(t) - 1
        PROVE  Follows(t[i], t[i + 1])
    <3>1. CASE i \in 1 .. Len(s) - 1
      <4>1. t[i] = s[i] /\ t[i + 1] = s[i + 1]
        BY <1>1, <3>1
      <4> QED
        BY <3>1, <4>1 DEF StrictOrder
    <3>2. CASE i = Len(s)
      <4>1. s # <<>> /\ t[i] = s[Len(s)] /\ t[i + 1] = e
        BY <1>1, <3>2
      <4> QED
        BY <4>1
    <3> QED
      BY <1>1, <3>1, <3>2
  <2> QED
    BY <2>1, <2>2 DEF StrictOrder
<1>3. Grown(s, t, e.type = "content_block_start" /\ e.kind = "tool_use",
                  e.type = "content_block_start")
  <2>1. \A i \in 1 .. Len(t) : i \in 1 .. Len(s) \/ (i = Len(s) + 1 /\ t[i] = e)
    BY <1>1
  <2>2. Len(s) + 1 \in 1 .. Len(t) /\ \A i \in 1 .. Len(s) : i \in 1 .. Len(t)
    BY <1>1
  <2>3. HasTool(t) <=> HasTool(s) \/ (e.type = "content_block_start" /\ e.kind = "tool_use")
    BY <1>1, <2>1, <2>2 DEF HasTool
  <2>4. HasBlock(t) <=> HasBlock(s) \/ e.type = "content_block_start"
    BY <1>1, <2>1, <2>2 DEF HasBlock
  <2> QED
    BY <1>1, <2>3, <2>4 DEF Grown
<1> QED
  BY <1>1, <1>2, <1>3 DEF t

\* The same for a stream that has not ended and an event that does not end it.
LEMMA AppendContent ==
    ASSUME NEW s, NEW e \in Events, Ordered(s), e.type \notin EndTypes,
           s = <<>> => e = MessageStart,
           s # <<>> => Follows(s[Len(s)], e)
    PROVE  LET t == s \o <<e>>
           IN  /\ Ordered(t)
               /\ t # <<>>
               /\ t[Len(t)] = e
               /\ Grown(s, t, e.type = "content_block_start" /\ e.kind = "tool_use",
                              e.type = "content_block_start")
<1> DEFINE t == s \o <<e>>
<1>1. s \in Seq(Events) /\ StrictOrder(s)
  BY DEF Ordered
<1>2. /\ t \in Seq(Events)
      /\ t # <<>>
      /\ Len(t) = Len(s) + 1
      /\ t[Len(t)] = e
      /\ StrictOrder(t)
      /\ Grown(s, t, e.type = "content_block_start" /\ e.kind = "tool_use",
                     e.type = "content_block_start")
  BY <1>1, AppendEvent
<1> HIDE DEF t
<1>3. \A i \in 1 .. Len(t) : t[i].type \notin EndTypes
  <2> TAKE i \in 1 .. Len(t)
  <2>1. CASE i = Len(t)
    BY <1>2, <2>1
  <2>2. CASE i # Len(t)
    <3>1. i \in 1 .. Len(s)
      BY <1>1, <1>2, <2>2
    <3> QED
      BY <1>2, <3>1 DEF Ordered, Grown
  <2> QED
    BY <2>1, <2>2
<1> QED
  BY <1>2, <1>3 DEF Ordered, t

\* Growing twice.
LEMMA GrownTwice ==
    ASSUME NEW s \in Seq(Events), NEW t \in Seq(Events), NEW u \in Seq(Events),
           NEW a \in BOOLEAN, NEW b \in BOOLEAN, NEW c \in BOOLEAN, NEW d \in BOOLEAN,
           Grown(s, t, a, b), Grown(t, u, c, d)
    PROVE  Grown(s, u, a \/ c, b \/ d)
<1>1. Len(s) \in Nat /\ Len(t) \in Nat /\ Len(u) \in Nat
  OBVIOUS
<1>2. Len(s) <= Len(u) /\ \A i \in 1 .. Len(s) : u[i] = s[i]
  BY <1>1 DEF Grown
<1> QED
  BY <1>2 DEF Grown

-----------------------------------------------------------------------------
(* The groups of events the converter emits *)

\* ensureMessageStart on a stream that has not started.
LEMMA StartStream ==
    LET t == <<>> \o <<MessageStart>>
    IN  AtGap(t, 0) /\ Grown(<<>>, t, FALSE, FALSE)
<1>1. Ordered(<<>>)
  BY DEF Ordered, StrictOrder
<1>2. /\ MessageStart \in Events
      /\ MessageStart.type = "message_start"
  BY EventTypes DEF MessageStart
<1>3. MessageStart.type \notin EndTypes
  BY <1>2 DEF EndTypes
<1> DEFINE t == <<>> \o <<MessageStart>>
<1>4. /\ Ordered(t)
      /\ t # <<>>
      /\ t[Len(t)] = MessageStart
      /\ Grown(<<>>, t, MessageStart.type = "content_block_start" /\ MessageStart.kind = "tool_use",
                        MessageStart.type = "content_block_start")
  BY <1>1, <1>2, <1>3, AppendContent
<1> HIDE DEF t
<1>5. AtGap(t, 0)
  BY <1>4 DEF AtGap, Between
<1>6. Grown(<<>>, t, FALSE, FALSE)
  BY <1>2, <1>4 DEF Grown
<1> QED
  BY <1>5, <1>6 DEF t

\* content_block_start
LEMMA StartBlock ==
    ASSUME NEW s, NEW index \in Nat, NEW kind \in BlockKinds, AtGap(s, index)
    PROVE  LET t == s \o <<BlockStart(index, kind)>>
           IN  /\ InBlock(t, index, kind)
               /\ t[Len(t)].type = "content_block_start"
               /\ Grown(s, t, kind = "tool_use", TRUE)
<1> DEFINE e == BlockStart(index, kind)
           t == s \o <<e>>
<1>1. /\ e \in Events
      /\ e.type = "content_block_start" /\ e.kind = kind /\ e.index = index
  BY EventTypes DEF BlockStart
<1>2. e.type \notin EndTypes
  BY <1>1 DEF EndTypes
<1>3. Ordered(s) /\ s # <<>> /\ Between(s[Len(s)], index)
  BY DEF AtGap
<1>4. Follows(s[Len(s)], e)
  BY <1>1, <1>3 DEF Follows
<1> HIDE DEF e
<1>5. /\ Ordered(t)
      /\ t # <<>>
      /\ t[Len(t)] = e
      /\ Grown(s, t, e.type = "content_block_start" /\ e.kind = "tool_use",
                     e.type = "content_block_start")
  BY <1>1, <1>2, <1>3, <1>4, AppendContent
<1> HIDE DEF t
<1>6. InBlock(t, index, kind)
  BY <1>5 DEF InBlock, Inside, e
<1>7. Grown(s, t, kind = "tool_use", TRUE)
  BY <1>1, <1>5 DEF Grown
<1> QED
  BY <1>1, <1>5, <1>6, <1>7 DEF t, e

\* content_block_delta
LEMMA DeltaInBlock ==
    ASSUME NEW s, NEW index \in Nat, NEW kind \in BlockKinds, InBlock(s, index, kind),
           NEW delta \in DOMAIN DeltaKind, DeltaKind[delta] = kind, NEW data \in Strings
    PROVE  LET t == s \o <<BlockDelta(index, delta, data)>>
           IN  /\ Ordered(t) /\ t # <<>>
               /\ t[Len(t)] = BlockDelta(index, delta, data)
               /\ t[Len(t)].type = "content_block_delta"
               /\ delta # "signature_delta" => InBlock(t, index, kind)
               /\ Grown(s, t, FALSE, FALSE)
<1> DEFINE e == BlockDelta(index, delta, data)
           t == s \o <<e>>
<1>1. /\ e \in Events
      /\ e.type = "content_block_delta" /\ e.index = index /\ e.delta = delta
  BY EventTypes DEF BlockDelta
<1>2. e.type \notin EndTypes
  BY <1>1 DEF EndTypes
<1>3. Ordered(s) /\ s # <<>> /\ Inside(s[Len(s)], index, kind)
  BY DEF InBlock
<1>4. Follows(s[Len(s)], e)
  BY <1>1, <1>3 DEF Follows
<1> HIDE DEF e
<1>5. /\ Ordered(t)
      /\ t # <<>>
      /\ t[Len(t)] = e
      /\ Grown(s, t, e.type = "content_block_start" /\ e.kind = "tool_use",
                     e.type = "content_block_start")
  BY <1>1, <1>2, <1>3, <1>4, AppendContent
<1> HIDE DEF t
<1>6. delta # "signature_delta" => InBlock(t, index, kind)
  BY <1>1, <1>5 DEF InBlock, Inside
<1>7. Grown(s, t, FALSE, FALSE)
  BY <1>1, <1>5 DEF Grown
<1> QED
  BY <1>1, <1>5, <1>6, <1>7 DEF t, e

\* content_block_stop, after a delta or not
LEMMA StopBlock ==
    ASSUME NEW s, NEW index \in Nat, Ordered(s), s # <<>>, Stoppable(s[Len(s)], index)
    PROVE  LET t == s \o <<BlockStop(index)>>
           IN  AtGap(t, index + 1) /\ Grown(s, t, FALSE, FALSE)
<1> DEFINE e == BlockStop(index)
           t == s \o <<e>>
<1>1. /\ e \in Events
      /\ e.type = "content_block_stop" /\ e.index = index
  BY EventTypes DEF BlockStop
<1>2. e.type \notin EndTypes
  BY <1>1 DEF EndTypes
<1>4. Follows(s[Len(s)], e)
  BY <1>1 DEF Follows
<1> HIDE DEF e
<1>5. /\ Ordered(t)
      /\ t # <<>>
      /\ t[Len(t)] = e
      /\ Grown(s, t, e.type = "content_block_start" /\ e.kind = "tool_use",
                     e.type = "content_block_start")
  BY <1>1, <1>2, <1>4, AppendContent
<1> HIDE DEF t
<1>6. AtGap(t, index + 1)
  <2>1. e = BlockStop((index + 1) - 1) /\ index + 1 > 0
    BY DEF e
  <2> QED
    BY <1>5, <2>1 DEF AtGap, Between
<1>7. Grown(s, t, FALSE, FALSE)
  BY <1>1, <1>5 DEF Grown
<1> QED
  BY <1>6, <1>7 DEF t, e

\* The optional signature_delta and the content_block_stop of a block.
LEMMA SignAndStop ==
    ASSUME NEW s, NEW index \in Nat, NEW kind \in BlockKinds,
           NEW signature \in Signatures \cup {NoSignature}, InBlock(s, index, kind)
    PROVE  LET t == (s \o SignatureEvents(index, kind, signature)) \o <<BlockStop(index)>>
           IN  /\ s \o SignatureEvents(index, kind, signature) \in Seq(Events)
               /\ AtGap(t, index + 1)
               /\ Grown(s, t, FALSE, FALSE)
<1> DEFINE u == s \o SignatureEvents(index, kind, signature)
           t == u \o <<BlockStop(index)>>
<1>1. s \in Seq(Events) /\ Ordered(s) /\ s # <<>> /\ Inside(s[Len(s)], index, kind)
  BY DEF InBlock, Ordered
<1>2. /\ Ordered(u)
      /\ u # <<>>
      /\ Stoppable(u[Len(u)], index)
      /\ Grown(s, u, FALSE, FALSE)
  <2>1. CASE kind = "thinking" /\ signature # NoSignature
    <3> DEFINE e == BlockDelta(index, "signature_delta", <<signature>>)
    <3>1. u = s \o <<e>>
      BY <2>1 DEF SignatureEvents
    <3>2. <<signature>> \in Strings
      BY <2>1, SignatureStrings
    <3>3. "signature_delta" \in DOMAIN DeltaKind /\ DeltaKind["signature_delta"] = kind
      BY <2>1, DeltaKinds
    <3> DEFINE v == s \o <<e>>
    <3>4. Ordered(v) /\ v # <<>> /\ v[Len(v)] = e /\ Grown(s, v, FALSE, FALSE)
      BY <3>2, <3>3, DeltaInBlock
    <3>5. Stoppable(e, index)
      BY DEF BlockDelta, Stoppable
    <3> QED
      BY <3>1, <3>4, <3>5
  <2>2. CASE ~(kind = "thinking" /\ signature # NoSignature)
    <3>1. u = s
      BY <1>1, <2>2, ConcatEmptySeq DEF SignatureEvents
    <3>2. Stoppable(s[Len(s)], index)
      BY <1>1 DEF Inside, BlockStart, Stoppable
    <3>3. Grown(s, s, FALSE, FALSE)
      BY <1>1 DEF Grown
    <3> QED
      BY <1>1, <3>1, <3>2, <3>3
  <2> QED
    BY <2>1, <2>2
<1> HIDE DEF u
<1>3. AtGap(t, index + 1) /\ Grown(u, t, FALSE, FALSE)
  BY <1>2, StopBlock
<1>4. u \in Seq(Events) /\ t \in Seq(Events)
  BY <1>2, <1>3 DEF Ordered, AtGap
<1> HIDE DEF t
<1>5. Grown(s, t, FALSE, FALSE)
  BY <1>1, <1>2, <1>3, <1>4, GrownTwice
<1> QED
  BY <1>3, <1>4, <1>5 DEF t, u

\* closeActive
LEMMA CloseBlock ==
    ASSUME NEW s, NEW block, block.index \in Nat, block.kind \in BlockKinds,
           block.signature \in Signatures \cup {NoSignature},
           InBlock(s, block.index, block.kind)
    PROVE  LET t == s \o Closing(block)
           IN  AtGap(t, block.index + 1) /\ Grown(s, t, FALSE, FALSE)
<1> DEFINE signed == SignatureEvents(block.index, block.kind, block.signature)
<1>1. /\ AtGap((s \o signed) \o <<BlockStop(block.index)>>, block.index + 1)
      /\ Grown(s, (s \o signed) \o <<BlockStop(block.index)>>, FALSE, FALSE)
  BY SignAndStop
<1>2. signed \in Seq(Events)
  BY SignatureEventTypes
<1>3. <<BlockStop(block.index)>> \in Seq(Events)
  BY EventTypes
<1>4. s \in Seq(Events)
  BY DEF InBlock, Ordered
<1> HIDE DEF signed
<1>5. (s \o signed) \o <<BlockStop(block.index)>> = s \o (signed \o <<BlockStop(block.index)>>)
  BY <1>2, <1>3, <1>4, ConcatAssociative
<1> QED
  BY <1>1, <1>5 DEF Closing, signed

ContentBlocks ==
    [kind : BlockKinds, data : Strings, signature : Signatures \cup {NoSignature}]

LEMMA DataDeltas ==
    ASSUME NEW kind \in BlockKinds
    PROVE  /\ DataDelta(kind) \in DOMAIN DeltaKind \ {"signature_delta"}
           /\ DeltaKind[DataDelta(kind)] = kind
BY DeltaKinds DEF DataDelta, BlockKinds

LEMMA FullBlockTypes ==
    ASSUME NEW index \in Nat, NEW block \in ContentBlocks
    PROVE  FullBlockEvents(index, block) \in Seq(Events)
<1>1. /\ block.kind \in BlockKinds /\ block.data \in Strings
      /\ block.signature \in Signatures \cup {NoSignature}
  BY DEF ContentBlocks
<1>2. <<BlockStart(index, block.kind)>> \in Seq(Events) /\ <<BlockStop(index)>> \in Seq(Events)
  BY <1>1, EventTypes
<1>3. BlockDelta(index, DataDelta(block.kind), block.data) \in Events
  BY <1>1, DataDeltas, EventTypes
<1>4. SignatureEvents(index, block.kind, block.signature) \in Seq(Events)
  BY <1>1, SignatureEventTypes
<1> QED
  BY <1>2, <1>3, <1>4 DEF FullBlockEvents

\* One block of streamFullOutput.
LEMMA FullBlock ==
    ASSUME NEW s, NEW index \in Nat, NEW block \in ContentBlocks, AtGap(s, index)
    PROVE  LET t == s \o FullBlockEvents(index, block)
           IN  /\ FullBlockEvents(index, block) \in Seq(Events)
               /\ AtGap(t, index + 1)
               /\ Grown(s, t, block.kind = "tool_use", TRUE)
<1> DEFINE start == <<BlockStart(index, block.kind)>>
           delta == IF block.data # <<>>
                    THEN <<BlockDelta(index, DataDelta(block.kind), block.data)>> ELSE <<>>
           signed == SignatureEvents(index, block.kind, block.signature)
           stop == <<BlockStop(index)>>
           t1 == s \o start
           t2 == t1 \o delta
           t3 == (t2 \o signed) \o stop
<1>1. /\ block.kind \in BlockKinds /\ block.data \in Strings
      /\ block.signature \in Signatures \cup {NoSignature}
  BY DEF ContentBlocks
<1>2. /\ DataDelta(block.kind) \in DOMAIN DeltaKind \ {"signature_delta"}
      /\ DeltaKind[DataDelta(block.kind)] = block.kind
  BY <1>1, DeltaKinds DEF DataDelta, BlockKinds
<1>3. s \in Seq(Events)
  BY DEF AtGap, Ordered
<1>4. InBlock(t1, index, block.kind) /\ Grown(s, t1, block.kind = "tool_use", TRUE)
  BY <1>1, StartBlock
<1>5. t1 \in Seq(Events)
  BY <1>4 DEF InBlock, Ordered
<1>6. InBlock(t2, index, block.kind) /\ Grown(t1, t2, FALSE, FALSE)
  <2> HIDE DEF t1
  <2>1. CASE block.data # <<>>
    BY <1>1, <1>2, <1>4, <2>1, DeltaInBlock
  <2>2. CASE block.data = <<>>
    <3>1. t2 = t1
      BY <1>5, <2>2, ConcatEmptySeq
    <3>2. Grown(t1, t1, FALSE, FALSE)
      BY <1>5 DEF Grown
    <3> QED
      BY <1>4, <3>1, <3>2
  <2> QED
    BY <2>1, <2>2
<1>7. t2 \in Seq(Events)
  BY <1>6 DEF InBlock, Ordered
<1>8. AtGap(t3, index + 1) /\ Grown(t2, t3, FALSE, FALSE)
  <2> HIDE DEF t2
  <2> QED
    BY <1>1, <1>6, SignAndStop
<1>9. t3 \in Seq(Events)
  BY <1>8 DEF AtGap, Ordered
<1>10. /\ start \in Seq(Events) /\ delta \in Seq(Events)
       /\ signed \in Seq(Events) /\ stop \in Seq(Events)
  <2>1. start \in Seq(Events) /\ stop \in Seq(Events)
    BY <1>1, EventTypes
  <2>2. delta \in Seq(Events)
    <3>1. BlockDelta(index, DataDelta(block.kind), block.data) \in Events
      BY <1>1, <1>2, EventTypes
    <3> QED
      BY <3>1
  <2>3. signed \in Seq(Events)
    BY <1>1, SignatureEventTypes
  <2> QED
    BY <2>1, <2>2, <2>3
<1>11. FullBlockEvents(index, block) = ((start \o delta) \o signed) \o stop
  BY DEF FullBlockEvents
<1>12. Grown(s, t3, block.kind = "tool_use", TRUE)
  <2> HIDE DEF t1, t2, t3
  <2>1. Grown(s, t2, block.kind = "tool_use", TRUE)
    BY <1>3, <1>4, <1>5, <1>6, <1>7, GrownTwice
  <2> QED
    BY <1>3, <1>7, <1>8, <1>9, <2>1, GrownTwice
<1> HIDE DEF start, delta, signed, stop
<1>13. s \o (((start \o delta) \o signed) \o stop) = t3
  <2> HIDE DEF Events
  <2>1. /\ s \in Seq(Events) /\ start \in Seq(Events) /\ delta \in Seq(Events)
        /\ signed \in Seq(Events) /\ stop \in Seq(Events)
    BY <1>3, <1>10
  <2>2. Cat(s, Cat(Cat(Cat(start, delta), signed), stop))
           = Cat(Cat(Cat(Cat(s, start), delta), signed), stop)
    BY <2>1, CatFive
  <2> QED
    BY <2>2 DEF Cat
<1>14. ((start \o delta) \o signed) \o stop \in Seq(Events)
  BY <1>10
<1> QED
  BY <1>8, <1>11, <1>12, <1>13, <1>14

\* streamFullOutput: the blocks one after the other.
LEMMA FullOutput ==
    ASSUME NEW s, NEW index \in Nat, NEW blocks \in Seq(ContentBlocks), AtGap(s, index)
    PROVE  LET t == s \o StreamFullOutput(blocks, index)
           IN  /\ AtGap(t, index + Len(blocks))
               /\ Grown(s, t, \E i \in 1 .. Len(blocks) : blocks[i].kind = "tool_use",
                              blocks # <<>>)
<1> DEFINE n == Len(blocks)
           ss == [k \in 1 .. n |-> FullBlockEvents(index + k - 1, blocks[k])]
           Tool(m) == \E i \in 1 .. m : blocks[i].kind = "tool_use"
<1>1. n \in Nat /\ \A k \in 1 .. n : blocks[k] \in ContentBlocks
  OBVIOUS
<1>2. s \in Seq(Events)
  BY DEF AtGap, Ordered
<1>3. ss \in [1 .. n -> Seq(Events)]
  <2> SUFFICES ASSUME NEW k \in 1 .. n
               PROVE  FullBlockEvents(index + k - 1, blocks[k]) \in Seq(Events)
    OBVIOUS
  <2> DEFINE k0 == index + k - 1
             b0 == blocks[k]
  <2>1. k0 \in Nat /\ b0 \in ContentBlocks
    BY <1>1
  <2> HIDE DEF k0, b0
  <2>2. FullBlockEvents(k0, b0) \in Seq(Events)
    BY <2>1, FullBlockTypes
  <2> QED
    BY <2>2 DEF k0, b0
<1>4. PICK f : PrefixesConcatenate(f, Events, ss, n) /\ FlattenSeq(ss) = f[n]
  <2> HIDE DEF ss, n
  <2> QED
    BY <1>1, <1>3, FlattenSeqPrefixes
<1> DEFINE Good(m) == /\ AtGap(Cat(s, f[m]), index + m)
                      /\ Grown(s, Cat(s, f[m]), Tool(m), m > 0)
           K == {m \in Nat : m <= n => Good(m)}
<1>5. Good(0)
  <2>1. f[0] = <<>>
    BY <1>4 DEF PrefixesConcatenate
  <2>2. Cat(s, <<>>) = s
    BY <1>2, ConcatEmptySeq DEF Cat
  <2>3. Grown(s, s, FALSE, FALSE)
    BY <1>2 DEF Grown
  <2>4. ~Tool(0)
    OBVIOUS
  <2>5. Grown(s, s, Tool(0), 0 > 0)
    BY <2>3, <2>4 DEF Grown
  <2>6. index + 0 = index
    OBVIOUS
  <2> HIDE DEF Tool
  <2> QED
    BY <2>1, <2>2, <2>5, <2>6
<1>6. ASSUME NEW m \in Nat, m + 1 <= n, Good(m)
      PROVE  Good(m + 1)
  <2> DEFINE u == Cat(s, f[m])
             b == blocks[m + 1]
             e == FullBlockEvents(index + m, b)
             v == Cat(u, e)
  <2>1. b \in ContentBlocks /\ index + m \in Nat
    BY <1>1, <1>6
  <2>2. AtGap(u, index + m) /\ Grown(s, u, Tool(m), m > 0)
    BY <1>6
  <2>3. u \in Seq(Events)
    BY <2>2 DEF AtGap, Ordered
  <2> HIDE DEF u, b, Tool
  <2>4. e \in Seq(Events) /\ AtGap(v, (index + m) + 1) /\ Grown(u, v, b.kind = "tool_use", TRUE)
    BY <2>1, <2>2, FullBlock DEF Cat
  <2>5. v \in Seq(Events)
    BY <2>4 DEF AtGap, Ordered
  <2>6. Grown(s, v, Tool(m) \/ b.kind = "tool_use", m > 0 \/ TRUE)
    <3> DEFINE p1 == Tool(m)
               p2 == b.kind = "tool_use"
               q1 == m > 0
               q2 == TRUE
    <3>1. Grown(s, u, p1, q1) /\ Grown(u, v, p2, q2)
      BY <2>2, <2>4
    <3>2. p1 \in BOOLEAN /\ p2 \in BOOLEAN /\ q1 \in BOOLEAN /\ q2 \in BOOLEAN
      BY DEF Tool
    <3> HIDE DEF v, e, p1, p2, q1, q2
    <3>3. Grown(s, v, p1 \/ p2, q1 \/ q2)
      BY <1>2, <2>3, <2>5, <3>1, <3>2, GrownTwice
    <3> QED
      BY <3>3 DEF p1, p2, q1, q2
  <2>7. f[m + 1] = Cat(f[m], e) /\ f[m] \in Seq(Events)
    <3>1. m + 1 \in 1 .. n /\ (m + 1) - 1 = m /\ index + (m + 1) - 1 = index + m
      BY <1>1, <1>6
    <3>2. ss[m + 1] = e
      BY <3>1 DEF b
    <3> HIDE DEF ss, n, e, v, K, Good
    <3>3. /\ \A i \in 1 .. n : f[i] = f[i - 1] \o ss[i]
          /\ f \in [0 .. n -> Seq(Events)]
      BY <1>4 DEF PrefixesConcatenate
    <3>4. m \in 0 .. n
      BY <1>1, <1>6
    <3>5. f[m + 1] = f[(m + 1) - 1] \o ss[m + 1]
      BY <3>1, <3>3
    <3>6. f[m + 1] = f[m] \o ss[m + 1] /\ f[m] \in Seq(Events)
      BY <3>1, <3>3, <3>4, <3>5
    <3> QED
      BY <3>2, <3>6 DEF Cat
  <2>8. Cat(s, f[m + 1]) = v
    <3> HIDE DEF e
    <3>1. Cat(s, Cat(f[m], e)) = Cat(Cat(s, f[m]), e)
      BY <1>2, <2>4, <2>7, CatAssociative
    <3> QED
      BY <2>7, <3>1 DEF u
  <2>9. Tool(m + 1) <=> Tool(m) \/ b.kind = "tool_use"
    BY <1>6 DEF Tool, b
  <2>10. Grown(s, v, Tool(m + 1), m + 1 > 0)
    <3>1. m + 1 > 0
      OBVIOUS
    <3> HIDE DEF v
    <3> QED
      BY <2>6, <2>9, <3>1 DEF Grown
  <2>11. AtGap(v, index + (m + 1))
    <3> HIDE DEF v
    <3>1. (index + m) + 1 = index + (m + 1)
      OBVIOUS
    <3> QED
      BY <2>4, <3>1
  <2> QED
    BY <2>8, <2>10, <2>11
<1> HIDE DEF Good
<1>7. n \in K
  <2>1. 0 \in K
    BY <1>5
  <2>2. \A m \in Nat : m \in K => m + 1 \in K
    BY <1>1, <1>6
  <2> HIDE DEF K
  <2> QED
    BY <1>1, <2>1, <2>2, SetInduction
<1>8. Good(n)
  BY <1>1, <1>7
<1>9. StreamFullOutput(blocks, index) = f[n]
  BY <1>4 DEF StreamFullOutput
<1>10. n > 0 <=> blocks # <<>>
  BY <1>1
<1>11. /\ AtGap(s \o f[n], index + n)
       /\ Grown(s, s \o f[n], Tool(n), n > 0)
  BY <1>8 DEF Good, Cat
<1>12. Grown(s, s \o f[n], Tool(n), blocks # <<>>)
  BY <1>10, <1>11 DEF Grown
<1> QED
  BY <1>9, <1>11, <1>12

-----------------------------------------------------------------------------
(* The blocks of a terminal Output list *)

ToolBlock(blocks) == \E i \in 1 .. Len(blocks) : blocks[i].kind = "tool_use"

LEMMA TextTypes ==
    /\ \A text \in Seq(TextFragments) : text \in Strings
    /\ \A input \in Seq(ArgFragments) : input \in Strings
    /\ EmptyObject \in Strings
    /\ \A input \in Seq(ArgFragments) : CustomToolInput(input) \in Strings
<1>1. TextFragments \subseteq Fragments /\ ArgFragments \subseteq Fragments
      /\ "{}" \in Fragments /\ "{input:" \in Fragments /\ "}" \in Fragments
  BY DEF Fragments
<1>2. \A text \in Seq(TextFragments) : text \in Strings
  BY <1>1, SeqSubset DEF Strings
<1>3. \A input \in Seq(ArgFragments) : input \in Strings
  BY <1>1, SeqSubset DEF Strings
<1>4. <<"{}">> \in Strings /\ <<"{input:">> \in Strings /\ <<"}">> \in Strings
  <2> DEFINE a == "{}"
             b == "{input:"
             c == "}"
  <2>1. a \in Fragments /\ b \in Fragments /\ c \in Fragments
    BY <1>1
  <2> HIDE DEF a, b, c
  <2>2. <<a>> \in Strings /\ <<b>> \in Strings /\ <<c>> \in Strings
    BY <2>1, SeqOfOne DEF Strings
  <2> QED
    BY <2>2 DEF a, b, c
<1>5. ASSUME NEW input \in Seq(ArgFragments)
      PROVE  CustomToolInput(input) \in Strings
  <2> DEFINE b == <<"{input:">>
             c == <<"}">>
  <2>1. input \in Seq(Fragments) /\ b \in Seq(Fragments) /\ c \in Seq(Fragments)
    BY <1>3, <1>4 DEF Strings
  <2>2. CustomToolInput(input) = (b \o input) \o c
    BY DEF CustomToolInput
  <2> HIDE DEF b, c
  <2> QED
    BY <2>1, <2>2 DEF Strings
<1> QED
  BY <1>2, <1>3, <1>4, <1>5 DEF EmptyObject

\* The blocks of one item are well typed; they call a tool when the item does.
LEMMA BlocksOfItem ==
    ASSUME NEW item \in OutputItems
    PROVE  /\ ItemBlocks(item) \in Seq(ContentBlocks)
           /\ ToolBlock(ItemBlocks(item))
                 <=> item.type \in {"function_call", "custom_tool_call"}
<1>1. CASE item \in [type : {"reasoning"}, summary : Seq(TextFragments),
                     signature : Signatures \cup {NoSignature}]
  <2>1. item.type = "reasoning" /\ item.summary \in Strings
        /\ item.signature \in Signatures \cup {NoSignature}
    BY <1>1, TextTypes
  <2> DEFINE b == ContentBlock("thinking", item.summary, item.signature)
  <2>2. b \in ContentBlocks /\ b.kind = "thinking"
    BY <2>1 DEF ContentBlock, ContentBlocks, BlockKinds
  <2>3. ItemBlocks(item) = <<b>> \/ ItemBlocks(item) = <<>>
    BY <2>1 DEF ItemBlocks
  <2> HIDE DEF b
  <2>4. <<b>> \in Seq(ContentBlocks) /\ ~ToolBlock(<<b>>)
    BY <2>2, SeqOfOne DEF ToolBlock
  <2>5. <<>> \in Seq(ContentBlocks) /\ ~ToolBlock(<<>>)
    BY DEF ToolBlock
  <2> QED
    BY <2>1, <2>3, <2>4, <2>5
<1>2. CASE item \in [type : {"message"}, texts : Seq(Seq(TextFragments) \ {<<>>})]
  <2>1. item.type = "message" /\ item.texts \in Seq(Seq(TextFragments) \ {<<>>})
    BY <1>2
  <2> DEFINE bs == [i \in 1 .. Len(item.texts) |->
                       ContentBlock("text", item.texts[i], NoSignature)]
  <2>2. ItemBlocks(item) = bs
    BY <2>1 DEF ItemBlocks
  <2>3. \A i \in 1 .. Len(item.texts) : bs[i] \in ContentBlocks /\ bs[i].kind = "text"
    <3> TAKE i \in 1 .. Len(item.texts)
    <3>1. item.texts[i] \in Strings
      BY <2>1, TextTypes
    <3> QED
      BY <3>1 DEF ContentBlock, ContentBlocks, BlockKinds
  <2>4. Len(item.texts) \in Nat
    BY <2>1
  <2>5. bs \in [1 .. Len(item.texts) -> ContentBlocks]
    BY <2>3
  <2> HIDE DEF bs
  <2>6. bs \in Seq(ContentBlocks) /\ Len(bs) = Len(item.texts)
    BY <2>4, <2>5, SeqOfFunction
  <2> QED
    BY <2>1, <2>2, <2>3, <2>6 DEF ToolBlock
<1>3. CASE item \in [type : {"function_call"}, arguments : Seq(ArgFragments)]
  <2>1. item.type = "function_call" /\ FunctionToolInput(item.arguments) \in Strings
    BY <1>3, TextTypes DEF FunctionToolInput
  <2> DEFINE b == ContentBlock("tool_use", FunctionToolInput(item.arguments), NoSignature)
  <2>2. b \in ContentBlocks /\ b.kind = "tool_use"
    BY <2>1 DEF ContentBlock, ContentBlocks, BlockKinds
  <2>3. ItemBlocks(item) = <<b>>
    BY <2>1 DEF ItemBlocks
  <2> HIDE DEF b
  <2> QED
    BY <2>1, <2>2, <2>3 DEF ToolBlock
<1>4. CASE item \in [type : {"custom_tool_call"}, input : Seq(ArgFragments)]
  <2>1. item.type = "custom_tool_call" /\ CustomToolInput(item.input) \in Strings
    BY <1>4, TextTypes
  <2> DEFINE b == ContentBlock("tool_use", CustomToolInput(item.input), NoSignature)
  <2>2. b \in ContentBlocks /\ b.kind = "tool_use"
    BY <2>1 DEF ContentBlock, ContentBlocks, BlockKinds
  <2>3. ItemBlocks(item) = <<b>>
    BY <2>1 DEF ItemBlocks
  <2> HIDE DEF b
  <2> QED
    BY <2>1, <2>2, <2>3 DEF ToolBlock
<1> QED
  BY <1>1, <1>2, <1>3, <1>4 DEF OutputItems

LEMMA ToolBlockCat ==
    ASSUME NEW s \in Seq(ContentBlocks), NEW t \in Seq(ContentBlocks)
    PROVE  ToolBlock(s \o t) <=> ToolBlock(s) \/ ToolBlock(t)
<1>1. /\ Len(s \o t) = Len(s) + Len(t) /\ Len(s) \in Nat /\ Len(t) \in Nat
      /\ \A i \in 1 .. Len(s) : (s \o t)[i] = s[i]
      /\ \A i \in 1 .. Len(t) : (s \o t)[Len(s) + i] = t[i]
  OBVIOUS
<1> DEFINE u == s \o t
<1> HIDE DEF u
<1>2. ASSUME ToolBlock(s) \/ ToolBlock(t)
      PROVE  ToolBlock(u)
  <2>1. CASE ToolBlock(s)
    BY <1>1, <2>1 DEF ToolBlock, u
  <2>2. CASE ToolBlock(t)
    <3>1. PICK i \in 1 .. Len(t) : t[i].kind = "tool_use"
      BY <2>2 DEF ToolBlock
    <3>2. Len(s) + i \in 1 .. Len(u) /\ u[Len(s) + i] = t[i]
      BY <1>1 DEF u
    <3> QED
      BY <3>1, <3>2 DEF ToolBlock
  <2> QED
    BY <1>2, <2>1, <2>2
<1>3. ASSUME ToolBlock(u)
      PROVE  ToolBlock(s) \/ ToolBlock(t)
  <2>1. PICK i \in 1 .. Len(u) : u[i].kind = "tool_use"
    BY <1>3 DEF ToolBlock
  <2>2. CASE i \in 1 .. Len(s)
    BY <1>1, <2>1, <2>2 DEF ToolBlock, u
  <2>3. CASE i \notin 1 .. Len(s)
    <3>1. i - Len(s) \in 1 .. Len(t) /\ Len(s) + (i - Len(s)) = i
      BY <1>1, <2>3 DEF u
    <3>2. u[i] = t[i - Len(s)]
      BY <1>1, <3>1 DEF u
    <3> QED
      BY <2>1, <3>1, <3>2 DEF ToolBlock
  <2> QED
    BY <2>2, <2>3
<1> QED
  BY <1>2, <1>3 DEF u

\* responseOutputToBlocks: well typed, and it calls a tool when an item does.
LEMMA BlocksOfOutput ==
    ASSUME NEW output \in Seq(OutputItems)
    PROVE  /\ OutputBlocks(output) \in Seq(ContentBlocks)
           /\ ToolBlock(OutputBlocks(output)) <=> OutputHasTool(output)
<1> DEFINE n == Len(output)
           ss == [i \in 1 .. n |-> ItemBlocks(output[i])]
           Call(m) == \E i \in 1 .. m : output[i].type \in {"function_call", "custom_tool_call"}
<1>1. n \in Nat /\ \A i \in 1 .. n : output[i] \in OutputItems
  OBVIOUS
<1>2. \A i \in 1 .. n : /\ ss[i] = ItemBlocks(output[i])
                        /\ ss[i] \in Seq(ContentBlocks)
                        /\ ToolBlock(ss[i])
                              <=> output[i].type \in {"function_call", "custom_tool_call"}
  BY <1>1, BlocksOfItem
<1>3. ss \in [1 .. n -> Seq(ContentBlocks)]
  BY <1>2
<1>4. PICK f : PrefixesConcatenate(f, ContentBlocks, ss, n) /\ FlattenSeq(ss) = f[n]
  <2> HIDE DEF ss, n
  <2> QED
    BY <1>1, <1>3, FlattenSeqPrefixes
<1>5. /\ \A i \in 1 .. n : f[i] = f[i - 1] \o ss[i]
      /\ f \in [0 .. n -> Seq(ContentBlocks)]
      /\ f[0] = <<>>
  BY <1>4 DEF PrefixesConcatenate
<1>6. OutputBlocks(output) = f[n]
  BY <1>4 DEF OutputBlocks
<1>7. OutputHasTool(output) <=> Call(n)
  BY DEF OutputHasTool
<1> HIDE DEF ss, n
<1> DEFINE K == {m \in Nat : m <= n => (ToolBlock(f[m]) <=> Call(m))}
<1>8. 0 \in K
  BY <1>5 DEF ToolBlock
<1>9. ASSUME NEW m \in Nat, m + 1 <= n, ToolBlock(f[m]) <=> Call(m)
      PROVE  ToolBlock(f[m + 1]) <=> Call(m + 1)
  <2>1. m + 1 \in 1 .. n /\ m \in 0 .. n /\ (m + 1) - 1 = m
    BY <1>1, <1>9
  <2>2. f[m + 1] = f[m] \o ss[m + 1]
    BY <1>5, <2>1
  <2>3. f[m] \in Seq(ContentBlocks) /\ ss[m + 1] \in Seq(ContentBlocks)
    BY <1>2, <1>5, <2>1
  <2>4. ToolBlock(f[m + 1]) <=> ToolBlock(f[m]) \/ ToolBlock(ss[m + 1])
    BY <2>2, <2>3, ToolBlockCat
  <2>5. ToolBlock(ss[m + 1]) <=> output[m + 1].type \in {"function_call", "custom_tool_call"}
    BY <1>2, <2>1
  <2>6. Call(m + 1) <=> Call(m) \/ output[m + 1].type \in {"function_call", "custom_tool_call"}
    OBVIOUS
  <2> HIDE DEF Call
  <2> QED
    BY <1>9, <2>4, <2>5, <2>6
<1> HIDE DEF Call
<1>10. \A m \in Nat : m \in K => m + 1 \in K
  BY <1>1, <1>9
<1>11. n \in K
  <2> HIDE DEF K
  <2> QED
    BY <1>1, <1>8, <1>10, SetInduction
<1>12. ToolBlock(f[n]) <=> Call(n)
  BY <1>1, <1>11
<1> QED
  BY <1>1, <1>5, <1>6, <1>7, <1>12

\* message_delta and message_stop
LEMMA EndMessage ==
    ASSUME NEW s, NEW index, AtGap(s, index),
           NEW reason \in {"end_turn", "max_tokens", "tool_use"},
           reason = "tool_use" => HasTool(s)
    PROVE  LET t == s \o <<MessageDelta(reason), MessageStop>>
           IN  /\ t \in Seq(Events) /\ t # <<>> /\ t[Len(t)] = MessageStop
               /\ StrictOrder(t)
               /\ HonestStopReason(t)
               /\ Grown(s, t, FALSE, FALSE)
<1> DEFINE e == MessageDelta(reason)
           u == s \o <<e>>
           t == u \o <<MessageStop>>
<1>1. /\ s \in Seq(Events) /\ StrictOrder(s) /\ s # <<>>
      /\ s[Len(s)].type \in {"message_start", "content_block_stop"}
      /\ \A i \in 1 .. Len(s) : s[i].type \notin EndTypes
  BY DEF AtGap, Ordered, Between, MessageStart, BlockStop
<1>2. /\ e \in Events /\ e.type = "message_delta" /\ e.stop_reason = reason
      /\ MessageStop \in Events /\ MessageStop.type = "message_stop"
  BY EventTypes DEF MessageDelta, MessageStop
<1>3. t = s \o <<e, MessageStop>>
  <2> DEFINE f == MessageStop
  <2> HIDE DEF e, f
  <2>1. <<e>> \in Seq(Events) /\ <<f>> \in Seq(Events) /\ <<e>> \o <<f>> = <<e, f>>
    BY <1>2, SeqOfOne, SeqOfTwo DEF f
  <2>2. (s \o <<e>>) \o <<f>> = s \o (<<e>> \o <<f>>)
    BY <1>1, <2>1, ConcatAssociative
  <2> QED
    BY <2>1, <2>2 DEF f
<1>4. Follows(s[Len(s)], e)
  BY <1>1, <1>2 DEF Follows
<1> HIDE DEF e
<1>5. /\ u \in Seq(Events)
      /\ u # <<>>
      /\ Len(u) = Len(s) + 1
      /\ u[Len(u)] = e
      /\ StrictOrder(u)
      /\ Grown(s, u, FALSE, FALSE)
  <2>1. /\ u \in Seq(Events)
        /\ u # <<>>
        /\ Len(u) = Len(s) + 1
        /\ u[Len(u)] = e
        /\ StrictOrder(u)
        /\ Grown(s, u, e.type = "content_block_start" /\ e.kind = "tool_use",
                       e.type = "content_block_start")
    BY <1>1, <1>2, <1>4, AppendEvent
  <2> HIDE DEF u
  <2> QED
    BY <1>2, <2>1 DEF Grown
<1> HIDE DEF u
<1>6. Follows(u[Len(u)], MessageStop)
  BY <1>2, <1>5 DEF Follows
<1>7. /\ t \in Seq(Events)
      /\ t # <<>>
      /\ Len(t) = Len(u) + 1
      /\ t[Len(t)] = MessageStop
      /\ StrictOrder(t)
      /\ Grown(u, t, FALSE, FALSE)
  <2>1. /\ t \in Seq(Events)
        /\ t # <<>>
        /\ Len(t) = Len(u) + 1
        /\ t[Len(t)] = MessageStop
        /\ StrictOrder(t)
        /\ Grown(u, t, MessageStop.type = "content_block_start" /\ MessageStop.kind = "tool_use",
                       MessageStop.type = "content_block_start")
    BY <1>2, <1>5, <1>6, AppendEvent
  <2> HIDE DEF t
  <2> QED
    BY <1>2, <2>1 DEF Grown
<1> HIDE DEF t
<1>8. Grown(s, t, FALSE, FALSE)
  BY <1>1, <1>5, <1>7, GrownTwice
<1>9. HonestStopReason(t)
  <2> SUFFICES ASSUME NEW i \in 1 .. Len(t), t[i].type = "message_delta",
                      t[i].stop_reason = "tool_use"
               PROVE  HasTool(s)
    BY <1>8 DEF HonestStopReason, Grown
  <2>1. i # Len(t)
    BY <1>2, <1>7
  <2>2. CASE i = Len(s) + 1
    <3>1. t[i] = e
      BY <1>1, <1>5, <1>7, <2>2 DEF Grown
    <3> QED
      BY <1>2, <3>1
  <2>3. CASE i # Len(s) + 1
    <3>1. i \in 1 .. Len(s) /\ t[i] = s[i]
      BY <1>1, <1>5, <1>7, <1>8, <2>1, <2>3 DEF Grown
    <3> QED
      BY <1>1, <3>1 DEF EndTypes
  <2> QED
    BY <2>2, <2>3
<1> QED
  BY <1>3, <1>7, <1>8, <1>9 DEF e

-----------------------------------------------------------------------------
(* The inductive invariant *)

\* What the properties of StreamConverter leave out: the order of the stream
\* itself, and the initial values that have not been touched.
StreamInOrder ==
    /\ StrictOrder(emitted)
    /\ HonestStopReason(emitted)
    /\ Outcome # "complete" => Ordered(emitted)
    /\ emitted = <<>> => nextBlockIndex = 0
    /\ ~terminal => terminalErr = "none"

Inv == TypeOK /\ CursorMatchesStream /\ FlagsMatchStream /\ StreamInOrder

\* The part of Inv that matters while the stream is open, in the terms of the
\* lemmas above.
Placed ==
    \/ /\ active # NoBlock
       /\ InBlock(emitted, active.index, active.kind)
       /\ active.index = nextBlockIndex
       /\ active.hadDelta <=> emitted[Len(emitted)].type = "content_block_delta"
       /\ active.kind = "text" => active.hadDelta
    \/ /\ active = NoBlock
       /\ AtGap(emitted, nextBlockIndex)

Flagged ==
    /\ messageStarted
    /\ hasTool <=> HasTool(emitted)
    /\ sawContent <=> HasBlock(emitted)
    /\ active # NoBlock => sawContent

LEMMA OrderedEnd ==
    ASSUME NEW s, Ordered(s)
    PROVE  /\ HonestStopReason(s) /\ StrictOrder(s) /\ s \in Seq(Events)
           /\ s # <<>> => s[Len(s)] # MessageStop
<1>1. /\ s \in Seq(Events) /\ StrictOrder(s)
      /\ \A i \in 1 .. Len(s) : s[i].type # "message_delta" /\ s[i].type # "message_stop"
  BY DEF Ordered, EndTypes
<1>2. HonestStopReason(s)
  BY <1>1 DEF HonestStopReason
<1>3. s # <<>> => Len(s) \in 1 .. Len(s)
  BY <1>1
<1> QED
  BY <1>1, <1>2, <1>3 DEF MessageStop

LEMMA OpenInv ==
    TypeOK /\ ~terminal /\ terminalErr = "none" /\ Placed /\ Flagged => Inv
<1> SUFFICES ASSUME TypeOK, ~terminal, terminalErr = "none", Placed, Flagged
             PROVE  Inv
  OBVIOUS
<1>1. Ordered(emitted) /\ emitted # <<>>
  BY DEF Placed, InBlock, AtGap
<1>2. /\ HonestStopReason(emitted) /\ StrictOrder(emitted) /\ emitted \in Seq(Events)
      /\ emitted[Len(emitted)] # MessageStop
  BY <1>1, OrderedEnd
<1>3. Outcome = "open"
  BY DEF Outcome
<1>4. CursorMatchesStream
  BY <1>1, <1>2, <1>3 DEF CursorMatchesStream, Placed, InBlock, AtGap, Last
<1>5. FlagsMatchStream
  BY <1>1, <1>3 DEF FlagsMatchStream, Flagged
<1>6. StreamInOrder
  BY <1>1, <1>2, <1>3 DEF StreamInOrder
<1> QED
  BY <1>4, <1>5, <1>6 DEF Inv

\* The same about the next state.
LEMMA OpenInvNext ==
    (TypeOK /\ ~terminal /\ terminalErr = "none" /\ Placed /\ Flagged => Inv)'
BY OpenInv, PTL

\* What Inv says before a step.
LEMMA BeforeStep ==
    ASSUME Inv, ~terminal
    PROVE  /\ Outcome = "open" /\ terminalErr = "none"
           /\ Ordered(emitted)
           /\ emitted = <<>> => ~messageStarted /\ active = NoBlock /\ nextBlockIndex = 0
           /\ emitted # <<>> => messageStarted /\ Placed /\ Flagged
           /\ hasTool <=> HasTool(emitted)
           /\ sawContent <=> HasBlock(emitted)
           /\ active # NoBlock => sawContent
<1>1. Outcome = "open" /\ terminalErr = "none"
  BY DEF Outcome, Inv, StreamInOrder
<1>2. Ordered(emitted)
  BY <1>1 DEF Inv, StreamInOrder
<1>3. emitted = <<>> => ~messageStarted /\ active = NoBlock /\ nextBlockIndex = 0
  BY DEF Inv, StreamInOrder, FlagsMatchStream, CursorMatchesStream
<1>4. /\ hasTool <=> HasTool(emitted)
      /\ sawContent <=> HasBlock(emitted)
      /\ active # NoBlock => sawContent
      /\ emitted # <<>> => messageStarted
  BY <1>1 DEF Inv, FlagsMatchStream
<1>5. emitted # <<>> => Placed
  <2> SUFFICES ASSUME emitted # <<>> PROVE Placed
    OBVIOUS
  <2>1. Last(emitted) = emitted[Len(emitted)]
    BY DEF Last
  <2> QED
    BY <1>1, <1>2, <2>1 DEF Inv, CursorMatchesStream, Placed, InBlock, AtGap
<1>6. emitted # <<>> => Flagged
  BY <1>4 DEF Flagged
<1> QED
  BY <1>1, <1>2, <1>3, <1>4, <1>5, <1>6

-----------------------------------------------------------------------------
(* Steps of AnthropicStream *)

\* A step that keeps Inv and that the abstract stream can take, or ignores.
GoodStep == Inv' /\ [Client!Next]_(Client!streamVars)

\* AnthropicStream has its own copy of the operators of AnthropicEvents.
LEMMA SameOperators ==
    ASSUME NEW s
    PROVE  /\ Client!StrictOrder(s) <=> StrictOrder(s)
           /\ Client!HonestStopReason(s) <=> HonestStopReason(s)
           /\ Client!MessageStop = MessageStop
<1>1. \A e, f : Client!Follows(e, f) = Follows(e, f)
  BY DEF Client!Follows, Follows, Client!Between, Between, Client!Inside, Inside,
         Client!Stoppable, Stoppable, Client!MessageStart, MessageStart, Client!BlockStop,
         BlockStop, Client!BlockStart, BlockStart, Client!DeltaKind, DeltaKind
<1>2. Client!StrictOrder(s) <=> StrictOrder(s)
  BY <1>1 DEF Client!StrictOrder, StrictOrder, Client!MessageStart, MessageStart
<1>3. Client!HonestStopReason(s) <=> HonestStopReason(s)
  BY DEF Client!HonestStopReason, HonestStopReason, Client!HasTool, HasTool
<1>4. Client!MessageStop = MessageStop
  BY DEF Client!MessageStop, MessageStop
<1> QED
  BY <1>2, <1>3, <1>4

LEMMA GrownSubSeq ==
    ASSUME NEW s \in Seq(Events), NEW t \in Seq(Events), NEW a, NEW b, Grown(s, t, a, b)
    PROVE  Len(s) <= Len(t) /\ SubSeq(t, 1, Len(s)) = s
<1>1. Len(s) <= Len(t) /\ Len(s) \in Nat /\ Len(t) \in Nat
      /\ \A i \in 1 .. Len(s) : t[i] = s[i]
  BY DEF Grown
<1> DEFINE u == SubSeq(t, 1, Len(s))
<1>2. u \in Seq(Events) /\ Len(u) = Len(s) /\ \A i \in 1 .. Len(s) : u[i] = t[i]
  BY <1>1
<1> HIDE DEF u
<1>3. u = s
  BY <1>1, <1>2, SeqEqual
<1> QED
  BY <1>1, <1>3 DEF u

\* A step that leaves the stream open.
LEMMA OpenStep ==
    ASSUME Inv, ~terminal, TypeOK', ~terminal', terminalErr' = "none", Placed', Flagged',
           NEW a, NEW b, Grown(emitted, emitted', a, b)
    PROVE  GoodStep
<1>1. Inv'
  BY OpenInvNext
<1>2. Ordered(emitted) /\ emitted \in Seq(Events) /\ Outcome = "open"
  BY BeforeStep DEF Ordered
<1>3. Ordered(emitted') /\ Outcome' = "open"
  BY DEF Placed, InBlock, AtGap, Outcome
<1>4. /\ emitted' \in Seq(Events)
      /\ StrictOrder(emitted') /\ HonestStopReason(emitted')
      /\ \A i \in 1 .. Len(emitted') : emitted'[i].type \notin {"message_delta", "message_stop"}
  BY <1>3, OrderedEnd DEF Ordered, EndTypes
<1>5. Client!Grows
  BY <1>2, <1>4, GrownSubSeq, SameOperators DEF Client!Grows
<1>6. Client!Extend
  BY <1>2, <1>3, <1>4, <1>5 DEF Client!Extend
<1> QED
  BY <1>1, <1>6 DEF GoodStep, Client!Next

\* A step that fails.
LEMMA FailStep ==
    ASSUME Inv, ~terminal, NEW err \in {"upstream", "conversion"}, FailWith(err),
           messageStarted' \in BOOLEAN, messageStarted => messageStarted'
    PROVE  GoodStep
<1>1. /\ Outcome = "open" /\ Ordered(emitted)
      /\ emitted # <<>> => messageStarted
  BY BeforeStep
<1>2. /\ terminal' = TRUE /\ terminalErr' = err /\ err # "none"
      /\ UNCHANGED <<hasTool, sawContent, nextBlockIndex, active, emitted>>
  BY DEF FailWith
<1>3. Outcome' = "failed"
  BY <1>2 DEF Outcome
<1>4. TypeOK'
  BY <1>2 DEF Inv, TypeOK
<1>5. CursorMatchesStream'
  BY <1>1, <1>2, <1>3 DEF Inv, CursorMatchesStream
<1>6. FlagsMatchStream'
  BY <1>1, <1>2, <1>3 DEF Inv, FlagsMatchStream
<1>7. StreamInOrder'
  BY <1>1, <1>2, <1>3 DEF Inv, StreamInOrder
<1>8. Client!Fail
  BY <1>1, <1>2, <1>3 DEF Client!Fail
<1> QED
  BY <1>4, <1>5, <1>6, <1>7, <1>8 DEF GoodStep, Inv, Client!Next

\* A step that completes the message.
LEMMA EndStep ==
    ASSUME Inv, ~terminal, TypeOK', terminal', terminalErr' = "none", active' = NoBlock,
           messageStarted', hasTool' <=> HasTool(emitted'),
           StrictOrder(emitted'), HonestStopReason(emitted'),
           emitted' # <<>>, emitted'[Len(emitted')] = MessageStop,
           NEW a, NEW b, Grown(emitted, emitted', a, b)
    PROVE  GoodStep
<1>1. Ordered(emitted) /\ emitted \in Seq(Events) /\ Outcome = "open"
  BY BeforeStep DEF Ordered
<1>2. Outcome' = "complete"
  BY DEF Outcome
<1>3. emitted' \in Seq(Events)
  BY DEF TypeOK, Events
<1>4. CursorMatchesStream'
  BY <1>2 DEF CursorMatchesStream, Last
<1>5. FlagsMatchStream'
  BY <1>2 DEF FlagsMatchStream
<1>6. StreamInOrder'
  BY <1>2 DEF StreamInOrder
<1>7. Client!Grows
  BY <1>1, <1>3, GrownSubSeq, SameOperators DEF Client!Grows
<1>8. Client!Complete
  BY <1>1, <1>2, <1>7, SameOperators DEF Client!Complete
<1> QED
  BY <1>4, <1>5, <1>6, <1>8 DEF GoodStep, Inv, Client!Next

-----------------------------------------------------------------------------
(* The actions, one by one *)

LEMMA BlockTypes ==
    /\ \A block \in Blocks : block # NoBlock
    /\ \A block \in Blocks :
          /\ block.index \in Nat /\ block.outputIndex \in OutputIndexes
          /\ block.kind \in BlockKinds /\ block.custom \in BOOLEAN
          /\ block.buffer \in Seq(ArgFragments) /\ block.hadDelta \in BOOLEAN
          /\ block.signature \in Signatures \cup {NoSignature}
BY DEF Blocks, BlockKinds, NoBlock

\* ensureMessageStart
LEMMA Started ==
    ASSUME Inv, ~terminal
    PROVE  LET t == emitted \o StartMessage
           IN  /\ t \in Seq(Events)
               /\ Grown(emitted, t, FALSE, FALSE)
               /\ active = NoBlock => AtGap(t, nextBlockIndex)
               /\ active # NoBlock => t = emitted
<1>1. emitted \in Seq(Events) /\ nextBlockIndex \in Nat
  BY DEF Inv, TypeOK, Events
<1>2. CASE messageStarted
  <2>1. emitted # <<>>
    BY <1>2, BeforeStep
  <2>2. emitted \o StartMessage = emitted
    BY <1>1, <1>2, ConcatEmptySeq DEF StartMessage
  <2>3. Grown(emitted, emitted, FALSE, FALSE)
    BY <1>1 DEF Grown
  <2>4. active = NoBlock => AtGap(emitted, nextBlockIndex)
    BY <2>1, BeforeStep DEF Placed
  <2> QED
    BY <1>1, <2>2, <2>3, <2>4
<1>3. CASE ~messageStarted
  <2>1. emitted = <<>> /\ active = NoBlock /\ nextBlockIndex = 0
    BY <1>3, BeforeStep
  <2>2. StartMessage = <<MessageStart>>
    BY <1>3 DEF StartMessage
  <2>3. AtGap(<<>> \o <<MessageStart>>, 0) /\ Grown(<<>>, <<>> \o <<MessageStart>>, FALSE, FALSE)
    BY StartStream
  <2>4. <<>> \o <<MessageStart>> \in Seq(Events)
    BY <2>3 DEF AtGap, Ordered
  <2> QED
    BY <2>1, <2>2, <2>3, <2>4
<1> QED
  BY <1>2, <1>3

\* ensureMessageStart and closeActive
LEMMA Closed ==
    ASSUME Inv, ~terminal
    PROVE  LET t == (emitted \o StartMessage) \o CloseActive
           IN  /\ IndexAfterClose \in Nat
               /\ AtGap(t, IndexAfterClose)
               /\ Grown(emitted, t, FALSE, FALSE)
<1> DEFINE u == emitted \o StartMessage
           t == u \o CloseActive
<1>1. /\ u \in Seq(Events)
      /\ Grown(emitted, u, FALSE, FALSE)
      /\ active = NoBlock => AtGap(u, nextBlockIndex)
      /\ active # NoBlock => u = emitted
  BY Started
<1>2. nextBlockIndex \in Nat /\ IndexAfterClose \in Nat
  BY DEF Inv, TypeOK, IndexAfterClose
<1> HIDE DEF u
<1>3. CASE active = NoBlock
  <2>1. t = u /\ IndexAfterClose = nextBlockIndex
    BY <1>1, <1>3, ConcatEmptySeq DEF CloseActive, IndexAfterClose
  <2> QED
    BY <1>1, <1>2, <1>3, <2>1 DEF u
<1>4. CASE active # NoBlock
  <2>1. active \in Blocks
    BY <1>4 DEF Inv, TypeOK
  <2>2. InBlock(emitted, active.index, active.kind) /\ active.index = nextBlockIndex
    BY <1>4, BeforeStep DEF Placed
  <2>3. /\ AtGap(emitted \o Closing(active), active.index + 1)
        /\ Grown(emitted, emitted \o Closing(active), FALSE, FALSE)
    BY <2>1, <2>2, BlockTypes, CloseBlock
  <2>4. t = emitted \o Closing(active) /\ IndexAfterClose = active.index + 1
    BY <1>1, <1>4, <2>2 DEF CloseActive, IndexAfterClose
  <2> QED
    BY <1>2, <2>3, <2>4 DEF u
<1> QED
  BY <1>3, <1>4

\* The deltas OpenBlock may be given.
FirstDeltas(kind, deltas) ==
    \/ deltas = <<>> /\ kind # "text"
    \/ \E data \in Strings : deltas = <<BlockDelta(IndexAfterClose, DataDelta(kind), data)>>

LEMMA OpenBlockStep ==
    ASSUME Inv, ~terminal,
           NEW outputIndex \in OutputIndexes, NEW kind \in BlockKinds, NEW custom \in BOOLEAN,
           NEW signature \in Signatures \cup {NoSignature}, NEW deltas,
           FirstDeltas(kind, deltas),
           OpenBlock(outputIndex, kind, custom, signature, deltas),
           UNCHANGED <<terminal, terminalErr>>,
           hasTool' = (hasTool \/ kind = "tool_use")
    PROVE  GoodStep
<1> DEFINE index == IndexAfterClose
           t == (emitted \o StartMessage) \o CloseActive
           u == t \o <<BlockStart(index, kind)>>
           v == u \o deltas
           block == Block(index, outputIndex, kind, custom, signature)
           opened == [block EXCEPT !.hadDelta = (deltas # <<>>)]
<1>1. index \in Nat /\ AtGap(t, index) /\ Grown(emitted, t, FALSE, FALSE)
  BY Closed
<1>2. /\ active' = opened
      /\ emitted' = v
      /\ messageStarted' = TRUE
      /\ sawContent' = TRUE
      /\ nextBlockIndex' = index
  BY DEF OpenBlock, Block
<1>3. /\ opened \in Blocks /\ opened.index = index /\ opened.kind = kind
      /\ opened.hadDelta <=> deltas # <<>>
  <2> DEFINE given == deltas # <<>>
  <2>1. opened = [index |-> index, outputIndex |-> outputIndex, kind |-> kind,
                  custom |-> custom, buffer |-> <<>>, hadDelta |-> given,
                  signature |-> signature]
    BY DEF Block
  <2>2. given \in BOOLEAN /\ <<>> \in Seq(ArgFragments)
    OBVIOUS
  <2> HIDE DEF opened, index, given
  <2>3. opened \in Blocks /\ opened.index = index /\ opened.kind = kind
        /\ opened.hadDelta = given
    BY <1>1, <2>1, <2>2 DEF Blocks
  <2> QED
    BY <2>3 DEF given
<1>4. opened # NoBlock
  BY <1>3, BlockTypes
<1>5. /\ terminal' = terminal /\ terminalErr' = "none"
      /\ hasTool <=> HasTool(emitted)
      /\ terminal \in BOOLEAN /\ hasTool \in BOOLEAN
      /\ emitted \in Seq(Events)
  BY BeforeStep DEF Inv, TypeOK, Events
<1> HIDE DEF t, opened, index
<1>6. /\ InBlock(u, index, kind)
      /\ u[Len(u)].type = "content_block_start"
      /\ Grown(t, u, kind = "tool_use", TRUE)
  BY <1>1, StartBlock
<1> HIDE DEF u
<1>7. /\ InBlock(v, index, kind)
      /\ deltas # <<>> <=> v[Len(v)].type = "content_block_delta"
      /\ kind = "text" => deltas # <<>>
      /\ Grown(u, v, FALSE, FALSE)
  <2>1. CASE deltas = <<>> /\ kind # "text"
    <3>1. u \in Seq(Events)
      BY <1>6 DEF InBlock, Ordered
    <3>2. v = u
      BY <2>1, <3>1, ConcatEmptySeq
    <3>3. Grown(u, u, FALSE, FALSE)
      BY <3>1 DEF Grown
    <3> QED
      BY <1>6, <2>1, <3>2, <3>3
  <2>2. CASE \E data \in Strings : deltas = <<BlockDelta(index, DataDelta(kind), data)>>
    <3>1. PICK data \in Strings : deltas = <<BlockDelta(index, DataDelta(kind), data)>>
      BY <2>2
    <3>2. /\ DataDelta(kind) \in DOMAIN DeltaKind /\ DataDelta(kind) # "signature_delta"
          /\ DeltaKind[DataDelta(kind)] = kind
      BY DataDeltas
    <3> DEFINE w == u \o <<BlockDelta(index, DataDelta(kind), data)>>
    <3>3. /\ InBlock(w, index, kind)
          /\ w[Len(w)].type = "content_block_delta"
          /\ Grown(u, w, FALSE, FALSE)
      BY <1>1, <1>6, <3>2, DeltaInBlock
    <3>4. v = w /\ deltas # <<>>
      BY <3>1
    <3> QED
      BY <3>3, <3>4
  <2> QED
    BY <2>1, <2>2 DEF FirstDeltas, index
<1> HIDE DEF v
<1>8. Grown(emitted, v, kind = "tool_use", TRUE)
  <2>1. /\ Len(emitted) \in Nat /\ Len(t) \in Nat /\ Len(u) \in Nat /\ Len(v) \in Nat
    BY <1>1, <1>5, <1>6, <1>7 DEF AtGap, InBlock, Ordered
  <2>2. Len(emitted) <= Len(v) /\ \A i \in 1 .. Len(emitted) : v[i] = emitted[i]
    BY <1>1, <1>6, <1>7, <2>1 DEF Grown
  <2>3. HasTool(v) <=> HasTool(emitted) \/ kind = "tool_use"
    BY <1>1, <1>6, <1>7 DEF Grown
  <2>4. HasBlock(v) <=> HasBlock(emitted) \/ TRUE
    BY <1>1, <1>6, <1>7 DEF Grown
  <2> QED
    BY <2>2, <2>3, <2>4 DEF Grown
<1>9. TypeOK'
  <2>1. emitted' \in Seq(ClientEvents(Strings))
    BY <1>2, <1>7 DEF InBlock, Ordered, Events
  <2>2. active' \in Blocks \cup {NoBlock} /\ nextBlockIndex' \in Nat
    BY <1>1, <1>2, <1>3
  <2>3. hasTool' \in BOOLEAN /\ terminal' \in BOOLEAN
        /\ terminalErr' \in {"none", "upstream", "conversion"}
    BY <1>5
  <2> QED
    BY <1>2, <2>1, <2>2, <2>3 DEF TypeOK
<1>10. Placed'
  BY <1>2, <1>3, <1>4, <1>7 DEF Placed
<1>11. Flagged'
  BY <1>2, <1>5, <1>8 DEF Flagged, Grown
<1> QED
  BY <1>2, <1>5, <1>8, <1>9, <1>10, <1>11, OpenStep

\* What is known while a block is open.
LEMMA ActiveBlock ==
    ASSUME Inv, ~terminal, active # NoBlock
    PROVE  /\ active \in Blocks
           /\ active.index \in Nat /\ active.outputIndex \in OutputIndexes
           /\ active.kind \in BlockKinds /\ active.custom \in BOOLEAN
           /\ active.buffer \in Seq(ArgFragments) /\ active.hadDelta \in BOOLEAN
           /\ active.signature \in Signatures \cup {NoSignature}
           /\ InBlock(emitted, active.index, active.kind)
           /\ emitted \in Seq(Events) /\ emitted # <<>>
           /\ active.index = nextBlockIndex
           /\ messageStarted = TRUE /\ sawContent = TRUE /\ terminal = FALSE
           /\ terminalErr = "none" /\ hasTool \in BOOLEAN
           /\ Placed /\ Flagged
<1>1. active \in Blocks
  BY DEF Inv, TypeOK
<1>2. emitted # <<>>
  BY BeforeStep
<1>3. Placed /\ Flagged /\ messageStarted /\ sawContent /\ terminalErr = "none"
  BY <1>2, BeforeStep
<1>4. messageStarted = TRUE /\ sawContent = TRUE /\ terminal = FALSE /\ hasTool \in BOOLEAN
  BY <1>3 DEF Inv, TypeOK
<1>5. InBlock(emitted, active.index, active.kind) /\ active.index = nextBlockIndex
  BY <1>3 DEF Placed
<1>6. emitted \in Seq(Events)
  BY <1>5 DEF InBlock, Ordered
<1> QED
  BY <1>1, <1>2, <1>3, <1>4, <1>5, <1>6, BlockTypes

LEMMA AppendedOne ==
    ASSUME NEW S, NEW s \in Seq(S), NEW x
    PROVE  Append(s, x) = s \o <<x>>
OBVIOUS

LEMMA DeltaStaysInBlock ==
    ASSUME NEW s, NEW index \in Nat, NEW kind \in BlockKinds, InBlock(s, index, kind),
           NEW delta \in DOMAIN DeltaKind, delta # "signature_delta", DeltaKind[delta] = kind,
           NEW data \in Strings, NEW t, t = s \o <<BlockDelta(index, delta, data)>>
    PROVE  /\ t[Len(t)].type = "content_block_delta"
           /\ InBlock(t, index, kind)
           /\ Grown(s, t, FALSE, FALSE)
BY DeltaInBlock

\* A delta for the active block.
LEMMA SendDeltaStep ==
    ASSUME Inv, ~terminal, active # NoBlock,
           NEW delta \in DOMAIN DeltaKind \ {"signature_delta"}, DeltaKind[delta] = active.kind,
           NEW data \in Strings, SendDelta(delta, data),
           active' \in Blocks, active'.index = active.index, active'.kind = active.kind,
           active'.hadDelta = TRUE, sawContent' = TRUE,
           UNCHANGED <<messageStarted, terminal, terminalErr, hasTool, nextBlockIndex>>
    PROVE  GoodStep
<1> DEFINE e == BlockDelta(active.index, delta, data)
           t == emitted \o <<e>>
<1>1. /\ active.index \in Nat /\ active.kind \in BlockKinds
      /\ InBlock(emitted, active.index, active.kind)
      /\ emitted \in Seq(Events)
      /\ active.index = nextBlockIndex
      /\ messageStarted = TRUE /\ sawContent = TRUE /\ terminal = FALSE
      /\ terminalErr = "none" /\ hasTool \in BOOLEAN
      /\ Flagged
  BY ActiveBlock
<1>2. emitted' = t
  <2>1. emitted' = Append(emitted, e)
    BY DEF SendDelta
  <2> HIDE DEF e
  <2> QED
    BY <1>1, <2>1, AppendedOne
<1>3. /\ t[Len(t)].type = "content_block_delta"
      /\ InBlock(t, active.index, active.kind)
      /\ Grown(emitted, t, FALSE, FALSE)
  <2> DEFINE index == active.index
             kind == active.kind
             u == emitted \o <<BlockDelta(index, delta, data)>>
  <2>1. /\ index \in Nat /\ kind \in BlockKinds /\ InBlock(emitted, index, kind)
        /\ delta \in DOMAIN DeltaKind /\ delta # "signature_delta" /\ DeltaKind[delta] = kind
    BY <1>1
  <2>2. u = t
    OBVIOUS
  <2>4. u = emitted \o <<BlockDelta(index, delta, data)>>
    OBVIOUS
  <2> HIDE DEF t, e, u, index, kind
  <2>3. /\ u[Len(u)].type = "content_block_delta"
        /\ InBlock(u, index, kind)
        /\ Grown(emitted, u, FALSE, FALSE)
    BY <2>1, <2>4, DeltaStaysInBlock, Zenon
  <2> QED
    BY <2>2, <2>3 DEF index, kind
<1> HIDE DEF t, e
<1>4. t \in Seq(Events)
  BY <1>3 DEF InBlock, Ordered
<1>5. active' # NoBlock
  BY BlockTypes
<1>6. TypeOK'
  BY <1>1, <1>2, <1>4 DEF TypeOK, Events
<1>7. Placed'
  BY <1>1, <1>2, <1>3, <1>5 DEF Placed
<1>8. Flagged'
  BY <1>1, <1>2, <1>3 DEF Flagged, Grown
<1> QED
  BY <1>1, <1>2, <1>3, <1>6, <1>7, <1>8, OpenStep

\* A step that only changes what is buffered.
LEMMA QuietStep ==
    ASSUME Inv, ~terminal, active # NoBlock,
           active' \in Blocks, active'.index = active.index, active'.kind = active.kind,
           active'.hadDelta = active.hadDelta,
           UNCHANGED <<emitted, messageStarted, terminal, terminalErr, hasTool, sawContent,
                       nextBlockIndex>>
    PROVE  GoodStep
<1>1. /\ InBlock(emitted, active.index, active.kind)
      /\ emitted \in Seq(Events)
      /\ active.index = nextBlockIndex
      /\ terminalErr = "none"
      /\ Placed /\ Flagged
  BY ActiveBlock
<1>2. active' # NoBlock
  BY BlockTypes
<1>3. TypeOK'
  BY DEF Inv, TypeOK
<1>4. Placed'
  BY <1>1, <1>2 DEF Placed
<1>5. Flagged'
  BY <1>1, <1>2 DEF Flagged
<1>6. Grown(emitted, emitted', FALSE, FALSE)
  BY <1>1 DEF Grown
<1> QED
  BY <1>1, <1>3, <1>4, <1>5, <1>6, OpenStep

\* A step that closes the active block.
LEMMA CloseStep ==
    ASSUME Inv, ~terminal, active # NoBlock,
           AtGap(emitted', active.index + 1), Grown(emitted, emitted', FALSE, FALSE),
           active' = NoBlock, nextBlockIndex' = nextBlockIndex + 1,
           UNCHANGED <<messageStarted, terminal, terminalErr, hasTool, sawContent>>
    PROVE  GoodStep
<1>1. /\ active.index = nextBlockIndex /\ active.index \in Nat
      /\ terminalErr = "none"
      /\ Flagged
  BY ActiveBlock
<1>2. emitted' \in Seq(Events)
  BY DEF AtGap, Ordered
<1>3. TypeOK'
  BY <1>1, <1>2 DEF Inv, TypeOK, Events
<1>4. Placed'
  BY <1>1 DEF Placed
<1>5. Flagged'
  BY <1>1 DEF Flagged, Grown
<1> QED
  BY <1>1, <1>3, <1>4, <1>5, OpenStep

\* SendAndClose with nothing, or with one delta of the active block.
ActiveDeltas(events) ==
    \/ events = <<>>
    \/ \E delta \in DOMAIN DeltaKind \ {"signature_delta"}, data \in Strings :
          /\ DeltaKind[delta] = active.kind
          /\ events = <<BlockDelta(active.index, delta, data)>>

LEMMA SendAndCloseStep ==
    ASSUME Inv, ~terminal, active # NoBlock, NEW events, ActiveDeltas(events),
           SendAndClose(events)
    PROVE  GoodStep
<1> DEFINE t == emitted \o events
<1>1. /\ active \in Blocks
      /\ active.index \in Nat /\ active.kind \in BlockKinds
      /\ active.signature \in Signatures \cup {NoSignature}
      /\ InBlock(emitted, active.index, active.kind)
      /\ emitted \in Seq(Events)
  BY ActiveBlock
<1>2. InBlock(t, active.index, active.kind) /\ Grown(emitted, t, FALSE, FALSE)
  <2>1. CASE events = <<>>
    <3>1. t = emitted
      BY <1>1, <2>1, ConcatEmptySeq
    <3>2. Grown(emitted, emitted, FALSE, FALSE)
      BY <1>1 DEF Grown
    <3> QED
      BY <1>1, <3>1, <3>2
  <2>2. CASE events # <<>>
    <3>1. PICK delta \in DOMAIN DeltaKind \ {"signature_delta"}, data \in Strings :
             /\ DeltaKind[delta] = active.kind
             /\ events = <<BlockDelta(active.index, delta, data)>>
      BY <2>2 DEF ActiveDeltas
    <3> DEFINE u == emitted \o <<BlockDelta(active.index, delta, data)>>
    <3>2. InBlock(u, active.index, active.kind) /\ Grown(emitted, u, FALSE, FALSE)
      BY <1>1, <3>1, DeltaInBlock
    <3> QED
      BY <3>1, <3>2
  <2> QED
    BY <2>1, <2>2
<1> HIDE DEF t
<1>3. AtGap(t \o Closing(active), active.index + 1) /\ Grown(t, t \o Closing(active), FALSE, FALSE)
  BY <1>1, <1>2, CloseBlock
<1>4. emitted' = t \o Closing(active)
  BY DEF SendAndClose, CloseActive, t
<1>5. t \in Seq(Events) /\ emitted' \in Seq(Events)
  BY <1>2, <1>3, <1>4 DEF InBlock, AtGap, Ordered
<1>6. AtGap(emitted', active.index + 1) /\ Grown(t, emitted', FALSE, FALSE)
  BY <1>3, <1>4
<1>7. Grown(emitted, emitted', FALSE, FALSE)
  BY <1>1, <1>2, <1>5, <1>6, GrownTwice
<1> QED
  BY <1>6, <1>7, CloseStep DEF SendAndClose

-----------------------------------------------------------------------------

LEMMA CreatedStep ==
    ASSUME Inv, Created
    PROVE  GoodStep
<1>1. /\ ~terminal
      /\ emitted' = emitted \o StartMessage
      /\ messageStarted' = TRUE
      /\ UNCHANGED <<terminal, terminalErr, hasTool, sawContent, nextBlockIndex, active>>
  BY DEF Created
<1>2. CASE active = NoBlock
  <2>1. AtGap(emitted', nextBlockIndex) /\ Grown(emitted, emitted', FALSE, FALSE)
    BY <1>1, <1>2, Started
  <2>2. /\ terminalErr = "none"
        /\ hasTool <=> HasTool(emitted)
        /\ sawContent <=> HasBlock(emitted)
    BY <1>1, BeforeStep
  <2>3. TypeOK'
    BY <1>1, <2>1 DEF Inv, TypeOK, AtGap, Ordered, Events
  <2>4. Placed'
    BY <1>1, <1>2, <2>1 DEF Placed
  <2>5. Flagged'
    BY <1>1, <1>2, <2>1, <2>2 DEF Flagged, Grown
  <2> QED
    BY <1>1, <2>1, <2>2, <2>3, <2>4, <2>5, OpenStep
<1>3. CASE active # NoBlock
  <2>1. /\ emitted' = emitted /\ messageStarted = TRUE /\ active \in Blocks
    BY <1>1, <1>3, Started, ActiveBlock
  <2> QED
    BY <1>1, <1>3, <2>1, QuietStep
<1> QED
  BY <1>2, <1>3

LEMMA UpstreamFailureStep ==
    ASSUME Inv, UpstreamFailure
    PROVE  GoodStep
BY FailStep DEF UpstreamFailure, Fail, Inv, TypeOK

LEMMA ConversionFailureStep ==
    ASSUME Inv, ~terminal, Fail("conversion")
    PROVE  GoodStep
BY FailStep DEF Fail, Inv, TypeOK

LEMMA ToolAddedStep ==
    ASSUME Inv, NEW outputIndex \in OutputIndexes, NEW custom \in BOOLEAN,
           ToolAdded(outputIndex, custom)
    PROVE  GoodStep
<1>1. /\ ~terminal
      /\ OpenBlock(outputIndex, "tool_use", custom, NoSignature, <<>>)
      /\ hasTool' = (hasTool \/ "tool_use" = "tool_use")
      /\ UNCHANGED <<terminal, terminalErr>>
  BY DEF ToolAdded
<1>2. FirstDeltas("tool_use", <<>>) /\ "tool_use" \in BlockKinds
  BY DEF FirstDeltas, BlockKinds
<1> QED
  BY <1>1, <1>2, OpenBlockStep

LEMMA ReasoningAddedStep ==
    ASSUME Inv, NEW outputIndex \in OutputIndexes,
           NEW signature \in Signatures \cup {NoSignature},
           ReasoningAdded(outputIndex, signature)
    PROVE  GoodStep
<1>1. /\ ~terminal
      /\ OpenBlock(outputIndex, "thinking", FALSE, signature, <<>>)
      /\ hasTool' = (hasTool \/ "thinking" = "tool_use")
      /\ UNCHANGED <<terminal, terminalErr>>
  BY DEF ReasoningAdded, Inv, TypeOK
<1>2. FirstDeltas("thinking", <<>>) /\ "thinking" \in BlockKinds
  BY DEF FirstDeltas, BlockKinds
<1> QED
  BY <1>1, <1>2, OpenBlockStep

LEMMA ContentDeltaStep ==
    ASSUME Inv, ~terminal, NEW kind \in {"text", "thinking"},
           NEW outputIndex \in OutputIndexes, NEW data \in Strings,
           ContentDelta(kind, outputIndex, data)
    PROVE  GoodStep
<1>1. kind \in BlockKinds /\ kind # "tool_use"
  BY DEF BlockKinds
<1>2. DataDelta(kind) \in DOMAIN DeltaKind \ {"signature_delta"} /\ DeltaKind[DataDelta(kind)] = kind
  BY <1>1, DataDeltas
<1>3. CASE Continues(kind, outputIndex)
  <2>1. /\ SendDelta(DataDelta(kind), data)
        /\ active' = [active EXCEPT !.hadDelta = TRUE]
        /\ sawContent' = TRUE
        /\ UNCHANGED <<messageStarted, terminal, terminalErr, hasTool, nextBlockIndex>>
    BY <1>3 DEF ContentDelta
  <2>2. active.kind = kind /\ active # NoBlock
    BY <1>1, <1>3 DEF Continues, NoBlock, BlockKinds
  <2>3. active \in Blocks
    BY <2>2, ActiveBlock
  <2>4. /\ active' \in Blocks /\ active'.index = active.index /\ active'.kind = active.kind
        /\ active'.hadDelta = TRUE
    BY <2>1, <2>3 DEF Blocks
  <2> QED
    BY <1>2, <2>1, <2>2, <2>4, SendDeltaStep
<1>4. CASE ~Continues(kind, outputIndex)
  <2> DEFINE deltas == <<BlockDelta(IndexAfterClose, DataDelta(kind), data)>>
  <2>1. /\ OpenBlock(outputIndex, kind, FALSE, NoSignature, deltas)
        /\ UNCHANGED <<terminal, terminalErr>>
        /\ hasTool' = (hasTool \/ kind = "tool_use")
    BY <1>1, <1>4 DEF ContentDelta, Inv, TypeOK
  <2>2. FirstDeltas(kind, deltas)
    BY DEF FirstDeltas
  <2> HIDE DEF deltas
  <2> QED
    BY <1>1, <2>1, <2>2, OpenBlockStep
<1> QED
  BY <1>3, <1>4

LEMMA TextFragmentStrings ==
    ASSUME NEW fragment \in TextFragments
    PROVE  <<fragment>> \in Strings
BY SeqOfOne, TextTypes

LEMMA TextDeltaStep ==
    ASSUME Inv, NEW outputIndex \in OutputIndexes, NEW fragment \in TextFragments,
           TextDelta(outputIndex, fragment) \/ ReasoningDelta(outputIndex, fragment)
    PROVE  GoodStep
<1>1. <<fragment>> \in Strings
  BY TextFragmentStrings
<1>2. CASE TextDelta(outputIndex, fragment)
  BY <1>1, <1>2, ContentDeltaStep DEF TextDelta
<1>3. CASE ReasoningDelta(outputIndex, fragment)
  BY <1>1, <1>3, ContentDeltaStep DEF ReasoningDelta
<1> QED
  BY <1>2, <1>3

LEMMA TextDoneStep ==
    ASSUME Inv, NEW text \in TextStrings, TextDone(text)
    PROVE  GoodStep
<1>1. ~terminal
  BY DEF TextDone
<1>2. CASE active = NoBlock
  <2> DEFINE block == ContentBlock("text", text, NoSignature)
             t == emitted \o StartMessage
             u == t \o FullBlockEvents(nextBlockIndex, block)
  <2>1. /\ emitted' = u
        /\ messageStarted' = TRUE
        /\ sawContent' = TRUE
        /\ nextBlockIndex' = nextBlockIndex + 1
        /\ UNCHANGED <<terminal, terminalErr, hasTool, active>>
    BY <1>2 DEF TextDone, NoBlock
  <2>2. block \in ContentBlocks /\ block.kind = "text"
    <3>1. text \in Strings
      BY StringsAssumption, TextTypes
    <3> QED
      BY <3>1 DEF ContentBlock, ContentBlocks, BlockKinds
  <2>3. AtGap(t, nextBlockIndex) /\ Grown(emitted, t, FALSE, FALSE)
    BY <1>1, <1>2, Started
  <2>4. nextBlockIndex \in Nat
    BY DEF Inv, TypeOK
  <2> HIDE DEF t, block
  <2>5. AtGap(u, nextBlockIndex + 1) /\ Grown(t, u, block.kind = "tool_use", TRUE)
    BY <2>2, <2>3, <2>4, FullBlock
  <2> HIDE DEF u
  <2>6. Grown(t, u, FALSE, TRUE)
    BY <2>2, <2>5 DEF Grown
  <2>7. emitted \in Seq(Events) /\ t \in Seq(Events) /\ u \in Seq(Events)
    BY <2>3, <2>5 DEF AtGap, Ordered, Inv, TypeOK, Events
  <2>8. Grown(emitted, u, FALSE \/ FALSE, FALSE \/ TRUE)
    <3> DEFINE yes == TRUE
               no == FALSE
    <3>1. Grown(emitted, t, no, no) /\ Grown(t, u, no, yes) /\ yes \in BOOLEAN /\ no \in BOOLEAN
      BY <2>3, <2>6
    <3> HIDE DEF yes, no
    <3>2. Grown(emitted, u, no \/ no, no \/ yes)
      BY <2>7, <3>1, GrownTwice
    <3> QED
      BY <3>2 DEF yes, no
  <2>9. terminalErr = "none" /\ (hasTool <=> HasTool(emitted))
    BY <1>1, BeforeStep
  <2>10. TypeOK'
    BY <2>1, <2>4, <2>7 DEF Inv, TypeOK, Events
  <2>11. Placed'
    BY <1>2, <2>1, <2>5 DEF Placed
  <2>12. Flagged'
    BY <1>2, <2>1, <2>8, <2>9 DEF Flagged, Grown
  <2> QED
    BY <1>1, <2>1, <2>8, <2>9, <2>10, <2>11, <2>12, OpenStep
<1>3. CASE active # NoBlock
  <2>1. SendAndClose(<<>>)
    BY <1>3 DEF TextDone
  <2> QED
    BY <1>1, <1>3, <2>1, SendAndCloseStep DEF ActiveDeltas
<1> QED
  BY <1>2, <1>3

LEMMA ReasoningDoneStep ==
    ASSUME Inv, NEW text \in TextStrings, ReasoningDone(text)
    PROVE  GoodStep
<1>1. /\ ~terminal
      /\ active.kind = "thinking"
      /\ SendDelta("thinking_delta", text)
      /\ active' = [active EXCEPT !.hadDelta = TRUE]
      /\ UNCHANGED <<messageStarted, terminal, terminalErr, hasTool, sawContent, nextBlockIndex>>
  BY DEF ReasoningDone
<1>2. active # NoBlock
  BY <1>1 DEF NoBlock
<1>3. active \in Blocks /\ sawContent = TRUE
  BY <1>1, <1>2, ActiveBlock
<1>4. /\ active' \in Blocks /\ active'.index = active.index /\ active'.kind = active.kind
      /\ active'.hadDelta = TRUE
  BY <1>1, <1>3 DEF Blocks
<1>5. text \in Strings
  BY StringsAssumption, TextTypes
<1>6. "thinking_delta" \in DOMAIN DeltaKind \ {"signature_delta"}
      /\ DeltaKind["thinking_delta"] = active.kind
  BY <1>1, DeltaKinds
<1> QED
  BY <1>1, <1>2, <1>3, <1>4, <1>5, <1>6, SendDeltaStep

LEMMA MatchedTool ==
    ASSUME Inv, ~terminal, NEW outputIndex, NEW custom, ToolMatches(outputIndex, custom)
    PROVE  /\ active # NoBlock /\ active \in Blocks
           /\ active.kind = "tool_use" /\ active.custom = custom
           /\ active.buffer \in Seq(ArgFragments) /\ active.hadDelta \in BOOLEAN
           /\ "input_json_delta" \in DOMAIN DeltaKind \ {"signature_delta"}
           /\ DeltaKind["input_json_delta"] = active.kind
<1>1. active.kind = "tool_use" /\ active.custom = custom
  BY DEF ToolMatches
<1>2. active # NoBlock
  BY <1>1 DEF NoBlock
<1>3. active \in Blocks
  BY <1>2, ActiveBlock
<1> QED
  BY <1>1, <1>2, <1>3, BlockTypes, DeltaKinds

LEMMA ToolDeltaStep ==
    ASSUME Inv, NEW outputIndex \in OutputIndexes, NEW custom \in BOOLEAN,
           NEW fragment \in ArgFragments, ToolDelta(outputIndex, custom, fragment)
    PROVE  GoodStep
<1>1. ~terminal
  BY DEF ToolDelta
<1>2. CASE ToolMatches(outputIndex, custom)
  <2>1. /\ active # NoBlock /\ active \in Blocks
        /\ active.kind = "tool_use" /\ active.custom = custom
        /\ active.buffer \in Seq(ArgFragments) /\ active.hadDelta \in BOOLEAN
        /\ "input_json_delta" \in DOMAIN DeltaKind \ {"signature_delta"}
        /\ DeltaKind["input_json_delta"] = active.kind
    BY <1>1, <1>2, MatchedTool
  <2>2. /\ active' = [active EXCEPT !.buffer = Append(@, fragment), !.hadDelta = @ \/ ~custom]
        /\ IF custom THEN UNCHANGED emitted ELSE SendDelta("input_json_delta", <<fragment>>)
        /\ UNCHANGED <<messageStarted, terminal, terminalErr, hasTool, sawContent, nextBlockIndex>>
    BY <1>2 DEF ToolDelta
  <2> DEFINE buffer == Append(active.buffer, fragment)
             had == active.hadDelta \/ ~custom
  <2>3. active' = [active EXCEPT !.buffer = buffer, !.hadDelta = had]
    BY <2>1, <2>2
  <2>4. buffer \in Seq(ArgFragments) /\ had \in BOOLEAN
    BY <2>1
  <2>5. /\ custom => had = active.hadDelta
        /\ ~custom => had = TRUE
    BY <2>1
  <2> HIDE DEF buffer, had
  <2>6. /\ active' \in Blocks /\ active'.index = active.index /\ active'.kind = active.kind
        /\ active'.hadDelta = had
    BY <2>1, <2>3, <2>4 DEF Blocks
  <2>7. <<fragment>> \in Strings /\ sawContent = TRUE
    BY <1>1, <2>1, SeqOfOne, TextTypes, ActiveBlock
  <2>8. CASE custom
    BY <1>1, <2>1, <2>2, <2>5, <2>6, <2>8, QuietStep
  <2>9. CASE ~custom
    <3>1. SendDelta("input_json_delta", <<fragment>>)
      BY <2>2, <2>9
    <3> QED
      BY <1>1, <2>1, <2>2, <2>5, <2>6, <2>7, <2>9, <3>1, SendDeltaStep
  <2> QED
    BY <2>8, <2>9
<1>3. CASE ~ToolMatches(outputIndex, custom)
  BY <1>1, <1>3, ConversionFailureStep DEF ToolDelta
<1> QED
  BY <1>2, <1>3

LEMMA HandleToolDoneStep ==
    ASSUME Inv, ~terminal, NEW outputIndex \in OutputIndexes, NEW custom \in BOOLEAN,
           NEW value \in ArgStrings, HandleToolDone(outputIndex, custom, value)
    PROVE  GoodStep
<1>1. CASE ~ToolMatches(outputIndex, custom)
  <2>1. Fail("conversion")
    BY <1>1 DEF HandleToolDone, CustomDone, FunctionDone
  <2> QED
    BY <2>1, ConversionFailureStep
<1>2. CASE ToolMatches(outputIndex, custom)
  <2>1. /\ active # NoBlock
        /\ active.buffer \in Seq(ArgFragments)
        /\ "input_json_delta" \in DOMAIN DeltaKind \ {"signature_delta"}
        /\ DeltaKind["input_json_delta"] = active.kind
    BY <1>2, MatchedTool
  <2>2. Complete(value) \in Seq(ArgFragments)
    BY <2>1, StringsAssumption DEF Complete
  <2>3. CustomToolInput(Complete(value)) \in Strings
        /\ SentArguments(Complete(value)) \in Strings
    BY <2>2, TextTypes DEF SentArguments
  <2>4. ASSUME NEW data \in Strings
        PROVE  ActiveDeltas(<<BlockDelta(active.index, "input_json_delta", data)>>)
    BY <2>1 DEF ActiveDeltas
  <2>5. CASE custom
    <3>1. SendAndClose(<<BlockDelta(active.index, "input_json_delta",
                                    CustomToolInput(Complete(value)))>>)
      BY <1>2, <2>5 DEF HandleToolDone, CustomDone
    <3>2. ActiveDeltas(<<BlockDelta(active.index, "input_json_delta",
                                    CustomToolInput(Complete(value)))>>)
      BY <2>3, <2>4
    <3> QED
      BY <2>1, <3>1, <3>2, SendAndCloseStep
  <2>6. CASE ~custom
    <3>1. IF ValidArguments(Complete(value))
          THEN SendAndClose(IF active.hadDelta THEN <<>>
                            ELSE <<BlockDelta(active.index, "input_json_delta",
                                              SentArguments(Complete(value)))>>)
          ELSE Fail("conversion")
      BY <1>2, <2>6 DEF HandleToolDone, FunctionDone
    <3>2. ActiveDeltas(<<>>)
      BY DEF ActiveDeltas
    <3>3. ActiveDeltas(<<BlockDelta(active.index, "input_json_delta",
                                    SentArguments(Complete(value)))>>)
      BY <2>3, <2>4
    <3>4. CASE ~ValidArguments(Complete(value))
      BY <3>1, <3>4, ConversionFailureStep
    <3>5. CASE ValidArguments(Complete(value)) /\ active.hadDelta
      <4>1. SendAndClose(<<>>)
        BY <3>1, <3>5
      <4> QED
        BY <2>1, <3>2, <4>1, SendAndCloseStep
    <3>6. CASE ValidArguments(Complete(value)) /\ ~active.hadDelta
      <4>1. SendAndClose(<<BlockDelta(active.index, "input_json_delta",
                                      SentArguments(Complete(value)))>>)
        BY <3>1, <3>6
      <4> QED
        BY <2>1, <3>3, <4>1, SendAndCloseStep
    <3> QED
      BY <3>4, <3>5, <3>6
  <2> QED
    BY <2>5, <2>6
<1> QED
  BY <1>1, <1>2

LEMMA ItemDoneStep ==
    ASSUME Inv, NEW outputIndex \in OutputIndexes, NEW item \in Items,
           ItemDone(outputIndex, item)
    PROVE  GoodStep
<1>1. ~terminal /\ active # NoBlock
  BY DEF ItemDone
<1>2. CASE active.outputIndex # outputIndex
  <2>1. Fail("conversion")
    BY <1>2 DEF ItemDone
  <2> QED
    BY <1>1, <2>1, ConversionFailureStep
<1>3. CASE active.outputIndex = outputIndex /\ item.type = "reasoning"
  <2> DEFINE block == Signed(item.signature)
  <2>1. /\ emitted' = emitted \o Closing(block)
        /\ active' = NoBlock
        /\ nextBlockIndex' = nextBlockIndex + 1
        /\ UNCHANGED <<messageStarted, terminal, terminalErr, hasTool, sawContent>>
    BY <1>3 DEF ItemDone
  <2>2. item.signature \in Signatures \cup {NoSignature}
    BY <1>3 DEF Items
  <2>3. /\ active \in Blocks /\ active.index \in Nat /\ active.kind \in BlockKinds
        /\ InBlock(emitted, active.index, active.kind)
    BY <1>1, ActiveBlock
  <2>4. /\ block.index = active.index /\ block.kind = active.kind
        /\ block.signature \in Signatures \cup {NoSignature}
    <3>1. active.signature \in Signatures \cup {NoSignature}
      BY <2>3, BlockTypes
    <3> QED
      BY <2>2, <2>3, <3>1 DEF Signed, Blocks
  <2> HIDE DEF block
  <2> DEFINE t == emitted \o Closing(block)
  <2>5. AtGap(t, block.index + 1) /\ Grown(emitted, t, FALSE, FALSE)
    <3>1. block.index \in Nat /\ block.kind \in BlockKinds /\ InBlock(emitted, block.index, block.kind)
      BY <2>3, <2>4
    <3> QED
      BY <2>4, <3>1, CloseBlock
  <2>6. AtGap(emitted', active.index + 1) /\ Grown(emitted, emitted', FALSE, FALSE)
    BY <2>1, <2>4, <2>5
  <2> QED
    BY <1>1, <2>1, <2>6, CloseStep
<1>4. CASE active.outputIndex = outputIndex /\ item.type = "function_call"
  <2>1. HandleToolDone(outputIndex, FALSE, item.arguments)
    BY <1>4 DEF ItemDone
  <2>2. item.arguments \in ArgStrings
    BY <1>4 DEF Items
  <2> QED
    BY <1>1, <2>1, <2>2, HandleToolDoneStep
<1>5. CASE active.outputIndex = outputIndex /\ item.type = "custom_tool_call"
  <2>1. HandleToolDone(outputIndex, TRUE, item.input)
    BY <1>5 DEF ItemDone
  <2>2. item.input \in ArgStrings
    BY <1>5 DEF Items
  <2> QED
    BY <1>1, <2>1, <2>2, HandleToolDoneStep
<1>6. CASE active.outputIndex = outputIndex /\ item.type = "message"
  <2>1. SendAndClose(<<>>)
    BY <1>6 DEF ItemDone
  <2> QED
    BY <1>1, <2>1, SendAndCloseStep DEF ActiveDeltas
<1> QED
  BY <1>2, <1>3, <1>4, <1>5, <1>6 DEF Items

LEMMA HandleTerminalStep ==
    ASSUME Inv, NEW type \in TerminalTypes, NEW response \in Responses,
           HandleTerminal(type, response)
    PROVE  GoodStep
<1> DEFINE uses == UsesOutput(response)
           blocks == IF uses THEN OutputBlocks(response.output) ELSE <<>>
           calls == uses /\ OutputHasTool(response.output)
           tool == hasTool \/ calls
           reason == StopReasonFor(TerminalStatus(type, response), response.maxTokens, tool)
           t == (emitted \o StartMessage) \o CloseActive
           u == t \o StreamFullOutput(blocks, nextBlockIndex)
           v == u \o <<MessageDelta(reason), MessageStop>>
<1>1. ~terminal
  BY DEF HandleTerminal
<1>2. CASE response.status = "failed"
  <2>1. Fail("upstream")
    BY <1>2 DEF HandleTerminal
  <2> QED
    BY <1>1, <2>1, FailStep DEF Fail, Inv, TypeOK
<1>3. CASE response.status # "failed" /\ uses /\ ~ValidOutput(response.output)
  <2>1. messageStarted' = TRUE /\ FailWith("conversion")
    BY <1>3 DEF HandleTerminal
  <2> QED
    BY <1>1, <2>1, FailStep
<1>4. CASE response.status # "failed" /\ (uses => ValidOutput(response.output))
  <2>1. /\ emitted' = v
        /\ active' = NoBlock
        /\ nextBlockIndex' = IndexAfterClose + Len(blocks)
        /\ hasTool' = tool
        /\ messageStarted' = TRUE
        /\ terminal' = TRUE
        /\ UNCHANGED <<terminalErr, sawContent>>
    BY <1>4 DEF HandleTerminal
  <2>2. /\ hasTool \in BOOLEAN /\ sawContent \in BOOLEAN /\ emitted \in Seq(Events)
        /\ terminalErr = "none" /\ (hasTool <=> HasTool(emitted))
        /\ active # NoBlock => sawContent
    BY <1>1, BeforeStep DEF Inv, TypeOK, Events
  <2>3. blocks \in Seq(ContentBlocks) /\ (ToolBlock(blocks) <=> calls)
    <3>1. response.output \in Seq(OutputItems)
      BY OutputsAssumption DEF Responses
    <3>2. CASE uses
      BY <3>1, <3>2, BlocksOfOutput
    <3>3. CASE ~uses
      BY <3>3 DEF ToolBlock
    <3> QED
      BY <3>2, <3>3
  <2>4. calls \in BOOLEAN /\ tool \in BOOLEAN
    BY <2>2
  <2>5. /\ IndexAfterClose \in Nat
        /\ AtGap(t, IndexAfterClose)
        /\ Grown(emitted, t, FALSE, FALSE)
    BY <1>1, Closed
  <2>6. StreamFullOutput(blocks, nextBlockIndex) = StreamFullOutput(blocks, IndexAfterClose)
    <3>1. CASE active = NoBlock
      BY <3>1 DEF IndexAfterClose
    <3>2. CASE active # NoBlock
      <4>1. blocks = <<>>
        BY <2>2, <3>2 DEF UsesOutput
      <4> QED
        BY <4>1 DEF StreamFullOutput
    <3> QED
      BY <3>1, <3>2
  <2>7. reason \in {"end_turn", "max_tokens", "tool_use"} /\ (reason = "tool_use" => tool)
    BY DEF StopReasonFor
  <2> HIDE DEF t, blocks, calls, reason, uses
  <2>8. /\ AtGap(u, IndexAfterClose + Len(blocks))
        /\ Grown(t, u, ToolBlock(blocks), blocks # <<>>)
    <3> DEFINE w == t \o StreamFullOutput(blocks, IndexAfterClose)
    <3>1. /\ AtGap(w, IndexAfterClose + Len(blocks))
          /\ Grown(t, w, ToolBlock(blocks), blocks # <<>>)
      BY <2>3, <2>5, FullOutput DEF ToolBlock
    <3> QED
      BY <2>6, <3>1
  <2> HIDE DEF u
  <2>9. HasTool(u) <=> tool
    BY <2>2, <2>3, <2>5, <2>8 DEF Grown
  <2>10. /\ v \in Seq(Events) /\ v # <<>> /\ v[Len(v)] = MessageStop
         /\ StrictOrder(v)
         /\ HonestStopReason(v)
         /\ Grown(u, v, FALSE, FALSE)
    BY <2>7, <2>8, <2>9, EndMessage
  <2> HIDE DEF v
  <2>11. HasTool(v) <=> tool
    BY <2>9, <2>10 DEF Grown
  <2>12. Grown(emitted, v, HasTool(v), HasBlock(v))
    <3>1. /\ Len(emitted) \in Nat /\ Len(t) \in Nat /\ Len(u) \in Nat /\ Len(v) \in Nat
      BY <2>2, <2>5, <2>8, <2>10 DEF AtGap, Ordered
    <3>2. Len(emitted) <= Len(v) /\ \A i \in 1 .. Len(emitted) : v[i] = emitted[i]
      BY <2>5, <2>8, <2>10, <3>1 DEF Grown
    <3>3. /\ HasTool(v) <=> HasTool(emitted) \/ HasTool(v)
          /\ HasBlock(v) <=> HasBlock(emitted) \/ HasBlock(v)
      BY <2>5, <2>8, <2>10 DEF Grown
    <3> QED
      BY <3>2, <3>3 DEF Grown
  <2>13. TypeOK'
    <3>1. Len(blocks) \in Nat /\ nextBlockIndex' \in Nat
      BY <2>1, <2>3, <2>5
    <3>2. emitted' \in Seq(ClientEvents(Strings))
      BY <2>1, <2>10 DEF Events
    <3>3. hasTool' \in BOOLEAN
      BY <2>1, <2>4
    <3> QED
      BY <2>1, <2>2, <3>1, <3>2, <3>3 DEF TypeOK
  <2>14. hasTool' <=> HasTool(emitted')
    BY <2>1, <2>11
  <2> QED
    BY <1>1, <2>1, <2>2, <2>10, <2>12, <2>13, <2>14, EndStep
<1> QED
  BY <1>2, <1>3, <1>4 DEF HandleTerminal

-----------------------------------------------------------------------------
(* The input the client puts together for a tool call *)

LEMMA InputTypes ==
    ASSUME NEW e \in Events, NEW index
    PROVE  InputOf(e, index) \in Strings
<1>1. <<>> \in Strings
  BY DEF Strings
<1>2. e.type = "content_block_delta" => e.data \in Strings
  BY DEF Events, ClientEvents, MessageStart, MessageStop
<1> QED
  BY <1>1, <1>2 DEF InputOf

\* One more event adds its own input.
LEMMA ClientInputOneMore ==
    ASSUME NEW s \in Seq(Events), NEW e \in Events, NEW index
    PROVE  /\ ClientInput(s, index) \in Strings
           /\ ClientInput(s \o <<e>>, index) = ClientInput(s, index) \o InputOf(e, index)
<1> DEFINE n == Len(s)
           t == s \o <<e>>
           ss == [i \in 1 .. n |-> InputOf(s[i], index)]
           tt == [i \in 1 .. n + 1 |-> InputOf(t[i], index)]
<1>1. /\ n \in Nat /\ \A i \in 1 .. n : s[i] \in Events
      /\ Len(t) = n + 1 /\ t[n + 1] = e /\ \A i \in 1 .. n : t[i] = s[i]
  OBVIOUS
<1> HIDE DEF n, t
<1>2. \A i \in 1 .. n + 1 : t[i] \in Events
  <2>1. \A i \in 1 .. n + 1 : i \in 1 .. n \/ i = n + 1
    BY <1>1
  <2> QED
    BY <1>1, <2>1
<1>3. ss \in [1 .. n -> Strings]
  BY <1>1, InputTypes
<1>4. tt \in [1 .. n + 1 -> Strings]
  BY <1>2, InputTypes
<1>5. \A i \in 1 .. n : tt[i] = ss[i]
  BY <1>1
<1>6. tt[n + 1] = InputOf(e, index)
  BY <1>1
<1>7. ClientInput(s, index) = FlattenSeq(ss) /\ ClientInput(t, index) = FlattenSeq(tt)
  BY <1>1 DEF ClientInput, n
<1> HIDE DEF ss, tt
<1>8. FlattenSeq(ss) \in Strings /\ FlattenSeq(tt) = FlattenSeq(ss) \o tt[n + 1]
  BY <1>1, <1>3, <1>4, <1>5, FlattenSeqOneMore DEF Strings
<1> QED
  BY <1>6, <1>7, <1>8 DEF t

\* No delta was sent in block index.
NoDelta(s, index) ==
    \A i \in 1 .. Len(s) : ~(s[i].type = "content_block_delta" /\ s[i].index = index)

LEMMA NoDeltaNoInput ==
    ASSUME NEW s \in Seq(Events), NEW index, NoDelta(s, index)
    PROVE  ClientInput(s, index) = <<>>
<1> DEFINE n == Len(s)
           ss == [i \in 1 .. n |-> InputOf(s[i], index)]
<1>1. n \in Nat
  OBVIOUS
<1>2. ss \in [1 .. n -> {<<>>}]
  BY DEF NoDelta, InputOf
<1>3. ClientInput(s, index) = FlattenSeq(ss)
  BY DEF ClientInput
<1> HIDE DEF n, ss
<1> QED
  BY <1>1, <1>2, <1>3, FlattenSeqOfEmpties

\* The number that the next block may have at most, once e was sent.
Bound(e) ==
    IF e.type = "message_start" THEN 0
    ELSE IF e.type = "content_block_start" THEN e.index
    ELSE e.index + 1

LEMMA BoundGrows ==
    ASSUME NEW e \in Events, NEW f \in Events, e.type \notin EndTypes, f.type \notin EndTypes,
           Follows(e, f)
    PROVE  Bound(e) <= Bound(f)
<1>1. CASE f.type = "content_block_start"
  <2>1. f.index \in Nat /\ Between(e, f.index)
    BY <1>1 DEF Events, ClientEvents, MessageStart, MessageStop, Follows
  <2>2. CASE e = MessageStart /\ f.index = 0
    BY <1>1, <2>1, <2>2 DEF Bound, MessageStart
  <2>3. CASE e = BlockStop(f.index - 1)
    BY <1>1, <2>1, <2>3 DEF Bound, BlockStop
  <2> QED
    BY <2>1, <2>2, <2>3 DEF Between
<1>2. CASE f.type = "content_block_delta"
  <2>1. f.index \in Nat /\ Inside(e, f.index, DeltaKind[f.delta])
    BY <1>2 DEF Events, ClientEvents, MessageStart, MessageStop, Follows
  <2>2. e.type \in {"content_block_start", "content_block_delta"} /\ e.index = f.index
    BY <2>1 DEF Inside, BlockStart
  <2> QED
    BY <1>2, <2>1, <2>2 DEF Bound
<1>3. CASE f.type = "content_block_stop"
  <2>1. f.index \in Nat /\ Stoppable(e, f.index)
    BY <1>3 DEF Events, ClientEvents, MessageStart, MessageStop, Follows
  <2> QED
    BY <1>3, <2>1 DEF Bound, Stoppable
<1> QED
  BY <1>1, <1>2, <1>3 DEF EndTypes, Follows

LEMMA BoundTypes ==
    ASSUME NEW e \in Events, e.type \notin EndTypes
    PROVE  /\ Bound(e) \in Nat
           /\ e.type = "content_block_delta" => e.index \in Nat /\ e.index < Bound(e)
BY DEF Events, ClientEvents, MessageStart, MessageStop, EndTypes, Bound

\* A block that was just started has a number that no delta has had.
LEMMA FreshBlock ==
    ASSUME NEW s, Ordered(s), s # <<>>, NEW index \in Nat, NEW kind,
           s[Len(s)] = BlockStart(index, kind)
    PROVE  NoDelta(s, index)
<1> DEFINE Below(m) == \A j \in 1 .. m : s[j].type = "content_block_delta" =>
                                            s[j].index < Bound(s[m])
           K == {m \in Nat : m + 1 <= Len(s) => Below(m + 1)}
<1>1. /\ s \in Seq(Events) /\ Len(s) \in Nat /\ Len(s) # 0
      /\ \A i \in 1 .. Len(s) : s[i] \in Events /\ s[i].type \notin EndTypes
  BY EmptySeq DEF Ordered
<1>2. \A i \in 1 .. Len(s) - 1 : Follows(s[i], s[i + 1])
  BY DEF Ordered, StrictOrder
<1>3. 0 \in K
  <2> SUFFICES ASSUME 0 + 1 <= Len(s), NEW j \in 1 .. 0 + 1, s[j].type = "content_block_delta"
               PROVE  s[j].index < Bound(s[0 + 1])
    OBVIOUS
  <2>1. j = 0 + 1 /\ j \in 1 .. Len(s)
    OBVIOUS
  <2> QED
    BY <1>1, <2>1, BoundTypes
<1>4. ASSUME NEW m \in Nat, m \in K
      PROVE  m + 1 \in K
  <2> SUFFICES ASSUME (m + 1) + 1 <= Len(s), NEW j \in 1 .. (m + 1) + 1,
                      s[j].type = "content_block_delta"
               PROVE  s[j].index < Bound(s[(m + 1) + 1])
    OBVIOUS
  <2>1. /\ m + 1 \in 1 .. Len(s) - 1 /\ m + 1 \in 1 .. Len(s) /\ (m + 1) + 1 \in 1 .. Len(s)
        /\ j \in 1 .. Len(s)
    BY <1>1
  <2>2. CASE j = (m + 1) + 1
    BY <1>1, <2>1, <2>2, BoundTypes
  <2>3. CASE j \in 1 .. m + 1
    <3>1. s[j].index < Bound(s[m + 1])
      BY <1>1, <1>4, <2>1, <2>3
    <3>2. Bound(s[m + 1]) <= Bound(s[(m + 1) + 1])
      BY <1>1, <1>2, <2>1, BoundGrows
    <3>3. s[j].index \in Nat /\ Bound(s[m + 1]) \in Nat /\ Bound(s[(m + 1) + 1]) \in Nat
      BY <1>1, <2>1, BoundTypes
    <3> QED
      BY <3>1, <3>2, <3>3
  <2> QED
    BY <2>2, <2>3
<1>5. Below(Len(s))
  <2>1. Len(s) - 1 \in Nat
    BY <1>1
  <2>2. Len(s) - 1 \in K
    <3> HIDE DEF K
    <3> QED
      BY <1>3, <1>4, <2>1, SetInduction
  <2>3. (Len(s) - 1) + 1 = Len(s)
    BY <1>1
  <2> QED
    BY <1>1, <2>2, <2>3
<1>6. Bound(s[Len(s)]) = index
  BY DEF Bound, BlockStart
<1> QED
  BY <1>1, <1>5, <1>6, BoundTypes DEF NoDelta

\* Closing a tool call adds nothing to its input.
LEMMA ClosingToolInput ==
    ASSUME NEW s \in Seq(Events), NEW block, block.index \in Nat, block.kind = "tool_use"
    PROVE  ClientInput(s \o Closing(block), block.index) = ClientInput(s, block.index)
<1> DEFINE e == BlockStop(block.index)
<1>1. SignatureEvents(block.index, block.kind, block.signature) = <<>>
  BY DEF SignatureEvents
<1>2. e \in Events /\ InputOf(e, block.index) = <<>>
  BY EventTypes DEF InputOf, BlockStop
<1> HIDE DEF e
<1>3. <<e>> \in Seq(Events)
  BY <1>2
<1>4. Closing(block) = <<e>>
  <2>1. <<>> \o <<e>> = <<e>>
    BY <1>3, ConcatEmptySeq
  <2> QED
    BY <1>1, <2>1 DEF Closing, e
<1>5. /\ ClientInput(s, block.index) \in Strings
      /\ ClientInput(s \o <<e>>, block.index) = ClientInput(s, block.index) \o <<>>
  BY <1>2, ClientInputOneMore
<1>6. ClientInput(s, block.index) \o <<>> = ClientInput(s, block.index)
  BY <1>5, ConcatEmptySeq DEF Strings
<1> QED
  BY <1>4, <1>5, <1>6

-----------------------------------------------------------------------------
(* The invariant *)

LEMMA InitInv == Init => Inv /\ Client!Init
<1> SUFFICES ASSUME Init PROVE Inv /\ Client!Init
  OBVIOUS
<1>1. Outcome = "open"
  BY DEF Init, Outcome
<1>2. TypeOK
  <2>1. emitted \in Seq(Events)
    BY DEF Init
  <2>2. active \in Blocks \cup {NoBlock}
    BY DEF Init
  <2> QED
    BY <2>1, <2>2 DEF Init, TypeOK, Events
<1>3. CursorMatchesStream
  BY <1>1 DEF Init, CursorMatchesStream
<1>4. FlagsMatchStream
  BY <1>1 DEF Init, FlagsMatchStream, HasTool, HasBlock
<1>5. StreamInOrder
  BY <1>1 DEF Init, StreamInOrder, StrictOrder, HonestStopReason, Ordered
<1>6. Client!Init
  BY <1>1 DEF Init, Client!Init
<1> QED
  BY <1>2, <1>3, <1>4, <1>5, <1>6 DEF Inv

LEMMA NextGood ==
    ASSUME Inv, [Next]_vars
    PROVE  GoodStep
<1>1. CASE UNCHANGED vars
  <2>1. Inv'
    BY <1>1 DEF vars, converterVars, Inv, TypeOK, CursorMatchesStream, FlagsMatchStream,
                StreamInOrder, Outcome
  <2>2. UNCHANGED Client!streamVars
    BY <1>1 DEF vars, converterVars, Client!streamVars, Outcome
  <2> QED
    BY <2>1, <2>2 DEF GoodStep
<1>2. CASE StreamEvent
  <2>1. CASE Created
    BY <2>1, CreatedStep
  <2>2. ASSUME NEW outputIndex \in OutputIndexes, ItemEvent(outputIndex)
        PROVE  GoodStep
    <3>1. CASE \E custom \in BOOLEAN : ToolAdded(outputIndex, custom)
      BY <3>1, ToolAddedStep
    <3>2. CASE \E signature \in Signatures \cup {NoSignature} : ReasoningAdded(outputIndex, signature)
      BY <3>2, ReasoningAddedStep
    <3>3. CASE \E fragment \in TextFragments : TextDelta(outputIndex, fragment)
      BY <3>3, TextDeltaStep
    <3>4. CASE \E fragment \in TextFragments : ReasoningDelta(outputIndex, fragment)
      BY <3>4, TextDeltaStep
    <3>5. CASE \E custom \in BOOLEAN, fragment \in ArgFragments :
                 ToolDelta(outputIndex, custom, fragment)
      BY <3>5, ToolDeltaStep
    <3>6. CASE \E custom \in BOOLEAN, value \in ArgStrings : ToolDone(outputIndex, custom, value)
      BY <3>6, HandleToolDoneStep DEF ToolDone
    <3>7. CASE \E item \in Items : ItemDone(outputIndex, item)
      BY <3>7, ItemDoneStep
    <3> QED
      BY <2>2, <3>1, <3>2, <3>3, <3>4, <3>5, <3>6, <3>7 DEF ItemEvent
  <2>3. CASE \E text \in TextStrings : TextDone(text)
    BY <2>3, TextDoneStep
  <2>4. CASE \E text \in TextStrings : ReasoningDone(text)
    BY <2>4, ReasoningDoneStep
  <2> QED
    BY <1>2, <2>1, <2>2, <2>3, <2>4 DEF StreamEvent
<1>3. CASE TerminalEvent
  BY <1>3, UpstreamFailureStep, HandleTerminalStep DEF TerminalEvent
<1> QED
  BY <1>1, <1>2, <1>3 DEF Next

-----------------------------------------------------------------------------
(* Tool calls: what is buffered and what was sent *)

\* Something was sent in the block of a function call exactly if something is buffered
\* for it; nothing is sent in the block of a custom call before it ends.
BufferCounts ==
    active.kind = "tool_use" =>
        (active.hadDelta <=> ~active.custom /\ active.buffer # <<>>)

ToolInv == Inv /\ BufferMirrorsClient /\ BufferCounts

GoodBuffer == BufferMirrorsClient' /\ BufferCounts'

LEMMA SameBuffer ==
    ASSUME ToolInv, UNCHANGED <<active, emitted>>
    PROVE  GoodBuffer
BY DEF ToolInv, GoodBuffer, BufferMirrorsClient, BufferCounts

LEMMA NoTool ==
    ASSUME active'.kind # "tool_use"
    PROVE  GoodBuffer
BY DEF GoodBuffer, BufferMirrorsClient, BufferCounts

LEMMA NoBlockBuffer ==
    ASSUME active' = NoBlock
    PROVE  GoodBuffer
<1>1. active'.kind # "tool_use"
  BY DEF NoBlock
<1> QED
  BY <1>1, NoTool

LEMMA ToolAddedBuffer ==
    ASSUME ToolInv, NEW outputIndex \in OutputIndexes, NEW custom \in BOOLEAN,
           ToolAdded(outputIndex, custom)
    PROVE  GoodBuffer
<1> DEFINE index == IndexAfterClose
           t == (emitted \o StartMessage) \o CloseActive
           u == t \o <<BlockStart(index, "tool_use")>>
           block == Block(index, outputIndex, "tool_use", custom, NoSignature)
<1>1. ~terminal /\ OpenBlock(outputIndex, "tool_use", custom, NoSignature, <<>>)
  BY DEF ToolAdded
<1>2. index \in Nat /\ AtGap(t, index)
  BY <1>1, Closed DEF ToolInv
<1>3. emitted' = u \o <<>> /\ active' = [block EXCEPT !.hadDelta = (<<>> # <<>>)]
  BY <1>1 DEF OpenBlock, Block
<1>4. /\ active'.index = index /\ active'.custom = custom /\ active'.buffer = <<>>
      /\ active'.hadDelta = FALSE
  BY <1>3 DEF Block
<1> HIDE DEF t, index, block
<1>5. InBlock(u, index, "tool_use") /\ u[Len(u)].type = "content_block_start"
  BY <1>2, StartBlock DEF BlockKinds
<1>6. Ordered(u) /\ u # <<>> /\ u \in Seq(Events)
  BY <1>5 DEF InBlock, Ordered
<1>7. u[Len(u)] = BlockStart(index, "tool_use")
  BY <1>5 DEF InBlock, Inside
<1> HIDE DEF u
<1>8. emitted' = u
  BY <1>3, <1>6, ConcatEmptySeq
<1>9. ClientInput(u, index) = <<>>
  BY <1>2, <1>6, <1>7, FreshBlock, NoDeltaNoInput
<1> QED
  BY <1>4, <1>8, <1>9 DEF GoodBuffer, BufferMirrorsClient, BufferCounts

LEMMA ContentDeltaBuffer ==
    ASSUME ToolInv, ~terminal, NEW kind \in {"text", "thinking"}, NEW outputIndex, NEW data,
           ContentDelta(kind, outputIndex, data)
    PROVE  GoodBuffer
<1>1. CASE Continues(kind, outputIndex)
  <2>1. active.kind = kind /\ active # NoBlock
    BY <1>1 DEF Continues, NoBlock
  <2>2. active \in Blocks
    BY <2>1, ActiveBlock DEF ToolInv
  <2>3. active' = [active EXCEPT !.hadDelta = TRUE]
    BY <1>1 DEF ContentDelta
  <2>4. active'.kind = kind
    BY <2>1, <2>2, <2>3 DEF Blocks
  <2> QED
    BY <2>4, NoTool
<1>2. CASE ~Continues(kind, outputIndex)
  <2>1. OpenBlock(outputIndex, kind, FALSE, NoSignature,
                  <<BlockDelta(IndexAfterClose, DataDelta(kind), data)>>)
    BY <1>2 DEF ContentDelta
  <2>2. active'.kind = kind
    BY <2>1 DEF OpenBlock, Block
  <2> QED
    BY <2>2, NoTool
<1> QED
  BY <1>1, <1>2

LEMMA ReasoningAddedBuffer ==
    ASSUME NEW outputIndex, NEW signature, ReasoningAdded(outputIndex, signature)
    PROVE  GoodBuffer
<1>1. active'.kind = "thinking"
  BY DEF ReasoningAdded, OpenBlock, Block
<1> QED
  BY <1>1, NoTool

LEMMA ReasoningDoneBuffer ==
    ASSUME ToolInv, NEW text, ReasoningDone(text)
    PROVE  GoodBuffer
<1>1. ~terminal /\ active.kind = "thinking" /\ active' = [active EXCEPT !.hadDelta = TRUE]
  BY DEF ReasoningDone
<1>2. active \in Blocks
  <2>1. active # NoBlock
    BY <1>1 DEF NoBlock
  <2> QED
    BY <1>1, <2>1, ActiveBlock DEF ToolInv
<1>3. active'.kind = "thinking"
  BY <1>1, <1>2 DEF Blocks
<1> QED
  BY <1>3, NoTool

LEMMA ToolDeltaBuffer ==
    ASSUME ToolInv, NEW outputIndex, NEW custom \in BOOLEAN, NEW fragment \in ArgFragments,
           ToolDelta(outputIndex, custom, fragment)
    PROVE  GoodBuffer
<1>1. ~terminal
  BY DEF ToolDelta
<1>2. CASE ~ToolMatches(outputIndex, custom)
  BY <1>2, SameBuffer DEF ToolDelta, Fail, FailWith
<1>3. CASE ToolMatches(outputIndex, custom)
  <2> DEFINE index == active.index
             e == BlockDelta(index, "input_json_delta", <<fragment>>)
             buffer == Append(active.buffer, fragment)
             had == active.hadDelta \/ ~custom
  <2>1. /\ active \in Blocks /\ active # NoBlock
        /\ active.kind = "tool_use" /\ active.custom = custom
        /\ active.buffer \in Seq(ArgFragments) /\ active.hadDelta \in BOOLEAN
    BY <1>1, <1>3, MatchedTool DEF ToolInv
  <2>2. /\ active' = [active EXCEPT !.buffer = buffer, !.hadDelta = had]
        /\ IF custom THEN UNCHANGED emitted ELSE SendDelta("input_json_delta", <<fragment>>)
    BY <1>3, <2>1 DEF ToolDelta
  <2>3. /\ ClientInput(emitted, index) = IF custom THEN <<>> ELSE active.buffer
        /\ active.hadDelta <=> ~custom /\ active.buffer # <<>>
    BY <2>1 DEF ToolInv, BufferMirrorsClient, BufferCounts
  <2>4. buffer # <<>> /\ buffer = active.buffer \o <<fragment>>
    BY <2>1
  <2>5. had <=> ~custom
    BY <2>3
  <2>6. index \in Nat /\ emitted \in Seq(Events)
    BY <1>1, <2>1, ActiveBlock DEF ToolInv
  <2> HIDE DEF buffer, had, index
  <2>7. /\ active'.index = active.index /\ active'.custom = custom
        /\ active'.buffer = buffer /\ active'.hadDelta = had
    BY <2>1, <2>2 DEF Blocks
  <2>8. ClientInput(emitted', index) = IF custom THEN <<>> ELSE buffer
    <3>1. CASE custom
      BY <2>2, <2>3, <3>1
    <3>2. CASE ~custom
      <4>1. <<fragment>> \in Strings
        BY SeqOfOne, TextTypes
      <4>2. "input_json_delta" \in DOMAIN DeltaKind
        BY DeltaKinds
      <4>3. e \in Events
        BY <2>6, <4>1, <4>2, EventTypes
      <4>4. InputOf(e, index) = <<fragment>>
        BY DEF InputOf, BlockDelta
      <4>5. emitted' = Append(emitted, e)
        BY <2>2, <3>2 DEF SendDelta, index
      <4> HIDE DEF e
      <4>6. emitted' = emitted \o <<e>>
        BY <2>6, <4>3, <4>5, AppendIsConcat
      <4>7. ClientInput(emitted', index) = ClientInput(emitted, index) \o <<fragment>>
        BY <2>6, <4>3, <4>4, <4>6, ClientInputOneMore
      <4> QED
        BY <2>3, <2>4, <3>2, <4>7
    <3> QED
      BY <3>1, <3>2
  <2> QED
    BY <2>4, <2>5, <2>7, <2>8 DEF GoodBuffer, BufferMirrorsClient, BufferCounts, index
<1> QED
  BY <1>2, <1>3

LEMMA HandleToolDoneBuffer ==
    ASSUME ToolInv, NEW outputIndex, NEW custom \in BOOLEAN, NEW value,
           HandleToolDone(outputIndex, custom, value)
    PROVE  GoodBuffer
<1>1. CASE Fail("conversion")
  BY <1>1, SameBuffer DEF Fail, FailWith
<1>2. CASE \E events : SendAndClose(events)
  BY <1>2, NoBlockBuffer DEF SendAndClose
<1> QED
  BY <1>1, <1>2 DEF HandleToolDone, CustomDone, FunctionDone

LEMMA ItemDoneBuffer ==
    ASSUME ToolInv, NEW outputIndex, NEW item \in Items, ItemDone(outputIndex, item)
    PROVE  GoodBuffer
<1>1. CASE Fail("conversion")
  BY <1>1, SameBuffer DEF Fail, FailWith
<1>2. CASE active' = NoBlock
  BY <1>2, NoBlockBuffer
<1>3. CASE \E custom \in BOOLEAN : \E value : HandleToolDone(outputIndex, custom, value)
  BY <1>3, HandleToolDoneBuffer
<1> QED
  BY <1>1, <1>2, <1>3 DEF ItemDone, SendAndClose

LEMMA CreatedBuffer ==
    ASSUME ToolInv, Created
    PROVE  GoodBuffer
<1>1. ~terminal /\ emitted' = emitted \o StartMessage /\ active' = active
  BY DEF Created
<1>2. CASE active = NoBlock
  BY <1>1, <1>2, NoBlockBuffer
<1>3. CASE active # NoBlock
  BY <1>1, <1>3, Started, SameBuffer DEF ToolInv
<1> QED
  BY <1>2, <1>3

LEMMA TextDoneBuffer ==
    ASSUME NEW text, TextDone(text)
    PROVE  GoodBuffer
BY NoBlockBuffer DEF TextDone, SendAndClose

LEMMA HandleTerminalBuffer ==
    ASSUME ToolInv, NEW type, NEW response, HandleTerminal(type, response)
    PROVE  GoodBuffer
<1>1. CASE Fail("upstream") \/ FailWith("conversion")
  BY <1>1, SameBuffer DEF Fail, FailWith
<1>2. CASE active' = NoBlock
  BY <1>2, NoBlockBuffer
<1> QED
  BY <1>1, <1>2 DEF HandleTerminal

LEMMA NextGoodTools ==
    ASSUME ToolInv, [Next]_vars
    PROVE  ToolInv'
<1>1. Inv'
  BY NextGood DEF ToolInv, GoodStep
<1>2. GoodBuffer
  <2>1. CASE UNCHANGED vars
    BY <2>1, SameBuffer DEF vars, converterVars
  <2>2. CASE StreamEvent
    <3>1. CASE Created
      BY <3>1, CreatedBuffer
    <3>2. ASSUME NEW outputIndex \in OutputIndexes, ItemEvent(outputIndex)
          PROVE  GoodBuffer
      <4>1. CASE \E custom \in BOOLEAN : ToolAdded(outputIndex, custom)
        BY <4>1, ToolAddedBuffer
      <4>2. CASE \E signature \in Signatures \cup {NoSignature} :
                   ReasoningAdded(outputIndex, signature)
        BY <4>2, ReasoningAddedBuffer
      <4>3. CASE \E fragment \in TextFragments : TextDelta(outputIndex, fragment)
        BY <4>3, ContentDeltaBuffer DEF TextDelta
      <4>4. CASE \E fragment \in TextFragments : ReasoningDelta(outputIndex, fragment)
        BY <4>4, ContentDeltaBuffer DEF ReasoningDelta
      <4>5. CASE \E custom \in BOOLEAN, fragment \in ArgFragments :
                   ToolDelta(outputIndex, custom, fragment)
        BY <4>5, ToolDeltaBuffer
      <4>6. CASE \E custom \in BOOLEAN, value \in ArgStrings : ToolDone(outputIndex, custom, value)
        BY <4>6, HandleToolDoneBuffer DEF ToolDone
      <4>7. CASE \E item \in Items : ItemDone(outputIndex, item)
        BY <4>7, ItemDoneBuffer
      <4> QED
        BY <3>2, <4>1, <4>2, <4>3, <4>4, <4>5, <4>6, <4>7 DEF ItemEvent
    <3>3. CASE \E text \in TextStrings : TextDone(text)
      BY <3>3, TextDoneBuffer
    <3>4. CASE \E text \in TextStrings : ReasoningDone(text)
      BY <3>4, ReasoningDoneBuffer
    <3> QED
      BY <2>2, <3>1, <3>2, <3>3, <3>4 DEF StreamEvent
  <2>3. CASE TerminalEvent
    <3>1. CASE UpstreamFailure
      BY <3>1, SameBuffer DEF UpstreamFailure, Fail, FailWith
    <3>2. CASE \E type \in TerminalTypes, response \in Responses : HandleTerminal(type, response)
      BY <3>2, HandleTerminalBuffer
    <3> QED
      BY <2>3, <3>1, <3>2 DEF TerminalEvent
  <2> QED
    BY <2>1, <2>2, <2>3 DEF Next
<1> QED
  BY <1>1, <1>2 DEF ToolInv, GoodBuffer

LEMMA InitToolInv == Init => ToolInv
<1>1. Init => active.kind = "none"
  BY DEF Init, NoBlock
<1> QED
  BY <1>1, InitInv DEF ToolInv, BufferMirrorsClient, BufferCounts

\* The done event of a tool call leaves the client with an input it can parse.
FinishesWhole(outputIndex, custom, value) ==
    (/\ ToolMatches(outputIndex, custom)
     /\ ToolDone(outputIndex, custom, value)
     /\ value = <<>> \/ active.buffer \in {<<>>, value}
     /\ ~terminal')
    => \/ WholeInput(ClientInput(emitted', active.index))
       \/ /\ ~custom
          /\ Whitespace(Complete(value))
          /\ ClientInput(emitted', active.index) = Complete(value)

LEMMA WholeCustomInput ==
    ASSUME NEW input \in Seq(ArgFragments)
    PROVE  WholeInput(CustomToolInput(input))
<1> DEFINE s == CustomToolInput(input)
           i == Len(input) + 1
<1>1. "{input:" \in Fragments /\ "}" \in Fragments /\ input \in Seq(Fragments)
  BY TextTypes DEF Fragments, Strings
<1>2. s = (<<"{input:">> \o input) \o <<"}">>
  BY DEF CustomToolInput
<1>3. Len(s) = Len(input) + 2 /\ SubSeq(s, 2, i) = input
  <2>1. ASSUME NEW x \in Fragments, NEW y \in Fragments, NEW t \in Seq(Fragments),
               s = (<<x>> \o t) \o <<y>>
        PROVE  Len(s) = Len(t) + 2 /\ SubSeq(s, 2, Len(t) + 1) = t
    <3> HIDE DEF s, i
    <3> QED
      BY <2>1, Bracketed
  <2> QED
    BY <1>1, <1>2, <2>1
<1>4. i \in 1 .. Len(s)
  <2>1. Len(input) \in Nat
    OBVIOUS
  <2> HIDE DEF s
  <2> QED
    BY <1>3, <2>1
<1>5. s = CustomToolInput(SubSeq(s, 2, i))
  BY <1>3
<1> QED
  BY <1>4, <1>5 DEF WholeInput

LEMMA FinishedToolIsWhole ==
    ASSUME ToolInv, NEW outputIndex \in OutputIndexes, NEW custom \in BOOLEAN,
           NEW value \in ArgStrings
    PROVE  FinishesWhole(outputIndex, custom, value)
<1> SUFFICES ASSUME ToolMatches(outputIndex, custom), ToolDone(outputIndex, custom, value),
                    value = <<>> \/ active.buffer \in {<<>>, value}, ~terminal'
             PROVE  \/ WholeInput(ClientInput(emitted', active.index))
                    \/ /\ ~custom
                       /\ Whitespace(Complete(value))
                       /\ ClientInput(emitted', active.index) = Complete(value)
  BY DEF FinishesWhole
<1> DEFINE index == active.index
<1>1. ~terminal /\ HandleToolDone(outputIndex, custom, value)
  BY DEF ToolDone
<1>2. /\ active # NoBlock /\ active \in Blocks
      /\ active.kind = "tool_use" /\ active.custom = custom
      /\ active.buffer \in Seq(ArgFragments) /\ active.hadDelta \in BOOLEAN
  BY <1>1, MatchedTool DEF ToolInv
<1>3. index \in Nat /\ emitted \in Seq(Events)
  BY <1>1, <1>2, ActiveBlock DEF ToolInv
<1>4. /\ ClientInput(emitted, index) = IF custom THEN <<>> ELSE active.buffer
      /\ active.hadDelta <=> ~custom /\ active.buffer # <<>>
  BY <1>2 DEF ToolInv, BufferMirrorsClient, BufferCounts
<1>5. Complete(value) \in Seq(ArgFragments)
  BY <1>2, StringsAssumption DEF Complete
<1>6. CustomToolInput(Complete(value)) \in Strings /\ SentArguments(Complete(value)) \in Strings
  BY <1>5, TextTypes DEF SentArguments
<1>7. ~Fail("conversion")
  BY DEF Fail, FailWith
<1>8. ASSUME NEW data \in Strings, ClientInput(emitted, index) = <<>>,
             SendAndClose(<<BlockDelta(index, "input_json_delta", data)>>)
      PROVE  ClientInput(emitted', index) = data
  <2> DEFINE e == BlockDelta(index, "input_json_delta", data)
             t == emitted \o <<e>>
  <2>1. e \in Events /\ InputOf(e, index) = data
    BY <1>3, EventTypes, DeltaKinds DEF InputOf, BlockDelta
  <2>2. emitted' = t \o Closing(active)
    BY <1>2, <1>8 DEF SendAndClose, CloseActive
  <2> HIDE DEF e
  <2>3. t \in Seq(Events)
    BY <1>3, <2>1
  <2>4. ClientInput(t, index) = ClientInput(emitted, index) \o InputOf(e, index)
    BY <1>3, <2>1, ClientInputOneMore
  <2>5. ClientInput(t, index) = data
    BY <1>8, <2>1, <2>4, ConcatEmptySeq DEF Strings
  <2> HIDE DEF t
  <2> QED
    BY <1>2, <1>3, <2>2, <2>3, <2>5, ClosingToolInput
<1>9. CASE custom
  <2>1. SendAndClose(<<BlockDelta(index, "input_json_delta", CustomToolInput(Complete(value)))>>)
    BY <1>1, <1>7, <1>9 DEF HandleToolDone, CustomDone
  <2>2. ClientInput(emitted', index) = CustomToolInput(Complete(value))
    BY <1>4, <1>6, <1>8, <1>9, <2>1
  <2> QED
    BY <1>5, <2>2, WholeCustomInput
<1>10. CASE ~custom
  <2>1. /\ ValidArguments(Complete(value))
        /\ SendAndClose(IF active.hadDelta THEN <<>>
                        ELSE <<BlockDelta(index, "input_json_delta",
                                          SentArguments(Complete(value)))>>)
    BY <1>1, <1>7, <1>10 DEF HandleToolDone, FunctionDone
  <2>2. CASE active.hadDelta
    <3>1. active.buffer # <<>> /\ Complete(value) = active.buffer
      BY <1>4, <2>2 DEF Complete
    <3>2. active.buffer \in Objects \/ Whitespace(active.buffer)
      BY <2>1, <3>1 DEF ValidArguments, Whitespace
    <3>3. emitted' = emitted \o Closing(active)
      BY <1>2, <1>3, <2>1, <2>2, ConcatEmptySeq DEF SendAndClose, CloseActive
    <3>4. ClientInput(emitted', index) = active.buffer
      BY <1>2, <1>3, <1>4, <1>10, <3>3, ClosingToolInput
    <3> QED
      BY <1>10, <3>1, <3>2, <3>4 DEF WholeInput
  <2>3. CASE ~active.hadDelta
    <3>1. ClientInput(emitted, index) = <<>>
      BY <1>4, <1>10, <2>3
    <3>2. ClientInput(emitted', index) = SentArguments(Complete(value))
      BY <1>6, <1>8, <2>1, <2>3, <3>1
    <3>3. \/ SentArguments(Complete(value)) \in Objects \cup {EmptyObject}
          \/ Whitespace(Complete(value)) /\ SentArguments(Complete(value)) = Complete(value)
      BY <2>1 DEF ValidArguments, SentArguments, Whitespace
    <3> QED
      BY <1>10, <3>2, <3>3 DEF WholeInput
  <2> QED
    BY <2>2, <2>3
<1> QED
  BY <1>9, <1>10

-----------------------------------------------------------------------------
(* Theorems *)

\* The fields of the converter hold what they are declared to hold.
THEOREM TypeCorrect == Spec => []TypeOK
<1>1. Inv /\ [Next]_vars => Inv'
  BY NextGood DEF GoodStep
<1>2. Inv => TypeOK
  BY DEF Inv
<1> QED
  BY InitInv, <1>1, <1>2, PTL DEF Spec

\* closeActive, the delta handlers and handleItemDone act on the block the client
\* really has open, and number the next one correctly.
THEOREM CursorCorrect == Spec => []CursorMatchesStream
<1>1. Inv /\ [Next]_vars => Inv'
  BY NextGood DEF GoodStep
<1>2. Inv => CursorMatchesStream
  BY DEF Inv
<1> QED
  BY InitInv, <1>1, <1>2, PTL DEF Spec

\* hasTool and sawContent, which decide the stop reason and whether the terminal
\* Output list is used, say what the client has really seen.
THEOREM FlagsCorrect == Spec => []FlagsMatchStream
<1>1. Inv /\ [Next]_vars => Inv'
  BY NextGood DEF GoodStep
<1>2. Inv => FlagsMatchStream
  BY DEF Inv
<1> QED
  BY InitInv, <1>1, <1>2, PTL DEF Spec

\* Whatever the upstream sends, the converter implements AnthropicStream: strict
\* order, no end of message after a failure, an honest stop reason.
THEOREM ConverterImplementsStream == Spec => ImplementsAnthropicStream
<1>1. Inv /\ [Next]_vars => Inv' /\ [Client!Next]_(Client!streamVars)
  BY NextGood DEF GoodStep
<1> QED
  BY InitInv, <1>1, PTL DEF Spec, ImplementsAnthropicStream, Client!Spec

\* What handleToolDone finds in the buffer, and parses when the done event repeats
\* nothing, is what the client has put together itself
\* (responses_to_anthropic.go:474-536).
THEOREM BufferCorrect == Spec => []BufferMirrorsClient
<1>1. ToolInv => BufferMirrorsClient
  BY DEF ToolInv
<1> QED
  BY InitToolInv, NextGoodTools, <1>1, PTL DEF Spec

\* A tool call whose own done event is accepted, blank or a repetition of its deltas,
\* has an input that the client can parse, of whatever fragments it came in
\* (responses_to_anthropic.go:497-536).
THEOREM FinishedToolsParse == Spec => FinishedToolsAreWhole
<1>1. ToolInv => \A outputIndex \in OutputIndexes, custom \in BOOLEAN, value \in ArgStrings :
                     FinishesWhole(outputIndex, custom, value)
  BY FinishedToolIsWhole
<1>2. ToolInv /\ [Next]_vars => ToolInv'
  BY NextGoodTools
<1> QED
  BY InitToolInv, <1>1, <1>2, PTL DEF Spec, FinishedToolsAreWhole, FinishesWhole

===============================================================================
