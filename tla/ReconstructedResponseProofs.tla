---------------------- MODULE ReconstructedResponseProofs ----------------------
(***************************************************************************)
(* Proofs about ReconstructedResponse and ComparedAnswers, for any         *)
(* responses of any number of items and parts.  What the accumulator has   *)
(* put together is what the upstream has said, and at the end it is all    *)
(* the upstream produced; a client that is streamed the same events never  *)
(* gets the inputs of two calls mixed, and when they come in the usual     *)
(* order it gets the same answer as one that does not ask for a stream.    *)
(***************************************************************************)
EXTENDS ComparedAnswers, SequenceLemmas, FiniteSetTheorems

Fragments == TextFragments \cup ArgFragments

\* The same as Sent, of what has been told of one item.
SentOf(said, part) == IF part \in DOMAIN said.sent THEN said.sent[part] ELSE 0

\* What the upstream has said of a part, before and after it has said all of it.
Said(index, said, part) ==
    IF part \in said.whole THEN TrueParts(index)[part]
    ELSE SubSeq(TrueParts(index)[part], 1, SentOf(said, part))

\* What has been told of an item is some of it; all of a part is only told at its end.
Truthful(index, said) ==
    /\ DOMAIN said.sent \subseteq 1 .. Len(TrueParts(index))
    /\ \A part \in DOMAIN said.sent : said.sent[part] \in 0 .. Len(TrueParts(index)[part])
    /\ said.done \subseteq 1 .. Len(TrueParts(index))
    /\ said.whole \subseteq 1 .. Len(TrueParts(index))
    /\ ~said.closed => said.whole \subseteq said.done

\* An item has the names it was said to have, and no strings but those of its type.
Labelled(index, item, said) ==
    /\ item.call = IF said.call THEN TrueItem(index).call ELSE NoCall
    /\ item.signature = IF said.signature THEN TrueItem(index).signature ELSE NoSignature
    /\ \A field \in Fields \ {FieldOf[TrueItem(index).type]} : item.data[field] = BlankData[field]

\* The parts an item has are what was said of them, and nothing was said of others.
Known(index, item, said) ==
    /\ item.type = TrueItem(index).type
    /\ Labelled(index, item, said)
    /\ LET parts == item.data[FieldOf[TrueItem(index).type]]
       IN  /\ Len(parts) <= Len(TrueParts(index))
           /\ Len(BlankData[FieldOf[TrueItem(index).type]]) <= Len(parts)
           /\ \A part \in 1 .. Len(parts) : parts[part] = Said(index, said, part)
           /\ \A part \in 1 .. Len(TrueParts(index)) :
                 part > Len(parts) =>
                     /\ part \notin said.whole /\ part \notin said.done
                     /\ SentOf(said, part) = 0

\* What is known of an item once something was told of it.
ItemInv(index) ==
    /\ Truthful(index, told[index])
    /\ ~told[index].seen => items[index] = NoItem
    /\ IF items[index] = NoItem THEN told[index] = Untold
       ELSE Known(index, items[index], told[index])

ItemsInv ==
    /\ truth \in TrueResponses
    /\ items \in [OutputIndexes -> ResponseItems \cup {NoItem}]
    /\ DOMAIN told = OutputIndexes
    /\ \A index \in TrueItems : ItemInv(index)
    /\ \A index \in OutputIndexes \ TrueItems : items[index] = NoItem

\* Until the end nothing is known of the response but its status; then it is the one
\* the upstream produced, unless it failed.
UnderWay == {Response(status, NoDetails, FALSE, <<>>) : status \in {"", "in_progress"}}

ResponseInv ==
    /\ terminal \in BOOLEAN
    /\ err \in {"none", "upstream"}
    /\ err # "none" => terminal
    /\ IF terminal /\ err = "none" THEN response = truth ELSE response \in UnderWay

Inv == ItemsInv /\ ResponseInv

-----------------------------------------------------------------------------
(* Fields and items *)

LEMMA FieldsKnown ==
    /\ ItemTypes = {"message", "reasoning", "function_call", "custom_tool_call"}
    /\ \A type \in ItemTypes : FieldOf[type] \in Fields
    /\ \A type \in {"message", "reasoning"} : BlankData[FieldOf[type]] = <<>>
    /\ \A type \in {"function_call", "custom_tool_call"} : BlankData[FieldOf[type]] = << <<>> >>
<1>1. ItemTypes = {"message", "reasoning", "function_call", "custom_tool_call"}
  BY DEF ItemTypes, FieldOf
<1>2. /\ FieldOf["message"] = "content"
      /\ FieldOf["reasoning"] = "summary"
      /\ FieldOf["function_call"] = "arguments"
      /\ FieldOf["custom_tool_call"] = "input"
  BY DEF FieldOf
<1>3. /\ BlankData["content"] = <<>>
      /\ BlankData["summary"] = <<>>
      /\ BlankData["arguments"] = << <<>> >>
      /\ BlankData["input"] = << <<>> >>
  BY DEF BlankData
<1> QED
  BY <1>1, <1>2, <1>3 DEF Fields

\* What there is of the parts of a blank item is blank.
LEMMA BlankParts ==
    ASSUME NEW type \in ItemTypes
    PROVE  /\ Len(BlankData[FieldOf[type]]) \in {0, 1}
           /\ \A part \in 1 .. Len(BlankData[FieldOf[type]]) : BlankData[FieldOf[type]][part] = <<>>
<1>1. CASE type \in {"message", "reasoning"}
  <2>1. BlankData[FieldOf[type]] = <<>>
    BY <1>1, FieldsKnown
  <2> QED
    BY <2>1
<1>2. CASE type \in {"function_call", "custom_tool_call"}
  <2>1. BlankData[FieldOf[type]] = << <<>> >>
    BY <1>2, FieldsKnown
  <2> QED
    BY <2>1
<1> QED
  BY <1>1, <1>2, FieldsKnown

LEMMA BlankDataType == BlankData \in [Fields -> Parts]
<1>1. Fields = {"content", "summary", "arguments", "input"}
  BY FieldsKnown DEF Fields, FieldOf
<1>2. <<>> \in Parts /\ << <<>> >> \in Parts
  BY DEF Parts
<1> QED
  BY <1>1, <1>2 DEF BlankData

\* What the upstream may produce.
LEMMA TrueItemType ==
    ASSUME truth \in TrueResponses, NEW index \in TrueItems
    PROVE  /\ index \in OutputIndexes
           /\ TrueItem(index) \in ResponseItems
           /\ TrueItem(index).type \in ItemTypes
           /\ FieldOf[TrueItem(index).type] \in Fields
           /\ TrueParts(index) \in Parts
           /\ Len(BlankData[FieldOf[TrueItem(index).type]]) <= Len(TrueParts(index))
<1>1. truth.output \in Seq(ResponseItems) /\ index \in OutputIndexes
  BY TrueResponsesAssumption DEF TrueItems
<1>2. index + 1 \in 1 .. Len(truth.output)
  BY <1>1 DEF TrueItems
<1>3. TrueItem(index) \in ResponseItems
  BY <1>1, <1>2 DEF TrueItem
<1>4. TrueItem(index).type \in ItemTypes /\ TrueItem(index).data \in [Fields -> Parts]
  BY <1>3 DEF ResponseItems
<1>5. FieldOf[TrueItem(index).type] \in Fields
  BY <1>4, FieldsKnown
<1>6. TrueParts(index) \in Parts
  BY <1>4, <1>5 DEF TrueParts
<1>7. TrueItem(index).type \in {"function_call", "custom_tool_call"} => Len(TrueParts(index)) = 1
  BY <1>2, TrueResponsesAssumption DEF TrueItem, TrueParts
<1>8. Len(BlankData[FieldOf[TrueItem(index).type]]) <= Len(TrueParts(index))
  <2>1. Len(TrueParts(index)) \in Nat
    BY <1>6 DEF Parts
  <2>2. CASE TrueItem(index).type \in {"function_call", "custom_tool_call"}
    <3>1. BlankData[FieldOf[TrueItem(index).type]] = << <<>> >>
      BY <2>2, FieldsKnown
    <3>2. Len(<< <<>> >>) = 1
      OBVIOUS
    <3>3. Len(TrueParts(index)) = 1
      BY <1>7, <2>2
    <3> QED
      BY <3>1, <3>2, <3>3
  <2>3. CASE TrueItem(index).type \in {"message", "reasoning"}
    <3>1. BlankData[FieldOf[TrueItem(index).type]] = <<>>
      BY <2>3, FieldsKnown
    <3> QED
      BY <2>1, <3>1
  <2> QED
    BY <1>4, <2>2, <2>3, FieldsKnown
<1> QED
  BY <1>1, <1>3, <1>4, <1>5, <1>6, <1>8

\* What the upstream may produce has no strings but those of the type of an item.
LEMMA TrueItemLabels ==
    ASSUME truth \in TrueResponses, NEW index \in TrueItems
    PROVE  /\ TrueItem(index).call \in Calls \cup {NoCall}
           /\ TrueItem(index).signature \in Signatures \cup {NoSignature}
           /\ \A field \in Fields \ {FieldOf[TrueItem(index).type]} :
                 TrueItem(index).data[field] = BlankData[field]
<1>1. index + 1 \in 1 .. Len(truth.output)
  BY TrueResponsesAssumption DEF TrueItems
<1>2. \A field \in Fields \ {FieldOf[TrueItem(index).type]} :
          TrueItem(index).data[field] = BlankData[field]
  BY <1>1, TrueResponsesAssumption DEF TrueItem
<1> QED
  BY <1>2, TrueItemType DEF ResponseItems

-----------------------------------------------------------------------------
(* Parts *)

\* Of any lists of strings, one of which may be blank.
LEMMA PaddedParts ==
    ASSUME NEW S, <<>> \in S, NEW parts \in Seq(S), NEW part \in Nat \ {0}
    PROVE  /\ Padded(parts, part) \in Seq(S)
           /\ Len(Padded(parts, part)) = IF part <= Len(parts) THEN Len(parts) ELSE part
           /\ \A k \in 1 .. Len(Padded(parts, part)) :
                 Padded(parts, part)[k] = IF k <= Len(parts) THEN parts[k] ELSE <<>>
<1> DEFINE n == IF part <= Len(parts) THEN 0 ELSE part - Len(parts)
           more == [k \in 1 .. part - Len(parts) |-> <<>>]
<1>1. Len(parts) \in Nat /\ n \in Nat /\ 1 .. part - Len(parts) = 1 .. n
  OBVIOUS
<1>2. more \in [1 .. n -> S] /\ \A k \in 1 .. n : more[k] = <<>>
  BY <1>1
<1>3. Padded(parts, part) = parts \o more
  BY DEF Padded
<1>4. Len(parts) + n = IF part <= Len(parts) THEN Len(parts) ELSE part
  BY <1>1
<1> HIDE DEF more, n
<1>5. more \in Seq(S) /\ Len(more) = n
  BY <1>1, <1>2, SeqOfFunction
<1>6. /\ parts \o more \in Seq(S)
      /\ Len(parts \o more) = Len(parts) + n
      /\ \A k \in 1 .. Len(parts) + n :
            (parts \o more)[k] = IF k <= Len(parts) THEN parts[k] ELSE more[k - Len(parts)]
  BY <1>5, ConcatProperties
<1>7. \A k \in 1 .. Len(parts) + n :
          (parts \o more)[k] = IF k <= Len(parts) THEN parts[k] ELSE <<>>
  BY <1>1, <1>2, <1>6
<1> QED
  BY <1>3, <1>4, <1>6, <1>7

\* Extended and Corrected change one part of the padded list.
LEMMA ChangedParts ==
    ASSUME NEW S, <<>> \in S, NEW parts \in Seq(S), NEW part \in Nat \ {0}, NEW text \in S
    PROVE  LET changed == [Padded(parts, part) EXCEPT ![part] = text]
           IN  /\ changed \in Seq(S)
               /\ Len(changed) = IF part <= Len(parts) THEN Len(parts) ELSE part
               /\ changed[part] = text
               /\ \A k \in 1 .. Len(changed) :
                     k # part => changed[k] = IF k <= Len(parts) THEN parts[k] ELSE <<>>
<1> DEFINE padded == Padded(parts, part)
<1>1. /\ padded \in Seq(S)
      /\ Len(padded) = IF part <= Len(parts) THEN Len(parts) ELSE part
      /\ \A k \in 1 .. Len(padded) : padded[k] = IF k <= Len(parts) THEN parts[k] ELSE <<>>
  BY PaddedParts
<1> HIDE DEF padded
<1>2. Len(parts) \in Nat
  OBVIOUS
<1>3. part \in 1 .. Len(padded)
  BY <1>1, <1>2
<1>4. /\ [padded EXCEPT ![part] = text] \in Seq(S)
      /\ Len([padded EXCEPT ![part] = text]) = Len(padded)
      /\ \A j \in 1 .. Len(padded) :
            [padded EXCEPT ![part] = text][j] = IF j = part THEN text ELSE padded[j]
  BY <1>1, <1>3, ExceptSeq
<1>5. \A k \in 1 .. Len(padded) :
          k # part => [padded EXCEPT ![part] = text][k] = IF k <= Len(parts) THEN parts[k] ELSE <<>>
  BY <1>1, <1>4
<1> QED
  BY <1>1, <1>3, <1>4, <1>5 DEF padded

\* What a list of parts becomes when one part is changed.
ChangedAt(parts, part, text, changed) ==
    /\ changed \in Parts
    /\ Len(changed) = IF part <= Len(parts) THEN Len(parts) ELSE part
    /\ changed[part] = text
    /\ \A k \in 1 .. Len(changed) :
          k # part => changed[k] = IF k <= Len(parts) THEN parts[k] ELSE <<>>

\* What was known of a part.
Before(parts, part) == IF part <= Len(parts) THEN parts[part] ELSE <<>>

LEMMA BeforeKnown ==
    ASSUME NEW parts \in Parts, NEW part \in Nat \ {0}
    PROVE  /\ Padded(parts, part)[part] = Before(parts, part)
           /\ Before(parts, part) \in Seq(Fragments)
<1> DEFINE S == Seq(Fragments)
<1>1. parts \in Seq(S)
  BY DEF Parts, Fragments
<1>2. <<>> \in S
  OBVIOUS
<1> HIDE DEF S
<1>3. /\ Len(Padded(parts, part)) = IF part <= Len(parts) THEN Len(parts) ELSE part
      /\ \A k \in 1 .. Len(Padded(parts, part)) :
            Padded(parts, part)[k] = IF k <= Len(parts) THEN parts[k] ELSE <<>>
  BY <1>1, <1>2, PaddedParts
<1>4. Len(parts) \in Nat
  BY <1>1
<1>5. part \in 1 .. Len(Padded(parts, part))
  BY <1>3, <1>4
<1>6. Before(parts, part) \in S
  BY <1>1, <1>2, <1>4 DEF Before
<1> QED
  BY <1>3, <1>5, <1>6 DEF Before, S

LEMMA TextChanges ==
    ASSUME NEW parts \in Parts, NEW part \in Nat \ {0}, NEW text \in Seq(Fragments)
    PROVE  ChangedAt(parts, part, text, [Padded(parts, part) EXCEPT ![part] = text])
<1> DEFINE S == Seq(Fragments)
<1>1. parts \in Seq(S) /\ Parts = Seq(S)
  BY DEF Parts, Fragments
<1>2. <<>> \in S /\ text \in S
  OBVIOUS
<1> HIDE DEF S
<1> QED
  BY <1>1, <1>2, ChangedParts DEF ChangedAt

LEMMA ExtendedParts ==
    ASSUME NEW parts \in Parts, NEW part \in Nat \ {0}, NEW fragment \in Fragments
    PROVE  ChangedAt(parts, part, Append(Before(parts, part), fragment), Extended(parts, part, fragment))
<1>1. Append(Before(parts, part), fragment) \in Seq(Fragments)
  BY BeforeKnown, AppendProperties
<1>2. Extended(parts, part, fragment) =
          [Padded(parts, part) EXCEPT ![part] = Append(Before(parts, part), fragment)]
  BY BeforeKnown DEF Extended
<1> QED
  BY <1>1, <1>2, TextChanges

LEMMA CorrectedParts ==
    ASSUME NEW parts \in Parts, NEW part \in Nat \ {0}, NEW text \in Seq(Fragments)
    PROVE  ChangedAt(parts, part, Latest(text, <<>>, Before(parts, part)), Corrected(parts, part, text))
<1>1. Latest(text, <<>>, Before(parts, part)) \in Seq(Fragments)
  BY BeforeKnown DEF Latest
<1>2. Corrected(parts, part, text) =
          [Padded(parts, part) EXCEPT ![part] = Latest(text, <<>>, Before(parts, part))]
  BY BeforeKnown DEF Corrected
<1> QED
  BY <1>1, <1>2, TextChanges

-----------------------------------------------------------------------------
(* What is said of a part *)

\* The strings of the upstream's items.
LEMMA TruePart ==
    ASSUME truth \in TrueResponses, NEW index \in TrueItems
    PROVE  /\ Len(TrueParts(index)) \in Nat
           /\ DOMAIN TrueParts(index) = 1 .. Len(TrueParts(index))
           /\ \A part \in 1 .. Len(TrueParts(index)) : TrueParts(index)[part] \in Seq(Fragments)
<1> DEFINE S == Seq(Fragments)
<1>1. TrueParts(index) \in Seq(S)
  BY TrueItemType DEF Parts, Fragments
<1> HIDE DEF S
<1>2. \A part \in 1 .. Len(TrueParts(index)) : TrueParts(index)[part] \in S
  BY <1>1
<1> QED
  BY <1>1, <1>2, LenProperties DEF S

LEMMA SentIsNat ==
    ASSUME NEW index, NEW said, Truthful(index, said), NEW part \in 1 .. Len(TrueParts(index)),
           TrueParts(index)[part] \in Seq(Fragments)
    PROVE  SentOf(said, part) \in 0 .. Len(TrueParts(index)[part])
BY DEF Truthful, SentOf

\* One fragment more.
LEMMA NextFragment ==
    ASSUME NEW S, NEW s \in Seq(S), NEW n \in 0 .. Len(s) - 1
    PROVE  Append(SubSeq(s, 1, n), s[n + 1]) = SubSeq(s, 1, n + 1)
OBVIOUS

\* What an item has of a part is what was said, also if it has nothing.
LEMMA BeforeIsSaid ==
    ASSUME truth \in TrueResponses, NEW index \in TrueItems, NEW item \in ResponseItems, NEW said,
           Known(index, item, said), NEW part \in 1 .. Len(TrueParts(index))
    PROVE  Before(item.data[FieldOf[TrueItem(index).type]], part) = Said(index, said, part)
<1> DEFINE parts == item.data[FieldOf[TrueItem(index).type]]
<1>1. CASE part <= Len(parts)
  <2>1. part \in 1 .. Len(parts)
    <3>1. parts \in Parts
      BY TrueItemType DEF ResponseItems
    <3> QED
      BY <1>1, <3>1 DEF Parts
  <2> QED
    BY <1>1, <2>1 DEF Known, Before
<1>2. CASE ~(part <= Len(parts))
  <2>1. part > Len(parts)
    <3>1. parts \in Parts
      BY TrueItemType DEF ResponseItems
    <3> QED
      BY <1>2, <3>1 DEF Parts
  <2>2. part \notin said.whole /\ SentOf(said, part) = 0
    BY <2>1 DEF Known
  <2>3. SubSeq(TrueParts(index)[part], 1, 0) = <<>>
    BY SubSeqEmpty
  <2> QED
    BY <1>2, <2>2, <2>3 DEF Before, Said
<1> QED
  BY <1>1, <1>2

-----------------------------------------------------------------------------
(* Steps *)

\* The item an event is about, made and typed if need be.
LEMMA ItemAtKnown ==
    ASSUME ItemsInv, NEW index \in TrueItems
    PROVE  /\ ItemAt(index, TrueItem(index).type) \in ResponseItems
           /\ Known(index, ItemAt(index, TrueItem(index).type), told[index])
<1> DEFINE type == TrueItem(index).type
           item == ItemAt(index, type)
<1>1. index \in OutputIndexes /\ type \in ItemTypes /\ type # "" /\ FieldOf[type] \in Fields
  BY TrueItemType, FieldsKnown DEF ItemsInv, ItemInv
<1>2. CASE items[index] = NoItem
  <2>1. item = [BlankItem EXCEPT !.type = type]
    BY <1>1, <1>2 DEF ItemAt, Latest, BlankItem
  <2>2. item.type = type /\ item.data = BlankData /\ item \in ResponseItems
    BY <1>1, <2>1, BlankDataType DEF BlankItem, ResponseItems
  <2>3. told[index] = Untold
    BY <1>2 DEF ItemsInv, ItemInv
  <2>4. \A part : SentOf(Untold, part) = 0 /\ part \notin Untold.whole /\ part \notin Untold.done
    BY DEF Untold, SentOf
  <2>5. \A part : Said(index, Untold, part) = <<>>
    BY <2>4, SubSeqEmpty DEF Said
  <2>6. /\ Len(BlankData[FieldOf[type]]) <= Len(TrueParts(index))
        /\ \A part \in 1 .. Len(BlankData[FieldOf[type]]) : BlankData[FieldOf[type]][part] = <<>>
    BY <1>1, TrueItemType, BlankParts DEF ItemsInv, ItemInv
  <2>7. Len(BlankData[FieldOf[type]]) <= Len(BlankData[FieldOf[type]])
    <3>1. Len(BlankData[FieldOf[type]]) = 0 \/ Len(BlankData[FieldOf[type]]) = 1
      BY <1>1, BlankParts
    <3>2. \A n : n = 0 \/ n = 1 => n <= n
      OBVIOUS
    <3> QED
      BY <3>1, <3>2
  <2>8. item.call = NoCall /\ item.signature = NoSignature
    BY <1>1, <2>1 DEF BlankItem
  <2>9. Labelled(index, item, Untold)
    BY <2>2, <2>8 DEF Labelled, Untold
  <2> QED
    BY <2>2, <2>3, <2>4, <2>5, <2>6, <2>7, <2>9 DEF Known
<1>3. CASE items[index] # NoItem
  <2>1. items[index] \in ResponseItems /\ Known(index, items[index], told[index])
    BY <1>1, <1>3 DEF ItemsInv, ItemInv
  <2>2. items[index].type = type
    BY <2>1 DEF Known
  <2>3. item = items[index]
    BY <1>1, <1>3, <2>1, <2>2 DEF ItemAt, Latest, ResponseItems
  <2> QED
    BY <2>1, <2>3
<1> QED
  BY <1>2, <1>3

\* An item replaced by one that agrees with what has been told by then.
LEMMA PutHolds ==
    ASSUME ItemsInv, NEW index \in TrueItems, NEW item \in ResponseItems, NEW said,
           Put(index, item), told' = [told EXCEPT ![index] = said], truth' = truth,
           said.seen, Truthful(index, said), Known(index, item, said)
    PROVE  ItemsInv'
<1>1. index \in OutputIndexes
  BY TrueItemType DEF ItemsInv, ItemInv
<1>2. item # NoItem
  BY FieldsKnown DEF NoItem, ResponseItems
<1>3. items' = [items EXCEPT ![index] = item]
  BY DEF Put
<1>4. items' \in [OutputIndexes -> ResponseItems \cup {NoItem}] /\ DOMAIN told' = OutputIndexes
  BY <1>3 DEF ItemsInv, ItemInv
<1>5. TrueItems' = TrueItems
  BY DEF TrueItems
<1>6. ASSUME NEW other \in TrueItems
      PROVE  ItemInv(other)'
  <2>1. other \in OutputIndexes
    BY TrueItemType DEF ItemsInv
  <2>2. /\ Truthful(other, told'[other])
        /\ ~told'[other].seen => items'[other] = NoItem
        /\ IF items'[other] = NoItem THEN told'[other] = Untold
           ELSE Known(other, items'[other], told'[other])
    <3>1. CASE other = index
      BY <1>1, <1>2, <1>3, <3>1 DEF ItemsInv
    <3>2. CASE other # index
      BY <1>3, <2>1, <3>2 DEF ItemsInv, ItemInv
    <3> QED
      BY <3>1, <3>2
  <2>3. Truthful(other, told[other])'
    BY <2>2 DEF Truthful, TrueParts, TrueItem
  <2>4. Known(other, items'[other], told'[other]) => Known(other, items[other], told[other])'
    BY DEF Known, Labelled, Said, SentOf, TrueParts, TrueItem
  <2> QED
    BY <2>2, <2>3, <2>4 DEF ItemInv
<1>7. \A other \in OutputIndexes \ TrueItems : items'[other] = NoItem
  BY <1>3 DEF ItemsInv
<1> QED
  BY <1>4, <1>5, <1>6, <1>7 DEF ItemsInv

\* One part of an item has changed, and its call may have been named, and so has what
\* was said of it.
LEMMA PartChanges ==
    ASSUME truth \in TrueResponses, NEW index \in TrueItems,
           NEW item \in ResponseItems, NEW before, Known(index, item, before),
           NEW part \in 1 .. Len(TrueParts(index)), NEW text, NEW changed,
           ChangedAt(item.data[FieldOf[TrueItem(index).type]], part, text, changed),
           NEW said, text = Said(index, said, part),
           \A k : k # part =>
               /\ k \in said.whole <=> k \in before.whole
               /\ k \in said.done <=> k \in before.done
               /\ SentOf(said, k) = SentOf(before, k),
           NEW call \in SomeCall(index),
           said.call <=> before.call \/ call # NoCall,
           said.signature <=> before.signature
    PROVE  LET new == Named([item EXCEPT !.data[FieldOf[TrueItem(index).type]] = changed], call)
           IN  new \in ResponseItems /\ Known(index, new, said)
<1> DEFINE field == FieldOf[TrueItem(index).type]
           parts == item.data[field]
           new == Named([item EXCEPT !.data[field] = changed], call)
<1>1. field \in Fields /\ item.data \in [Fields -> Parts] /\ changed \in Parts
  BY TrueItemType DEF ResponseItems, ChangedAt
<1>2. /\ new.type = item.type
      /\ new.data = [item.data EXCEPT ![field] = changed]
      /\ new \in ResponseItems
  <2>1. call \in Calls \cup {NoCall}
    BY TrueItemLabels DEF SomeCall
  <2> QED
    BY <1>1, <2>1 DEF Named, Latest, ResponseItems
<1>3. new.data[field] = changed
  BY <1>1, <1>2
<1>4. Len(parts) \in Nat /\ Len(changed) \in Nat /\ Len(TrueParts(index)) \in Nat
  BY <1>1, TrueItemType DEF Parts
<1>5. \A k : k # part => Said(index, said, k) = Said(index, before, k)
  BY DEF Said
<1>6. \A k \in 1 .. Len(TrueParts(index)) : Before(parts, k) = Said(index, before, k)
  BY BeforeIsSaid
<1>7. Len(changed) = (IF part <= Len(parts) THEN Len(parts) ELSE part) /\ changed[part] = text
  BY DEF ChangedAt
<1>8. \A k \in 1 .. Len(changed) : k # part => changed[k] = Before(parts, k)
  BY DEF ChangedAt, Before
<1>9. Len(changed) <= Len(TrueParts(index)) /\ Len(parts) <= Len(changed)
  BY <1>4, <1>7 DEF Known
<1>10. \A k \in 1 .. Len(changed) : changed[k] = Said(index, said, k)
  BY <1>4, <1>5, <1>6, <1>7, <1>8, <1>9
<1>11. \A k \in 1 .. Len(TrueParts(index)) :
          k > Len(changed) =>
              /\ k \notin said.whole /\ k \notin said.done
              /\ SentOf(said, k) = 0
  <2>1. ASSUME NEW k \in 1 .. Len(TrueParts(index)), k > Len(changed)
        PROVE  k > Len(parts) /\ k # part
    BY <1>4, <1>7, <2>1
  <2> QED
    BY <2>1 DEF Known
<1>12. Len(BlankData[field]) <= Len(changed)
  <2>1. Len(BlankData[field]) \in Nat
    BY BlankParts, TrueItemType
  <2>2. Len(BlankData[field]) <= Len(parts)
    BY DEF Known
  <2> QED
    BY <1>4, <1>9, <2>1, <2>2
<1>13. new.type = TrueItem(index).type
  BY <1>2 DEF Known
<1>14. Labelled(index, new, said)
  <2>1. Labelled(index, item, before)
    BY DEF Known
  <2>2. new.call = (IF call # NoCall THEN call ELSE item.call) /\ new.signature = item.signature
    BY DEF Named, Latest, ResponseItems
  <2>3. new.call = IF said.call THEN TrueItem(index).call ELSE NoCall
    BY <2>1, <2>2 DEF Labelled, SomeCall
  <2>4. new.signature = IF said.signature THEN TrueItem(index).signature ELSE NoSignature
    BY <2>1, <2>2 DEF Labelled
  <2>5. \A f \in Fields \ {field} : new.data[f] = BlankData[f]
    BY <1>1, <1>2, <2>1 DEF Labelled
  <2> QED
    BY <2>3, <2>4, <2>5 DEF Labelled
<1> HIDE DEF field, parts, new
<1> QED
  BY <1>2, <1>3, <1>9, <1>10, <1>11, <1>12, <1>13, <1>14 DEF Known, field, new

\* An item is announced.
LEMMA AnnouncementHolds ==
    ASSUME ItemsInv, NEW index \in TrueItems, NEW event \in Announcements(index), ~told[index].seen,
           Tell(event), Process(event)
    PROVE  ItemsInv'
<1>1. PICK call \in SomeCall(index), signature \in {NoSignature, TrueItem(index).signature} :
          event = [type |-> "response.output_item.added", index |-> index,
                   item |-> Announced(index, call, signature)]
  BY DEF Announcements
<1> DEFINE item == Announced(index, call, signature)
           said == ToldBy(told[index], event)
<1>2. /\ event.type = "response.output_item.added" /\ event.index = index /\ event.item = item
      /\ "index" \in DOMAIN event
  BY <1>1
<1>3. Put(index, item)
  BY <1>2 DEF Process, ItemAdded
<1>4. told' = [told EXCEPT ![index] = said] /\ truth' = truth
  BY <1>2 DEF Tell
<1>5. items[index] = NoItem /\ told[index] = Untold
  BY DEF ItemsInv, ItemInv
<1>6. /\ said.seen /\ said.sent = Untold.sent /\ said.done = {} /\ said.whole = {}
      /\ said.call <=> item.call # NoCall
      /\ said.signature <=> item.signature # NoSignature
  <2>1. said = [Untold EXCEPT !.seen = TRUE, !.call = Untold.call \/ item.call # NoCall,
                              !.signature = Untold.signature \/ item.signature # NoSignature]
    BY <1>2, <1>5 DEF ToldBy
  <2> HIDE DEF said, item
  <2> QED
    BY <2>1 DEF Untold
<1>7. Truthful(index, said)
  BY <1>6 DEF Truthful, Untold
<1>8. /\ ItemAt(index, TrueItem(index).type).data = BlankData
      /\ Known(index, ItemAt(index, TrueItem(index).type), Untold)
  BY <1>5, ItemAtKnown DEF ItemAt, BlankItem
<1>9. /\ item \in ResponseItems /\ item.data = BlankData /\ item.type = TrueItem(index).type
      /\ item.call = call /\ item.signature = signature
  BY TrueItemType, BlankDataType DEF ItemsInv, Announced, BlankItem, ResponseItems, SomeCall
<1>10. \A part : SentOf(said, part) = SentOf(Untold, part)
                 /\ Said(index, said, part) = Said(index, Untold, part)
  BY <1>6 DEF SentOf, Said, Untold
<1> HIDE DEF said, item
<1>11. Labelled(index, item, said)
  BY <1>6, <1>9 DEF Labelled, SomeCall
<1>12. Known(index, item, said)
  BY <1>6, <1>8, <1>9, <1>10, <1>11 DEF Known
<1> QED
  BY <1>3, <1>4, <1>6, <1>7, <1>9, <1>12, PutHolds

\* The next fragment of a part.
LEMMA DeltaHolds ==
    ASSUME ItemsInv, NEW index \in TrueItems, NEW event \in Deltas(index), ~told[index].closed,
           Tell(event), Process(event)
    PROVE  ItemsInv'
<1> DEFINE type == TrueItem(index).type
           field == FieldOf[type]
           before == told[index]
           current == ItemAt(index, type)
<1>1. PICK part \in {p \in OpenParts(index) : Sent(index, p) < Len(TrueParts(index)[p])},
           call \in SomeCall(index) :
          event = [type |-> "delta", index |-> index, kind |-> type, part |-> part,
                   fragment |-> TrueParts(index)[part][Sent(index, part) + 1], call |-> call]
  BY DEF Deltas
<1> DEFINE n == SentOf(before, part)
           whole == TrueParts(index)[part]
           said == ToldBy(before, event)
<1>2. truth \in TrueResponses /\ Truthful(index, before)
  BY DEF ItemsInv, ItemInv
<1>3. part \in 1 .. Len(TrueParts(index)) /\ part \notin before.done /\ n < Len(whole)
  BY <1>2, TruePart DEF OpenParts, Sent, SentOf
<1>4. part \notin before.whole
  BY <1>2, <1>3 DEF Truthful
<1>5. whole \in Seq(Fragments) /\ n \in 0 .. Len(whole) - 1
  BY <1>2, <1>3, TruePart, SentIsNat
<1>6. whole[n + 1] \in Fragments /\ Append(SubSeq(whole, 1, n), whole[n + 1]) = SubSeq(whole, 1, n + 1)
  <2> HIDE DEF whole, n
  <2> QED
    BY <1>5, NextFragment, ElementOfSeq
<1>7. /\ event.type = "delta" /\ event.index = index /\ event.kind = type /\ event.part = part
      /\ event.fragment = whole[n + 1] /\ event.call = call /\ "index" \in DOMAIN event
  BY <1>1 DEF Sent, SentOf
<1>8. call \in SomeCall(index)
  OBVIOUS
<1>9. told' = [told EXCEPT ![index] = said] /\ truth' = truth
  BY <1>7 DEF Tell
<1>10. said = [before EXCEPT !.seen = TRUE, !.call = before.call \/ call # NoCall,
                             !.sent = [p \in DOMAIN before.sent \cup {part} |->
                                          IF p = part THEN n + 1 ELSE before.sent[p]]]
  BY <1>7 DEF ToldBy, Sent, SentOf
<1>11. current \in ResponseItems /\ Known(index, current, before)
  BY ItemAtKnown
<1>12. Put(index, Named([current EXCEPT !.data[field] = Extended(current.data[field], part, whole[n + 1])], call))
  BY <1>7 DEF Process, Delta
<1>13. current.data[field] \in Parts /\ part \in Nat \ {0}
  BY <1>2, <1>3, <1>11, TrueItemType DEF ResponseItems
<1>14. Before(current.data[field], part) = SubSeq(whole, 1, n)
  BY <1>2, <1>3, <1>4, <1>11, BeforeIsSaid DEF Said
<1>15. ChangedAt(current.data[field], part, SubSeq(whole, 1, n + 1),
                 Extended(current.data[field], part, whole[n + 1]))
  BY <1>6, <1>13, <1>14, ExtendedParts
<1>16. /\ said.seen /\ said.done = before.done /\ said.whole = before.whole /\ said.closed = before.closed
       /\ said.call <=> before.call \/ call # NoCall
       /\ said.signature <=> before.signature
       /\ said.sent = [p \in DOMAIN before.sent \cup {part} |-> IF p = part THEN n + 1 ELSE before.sent[p]]
  <2> DEFINE call1 == before.call \/ call # NoCall
             sent1 == [p \in DOMAIN before.sent \cup {part} |-> IF p = part THEN n + 1 ELSE before.sent[p]]
  <2>1. said = [before EXCEPT !.seen = TRUE, !.call = call1, !.sent = sent1]
    BY <1>10
  <2> HIDE DEF said, before, call1, sent1
  <2>2. /\ said.seen /\ said.done = before.done /\ said.whole = before.whole
        /\ said.closed = before.closed /\ said.signature = before.signature
        /\ said.call = call1 /\ said.sent = sent1
    BY <2>1
  <2> QED
    BY <2>2 DEF call1, sent1
<1>17. SentOf(said, part) = n + 1 /\ \A k : k # part => SentOf(said, k) = SentOf(before, k)
  BY <1>16 DEF SentOf
<1>18. Said(index, said, part) = SubSeq(whole, 1, n + 1)
  BY <1>4, <1>16, <1>17 DEF Said
<1>19. Truthful(index, said)
  BY <1>2, <1>3, <1>5, <1>16 DEF Truthful
<1>20. ChangedAt(current.data[field], part, Said(index, said, part),
                 Extended(current.data[field], part, whole[n + 1]))
  BY <1>15, <1>18
<1>21. \A k : k # part =>
           /\ k \in said.whole <=> k \in before.whole
           /\ k \in said.done <=> k \in before.done
           /\ SentOf(said, k) = SentOf(before, k)
  BY <1>16, <1>17
<1> DEFINE new == Named([current EXCEPT !.data[field] = Extended(current.data[field], part, whole[n + 1])], call)
<1> HIDE DEF said, before, current, n, whole
<1>22. new \in ResponseItems /\ Known(index, new, said)
  BY <1>2, <1>3, <1>8, <1>11, <1>16, <1>20, <1>21, PartChanges
<1> QED
  BY <1>9, <1>12, <1>16, <1>19, <1>22, PutHolds

\* The end of a part.
LEMMA DoneHolds ==
    ASSUME ItemsInv, NEW index \in TrueItems, NEW event \in Dones(index), ~told[index].closed,
           Tell(event), Process(event)
    PROVE  ItemsInv'
<1> DEFINE type == TrueItem(index).type
           field == FieldOf[type]
           before == told[index]
           current == ItemAt(index, type)
<1>1. PICK part \in OpenParts(index), repeated \in BOOLEAN, call \in SomeCall(index) :
          event = [type |-> "done", index |-> index, kind |-> type, part |-> part,
                   text |-> IF repeated THEN TrueParts(index)[part] ELSE <<>>, call |-> call]
  BY DEF Dones
<1> DEFINE whole == TrueParts(index)[part]
           text == IF repeated THEN whole ELSE <<>>
           said == ToldBy(before, event)
<1>2. truth \in TrueResponses /\ Truthful(index, before)
  BY DEF ItemsInv, ItemInv
<1>3. part \in 1 .. Len(TrueParts(index)) /\ part \notin before.done
  BY <1>2, TruePart DEF OpenParts
<1>4. part \notin before.whole
  BY <1>2, <1>3 DEF Truthful
<1>5. whole \in Seq(Fragments) /\ text \in Seq(Fragments)
  BY <1>2, <1>3, TruePart
<1>6. /\ event.type = "done" /\ event.index = index /\ event.kind = type /\ event.part = part
      /\ event.text = text /\ event.call = call /\ "index" \in DOMAIN event
  BY <1>1
<1>7. call \in SomeCall(index)
  OBVIOUS
<1>8. told' = [told EXCEPT ![index] = said] /\ truth' = truth
  BY <1>6 DEF Tell
<1>9. said = [before EXCEPT !.seen = TRUE, !.call = before.call \/ call # NoCall,
                            !.done = before.done \cup {part},
                            !.whole = IF text = <<>> THEN before.whole ELSE before.whole \cup {part}]
  BY <1>6 DEF ToldBy
<1>10. current \in ResponseItems /\ Known(index, current, before)
  BY ItemAtKnown
<1>11. Put(index, Named([current EXCEPT !.data[field] = Corrected(current.data[field], part, text)], call))
  BY <1>6 DEF Process, Done
<1>12. current.data[field] \in Parts /\ part \in Nat \ {0}
  BY <1>2, <1>3, <1>10, TrueItemType DEF ResponseItems
<1>13. /\ said.seen /\ said.sent = before.sent /\ said.closed = before.closed
       /\ said.done = before.done \cup {part}
       /\ said.call <=> before.call \/ call # NoCall
       /\ said.signature <=> before.signature
       /\ said.whole = IF text = <<>> THEN before.whole ELSE before.whole \cup {part}
  <2> DEFINE call1 == before.call \/ call # NoCall
             done1 == before.done \cup {part}
             whole1 == IF text = <<>> THEN before.whole ELSE before.whole \cup {part}
  <2>1. said = [before EXCEPT !.seen = TRUE, !.call = call1, !.done = done1, !.whole = whole1]
    BY <1>9
  <2> HIDE DEF said, before, call1, done1, whole1
  <2>2. /\ said.seen /\ said.sent = before.sent /\ said.closed = before.closed
        /\ said.signature = before.signature
        /\ said.call = call1 /\ said.done = done1 /\ said.whole = whole1
    BY <2>1
  <2> QED
    BY <2>2 DEF call1, done1, whole1
<1>14. \A k : SentOf(said, k) = SentOf(before, k)
  BY <1>13 DEF SentOf
<1>15. Latest(text, <<>>, Before(current.data[field], part)) = Said(index, said, part)
  <2>1. CASE text = <<>>
    <3>1. Before(current.data[field], part) = Said(index, before, part)
      BY <1>2, <1>3, <1>10, BeforeIsSaid
    <3>2. Said(index, said, part) = Said(index, before, part)
      BY <1>13, <1>14, <2>1 DEF Said
    <3> QED
      BY <2>1, <3>1, <3>2 DEF Latest
  <2>2. CASE text # <<>>
    <3>1. text = whole
      BY <2>2
    <3>2. Said(index, said, part) = whole
      BY <1>13, <2>2 DEF Said
    <3> QED
      BY <2>2, <3>1, <3>2 DEF Latest
  <2> QED
    BY <2>1, <2>2
<1>16. ChangedAt(current.data[field], part, Said(index, said, part),
                 Corrected(current.data[field], part, text))
  BY <1>5, <1>12, <1>15, CorrectedParts
<1>17. Truthful(index, said)
  BY <1>2, <1>3, <1>13 DEF Truthful
<1>18. \A k : k # part =>
           /\ k \in said.whole <=> k \in before.whole
           /\ k \in said.done <=> k \in before.done
           /\ SentOf(said, k) = SentOf(before, k)
  BY <1>13, <1>14
<1> DEFINE new == Named([current EXCEPT !.data[field] = Corrected(current.data[field], part, text)], call)
<1> HIDE DEF said, before, current, text, whole
<1>19. new \in ResponseItems /\ Known(index, new, said)
  BY <1>2, <1>3, <1>7, <1>10, <1>13, <1>16, <1>18, PartChanges
<1> QED
  BY <1>8, <1>11, <1>13, <1>17, <1>19, PutHolds

\* The end of an item, which repeats all of it or nothing.
LEMMA ItemDoneHolds ==
    ASSUME ItemsInv, NEW index \in TrueItems, NEW event \in ItemDones(index), ~told[index].closed,
           Tell(event), Process(event)
    PROVE  ItemsInv'
<1> DEFINE type == TrueItem(index).type
           field == FieldOf[type]
           before == told[index]
           current == ItemAt(index, type)
           whole == TrueParts(index)
<1>1. PICK call \in SomeCall(index), signature \in {NoSignature, TrueItem(index).signature},
           data \in {BlankData, TrueItem(index).data} :
          event = [type |-> "response.output_item.done", index |-> index,
                   item |-> [type |-> type, call |-> call, signature |-> signature, data |-> data]]
  BY DEF ItemDones
<1> DEFINE item == [type |-> type, call |-> call, signature |-> signature, data |-> data]
           said == ToldBy(before, event)
           new == Merged(current, item)
<1>2. truth \in TrueResponses /\ Truthful(index, before)
  BY DEF ItemsInv, ItemInv
<1>3. /\ field \in Fields /\ type \in ItemTypes /\ type # "" /\ TrueItem(index) \in ResponseItems
      /\ Len(whole) \in Nat /\ DOMAIN whole = 1 .. Len(whole)
      /\ Len(BlankData[field]) <= Len(whole) /\ Len(BlankData[field]) \in {0, 1}
  BY <1>2, TrueItemType, TruePart, FieldsKnown, BlankParts
<1>4. /\ event.type = "response.output_item.done" /\ event.index = index /\ event.item = item
      /\ "index" \in DOMAIN event
  BY <1>1
<1>5. told' = [told EXCEPT ![index] = said] /\ truth' = truth
  BY <1>4 DEF Tell
<1>6. said = [before EXCEPT !.seen = TRUE, !.closed = TRUE, !.call = before.call \/ item.call # NoCall,
                            !.signature = before.signature \/ item.signature # NoSignature,
                            !.whole = IF item.data = TrueItem(index).data THEN DOMAIN whole
                                      ELSE before.whole]
  BY <1>4 DEF ToldBy
<1>7. current \in ResponseItems /\ Known(index, current, before)
  BY ItemAtKnown
<1>8. Put(index, new)
  BY <1>4 DEF Process, ItemDone
<1>9. /\ said.seen /\ said.closed /\ said.sent = before.sent /\ said.done = before.done
      /\ said.call <=> before.call \/ call # NoCall
      /\ said.signature <=> before.signature \/ signature # NoSignature
      /\ said.whole = IF data = TrueItem(index).data THEN 1 .. Len(whole) ELSE before.whole
  <2>1. item.data = data
    OBVIOUS
  <2> DEFINE call1 == before.call \/ item.call # NoCall
             signature1 == before.signature \/ item.signature # NoSignature
             whole1 == IF data = TrueItem(index).data THEN DOMAIN whole ELSE before.whole
  <2>2. said = [before EXCEPT !.seen = TRUE, !.closed = TRUE, !.call = call1,
                              !.signature = signature1, !.whole = whole1]
    BY <1>6, <2>1
  <2>3. whole1 = IF data = TrueItem(index).data THEN 1 .. Len(whole) ELSE before.whole
    BY <1>3
  <2> HIDE DEF said, item, before, call1, signature1, whole1
  <2>4. /\ said.seen /\ said.closed /\ said.sent = before.sent /\ said.done = before.done
        /\ said.whole = whole1
        /\ said.call <=> call1
        /\ said.signature <=> signature1
    BY <2>2
  <2> QED
    BY <2>3, <2>4 DEF call1, signature1, item
<1>10. Truthful(index, said)
  BY <1>2, <1>3, <1>9 DEF Truthful
<1>11. /\ new.type = type
       /\ new.data = [f \in Fields |-> Latest(data[f], BlankData[f], current.data[f])]
       /\ new \in ResponseItems
  <2>1. data \in [Fields -> Parts] /\ current.data \in [Fields -> Parts]
    BY <1>3, <1>7, BlankDataType DEF ResponseItems
  <2>2. call \in Calls \cup {NoCall} /\ signature \in Signatures \cup {NoSignature}
    BY <1>3 DEF SomeCall, ResponseItems
  <2>3. new.type = type
    BY <1>3 DEF Merged, Latest
  <2> QED
    BY <1>3, <1>7, <2>1, <2>2, <2>3 DEF Merged, Latest, ResponseItems
<1>12. new.data[field] = Latest(data[field], BlankData[field], current.data[field])
  BY <1>3, <1>11
<1>13. /\ Len(current.data[field]) \in Nat
       /\ Len(current.data[field]) <= Len(whole) /\ Len(BlankData[field]) <= Len(current.data[field])
       /\ \A part \in 1 .. Len(current.data[field]) : current.data[field][part] = Said(index, before, part)
       /\ \A part \in 1 .. Len(whole) :
             part > Len(current.data[field]) =>
                 /\ part \notin before.whole /\ part \notin before.done
                 /\ SentOf(before, part) = 0
       /\ Labelled(index, current, before)
  <2> HIDE DEF before, current
  <2>1. current.data[field] \in Parts
    BY <1>3, <1>7 DEF ResponseItems
  <2>2. Len(current.data[field]) \in Nat
    BY <2>1 DEF Parts
  <2> QED
    BY <1>7, <2>2 DEF Known
<1>14. \A part : SentOf(said, part) = SentOf(before, part)
  BY <1>9 DEF SentOf
<1>15. Labelled(index, new, said)
  <2>1. /\ new.call = (IF call # NoCall THEN call ELSE current.call)
        /\ new.signature = (IF signature # NoSignature THEN signature ELSE current.signature)
    BY DEF Merged, Latest
  <2>2. \A f \in Fields \ {field} : data[f] = BlankData[f] /\ current.data[f] = BlankData[f]
    BY <1>2, <1>13, TrueItemLabels DEF Labelled
  <2>3. \A f \in Fields \ {field} : new.data[f] = BlankData[f]
    BY <1>11, <2>2 DEF Latest
  <2> HIDE DEF said, new, before, current
  <2>4. new.call = IF said.call THEN TrueItem(index).call ELSE NoCall
    BY <1>9, <1>13, <2>1 DEF Labelled, SomeCall
  <2>5. new.signature = IF said.signature THEN TrueItem(index).signature ELSE NoSignature
    BY <1>9, <1>13, <2>1 DEF Labelled
  <2> QED
    BY <2>3, <2>4, <2>5 DEF Labelled
<1> HIDE DEF said, new, before, current
<1>16. CASE data # TrueItem(index).data
  <2>1. new.data[field] = current.data[field]
    BY <1>12, <1>16 DEF Latest
  <2>2. said.whole = before.whole
    BY <1>9, <1>16
  <2>3. \A part : Said(index, said, part) = Said(index, before, part)
    BY <1>14, <2>2 DEF Said
  <2>4. new.type = TrueItem(index).type
    BY <1>11
  <2> HIDE DEF field, whole, type
  <2>5. /\ Len(new.data[field]) <= Len(whole) /\ Len(BlankData[field]) <= Len(new.data[field])
        /\ \A part \in 1 .. Len(new.data[field]) : new.data[field][part] = Said(index, said, part)
        /\ \A part \in 1 .. Len(whole) :
              part > Len(new.data[field]) =>
                  /\ part \notin said.whole /\ part \notin said.done
                  /\ SentOf(said, part) = 0
    BY <1>9, <1>13, <1>14, <2>1, <2>2, <2>3
  <2>6. Known(index, new, said)
    BY <1>15, <2>4, <2>5 DEF Known, field, whole, type
  <2> QED
    BY <1>5, <1>8, <1>9, <1>10, <1>11, <2>6, PutHolds
<1>17. CASE data = TrueItem(index).data
  <2>1. data[field] = whole
    BY <1>17 DEF TrueParts
  <2>2. \A part \in 1 .. Len(whole) : Said(index, said, part) = whole[part]
    BY <1>9, <1>17 DEF Said
  <2>3. /\ Len(new.data[field]) = Len(whole)
        /\ \A part \in 1 .. Len(whole) : new.data[field][part] = whole[part]
    <3>1. CASE whole # BlankData[field]
      BY <1>12, <2>1, <3>1 DEF Latest
    <3>2. CASE whole = BlankData[field]
      <4>1. new.data[field] = current.data[field] /\ Len(current.data[field]) = Len(whole)
        <5>1. new.data[field] = current.data[field]
          BY <1>12, <2>1, <3>2 DEF Latest
        <5>2. \A m, k \in Nat : m <= k /\ k <= m => m = k
          OBVIOUS
        <5>3. Len(whole) <= Len(current.data[field])
          BY <1>13, <3>2
        <5> QED
          BY <1>3, <1>13, <5>1, <5>2, <5>3
      <4>2. ASSUME NEW part \in 1 .. Len(whole) PROVE Said(index, before, part) = whole[part]
        <5>1. whole[part] = <<>>
          BY <1>3, <3>2, BlankParts
        <5>2. SentOf(before, part) \in 0 .. Len(<<>>)
          BY <1>2, <5>1, TruePart, SentIsNat
        <5>3. SentOf(before, part) = 0
          BY <5>2
        <5> QED
          BY <5>1, <5>3, SubSeqEmpty DEF Said
      <4> QED
        BY <1>13, <4>1, <4>2
    <3> QED
      BY <3>1, <3>2
  <2>4. new.type = TrueItem(index).type
    BY <1>11
  <2> HIDE DEF field, whole, type
  <2>5. /\ Len(new.data[field]) <= Len(whole) /\ Len(BlankData[field]) <= Len(new.data[field])
        /\ \A part \in 1 .. Len(new.data[field]) : new.data[field][part] = Said(index, said, part)
        /\ \A part \in 1 .. Len(whole) : ~(part > Len(new.data[field]))
    <3>1. Len(whole) \in Nat /\ Len(BlankData[field]) <= Len(whole)
      BY <1>3
    <3>2. \A part \in 1 .. Len(whole) : ~(part > Len(whole))
      BY <3>1
    <3>3. Len(new.data[field]) <= Len(whole)
      BY <2>3, <3>1
    <3> QED
      BY <2>2, <2>3, <3>1, <3>2, <3>3
  <2>6. Known(index, new, said)
    BY <1>15, <2>4, <2>5 DEF Known, field, whole, type
  <2> QED
    BY <1>5, <1>8, <1>9, <1>10, <1>11, <2>6, PutHolds
<1> QED
  BY <1>16, <1>17

\* What is said of the whole response leaves the items as they are.
LEMMA ItemsHold ==
    ASSUME ItemsInv, UNCHANGED <<items, told, truth>>
    PROVE  ItemsInv'
<1>1. TrueItems' = TrueItems
  BY DEF TrueItems
<1>2. ASSUME NEW index \in TrueItems
      PROVE  ItemInv(index)'
  <2>1. Truthful(index, told[index]) => Truthful(index, told[index])'
    BY DEF Truthful, TrueParts, TrueItem
  <2>2. Known(index, items[index], told[index]) => Known(index, items[index], told[index])'
    BY DEF Known, Labelled, Said, SentOf, TrueParts, TrueItem
  <2> QED
    BY <2>1, <2>2 DEF ItemsInv, ItemInv
<1> QED
  BY <1>1, <1>2 DEF ItemsInv

-----------------------------------------------------------------------------
(* The Output list *)

LEMMA EmptyInterval == 0 .. 0 - 1 = {}
OBVIOUS

\* The numbers of an interval are in ascending order in one way.
LEMMA AscendingInterval ==
    ASSUME NEW n \in Nat
    PROVE  Ascending(0 .. n - 1) = [k \in 1 .. n |-> k - 1]
<1> DEFINE ordered(s) == \A i, j \in DOMAIN s : i < j => s[i] < s[j]
           numbers == [k \in 1 .. n |-> k - 1]
<1>1. Cardinality(0 .. n - 1) = n
  BY FS_Interval
<1>2. numbers \in [1 .. n -> 0 .. n - 1] /\ ordered(numbers)
  OBVIOUS
<1>3. ASSUME NEW s \in [1 .. n -> 0 .. n - 1], ordered(s)
      PROVE  s = numbers
  <2> DEFINE J == {m \in Nat : m + 1 <= n => s[m + 1] >= m}
             K == {m \in Nat : m < n => s[n - m] <= n - 1 - m}
  <2>1. \A k \in 1 .. n : s[k] \in 0 .. n - 1
    BY <1>3
  <2>2. Nat \subseteq J
    <3>1. 0 \in J
      BY <2>1
    <3>2. ASSUME NEW m \in Nat, m \in J PROVE m + 1 \in J
      <4> SUFFICES ASSUME (m + 1) + 1 <= n PROVE s[(m + 1) + 1] >= m + 1
        OBVIOUS
      <4>1. m + 1 \in 1 .. n /\ (m + 1) + 1 \in 1 .. n /\ m + 1 < (m + 1) + 1
        OBVIOUS
      <4>2. s[m + 1] < s[(m + 1) + 1] /\ s[m + 1] >= m
        BY <1>3, <3>2, <4>1
      <4> QED
        BY <2>1, <4>1, <4>2
    <3> HIDE DEF J
    <3> QED
      BY <3>1, <3>2, SetInduction
  <2>3. Nat \subseteq K
    <3>1. 0 \in K
      BY <2>1
    <3>2. ASSUME NEW m \in Nat, m \in K PROVE m + 1 \in K
      <4> SUFFICES ASSUME m + 1 < n PROVE s[n - (m + 1)] <= n - 1 - (m + 1)
        OBVIOUS
      <4>1. n - (m + 1) \in 1 .. n /\ n - m \in 1 .. n /\ n - (m + 1) < n - m
        OBVIOUS
      <4>2. s[n - (m + 1)] < s[n - m] /\ s[n - m] <= n - 1 - m
        BY <1>3, <3>2, <4>1
      <4> QED
        BY <2>1, <4>1, <4>2
    <3> HIDE DEF K
    <3> QED
      BY <3>1, <3>2, SetInduction
  <2>4. ASSUME NEW k \in 1 .. n PROVE s[k] = k - 1
    <3>1. k - 1 \in Nat /\ n - k \in Nat
      OBVIOUS
    <3>2. k - 1 \in J /\ n - k \in K
      <4> HIDE DEF J, K
      <4> QED
        BY <2>2, <2>3, <3>1
    <3>3. (k - 1) + 1 = k /\ n - (n - k) = k /\ n - 1 - (n - k) = k - 1 /\ n - k < n
      OBVIOUS
    <3>4. s[k] >= k - 1
      BY <3>2, <3>3
    <3>5. s[k] <= k - 1
      BY <3>2, <3>3
    <3> QED
      BY <2>1, <3>4, <3>5
  <2> QED
    BY <2>4
<1>4. Ascending(0 .. n - 1) = CHOOSE s \in [1 .. n -> 0 .. n - 1] : ordered(s)
  BY <1>1 DEF Ascending
<1> HIDE DEF ordered, numbers
<1>5. Ascending(0 .. n - 1) = numbers
  BY <1>2, <1>3, <1>4
<1> QED
  BY <1>5 DEF numbers

\* An item of which everything was said is the upstream's.
LEMMA WholeItemIsTrue ==
    ASSUME ItemsInv, NEW index \in TrueItems, WholeItem(index)
    PROVE  items[index] # NoItem /\ items[index] = TrueItem(index)
<1> DEFINE item == items[index]
           said == told[index]
           field == FieldOf[TrueItem(index).type]
           parts == item.data[field]
<1>1. index \in OutputIndexes /\ field \in Fields /\ TrueItem(index) \in ResponseItems
  BY TrueItemType DEF ItemsInv
<1>2. item # NoItem
  BY DEF ItemsInv, ItemInv, Untold, WholeItem
<1>3. item \in ResponseItems /\ Truthful(index, said) /\ Known(index, item, said)
  BY <1>1, <1>2 DEF ItemsInv, ItemInv
<1>4. /\ Len(TrueParts(index)) \in Nat /\ DOMAIN TrueParts(index) = 1 .. Len(TrueParts(index))
      /\ \A part \in 1 .. Len(TrueParts(index)) : TrueParts(index)[part] \in Seq(Fragments)
  BY TruePart DEF ItemsInv
<1>5. parts \in Parts /\ TrueParts(index) \in Parts
  <2>1. TrueParts(index) \in Parts
    BY TrueItemType DEF ItemsInv
  <2>2. item.data \in [Fields -> Parts]
    <3> HIDE DEF item
    <3> QED
      BY <1>3 DEF ResponseItems
  <2>3. parts \in Parts
    <3> HIDE DEF item, field
    <3> QED
      BY <1>1, <2>2
  <2> QED
    BY <2>1, <2>3
<1>6. Len(parts) \in Nat
  BY <1>5 DEF Parts
<1>7. ASSUME NEW part \in 1 .. Len(TrueParts(index))
      PROVE  part <= Len(parts) /\ Said(index, said, part) = TrueParts(index)[part]
  <2>1. \/ part \in said.whole
        \/ HasPart(index, part) /\ SentOf(said, part) = Len(TrueParts(index)[part])
    BY <1>4 DEF WholeItem, Sent, SentOf
  <2>2. CASE part \in said.whole
    <3>1. ~(part > Len(parts))
      BY <1>3, <2>2 DEF Known
    <3>2. part <= Len(parts)
      BY <1>6, <3>1
    <3> QED
      BY <2>2, <3>2 DEF Said
  <2>3. CASE part \notin said.whole
    <3>1. HasPart(index, part) /\ SentOf(said, part) = Len(TrueParts(index)[part])
      BY <2>1, <2>3
    <3>2. SubSeq(TrueParts(index)[part], 1, Len(TrueParts(index)[part])) = TrueParts(index)[part]
      <4> DEFINE whole == TrueParts(index)[part]
      <4>1. whole \in Seq(Fragments)
        BY <1>4
      <4> HIDE DEF whole
      <4>2. SubSeq(whole, 1, Len(whole)) = whole
        BY <4>1, WholeSeq
      <4> QED
        BY <4>2 DEF whole
    <3>3. ~(part > Len(parts))
      <4>1. CASE Sent(index, part) > 0 \/ part \in said.done
        BY <1>3, <4>1 DEF Known, Sent, SentOf
      <4>2. CASE part \in DOMAIN BlankData[field]
        <5>1. DOMAIN BlankData[field] = 1 .. Len(BlankData[field])
          <6>1. BlankData[field] \in Parts
            BY <1>1, BlankDataType
          <6> QED
            BY <6>1 DEF Parts
        <5>2. Len(BlankData[field]) \in Nat /\ Len(BlankData[field]) <= Len(parts)
          <6>1. item.type = TrueItem(index).type
            BY <1>3 DEF Known
          <6>2. TrueItem(index).type \in ItemTypes
            BY TrueItemType DEF ItemsInv
          <6>3. Len(BlankData[field]) \in {0, 1}
            BY <6>1, <6>2, BlankParts
          <6> QED
            BY <1>3, <6>3 DEF Known
        <5> QED
          BY <1>6, <4>2, <5>1, <5>2
      <4> QED
        BY <3>1, <4>1, <4>2 DEF HasPart
    <3>4. part <= Len(parts)
      BY <1>6, <3>3
    <3> QED
      BY <2>3, <3>1, <3>2, <3>4 DEF Said
  <2> QED
    BY <2>2, <2>3
<1>8. parts = TrueParts(index)
  <2>1. Len(parts) = Len(TrueParts(index))
    <3>1. Len(parts) <= Len(TrueParts(index))
      BY <1>3 DEF Known
    <3>2. Len(TrueParts(index)) > 0 => Len(TrueParts(index)) <= Len(parts)
      BY <1>4, <1>7
    <3> HIDE DEF parts
    <3> QED
      BY <1>4, <1>6, <3>1, <3>2
  <2>2. ASSUME NEW part \in 1 .. Len(parts) PROVE parts[part] = TrueParts(index)[part]
    <3>1. parts[part] = Said(index, said, part)
      BY <1>3 DEF Known
    <3> QED
      BY <1>7, <2>1, <3>1
  <2> HIDE DEF parts
  <2> QED
    BY <1>5, <2>1, <2>2, SeqEqual DEF Parts
<1>9. item.data = TrueItem(index).data
  <2>1. item.data \in [Fields -> Parts] /\ TrueItem(index).data \in [Fields -> Parts]
    BY <1>1, <1>3 DEF ResponseItems
  <2>2. ASSUME NEW f \in Fields PROVE item.data[f] = TrueItem(index).data[f]
    <3>1. CASE f = field
      BY <1>8, <3>1 DEF TrueParts
    <3>2. CASE f # field
      BY <1>3, <3>2, TrueItemLabels DEF ItemsInv, Known, Labelled
    <3> QED
      BY <3>1, <3>2
  <2> QED
    BY <2>1, <2>2
<1>10. item.call = TrueItem(index).call /\ item.signature = TrueItem(index).signature
  BY <1>3 DEF Known, Labelled, WholeItem
<1>11. item.type = TrueItem(index).type
  BY <1>3 DEF Known
<1>12. item = TrueItem(index)
  BY <1>1, <1>3, <1>9, <1>10, <1>11 DEF ResponseItems
<1> QED
  BY <1>2, <1>12

\* When everything was said, the items in the order of their indexes are the Output list.
LEMMA SortedOutputIsTrue ==
    ASSUME ItemsInv, Told
    PROVE  SortedOutput = truth.output
<1> DEFINE n == Len(truth.output)
           present == {index \in OutputIndexes : items[index] # NoItem}
<1>1. /\ truth.output \in Seq(ResponseItems) /\ 0 .. n - 1 \subseteq OutputIndexes
  BY TrueResponsesAssumption DEF ItemsInv
<1>2. n \in Nat
  BY <1>1
<1>3. \A index \in 0 .. n - 1 : items[index] # NoItem /\ items[index] = truth.output[index + 1]
  BY WholeItemIsTrue DEF Told, TrueItems, TrueItem
<1>4. present = 0 .. n - 1
  BY <1>1, <1>3 DEF ItemsInv, TrueItems
<1>5. Ascending(present) = [k \in 1 .. n |-> k - 1]
  BY <1>2, <1>4, AscendingInterval
<1>6. SortedOutput = [k \in 1 .. n |-> items[k - 1]]
  BY <1>5 DEF SortedOutput
<1>7. ASSUME NEW k \in 1 .. n PROVE items[k - 1] = truth.output[k]
  <2>1. k - 1 \in 0 .. n - 1 /\ (k - 1) + 1 = k
    BY <1>2
  <2> QED
    BY <1>3, <2>1
<1>8. truth.output = [k \in 1 .. n |-> truth.output[k]]
  BY <1>1
<1> QED
  BY <1>6, <1>7, <1>8

-----------------------------------------------------------------------------
(* The response *)

LEMMA PutLeavesResponse ==
    ASSUME ResponseInv, UNCHANGED <<response, terminal, err, truth>>
    PROVE  ResponseInv'
BY DEF ResponseInv, UnderWay

LEMMA FailHolds ==
    ASSUME ResponseInv, ~terminal, Fail
    PROVE  ResponseInv'
BY DEF ResponseInv, Fail, UnderWay

LEMMA CreatedHolds ==
    ASSUME ResponseInv, NEW status \in {"", "in_progress"},
           Created(Response(status, NoDetails, FALSE, <<>>))
    PROVE  ResponseInv'
<1> DEFINE r == Response(status, NoDetails, FALSE, <<>>)
<1>1. PICK before \in {"", "in_progress"} : response = Response(before, NoDetails, FALSE, <<>>)
  BY DEF Created, ResponseInv, UnderWay
<1>2. r # NoResponse
  BY DEF Response, NoResponse
<1>3. response' = Response(Latest(status, "", before), NoDetails, FALSE, <<>>)
  BY <1>1, <1>2 DEF Created, Captured, Latest, Response
<1>4. response' \in UnderWay
  BY <1>3 DEF UnderWay, Latest
<1> QED
  BY <1>4 DEF Created, ResponseInv, UnderWay

\* What the upstream may say of its response at the end.
LEMMA TrueResponseType ==
    ASSUME truth \in TrueResponses
    PROVE  /\ truth = Response(truth.status, truth.details, FALSE, truth.output)
           /\ truth.status \in {"completed", "incomplete"}
           /\ truth.details \in Details
           /\ truth.error = FALSE
           /\ truth.output \in Seq(ResponseItems)
<1>1. truth \in [status : {"completed", "incomplete"}, details : Details, error : {FALSE},
                 output : Seq(ResponseItems)]
  BY TrueResponsesAssumption
<1> QED
  BY <1>1 DEF Response

\* The status the type of a terminal event tells.
StatusOf(type) == IF type = "response.incomplete" THEN "incomplete" ELSE "completed"

LEMMA CompletedFields ==
    ASSUME NEW type, NEW status, NEW details, NEW error, NEW output
    PROVE  Completed(type, Response(status, details, error, output)) =
               Response(Latest(status, "", StatusOf(type)), details, error, Latest(output, <<>>, SortedOutput))
<1> DEFINE r == Response(status, details, error, output)
           status1 == Latest(status, "", StatusOf(type))
           output1 == Latest(output, <<>>, SortedOutput)
           updated == [r EXCEPT !.status = status1, !.output = output1]
           T == [status : {status1}, details : {details}, error : {error}, output : {output1}]
<1>1. r.status = status /\ r.output = output
  BY DEF Response
<1>2. Completed(type, r) = updated
  BY <1>1 DEF Completed, StatusOf
<1> HIDE DEF status1, output1
<1>3. updated \in T
  BY DEF Response
<1>4. \A x \in T : x = Response(status1, details, error, output1)
  BY DEF Response
<1> HIDE DEF T, updated
<1>5. updated = Response(status1, details, error, output1)
  BY <1>3, <1>4
<1> QED
  BY <1>2, <1>5 DEF status1, output1

LEMMA TellingAnswer ==
    ASSUME NEW r \in TellingAnswers
    PROVE  \E status \in ToldStatuses, output \in ToldOutputs : r = Answer(status, output)
BY DEF TellingAnswers

\* The response is complete: what the terminal event leaves out is known.
LEMMA TerminalTellsTruth ==
    ASSUME Inv, NEW r \in Answers, Terminal(TrueType, r)
    PROVE  response' = truth
<1>1. truth \in TrueResponses /\ ItemsInv
  BY DEF Inv, ItemsInv
<1>2. PICK before \in {"", "in_progress"} : response = Response(before, NoDetails, FALSE, <<>>)
  BY DEF Inv, ResponseInv, UnderWay, Terminal
<1>3. /\ truth = Response(truth.status, truth.details, FALSE, truth.output)
      /\ truth.status \in {"completed", "incomplete"}
      /\ truth.output \in Seq(ResponseItems)
  BY <1>1, TrueResponseType
<1>4. response' = Completed(TrueType, Captured(r, TRUE))
  BY DEF Terminal
<1>5. Latest("", "", StatusOf(TrueType)) = truth.status
  BY <1>3 DEF Latest, TrueType, StatusOf
<1>6. Told => SortedOutput = truth.output
  BY <1>1, SortedOutputIsTrue
<1>7. truth.output = <<>> => Told
  <2>1. truth.output = <<>> => TrueItems = {}
    <3>1. Len(<<>>) = 0
      OBVIOUS
    <3> QED
      BY <3>1, EmptyInterval DEF TrueItems
  <2> QED
    BY <2>1 DEF Told
<1>8. ASSUME NEW status \in ToldStatuses,
             NEW output \in ToldOutputs,
             r = Response(status, truth.details, FALSE, output)
      PROVE  response' = truth
  <2>1. r # NoResponse
    BY <1>8 DEF Response, NoResponse
  <2>2. Captured(r, TRUE) =
            Response(Latest(status, "", before), Latest(truth.details, NoDetails, NoDetails), FALSE,
                     Latest(output, <<>>, <<>>))
    BY <1>2, <1>8, <2>1 DEF Captured, Response
  <2>3. Latest(truth.details, NoDetails, NoDetails) = truth.details /\ Latest(output, <<>>, <<>>) = output
    BY DEF Latest
  <2>4. Latest(status, "", before) \in {"", truth.status}
    <3>1. status = truth.status \/ (status = "" /\ response.status = "")
      BY DEF ToldStatuses
    <3>2. response.status = before
      BY <1>2 DEF Response
    <3> QED
      BY <1>3, <3>1, <3>2 DEF Latest
  <2>5. response' = Response(Latest(Latest(status, "", before), "", StatusOf(TrueType)),
                             truth.details, FALSE, Latest(output, <<>>, SortedOutput))
    <3> DEFINE s1 == Latest(status, "", before)
               no == FALSE
               details == truth.details
    <3>1. response' = Completed(TrueType, Response(s1, details, no, output))
      BY <1>4, <2>2, <2>3
    <3> HIDE DEF s1, no, details
    <3>2. Completed(TrueType, Response(s1, details, no, output)) =
              Response(Latest(s1, "", StatusOf(TrueType)), details, no, Latest(output, <<>>, SortedOutput))
      BY CompletedFields
    <3>3. response' =
              Response(Latest(s1, "", StatusOf(TrueType)), details, no, Latest(output, <<>>, SortedOutput))
      BY <3>1, <3>2
    <3> QED
      BY <3>3 DEF s1, no, details
  <2>6. Latest(Latest(status, "", before), "", StatusOf(TrueType)) = truth.status
    BY <1>3, <1>5, <2>4 DEF Latest
  <2>7. Latest(output, <<>>, SortedOutput) = truth.output
    <3>1. output = truth.output \/ (output = <<>> /\ Told)
      BY DEF ToldOutputs
    <3> QED
      BY <1>6, <1>7, <3>1 DEF Latest
  <2> QED
    BY <1>3, <2>5, <2>6, <2>7
<1>9. ASSUME r = NoResponse, Told, response.status = "", truth.details = NoDetails
      PROVE  response' = truth
  <2>1. before = ""
    BY <1>2, <1>9 DEF Response
  <2>2. response' = Response(Latest("", "", StatusOf(TrueType)),
                             NoDetails, FALSE, Latest(<<>>, <<>>, SortedOutput))
    BY <1>2, <1>4, <1>9, <2>1 DEF Captured, Completed, Response, StatusOf
  <2>3. Latest(<<>>, <<>>, SortedOutput) = truth.output
    BY <1>6, <1>9 DEF Latest
  <2> QED
    BY <1>3, <1>5, <1>9, <2>2, <2>3
<1>10. CASE r \in TellingAnswers
  <2>1. PICK status \in ToldStatuses, output \in ToldOutputs : r = Answer(status, output)
    BY <1>10, TellingAnswer
  <2> QED
    BY <1>8, <2>1 DEF Answer
<1>11. CASE r \in SilentAnswers
  BY <1>9, <1>11 DEF SilentAnswers
<1> QED
  BY <1>10, <1>11 DEF Answers

LEMMA ConclusionHolds ==
    ASSUME Inv, NEW r \in Answers, TerminalFailure(r) \/ Terminal(TrueType, r), truth' = truth
    PROVE  ResponseInv'
<1>1. CASE TerminalFailure(r)
  BY <1>1, FailHolds DEF Inv, TerminalFailure
<1>2. CASE Terminal(TrueType, r)
  <2>1. response' = truth
    BY <1>2, TerminalTellsTruth
  <2> QED
    BY <1>2, <2>1 DEF Inv, ResponseInv, Terminal
<1> QED
  BY <1>1, <1>2

\* A terminal event that tells of a failure.
LEMMA TerminalFailureHolds ==
    ASSUME Inv, NEW r \in {Response("failed", NoDetails, FALSE, <<>>), Response("", NoDetails, TRUE, <<>>)},
           TerminalFailure(r) \/ Terminal(TrueType, r)
    PROVE  ResponseInv'
<1>1. TellsFailure(r)
  <2>1. CASE r = Response("failed", NoDetails, FALSE, <<>>)
    BY <2>1 DEF TellsFailure, Response, NoResponse
  <2>2. CASE r = Response("", NoDetails, TRUE, <<>>)
    BY <2>2 DEF TellsFailure, Response, NoResponse
  <2> QED
    BY <2>1, <2>2
<1>2. ~terminal /\ Fail
  BY <1>1 DEF TerminalFailure, Terminal
<1> QED
  BY <1>2, FailHolds DEF Inv

-----------------------------------------------------------------------------
(* The invariant is inductive *)

LEMMA InitHolds == Init => Inv
<1> SUFFICES ASSUME Init PROVE Inv
  OBVIOUS
<1>1. /\ truth \in TrueResponses
      /\ items = [index \in OutputIndexes |-> NoItem]
      /\ told = [index \in OutputIndexes |-> Untold]
  BY DEF Init, AccumulatorInit
<1>2. ASSUME NEW index \in TrueItems PROVE index \in OutputIndexes /\ Truthful(index, Untold)
  BY <1>1, TrueItemType DEF Truthful, Untold
<1>3. ItemsInv
  BY <1>1, <1>2 DEF ItemsInv, ItemInv, Untold
<1>4. ResponseInv
  BY DEF Init, AccumulatorInit, ResponseInv, UnderWay, BlankResponse
<1> QED
  BY <1>3, <1>4 DEF Inv

\* Events about the response leave the items alone.
LEMMA ResponseEventHolds ==
    ASSUME Inv, NEW event \in Failures \cup Beginnings \cup Conclusions, Tell(event), Process(event)
    PROVE  Inv'
<1> DEFINE terminals == {"response.completed", "response.incomplete"}
<1>1. TrueType \in terminals
  BY DEF TrueType
<1>2. CASE event = [type |-> "response.failed"]
  <2>1. "index" \notin DOMAIN event /\ event.type = "response.failed"
    BY <1>2
  <2>2. ~terminal /\ Fail
    BY <2>1 DEF Process, UpstreamFailure
  <2>3. UNCHANGED <<items, told, truth>>
    BY <2>1, <2>2 DEF Tell, Fail
  <2> QED
    BY <2>2, <2>3, FailHolds, ItemsHold DEF Inv
<1>3. ASSUME NEW r, event = [type |-> TrueType, response |-> r]
      PROVE  /\ UNCHANGED <<items, told, truth>>
             /\ TerminalFailure(r) \/ Terminal(TrueType, r)
  <2>1. "index" \notin DOMAIN event /\ event.type = TrueType /\ event.response = r
    BY <1>3
  <2>2. TerminalFailure(r) \/ Terminal(TrueType, r)
    BY <1>1, <2>1 DEF Process
  <2> QED
    BY <2>1, <2>2 DEF Tell, TerminalFailure, Terminal, Fail
<1>4. CASE event \in Failures
  <2>1. CASE event \in {[type |-> TrueType, response |-> r] :
                           r \in {Response("failed", NoDetails, FALSE, <<>>),
                                  Response("", NoDetails, TRUE, <<>>)}}
    <3>1. PICK r \in {Response("failed", NoDetails, FALSE, <<>>), Response("", NoDetails, TRUE, <<>>)} :
              event = [type |-> TrueType, response |-> r]
      BY <2>1
    <3> QED
      BY <1>3, <3>1, TerminalFailureHolds, ItemsHold DEF Inv
  <2> QED
    BY <1>2, <1>4, <2>1 DEF Failures
<1>5. CASE event \in Beginnings
  <2>1. PICK status \in {"", "in_progress"} :
            event = [type |-> "response.created", response |-> Response(status, NoDetails, FALSE, <<>>)]
    BY <1>5 DEF Beginnings
  <2>2. /\ "index" \notin DOMAIN event /\ event.type = "response.created"
        /\ event.response = Response(status, NoDetails, FALSE, <<>>)
    BY <2>1
  <2>3. Created(Response(status, NoDetails, FALSE, <<>>))
    BY <2>2 DEF Process
  <2>4. UNCHANGED <<items, told, truth>>
    BY <2>2, <2>3 DEF Tell, Created
  <2> QED
    BY <2>3, <2>4, CreatedHolds, ItemsHold DEF Inv
<1>6. CASE event \in Conclusions
  <2>1. PICK r \in Answers : event = [type |-> TrueType, response |-> r]
    BY <1>6 DEF Conclusions
  <2> QED
    BY <1>3, <2>1, ConclusionHolds, ItemsHold DEF Inv
<1> QED
  BY <1>4, <1>5, <1>6

\* Events about an item leave the response alone.
LEMMA ItemEventHolds ==
    ASSUME Inv, NEW index \in TrueItems, NEW event \in ItemEvents(index), Tell(event), Process(event)
    PROVE  Inv'
<1>1. event.type \in {"response.output_item.added", "delta", "done", "response.output_item.done"}
  BY DEF ItemEvents, Announcements, Deltas, Dones, ItemDones
<1>2. UNCHANGED <<response, terminal, err>>
  BY <1>1 DEF Process, ItemAdded, Delta, Done, ItemDone, Put
<1>3. ItemsInv'
  BY AnnouncementHolds, DeltaHolds, DoneHolds, ItemDoneHolds DEF Inv, ItemEvents
<1> QED
  BY <1>2, <1>3, PutLeavesResponse DEF Inv, Tell

LEMMA NextHolds == Inv /\ [Next]_vars => Inv'
<1> SUFFICES ASSUME Inv, [Next]_vars PROVE Inv'
  OBVIOUS
<1>1. CASE UNCHANGED vars
  BY <1>1, ItemsHold, PutLeavesResponse DEF Inv, vars, accumulatorVars
<1>2. ASSUME NEW event \in Offers, Tell(event), Process(event) PROVE Inv'
  BY <1>2, ResponseEventHolds, ItemEventHolds DEF Offers
<1> QED
  BY <1>1, <1>2 DEF Next

-----------------------------------------------------------------------------
(* Theorems *)

LEMMA InvImpliesTypeOK == Inv => TypeOK
<1> SUFFICES ASSUME Inv PROVE TypeOK
  OBVIOUS
<1>1. /\ response.status \in {"", "in_progress", "completed", "incomplete"}
      /\ response.details \in Details
      /\ response.error = FALSE
      /\ response.output \in Seq(ResponseItems)
  <2>1. CASE response = truth
    <3>1. /\ truth.status \in {"completed", "incomplete"} /\ truth.details \in Details
          /\ truth.error = FALSE /\ truth.output \in Seq(ResponseItems)
      BY TrueResponseType DEF Inv, ItemsInv
    <3> QED
      BY <2>1, <3>1
  <2>2. CASE response \in UnderWay
    <3>1. PICK status \in {"", "in_progress"} : response = Response(status, NoDetails, FALSE, <<>>)
      BY <2>2 DEF UnderWay
    <3>2. response.status = status /\ response.details = NoDetails /\ response.output = <<>>
      BY <3>1 DEF Response
    <3>3. response.error = FALSE
      BY <3>1 DEF Response
    <3>4. NoDetails \in Details
      BY DEF Details
    <3>5. <<>> \in Seq(ResponseItems)
      BY EmptySeq
    <3> QED
      BY <3>2, <3>3, <3>4, <3>5
  <2> QED
    BY <2>1, <2>2 DEF Inv, ResponseInv
<1> QED
  BY <1>1 DEF Inv, ItemsInv, ResponseInv, TypeOK

LEMMA InvImpliesTruth == Inv => (Finalize = "none" => response = truth)
BY DEF Inv, ResponseInv, Finalize

LEMMA InvImpliesKeepsUp == Inv => KeepsUpWithStream
<1> SUFFICES ASSUME Inv, NEW index \in TrueItems, items[index] # NoItem,
                    NEW part \in DOMAIN items[index].data[FieldOf[TrueItem(index).type]]
             PROVE  /\ items[index].type = TrueItem(index).type
                    /\ items[index].data[FieldOf[TrueItem(index).type]][part] =
                          IF part \in told[index].whole THEN TrueParts(index)[part]
                          ELSE SubSeq(TrueParts(index)[part], 1, Sent(index, part))
  BY DEF KeepsUpWithStream, Inv, ItemsInv, ItemInv, Known
<1>1. index \in OutputIndexes /\ Known(index, items[index], told[index]) /\ items[index] \in ResponseItems
  BY TrueItemType DEF Inv, ItemsInv, ItemInv
<1>2. items[index].data[FieldOf[TrueItem(index).type]] \in Parts
  BY <1>1, TrueItemType DEF Inv, ItemsInv, ResponseItems
<1>3. part \in 1 .. Len(items[index].data[FieldOf[TrueItem(index).type]])
  BY <1>2, LenProperties DEF Parts
<1> QED
  BY <1>1, <1>3 DEF Known, Said, Sent, SentOf

\* What has been put together of an item is what was said of it, and of what it does
\* not have nothing was said; the response is not known before its end, and then it is
\* the upstream's.
THEOREM Invariant == Spec => []Inv
<1> QED
  BY InitHolds, NextHolds, PTL DEF Spec

\* The fields of the accumulator hold what they can hold, and an error ends it
\* (accumulator.go:12-27, 188-195).
THEOREM TypeCorrect == Spec => []TypeOK
<1> QED
  BY Invariant, InvImpliesTypeOK, PTL

\* Whatever response the upstream produces, and however it splits, repeats, leaves out
\* and interleaves what it says, each part is what was sent of it, or all of it
\* (accumulator.go:133-262).
THEOREM AccumulatorKeepsUp == Spec => []KeepsUpWithStream
<1> QED
  BY Invariant, InvImpliesKeepsUp, PTL

\* The Output list a buffered answer is made of is the upstream's, whether the terminal
\* event brought it or sortedOutput put it together of the items (accumulator.go:10-11,
\* 101-113, 174-186).
THEOREM OutputIsReconstructed == Spec => []ReconstructsOutput
<1>1. Inv => ReconstructsOutput
  BY InvImpliesTruth DEF ReconstructsOutput
<1> QED
  BY <1>1, Invariant, PTL

\* A client that asked for stream=false gets the answer the upstream's response stands
\* for (accumulator.go:121-131, responses_to_anthropic.go:430-452).
THEOREM AnswerIsTruthful == Spec => []AnswersTruthfully
<1>1. Inv => AnswersTruthfully
  BY InvImpliesTruth DEF AnswersTruthfully
<1> QED
  BY <1>1, Invariant, PTL

-----------------------------------------------------------------------------
(* What the client of the streaming converter has put together *)

StreamEvents == Stream!ClientEvents(Stream!Strings)

InputOfBlock(index) == [e \in StreamEvents |-> Stream!InputOf(e, index)]

ToolStart(e) == e.type = "content_block_start" /\ e.kind = "tool_use"
InputDelta(e) == e.type = "content_block_delta" /\ e.delta = "input_json_delta"
NumberedBelow(e, n) == e.type \in {"content_block_start", "content_block_delta"} => e.index < n

\* The events that neither begin a tool call nor carry input, of the blocks below n.
QuietEvents(n) == {e \in StreamEvents : ~ToolStart(e) /\ ~InputDelta(e) /\ NumberedBelow(e, n)}

\* The input of a call of the upstream, or of a part of one.
GoodInput(input) == \E index \in TrueItems : IsTool(index) /\ GivenInput(index, input)

\* A stream of blocks numbered below n whose tool calls have such inputs.
GoodStream(s, n) ==
    /\ s \in Seq(StreamEvents)
    /\ n \in Nat
    /\ \A i \in 1 .. Len(s) : NumberedBelow(s[i], n)
    /\ \A i \in 1 .. Len(s) : ToolStart(s[i]) => GoodInput(Stream!ClientInput(s, s[i].index))

LEMMA StreamEventTypes ==
    /\ Stream!MessageStart \in StreamEvents
    /\ Stream!MessageStop \in StreamEvents
    /\ \A index \in Nat, kind \in {"text", "thinking", "tool_use"} :
          Stream!BlockStart(index, kind) \in StreamEvents
    /\ \A index \in Nat : Stream!BlockStop(index) \in StreamEvents
    /\ \A index \in Nat, data \in Stream!Strings :
          \A delta \in {"text_delta", "thinking_delta", "signature_delta", "input_json_delta"} :
              Stream!BlockDelta(index, delta, data) \in StreamEvents
    /\ \A reason \in {"end_turn", "max_tokens", "tool_use"} : Stream!MessageDelta(reason) \in StreamEvents
<1>1. DOMAIN Stream!DeltaKind = {"text_delta", "thinking_delta", "signature_delta", "input_json_delta"}
  BY DEF Stream!DeltaKind
<1> QED
  BY <1>1 DEF StreamEvents, Stream!ClientEvents, Stream!MessageStart, Stream!MessageStop, Stream!BlockStart,
              Stream!BlockStop, Stream!BlockDelta, Stream!MessageDelta, Stream!BlockKinds

LEMMA InputLists ==
    ASSUME NEW index
    PROVE  InputOfBlock(index) \in Lists(StreamEvents, Stream!Fragments)
<1>1. ASSUME NEW e \in StreamEvents
      PROVE  Stream!InputOf(e, index) \in Stream!Strings
  <2>1. <<>> \in Stream!Strings
    BY DEF Stream!Strings
  <2>2. e.type = "content_block_delta" => e.data \in Stream!Strings
    BY DEF StreamEvents, Stream!ClientEvents, Stream!MessageStart, Stream!MessageStop
  <2> QED
    BY <2>1, <2>2 DEF Stream!InputOf
<1> QED
  BY <1>1 DEF InputOfBlock, Lists, Stream!Strings

LEMMA SameFlattenSeq ==
    ASSUME NEW ss
    PROVE  Stream!FlattenSeq(ss) = FlattenSeq(ss)
BY DEF Stream!FlattenSeq, FlattenSeq

LEMMA InputIsFlatMap ==
    ASSUME NEW s \in Seq(StreamEvents), NEW index
    PROVE  Stream!ClientInput(s, index) = FlatMap(InputOfBlock(index), s)
<1>1. \A i \in 1 .. Len(s) : s[i] \in StreamEvents
  OBVIOUS
<1>2. [i \in 1 .. Len(s) |-> Stream!InputOf(s[i], index)] = [i \in 1 .. Len(s) |-> InputOfBlock(index)[s[i]]]
  BY <1>1 DEF InputOfBlock
<1> QED
  BY <1>2, SameFlattenSeq DEF Stream!ClientInput, FlatMap

LEMMA InputOfConcat ==
    ASSUME NEW s \in Seq(StreamEvents), NEW t \in Seq(StreamEvents), NEW index
    PROVE  /\ Stream!ClientInput(s, index) \in Stream!Strings
           /\ Stream!ClientInput(t, index) \in Stream!Strings
           /\ Stream!ClientInput(s \o t, index) = Stream!ClientInput(s, index) \o Stream!ClientInput(t, index)
<1> DEFINE h == InputOfBlock(index)
           u == s \o t
<1>1. h \in Lists(StreamEvents, Stream!Fragments)
  BY InputLists
<1>2. u \in Seq(StreamEvents)
  OBVIOUS
<1>3. /\ Stream!ClientInput(s, index) = FlatMap(h, s)
      /\ Stream!ClientInput(t, index) = FlatMap(h, t)
      /\ Stream!ClientInput(u, index) = FlatMap(h, u)
  BY <1>2, InputIsFlatMap
<1> HIDE DEF h
<1>4. FlatMap(h, u) = FlatMap(h, s) \o FlatMap(h, t)
  BY <1>1, FlatMapConcat
<1>5. FlatMap(h, s) \in Seq(Stream!Fragments) /\ FlatMap(h, t) \in Seq(Stream!Fragments)
  BY <1>1, FlatMapType
<1> QED
  BY <1>3, <1>4, <1>5 DEF Stream!Strings

LEMMA InputOfOne ==
    ASSUME NEW e \in StreamEvents, NEW index
    PROVE  Stream!ClientInput(<<e>>, index) = Stream!InputOf(e, index)
<1> DEFINE h == InputOfBlock(index)
<1>1. h \in Lists(StreamEvents, Stream!Fragments) /\ h[e] = Stream!InputOf(e, index)
  BY InputLists DEF InputOfBlock
<1>2. <<e>> \in Seq(StreamEvents)
  BY SeqOfOne
<1>3. Stream!ClientInput(<<e>>, index) = FlatMap(h, <<e>>)
  BY <1>2, InputIsFlatMap
<1> HIDE DEF h
<1>4. FlatMap(h, <<e>>) = h[e]
  BY <1>1, FlatMapOne
<1> QED
  BY <1>1, <1>3, <1>4

\* A stream has no input for a block it has not begun.
LEMMA NoInputYet ==
    ASSUME NEW s \in Seq(StreamEvents), NEW index \in Nat,
           \A i \in 1 .. Len(s) : InputDelta(s[i]) => s[i].index # index
    PROVE  Stream!ClientInput(s, index) = <<>>
<1> DEFINE n == Len(s)
           ss == [i \in 1 .. n |-> Stream!InputOf(s[i], index)]
<1>1. n \in Nat
  OBVIOUS
<1>2. ss \in [1 .. n -> {<<>>}]
  BY DEF InputDelta, Stream!InputOf
<1>3. Stream!ClientInput(s, index) = FlattenSeq(ss)
  BY SameFlattenSeq DEF Stream!ClientInput
<1> HIDE DEF n, ss
<1> QED
  BY <1>1, <1>2, <1>3, FlattenSeqOfEmpties

\* The elements of a longer stream.
LEMMA StreamElements ==
    ASSUME NEW S, NEW s \in Seq(S), NEW t \in Seq(S), NEW i \in 1 .. Len(s \o t)
    PROVE  \/ i \in 1 .. Len(s) /\ (s \o t)[i] = s[i]
           \/ \E j \in 1 .. Len(t) : (s \o t)[i] = t[j]
<1>1. Len(s) \in Nat /\ Len(t) \in Nat /\ Len(s \o t) = Len(s) + Len(t)
  OBVIOUS
<1>2. CASE i \in 1 .. Len(s)
  BY <1>2
<1>3. CASE i \notin 1 .. Len(s)
  <2>1. i - Len(s) \in 1 .. Len(t) /\ (s \o t)[i] = t[i - Len(s)]
    BY <1>1, <1>3
  <2> QED
    BY <2>1
<1> QED
  BY <1>2, <1>3

\* Quiet events change no input.
LEMMA QuietMore ==
    ASSUME NEW s, NEW n, GoodStream(s, n), NEW m \in Nat, n <= m, NEW t \in Seq(QuietEvents(m))
    PROVE  /\ GoodStream(s \o t, m)
           /\ \A index \in Nat : Stream!ClientInput(s \o t, index) = Stream!ClientInput(s, index)
<1> DEFINE u == s \o t
<1>1. s \in Seq(StreamEvents) /\ n \in Nat
  BY DEF GoodStream
<1>2. t \in Seq(StreamEvents) /\ \A j \in 1 .. Len(t) : t[j] \in QuietEvents(m)
  <2>1. QuietEvents(m) \subseteq StreamEvents
    BY DEF QuietEvents
  <2>2. t \in Seq(StreamEvents)
    BY <2>1, SeqSubset
  <2> QED
    BY <2>2, ElementOf
<1>3. ASSUME NEW index \in Nat
      PROVE  Stream!ClientInput(u, index) = Stream!ClientInput(s, index)
  <2>1. Stream!ClientInput(t, index) = <<>>
    BY <1>2, NoInputYet DEF QuietEvents
  <2>2. /\ Stream!ClientInput(s, index) \in Stream!Strings
        /\ Stream!ClientInput(u, index) = Stream!ClientInput(s, index) \o Stream!ClientInput(t, index)
    BY <1>1, <1>2, InputOfConcat
  <2> DEFINE before == Stream!ClientInput(s, index)
  <2> HIDE DEF before, u
  <2>3. before \in Seq(Stream!Fragments)
    BY <2>2 DEF before, Stream!Strings
  <2>4. before \o <<>> = before
    BY <2>3
  <2> QED
    BY <2>1, <2>2, <2>4 DEF before
<1>4. ASSUME NEW i \in 1 .. Len(u)
      PROVE  /\ NumberedBelow(u[i], m)
             /\ ToolStart(u[i]) => GoodInput(Stream!ClientInput(u, u[i].index))
  <2>1. CASE i \in 1 .. Len(s) /\ u[i] = s[i]
    <3>1. s[i] \in StreamEvents
      BY <1>1, <2>1
    <3>2. s[i].type \in {"content_block_start", "content_block_delta"} => s[i].index \in Nat
      BY <3>1 DEF StreamEvents, Stream!ClientEvents, Stream!MessageStart, Stream!MessageStop
    <3>3. NumberedBelow(s[i], n) /\ (ToolStart(s[i]) => GoodInput(Stream!ClientInput(s, s[i].index)))
      BY <2>1 DEF GoodStream
    <3>4. NumberedBelow(s[i], m)
      BY <1>1, <3>2, <3>3 DEF NumberedBelow
    <3>5. ToolStart(s[i]) => Stream!ClientInput(u, s[i].index) = Stream!ClientInput(s, s[i].index)
      BY <1>3, <3>2 DEF ToolStart
    <3> QED
      BY <2>1, <3>3, <3>4, <3>5
  <2>2. CASE \E j \in 1 .. Len(t) : u[i] = t[j]
    BY <1>2, <2>2 DEF QuietEvents
  <2>3. (i \in 1 .. Len(s) /\ u[i] = s[i]) \/ \E j \in 1 .. Len(t) : u[i] = t[j]
    BY <1>1, <1>2, StreamElements
  <2> HIDE DEF u
  <2> QED
    BY <2>1, <2>2, <2>3
<1>5. u \in Seq(StreamEvents)
  BY <1>1, <1>2
<1> HIDE DEF u
<1>6. GoodStream(u, m)
  BY <1>4, <1>5 DEF GoodStream
<1> QED
  BY <1>3, <1>6 DEF u

\* More input for a block.
LEMMA InputMore ==
    ASSUME NEW s, NEW n, GoodStream(s, n), NEW index \in Nat, index < n, NEW data \in Stream!Strings,
           GoodInput(Stream!ClientInput(s, index) \o data)
    PROVE  GoodStream(s \o <<Stream!BlockDelta(index, "input_json_delta", data)>>, n)
<1> DEFINE e == Stream!BlockDelta(index, "input_json_delta", data)
           t == <<e>>
           u == s \o t
<1>1. s \in Seq(StreamEvents) /\ n \in Nat
  BY DEF GoodStream
<1>2. /\ e \in StreamEvents /\ ~ToolStart(e) /\ NumberedBelow(e, n)
      /\ \A j : Stream!InputOf(e, j) = IF j = index THEN data ELSE <<>>
  <2>1. e \in StreamEvents
    BY StreamEventTypes
  <2>2. e.type = "content_block_delta" /\ e.index = index /\ e.delta = "input_json_delta" /\ e.data = data
    BY DEF Stream!BlockDelta
  <2> HIDE DEF e
  <2> QED
    BY <2>1, <2>2 DEF ToolStart, NumberedBelow, Stream!InputOf
<1> HIDE DEF e
<1>3. t \in Seq(StreamEvents) /\ \A j : Stream!ClientInput(t, j) = IF j = index THEN data ELSE <<>>
  BY <1>2, InputOfOne, SeqOfOne
<1>4. Len(t) = 1 /\ t[1] = e
  OBVIOUS
<1> HIDE DEF t
<1>5. ASSUME NEW j
      PROVE  Stream!ClientInput(u, j) = IF j = index THEN Stream!ClientInput(s, index) \o data
                                        ELSE Stream!ClientInput(s, j)
  <2>1. /\ Stream!ClientInput(s, j) \in Stream!Strings
        /\ Stream!ClientInput(u, j) = Stream!ClientInput(s, j) \o Stream!ClientInput(t, j)
    BY <1>1, <1>3, InputOfConcat
  <2> DEFINE before == Stream!ClientInput(s, j)
  <2> HIDE DEF before, u
  <2>2. before \in Seq(Stream!Fragments)
    BY <2>1 DEF before, Stream!Strings
  <2>3. before \o <<>> = before
    BY <2>2
  <2> QED
    BY <1>3, <2>1, <2>3 DEF before
<1>6. ASSUME NEW i \in 1 .. Len(u)
      PROVE  /\ NumberedBelow(u[i], n)
             /\ ToolStart(u[i]) => GoodInput(Stream!ClientInput(u, u[i].index))
  <2>1. CASE i \in 1 .. Len(s) /\ u[i] = s[i]
    <3>1. NumberedBelow(s[i], n) /\ (ToolStart(s[i]) => GoodInput(Stream!ClientInput(s, s[i].index)))
      BY <2>1 DEF GoodStream
    <3> QED
      BY <1>5, <2>1, <3>1
  <2>2. CASE \E j \in 1 .. Len(t) : u[i] = t[j]
    <3>1. u[i] = e
      BY <1>4, <2>2
    <3> QED
      BY <1>2, <3>1
  <2>3. (i \in 1 .. Len(s) /\ u[i] = s[i]) \/ \E j \in 1 .. Len(t) : u[i] = t[j]
    BY <1>1, <1>3, StreamElements
  <2> HIDE DEF u
  <2> QED
    BY <2>1, <2>2, <2>3
<1>7. u \in Seq(StreamEvents)
  BY <1>1, <1>3
<1> HIDE DEF u
<1>8. GoodStream(u, n)
  BY <1>1, <1>6, <1>7 DEF GoodStream
<1> QED
  BY <1>8 DEF u, t, e

\* A tool call begins without input.
LEMMA ToolMore ==
    ASSUME NEW s, NEW n, GoodStream(s, n), GoodInput(<<>>)
    PROVE  /\ GoodStream(s \o <<Stream!BlockStart(n, "tool_use")>>, n + 1)
           /\ Stream!ClientInput(s \o <<Stream!BlockStart(n, "tool_use")>>, n) = <<>>
<1> DEFINE e == Stream!BlockStart(n, "tool_use")
           t == <<e>>
           u == s \o t
<1>1. s \in Seq(StreamEvents) /\ n \in Nat
  BY DEF GoodStream
<1>2. /\ e \in StreamEvents /\ ~InputDelta(e) /\ NumberedBelow(e, n + 1) /\ e.index = n
  <2>1. e \in StreamEvents
    BY <1>1, StreamEventTypes
  <2>2. e.type = "content_block_start" /\ e.index = n
    BY DEF Stream!BlockStart
  <2> HIDE DEF e
  <2> QED
    BY <1>1, <2>1, <2>2 DEF InputDelta, NumberedBelow
<1> HIDE DEF e
<1>3. t \in Seq(StreamEvents) /\ Len(t) = 1 /\ t[1] = e
  BY <1>2, SeqOfOne
<1> HIDE DEF t
<1>4. u \in Seq(StreamEvents)
  BY <1>1, <1>3
<1>5. ASSUME NEW j \in Nat
      PROVE  Stream!ClientInput(u, j) = Stream!ClientInput(s, j)
  <2>1. Stream!ClientInput(t, j) = <<>>
    BY <1>2, <1>3, NoInputYet
  <2>2. /\ Stream!ClientInput(s, j) \in Stream!Strings
        /\ Stream!ClientInput(u, j) = Stream!ClientInput(s, j) \o Stream!ClientInput(t, j)
    BY <1>1, <1>3, InputOfConcat
  <2> DEFINE before == Stream!ClientInput(s, j)
  <2> HIDE DEF before, u
  <2>3. before \in Seq(Stream!Fragments)
    BY <2>2 DEF before, Stream!Strings
  <2>4. before \o <<>> = before
    BY <2>3
  <2> QED
    BY <2>1, <2>2, <2>4 DEF before
<1>6. Stream!ClientInput(s, n) = <<>>
  <2>1. \A i \in 1 .. Len(s) : InputDelta(s[i]) => s[i].index # n
    BY <1>1 DEF GoodStream, NumberedBelow, InputDelta
  <2> QED
    BY <1>1, <2>1, NoInputYet
<1>7. ASSUME NEW i \in 1 .. Len(u)
      PROVE  /\ NumberedBelow(u[i], n + 1)
             /\ ToolStart(u[i]) => GoodInput(Stream!ClientInput(u, u[i].index))
  <2>1. CASE i \in 1 .. Len(s) /\ u[i] = s[i]
    <3>1. NumberedBelow(s[i], n) /\ (ToolStart(s[i]) => GoodInput(Stream!ClientInput(s, s[i].index)))
      BY <2>1 DEF GoodStream
    <3>2. s[i].type \in {"content_block_start", "content_block_delta"} => s[i].index \in Nat
      <4>1. s[i] \in StreamEvents
        BY <1>1, <2>1
      <4> QED
        BY <4>1 DEF StreamEvents, Stream!ClientEvents, Stream!MessageStart, Stream!MessageStop
    <3>3. NumberedBelow(s[i], n + 1)
      BY <1>1, <3>1, <3>2 DEF NumberedBelow
    <3>4. ToolStart(s[i]) => Stream!ClientInput(u, s[i].index) = Stream!ClientInput(s, s[i].index)
      BY <1>5, <3>2 DEF ToolStart
    <3> QED
      BY <2>1, <3>1, <3>3, <3>4
  <2>2. CASE \E j \in 1 .. Len(t) : u[i] = t[j]
    <3>1. u[i] = e
      BY <1>3, <2>2
    <3>2. Stream!ClientInput(u, n) = <<>>
      BY <1>1, <1>5, <1>6
    <3>3. u[i].index = n /\ NumberedBelow(u[i], n + 1)
      BY <1>2, <3>1
    <3>4. Stream!ClientInput(u, u[i].index) = <<>>
      BY <3>2, <3>3
    <3>5. GoodInput(Stream!ClientInput(u, u[i].index))
      BY <3>4
    <3> QED
      BY <3>3, <3>5
  <2>3. (i \in 1 .. Len(s) /\ u[i] = s[i]) \/ \E j \in 1 .. Len(t) : u[i] = t[j]
    BY <1>1, <1>3, StreamElements
  <2> HIDE DEF u
  <2> QED
    BY <2>1, <2>2, <2>3
<1> HIDE DEF u
<1>8. GoodStream(u, n + 1)
  BY <1>1, <1>4, <1>7 DEF GoodStream
<1> QED
  BY <1>1, <1>5, <1>6, <1>8 DEF u, t, e

-----------------------------------------------------------------------------
(* The events of a block and of a whole Output list *)

SignatureValues == Signatures \cup {NoSignature}

LEMMA StringTypes ==
    /\ <<>> \in Stream!Strings
    /\ Seq(Fragments) \subseteq Stream!Strings
    /\ \A signature \in Signatures : <<signature>> \in Stream!Strings
<1>1. Fragments \subseteq Stream!Fragments /\ Signatures \subseteq Stream!Fragments
  BY DEF Fragments, Stream!Fragments
<1>2. \A signature \in Signatures : <<signature>> \in Seq(Stream!Fragments)
  BY <1>1
<1>3. ASSUME NEW s \in Seq(Fragments)
      PROVE  s \in Seq(Stream!Fragments)
  BY <1>1, SeqSubset
<1> QED
  BY <1>2, <1>3 DEF Stream!Strings

LEMMA QuietTypes ==
    ASSUME NEW n \in Nat
    PROVE  /\ Stream!MessageStart \in QuietEvents(n)
           /\ Stream!MessageStop \in QuietEvents(n)
           /\ \A reason \in {"end_turn", "max_tokens", "tool_use"} :
                 Stream!MessageDelta(reason) \in QuietEvents(n)
           /\ \A index \in Nat : Stream!BlockStop(index) \in QuietEvents(n)
           /\ \A index \in Nat, kind \in {"text", "thinking"} :
                 index < n => Stream!BlockStart(index, kind) \in QuietEvents(n)
           /\ \A index \in Nat, data \in Stream!Strings :
                 \A delta \in {"text_delta", "thinking_delta", "signature_delta"} :
                     index < n => Stream!BlockDelta(index, delta, data) \in QuietEvents(n)
<1>1. /\ Stream!MessageStart \in QuietEvents(n)
      /\ Stream!MessageStop \in QuietEvents(n)
  BY StreamEventTypes DEF QuietEvents, ToolStart, InputDelta, NumberedBelow, Stream!MessageStart,
                          Stream!MessageStop
<1>2. ASSUME NEW reason \in {"end_turn", "max_tokens", "tool_use"}
      PROVE  Stream!MessageDelta(reason) \in QuietEvents(n)
  <2>1. Stream!MessageDelta(reason) \in StreamEvents
    BY StreamEventTypes
  <2>2. Stream!MessageDelta(reason).type = "message_delta"
    BY DEF Stream!MessageDelta
  <2> QED
    BY <2>1, <2>2 DEF QuietEvents, ToolStart, InputDelta, NumberedBelow
<1>3. ASSUME NEW index \in Nat
      PROVE  Stream!BlockStop(index) \in QuietEvents(n)
  <2>1. Stream!BlockStop(index) \in StreamEvents
    BY StreamEventTypes
  <2>2. Stream!BlockStop(index).type = "content_block_stop"
    BY DEF Stream!BlockStop
  <2> QED
    BY <2>1, <2>2 DEF QuietEvents, ToolStart, InputDelta, NumberedBelow
<1>4. ASSUME NEW index \in Nat, NEW kind \in {"text", "thinking"}, index < n
      PROVE  Stream!BlockStart(index, kind) \in QuietEvents(n)
  <2> DEFINE e == Stream!BlockStart(index, kind)
  <2>1. e \in StreamEvents
    BY StreamEventTypes
  <2>2. e.type = "content_block_start" /\ e.index = index /\ e.kind = kind
    BY DEF Stream!BlockStart
  <2> HIDE DEF e
  <2>3. e \in QuietEvents(n)
    BY <1>4, <2>1, <2>2 DEF QuietEvents, ToolStart, InputDelta, NumberedBelow
  <2> QED
    BY <2>3 DEF e
<1>5. ASSUME NEW index \in Nat, NEW data \in Stream!Strings,
             NEW delta \in {"text_delta", "thinking_delta", "signature_delta"}, index < n
      PROVE  Stream!BlockDelta(index, delta, data) \in QuietEvents(n)
  <2> DEFINE e == Stream!BlockDelta(index, delta, data)
  <2>1. e \in StreamEvents
    BY StreamEventTypes
  <2>2. e.type = "content_block_delta" /\ e.index = index /\ e.delta = delta
    BY DEF Stream!BlockDelta
  <2> HIDE DEF e
  <2>3. e \in QuietEvents(n)
    BY <1>5, <2>1, <2>2 DEF QuietEvents, ToolStart, InputDelta, NumberedBelow
  <2> QED
    BY <2>3 DEF e
<1> QED
  BY <1>1, <1>2, <1>3, <1>4, <1>5

LEMMA QuietSignature ==
    ASSUME NEW index \in Nat, NEW kind, NEW signature \in SignatureValues, NEW n \in Nat, index < n
    PROVE  Stream!SignatureEvents(index, kind, signature) \in Seq(QuietEvents(n))
<1> DEFINE e == Stream!BlockDelta(index, "signature_delta", <<signature>>)
<1>1. signature # NoSignature => e \in QuietEvents(n)
  BY QuietTypes, StringTypes DEF SignatureValues
<1> HIDE DEF e
<1>2. signature # NoSignature => <<e>> \in Seq(QuietEvents(n))
  BY <1>1, SeqOfOne
<1>3. <<>> \in Seq(QuietEvents(n))
  BY EmptySeq
<1> QED
  BY <1>2, <1>3 DEF Stream!SignatureEvents, e

LEMMA QuietClosing ==
    ASSUME NEW block, block.index \in Nat, block.signature \in SignatureValues,
           NEW n \in Nat, block.index < n
    PROVE  Stream!Closing(block) \in Seq(QuietEvents(n))
<1>1. Stream!SignatureEvents(block.index, block.kind, block.signature) \in Seq(QuietEvents(n))
  BY QuietSignature
<1>2. <<Stream!BlockStop(block.index)>> \in Seq(QuietEvents(n))
  BY QuietTypes, SeqOfOne
<1> QED
  BY <1>1, <1>2, ConcatType DEF Stream!Closing

\* The input of a call may be blank yet.
LEMMA BlankIsGood ==
    ASSUME truth \in TrueResponses, NEW index \in TrueItems, IsTool(index)
    PROVE  GoodInput(<<>>)
<1> DEFINE whole == TrueParts(index)[1]
<1>1. TrueItem(index).type = "function_call" => IsPrefix(<<>>, whole)
  <2>1. ASSUME TrueItem(index).type = "function_call"
        PROVE  Len(TrueParts(index)) = 1
    <3>1. index + 1 \in 1 .. Len(truth.output)
      BY TrueResponsesAssumption DEF TrueItems
    <3> QED
      BY <2>1, <3>1, TrueResponsesAssumption DEF TrueItem, TrueParts
  <2>2. TrueItem(index).type = "function_call" => whole \in Seq(Fragments)
    BY <2>1, TruePart
  <2> HIDE DEF whole
  <2> QED
    BY <2>2, EmptyIsPrefix
<1> QED
  BY <1>1 DEF GoodInput, GivenInput

\* The blocks of an Output list that tells the truth.
GoodBlocks ==
    {block \in [kind : {"text", "thinking", "tool_use"}, data : Stream!Strings,
                signature : SignatureValues] :
        block.kind = "tool_use" => GoodInput(block.data) /\ GoodInput(<<>>)}

LEMMA DataDeltas ==
    /\ Stream!DataDelta("text") = "text_delta"
    /\ Stream!DataDelta("thinking") = "thinking_delta"
    /\ Stream!DataDelta("tool_use") = "input_json_delta"
BY DEF Stream!DataDelta

LEMMA FullBlockMore ==
    ASSUME NEW s, NEW n, GoodStream(s, n), NEW block \in GoodBlocks
    PROVE  /\ Stream!FullBlockEvents(n, block) \in Seq(StreamEvents)
           /\ GoodStream(s \o Stream!FullBlockEvents(n, block), n + 1)
<1> DEFINE a == <<Stream!BlockStart(n, block.kind)>>
           b == IF block.data # <<>>
                THEN <<Stream!BlockDelta(n, Stream!DataDelta(block.kind), block.data)>> ELSE <<>>
           c == Stream!SignatureEvents(n, block.kind, block.signature)
           d == <<Stream!BlockStop(n)>>
           quiet == Seq(QuietEvents(n + 1))
<1>1. s \in Seq(StreamEvents) /\ n \in Nat /\ n + 1 \in Nat /\ n < n + 1 /\ n + 1 <= n + 1
  BY DEF GoodStream
<1>2. /\ block.kind \in {"text", "thinking", "tool_use"} /\ block.data \in Stream!Strings
      /\ block.signature \in SignatureValues
      /\ block.kind = "tool_use" => GoodInput(block.data) /\ GoodInput(<<>>)
  BY DEF GoodBlocks
<1>3. c \in quiet /\ d \in quiet
  BY <1>1, <1>2, QuietSignature, QuietTypes, SeqOfOne
<1>4. Stream!BlockStart(n, block.kind) \in StreamEvents
  BY <1>1, <1>2, StreamEventTypes
<1>5. Stream!BlockDelta(n, Stream!DataDelta(block.kind), block.data) \in StreamEvents
  BY <1>1, <1>2, StreamEventTypes, DataDeltas
<1>6. a \in Seq(StreamEvents) /\ b \in Seq(StreamEvents)
  BY <1>4, <1>5, EmptySeq, SeqOfOne
<1>7. quiet \subseteq Seq(StreamEvents)
  <2>1. QuietEvents(n + 1) \subseteq StreamEvents
    BY DEF QuietEvents
  <2> QED
    BY <2>1, SeqSubset
<1>8. c \in Seq(StreamEvents) /\ d \in Seq(StreamEvents)
  BY <1>3, <1>7
<1>9. GoodStream(Cat(Cat(s, a), b), n + 1)
  <2>1. CASE block.kind = "tool_use"
    <3>1. GoodStream(Cat(s, a), n + 1) /\ Stream!ClientInput(Cat(s, a), n) = <<>>
      BY <1>2, <2>1, ToolMore DEF Cat
    <3>2. CASE block.data = <<>>
      <4>1. b = <<>> /\ Cat(s, a) \in Seq(StreamEvents)
        BY <3>1, <3>2 DEF GoodStream
      <4>2. Cat(Cat(s, a), <<>>) = Cat(s, a)
        BY <4>1 DEF Cat
      <4> QED
        BY <3>1, <4>1, <4>2
    <3>3. CASE block.data # <<>>
      <4>1. b = <<Stream!BlockDelta(n, "input_json_delta", block.data)>>
        BY <2>1, <3>3, DataDeltas
      <4>2. <<>> \o block.data = block.data
        <5> DEFINE data == block.data
        <5>1. data \in Seq(Stream!Fragments)
          BY <1>2 DEF Stream!Strings
        <5> HIDE DEF data
        <5>2. <<>> \o data = data
          BY <5>1
        <5> QED
          BY <5>2 DEF data
      <4>3. GoodInput(Stream!ClientInput(Cat(s, a), n) \o block.data)
        BY <1>2, <2>1, <3>1, <4>2
      <4> DEFINE sa == Cat(s, a)
      <4> HIDE DEF sa
      <4>4. GoodStream(sa \o <<Stream!BlockDelta(n, "input_json_delta", block.data)>>, n + 1)
        BY <1>1, <1>2, <3>1, <4>3, InputMore DEF sa
      <4> QED
        BY <4>1, <4>4 DEF sa, Cat
    <3> QED
      BY <3>2, <3>3
  <2>2. CASE block.kind # "tool_use"
    <3>1. block.kind \in {"text", "thinking"}
      BY <1>2, <2>2
    <3>2. Stream!BlockStart(n, block.kind) \in QuietEvents(n + 1)
      BY <1>1, <3>1, QuietTypes
    <3>3. Stream!BlockDelta(n, Stream!DataDelta(block.kind), block.data) \in QuietEvents(n + 1)
      BY <1>1, <1>2, <3>1, QuietTypes, DataDeltas
    <3>4. a \in quiet /\ b \in quiet
      BY <3>2, <3>3, EmptySeq, SeqOfOne
    <3>5. n <= n + 1
      BY <1>1
    <3>6. GoodStream(s \o a, n + 1)
      BY <1>1, <3>4, <3>5, QuietMore
    <3>7. GoodStream((s \o a) \o b, n + 1)
      <4> DEFINE sa == s \o a
      <4> HIDE DEF sa, a, b
      <4>1. GoodStream(sa \o b, n + 1)
        BY <1>1, <3>4, <3>6, QuietMore DEF sa
      <4> QED
        BY <4>1 DEF sa
    <3> QED
      BY <3>7 DEF Cat
  <2> QED
    BY <2>1, <2>2
<1>10. Stream!FullBlockEvents(n, block) = Cat(Cat(Cat(a, b), c), d)
  BY DEF Stream!FullBlockEvents, Cat
<1> HIDE DEF a, b, c, d
<1>11. GoodStream(Cat(Cat(Cat(Cat(s, a), b), c), d), n + 1)
  <2> DEFINE sab == Cat(Cat(s, a), b)
             sabc == Cat(sab, c)
  <2> HIDE DEF sab, sabc
  <2>1. GoodStream(sabc, n + 1)
    BY <1>1, <1>3, <1>9, QuietMore DEF sab, sabc, Cat
  <2>2. GoodStream(Cat(sabc, d), n + 1)
    BY <1>1, <1>3, <2>1, QuietMore DEF Cat
  <2> QED
    BY <2>2 DEF sab, sabc
<1>12. Cat(s, Cat(Cat(Cat(a, b), c), d)) = Cat(Cat(Cat(Cat(s, a), b), c), d)
  BY <1>1, <1>6, <1>8, CatFive
<1>13. Cat(Cat(Cat(a, b), c), d) \in Seq(StreamEvents)
  <2>1. Cat(a, b) \in Seq(StreamEvents)
    BY <1>6, CatSeq
  <2>2. Cat(Cat(a, b), c) \in Seq(StreamEvents)
    BY <1>8, <2>1, CatSeq
  <2> QED
    BY <1>8, <2>2, CatSeq
<1> DEFINE full == Stream!FullBlockEvents(n, block)
<1> HIDE DEF full
<1>14. GoodStream(Cat(s, full), n + 1)
  BY <1>10, <1>11, <1>12 DEF full
<1> QED
  BY <1>10, <1>13, <1>14 DEF full, Cat

\* One block after the other.
LEMMA FullOutputMore ==
    ASSUME NEW s, NEW n, GoodStream(s, n), NEW blocks \in Seq(GoodBlocks)
    PROVE  GoodStream(s \o Stream!StreamFullOutput(blocks, n), n + Len(blocks))
<1> DEFINE ss(m) == [k \in 1 .. m |-> Stream!FullBlockEvents(n + k - 1, blocks[k])]
           flat(m) == FlattenSeq(ss(m))
           Good(m) == GoodStream(Cat(s, flat(m)), n + m)
           K == {m \in Nat : m <= Len(blocks) => Good(m)}
<1>1. /\ Len(blocks) \in Nat /\ s \in Seq(StreamEvents) /\ n \in Nat
      /\ \A k \in 1 .. Len(blocks) : blocks[k] \in GoodBlocks
  BY ElementOf DEF GoodStream
<1>2. ASSUME NEW m \in Nat, m <= Len(blocks)
      PROVE  ss(m) \in [1 .. m -> Seq(StreamEvents)]
  <2>1. ASSUME NEW k \in 1 .. m
        PROVE  Stream!FullBlockEvents(n + k - 1, blocks[k]) \in Seq(StreamEvents)
    <3>1. n + k - 1 \in Nat /\ blocks[k] \in GoodBlocks
      BY <1>1, <1>2
    <3>2. GoodStream(<<>>, n + k - 1)
      BY <3>1, EmptySeq DEF GoodStream
    <3> QED
      BY <3>1, <3>2, FullBlockMore
  <2> QED
    BY <2>1
<1>3. 0 \in K
  <2>1. ss(0) \in [1 .. 0 -> {<<>>}]
    OBVIOUS
  <2> HIDE DEF ss
  <2>2. flat(0) = <<>>
    BY <2>1, FlattenSeqOfEmpties
  <2> HIDE DEF flat
  <2>3. Cat(s, <<>>) = s /\ n + 0 = n
    BY <1>1 DEF Cat
  <2>4. Good(0)
    BY <2>2, <2>3
  <2> QED
    BY <2>4
<1>4. ASSUME NEW m \in Nat, m \in K
      PROVE  m + 1 \in K
  <2> SUFFICES ASSUME m + 1 <= Len(blocks) PROVE Good(m + 1)
    OBVIOUS
  <2> DEFINE block == blocks[m + 1]
             events == Stream!FullBlockEvents(n + m, block)
  <2>1. m <= Len(blocks) /\ block \in GoodBlocks
    BY <1>1
  <2>2. Good(m)
    BY <1>4, <2>1
  <2>3. events \in Seq(StreamEvents) /\ GoodStream(Cat(s, flat(m)) \o events, (n + m) + 1)
    <3> DEFINE u == Cat(s, flat(m))
    <3> HIDE DEF u, block
    <3> QED
      BY <2>1, <2>2, FullBlockMore DEF u
  <2>4. ss(m) \in [1 .. m -> Seq(StreamEvents)] /\ ss(m + 1) \in [1 .. m + 1 -> Seq(StreamEvents)]
    BY <1>2, <2>1
  <2>5. \A k \in 1 .. m : ss(m + 1)[k] = ss(m)[k]
    OBVIOUS
  <2>6. ss(m + 1)[m + 1] = events
    <3>1. n + (m + 1) - 1 = n + m
      BY <1>1
    <3> QED
      BY <3>1
  <2> HIDE DEF ss, events
  <2>7. flat(m) \in Seq(StreamEvents) /\ flat(m + 1) = flat(m) \o events
    <3> DEFINE old == ss(m)
               new == ss(m + 1)
    <3> HIDE DEF old, new
    <3>1. /\ old \in [1 .. m -> Seq(StreamEvents)] /\ new \in [1 .. m + 1 -> Seq(StreamEvents)]
          /\ \A k \in 1 .. m : new[k] = old[k]
      BY <2>4, <2>5 DEF old, new
    <3>2. FlattenSeq(old) \in Seq(StreamEvents) /\ FlattenSeq(new) = FlattenSeq(old) \o new[m + 1]
      BY <3>1, FlattenSeqOneMore
    <3> QED
      BY <2>6, <3>2 DEF old, new
  <2> HIDE DEF flat
  <2>8. Cat(s, Cat(flat(m), events)) = Cat(Cat(s, flat(m)), events)
    BY <1>1, <2>3, <2>7, CatAssociative
  <2>9. n + (m + 1) = (n + m) + 1
    BY <1>1
  <2> QED
    BY <2>3, <2>7, <2>8, <2>9 DEF Cat
<1>5. Len(blocks) \in K
  <2> HIDE DEF K
  <2> QED
    BY <1>1, <1>3, <1>4, SetInduction
<1>6. Stream!StreamFullOutput(blocks, n) = flat(Len(blocks))
  BY SameFlattenSeq DEF Stream!StreamFullOutput
<1> HIDE DEF flat
<1> QED
  BY <1>1, <1>5, <1>6 DEF Cat

-----------------------------------------------------------------------------
(* The inputs of the upstream's calls *)

LEMMA CallType ==
    ASSUME truth \in TrueResponses, NEW index \in TrueItems, IsTool(index)
    PROVE  /\ Len(TrueParts(index)) = 1
           /\ TrueParts(index)[1] \in Seq(Fragments)
           /\ Len(TrueParts(index)[1]) \in Nat
<1>1. index + 1 \in 1 .. Len(truth.output)
  BY TrueResponsesAssumption DEF TrueItems
<1>2. Len(TrueParts(index)) = 1
  BY <1>1, TrueResponsesAssumption DEF TrueItem, TrueParts, IsTool
<1>3. TrueParts(index)[1] \in Seq(Fragments)
  BY <1>2, TruePart
<1> QED
  BY <1>2, <1>3, LenProperties

LEMMA BeginningIsPrefix ==
    ASSUME NEW S, NEW s \in Seq(S), NEW n \in 0 .. Len(s)
    PROVE  IsPrefix(SubSeq(s, 1, n), s) /\ SubSeq(s, 1, n) \in Seq(S)
<1> DEFINE t == SubSeq(s, 1, n)
<1>1. t \in Seq(S) /\ Len(t) = n /\ \A i \in 1 .. n : t[i] = s[i]
  OBVIOUS
<1>2. SubSeq(t, 1, n) = t
  <2> HIDE DEF t
  <2> QED
    BY <1>1
<1>3. Len(s) \in Nat
  OBVIOUS
<1> QED
  BY <1>1, <1>2, <1>3 DEF IsPrefix

LEMMA GoodArguments ==
    ASSUME truth \in TrueResponses, NEW index \in TrueItems, TrueItem(index).type = "function_call",
           NEW n \in 0 .. Len(TrueParts(index)[1])
    PROVE  /\ GoodInput(SubSeq(TrueParts(index)[1], 1, n))
           /\ SubSeq(TrueParts(index)[1], 1, n) \in Stream!Strings
<1>1. IsTool(index)
  BY DEF IsTool
<1>2. TrueParts(index)[1] \in Seq(Fragments)
  BY <1>1, CallType
<1> DEFINE whole == TrueParts(index)[1]
<1>3. IsPrefix(SubSeq(whole, 1, n), whole) /\ SubSeq(whole, 1, n) \in Seq(Fragments)
  <2> HIDE DEF whole
  <2>1. whole \in Seq(Fragments) /\ n \in 0 .. Len(whole)
    BY <1>2 DEF whole
  <2> QED
    BY <2>1, BeginningIsPrefix
<1> QED
  BY <1>1, <1>3, StringTypes DEF GoodInput, GivenInput

LEMMA WholeIsBeginning ==
    ASSUME NEW S, NEW s \in Seq(S)
    PROVE  SubSeq(s, 1, Len(s)) = s /\ Len(s) \in 0 .. Len(s)
OBVIOUS

\* What handleToolDone and streamFullOutput send of arguments.
LEMMA GoodFunctionInput ==
    ASSUME truth \in TrueResponses, NEW index \in TrueItems, TrueItem(index).type = "function_call",
           NEW n \in 0 .. Len(TrueParts(index)[1])
    PROVE  \A sent \in {Stream!FunctionToolInput(SubSeq(TrueParts(index)[1], 1, n)),
                        Stream!SentArguments(SubSeq(TrueParts(index)[1], 1, n))} :
              GoodInput(sent) /\ sent \in Stream!Strings
<1>1. IsTool(index)
  BY DEF IsTool
<1>2. GoodInput(Stream!EmptyObject)
  BY <1>1 DEF GoodInput, GivenInput, EmptyObject, Stream!EmptyObject
<1>3. "{}" \in Stream!Fragments
  BY DEF Stream!Fragments
<1>4. Stream!EmptyObject \in Stream!Strings
  BY <1>3, SeqOfOne DEF Stream!EmptyObject, Stream!Strings
<1> DEFINE part == SubSeq(TrueParts(index)[1], 1, n)
<1>5. GoodInput(part) /\ part \in Stream!Strings
  BY GoodArguments
<1> HIDE DEF part
<1>6. /\ Stream!FunctionToolInput(part) \in {part, Stream!EmptyObject}
      /\ Stream!SentArguments(part) \in {part, Stream!EmptyObject}
  BY DEF Stream!FunctionToolInput, Stream!SentArguments
<1> QED
  BY <1>2, <1>4, <1>5, <1>6 DEF part

\* What it sends of a custom input.
LEMMA GoodCustomInput ==
    ASSUME truth \in TrueResponses, NEW index \in TrueItems, TrueItem(index).type = "custom_tool_call",
           NEW n \in 0 .. Len(TrueParts(index)[1])
    PROVE  /\ GoodInput(Stream!CustomToolInput(SubSeq(TrueParts(index)[1], 1, n)))
           /\ Stream!CustomToolInput(SubSeq(TrueParts(index)[1], 1, n)) \in Stream!Strings
<1>1. IsTool(index)
  BY DEF IsTool
<1> DEFINE whole == TrueParts(index)[1]
           part == SubSeq(whole, 1, n)
<1>2. whole \in Seq(Fragments)
  BY <1>1, CallType
<1>3. Stream!CustomToolInput(part) = CustomToolInput(part)
  BY DEF Stream!CustomToolInput, CustomToolInput
<1>4. GoodInput(CustomToolInput(part))
  BY <1>1 DEF GoodInput, GivenInput
<1>5. part \in Seq(Stream!Fragments)
  <2> HIDE DEF whole
  <2>1. n \in 0 .. Len(whole)
    BY DEF whole
  <2>2. part \in Seq(Fragments)
    BY <1>2, <2>1, BeginningIsPrefix
  <2> QED
    BY <2>2, StringTypes DEF Stream!Strings
<1>6. <<"{input:">> \in Seq(Stream!Fragments) /\ <<"}">> \in Seq(Stream!Fragments)
  <2>1. "{input:" \in Stream!Fragments /\ "}" \in Stream!Fragments
    BY DEF Stream!Fragments
  <2> QED
    BY <2>1, SeqOfOne
<1> HIDE DEF part
<1>7. Stream!CustomToolInput(part) \in Stream!Strings
  BY <1>5, <1>6, ConcatType DEF Stream!CustomToolInput, Stream!Strings
<1> QED
  BY <1>3, <1>4, <1>7 DEF part

-----------------------------------------------------------------------------
(* The blocks of the upstream's Output list *)

LEMMA NotBlankType ==
    ASSUME NEW S, NEW texts \in Seq(Seq(S))
    PROVE  NotBlank(texts) \in Seq(Seq(S))
<1> DEFINE T == Seq(S)
           ss == [i \in 1 .. Len(texts) |-> IF texts[i] = <<>> THEN <<>> ELSE <<texts[i]>>]
<1>1. texts \in Seq(T)
  OBVIOUS
<1> HIDE DEF T
<1>2. ASSUME NEW i \in 1 .. Len(texts)
      PROVE  ss[i] \in Seq(T)
  <2>1. texts[i] \in T
    BY <1>1
  <2> QED
    BY <2>1, SeqOfOne, EmptySeq
<1>3. ss \in Seq(Seq(T))
  <2>1. Len(texts) \in Nat
    BY <1>1
  <2>2. ss \in [1 .. Len(texts) -> Seq(T)]
    BY <1>2
  <2> HIDE DEF ss
  <2> QED
    BY <2>1, <2>2, SeqOfFunction
<1> HIDE DEF ss
<1>4. FlattenSeq(ss) \in Seq(T)
  BY <1>3, FlattenSeqType
<1> QED
  BY <1>4 DEF NotBlank, ss, T

LEMMA GoodBlock ==
    ASSUME NEW kind \in {"text", "thinking", "tool_use"}, NEW data \in Stream!Strings,
           NEW signature \in SignatureValues,
           kind = "tool_use" => GoodInput(data) /\ GoodInput(<<>>)
    PROVE  /\ Stream!ContentBlock(kind, data, signature) \in GoodBlocks
           /\ <<Stream!ContentBlock(kind, data, signature)>> \in Seq(GoodBlocks)
<1>1. Stream!ContentBlock(kind, data, signature) \in GoodBlocks
  BY DEF GoodBlocks, Stream!ContentBlock
<1> QED
  BY <1>1, SeqOfOne

LEMMA GoodItemBlocks ==
    ASSUME truth \in TrueResponses, NEW index \in TrueItems
    PROVE  Stream!ItemBlocks(Shown(TrueItem(index))) \in Seq(GoodBlocks)
<1> DEFINE item == TrueItem(index)
           data == TrueParts(index)
           shown == Shown(item)
<1>1. /\ item.type \in {"message", "reasoning", "function_call", "custom_tool_call"}
      /\ item.signature \in SignatureValues
      /\ data \in Seq(Seq(Fragments))
  BY TrueItemType, TrueItemLabels, FieldsKnown DEF Parts, Fragments, SignatureValues
<1>2. item.data[FieldOf[item.type]] = data
  BY DEF TrueParts
<1>3. NoSignature \in SignatureValues
  BY DEF SignatureValues
<1>4. CASE item.type = "reasoning"
  <2> DEFINE summary == FlattenSeq(data)
  <2>1. shown = [type |-> "reasoning", summary |-> summary, signature |-> item.signature]
    BY <1>2, <1>4 DEF Shown
  <2>2. summary \in Stream!Strings
    <3> HIDE DEF data
    <3>1. FlattenSeq(data) \in Seq(Fragments)
      BY <1>1, FlattenSeqType
    <3> QED
      BY <3>1, StringTypes
  <2> HIDE DEF summary, shown, item
  <2>3. Stream!ItemBlocks(shown) \in
            {<<>>, <<Stream!ContentBlock("thinking", summary, item.signature)>>}
    BY <2>1 DEF Stream!ItemBlocks
  <2>4. <<Stream!ContentBlock("thinking", summary, item.signature)>> \in Seq(GoodBlocks)
    BY <1>1, <2>2, GoodBlock
  <2>5. Stream!ItemBlocks(shown) \in Seq(GoodBlocks)
    BY <2>3, <2>4, EmptySeq
  <2> QED
    BY <2>5 DEF shown, item
<1>5. CASE item.type = "message"
  <2> DEFINE texts == NotBlank(data)
  <2>1. shown = [type |-> "message", texts |-> texts]
    BY <1>2, <1>5 DEF Shown
  <2>2. texts \in Seq(Seq(Fragments))
    <3> HIDE DEF data
    <3> QED
      BY <1>1, NotBlankType
  <2> DEFINE T == Seq(Fragments)
  <2> HIDE DEF texts, shown, item, T
  <2>3. texts \in Seq(T)
    BY <2>2 DEF T
  <2>4. Len(texts) \in Nat /\ \A i \in 1 .. Len(texts) : texts[i] \in T
    BY <2>3
  <2> DEFINE blocks == [i \in 1 .. Len(texts) |-> Stream!ContentBlock("text", texts[i], NoSignature)]
  <2>5. Stream!ItemBlocks(shown) = blocks
    BY <2>1 DEF Stream!ItemBlocks
  <2>6. ASSUME NEW i \in 1 .. Len(texts)
        PROVE  Stream!ContentBlock("text", texts[i], NoSignature) \in GoodBlocks
    <3>1. texts[i] \in Stream!Strings
      BY <2>4, StringTypes DEF T
    <3> QED
      BY <1>3, <3>1 DEF GoodBlocks, Stream!ContentBlock
  <2>7. blocks \in [1 .. Len(texts) -> GoodBlocks]
    BY <2>6
  <2> HIDE DEF blocks
  <2>8. blocks \in Seq(GoodBlocks)
    BY <2>4, <2>7, SeqOfFunction
  <2> QED
    BY <2>5, <2>8 DEF shown, item
<1>6. CASE item.type \in {"function_call", "custom_tool_call"}
  <2> DEFINE whole == data[1]
             n == Len(whole)
  <2>1. IsTool(index)
    BY <1>6 DEF IsTool
  <2>2. whole \in Seq(Fragments)
    BY <2>1, CallType
  <2>3. n \in 0 .. n /\ SubSeq(whole, 1, n) = whole
    <3> HIDE DEF whole
    <3> QED
      BY <2>2, WholeIsBeginning
  <2>4. GoodInput(<<>>)
    BY <2>1, BlankIsGood
  <2>5. CASE item.type = "function_call"
    <3>1. shown = [type |-> "function_call", arguments |-> whole]
      BY <1>2, <2>5 DEF Shown
    <3>2. GoodInput(Stream!FunctionToolInput(whole)) /\ Stream!FunctionToolInput(whole) \in Stream!Strings
      BY <2>3, <2>5, GoodFunctionInput
    <3> HIDE DEF shown, whole, item
    <3>3. Stream!ItemBlocks(shown) =
              <<Stream!ContentBlock("tool_use", Stream!FunctionToolInput(whole), NoSignature)>>
      BY <3>1 DEF Stream!ItemBlocks
    <3>4. Stream!ItemBlocks(shown) \in Seq(GoodBlocks)
      BY <1>3, <2>4, <3>2, <3>3, GoodBlock
    <3> QED
      BY <3>4 DEF shown, item
  <2>6. CASE item.type = "custom_tool_call"
    <3>1. shown = [type |-> "custom_tool_call", input |-> whole]
      BY <1>2, <2>6 DEF Shown
    <3>2. GoodInput(Stream!CustomToolInput(whole)) /\ Stream!CustomToolInput(whole) \in Stream!Strings
      BY <2>3, <2>6, GoodCustomInput
    <3> HIDE DEF shown, whole, item
    <3>3. Stream!ItemBlocks(shown) =
              <<Stream!ContentBlock("tool_use", Stream!CustomToolInput(whole), NoSignature)>>
      BY <3>1 DEF Stream!ItemBlocks
    <3>4. Stream!ItemBlocks(shown) \in Seq(GoodBlocks)
      BY <1>3, <2>4, <3>2, <3>3, GoodBlock
    <3> QED
      BY <3>4 DEF shown, item
  <2> QED
    BY <1>6, <2>5, <2>6
<1> QED
  BY <1>1, <1>4, <1>5, <1>6

\* A terminal event shows the whole Output list, or none.
LEMMA GoodOutputBlocks ==
    ASSUME truth \in TrueResponses, NEW output \in {<<>>, truth.output}
    PROVE  Stream!OutputBlocks([i \in DOMAIN output |-> Shown(output[i])]) \in Seq(GoodBlocks)
<1> DEFINE shown == [i \in DOMAIN output |-> Shown(output[i])]
           ss == [i \in 1 .. Len(shown) |-> Stream!ItemBlocks(shown[i])]
<1>1. /\ Len(output) \in Nat /\ DOMAIN output = 1 .. Len(output)
      /\ \A i \in 1 .. Len(output) : output = truth.output
  <2>1. truth.output \in Seq(ResponseItems)
    BY TrueResponsesAssumption
  <2>2. CASE output = <<>>
    BY <2>2
  <2>3. CASE output = truth.output
    BY <2>1, <2>3, LenProperties
  <2> QED
    BY <2>2, <2>3
<1>2. Len(shown) = Len(output) /\ \A i \in 1 .. Len(output) : shown[i] = Shown(output[i])
  BY <1>1
<1>3. ASSUME NEW i \in 1 .. Len(output)
      PROVE  Stream!ItemBlocks(Shown(output[i])) \in Seq(GoodBlocks)
  <2>1. i - 1 \in TrueItems /\ output[i] = TrueItem(i - 1)
    BY <1>1 DEF TrueItems, TrueItem
  <2> QED
    BY <2>1, GoodItemBlocks
<1> HIDE DEF shown
<1>4. ss \in [1 .. Len(output) -> Seq(GoodBlocks)]
  BY <1>2, <1>3
<1>5. Stream!OutputBlocks(shown) = FlattenSeq(ss)
  BY SameFlattenSeq DEF Stream!OutputBlocks
<1> HIDE DEF ss
<1>6. ss \in Seq(Seq(GoodBlocks))
  BY <1>1, <1>4, SeqOfFunction
<1>7. FlattenSeq(ss) \in Seq(GoodBlocks)
  BY <1>6, FlattenSeqType
<1> QED
  BY <1>5, <1>7 DEF shown

-----------------------------------------------------------------------------
(* The invariant of the streaming converter *)

OpenBlocks ==
    [index : Nat, outputIndex : OutputIndexes, kind : {"text", "thinking", "tool_use"},
     custom : BOOLEAN, buffer : Seq(Fragments), hadDelta : BOOLEAN, signature : SignatureValues]

\* The block that is open is numbered next, and so will be the one after it.
Shape(s, next, block, saw) ==
    /\ next \in Nat
    /\ block \in OpenBlocks \cup {Stream!NoBlock}
    /\ block # Stream!NoBlock => block.index = next /\ saw
    /\ GoodStream(s, IF block = Stream!NoBlock THEN next ELSE next + 1)

\* An open tool call is one of the upstream's, and the n fragments that were sent of
\* its input are in the buffer; the client has them, unless the call is a custom one.
OpenCall(block, s, n) ==
    /\ block.outputIndex \in TrueItems
    /\ IsTool(block.outputIndex)
    /\ block.custom <=> TrueItem(block.outputIndex).type = "custom_tool_call"
    /\ n \in 0 .. Len(TrueParts(block.outputIndex)[1])
    /\ block.buffer = SubSeq(TrueParts(block.outputIndex)[1], 1, n)
    /\ Stream!ClientInput(s, block.index) = IF block.custom THEN <<>> ELSE block.buffer
    /\ ~block.custom /\ ~block.hadDelta => block.buffer = <<>>

\* The beginning of a message and the end of the open block are quiet.
Prelude == (emitted \o Stream!StartMessage) \o Stream!CloseActive

StreamShape == Shape(emitted, nextBlockIndex, active, sawContent)

LEMMA QuietStart ==
    ASSUME NEW n \in Nat
    PROVE  Stream!StartMessage \in Seq(QuietEvents(n))
<1>1. <<Stream!MessageStart>> \in Seq(QuietEvents(n)) /\ <<>> \in Seq(QuietEvents(n))
  BY QuietTypes, SeqOfOne, EmptySeq
<1> QED
  BY <1>1 DEF Stream!StartMessage

LEMMA ActiveType ==
    ASSUME StreamShape
    PROVE  /\ nextBlockIndex \in Nat
           /\ Stream!IndexAfterClose = IF active = Stream!NoBlock THEN nextBlockIndex ELSE nextBlockIndex + 1
           /\ Stream!IndexAfterClose \in Nat
           /\ GoodStream(emitted, Stream!IndexAfterClose)
           /\ \/ active = Stream!NoBlock /\ active.kind = "none"
              \/ /\ active \in OpenBlocks
                 /\ active # Stream!NoBlock
                 /\ active.kind \in {"text", "thinking", "tool_use"}
                 /\ active.index = nextBlockIndex
                 /\ active.index \in Nat
                 /\ active.signature \in SignatureValues
                 /\ Stream!IndexAfterClose = active.index + 1
                 /\ sawContent
<1>1. Stream!NoBlock.kind = "none"
  BY DEF Stream!NoBlock
<1>2. \A block \in OpenBlocks :
          block.kind \in {"text", "thinking", "tool_use"} /\ block.index \in Nat
          /\ block.signature \in SignatureValues
  BY DEF OpenBlocks
<1>3. \A block \in OpenBlocks : block # Stream!NoBlock
  BY <1>1, <1>2
<1> QED
  BY <1>1, <1>2, <1>3 DEF StreamShape, Shape, Stream!IndexAfterClose

LEMMA QuietClose ==
    ASSUME StreamShape
    PROVE  Stream!CloseActive \in Seq(QuietEvents(Stream!IndexAfterClose))
<1>1. CASE active = Stream!NoBlock
  BY <1>1, EmptySeq DEF Stream!CloseActive
<1>2. CASE active # Stream!NoBlock
  <2>1. active.index < Stream!IndexAfterClose
    BY <1>2, ActiveType
  <2>2. Stream!Closing(active) \in Seq(QuietEvents(Stream!IndexAfterClose))
    BY <1>2, <2>1, ActiveType, QuietClosing
  <2> QED
    BY <1>2, <2>2 DEF Stream!CloseActive
<1> QED
  BY <1>1, <1>2

LEMMA PreludeIsGood ==
    ASSUME StreamShape
    PROVE  /\ GoodStream(emitted \o Stream!StartMessage, Stream!IndexAfterClose)
           /\ \A index \in Nat : Stream!ClientInput(emitted \o Stream!StartMessage, index) =
                                     Stream!ClientInput(emitted, index)
           /\ GoodStream(Prelude, Stream!IndexAfterClose)
<1> DEFINE n == Stream!IndexAfterClose
           s == emitted \o Stream!StartMessage
<1>1. n \in Nat /\ n <= n /\ GoodStream(emitted, n)
  BY ActiveType
<1>2. Stream!StartMessage \in Seq(QuietEvents(n)) /\ Stream!CloseActive \in Seq(QuietEvents(n))
  BY <1>1, QuietStart, QuietClose
<1> HIDE DEF n
<1>3. GoodStream(s, n) /\ \A index \in Nat : Stream!ClientInput(s, index) = Stream!ClientInput(emitted, index)
  BY <1>1, <1>2, QuietMore
<1> HIDE DEF s
<1>4. GoodStream(s \o Stream!CloseActive, n)
  BY <1>1, <1>2, <1>3, QuietMore
<1> QED
  BY <1>3, <1>4 DEF n, s, Prelude

-----------------------------------------------------------------------------
(* The steps of the streaming converter *)

LEMMA HadDeltaChanges ==
    ASSUME NEW block \in OpenBlocks, NEW had \in BOOLEAN
    PROVE  LET changed == [block EXCEPT !.hadDelta = had]
           IN  /\ changed \in OpenBlocks
               /\ changed.index = block.index /\ changed.outputIndex = block.outputIndex
               /\ changed.kind = block.kind /\ changed.custom = block.custom
               /\ changed.buffer = block.buffer /\ changed.hadDelta = had
               /\ changed.signature = block.signature
BY DEF OpenBlocks

LEMMA NewBlock ==
    ASSUME NEW next \in Nat, NEW index \in OutputIndexes, NEW kind \in {"text", "thinking", "tool_use"},
           NEW custom \in BOOLEAN, NEW signature \in SignatureValues
    PROVE  LET block == Stream!Block(next, index, kind, custom, signature)
           IN  /\ block \in OpenBlocks
               /\ block.index = next /\ block.outputIndex = index /\ block.kind = kind
               /\ block.custom = custom /\ block.buffer = <<>>
<1>1. <<>> \in Seq(Fragments)
  BY EmptySeq
<1> QED
  BY <1>1 DEF OpenBlocks, Stream!Block

\* The shape after a step, and an open call of which n fragments have been sent.
ShapeNext == Shape(emitted', nextBlockIndex', active', sawContent')
CallNext(n) == ~streamTerminal' /\ active'.kind = "tool_use" => OpenCall(active', emitted', n)

LEMMA FailShape ==
    ASSUME StreamShape, NEW e, Stream!FailWith(e), NEW n
    PROVE  ShapeNext /\ CallNext(n)
BY DEF StreamShape, ShapeNext, CallNext, Stream!FailWith

LEMMA CreatedShape ==
    ASSUME StreamShape, Stream!Created, NEW n, active.kind = "tool_use" => OpenCall(active, emitted, n)
    PROVE  ShapeNext /\ CallNext(n)
<1>1. /\ emitted' = emitted \o Stream!StartMessage
      /\ UNCHANGED <<nextBlockIndex, active, sawContent>>
  BY DEF Stream!Created
<1>2. GoodStream(emitted', Stream!IndexAfterClose)
  BY <1>1, PreludeIsGood
<1>3. ShapeNext
  BY <1>1, <1>2, ActiveType DEF StreamShape, ShapeNext, Shape
<1>4. CASE active.kind = "tool_use"
  <2>1. Stream!ClientInput(emitted', active.index) = Stream!ClientInput(emitted, active.index)
    BY <1>1, <1>4, PreludeIsGood, ActiveType
  <2>2. OpenCall(active, emitted', n)
    BY <1>4, <2>1 DEF OpenCall
  <2> QED
    BY <1>1, <1>3, <2>2 DEF CallNext
<1>5. CASE active.kind # "tool_use"
  BY <1>1, <1>3, <1>5 DEF CallNext
<1> QED
  BY <1>4, <1>5

\* A block of text or of reasoning is opened.
LEMMA OpenBlockShape ==
    ASSUME StreamShape, NEW index \in OutputIndexes, NEW kind \in {"text", "thinking"},
           NEW signature \in SignatureValues,
           NEW deltas \in Seq(QuietEvents(Stream!IndexAfterClose + 1)),
           Stream!OpenBlock(index, kind, FALSE, signature, deltas), NEW n
    PROVE  ShapeNext /\ CallNext(n)
<1> DEFINE next == Stream!IndexAfterClose
           block == Stream!Block(next, index, kind, FALSE, signature)
           opened == [block EXCEPT !.hadDelta = (deltas # <<>>)]
           start == <<Stream!BlockStart(next, kind)>>
<1>1. /\ active' = opened
      /\ emitted' = (Prelude \o <<Stream!BlockStart(block.index, kind)>>) \o deltas
      /\ sawContent' = TRUE
      /\ nextBlockIndex' = next
  BY DEF Stream!OpenBlock, Prelude
<1>2. next \in Nat /\ next + 1 \in Nat /\ next <= next + 1 /\ next < next + 1 /\ next + 1 <= next + 1
  BY ActiveType
<1>3. block.index = next
  BY DEF Stream!Block
<1>4. opened \in OpenBlocks /\ opened.index = next /\ opened.kind = kind
  <2>1. block \in OpenBlocks /\ block.index = next /\ block.kind = kind
    <3>1. kind \in {"text", "thinking", "tool_use"} /\ next \in Nat
      BY <1>2
    <3> HIDE DEF next
    <3>2. Stream!Block(next, index, kind, FALSE, signature) \in OpenBlocks
      BY <3>1, EmptySeq DEF OpenBlocks, Stream!Block
    <3> QED
      BY <3>2 DEF Stream!Block
  <2> DEFINE had == (deltas # <<>>)
  <2>2. had \in BOOLEAN
    OBVIOUS
  <2> HIDE DEF had, block
  <2>3. /\ [block EXCEPT !.hadDelta = had] \in OpenBlocks
        /\ [block EXCEPT !.hadDelta = had].index = block.index
        /\ [block EXCEPT !.hadDelta = had].kind = block.kind
    BY <2>1, <2>2, HadDeltaChanges
  <2> QED
    BY <2>1, <2>3 DEF had
<1>5. start \in Seq(QuietEvents(next + 1))
  BY <1>2, QuietTypes, SeqOfOne
<1>6. GoodStream(Prelude, next)
  BY PreludeIsGood
<1> HIDE DEF next, start
<1>7. GoodStream(Prelude \o start, next + 1)
  BY <1>2, <1>5, <1>6, QuietMore
<1>8. GoodStream((Prelude \o start) \o deltas, next + 1)
  <2> DEFINE s == Prelude \o start
  <2> HIDE DEF s
  <2>1. deltas \in Seq(QuietEvents(next + 1))
    BY DEF next
  <2>2. GoodStream(s \o deltas, next + 1)
    BY <1>2, <1>7, <2>1, QuietMore DEF s
  <2> QED
    BY <2>2 DEF s
<1>9. emitted' = (Prelude \o start) \o deltas
  BY <1>1, <1>3 DEF start, next
<1> HIDE DEF opened
<1>10. ShapeNext
  <2>1. opened # Stream!NoBlock
    BY <1>4 DEF Stream!NoBlock
  <2> QED
    BY <1>1, <1>2, <1>4, <1>8, <1>9, <2>1 DEF ShapeNext, Shape
<1> QED
  BY <1>1, <1>4, <1>10 DEF CallNext

\* A tool call is opened.
LEMMA ToolAddedShape ==
    ASSUME truth \in TrueResponses, StreamShape, NEW index \in TrueItems, IsTool(index),
           NEW custom \in BOOLEAN, custom <=> TrueItem(index).type = "custom_tool_call",
           Stream!ToolAdded(index, custom)
    PROVE  ShapeNext /\ CallNext(0) /\ active'.outputIndex = index
<1> DEFINE next == Stream!IndexAfterClose
           block == Stream!Block(next, index, "tool_use", custom, NoSignature)
           opened == [block EXCEPT !.hadDelta = (<<>> # <<>>)]
           start == <<Stream!BlockStart(next, "tool_use")>>
<1>1. /\ active' = opened
      /\ emitted' = (Prelude \o <<Stream!BlockStart(block.index, "tool_use")>>) \o <<>>
      /\ sawContent' = TRUE
      /\ nextBlockIndex' = next
  BY DEF Stream!ToolAdded, Stream!OpenBlock, Prelude
<1>2. next \in Nat /\ next + 1 \in Nat
  BY ActiveType
<1>3. block.index = next
  BY DEF Stream!Block
<1>4. index \in OutputIndexes
  BY TrueItemType
<1>5. /\ opened \in OpenBlocks /\ opened.index = next /\ opened.kind = "tool_use"
      /\ opened.outputIndex = index /\ opened.custom = custom /\ opened.buffer = <<>>
  <2>1. /\ block \in OpenBlocks /\ block.index = next /\ block.kind = "tool_use"
        /\ block.outputIndex = index /\ block.custom = custom /\ block.buffer = <<>>
    BY <1>2, <1>4, NewBlock DEF SignatureValues
  <2> DEFINE had == (<<>> # <<>>)
  <2>2. had \in BOOLEAN
    OBVIOUS
  <2> HIDE DEF had, block
  <2>3. LET changed == [block EXCEPT !.hadDelta = had]
        IN  /\ changed \in OpenBlocks
            /\ changed.index = block.index /\ changed.outputIndex = block.outputIndex
            /\ changed.kind = block.kind /\ changed.custom = block.custom
            /\ changed.buffer = block.buffer
    BY <2>1, <2>2, HadDeltaChanges
  <2> QED
    BY <2>1, <2>3 DEF had
<1>6. GoodStream(Prelude, next) /\ GoodInput(<<>>)
  BY PreludeIsGood, BlankIsGood
<1> HIDE DEF next
<1>7. GoodStream(Prelude \o start, next + 1) /\ Stream!ClientInput(Prelude \o start, next) = <<>>
  BY <1>6, ToolMore
<1> HIDE DEF start
<1>8. emitted' = Prelude \o start
  <2> DEFINE s == Prelude \o start
  <2>1. emitted' = s \o <<>>
    BY <1>1, <1>3 DEF start, next
  <2>2. s \in Seq(StreamEvents)
    BY <1>7 DEF GoodStream
  <2> HIDE DEF s
  <2>3. s \o <<>> = s
    BY <2>2
  <2> QED
    BY <2>1, <2>3 DEF s
<1> HIDE DEF opened
<1>9. ShapeNext
  <2>1. opened # Stream!NoBlock
    BY <1>5 DEF Stream!NoBlock
  <2> QED
    BY <1>1, <1>2, <1>5, <1>7, <1>8, <2>1 DEF ShapeNext, Shape
<1>10. OpenCall(opened, emitted', 0)
  <2>1. TrueParts(index)[1] \in Seq(Fragments) /\ 0 \in 0 .. Len(TrueParts(index)[1])
    BY CallType
  <2>2. SubSeq(TrueParts(index)[1], 1, 0) = <<>>
    <3> DEFINE whole == TrueParts(index)[1]
    <3> HIDE DEF whole
    <3>1. whole \in Seq(Fragments)
      BY <2>1 DEF whole
    <3>2. SubSeq(whole, 1, 0) = <<>>
      BY <3>1
    <3> QED
      BY <3>2 DEF whole
  <2>3. Stream!ClientInput(emitted', opened.index) = <<>>
    BY <1>5, <1>7, <1>8
  <2> QED
    BY <1>5, <2>1, <2>2, <2>3 DEF OpenCall
<1> QED
  BY <1>1, <1>5, <1>9, <1>10 DEF CallNext

\* The open block is closed.
LEMMA SendAndCloseShape ==
    ASSUME StreamShape, active # Stream!NoBlock, NEW events, Stream!SendAndClose(events),
           GoodStream(emitted \o events, Stream!IndexAfterClose), NEW n
    PROVE  ShapeNext /\ CallNext(n)
<1> DEFINE s == emitted \o events
           next == Stream!IndexAfterClose
<1>1. /\ emitted' = s \o Stream!CloseActive
      /\ active' = Stream!NoBlock
      /\ nextBlockIndex' = nextBlockIndex + 1
  BY DEF Stream!SendAndClose
<1>2. next = nextBlockIndex + 1 /\ next \in Nat /\ next <= next
  BY ActiveType
<1>3. Stream!CloseActive \in Seq(QuietEvents(next))
  BY QuietClose
<1> HIDE DEF s, next
<1>4. GoodStream(s \o Stream!CloseActive, next)
  BY <1>2, <1>3, QuietMore DEF s, next
<1>5. Stream!NoBlock.kind = "none"
  BY DEF Stream!NoBlock
<1> QED
  BY <1>1, <1>2, <1>4, <1>5 DEF ShapeNext, Shape, CallNext

\* A delta of a block of text or of reasoning.
LEMMA QuietDeltaShape ==
    ASSUME StreamShape, active.kind \in {"text", "thinking"}, NEW data \in Stream!Strings,
           NEW delta \in {"text_delta", "thinking_delta"},
           Stream!SendDelta(delta, data), active' = [active EXCEPT !.hadDelta = TRUE],
           nextBlockIndex' = nextBlockIndex, sawContent' = TRUE \/ sawContent' = sawContent, NEW n
    PROVE  ShapeNext /\ CallNext(n)
<1> DEFINE e == Stream!BlockDelta(active.index, delta, data)
           next == Stream!IndexAfterClose
<1>1. /\ active \in OpenBlocks /\ active # Stream!NoBlock /\ active.index = nextBlockIndex
      /\ next = nextBlockIndex + 1 /\ next \in Nat /\ next <= next /\ active.index \in Nat
      /\ active.index < next /\ sawContent /\ GoodStream(emitted, next)
  BY ActiveType
<1>2. e \in QuietEvents(next)
  BY <1>1, QuietTypes
<1>3. emitted' = emitted \o <<e>>
  <2>1. emitted' = Append(emitted, e) /\ emitted \in Seq(StreamEvents) /\ e \in StreamEvents
    BY <1>1, <1>2 DEF Stream!SendDelta, GoodStream, QuietEvents
  <2> HIDE DEF e
  <2> QED
    BY <2>1, AppendIsConcat
<1> HIDE DEF e, next
<1>4. GoodStream(emitted', next)
  <2>1. <<e>> \in Seq(QuietEvents(next))
    BY <1>2, SeqOfOne
  <2> QED
    BY <1>1, <1>3, <2>1, QuietMore
<1>5. active' \in OpenBlocks /\ active'.index = active.index /\ active'.kind = active.kind
  BY <1>1, HadDeltaChanges
<1>6. active' # Stream!NoBlock
  BY <1>5 DEF Stream!NoBlock
<1> QED
  BY <1>1, <1>4, <1>5, <1>6 DEF ShapeNext, Shape, CallNext

LEMMA ContentDeltaShape ==
    ASSUME StreamShape, NEW index \in OutputIndexes, NEW kind \in {"text", "thinking"},
           NEW data \in Stream!Strings, Stream!ContentDelta(kind, index, data), NEW n
    PROVE  ShapeNext /\ CallNext(n)
<1>1. Stream!DataDelta(kind) \in {"text_delta", "thinking_delta"}
  BY DataDeltas
<1>2. CASE /\ Stream!Continues(kind, index)
           /\ Stream!SendDelta(Stream!DataDelta(kind), data)
           /\ active' = [active EXCEPT !.hadDelta = TRUE]
           /\ sawContent' = TRUE
           /\ nextBlockIndex' = nextBlockIndex
  <2>1. active.kind \in {"text", "thinking"}
    BY <1>2 DEF Stream!Continues
  <2> QED
    BY <1>1, <1>2, <2>1, QuietDeltaShape
<1>3. CASE Stream!OpenBlock(index, kind, FALSE, NoSignature,
                            <<Stream!BlockDelta(Stream!IndexAfterClose, Stream!DataDelta(kind), data)>>)
  <2> DEFINE next == Stream!IndexAfterClose
             deltas == <<Stream!BlockDelta(next, Stream!DataDelta(kind), data)>>
  <2>1. next \in Nat /\ next + 1 \in Nat /\ next < next + 1
    BY ActiveType
  <2> HIDE DEF next
  <2>2. deltas \in Seq(QuietEvents(next + 1))
    BY <1>1, <2>1, QuietTypes, SeqOfOne
  <2>3. Stream!OpenBlock(index, kind, FALSE, NoSignature, deltas) /\ NoSignature \in SignatureValues
    BY <1>3 DEF next, SignatureValues
  <2> HIDE DEF deltas
  <2> QED
    BY <2>2, <2>3, OpenBlockShape DEF next
<1> QED
  BY <1>2, <1>3 DEF Stream!ContentDelta

LEMMA NothingSent ==
    ASSUME StreamShape
    PROVE  GoodStream(emitted \o <<>>, Stream!IndexAfterClose)
<1>1. GoodStream(emitted, Stream!IndexAfterClose) /\ emitted \in Seq(StreamEvents)
  BY ActiveType DEF GoodStream
<1>2. emitted \o <<>> = emitted
  BY <1>1
<1> QED
  BY <1>1, <1>2

LEMMA TextDoneShape ==
    ASSUME StreamShape, NEW text \in Stream!Strings, Stream!TextDone(text), NEW n
    PROVE  ShapeNext /\ CallNext(n)
<1> DEFINE block == Stream!ContentBlock("text", text, NoSignature)
           s == emitted \o Stream!StartMessage
<1>1. CASE /\ active = Stream!NoBlock
           /\ emitted' = s \o Stream!FullBlockEvents(nextBlockIndex, block)
           /\ sawContent' = TRUE
           /\ nextBlockIndex' = nextBlockIndex + 1
           /\ active' = active
  <2>1. block \in GoodBlocks
    BY GoodBlock DEF SignatureValues
  <2>2. Stream!IndexAfterClose = nextBlockIndex /\ nextBlockIndex + 1 \in Nat
    BY <1>1, ActiveType
  <2>3. GoodStream(s, nextBlockIndex)
    BY <2>2, PreludeIsGood
  <2> HIDE DEF s, block
  <2>4. GoodStream(s \o Stream!FullBlockEvents(nextBlockIndex, block), nextBlockIndex + 1)
    BY <2>1, <2>3, FullBlockMore
  <2>5. active'.kind # "tool_use"
    BY <1>1 DEF Stream!NoBlock
  <2> QED
    BY <1>1, <2>2, <2>4, <2>5 DEF ShapeNext, Shape, CallNext
<1>2. CASE active.kind = "text" /\ Stream!SendAndClose(<<>>)
  <2>1. active # Stream!NoBlock
    BY <1>2 DEF Stream!NoBlock
  <2> QED
    BY <1>2, <2>1, NothingSent, SendAndCloseShape
<1> QED
  BY <1>1, <1>2 DEF Stream!TextDone

LEMMA ReasoningDoneShape ==
    ASSUME StreamShape, NEW text \in Stream!Strings, Stream!ReasoningDone(text), NEW n
    PROVE  ShapeNext /\ CallNext(n)
<1>1. /\ active.kind \in {"text", "thinking"}
      /\ Stream!SendDelta("thinking_delta", text)
      /\ active' = [active EXCEPT !.hadDelta = TRUE]
      /\ nextBlockIndex' = nextBlockIndex /\ sawContent' = sawContent
  BY DEF Stream!ReasoningDone
<1> QED
  BY <1>1, QuietDeltaShape

\* The next fragment of the open call.
LEMMA CallGrows ==
    ASSUME NEW S, NEW whole \in Seq(S), NEW n \in 0 .. Len(whole) - 1
    PROVE  /\ n + 1 \in 0 .. Len(whole)
           /\ whole[n + 1] \in S
           /\ Append(SubSeq(whole, 1, n), whole[n + 1]) = SubSeq(whole, 1, n + 1)
           /\ SubSeq(whole, 1, n) \o <<whole[n + 1]>> = SubSeq(whole, 1, n + 1)
           /\ SubSeq(whole, 1, n + 1) \in Seq(S)
<1>1. whole[n + 1] \in S /\ n + 1 \in 0 .. Len(whole)
  OBVIOUS
<1>2. Append(SubSeq(whole, 1, n), whole[n + 1]) = SubSeq(whole, 1, n + 1)
  BY NextFragment
<1>3. n \in 0 .. Len(whole)
  OBVIOUS
<1>4. SubSeq(whole, 1, n) \in Seq(S) /\ SubSeq(whole, 1, n + 1) \in Seq(S)
  BY <1>1, <1>3, BeginningIsPrefix
<1> DEFINE part == SubSeq(whole, 1, n)
           x == whole[n + 1]
<1> HIDE DEF part, x
<1>5. Append(part, x) = part \o <<x>>
  BY <1>1, <1>4, AppendIsConcat DEF part, x
<1> QED
  BY <1>1, <1>2, <1>4, <1>5 DEF part, x

LEMMA ToolDeltaShape ==
    ASSUME truth \in TrueResponses, StreamShape, NEW index \in TrueItems, IsTool(index),
           NEW custom \in BOOLEAN, custom <=> TrueItem(index).type = "custom_tool_call",
           NEW n \in 0 .. Len(TrueParts(index)[1]) - 1,
           active.kind = "tool_use" /\ active.outputIndex = index => OpenCall(active, emitted, n),
           Stream!ToolDelta(index, custom, TrueParts(index)[1][n + 1])
    PROVE  /\ ShapeNext
           /\ CallNext(n + 1)
           /\ streamTerminal' \/ active'.outputIndex = index
<1> DEFINE whole == TrueParts(index)[1]
           fragment == whole[n + 1]
           next == Stream!IndexAfterClose
<1>1. whole \in Seq(Fragments) /\ Len(whole) \in Nat
  BY CallType
<1>2. /\ n + 1 \in 0 .. Len(whole) /\ fragment \in Fragments
      /\ Append(SubSeq(whole, 1, n), fragment) = SubSeq(whole, 1, n + 1)
      /\ SubSeq(whole, 1, n) \o <<fragment>> = SubSeq(whole, 1, n + 1)
      /\ SubSeq(whole, 1, n + 1) \in Seq(Fragments)
  <2>1. n \in 0 .. Len(whole) - 1
    OBVIOUS
  <2> HIDE DEF whole
  <2> QED
    BY <1>1, <2>1, CallGrows
<1>3. CASE /\ Stream!ToolMatches(index, custom)
           /\ active' = [active EXCEPT !.buffer = Append(@, fragment), !.hadDelta = @ \/ ~custom]
           /\ IF custom THEN UNCHANGED emitted ELSE Stream!SendDelta("input_json_delta", <<fragment>>)
           /\ UNCHANGED <<streamTerminal, sawContent, nextBlockIndex>>
  <2>1. active.kind = "tool_use" /\ active.outputIndex = index /\ active.custom = custom
    BY <1>3 DEF Stream!ToolMatches
  <2>2. OpenCall(active, emitted, n)
    BY <2>1
  <2>3. /\ active \in OpenBlocks /\ active # Stream!NoBlock /\ active.index = nextBlockIndex
        /\ next = nextBlockIndex + 1 /\ next \in Nat /\ active.index \in Nat
        /\ active.index < next /\ sawContent /\ GoodStream(emitted, next)
    BY <2>1, ActiveType DEF Stream!NoBlock
  <2>4. active.buffer = SubSeq(whole, 1, n) /\ active.hadDelta \in BOOLEAN
    BY <2>1, <2>2, <2>3 DEF OpenCall, OpenBlocks
  <2> DEFINE buffer1 == SubSeq(whole, 1, n + 1)
             had1 == active.hadDelta \/ ~custom
  <2>5. active' = [active EXCEPT !.buffer = buffer1, !.hadDelta = had1]
    BY <1>2, <1>3, <2>4
  <2>6. buffer1 \in Seq(Fragments) /\ had1 \in BOOLEAN
    BY <1>2
  <2> HIDE DEF whole, fragment, next, buffer1, had1
  <2>7. /\ active' \in OpenBlocks /\ active'.index = active.index /\ active'.kind = active.kind
        /\ active'.outputIndex = active.outputIndex /\ active'.custom = active.custom
        /\ active'.buffer = buffer1 /\ active'.hadDelta = had1
    BY <2>3, <2>5, <2>6 DEF OpenBlocks
  <2>8. /\ GoodStream(emitted', next)
        /\ Stream!ClientInput(emitted', active.index) = IF custom THEN <<>> ELSE buffer1
    <3>1. CASE custom
      <4>1. Stream!ClientInput(emitted, active.index) = <<>>
        BY <2>1, <2>2, <3>1 DEF OpenCall
      <4> QED
        BY <1>3, <2>3, <3>1, <4>1
    <3>2. CASE ~custom
      <4> DEFINE e == Stream!BlockDelta(active.index, "input_json_delta", <<fragment>>)
                 before == Stream!ClientInput(emitted, active.index)
      <4>1. TrueItem(index).type = "function_call"
        BY <3>2 DEF IsTool
      <4>2. before = SubSeq(whole, 1, n)
        BY <2>1, <2>2, <2>4, <3>2 DEF OpenCall
      <4>3. before \o <<fragment>> = buffer1
        BY <1>2, <4>2 DEF buffer1
      <4>4. GoodInput(buffer1)
        BY <1>2, <4>1, GoodArguments DEF buffer1, whole
      <4>5. <<fragment>> \in Stream!Strings
        BY <1>2, SeqOfOne, StringTypes
      <4>6. e \in StreamEvents
        BY <2>3, <4>5, StreamEventTypes
      <4>7. emitted' = emitted \o <<e>>
        <5>1. emitted' = Append(emitted, e) /\ emitted \in Seq(StreamEvents)
          BY <1>3, <2>3, <3>2 DEF Stream!SendDelta, GoodStream
        <5> HIDE DEF e
        <5> QED
          BY <4>6, <5>1, AppendIsConcat
      <4>8. GoodStream(emitted \o <<e>>, next)
        BY <2>3, <4>3, <4>4, <4>5, InputMore
      <4>9. Stream!ClientInput(emitted \o <<e>>, active.index) = before \o <<fragment>>
        <5>1. Stream!InputOf(e, active.index) = <<fragment>>
          BY DEF Stream!InputOf, Stream!BlockDelta
        <5> HIDE DEF e
        <5>2. <<e>> \in Seq(StreamEvents) /\ emitted \in Seq(StreamEvents)
          BY <2>3, <4>6, SeqOfOne DEF GoodStream
        <5>3. Stream!ClientInput(<<e>>, active.index) = <<fragment>>
          BY <4>6, <5>1, InputOfOne
        <5> DEFINE t == <<e>>
        <5> HIDE DEF t
        <5>4. Stream!ClientInput(emitted \o t, active.index) = before \o Stream!ClientInput(t, active.index)
          BY <5>2, InputOfConcat DEF t
        <5> QED
          BY <5>3, <5>4 DEF t
      <4> QED
        BY <3>2, <4>3, <4>7, <4>8, <4>9
    <3> QED
      BY <3>1, <3>2
  <2>9. ShapeNext
    <3>1. active' # Stream!NoBlock
      BY <2>1, <2>7 DEF Stream!NoBlock
    <3> QED
      BY <1>3, <2>3, <2>7, <2>8, <3>1 DEF ShapeNext, Shape
  <2>10. OpenCall(active', emitted', n + 1)
    <3>1. ~custom => had1
      BY DEF had1
    <3> QED
      BY <1>2, <2>1, <2>7, <2>8, <3>1 DEF OpenCall, buffer1, whole
  <2> QED
    BY <2>1, <2>7, <2>9, <2>10 DEF CallNext
<1>4. CASE ~Stream!ToolMatches(index, custom) /\ Stream!Fail("conversion")
  BY <1>4, FailShape DEF Stream!Fail, Stream!FailWith
<1> QED
  BY <1>3, <1>4 DEF Stream!ToolDelta

\* The end of the input of the open call, which may repeat it.
LEMMA HandleToolDoneShape ==
    ASSUME truth \in TrueResponses, StreamShape, NEW index \in TrueItems, IsTool(index),
           NEW custom \in BOOLEAN, custom <=> TrueItem(index).type = "custom_tool_call",
           NEW m \in 0 .. Len(TrueParts(index)[1]),
           active.kind = "tool_use" /\ active.outputIndex = index => OpenCall(active, emitted, m),
           NEW value \in {<<>>, TrueParts(index)[1]},
           Stream!HandleToolDone(index, custom, value), NEW n
    PROVE  ShapeNext /\ CallNext(n)
<1> DEFINE whole == TrueParts(index)[1]
           complete == Stream!Complete(value)
           next == Stream!IndexAfterClose
<1>1. whole \in Seq(Fragments) /\ Len(whole) \in Nat
  BY CallType
<1>2. CASE ~Stream!ToolMatches(index, custom) /\ Stream!Fail("conversion")
  BY <1>2, FailShape DEF Stream!Fail
<1>3. CASE Stream!ToolMatches(index, custom)
  <2>1. active.kind = "tool_use" /\ active.outputIndex = index /\ active.custom = custom
    BY <1>3 DEF Stream!ToolMatches
  <2>2. OpenCall(active, emitted, m)
    BY <2>1
  <2>3. /\ active \in OpenBlocks /\ active # Stream!NoBlock
        /\ next \in Nat /\ active.index \in Nat /\ active.index < next /\ GoodStream(emitted, next)
    BY <2>1, ActiveType DEF Stream!NoBlock
  <2>4. \E k \in 0 .. Len(whole) : complete = SubSeq(whole, 1, k)
    <3>1. active.buffer = SubSeq(whole, 1, m)
      BY <2>1, <2>2 DEF OpenCall
    <3>2. SubSeq(whole, 1, Len(whole)) = whole /\ Len(whole) \in 0 .. Len(whole)
      <4> HIDE DEF whole
      <4> QED
        BY <1>1, WholeIsBeginning
    <3>3. complete = whole \/ complete = SubSeq(whole, 1, m)
      BY <3>1 DEF Stream!Complete
    <3>4. m \in 0 .. Len(whole)
      OBVIOUS
    <3> HIDE DEF whole, complete
    <3>5. CASE complete = whole
      BY <3>2, <3>5
    <3>6. CASE complete = SubSeq(whole, 1, m)
      BY <3>4, <3>6
    <3> QED
      BY <3>3, <3>5, <3>6
  <2>5. PICK k \in 0 .. Len(whole) : complete = SubSeq(whole, 1, k)
    BY <2>4
  <2>6. ASSUME NEW input, input \in Stream!Strings, GoodInput(input),
               Stream!ClientInput(emitted, active.index) = <<>>,
               Stream!SendAndClose(<<Stream!BlockDelta(active.index, "input_json_delta", input)>>)
        PROVE  ShapeNext /\ CallNext(n)
    <3> DEFINE events == <<Stream!BlockDelta(active.index, "input_json_delta", input)>>
               before == Stream!ClientInput(emitted, active.index)
    <3>1. before \o input = input
      <4>1. input \in Seq(Stream!Fragments)
        BY <2>6 DEF Stream!Strings
      <4> QED
        BY <2>6, <4>1
    <3>2. GoodInput(before \o input)
      BY <2>6, <3>1
    <3>3. GoodStream(emitted \o events, next)
      <4> HIDE DEF next
      <4> QED
        BY <2>3, <2>6, <3>2, InputMore
    <3>4. Stream!SendAndClose(events)
      BY <2>6
    <3> HIDE DEF events
    <3> QED
      BY <2>3, <3>3, <3>4, SendAndCloseShape
  <2>7. CASE custom
    <3>1. Stream!SendAndClose(<<Stream!BlockDelta(active.index, "input_json_delta",
                                                 Stream!CustomToolInput(complete))>>)
      BY <1>3, <2>7 DEF Stream!HandleToolDone, Stream!CustomDone
    <3>2. GoodInput(Stream!CustomToolInput(complete)) /\ Stream!CustomToolInput(complete) \in Stream!Strings
      BY <2>5, <2>7, GoodCustomInput
    <3>3. Stream!ClientInput(emitted, active.index) = <<>>
      BY <2>1, <2>2, <2>7 DEF OpenCall
    <3> QED
      BY <2>6, <3>1, <3>2, <3>3
  <2>8. CASE ~custom
    <3>1. TrueItem(index).type = "function_call"
      BY <2>8 DEF IsTool
    <3>2. CASE Stream!Fail("conversion")
      BY <3>2, FailShape DEF Stream!Fail
    <3>3. CASE active.hadDelta /\ Stream!SendAndClose(<<>>)
      BY <2>3, <3>3, NothingSent, SendAndCloseShape
    <3>4. CASE /\ ~active.hadDelta
               /\ Stream!SendAndClose(<<Stream!BlockDelta(active.index, "input_json_delta",
                                                          Stream!SentArguments(complete))>>)
      <4>1. GoodInput(Stream!SentArguments(complete)) /\ Stream!SentArguments(complete) \in Stream!Strings
        BY <2>5, <3>1, GoodFunctionInput
      <4>2. Stream!ClientInput(emitted, active.index) = <<>>
        BY <2>1, <2>2, <2>8, <3>4 DEF OpenCall
      <4> QED
        BY <2>6, <3>4, <4>1, <4>2
    <3> QED
      BY <1>3, <2>8, <3>2, <3>3, <3>4 DEF Stream!HandleToolDone, Stream!FunctionDone
  <2> QED
    BY <2>7, <2>8
<1> QED
  BY <1>2, <1>3 DEF Stream!HandleToolDone, Stream!CustomDone, Stream!FunctionDone

\* The end of an item of reasoning: its block is closed with the ciphertext.
LEMMA ReasoningEndShape ==
    ASSUME StreamShape, active # Stream!NoBlock, NEW signature \in SignatureValues,
           emitted' = emitted \o Stream!Closing(Stream!Signed(signature)),
           active' = Stream!NoBlock, nextBlockIndex' = nextBlockIndex + 1, NEW n
    PROVE  ShapeNext /\ CallNext(n)
<1> DEFINE next == Stream!IndexAfterClose
           block == Stream!Signed(signature)
<1>1. /\ active \in OpenBlocks /\ active.index \in Nat /\ active.index < next /\ next \in Nat
      /\ next = nextBlockIndex + 1 /\ next <= next /\ GoodStream(emitted, next)
  BY ActiveType
<1>2. block.index = active.index /\ block.signature \in SignatureValues
  BY <1>1 DEF Stream!Signed, OpenBlocks
<1>3. Stream!Closing(block) \in Seq(QuietEvents(next))
  <2>1. block.index \in Nat /\ block.index < next
    BY <1>1, <1>2
  <2> HIDE DEF block, next
  <2> QED
    BY <1>1, <1>2, <2>1, QuietClosing
<1>4. emitted' = emitted \o Stream!Closing(block)
  OBVIOUS
<1> DEFINE t == Stream!Closing(block)
<1> HIDE DEF t, next
<1>5. GoodStream(emitted \o t, next)
  BY <1>1, <1>3, QuietMore DEF t
<1>6. Stream!NoBlock.kind = "none"
  BY DEF Stream!NoBlock
<1> QED
  BY <1>1, <1>4, <1>5, <1>6 DEF ShapeNext, Shape, CallNext, t

\* The end of the stream.
LEMMA HandleTerminalShape ==
    ASSUME StreamShape, NEW type, NEW r, Stream!OutputBlocks(r.output) \in Seq(GoodBlocks),
           Stream!HandleTerminal(type, r), NEW n
    PROVE  ShapeNext /\ CallNext(n)
<1> DEFINE blocks == IF Stream!UsesOutput(r) THEN Stream!OutputBlocks(r.output) ELSE <<>>
           tool == hasTool \/ (Stream!UsesOutput(r) /\ Stream!OutputHasTool(r.output))
           reason == Stream!StopReasonFor(Stream!TerminalStatus(type, r), r.maxTokens, tool)
           end == <<Stream!MessageDelta(reason), Stream!MessageStop>>
           next == Stream!IndexAfterClose
<1>1. ASSUME NEW e, Stream!FailWith(e)
      PROVE  ShapeNext /\ CallNext(n)
  BY <1>1, FailShape
<1>2. CASE /\ emitted' = (Prelude \o Stream!StreamFullOutput(blocks, nextBlockIndex)) \o end
           /\ active' = Stream!NoBlock
           /\ nextBlockIndex' = next + Len(blocks)
  <2>1. blocks \in Seq(GoodBlocks)
    BY EmptySeq
  <2>2. Len(blocks) \in Nat
    <3> HIDE DEF blocks
    <3> QED
      BY <2>1, LenProperties
  <2>3. Stream!StreamFullOutput(blocks, nextBlockIndex) = Stream!StreamFullOutput(blocks, next)
    <3>1. CASE Stream!UsesOutput(r)
      <4>1. active = Stream!NoBlock
        BY <3>1, ActiveType DEF Stream!UsesOutput
      <4> QED
        BY <4>1 DEF Stream!IndexAfterClose
    <3>2. CASE ~Stream!UsesOutput(r)
      <4>1. blocks = <<>>
        BY <3>2
      <4>2. 1 .. Len(blocks) = {}
        BY <4>1
      <4> HIDE DEF blocks, next
      <4>3. [k \in 1 .. Len(blocks) |-> Stream!FullBlockEvents(nextBlockIndex + k - 1, blocks[k])] =
            [k \in 1 .. Len(blocks) |-> Stream!FullBlockEvents(next + k - 1, blocks[k])]
        BY <4>2
      <4> QED
        BY <4>3 DEF Stream!StreamFullOutput
    <3> QED
      BY <3>1, <3>2
  <2>4. next \in Nat /\ GoodStream(Prelude, next)
    BY ActiveType, PreludeIsGood
  <2>5. reason \in {"end_turn", "max_tokens", "tool_use"}
    <3> HIDE DEF tool
    <3> QED
      BY DEF Stream!StopReasonFor
  <2> DEFINE last == next + Len(blocks)
             s == Prelude \o Stream!StreamFullOutput(blocks, next)
  <2>6. last \in Nat /\ last <= last
    BY <2>2, <2>4
  <2>7. end \in Seq(QuietEvents(last))
    <3> HIDE DEF reason, last
    <3>1. Stream!MessageDelta(reason) \in QuietEvents(last) /\ Stream!MessageStop \in QuietEvents(last)
      BY <2>5, <2>6, QuietTypes
    <3> QED
      BY <3>1
  <2>8. GoodStream(s, last)
    <3> HIDE DEF next, blocks
    <3> QED
      BY <2>1, <2>4, FullOutputMore
  <2>9. emitted' = s \o end
    BY <1>2, <2>3
  <2>10. active' = Stream!NoBlock /\ nextBlockIndex' = last
    BY <1>2
  <2> HIDE DEF s, end, last
  <2>11. GoodStream(s \o end, last)
    BY <2>6, <2>7, <2>8, QuietMore
  <2>12. Stream!NoBlock.kind = "none"
    BY DEF Stream!NoBlock
  <2> QED
    BY <2>6, <2>9, <2>10, <2>11, <2>12 DEF ShapeNext, Shape, CallNext
<1> QED
  <2>1. CASE Stream!FailWith("upstream")
    BY <1>1, <2>1
  <2>2. CASE Stream!FailWith("conversion")
    BY <1>1, <2>2
  <2> QED
    BY <1>2, <2>1, <2>2 DEF Stream!HandleTerminal, Stream!Fail, Prelude

-----------------------------------------------------------------------------
(* The steps of the upstream *)

\* The part of the invariant that is about an open call.
CallInv == ~streamTerminal /\ active.kind = "tool_use" =>
               OpenCall(active, emitted, Sent(active.outputIndex, 1))

SentAfter(index) == SentOf(told'[index], 1)

StepHolds == ShapeNext /\ CallNext(SentAfter(active'.outputIndex))

\* Only a delta sends anything.
LEMMA NothingElseIsSent ==
    ASSUME ItemsInv, NEW event, Tell(event), event.type # "delta",
           "index" \in DOMAIN event =>
               event.type \in {"response.output_item.added", "done", "response.output_item.done"},
           NEW index \in TrueItems
    PROVE  SentAfter(index) = Sent(index, 1)
<1>1. CASE "index" \notin DOMAIN event
  BY <1>1 DEF Tell, SentAfter, SentOf, Sent
<1>2. CASE "index" \in DOMAIN event
  <2> DEFINE before == told[event.index]
             said == ToldBy(before, event)
  <2>1. told' = [told EXCEPT ![event.index] = said]
    BY <1>2 DEF Tell
  <2>2. said.sent = before.sent
    <3>1. CASE event.type = "response.output_item.added"
      <4> DEFINE call1 == before.call \/ event.item.call # NoCall
                 signature1 == before.signature \/ event.item.signature # NoSignature
      <4>1. said = [before EXCEPT !.seen = TRUE, !.call = call1, !.signature = signature1]
        BY <3>1 DEF ToldBy
      <4> HIDE DEF said, before, call1, signature1
      <4> QED
        BY <4>1
    <3>2. CASE event.type = "done"
      <4> DEFINE call1 == before.call \/ event.call # NoCall
                 done1 == before.done \cup {event.part}
                 whole1 == IF event.text = <<>> THEN before.whole ELSE before.whole \cup {event.part}
      <4>1. said = [before EXCEPT !.seen = TRUE, !.call = call1, !.done = done1, !.whole = whole1]
        BY <3>2 DEF ToldBy
      <4> HIDE DEF said, before, call1, done1, whole1
      <4> QED
        BY <4>1
    <3>3. CASE event.type = "response.output_item.done"
      <4> DEFINE call1 == before.call \/ event.item.call # NoCall
                 signature1 == before.signature \/ event.item.signature # NoSignature
                 whole1 == IF event.item.data = TrueItem(event.index).data
                           THEN DOMAIN TrueParts(event.index) ELSE before.whole
      <4>1. said = [before EXCEPT !.seen = TRUE, !.closed = TRUE, !.call = call1,
                                  !.signature = signature1, !.whole = whole1]
        BY <3>3 DEF ToldBy
      <4> HIDE DEF said, before, call1, signature1, whole1
      <4> QED
        BY <4>1
    <3> QED
      BY <1>2, <3>1, <3>2, <3>3
  <2>3. index \in DOMAIN told
    BY TrueItemType DEF ItemsInv
  <2> HIDE DEF said
  <2>4. told'[index] = IF index = event.index THEN said ELSE told[index]
    BY <2>1, <2>3
  <2> QED
    BY <2>2, <2>4 DEF SentAfter, SentOf, Sent
<1> QED
  BY <1>1, <1>2

\* An open call is still as it was.
LEMMA CallStays ==
    ASSUME CallInv, ~streamTerminal, active' = active,
           \A index \in TrueItems : SentAfter(index) = Sent(index, 1)
    PROVE  active.kind = "tool_use" => OpenCall(active, emitted, SentAfter(active'.outputIndex))
<1>1. CASE active.kind = "tool_use"
  <2>1. OpenCall(active, emitted, Sent(active.outputIndex, 1))
    BY <1>1 DEF CallInv
  <2>2. active.outputIndex \in TrueItems
    BY <2>1 DEF OpenCall
  <2>3. SentAfter(active'.outputIndex) = Sent(active.outputIndex, 1)
    BY <2>2
  <2> QED
    BY <2>1, <2>3
<1> QED
  BY <1>1

\* An event that is ignored.
LEMMA IgnoredHolds ==
    ASSUME StreamShape, CallInv, UNCHANGED streamVars,
           streamTerminal \/ \A index \in TrueItems : SentAfter(index) = Sent(index, 1)
    PROVE  StepHolds
<1>1. /\ emitted' = emitted /\ nextBlockIndex' = nextBlockIndex /\ active' = active
      /\ sawContent' = sawContent /\ streamTerminal' = streamTerminal
  BY DEF streamVars
<1>2. ShapeNext
  BY <1>1 DEF ShapeNext, StreamShape
<1>3. CASE streamTerminal
  BY <1>1, <1>2, <1>3 DEF StepHolds, CallNext
<1>4. CASE ~streamTerminal
  <2>1. active.kind = "tool_use" => OpenCall(active, emitted, SentAfter(active'.outputIndex))
    BY <1>1, <1>4, CallStays
  <2> QED
    BY <1>1, <1>2, <2>1 DEF StepHolds, CallNext
<1> QED
  BY <1>3, <1>4

\* What is said of an open call is said of a call of the upstream's.
LEMMA MatchingCall ==
    ASSUME CallInv, ~streamTerminal, NEW index
    PROVE  active.kind = "tool_use" /\ active.outputIndex = index =>
               OpenCall(active, emitted, Sent(index, 1))
BY DEF CallInv

LEMMA SentOfCall ==
    ASSUME ItemsInv, NEW index \in TrueItems, IsTool(index)
    PROVE  Sent(index, 1) \in 0 .. Len(TrueParts(index)[1])
<1>1. truth \in TrueResponses /\ Truthful(index, told[index])
  BY DEF ItemsInv, ItemInv
<1>2. Len(TrueParts(index)) = 1 /\ TrueParts(index)[1] \in Seq(Fragments)
  BY <1>1, CallType
<1>3. 1 \in 1 .. Len(TrueParts(index))
  BY <1>2
<1>4. SentOf(told[index], 1) \in 0 .. Len(TrueParts(index)[1])
  BY <1>1, <1>2, <1>3, SentIsNat
<1> QED
  BY <1>4 DEF Sent, SentOf

\* An item is announced.
LEMMA AnnouncementStreams ==
    ASSUME ItemsInv, StreamShape, CallInv, NEW index \in TrueItems, NEW event \in Announcements(index),
           ~told[index].seen, Tell(event), Convert(event)
    PROVE  StepHolds
<1> DEFINE n == SentAfter(active'.outputIndex)
           type == TrueItem(index).type
<1>1. PICK call \in SomeCall(index), signature \in {NoSignature, TrueItem(index).signature} :
          event = [type |-> "response.output_item.added", index |-> index,
                   item |-> Announced(index, call, signature)]
  BY DEF Announcements
<1>2. event.type = "response.output_item.added" /\ event.index = index /\ "index" \in DOMAIN event
  BY <1>1
<1>3. event.item.type = type /\ event.item.signature = signature
  BY <1>1 DEF Announced, BlankItem
<1>4. truth \in TrueResponses /\ index \in OutputIndexes /\ signature \in SignatureValues
  BY TrueItemType, TrueItemLabels DEF ItemsInv, SignatureValues
<1>5. \A x \in TrueItems : SentAfter(x) = Sent(x, 1)
  BY <1>2, NothingElseIsSent
<1>6. Sent(index, 1) = 0
  BY DEF ItemsInv, ItemInv, Untold, Sent
<1>7. Added(index, event.item) \/ UNCHANGED streamVars
  BY <1>2 DEF Convert, Handle, Stream!TerminalTypes
<1>8. CASE UNCHANGED streamVars
  BY <1>5, <1>8, IgnoredHolds
<1>9. CASE type = "message" /\ Stream!Created
  <2>1. ~streamTerminal /\ active' = active
    BY <1>9 DEF Stream!Created
  <2>2. active.kind = "tool_use" => OpenCall(active, emitted, n)
    BY <1>5, <2>1, CallStays
  <2> HIDE DEF n
  <2>3. ShapeNext /\ CallNext(n)
    BY <1>9, <2>2, CreatedShape
  <2> QED
    BY <2>3 DEF StepHolds, n
<1>10. CASE type = "reasoning" /\ Stream!ReasoningAdded(index, signature)
  <2>1. Stream!OpenBlock(index, "thinking", FALSE, signature, <<>>)
    BY <1>10 DEF Stream!ReasoningAdded
  <2>2. <<>> \in Seq(QuietEvents(Stream!IndexAfterClose + 1))
    BY EmptySeq
  <2> HIDE DEF n
  <2>3. ShapeNext /\ CallNext(n)
    BY <1>4, <2>1, <2>2, OpenBlockShape
  <2> QED
    BY <2>3 DEF StepHolds, n
<1>11. ASSUME NEW custom \in BOOLEAN, type \in {"function_call", "custom_tool_call"},
              custom <=> type = "custom_tool_call", Stream!ToolAdded(index, custom)
       PROVE  StepHolds
  <2>1. IsTool(index)
    BY <1>11 DEF IsTool
  <2>2. custom <=> TrueItem(index).type = "custom_tool_call"
    BY <1>11
  <2>3. ShapeNext /\ CallNext(0) /\ active'.outputIndex = index
    BY <1>4, <1>11, <2>1, <2>2, ToolAddedShape
  <2>4. SentAfter(active'.outputIndex) = 0
    BY <1>5, <1>6, <2>3
  <2> QED
    BY <2>3, <2>4 DEF StepHolds
<1>12. CASE type = "function_call" /\ Stream!ToolAdded(index, FALSE)
  BY <1>11, <1>12
<1>13. CASE type = "custom_tool_call" /\ Stream!ToolAdded(index, TRUE)
  BY <1>11, <1>13
<1> QED
  BY <1>3, <1>7, <1>8, <1>9, <1>10, <1>12, <1>13 DEF Added

\* The next fragment of a part.
LEMMA DeltaStreams ==
    ASSUME ItemsInv, StreamShape, CallInv, NEW index \in TrueItems, NEW event \in Deltas(index),
           Tell(event), Convert(event)
    PROVE  StepHolds
<1> DEFINE n == SentAfter(active'.outputIndex)
           type == TrueItem(index).type
<1>1. PICK part \in {p \in OpenParts(index) : Sent(index, p) < Len(TrueParts(index)[p])},
           call \in SomeCall(index) :
          event = [type |-> "delta", index |-> index, kind |-> type, part |-> part,
                   fragment |-> TrueParts(index)[part][Sent(index, part) + 1], call |-> call]
  BY DEF Deltas
<1> DEFINE whole == TrueParts(index)[part]
           fragment == whole[Sent(index, part) + 1]
<1>2. /\ event.type = "delta" /\ event.index = index /\ "index" \in DOMAIN event
      /\ event.kind = type /\ event.part = part /\ event.fragment = fragment /\ event.call = call
  BY <1>1
<1>3. truth \in TrueResponses /\ index \in OutputIndexes /\ Truthful(index, told[index])
  BY TrueItemType DEF ItemsInv, ItemInv
<1>4. part \in 1 .. Len(TrueParts(index)) /\ whole \in Seq(Fragments)
  BY <1>3, TruePart DEF OpenParts
<1>5. Sent(index, part) \in 0 .. Len(whole) - 1
  <2>1. SentOf(told[index], part) \in 0 .. Len(whole)
    BY <1>3, <1>4, SentIsNat
  <2>2. Sent(index, part) \in 0 .. Len(whole) /\ Sent(index, part) < Len(whole)
    BY <2>1 DEF Sent, SentOf
  <2>3. Len(whole) \in Nat
    BY <1>4, LenProperties
  <2> HIDE DEF whole
  <2> QED
    BY <2>2, <2>3
<1>6. <<fragment>> \in Stream!Strings
  <2>1. fragment \in Fragments
    <3> DEFINE sent == Sent(index, part)
    <3> HIDE DEF whole, sent
    <3>1. sent + 1 \in 1 .. Len(whole)
      BY <1>4, <1>5 DEF sent
    <3>2. whole[sent + 1] \in Fragments
      BY <1>4, <3>1, ElementOfSeq
    <3> QED
      BY <3>2 DEF sent
  <2> HIDE DEF fragment
  <2> QED
    BY <2>1, SeqOfOne, StringTypes
<1>7. DeltaOf(type, index, fragment) \/ (streamTerminal /\ UNCHANGED streamVars)
  BY <1>2 DEF Convert, Handle, NoUseFor, Stream!TerminalTypes
<1>8. CASE streamTerminal /\ UNCHANGED streamVars
  BY <1>8, IgnoredHolds
<1>9. ASSUME NEW kind \in {"text", "thinking"}, Stream!ContentDelta(kind, index, <<fragment>>)
      PROVE  StepHolds
  <2> HIDE DEF n, fragment
  <2>1. ShapeNext /\ CallNext(n)
    BY <1>3, <1>6, <1>9, ContentDeltaShape
  <2> QED
    BY <2>1 DEF StepHolds, n
<1>10. ASSUME NEW custom \in BOOLEAN, type \in {"function_call", "custom_tool_call"},
              custom <=> type = "custom_tool_call", Stream!ToolDelta(index, custom, fragment)
       PROVE  StepHolds
  <2>1. IsTool(index)
    BY <1>10 DEF IsTool
  <2>2. custom <=> TrueItem(index).type = "custom_tool_call"
    BY <1>10
  <2>3. part = 1
    BY <1>3, <1>4, <2>1, CallType
  <2>4. ~streamTerminal
    BY <1>10 DEF Stream!ToolDelta
  <2>5. active.kind = "tool_use" /\ active.outputIndex = index => OpenCall(active, emitted, Sent(index, 1))
    BY <2>4, MatchingCall
  <2>6. Sent(index, 1) \in 0 .. Len(TrueParts(index)[1]) - 1
    BY <1>5, <2>3
  <2>7. Stream!ToolDelta(index, custom, TrueParts(index)[1][Sent(index, 1) + 1])
    BY <1>10, <2>3
  <2> DEFINE sent == Sent(index, 1)
  <2> HIDE DEF sent
  <2>8. ShapeNext /\ CallNext(sent + 1) /\ (streamTerminal' \/ active'.outputIndex = index)
    BY <1>3, <2>1, <2>2, <2>5, <2>6, <2>7, ToolDeltaShape DEF sent
  <2>9. SentAfter(index) = sent + 1
    <3> DEFINE before == told[index]
               said == ToldBy(before, event)
               call1 == before.call \/ call # NoCall
               sent1 == [p \in DOMAIN before.sent \cup {part} |->
                            IF p = part THEN SentOf(before, part) + 1 ELSE before.sent[p]]
    <3>1. said = [before EXCEPT !.seen = TRUE, !.call = call1, !.sent = sent1]
      BY <1>2 DEF ToldBy, Sent, SentOf
    <3>2. told' = [told EXCEPT ![index] = said] /\ index \in DOMAIN told
      BY <1>2, <1>3 DEF Tell, ItemsInv
    <3> HIDE DEF said, before, call1, sent1
    <3>3. said.sent = sent1 /\ told'[index] = said
      BY <3>1, <3>2
    <3>4. SentOf(before, part) = sent
      BY <2>3 DEF SentOf, Sent, before, sent
    <3> QED
      BY <2>3, <3>3, <3>4 DEF SentAfter, SentOf, sent1
  <2>10. CASE streamTerminal'
    BY <2>8, <2>10 DEF StepHolds, CallNext
  <2>11. CASE active'.outputIndex = index
    BY <2>8, <2>9, <2>11 DEF StepHolds
  <2> QED
    BY <2>8, <2>10, <2>11
<1>11. CASE type = "message" /\ Stream!TextDelta(index, fragment)
  BY <1>9, <1>11 DEF Stream!TextDelta
<1>12. CASE type = "reasoning" /\ Stream!ReasoningDelta(index, fragment)
  BY <1>9, <1>12 DEF Stream!ReasoningDelta
<1>13. CASE type = "function_call" /\ Stream!ToolDelta(index, FALSE, fragment)
  BY <1>10, <1>13
<1>14. CASE type = "custom_tool_call" /\ Stream!ToolDelta(index, TRUE, fragment)
  BY <1>10, <1>14
<1> QED
  BY <1>7, <1>8, <1>11, <1>12, <1>13, <1>14 DEF DeltaOf

\* The end of the input of a call.
LEMMA ToolEndHolds ==
    ASSUME ItemsInv, StreamShape, CallInv, ~streamTerminal, NEW index \in TrueItems, NEW custom \in BOOLEAN,
           TrueItem(index).type \in {"function_call", "custom_tool_call"},
           custom <=> TrueItem(index).type = "custom_tool_call",
           NEW value \in {<<>>, TrueParts(index)[1]}, Stream!HandleToolDone(index, custom, value)
    PROVE  StepHolds
<1> DEFINE n == SentAfter(active'.outputIndex)
           sent == Sent(index, 1)
<1>1. truth \in TrueResponses
  BY DEF ItemsInv
<1>2. IsTool(index)
  BY DEF IsTool
<1>3. sent \in 0 .. Len(TrueParts(index)[1])
  BY <1>2, SentOfCall
<1>4. active.kind = "tool_use" /\ active.outputIndex = index => OpenCall(active, emitted, sent)
  BY MatchingCall
<1> HIDE DEF n, sent
<1>5. ShapeNext /\ CallNext(n)
  BY <1>1, <1>2, <1>3, <1>4, HandleToolDoneShape
<1> QED
  BY <1>5 DEF StepHolds, n

\* The end of a part.
LEMMA DoneStreams ==
    ASSUME ItemsInv, StreamShape, CallInv, NEW index \in TrueItems, NEW event \in Dones(index),
           Tell(event), Convert(event)
    PROVE  StepHolds
<1> DEFINE n == SentAfter(active'.outputIndex)
           type == TrueItem(index).type
<1>1. PICK part \in OpenParts(index), repeated \in BOOLEAN, call \in SomeCall(index) :
          event = [type |-> "done", index |-> index, kind |-> type, part |-> part,
                   text |-> IF repeated THEN TrueParts(index)[part] ELSE <<>>, call |-> call]
  BY DEF Dones
<1> DEFINE text == IF repeated THEN TrueParts(index)[part] ELSE <<>>
<1>2. /\ event.type = "done" /\ event.index = index /\ "index" \in DOMAIN event
      /\ event.kind = type /\ event.text = text
  BY <1>1
<1>3. truth \in TrueResponses
  BY DEF ItemsInv
<1>4. part \in 1 .. Len(TrueParts(index)) /\ TrueParts(index)[part] \in Seq(Fragments)
  BY <1>3, TruePart DEF OpenParts
<1>5. text \in Stream!Strings
  BY <1>4, StringTypes
<1>6. \A x \in TrueItems : SentAfter(x) = Sent(x, 1)
  BY <1>2, NothingElseIsSent
<1>7. DoneOf(type, index, text) \/ UNCHANGED streamVars
  BY <1>2 DEF Convert, Handle, Stream!TerminalTypes
<1>8. CASE UNCHANGED streamVars
  BY <1>6, <1>8, IgnoredHolds
<1>9. CASE type = "message" /\ Stream!TextDone(text)
  <2> HIDE DEF n, text
  <2>1. ShapeNext /\ CallNext(n)
    BY <1>5, <1>9, TextDoneShape
  <2> QED
    BY <2>1 DEF StepHolds, n
<1>10. CASE type = "reasoning" /\ Stream!ReasoningDone(text)
  <2> HIDE DEF n, text
  <2>1. ShapeNext /\ CallNext(n)
    BY <1>5, <1>10, ReasoningDoneShape
  <2> QED
    BY <2>1 DEF StepHolds, n
<1>11. ASSUME NEW custom \in BOOLEAN, type \in {"function_call", "custom_tool_call"},
              custom <=> type = "custom_tool_call", Stream!ToolDone(index, custom, text)
       PROVE  StepHolds
  <2>1. part = 1
    BY <1>3, <1>4, <1>11, CallType DEF IsTool
  <2>2. text \in {<<>>, TrueParts(index)[1]}
    BY <2>1
  <2>3. ~streamTerminal /\ Stream!HandleToolDone(index, custom, text)
    BY <1>11 DEF Stream!ToolDone
  <2>4. TrueItem(index).type \in {"function_call", "custom_tool_call"}
    BY <1>11
  <2>5. custom <=> TrueItem(index).type = "custom_tool_call"
    BY <1>11
  <2> HIDE DEF text
  <2> QED
    BY <2>2, <2>3, <2>4, <2>5, ToolEndHolds
<1>12. CASE type = "function_call" /\ Stream!ToolDone(index, FALSE, text)
  BY <1>11, <1>12
<1>13. CASE type = "custom_tool_call" /\ Stream!ToolDone(index, TRUE, text)
  BY <1>11, <1>13
<1> QED
  BY <1>7, <1>8, <1>9, <1>10, <1>12, <1>13 DEF DoneOf

\* The end of an item.
LEMMA ItemDoneStreams ==
    ASSUME ItemsInv, StreamShape, CallInv, NEW index \in TrueItems, NEW event \in ItemDones(index),
           Tell(event), Convert(event)
    PROVE  StepHolds
<1> DEFINE n == SentAfter(active'.outputIndex)
           type == TrueItem(index).type
           shown == Shown(event.item)
<1>1. PICK call \in SomeCall(index), signature \in {NoSignature, TrueItem(index).signature},
           data \in {BlankData, TrueItem(index).data} :
          event = [type |-> "response.output_item.done", index |-> index,
                   item |-> [type |-> type, call |-> call, signature |-> signature, data |-> data]]
  BY DEF ItemDones
<1>2. /\ event.type = "response.output_item.done" /\ event.index = index /\ "index" \in DOMAIN event
      /\ event.item.type = type /\ event.item.signature = signature /\ event.item.data = data
  BY <1>1
<1>3. truth \in TrueResponses /\ signature \in SignatureValues
  BY TrueItemLabels DEF ItemsInv, SignatureValues
<1>4. \A x \in TrueItems : SentAfter(x) = Sent(x, 1)
  BY <1>2, NothingElseIsSent
<1>5. Stream!ItemDone(index, shown) \/ UNCHANGED streamVars
  BY <1>2 DEF Convert, Handle, Stream!TerminalTypes
<1>6. CASE UNCHANGED streamVars
  BY <1>4, <1>6, IgnoredHolds
<1>7. CASE Stream!ItemDone(index, shown)
  <2>1. type \in {"message", "reasoning", "function_call", "custom_tool_call"}
    BY <1>3, TrueItemType, FieldsKnown
  <2>2. shown.type = type
    BY <1>2, <2>1 DEF Shown
  <2>3. ~streamTerminal /\ active # Stream!NoBlock
    BY <1>7 DEF Stream!ItemDone
  <2>4. CASE Stream!Fail("conversion")
    <3> HIDE DEF n
    <3>1. ShapeNext /\ CallNext(n)
      BY <2>4, FailShape DEF Stream!Fail
    <3> QED
      BY <3>1 DEF StepHolds, n
  <2>5. CASE /\ type = "reasoning"
             /\ emitted' = emitted \o Stream!Closing(Stream!Signed(shown.signature))
             /\ active' = Stream!NoBlock
             /\ nextBlockIndex' = nextBlockIndex + 1
    <3>1. shown.signature = signature
      BY <1>2, <2>5 DEF Shown
    <3> HIDE DEF n, shown
    <3>2. ShapeNext /\ CallNext(n)
      BY <1>3, <2>3, <2>5, <3>1, ReasoningEndShape
    <3> QED
      BY <3>2 DEF StepHolds, n
  <2>6. CASE type = "function_call" /\ Stream!HandleToolDone(index, FALSE, shown.arguments)
    <3>1. shown.arguments = data["arguments"][1] /\ FieldOf[type] = "arguments"
      BY <1>2, <2>6 DEF Shown, FieldOf
    <3>2. shown.arguments \in {<<>>, TrueParts(index)[1]}
      BY <3>1 DEF TrueParts, BlankData
    <3> HIDE DEF shown
    <3> QED
      BY <2>3, <2>6, <3>2, ToolEndHolds
  <2>7. CASE type = "custom_tool_call" /\ Stream!HandleToolDone(index, TRUE, shown.input)
    <3>1. shown.input = data["input"][1] /\ FieldOf[type] = "input"
      BY <1>2, <2>7 DEF Shown, FieldOf
    <3>2. shown.input \in {<<>>, TrueParts(index)[1]}
      BY <3>1 DEF TrueParts, BlankData
    <3> HIDE DEF shown
    <3> QED
      BY <2>3, <2>7, <3>2, ToolEndHolds
  <2>8. CASE type = "message" /\ Stream!SendAndClose(<<>>)
    <3> HIDE DEF n
    <3>1. ShapeNext /\ CallNext(n)
      BY <2>3, <2>8, NothingSent, SendAndCloseShape
    <3> QED
      BY <3>1 DEF StepHolds, n
  <2> HIDE DEF n, shown
  <2> QED
    BY <1>7, <2>2, <2>4, <2>5, <2>6, <2>7, <2>8 DEF Stream!ItemDone
<1> QED
  BY <1>5, <1>6, <1>7

\* The events that are about the response.
LEMMA TerminalStreams ==
    ASSUME ItemsInv, StreamShape, CallInv, NEW output \in {<<>>, truth.output},
           NEW status, NEW details, NEW error, NEW event,
           event.type = TrueType, event.response = Response(status, details, error, output),
           "index" \notin DOMAIN event, Tell(event), Convert(event)
    PROVE  StepHolds
<1> DEFINE n == SentAfter(active'.outputIndex)
           r == Response(status, details, error, output)
           shown == ShownResponse(r)
<1>1. event.type \in {"response.completed", "response.incomplete"}
  BY DEF TrueType
<1>2. \A x \in TrueItems : SentAfter(x) = Sent(x, 1)
  BY <1>1, NothingElseIsSent
<1>3. Stream!HandleTerminal(event.type, shown) \/ UNCHANGED streamVars
  BY <1>1 DEF Convert, Handle
<1>4. CASE UNCHANGED streamVars
  BY <1>2, <1>4, IgnoredHolds
<1>5. CASE Stream!HandleTerminal(event.type, shown)
  <2>1. truth \in TrueResponses
    BY DEF ItemsInv
  <2>2. r # NoResponse /\ r.output = output
    <3>1. "output" \in DOMAIN r /\ "output" \notin DOMAIN NoResponse
      BY DEF Response, NoResponse
    <3>2. r.output = output
      BY DEF Response
    <3> HIDE DEF r
    <3> QED
      BY <3>1, <3>2
  <2>3. shown.output = [i \in DOMAIN output |-> Shown(output[i])]
    <3> HIDE DEF r
    <3> QED
      BY <2>2 DEF ShownResponse
  <2>4. Stream!OutputBlocks(shown.output) \in Seq(GoodBlocks)
    <3> HIDE DEF shown
    <3> QED
      BY <2>1, <2>3, GoodOutputBlocks
  <2> HIDE DEF n, shown
  <2>5. ShapeNext /\ CallNext(n)
    BY <1>5, <2>4, HandleTerminalShape
  <2> QED
    BY <2>5 DEF StepHolds, n
<1> QED
  BY <1>3, <1>4, <1>5

LEMMA SilentTerminalStreams ==
    ASSUME ItemsInv, StreamShape, CallInv, NEW event,
           event.type = TrueType, event.response = NoResponse,
           "index" \notin DOMAIN event, Tell(event), Convert(event)
    PROVE  StepHolds
<1> DEFINE n == SentAfter(active'.outputIndex)
           shown == ShownResponse(NoResponse)
<1>1. event.type \in {"response.completed", "response.incomplete"}
  BY DEF TrueType
<1>2. \A x \in TrueItems : SentAfter(x) = Sent(x, 1)
  BY <1>1, NothingElseIsSent
<1>3. Stream!HandleTerminal(event.type, shown) \/ UNCHANGED streamVars
  BY <1>1 DEF Convert, Handle
<1>4. CASE UNCHANGED streamVars
  BY <1>2, <1>4, IgnoredHolds
<1>5. CASE Stream!HandleTerminal(event.type, shown)
  <2>1. truth \in TrueResponses
    BY DEF ItemsInv
  <2>2. shown.output = [i \in DOMAIN <<>> |-> Shown(<<>>[i])]
    BY DEF ShownResponse
  <2>3. Stream!OutputBlocks(shown.output) \in Seq(GoodBlocks)
    <3> HIDE DEF shown
    <3> QED
      BY <2>1, <2>2, GoodOutputBlocks
  <2> HIDE DEF n, shown
  <2>4. ShapeNext /\ CallNext(n)
    BY <1>5, <2>3, HandleTerminalShape
  <2> QED
    BY <2>4 DEF StepHolds, n
<1> QED
  BY <1>3, <1>4, <1>5

LEMMA ResponseStreams ==
    ASSUME Inv, StreamShape, CallInv, NEW event \in Failures \cup Beginnings \cup Conclusions,
           Tell(event), Convert(event)
    PROVE  StepHolds
<1> DEFINE n == SentAfter(active'.outputIndex)
<1>1. ItemsInv
  BY DEF Inv
<1>2. CASE event = [type |-> "response.failed"]
  <2>1. event.type = "response.failed" /\ "index" \notin DOMAIN event
    BY <1>2
  <2>2. \A x \in TrueItems : SentAfter(x) = Sent(x, 1)
    BY <1>1, <2>1, NothingElseIsSent
  <2>3. CASE UNCHANGED streamVars
    BY <2>2, <2>3, IgnoredHolds
  <2>4. CASE Stream!Fail("upstream")
    <3> HIDE DEF n
    <3>1. ShapeNext /\ CallNext(n)
      BY <2>4, FailShape DEF Stream!Fail
    <3> QED
      BY <3>1 DEF StepHolds, n
  <2> QED
    BY <2>1, <2>3, <2>4 DEF Convert, Handle, Stream!TerminalTypes, Stream!UpstreamFailure
<1>3. CASE event \in Beginnings
  <2>1. event.type = "response.created" /\ "index" \notin DOMAIN event
    <3>1. PICK status \in {"", "in_progress"} :
              event = [type |-> "response.created", response |-> Response(status, NoDetails, FALSE, <<>>)]
      BY <1>3 DEF Beginnings
    <3> QED
      BY <3>1
  <2>2. \A x \in TrueItems : SentAfter(x) = Sent(x, 1)
    BY <1>1, <2>1, NothingElseIsSent
  <2>3. CASE UNCHANGED streamVars
    BY <2>2, <2>3, IgnoredHolds
  <2>4. CASE Stream!Created
    <3>1. ~streamTerminal /\ active' = active
      BY <2>4 DEF Stream!Created
    <3>2. active.kind = "tool_use" => OpenCall(active, emitted, n)
      BY <2>2, <3>1, CallStays
    <3> HIDE DEF n
    <3>3. ShapeNext /\ CallNext(n)
      BY <2>4, <3>2, CreatedShape
    <3> QED
      BY <3>3 DEF StepHolds, n
  <2> QED
    BY <2>1, <2>3, <2>4 DEF Convert, Handle, Stream!TerminalTypes
<1>4. ASSUME NEW status, NEW details, NEW error, NEW output \in {<<>>, truth.output},
             event = [type |-> TrueType, response |-> Response(status, details, error, output)]
      PROVE  StepHolds
  <2> DEFINE r == Response(status, details, error, output)
  <2>1. event.type = TrueType /\ event.response = r /\ "index" \notin DOMAIN event
    BY <1>4
  <2> QED
    BY <1>1, <2>1, TerminalStreams
<1>5. CASE event = [type |-> TrueType, response |-> NoResponse]
  <2>1. event.type = TrueType /\ event.response = NoResponse /\ "index" \notin DOMAIN event
    BY <1>5
  <2> QED
    BY <1>1, <2>1, SilentTerminalStreams
<1>6. CASE event \in Failures
  <2>1. \/ event = [type |-> "response.failed"]
        \/ event = [type |-> TrueType, response |-> Response("failed", NoDetails, FALSE, <<>>)]
        \/ event = [type |-> TrueType, response |-> Response("", NoDetails, TRUE, <<>>)]
    BY <1>6 DEF Failures
  <2> QED
    BY <1>2, <1>4, <2>1
<1>7. CASE event \in Conclusions
  <2>1. PICK r \in Answers : event = [type |-> TrueType, response |-> r]
    BY <1>7 DEF Conclusions
  <2>2. CASE r \in TellingAnswers
    <3>1. PICK status \in ToldStatuses, output \in ToldOutputs : r = Answer(status, output)
      BY <2>2, TellingAnswer
    <3>2. output \in {<<>>, truth.output} /\ r = Response(status, truth.details, FALSE, output)
      BY <3>1 DEF ToldOutputs, Answer
    <3> QED
      BY <1>4, <2>1, <3>2
  <2>3. CASE r \in SilentAnswers
    <3>1. r = NoResponse
      BY <2>3 DEF SilentAnswers
    <3> QED
      BY <1>5, <2>1, <3>1
  <2> QED
    BY <2>2, <2>3 DEF Answers
<1> QED
  BY <1>3, <1>6, <1>7

-----------------------------------------------------------------------------
(* The invariant *)

ComparedInv == Inv /\ StreamShape /\ CallInv

LEMMA ComparedInitHolds == ComparedInit => ComparedInv
<1> SUFFICES ASSUME ComparedInit PROVE ComparedInv
  OBVIOUS
<1>1. Inv
  BY InitHolds DEF ComparedInit
<1>2. emitted = <<>> /\ nextBlockIndex = 0 /\ active = Stream!NoBlock
  BY DEF ComparedInit, Stream!Init
<1>3. GoodStream(<<>>, 0)
  BY EmptySeq DEF GoodStream
<1>4. Stream!NoBlock.kind = "none"
  BY DEF Stream!NoBlock
<1>5. StreamShape
  BY <1>2, <1>3 DEF StreamShape, Shape
<1> QED
  BY <1>1, <1>2, <1>4, <1>5 DEF ComparedInv, CallInv

LEMMA StepHoldsIsInvariant ==
    ASSUME StepHolds, truth' = truth
    PROVE  StreamShape' /\ CallInv'
<1>1. StreamShape'
  BY DEF StepHolds, ShapeNext, StreamShape, Shape, GoodStream, GoodInput, GivenInput, TrueItems, TrueItem,
         TrueParts, IsTool
<1>2. CallInv'
  BY DEF StepHolds, CallNext, CallInv, SentAfter, SentOf, Sent, OpenCall, TrueItems, TrueItem, TrueParts,
         IsTool
<1> QED
  BY <1>1, <1>2

LEMMA ComparedNextHolds == ComparedInv /\ [ComparedNext]_comparedVars => ComparedInv'
<1> SUFFICES ASSUME ComparedInv, [ComparedNext]_comparedVars PROVE ComparedInv'
  OBVIOUS
<1>1. Inv /\ StreamShape /\ CallInv /\ ItemsInv
  BY DEF ComparedInv, Inv
<1>2. Inv'
  BY <1>1, NextHolds DEF ComparedNext, Next, comparedVars
<1>3. CASE UNCHANGED comparedVars
  <2>1. UNCHANGED streamVars /\ told' = told /\ truth' = truth
    BY <1>3 DEF comparedVars, vars
  <2>2. \A index \in TrueItems : SentAfter(index) = Sent(index, 1)
    BY <2>1 DEF SentAfter, SentOf, Sent
  <2>3. StepHolds
    BY <1>1, <2>1, <2>2, IgnoredHolds
  <2> QED
    BY <1>2, <2>1, <2>3, StepHoldsIsInvariant DEF ComparedInv
<1>4. CASE ComparedNext
  <2>1. PICK event \in Offers : Tell(event) /\ Process(event) /\ Convert(event)
    BY <1>4 DEF ComparedNext
  <2>2. truth' = truth
    BY <2>1 DEF Tell
  <2>3. StepHolds
    <3>1. CASE event \in Failures \cup Beginnings \cup Conclusions
      BY <1>1, <2>1, <3>1, ResponseStreams
    <3>2. ASSUME NEW index \in TrueItems, event \in ItemEvents(index)
          PROVE  StepHolds
      <4>1. CASE ~told[index].seen /\ event \in Announcements(index)
        BY <1>1, <2>1, <4>1, AnnouncementStreams
      <4>2. CASE event \in Deltas(index)
        BY <1>1, <2>1, <4>2, DeltaStreams
      <4>3. CASE event \in Dones(index)
        BY <1>1, <2>1, <4>3, DoneStreams
      <4>4. CASE event \in ItemDones(index)
        BY <1>1, <2>1, <4>4, ItemDoneStreams
      <4> QED
        BY <3>2, <4>1, <4>2, <4>3, <4>4 DEF ItemEvents
    <3> QED
      BY <3>1, <3>2 DEF Offers
  <2> QED
    BY <1>2, <2>2, <2>3, StepHoldsIsInvariant DEF ComparedInv
<1> QED
  BY <1>3, <1>4

\* Beside what is known of the accumulator, in whatever order the events come: each tool
\* call the client was streamed has the input of a call of the upstream's, or the
\* beginning of one, and what is buffered of the open call is what was sent of it
\* (responses_to_anthropic.go:318-394).
THEOREM ComparedInvariant == ComparedSpec => []ComparedInv
<1>1. ComparedInit => ComparedInv
  BY ComparedInitHolds
<1>2. ComparedInv /\ [ComparedNext]_comparedVars => ComparedInv'
  BY ComparedNextHolds
<1> QED
  BY <1>1, <1>2, PTL DEF ComparedSpec

LEMMA GoodStreamKeepsToolsApart == ComparedInv => ToolsAreNotMixed
BY DEF ComparedInv, StreamShape, Shape, GoodStream, GoodInput, ToolStart, ToolsAreNotMixed

\* In whatever order the events come, a client that is streamed a tool call is given the
\* input of a call the upstream made, or the beginning of one: the arguments of two calls
\* are never mixed (responses_to_anthropic.go:318-394).
THEOREM ToolsStayApart == ComparedSpec => []ToolsAreNotMixed
BY ComparedInvariant, GoodStreamKeepsToolsApart, PTL

-----------------------------------------------------------------------------
(* The blocks a client reads in a stream *)

ReadBlocks ==
    [kind : {"text", "thinking", "tool_use"}, data : Stream!Strings, signature : SignatureValues]

\* What a delta tells of a block.
DataOf(index, delta) ==
    [e \in StreamEvents |->
        IF e.type = "content_block_delta" /\ e.index = index /\ e.delta = delta THEN e.data ELSE <<>>]

SignatureData(signature) == IF signature = NoSignature THEN <<>> ELSE <<signature>>

\* The stream has told of a block what is known of it.
Says(s, index, b) ==
    /\ BlockData(s, index, Stream!DataDelta(b.kind)) = b.data
    /\ BlockData(s, index, "signature_delta") = SignatureData(b.signature)

Opens(e) == e.type = "content_block_start"

\* The stream is one of such blocks, the ones it has begun.
Reads(s, bs) ==
    /\ s \in Seq(StreamEvents)
    /\ bs \in Seq(ReadBlocks)
    /\ \A i \in 1 .. Len(s) :
          /\ NumberedBelow(s[i], Len(bs))
          /\ Opens(s[i]) => s[i].index + 1 \in 1 .. Len(bs) /\ s[i].kind = bs[s[i].index + 1].kind
    /\ \A k \in 1 .. Len(bs) :
          /\ \E i \in 1 .. Len(s) : Opens(s[i]) /\ s[i].index = k - 1
          /\ Says(s, k - 1, bs[k])

LEMMA OneMore ==
    ASSUME NEW S, NEW s \in Seq(S), NEW e \in S
    PROVE  /\ s \o <<e>> \in Seq(S)
           /\ Len(s) \in Nat
           /\ Len(s \o <<e>>) = Len(s) + 1
           /\ (s \o <<e>>)[Len(s) + 1] = e
           /\ \A i \in 1 .. Len(s) : (s \o <<e>>)[i] = s[i]
OBVIOUS

LEMMA DataLists ==
    ASSUME NEW index, NEW delta
    PROVE  DataOf(index, delta) \in Lists(StreamEvents, Stream!Fragments)
<1>1. ASSUME NEW e \in StreamEvents, e.type = "content_block_delta"
      PROVE  e.data \in Stream!Strings
  BY <1>1 DEF StreamEvents, Stream!ClientEvents, Stream!MessageStart, Stream!MessageStop
<1>2. <<>> \in Stream!Strings
  BY DEF Stream!Strings
<1> QED
  BY <1>1, <1>2 DEF DataOf, Lists, Stream!Strings

LEMMA DataIsFlatMap ==
    ASSUME NEW s \in Seq(StreamEvents), NEW index, NEW delta
    PROVE  BlockData(s, index, delta) = FlatMap(DataOf(index, delta), s)
<1>1. \A i \in 1 .. Len(s) : s[i] \in StreamEvents
  OBVIOUS
<1>2. [i \in 1 .. Len(s) |->
          IF s[i].type = "content_block_delta" /\ s[i].index = index /\ s[i].delta = delta THEN s[i].data ELSE <<>>]
        = [i \in 1 .. Len(s) |-> DataOf(index, delta)[s[i]]]
  BY <1>1 DEF DataOf
<1> QED
  BY <1>2 DEF BlockData, FlatMap

LEMMA DataOfOneMore ==
    ASSUME NEW s \in Seq(StreamEvents), NEW e \in StreamEvents, NEW index, NEW delta
    PROVE  /\ BlockData(s, index, delta) \in Stream!Strings
           /\ DataOf(index, delta)[e] \in Stream!Strings
           /\ BlockData(s \o <<e>>, index, delta) = BlockData(s, index, delta) \o DataOf(index, delta)[e]
<1> DEFINE h == DataOf(index, delta)
           u == s \o <<e>>
<1>1. h \in Lists(StreamEvents, Stream!Fragments)
  BY DataLists
<1>2. <<e>> \in Seq(StreamEvents)
  BY SeqOfOne
<1>3. u \in Seq(StreamEvents)
  BY <1>2, ConcatType
<1>4. BlockData(s, index, delta) = FlatMap(h, s) /\ BlockData(u, index, delta) = FlatMap(h, u)
  <2> HIDE DEF u
  <2>1. BlockData(s, index, delta) = FlatMap(h, s)
    BY DataIsFlatMap
  <2>2. BlockData(u, index, delta) = FlatMap(h, u)
    BY <1>3, DataIsFlatMap
  <2> QED
    BY <2>1, <2>2
<1> HIDE DEF h
<1>5. FlatMap(h, u) = FlatMap(h, s) \o FlatMap(h, <<e>>)
  <2> DEFINE t == <<e>>
  <2>2. t \in Seq(StreamEvents)
    BY <1>2
  <2> HIDE DEF t
  <2>1. FlatMap(h, s \o t) = FlatMap(h, s) \o FlatMap(h, t)
    BY <1>1, <2>2, FlatMapConcat
  <2> QED
    BY <2>1 DEF t, u
<1> HIDE DEF u
<1>6. FlatMap(h, <<e>>) = h[e]
  BY <1>1, FlatMapOne
<1>7. FlatMap(h, s) \in Seq(Stream!Fragments) /\ h[e] \in Seq(Stream!Fragments)
  BY <1>1, FlatMapType, ListOf
<1>8. BlockData(u, index, delta) = BlockData(s, index, delta) \o h[e]
  BY <1>4, <1>5, <1>6
<1>9. BlockData(s, index, delta) \in Stream!Strings /\ h[e] \in Stream!Strings
  BY <1>4, <1>7 DEF Stream!Strings
<1> QED
  BY <1>8, <1>9 DEF h, u

\* An event that says nothing of a block.
LEMMA NothingSaid ==
    ASSUME NEW s \in Seq(StreamEvents), NEW e \in StreamEvents, NEW index, NEW delta,
           ~(e.type = "content_block_delta" /\ e.index = index /\ e.delta = delta)
    PROVE  BlockData(s \o <<e>>, index, delta) = BlockData(s, index, delta)
<1> DEFINE before == BlockData(s, index, delta)
           after == BlockData(s \o <<e>>, index, delta)
<1>1. DataOf(index, delta)[e] = <<>>
  BY DEF DataOf
<1>4. before \in Stream!Strings /\ after = before \o DataOf(index, delta)[e]
  BY DataOfOneMore
<1> HIDE DEF before, after
<1>2. before \in Stream!Strings /\ after = before \o <<>>
  BY <1>1, <1>4
<1>3. before \o <<>> = before
  BY <1>2 DEF Stream!Strings
<1> QED
  BY <1>2, <1>3 DEF before, after

LEMMA NothingSaidYet ==
    ASSUME NEW s \in Seq(StreamEvents), NEW index \in Nat, NEW delta,
           \A i \in 1 .. Len(s) : NumberedBelow(s[i], index)
    PROVE  BlockData(s, index, delta) = <<>>
<1> DEFINE n == Len(s)
           ss == [i \in 1 .. n |->
                     IF s[i].type = "content_block_delta" /\ s[i].index = index /\ s[i].delta = delta
                     THEN s[i].data ELSE <<>>]
<1>1. n \in Nat
  OBVIOUS
<1>2. ss \in [1 .. n -> {<<>>}]
  BY DEF NumberedBelow
<1>3. BlockData(s, index, delta) = FlattenSeq(ss)
  BY DEF BlockData
<1> HIDE DEF n, ss
<1> QED
  BY <1>1, <1>2, <1>3, FlattenSeqOfEmpties

LEMMA ReadNothing == Reads(<<>>, <<>>)
<1>1. <<>> \in Seq(StreamEvents) /\ <<>> \in Seq(ReadBlocks)
  BY EmptySeq
<1> QED
  BY <1>1 DEF Reads

\* An event that neither begins a block nor adds to one.
LEMMA ReadOther ==
    ASSUME NEW s, NEW bs, Reads(s, bs), NEW e \in StreamEvents,
           e.type \notin {"content_block_start", "content_block_delta"}
    PROVE  Reads(s \o <<e>>, bs)
<1> DEFINE u == s \o <<e>>
<1>1. s \in Seq(StreamEvents) /\ bs \in Seq(ReadBlocks)
  BY DEF Reads
<1>2. /\ u \in Seq(StreamEvents) /\ Len(s) \in Nat /\ Len(u) = Len(s) + 1 /\ u[Len(s) + 1] = e
      /\ \A i \in 1 .. Len(s) : u[i] = s[i]
  BY <1>1, OneMore
<1>3. ASSUME NEW index, NEW delta
      PROVE  BlockData(u, index, delta) = BlockData(s, index, delta)
  BY <1>1, NothingSaid
<1> HIDE DEF u
<1>4. ASSUME NEW i \in 1 .. Len(u)
      PROVE  /\ NumberedBelow(u[i], Len(bs))
             /\ Opens(u[i]) => u[i].index + 1 \in 1 .. Len(bs) /\ u[i].kind = bs[u[i].index + 1].kind
  <2>1. CASE i \in 1 .. Len(s)
    BY <1>2, <2>1 DEF Reads
  <2>2. CASE i = Len(s) + 1
    BY <1>2, <2>2 DEF NumberedBelow, Opens
  <2> QED
    BY <1>2, <2>1, <2>2
<1>5. ASSUME NEW k \in 1 .. Len(bs)
      PROVE  /\ \E i \in 1 .. Len(u) : Opens(u[i]) /\ u[i].index = k - 1
             /\ Says(u, k - 1, bs[k])
  <2>1. PICK i \in 1 .. Len(s) : Opens(s[i]) /\ s[i].index = k - 1
    BY DEF Reads
  <2>2. i \in 1 .. Len(u) /\ u[i] = s[i]
    BY <1>2
  <2>3. Says(u, k - 1, bs[k])
    BY <1>3 DEF Reads, Says
  <2> QED
    BY <2>1, <2>2, <2>3
<1>6. Reads(u, bs)
  BY <1>1, <1>2, <1>4, <1>5 DEF Reads
<1> QED
  BY <1>6 DEF u

LEMMA StartEvent ==
    ASSUME NEW index \in Nat, NEW kind \in {"text", "thinking", "tool_use"}
    PROVE  /\ Stream!BlockStart(index, kind) \in StreamEvents
           /\ Stream!BlockStart(index, kind).type = "content_block_start"
           /\ Stream!BlockStart(index, kind).index = index
           /\ Stream!BlockStart(index, kind).kind = kind
<1>1. Stream!BlockStart(index, kind) \in StreamEvents
  BY StreamEventTypes
<1> QED
  BY <1>1 DEF Stream!BlockStart

LEMMA DeltaEvent ==
    ASSUME NEW index \in Nat, NEW data \in Stream!Strings,
           NEW delta \in {"text_delta", "thinking_delta", "signature_delta", "input_json_delta"}
    PROVE  /\ Stream!BlockDelta(index, delta, data) \in StreamEvents
           /\ Stream!BlockDelta(index, delta, data).type = "content_block_delta"
           /\ Stream!BlockDelta(index, delta, data).index = index
           /\ Stream!BlockDelta(index, delta, data).delta = delta
           /\ Stream!BlockDelta(index, delta, data).data = data
<1>1. Stream!BlockDelta(index, delta, data) \in StreamEvents
  BY StreamEventTypes
<1> QED
  BY <1>1 DEF Stream!BlockDelta

\* A block of which nothing was said yet.
NewlyRead(kind) == ContentBlock(kind, <<>>, NoSignature)

LEMMA NewlyReadType ==
    ASSUME NEW kind \in {"text", "thinking", "tool_use"}
    PROVE  /\ NewlyRead(kind) \in ReadBlocks
           /\ NewlyRead(kind).kind = kind /\ NewlyRead(kind).data = <<>>
           /\ NewlyRead(kind).signature = NoSignature
BY StringTypes DEF NewlyRead, ContentBlock, ReadBlocks, SignatureValues

LEMMA ReadStart ==
    ASSUME NEW s, NEW bs, Reads(s, bs), NEW kind \in {"text", "thinking", "tool_use"}
    PROVE  Reads(s \o <<Stream!BlockStart(Len(bs), kind)>>, bs \o <<NewlyRead(kind)>>)
<1> DEFINE n == Len(bs)
           e == Stream!BlockStart(n, kind)
           b == NewlyRead(kind)
           u == s \o <<e>>
           cs == bs \o <<b>>
<1>1. s \in Seq(StreamEvents) /\ bs \in Seq(ReadBlocks) /\ n \in Nat
  BY DEF Reads
<1>2. e \in StreamEvents /\ e.type = "content_block_start" /\ e.index = n /\ e.kind = kind
  BY <1>1, StartEvent
<1>3. b \in ReadBlocks /\ b.kind = kind /\ b.data = <<>> /\ b.signature = NoSignature
  BY NewlyReadType
<1> HIDE DEF e, b
<1>4. /\ u \in Seq(StreamEvents) /\ Len(s) \in Nat /\ Len(u) = Len(s) + 1 /\ u[Len(s) + 1] = e
      /\ \A i \in 1 .. Len(s) : u[i] = s[i]
  BY <1>1, <1>2, OneMore
<1>5. /\ cs \in Seq(ReadBlocks) /\ Len(cs) = n + 1 /\ cs[n + 1] = b
      /\ \A k \in 1 .. n : cs[k] = bs[k]
  BY <1>1, <1>3, OneMore
<1>6. ASSUME NEW index, NEW delta
      PROVE  BlockData(u, index, delta) = BlockData(s, index, delta)
  BY <1>1, <1>2, NothingSaid
<1>7. ASSUME NEW delta
      PROVE  BlockData(s, n, delta) = <<>>
  <2>1. \A i \in 1 .. Len(s) : NumberedBelow(s[i], n)
    BY DEF Reads
  <2> QED
    BY <1>1, <2>1, NothingSaidYet
<1> HIDE DEF u, cs, n
<1>8. ASSUME NEW i \in 1 .. Len(s)
      PROVE  /\ NumberedBelow(s[i], n)
             /\ Opens(s[i]) => s[i].index + 1 \in 1 .. n /\ s[i].kind = bs[s[i].index + 1].kind
             /\ s[i].type \in {"content_block_start", "content_block_delta"} => s[i].index \in Nat
  <2>1. s[i] \in StreamEvents
    BY <1>1, ElementOf
  <2>2. s[i].type \in {"content_block_start", "content_block_delta"} => s[i].index \in Nat
    BY <2>1 DEF StreamEvents, Stream!ClientEvents, Stream!MessageStart, Stream!MessageStop
  <2> QED
    BY <2>2 DEF Reads, n
<1>9. ASSUME NEW i \in 1 .. Len(u)
      PROVE  /\ NumberedBelow(u[i], n + 1)
             /\ Opens(u[i]) => u[i].index + 1 \in 1 .. n + 1 /\ u[i].kind = cs[u[i].index + 1].kind
  <2>1. CASE i \in 1 .. Len(s)
    <3>1. u[i] = s[i]
      BY <1>4, <2>1
    <3>2. NumberedBelow(s[i], n + 1)
      BY <1>1, <1>8, <2>1 DEF NumberedBelow, Opens
    <3>3. Opens(s[i]) => s[i].index + 1 \in 1 .. n + 1 /\ s[i].kind = cs[s[i].index + 1].kind
      BY <1>1, <1>5, <1>8, <2>1
    <3> QED
      BY <3>1, <3>2, <3>3
  <2>2. CASE i = Len(s) + 1
    BY <1>1, <1>2, <1>3, <1>4, <1>5, <2>2 DEF NumberedBelow, Opens
  <2> QED
    BY <1>4, <2>1, <2>2
<1>10. ASSUME NEW k \in 1 .. n + 1
       PROVE  /\ \E i \in 1 .. Len(u) : Opens(u[i]) /\ u[i].index = k - 1
              /\ Says(u, k - 1, cs[k])
  <2>1. CASE k \in 1 .. n
    <3>1. PICK i \in 1 .. Len(s) : Opens(s[i]) /\ s[i].index = k - 1
      BY <2>1 DEF Reads, n
    <3>2. i \in 1 .. Len(u) /\ u[i] = s[i]
      BY <1>4
    <3>3. Says(s, k - 1, bs[k])
      BY <2>1 DEF Reads, n
    <3>4. Says(u, k - 1, cs[k])
      BY <1>5, <1>6, <2>1, <3>3 DEF Says
    <3> QED
      BY <3>1, <3>2, <3>4
  <2>2. CASE k = n + 1
    <3>1. Len(s) + 1 \in 1 .. Len(u) /\ Opens(u[Len(s) + 1]) /\ u[Len(s) + 1].index = k - 1
      BY <1>1, <1>2, <1>4, <2>2 DEF Opens
    <3>2. k - 1 = n
      BY <1>1, <2>2
    <3>3. Says(u, n, b)
      BY <1>3, <1>6, <1>7 DEF Says, SignatureData
    <3> QED
      BY <1>5, <2>2, <3>1, <3>2, <3>3
  <2> QED
    BY <1>1, <2>1, <2>2
<1>11. Reads(u, cs)
  BY <1>4, <1>5, <1>9, <1>10 DEF Reads
<1> QED
  BY <1>11 DEF u, cs, e, b, n

\* A delta for the last block.
LEMMA ReadLast ==
    ASSUME NEW s, NEW cs \in Seq(ReadBlocks), NEW b, Reads(s, cs \o <<b>>), NEW e \in StreamEvents,
           e.type = "content_block_delta", e.index = Len(cs),
           NEW c \in ReadBlocks, c.kind = b.kind, Says(s \o <<e>>, Len(cs), c)
    PROVE  Reads(s \o <<e>>, cs \o <<c>>)
<1> DEFINE n == Len(cs)
           u == s \o <<e>>
           bs == cs \o <<b>>
           ds == cs \o <<c>>
<1>1. s \in Seq(StreamEvents) /\ bs \in Seq(ReadBlocks) /\ n \in Nat
  BY DEF Reads
<1>2. /\ u \in Seq(StreamEvents) /\ Len(s) \in Nat /\ Len(u) = Len(s) + 1 /\ u[Len(s) + 1] = e
      /\ \A i \in 1 .. Len(s) : u[i] = s[i]
  BY <1>1, OneMore
<1>3. /\ ds \in Seq(ReadBlocks) /\ Len(ds) = n + 1 /\ ds[n + 1] = c
      /\ \A k \in 1 .. n : ds[k] = cs[k]
  BY <1>1, OneMore
<1>4. Len(bs) = n + 1 /\ bs[n + 1] = b /\ \A k \in 1 .. n : bs[k] = cs[k]
  OBVIOUS
<1>5. ASSUME NEW index \in 0 .. n - 1, NEW delta
      PROVE  BlockData(u, index, delta) = BlockData(s, index, delta)
  <2>1. e.index # index
    BY <1>1
  <2> QED
    BY <1>1, <2>1, NothingSaid
<1>6. Reads(s, bs)
  OBVIOUS
<1>7. Says(u, n, c)
  OBVIOUS
<1> HIDE DEF u, bs, ds, n
<1>8. ASSUME NEW i \in 1 .. Len(u)
      PROVE  /\ NumberedBelow(u[i], n + 1)
             /\ Opens(u[i]) => u[i].index + 1 \in 1 .. n + 1 /\ u[i].kind = ds[u[i].index + 1].kind
  <2>1. CASE i \in 1 .. Len(s)
    <3>1. u[i] = s[i]
      BY <1>2, <2>1
    <3>2. NumberedBelow(s[i], n + 1)
      BY <1>4, <1>6, <2>1 DEF Reads
    <3>3. Opens(s[i]) => s[i].index + 1 \in 1 .. n + 1 /\ s[i].kind = bs[s[i].index + 1].kind
      BY <1>4, <1>6, <2>1 DEF Reads
    <3>4. \A k \in 1 .. n + 1 : bs[k].kind = ds[k].kind
      BY <1>1, <1>3, <1>4
    <3> QED
      BY <3>1, <3>2, <3>3, <3>4
  <2>2. CASE i = Len(s) + 1
    BY <1>1, <1>2, <2>2 DEF NumberedBelow, Opens, n
  <2> QED
    BY <1>2, <2>1, <2>2
<1>9. ASSUME NEW k \in 1 .. n + 1
      PROVE  /\ \E i \in 1 .. Len(u) : Opens(u[i]) /\ u[i].index = k - 1
             /\ Says(u, k - 1, ds[k])
  <2>1. PICK i \in 1 .. Len(s) : Opens(s[i]) /\ s[i].index = k - 1
    BY <1>4, <1>6 DEF Reads
  <2>2. i \in 1 .. Len(u) /\ u[i] = s[i]
    BY <1>2
  <2>3. CASE k \in 1 .. n
    <3>1. Says(s, k - 1, bs[k])
      BY <1>4, <1>6 DEF Reads
    <3>2. k - 1 \in 0 .. n - 1
      BY <1>1, <2>3
    <3>3. Says(u, k - 1, ds[k])
      BY <1>3, <1>4, <1>5, <2>3, <3>1, <3>2 DEF Says
    <3> QED
      BY <2>1, <2>2, <3>3
  <2>4. CASE k = n + 1
    <3>1. k - 1 = n
      BY <1>1, <2>4
    <3> QED
      BY <1>3, <1>7, <2>1, <2>2, <2>4, <3>1
  <2> QED
    BY <1>1, <2>3, <2>4
<1>10. Reads(u, ds)
  BY <1>2, <1>3, <1>8, <1>9 DEF Reads
<1> QED
  BY <1>10 DEF u, ds

LEMMA BlockFields ==
    ASSUME NEW kind, NEW data, NEW signature
    PROVE  /\ ContentBlock(kind, data, signature).kind = kind
           /\ ContentBlock(kind, data, signature).data = data
           /\ ContentBlock(kind, data, signature).signature = signature
           /\ kind \in {"text", "thinking", "tool_use"} /\ data \in Stream!Strings /\ signature \in SignatureValues
                  => ContentBlock(kind, data, signature) \in ReadBlocks
BY DEF ContentBlock, ReadBlocks

LEMMA DeltaNames ==
    ASSUME NEW kind \in {"text", "thinking", "tool_use"}
    PROVE  /\ Stream!DataDelta(kind) \in {"text_delta", "thinking_delta", "input_json_delta"}
           /\ Stream!DataDelta(kind) # "signature_delta"
BY DataDeltas

LEMMA JoinedStrings ==
    ASSUME NEW s \in Stream!Strings, NEW t \in Stream!Strings
    PROVE  s \o t \in Stream!Strings
BY ConcatType DEF Stream!Strings

\* The beginning of the last block, and more of it.
LEMMA ReadData ==
    ASSUME NEW s, NEW cs \in Seq(ReadBlocks), NEW kind \in {"text", "thinking", "tool_use"},
           NEW before \in Stream!Strings, NEW data \in Stream!Strings,
           Reads(s, cs \o <<ContentBlock(kind, before, NoSignature)>>)
    PROVE  Reads(s \o <<Stream!BlockDelta(Len(cs), Stream!DataDelta(kind), data)>>,
                 cs \o <<ContentBlock(kind, before \o data, NoSignature)>>)
<1> DEFINE b == ContentBlock(kind, before, NoSignature)
           c == ContentBlock(kind, before \o data, NoSignature)
           delta == Stream!DataDelta(kind)
           n == Len(cs)
           e == Stream!BlockDelta(n, delta, data)
           bs == cs \o <<b>>
           u == s \o <<e>>
<1>1. n \in Nat /\ NoSignature \in SignatureValues
  BY DEF SignatureValues
<1>2. /\ b \in ReadBlocks /\ b.kind = kind /\ b.data = before /\ b.signature = NoSignature
      /\ c \in ReadBlocks /\ c.kind = kind /\ c.data = before \o data /\ c.signature = NoSignature
  <2> DEFINE joined == before \o data
  <2>1. joined \in Stream!Strings
    BY JoinedStrings
  <2> HIDE DEF joined
  <2>2. ContentBlock(kind, joined, NoSignature) \in ReadBlocks
    BY <1>1, <2>1, BlockFields
  <2>3. ContentBlock(kind, before, NoSignature) \in ReadBlocks
    BY <1>1, BlockFields
  <2>4. b.kind = kind /\ b.data = before /\ b.signature = NoSignature
    BY BlockFields
  <2>5. /\ ContentBlock(kind, joined, NoSignature).kind = kind
        /\ ContentBlock(kind, joined, NoSignature).data = joined
        /\ ContentBlock(kind, joined, NoSignature).signature = NoSignature
    BY BlockFields
  <2> HIDE DEF b
  <2> QED
    BY <2>2, <2>3, <2>4, <2>5 DEF joined, b
<1>3. delta # "signature_delta" /\ delta \in {"text_delta", "thinking_delta", "input_json_delta"}
  BY DeltaNames
<1>4. /\ e \in StreamEvents /\ e.type = "content_block_delta" /\ e.index = n /\ e.delta = delta
      /\ e.data = data
  BY <1>1, <1>3, DeltaEvent
<1>5. s \in Seq(StreamEvents) /\ Reads(s, bs)
  BY DEF Reads
<1> HIDE DEF b, c, e
<1>6. Len(bs) = n + 1 /\ bs[n + 1] = b
  OBVIOUS
<1>7. Says(s, n, b)
  <2> HIDE DEF bs, n
  <2>1. n + 1 \in 1 .. Len(bs) /\ (n + 1) - 1 = n
    BY <1>1, <1>6
  <2> QED
    BY <1>5, <1>6, <2>1 DEF Reads
<1>8. BlockData(u, n, delta) = before \o data
  <2>1. DataOf(n, delta)[e] = data
    BY <1>4 DEF DataOf
  <2>2. BlockData(u, n, delta) = BlockData(s, n, delta) \o DataOf(n, delta)[e]
    BY <1>4, <1>5, DataOfOneMore
  <2> QED
    BY <1>2, <1>7, <2>1, <2>2 DEF Says
<1>9. BlockData(u, n, "signature_delta") = SignatureData(NoSignature)
  <2>1. BlockData(u, n, "signature_delta") = BlockData(s, n, "signature_delta")
    BY <1>3, <1>4, <1>5, NothingSaid
  <2> QED
    BY <1>2, <1>7, <2>1 DEF Says
<1>10. Says(u, n, c)
  BY <1>2, <1>8, <1>9 DEF Says
<1>11. Reads(u, cs \o <<c>>)
  <2> HIDE DEF n
  <2> QED
    BY <1>2, <1>4, <1>5, <1>10, ReadLast DEF n
<1> QED
  BY <1>11 DEF c, e

LEMMA ReadSignature ==
    ASSUME NEW s, NEW cs \in Seq(ReadBlocks), NEW kind \in {"text", "thinking", "tool_use"},
           NEW data \in Stream!Strings, NEW signature \in Signatures, signature # NoSignature,
           Reads(s, cs \o <<ContentBlock(kind, data, NoSignature)>>)
    PROVE  Reads(s \o <<Stream!BlockDelta(Len(cs), "signature_delta", <<signature>>)>>,
                 cs \o <<ContentBlock(kind, data, signature)>>)
<1> DEFINE b == ContentBlock(kind, data, NoSignature)
           c == ContentBlock(kind, data, signature)
           delta == Stream!DataDelta(kind)
           n == Len(cs)
           signed == <<signature>>
           e == Stream!BlockDelta(n, "signature_delta", signed)
           bs == cs \o <<b>>
           u == s \o <<e>>
<1>1. n \in Nat /\ NoSignature \in SignatureValues /\ signature \in SignatureValues /\ signed \in Stream!Strings
  BY StringTypes DEF SignatureValues
<1>2. /\ b \in ReadBlocks /\ b.kind = kind /\ b.data = data /\ b.signature = NoSignature
      /\ c \in ReadBlocks /\ c.kind = kind /\ c.data = data /\ c.signature = signature
  BY <1>1, BlockFields
<1>3. delta # "signature_delta"
  BY DeltaNames
<1> HIDE DEF signed
<1>4. /\ e \in StreamEvents /\ e.type = "content_block_delta" /\ e.index = n /\ e.delta = "signature_delta"
      /\ e.data = signed
  BY <1>1, DeltaEvent
<1>5. s \in Seq(StreamEvents) /\ Reads(s, bs)
  BY DEF Reads
<1> HIDE DEF b, c, e
<1>6. Len(bs) = n + 1 /\ bs[n + 1] = b
  OBVIOUS
<1>7. Says(s, n, b)
  <2> HIDE DEF bs, n
  <2>1. n + 1 \in 1 .. Len(bs) /\ (n + 1) - 1 = n
    BY <1>1, <1>6
  <2> QED
    BY <1>5, <1>6, <2>1 DEF Reads
<1>8. BlockData(u, n, "signature_delta") = SignatureData(signature)
  <2>1. DataOf(n, "signature_delta")[e] = signed
    BY <1>4 DEF DataOf
  <2>2. BlockData(u, n, "signature_delta") = BlockData(s, n, "signature_delta") \o DataOf(n, "signature_delta")[e]
    BY <1>4, <1>5, DataOfOneMore
  <2>3. BlockData(s, n, "signature_delta") = <<>>
    BY <1>2, <1>7 DEF Says, SignatureData
  <2>4. <<>> \o signed = signed
    BY DEF signed
  <2> QED
    BY <2>1, <2>2, <2>3, <2>4 DEF SignatureData, signed
<1>9. BlockData(u, n, delta) = data
  <2>1. BlockData(u, n, delta) = BlockData(s, n, delta)
    BY <1>3, <1>4, <1>5, NothingSaid
  <2> QED
    BY <1>2, <1>7, <2>1 DEF Says
<1>10. Says(u, n, c)
  BY <1>2, <1>8, <1>9 DEF Says
<1>11. Reads(u, cs \o <<c>>)
  <2> HIDE DEF n
  <2> QED
    BY <1>2, <1>4, <1>5, <1>10, ReadLast DEF n
<1> QED
  BY <1>11 DEF c, e, signed

\* Only the signature of a thought is sent.
ShownSignature(kind, signature) == IF kind = "thinking" THEN signature ELSE NoSignature

LEMMA ReadSignatureEvents ==
    ASSUME NEW s, NEW cs \in Seq(ReadBlocks), NEW kind \in {"text", "thinking", "tool_use"},
           NEW data \in Stream!Strings, NEW signature \in SignatureValues,
           Reads(s, cs \o <<ContentBlock(kind, data, NoSignature)>>)
    PROVE  Reads(s \o Stream!SignatureEvents(Len(cs), kind, signature),
                 cs \o <<ContentBlock(kind, data, ShownSignature(kind, signature))>>)
<1>1. CASE kind = "thinking" /\ signature # NoSignature
  <2>1. signature \in Signatures
    BY <1>1 DEF SignatureValues
  <2>2. Reads(s \o <<Stream!BlockDelta(Len(cs), "signature_delta", <<signature>>)>>,
              cs \o <<ContentBlock(kind, data, signature)>>)
    BY <1>1, <2>1, ReadSignature
  <2> QED
    BY <1>1, <2>2 DEF Stream!SignatureEvents, ShownSignature
<1>2. CASE ~(kind = "thinking" /\ signature # NoSignature)
  <2>1. Stream!SignatureEvents(Len(cs), kind, signature) = <<>> /\ ShownSignature(kind, signature) = NoSignature
    BY <1>2 DEF Stream!SignatureEvents, ShownSignature
  <2>2. s \o <<>> = s
    BY DEF Reads
  <2> QED
    BY <2>1, <2>2
<1> QED
  BY <1>1, <1>2

LEMMA StopEvent ==
    ASSUME NEW index \in Nat
    PROVE  /\ Stream!BlockStop(index) \in StreamEvents
           /\ Stream!BlockStop(index).type = "content_block_stop"
<1>1. Stream!BlockStop(index) \in StreamEvents
  BY StreamEventTypes
<1> QED
  BY <1>1 DEF Stream!BlockStop

LEMMA ReadStop ==
    ASSUME NEW s, NEW bs, Reads(s, bs), NEW index \in Nat
    PROVE  Reads(s \o <<Stream!BlockStop(index)>>, bs)
<1> DEFINE e == Stream!BlockStop(index)
<1>1. e \in StreamEvents /\ e.type \notin {"content_block_start", "content_block_delta"}
  BY StopEvent
<1> HIDE DEF e
<1>2. Reads(s \o <<e>>, bs)
  BY <1>1, ReadOther
<1> QED
  BY <1>2 DEF e

\* The stream is that of its blocks.
LEMMA ReadIsStreamed ==
    ASSUME NEW s, NEW bs, Reads(s, bs)
    PROVE  StreamedBlocks(s) = bs
<1> DEFINE n == Len(bs)
           starts == {i \in 1 .. Len(s) : s[i].type = "content_block_start"}
           numbers == {s[i].index + 1 : i \in starts}
<1>1. bs \in Seq(ReadBlocks) /\ s \in Seq(StreamEvents) /\ n \in Nat
  BY DEF Reads
<1>2. numbers = 1 .. n
  <2>1. ASSUME NEW k \in numbers
        PROVE  k \in 1 .. n
    BY DEF Reads, Opens
  <2>2. ASSUME NEW k \in 1 .. n
        PROVE  k \in numbers
    <3>1. PICK i \in 1 .. Len(s) : Opens(s[i]) /\ s[i].index = k - 1
      BY DEF Reads
    <3>2. i \in starts
      BY <3>1 DEF Opens
    <3>3. s[i].index + 1 = k
      BY <1>1, <3>1
    <3> QED
      BY <3>2, <3>3
  <2> QED
    BY <2>1, <2>2
<1>3. ASSUME NEW k \in 1 .. n
      PROVE  StreamedBlock(s, k - 1) = bs[k]
  <2> DEFINE index == k - 1
             start == CHOOSE i \in 1 .. Len(s) : s[i].type = "content_block_start" /\ s[i].index = index
             signed == BlockData(s, index, "signature_delta")
             b == bs[k]
  <2>1. /\ Says(s, index, b)
        /\ \E i \in 1 .. Len(s) : s[i].type = "content_block_start" /\ s[i].index = index
    BY DEF Reads, Opens
  <2>2. start \in 1 .. Len(s) /\ s[start].type = "content_block_start" /\ s[start].index = index
    BY <2>1
  <2>3. index + 1 = k
    BY <1>1
  <2> HIDE DEF start
  <2>4. s[start].kind = b.kind
    BY <2>2, <2>3 DEF Reads, Opens
  <2>5. StreamedBlock(s, index) =
            ContentBlock(s[start].kind, BlockData(s, index, Stream!DataDelta(s[start].kind)),
                         IF signed = <<>> THEN NoSignature ELSE signed[1])
    BY DEF StreamedBlock, start
  <2>6. BlockData(s, index, Stream!DataDelta(b.kind)) = b.data
    BY <2>1 DEF Says
  <2>7. (IF signed = <<>> THEN NoSignature ELSE signed[1]) = b.signature
    <3>1. signed = SignatureData(b.signature)
      BY <2>1 DEF Says
    <3> HIDE DEF signed, b
    <3> QED
      BY <3>1 DEF SignatureData
  <2>8. b \in ReadBlocks
    BY <1>1, ElementOf
  <2> HIDE DEF signed, b
  <2>9. StreamedBlock(s, index) = ContentBlock(b.kind, b.data, b.signature)
    BY <2>4, <2>5, <2>6, <2>7
  <2>10. ContentBlock(b.kind, b.data, b.signature) = b
    BY <2>8 DEF ContentBlock, ReadBlocks
  <2> QED
    BY <2>9, <2>10 DEF b
<1>4. StreamedBlocks(s) = [k \in 1 .. n |-> StreamedBlock(s, k - 1)]
  <2>1. StreamedBlocks(s) = [k \in numbers |-> StreamedBlock(s, k - 1)]
    BY DEF StreamedBlocks
  <2> HIDE DEF numbers
  <2> QED
    BY <1>2, <2>1
<1>5. bs = [k \in 1 .. n |-> bs[k]]
  BY <1>1
<1> HIDE DEF n
<1>6. [k \in 1 .. n |-> StreamedBlock(s, k - 1)] = [k \in 1 .. n |-> bs[k]]
  BY <1>3
<1> QED
  BY <1>4, <1>5, <1>6

LEMMA CatLength ==
    ASSUME NEW S, NEW s \in Seq(S), NEW t \in Seq(S)
    PROVE  Len(Cat(s, t)) = Len(s) + Len(t)
BY DEF Cat

LEMMA SignatureEventTypes ==
    ASSUME NEW index \in Nat, NEW kind, NEW signature \in SignatureValues
    PROVE  Stream!SignatureEvents(index, kind, signature) \in Seq(StreamEvents)
<1>1. CASE kind = "thinking" /\ signature # NoSignature
  <2>1. <<signature>> \in Stream!Strings
    BY <1>1, StringTypes DEF SignatureValues
  <2>2. Stream!BlockDelta(index, "signature_delta", <<signature>>) \in StreamEvents
    BY <2>1, DeltaEvent
  <2> QED
    BY <1>1, <2>2, SeqOfOne DEF Stream!SignatureEvents
<1>2. CASE ~(kind = "thinking" /\ signature # NoSignature)
  BY <1>2, EmptySeq DEF Stream!SignatureEvents
<1> QED
  BY <1>1, <1>2

\* The open block is closed.
LEMMA ReadClosing ==
    ASSUME NEW s, NEW cs \in Seq(ReadBlocks), NEW kind \in {"text", "thinking", "tool_use"},
           NEW data \in Stream!Strings, NEW block, block.kind = kind, block.index = Len(cs),
           block.signature \in SignatureValues,
           Reads(s, cs \o <<ContentBlock(kind, data, NoSignature)>>)
    PROVE  Reads(s \o Stream!Closing(block),
                 cs \o <<ContentBlock(kind, data, ShownSignature(kind, block.signature))>>)
<1> DEFINE n == Len(cs)
           a == Stream!SignatureEvents(n, kind, block.signature)
           b == <<Stream!BlockStop(n)>>
           signature == block.signature
           ds == cs \o <<ContentBlock(kind, data, ShownSignature(kind, signature))>>
<1>1. n \in Nat /\ s \in Seq(StreamEvents)
  BY DEF Reads
<1>2. a \in Seq(StreamEvents) /\ b \in Seq(StreamEvents)
  BY <1>1, SignatureEventTypes, StopEvent, SeqOfOne
<1>3. Reads(s \o a, ds)
  BY ReadSignatureEvents
<1> HIDE DEF ds
<1>4. Reads((s \o a) \o b, ds)
  <2> DEFINE sa == s \o a
  <2>1. Reads(sa, ds)
    BY <1>3
  <2> HIDE DEF sa
  <2>2. Reads(sa \o <<Stream!BlockStop(n)>>, ds)
    BY <1>1, <2>1, ReadStop
  <2> QED
    BY <2>2 DEF sa
<1>5. Stream!Closing(block) = a \o b
  BY DEF Stream!Closing
<1> HIDE DEF a, b
<1>6. Cat(s, Cat(a, b)) = Cat(Cat(s, a), b)
  BY <1>1, <1>2, CatAssociative
<1>7. s \o (a \o b) = (s \o a) \o b
  BY <1>6 DEF Cat
<1> QED
  BY <1>4, <1>5, <1>7 DEF ds

\* A block as the converter sends it.
PlainBlocks == {b \in ReadBlocks : b.kind # "thinking" => b.signature = NoSignature}

LEMMA ReadFullBlock ==
    ASSUME NEW s, NEW cs, Reads(s, cs), NEW b \in PlainBlocks
    PROVE  Reads(s \o Stream!FullBlockEvents(Len(cs), b), cs \o <<b>>)
<1> DEFINE n == Len(cs)
           kind == b.kind
           data == b.data
           signature == b.signature
           a1 == <<Stream!BlockStart(n, kind)>>
           a2 == IF data # <<>> THEN <<Stream!BlockDelta(n, Stream!DataDelta(kind), data)>> ELSE <<>>
           a3 == Stream!SignatureEvents(n, kind, signature)
           a4 == <<Stream!BlockStop(n)>>
           s1 == Cat(s, a1)
           s2 == Cat(s1, a2)
           s3 == Cat(s2, a3)
<1>1. n \in Nat /\ s \in Seq(StreamEvents) /\ cs \in Seq(ReadBlocks)
  BY DEF Reads
<1>2. /\ kind \in {"text", "thinking", "tool_use"} /\ data \in Stream!Strings
      /\ signature \in SignatureValues /\ ShownSignature(kind, signature) = signature
      /\ ContentBlock(kind, data, signature) = b
  BY DEF PlainBlocks, ReadBlocks, ContentBlock, ShownSignature
<1>3. Stream!FullBlockEvents(n, b) = Cat(Cat(Cat(a1, a2), a3), a4)
  BY DEF Stream!FullBlockEvents, Cat
<1>4. /\ a1 \in Seq(StreamEvents) /\ a2 \in Seq(StreamEvents) /\ a3 \in Seq(StreamEvents)
      /\ a4 \in Seq(StreamEvents)
  <2> HIDE DEF kind, data, signature
  <2>1. Stream!DataDelta(kind) \in {"text_delta", "thinking_delta", "input_json_delta"}
    BY <1>2, DeltaNames
  <2>2. /\ Stream!BlockStart(n, kind) \in StreamEvents
        /\ Stream!BlockDelta(n, Stream!DataDelta(kind), data) \in StreamEvents
        /\ Stream!BlockStop(n) \in StreamEvents
    BY <1>1, <1>2, <2>1, StartEvent, DeltaEvent, StopEvent
  <2> QED
    BY <1>1, <1>2, <2>2, SignatureEventTypes, SeqOfOne, EmptySeq
<1> HIDE DEF kind, data, signature
<1>5. Reads(s1, cs \o <<ContentBlock(kind, <<>>, NoSignature)>>)
  BY <1>2, ReadStart DEF Cat, NewlyRead
<1>6. Reads(s2, cs \o <<ContentBlock(kind, data, NoSignature)>>)
  <2> HIDE DEF s1
  <2>1. CASE data = <<>>
    <3>1. a2 = <<>>
      BY <2>1
    <3>2. Cat(s1, <<>>) = s1
      BY <1>5 DEF Cat, Reads
    <3> QED
      BY <1>5, <2>1, <3>1, <3>2
  <2>2. CASE data # <<>>
    <3>1. <<>> \in Stream!Strings /\ <<>> \o data = data
      BY <1>2 DEF Stream!Strings
    <3>2. Reads(s1 \o <<Stream!BlockDelta(n, Stream!DataDelta(kind), data)>>,
                cs \o <<ContentBlock(kind, <<>> \o data, NoSignature)>>)
      BY <1>1, <1>2, <1>5, <3>1, ReadData
    <3> QED
      BY <2>2, <3>1, <3>2 DEF Cat
  <2> QED
    BY <2>1, <2>2
<1>7. Reads(s3, cs \o <<ContentBlock(kind, data, signature)>>)
  <2> HIDE DEF s2
  <2>1. Reads(s2 \o a3, cs \o <<ContentBlock(kind, data, ShownSignature(kind, signature))>>)
    BY <1>1, <1>2, <1>6, ReadSignatureEvents
  <2> QED
    BY <1>2, <2>1 DEF Cat
<1>8. Reads(Cat(s3, a4), cs \o <<b>>)
  <2> HIDE DEF s3
  <2>1. Reads(s3 \o <<Stream!BlockStop(n)>>, cs \o <<ContentBlock(kind, data, signature)>>)
    BY <1>1, <1>7, ReadStop
  <2> QED
    BY <1>2, <2>1 DEF Cat
<1> HIDE DEF a1, a2, a3, a4
<1>9. Cat(s, Cat(Cat(Cat(a1, a2), a3), a4)) = Cat(Cat(Cat(Cat(s, a1), a2), a3), a4)
  BY <1>1, <1>4, CatFive
<1>10. Reads(Cat(s, Stream!FullBlockEvents(n, b)), cs \o <<b>>)
  BY <1>3, <1>8, <1>9
<1> QED
  BY <1>10 DEF Cat

LEMMA FullBlockType ==
    ASSUME NEW n \in Nat, NEW b \in PlainBlocks
    PROVE  Stream!FullBlockEvents(n, b) \in Seq(StreamEvents)
<1> DEFINE a1 == <<Stream!BlockStart(n, b.kind)>>
           a2 == IF b.data # <<>> THEN <<Stream!BlockDelta(n, Stream!DataDelta(b.kind), b.data)>> ELSE <<>>
           a3 == Stream!SignatureEvents(n, b.kind, b.signature)
           a4 == <<Stream!BlockStop(n)>>
<1>1. /\ b.kind \in {"text", "thinking", "tool_use"} /\ b.data \in Stream!Strings
      /\ b.signature \in SignatureValues
  BY DEF PlainBlocks, ReadBlocks
<1>2. Stream!DataDelta(b.kind) \in {"text_delta", "thinking_delta", "input_json_delta"}
  BY <1>1, DeltaNames
<1>3. /\ Stream!BlockStart(n, b.kind) \in StreamEvents
      /\ Stream!BlockDelta(n, Stream!DataDelta(b.kind), b.data) \in StreamEvents
      /\ Stream!BlockStop(n) \in StreamEvents
  BY <1>1, <1>2, StartEvent, DeltaEvent, StopEvent
<1>4. /\ a1 \in Seq(StreamEvents) /\ a2 \in Seq(StreamEvents) /\ a3 \in Seq(StreamEvents)
      /\ a4 \in Seq(StreamEvents)
  BY <1>1, <1>3, SignatureEventTypes, SeqOfOne, EmptySeq
<1>5. Stream!FullBlockEvents(n, b) = Cat(Cat(Cat(a1, a2), a3), a4)
  BY DEF Stream!FullBlockEvents, Cat
<1> HIDE DEF a1, a2, a3, a4
<1>6. Cat(a1, a2) \in Seq(StreamEvents)
  BY <1>4, CatSeq
<1>7. Cat(Cat(a1, a2), a3) \in Seq(StreamEvents)
  BY <1>4, <1>6, CatSeq
<1>8. Cat(Cat(Cat(a1, a2), a3), a4) \in Seq(StreamEvents)
  BY <1>4, <1>7, CatSeq
<1> QED
  BY <1>5, <1>8

\* One block after the other, after those of cs.
LEMMA ReadFullOutput ==
    ASSUME NEW s, NEW cs, Reads(s, cs), NEW blocks \in Seq(PlainBlocks)
    PROVE  Reads(s \o Stream!StreamFullOutput(blocks, Len(cs)), cs \o blocks)
<1> DEFINE n == Len(cs)
           ss(m) == [k \in 1 .. m |-> Stream!FullBlockEvents(n + k - 1, blocks[k])]
           flat(m) == FlattenSeq(ss(m))
           first(m) == SubSeq(blocks, 1, m)
           Good(m) == Reads(Cat(s, flat(m)), Cat(cs, first(m)))
           K == {m \in Nat : m <= Len(blocks) => Good(m)}
<1>1. /\ Len(blocks) \in Nat /\ s \in Seq(StreamEvents) /\ n \in Nat /\ cs \in Seq(ReadBlocks)
      /\ \A k \in 1 .. Len(blocks) : blocks[k] \in PlainBlocks
  BY ElementOf DEF Reads
<1>2. ASSUME NEW m \in Nat, m <= Len(blocks)
      PROVE  ss(m) \in [1 .. m -> Seq(StreamEvents)]
  <2>1. ASSUME NEW k \in 1 .. m
        PROVE  Stream!FullBlockEvents(n + k - 1, blocks[k]) \in Seq(StreamEvents)
    <3>1. n + k - 1 \in Nat /\ blocks[k] \in PlainBlocks
      BY <1>1, <1>2
    <3> QED
      BY <3>1, FullBlockType
  <2> QED
    BY <2>1
<1>3. 0 \in K
  <2>1. ss(0) \in [1 .. 0 -> {<<>>}]
    OBVIOUS
  <2> HIDE DEF ss
  <2>2. flat(0) = <<>>
    BY <2>1, FlattenSeqOfEmpties
  <2>3. first(0) = <<>>
    OBVIOUS
  <2> HIDE DEF flat, first
  <2>4. Cat(s, <<>>) = s /\ Cat(cs, <<>>) = cs
    BY <1>1 DEF Cat
  <2>5. Good(0)
    BY <2>2, <2>3, <2>4
  <2> QED
    BY <2>5
<1>4. ASSUME NEW m \in Nat, m \in K
      PROVE  m + 1 \in K
  <2> SUFFICES ASSUME m + 1 <= Len(blocks) PROVE Good(m + 1)
    OBVIOUS
  <2> DEFINE block == blocks[m + 1]
             events == Stream!FullBlockEvents(n + m, block)
             ds == Cat(cs, first(m))
  <2>1. m <= Len(blocks) /\ block \in PlainBlocks
    BY <1>1
  <2>2. Good(m)
    BY <1>4, <2>1
  <2>3. first(m) \in Seq(ReadBlocks) /\ Len(first(m)) = m /\ first(m + 1) = Cat(first(m), <<block>>)
    <3>1. PlainBlocks \subseteq ReadBlocks
      BY DEF PlainBlocks
    <3>2. blocks \in Seq(ReadBlocks)
      BY <3>1, SeqSubset
    <3> QED
      BY <2>1, <3>2 DEF Cat
  <2>4. Len(ds) = n + m
    <3> DEFINE f == first(m)
    <3>1. f \in Seq(ReadBlocks) /\ Len(f) = m
      BY <2>3
    <3> HIDE DEF f
    <3>2. Len(Cat(cs, f)) = Len(cs) + Len(f)
      BY <1>1, <3>1, CatLength
    <3> QED
      BY <3>1, <3>2 DEF f
  <2>5. Reads(Cat(Cat(s, flat(m)), events), Cat(ds, <<block>>))
    <3> DEFINE u == Cat(s, flat(m))
    <3> HIDE DEF u, block, ds
    <3>1. Reads(u, ds)
      BY <2>2 DEF u, ds
    <3>2. Reads(u \o Stream!FullBlockEvents(Len(ds), block), ds \o <<block>>)
      BY <2>1, <3>1, ReadFullBlock
    <3> QED
      BY <2>4, <3>2 DEF Cat, u
  <2>6. events \in Seq(StreamEvents)
    <3>1. n + m \in Nat
      BY <1>1
    <3> QED
      BY <2>1, <3>1, FullBlockType
  <2>7. ss(m) \in [1 .. m -> Seq(StreamEvents)] /\ ss(m + 1) \in [1 .. m + 1 -> Seq(StreamEvents)]
    BY <1>2, <2>1
  <2>8. \A k \in 1 .. m : ss(m + 1)[k] = ss(m)[k]
    OBVIOUS
  <2>9. ss(m + 1)[m + 1] = events
    <3>1. n + (m + 1) - 1 = n + m
      BY <1>1
    <3> QED
      BY <3>1
  <2> HIDE DEF ss, events
  <2>10. flat(m) \in Seq(StreamEvents) /\ flat(m + 1) = Cat(flat(m), events)
    <3> DEFINE old == ss(m)
               new == ss(m + 1)
    <3> HIDE DEF old, new
    <3>1. /\ old \in [1 .. m -> Seq(StreamEvents)] /\ new \in [1 .. m + 1 -> Seq(StreamEvents)]
          /\ \A k \in 1 .. m : new[k] = old[k]
      BY <2>7, <2>8 DEF old, new
    <3>2. FlattenSeq(old) \in Seq(StreamEvents) /\ FlattenSeq(new) = FlattenSeq(old) \o new[m + 1]
      BY <3>1, FlattenSeqOneMore
    <3> QED
      BY <2>9, <3>2 DEF old, new, Cat
  <2> HIDE DEF flat
  <2>11. Cat(s, Cat(flat(m), events)) = Cat(Cat(s, flat(m)), events)
    BY <1>1, <2>6, <2>10, CatAssociative
  <2>12. Cat(cs, Cat(first(m), <<block>>)) = Cat(ds, <<block>>)
    <3>1. <<block>> \in Seq(ReadBlocks)
      BY <2>1, SeqOfOne DEF PlainBlocks
    <3> DEFINE f == first(m)
               b == <<block>>
    <3>2. f \in Seq(ReadBlocks) /\ b \in Seq(ReadBlocks)
      BY <2>3, <3>1
    <3> HIDE DEF f, b
    <3>3. Cat(cs, Cat(f, b)) = Cat(Cat(cs, f), b)
      BY <1>1, <3>2, CatAssociative
    <3> QED
      BY <3>3 DEF f, b
  <2> HIDE DEF first, ds
  <2> QED
    BY <2>3, <2>5, <2>10, <2>11, <2>12
<1>5. Len(blocks) \in K
  <2> HIDE DEF K
  <2> QED
    BY <1>1, <1>3, <1>4, SetInduction
<1>6. Stream!StreamFullOutput(blocks, n) = flat(Len(blocks))
  BY SameFlattenSeq DEF Stream!StreamFullOutput
<1>7. first(Len(blocks)) = blocks
  BY WholeSeq
<1> HIDE DEF flat, first
<1> QED
  BY <1>1, <1>5, <1>6, <1>7 DEF Cat

\* The message is begun, if it was not.
LEMMA ReadMessageStart ==
    ASSUME NEW bs, Reads(emitted, bs)
    PROVE  Reads(emitted \o Stream!StartMessage, bs)
<1>1. CASE messageStarted
  <2>1. emitted \o <<>> = emitted
    BY DEF Reads
  <2> QED
    BY <1>1, <2>1 DEF Stream!StartMessage
<1>2. CASE ~messageStarted
  <2>1. Stream!MessageStart \in StreamEvents /\ Stream!MessageStart.type = "message_start"
    BY StreamEventTypes DEF Stream!MessageStart
  <2> DEFINE e == Stream!MessageStart
  <2>2. e \in StreamEvents /\ e.type \notin {"content_block_start", "content_block_delta"}
    BY <2>1
  <2> HIDE DEF e
  <2>3. Reads(emitted \o <<e>>, bs)
    BY <2>2, ReadOther
  <2> QED
    BY <1>2, <2>3 DEF Stream!StartMessage, e
<1> QED
  BY <1>1, <1>2

\* The last events of a message.
LEMMA ReadEnd ==
    ASSUME NEW s, NEW bs, Reads(s, bs), NEW reason \in {"end_turn", "max_tokens", "tool_use"}
    PROVE  LET u == s \o <<Stream!MessageDelta(reason), Stream!MessageStop>>
           IN  /\ Reads(u, bs)
               /\ u[Len(u) - 1].stop_reason = reason
<1> DEFINE d == Stream!MessageDelta(reason)
           e == Stream!MessageStop
<1>1. d \in StreamEvents /\ d.type = "message_delta" /\ d.stop_reason = reason
  BY StreamEventTypes DEF Stream!MessageDelta
<1>2. e \in StreamEvents /\ e.type = "message_stop"
  BY StreamEventTypes DEF Stream!MessageStop
<1>3. s \in Seq(StreamEvents)
  BY DEF Reads
<1> HIDE DEF d, e
<1>4. Reads(s \o <<d>>, bs)
  BY <1>1, ReadOther
<1>5. Reads((s \o <<d>>) \o <<e>>, bs)
  <2> DEFINE t == s \o <<d>>
  <2>1. Reads(t, bs)
    BY <1>4
  <2> HIDE DEF t
  <2>2. Reads(t \o <<e>>, bs)
    BY <1>2, <2>1, ReadOther
  <2> QED
    BY <2>2 DEF t
<1>6. (s \o <<d>>) \o <<e>> = s \o <<d, e>>
  <2> DEFINE a == <<d>>
             b == <<e>>
  <2>1. a \in Seq(StreamEvents) /\ b \in Seq(StreamEvents) /\ a \o b = <<d, e>>
    BY <1>1, <1>2, SeqOfOne, SeqOfTwo
  <2> HIDE DEF a, b
  <2>2. Cat(s, Cat(a, b)) = Cat(Cat(s, a), b)
    BY <1>3, <2>1, CatAssociative
  <2> QED
    BY <2>1, <2>2 DEF Cat, a, b
<1>7. (s \o <<d, e>>)[Len(s \o <<d, e>>) - 1] = d
  BY <1>1, <1>2, <1>3
<1> QED
  BY <1>1, <1>5, <1>6, <1>7 DEF d, e

-----------------------------------------------------------------------------
(* What a reader makes of the blocks *)

\* A text, piece by piece.
Unit(x) == ContentBlock("text", <<x>>, NoSignature)
UnitOf == [x \in Stream!Fragments |-> <<Unit(x)>>]
Units(t) == [i \in 1 .. Len(t) |-> Unit(t[i])]

Readings == [b \in ReadBlocks |-> Reading(b)]

LEMMA UnitType ==
    ASSUME NEW x \in Stream!Fragments
    PROVE  Unit(x) \in ReadBlocks
<1>1. <<x>> \in Stream!Strings
  BY SeqOfOne DEF Stream!Strings
<1>2. NoSignature \in SignatureValues
  BY DEF SignatureValues
<1> QED
  BY <1>1, <1>2, BlockFields DEF Unit

LEMMA UnitsType ==
    ASSUME NEW t \in Stream!Strings
    PROVE  /\ Units(t) \in Seq(ReadBlocks)
           /\ UnitOf \in Lists(Stream!Fragments, ReadBlocks)
           /\ Units(t) = FlatMap(UnitOf, t)
<1>1. t \in Seq(Stream!Fragments)
  BY DEF Stream!Strings
<1>2. UnitOf \in Lists(Stream!Fragments, ReadBlocks)
  <2>1. ASSUME NEW x \in Stream!Fragments
        PROVE  <<Unit(x)>> \in Seq(ReadBlocks)
    BY UnitType, SeqOfOne
  <2> QED
    BY <2>1 DEF UnitOf, Lists
<1>3. Units(t) = FlatMap(UnitOf, t)
  <2> DEFINE g == [x \in Stream!Fragments |-> Unit(x)]
  <2>1. UnitOf = [x \in Stream!Fragments |-> <<g[x]>>]
    BY DEF UnitOf
  <2>2. Units(t) = Mapped(g, t)
    BY <1>1 DEF Units, Mapped
  <2> HIDE DEF g
  <2>3. FlatMap([x \in Stream!Fragments |-> <<g[x]>>], t) = Mapped(g, t)
    BY <1>1, MapIsFlatMap
  <2> QED
    BY <2>1, <2>2, <2>3
<1>4. FlatMap(UnitOf, t) \in Seq(ReadBlocks)
  BY <1>1, <1>2, FlatMapType
<1> QED
  BY <1>2, <1>3, <1>4

LEMMA UnitsConcat ==
    ASSUME NEW s \in Stream!Strings, NEW t \in Stream!Strings
    PROVE  Units(s \o t) = Units(s) \o Units(t)
<1>1. s \in Seq(Stream!Fragments) /\ t \in Seq(Stream!Fragments)
  BY DEF Stream!Strings
<1>2. s \o t \in Stream!Strings
  BY JoinedStrings
<1>3. /\ UnitOf \in Lists(Stream!Fragments, ReadBlocks)
      /\ Units(s) = FlatMap(UnitOf, s) /\ Units(t) = FlatMap(UnitOf, t)
  BY UnitsType
<1>4. Units(s \o t) = FlatMap(UnitOf, s \o t)
  BY <1>2, UnitsType
<1>5. FlatMap(UnitOf, s \o t) = FlatMap(UnitOf, s) \o FlatMap(UnitOf, t)
  BY <1>1, <1>3, FlatMapConcat
<1> QED
  BY <1>3, <1>4, <1>5

LEMMA EmptyObjectType == EmptyObject \in Stream!Strings /\ ~Blank(EmptyObject)
<1>1. "{}" \in Stream!Fragments
  BY DEF Stream!Fragments
<1>2. EmptyObject \in Stream!Strings
  BY <1>1, SeqOfOne DEF EmptyObject, Stream!Strings
<1>3. Len(EmptyObject) \in Nat /\ Len(EmptyObject) >= 1
  BY DEF EmptyObject
<1>4. EmptyObject[1] = "{}"
  BY DEF EmptyObject
<1>5. EmptyObject[1] \notin Blanks
  BY <1>4, BlanksAssumption
<1> QED
  BY <1>2, <1>3, <1>5, BeginsOutside DEF Blank

LEMMA CustomInputIsNotBlank ==
    ASSUME NEW S, NEW a \in Seq(S)
    PROVE  ~Blank(CustomToolInput(a))
<1> DEFINE input == CustomToolInput(a)
<1>1. Len(input) \in Nat /\ Len(input) >= 1 /\ input[1] = "{input:"
  BY FirstOfThree DEF CustomToolInput
<1> HIDE DEF input
<1>2. input[1] \notin Blanks
  BY <1>1, BlanksAssumption
<1> QED
  BY <1>1, <1>2, BeginsOutside DEF Blank, input

LEMMA UnitsOfNothing == Units(<<>>) = <<>>
BY DEF Units

LEMMA ReadingType ==
    ASSUME NEW b \in ReadBlocks
    PROVE  /\ Reading(b) \in Seq(ReadBlocks)
           /\ b.kind = "text" => Reading(b) = Units(b.data)
           /\ b.kind = "tool_use" =>
                 Reading(b) = <<IF Whitespace(b.data) THEN [b EXCEPT !.data = EmptyObject] ELSE b>>
           /\ b.kind = "thinking" =>
                 Reading(b) = IF b.data = <<>> /\ b.signature = NoSignature THEN <<>> ELSE <<b>>
<1>1. b.kind \in {"text", "thinking", "tool_use"} /\ b.data \in Stream!Strings
  BY DEF ReadBlocks
<1>2. Units(b.data) \in Seq(ReadBlocks)
  BY <1>1, UnitsType
<1>3. <<b>> \in Seq(ReadBlocks) /\ <<>> \in Seq(ReadBlocks)
  BY SeqOfOne, EmptySeq
<1>4. b.kind = "text" => Reading(b) = Units(b.data)
  BY DEF Reading, Units, Unit
<1>5. b.kind = "tool_use" =>
          Reading(b) = <<IF Whitespace(b.data) THEN [b EXCEPT !.data = EmptyObject] ELSE b>>
  BY DEF Reading
<1>6. b.kind = "thinking" =>
          Reading(b) = IF b.data = <<>> /\ b.signature = NoSignature THEN <<>> ELSE <<b>>
  BY DEF Reading
<1>7. [b EXCEPT !.data = EmptyObject] \in ReadBlocks
  BY EmptyObjectType DEF ReadBlocks
<1>8. <<IF Whitespace(b.data) THEN [b EXCEPT !.data = EmptyObject] ELSE b>> \in Seq(ReadBlocks)
  BY <1>7, SeqOfOne
<1> QED
  BY <1>1, <1>2, <1>3, <1>4, <1>5, <1>6, <1>8

LEMMA GistIsFlatMap ==
    ASSUME NEW bs \in Seq(ReadBlocks)
    PROVE  /\ Readings \in Lists(ReadBlocks, ReadBlocks)
           /\ Gist(bs) = FlatMap(Readings, bs)
           /\ Gist(bs) \in Seq(ReadBlocks)
<1>1. Readings \in Lists(ReadBlocks, ReadBlocks)
  BY ReadingType DEF Readings, Lists
<1>2. Gist(bs) = FlatMap(Readings, bs)
  <2>1. \A i \in 1 .. Len(bs) : Readings[bs[i]] = Reading(bs[i])
    BY ElementOf DEF Readings
  <2>2. [i \in 1 .. Len(bs) |-> Reading(bs[i])] = [i \in 1 .. Len(bs) |-> Readings[bs[i]]]
    BY <2>1
  <2> QED
    BY <2>2 DEF Gist, FlatMap
<1>3. FlatMap(Readings, bs) \in Seq(ReadBlocks)
  BY <1>1, FlatMapType
<1> QED
  BY <1>1, <1>2, <1>3

LEMMA GistConcat ==
    ASSUME NEW s \in Seq(ReadBlocks), NEW t \in Seq(ReadBlocks)
    PROVE  Gist(s \o t) = Gist(s) \o Gist(t)
<1>1. s \o t \in Seq(ReadBlocks)
  BY ConcatType
<1>2. /\ Readings \in Lists(ReadBlocks, ReadBlocks)
      /\ Gist(s) = FlatMap(Readings, s) /\ Gist(t) = FlatMap(Readings, t)
  BY GistIsFlatMap
<1>3. Gist(s \o t) = FlatMap(Readings, s \o t)
  BY <1>1, GistIsFlatMap
<1>4. FlatMap(Readings, s \o t) = FlatMap(Readings, s) \o FlatMap(Readings, t)
  BY <1>2, FlatMapConcat
<1> QED
  BY <1>2, <1>3, <1>4

LEMMA GistOfOne ==
    ASSUME NEW b \in ReadBlocks
    PROVE  Gist(<<b>>) = Reading(b)
<1>1. <<b>> \in Seq(ReadBlocks)
  BY SeqOfOne
<1>2. Readings \in Lists(ReadBlocks, ReadBlocks) /\ Gist(<<b>>) = FlatMap(Readings, <<b>>)
  BY <1>1, GistIsFlatMap
<1>3. FlatMap(Readings, <<b>>) = Readings[b]
  BY <1>2, FlatMapOne
<1> QED
  BY <1>2, <1>3 DEF Readings

LEMMA GistOfNothing == Gist(<<>>) = <<>>
<1>1. <<>> \in Seq(ReadBlocks)
  BY EmptySeq
<1> QED
  BY <1>1, GistIsFlatMap, FlatMapEmpty

LEMMA GistOneMore ==
    ASSUME NEW cs \in Seq(ReadBlocks), NEW b \in ReadBlocks
    PROVE  Gist(cs \o <<b>>) = Gist(cs) \o Reading(b)
<1> DEFINE t == <<b>>
<1>1. t \in Seq(ReadBlocks) /\ Gist(t) = Reading(b)
  BY SeqOfOne, GistOfOne
<1> HIDE DEF t
<1>2. Gist(cs \o t) = Gist(cs) \o Gist(t)
  BY <1>1, GistConcat
<1> QED
  BY <1>1, <1>2 DEF t

\* A text of which there is more.
LEMMA GistOfText ==
    ASSUME NEW cs \in Seq(ReadBlocks), NEW data \in Stream!Strings
    PROVE  Gist(cs \o <<ContentBlock("text", data, NoSignature)>>) = Gist(cs) \o Units(data)
<1> DEFINE b == ContentBlock("text", data, NoSignature)
<1>1. b \in ReadBlocks /\ b.kind = "text" /\ b.data = data
  BY BlockFields DEF SignatureValues
<1> HIDE DEF b
<1>2. Reading(b) = Units(data)
  BY <1>1, ReadingType
<1>3. Gist(cs \o <<b>>) = Gist(cs) \o Reading(b)
  BY <1>1, GistOneMore
<1> QED
  BY <1>2, <1>3 DEF b

LEMMA GistOfLongerText ==
    ASSUME NEW cs \in Seq(ReadBlocks), NEW data \in Stream!Strings, NEW more \in Stream!Strings
    PROVE  Gist(cs \o <<ContentBlock("text", data \o more, NoSignature)>>) =
               Gist(cs \o <<ContentBlock("text", data, NoSignature)>>) \o Units(more)
<1> DEFINE all == data \o more
<1>1. all \in Stream!Strings
  BY JoinedStrings
<1>2. Units(all) = Units(data) \o Units(more)
  BY UnitsConcat
<1> HIDE DEF all
<1>3. Gist(cs \o <<ContentBlock("text", all, NoSignature)>>) = Gist(cs) \o Units(all)
  BY <1>1, GistOfText
<1>4. Gist(cs \o <<ContentBlock("text", data, NoSignature)>>) = Gist(cs) \o Units(data)
  BY GistOfText
<1>5. /\ Gist(cs) \in Seq(ReadBlocks) /\ Units(data) \in Seq(ReadBlocks)
      /\ Units(more) \in Seq(ReadBlocks)
  BY GistIsFlatMap, UnitsType
<1>6. Cat(Gist(cs), Cat(Units(data), Units(more))) = Cat(Cat(Gist(cs), Units(data)), Units(more))
  BY <1>5, CatAssociative
<1> QED
  BY <1>2, <1>3, <1>4, <1>6 DEF Cat, all

-----------------------------------------------------------------------------
(* What a reader makes of an item *)

\* A text that is not blank, as a list of one.
NotBlankOf == [x \in Stream!Strings |-> IF x = <<>> THEN <<>> ELSE <<x>>]
TextBlock == [x \in Stream!Strings |-> ContentBlock("text", x, NoSignature)]
TextBlockOf == [x \in Stream!Strings |-> <<TextBlock[x]>>]

LEMMA TextBlockType ==
    ASSUME NEW x \in Stream!Strings
    PROVE  /\ TextBlock[x] \in PlainBlocks
           /\ TextBlock[x] \in ReadBlocks
           /\ Reading(TextBlock[x]) = Units(x)
<1> DEFINE b == ContentBlock("text", x, NoSignature)
<1>1. b \in ReadBlocks /\ b.kind = "text" /\ b.data = x /\ b.signature = NoSignature
  BY BlockFields DEF SignatureValues
<1>2. TextBlock[x] = b
  BY DEF TextBlock
<1> HIDE DEF b
<1>3. b \in PlainBlocks
  BY <1>1 DEF PlainBlocks
<1>4. Reading(b) = Units(x)
  BY <1>1, ReadingType
<1> QED
  BY <1>1, <1>2, <1>3, <1>4

\* The blocks of the texts that are not blank say what all the texts say.
LEMMA GistOfTexts ==
    ASSUME NEW texts \in Seq(Stream!Strings)
    PROVE  LET blocks == [i \in 1 .. Len(NotBlank(texts)) |->
                             ContentBlock("text", NotBlank(texts)[i], NoSignature)]
           IN  /\ blocks \in Seq(PlainBlocks)
               /\ Gist(blocks) = Units(FlattenSeq(texts))
<1> DEFINE S == Stream!Strings
           nb == NotBlankOf
           tb == TextBlockOf
           some == NotBlank(texts)
           blocks == [i \in 1 .. Len(some) |-> ContentBlock("text", some[i], NoSignature)]
<1>1. nb \in Lists(S, S)
  <2> HIDE DEF S
  <2>1. ASSUME NEW x \in S PROVE (IF x = <<>> THEN <<>> ELSE <<x>>) \in Seq(S)
    BY SeqOfOne, EmptySeq
  <2> QED
    BY <2>1 DEF NotBlankOf, Lists, S
<1>2. tb \in Lists(S, ReadBlocks)
  <2>1. ASSUME NEW x \in S PROVE <<TextBlock[x]>> \in Seq(ReadBlocks)
    BY TextBlockType, SeqOfOne
  <2> QED
    BY <2>1 DEF TextBlockOf, Lists
<1>3. some = FlatMap(nb, texts)
  <2>1. \A i \in 1 .. Len(texts) : nb[texts[i]] = IF texts[i] = <<>> THEN <<>> ELSE <<texts[i]>>
    <3> HIDE DEF S
    <3>1. \A i \in 1 .. Len(texts) : texts[i] \in S
      BY DEF S
    <3> QED
      BY <3>1 DEF NotBlankOf, S
  <2>2. [i \in 1 .. Len(texts) |-> IF texts[i] = <<>> THEN <<>> ELSE <<texts[i]>>]
          = [i \in 1 .. Len(texts) |-> nb[texts[i]]]
    BY <2>1
  <2> QED
    BY <2>2 DEF NotBlank, FlatMap
<1> HIDE DEF S, nb, tb, some
<1>4. texts \in Seq(S)
  BY DEF S
<1>5. some \in Seq(S)
  BY <1>1, <1>3, <1>4, FlatMapType
<1>6. blocks = Mapped(TextBlock, some)
  <2>1. \A i \in 1 .. Len(some) : some[i] \in S
    BY <1>5, ElementOf
  <2>2. \A i \in 1 .. Len(some) : TextBlock[some[i]] = ContentBlock("text", some[i], NoSignature)
    BY <2>1 DEF TextBlock, S
  <2> QED
    BY <2>2 DEF Mapped
<1>7. blocks \in Seq(PlainBlocks)
  <2>1. \A x \in S : TextBlock[x] \in PlainBlocks
    BY TextBlockType DEF S
  <2>2. Mapped(TextBlock, some) \in Seq(PlainBlocks)
    BY <1>5, <2>1, MappedType
  <2> QED
    BY <1>6, <2>2
<1> HIDE DEF blocks
<1>8. blocks = FlatMap(tb, some)
  <2>1. FlatMap([x \in S |-> <<TextBlock[x]>>], some) = Mapped(TextBlock, some)
    BY <1>5, MapIsFlatMap
  <2> QED
    BY <1>6, <2>1 DEF tb, TextBlockOf, S
<1>9. Readings \in Lists(ReadBlocks, ReadBlocks)
  BY EmptySeq, GistIsFlatMap
<1>10. Gist(blocks) = FlatMap(Readings, FlatMap(tb, some))
  <2>1. PlainBlocks \subseteq ReadBlocks
    BY DEF PlainBlocks
  <2>2. blocks \in Seq(ReadBlocks)
    BY <1>7, <2>1, SeqSubset
  <2>3. Gist(blocks) = FlatMap(Readings, blocks)
    BY <2>2, GistIsFlatMap
  <2> QED
    BY <1>8, <2>3
<1> DEFINE rt == Composed(S, Readings, tb)
           rtn == Composed(S, rt, nb)
<1>11. /\ rt \in Lists(S, ReadBlocks)
       /\ \A x \in S : rt[x] = FlatMap(Readings, tb[x])
       /\ FlatMap(Readings, FlatMap(tb, some)) = FlatMap(rt, some)
  BY <1>2, <1>5, <1>9, FlatMapCompose
<1> HIDE DEF rt
<1>12. /\ \A x \in S : rtn[x] = FlatMap(rt, nb[x])
       /\ FlatMap(rt, FlatMap(nb, texts)) = FlatMap(rtn, texts)
  BY <1>1, <1>4, <1>11, FlatMapCompose
<1> HIDE DEF rtn
<1>13. ASSUME NEW x \in S
       PROVE  rtn[x] = Units(x)
  <2>1. CASE x = <<>>
    <3>1. nb[x] = <<>>
      BY <2>1 DEF nb, NotBlankOf, S
    <3> QED
      BY <1>12, <2>1, <3>1, FlatMapEmpty, UnitsOfNothing
  <2>2. CASE x # <<>>
    <3>1. nb[x] = <<x>>
      BY <2>2 DEF nb, NotBlankOf, S
    <3>2. FlatMap(rt, <<x>>) = rt[x]
      BY <1>11, FlatMapOne
    <3>3. tb[x] = <<TextBlock[x]>>
      BY DEF tb, TextBlockOf, S
    <3>4. TextBlock[x] \in ReadBlocks /\ Reading(TextBlock[x]) = Units(x)
      BY TextBlockType DEF S
    <3>5. FlatMap(Readings, <<TextBlock[x]>>) = Readings[TextBlock[x]]
      BY <1>9, <3>4, FlatMapOne
    <3>6. Readings[TextBlock[x]] = Units(x)
      BY <3>4 DEF Readings
    <3> QED
      BY <1>11, <1>12, <3>1, <3>2, <3>3, <3>5, <3>6
  <2> QED
    BY <2>1, <2>2
<1> DEFINE F == Stream!Fragments
           flat == FlattenSeq(texts)
           same == Same(Seq(F))
           us == Composed(S, UnitOf, same)
<1>14. S = Seq(F)
  BY DEF S, Stream!Strings
<1>15. texts \in Seq(Seq(F))
  BY <1>4, <1>14
<1> HIDE DEF F
<1>16. same \in Lists(Seq(F), F) /\ flat = FlatMap(same, texts)
  BY <1>15, FlattenIsFlatMap
<1>17. UnitOf \in Lists(F, ReadBlocks)
  <2>1. <<>> \in Stream!Strings
    BY StringTypes
  <2> QED
    BY <2>1, UnitsType DEF F
<1>18. flat \in Seq(F)
  BY <1>15, FlattenSeqType
<1> HIDE DEF same, flat
<1>19. Units(flat) = FlatMap(UnitOf, flat)
  BY <1>14, <1>18, UnitsType DEF S
<1>20. same \in Lists(S, F)
  BY <1>14, <1>16
<1>21. /\ \A x \in S : us[x] = FlatMap(UnitOf, same[x])
       /\ FlatMap(UnitOf, FlatMap(same, texts)) = FlatMap(us, texts)
  BY <1>4, <1>17, <1>20, FlatMapCompose
<1> HIDE DEF us
<1>22. ASSUME NEW x \in S
       PROVE  us[x] = Units(x)
  <2>1. same[x] = x
    BY <1>14 DEF same, Same
  <2>2. Units(x) = FlatMap(UnitOf, x)
    BY UnitsType DEF S
  <2> QED
    BY <1>21, <2>1, <2>2
<1>23. FlatMap(rtn, texts) = FlatMap(us, texts)
  <2>1. \A x \in S : rtn[x] = us[x]
    BY <1>13, <1>22
  <2> QED
    BY <1>4, <2>1, FlatMapSame
<1>24. Gist(blocks) = Units(flat)
  BY <1>3, <1>10, <1>11, <1>12, <1>16, <1>19, <1>21, <1>23
<1> QED
  BY <1>7, <1>24 DEF blocks, some, flat

ItemGist(index) == Gist(ItemBlocks(Shown(TrueItem(index))))

\* What the items before one say.
GistBefore(k) == FlattenSeq([i \in 1 .. k |-> ItemGist(i - 1)])

LEMMA TruePartsType ==
    ASSUME truth \in TrueResponses, NEW index \in TrueItems
    PROVE  /\ TrueParts(index) \in Seq(Stream!Strings)
           /\ Len(TrueParts(index)) \in Nat
           /\ \A part \in 1 .. Len(TrueParts(index)) : TrueParts(index)[part] \in Stream!Strings
           /\ TrueItem(index).signature \in SignatureValues
           /\ TrueItem(index).type \in {"message", "reasoning", "function_call", "custom_tool_call"}
<1>1. /\ TrueItem(index).type \in {"message", "reasoning", "function_call", "custom_tool_call"}
      /\ TrueItem(index).signature \in SignatureValues
      /\ TrueParts(index) \in Seq(Seq(Fragments))
  BY TrueItemType, TrueItemLabels, FieldsKnown DEF Parts, Fragments, SignatureValues
<1> DEFINE parts == TrueParts(index)
<1>2. Seq(Fragments) \subseteq Stream!Strings
  BY StringTypes
<1> HIDE DEF parts
<1>3. parts \in Seq(Stream!Strings)
  BY <1>1, <1>2, SeqSubset DEF parts
<1>4. Len(parts) \in Nat /\ \A part \in 1 .. Len(parts) : parts[part] \in Stream!Strings
  BY <1>3, ElementOf
<1> QED
  BY <1>1, <1>3, <1>4 DEF parts

LEMMA MessageRead ==
    ASSUME truth \in TrueResponses, NEW index \in TrueItems, TrueItem(index).type = "message"
    PROVE  /\ ItemBlocks(Shown(TrueItem(index))) \in Seq(PlainBlocks)
           /\ ItemGist(index) = Units(FlattenSeq(TrueParts(index)))
<1> DEFINE item == TrueItem(index)
           data == TrueParts(index)
           shown == Shown(item)
           texts == NotBlank(data)
           blocks == [i \in 1 .. Len(texts) |-> ContentBlock("text", texts[i], NoSignature)]
<1>1. data \in Seq(Stream!Strings)
  BY TruePartsType
<1>2. shown = [type |-> "message", texts |-> texts]
  BY DEF Shown, TrueParts
<1>3. blocks \in Seq(PlainBlocks) /\ Gist(blocks) = Units(FlattenSeq(data))
  <2> HIDE DEF data
  <2> QED
    BY <1>1, GistOfTexts
<1> HIDE DEF shown, texts
<1>4. ItemBlocks(shown) = blocks
  BY <1>2 DEF ItemBlocks
<1> QED
  BY <1>3, <1>4 DEF ItemGist, shown

LEMMA FlatStrings ==
    ASSUME NEW ss \in Seq(Stream!Strings)
    PROVE  FlattenSeq(ss) \in Stream!Strings
<1>1. ss \in Seq(Seq(Stream!Fragments))
  BY DEF Stream!Strings
<1>2. FlattenSeq(ss) \in Seq(Stream!Fragments)
  BY <1>1, FlattenSeqType
<1> QED
  BY <1>2 DEF Stream!Strings

LEMMA ReasoningRead ==
    ASSUME truth \in TrueResponses, NEW index \in TrueItems, TrueItem(index).type = "reasoning"
    PROVE  /\ ItemBlocks(Shown(TrueItem(index))) \in Seq(PlainBlocks)
           /\ ItemGist(index) =
                 Reading(ContentBlock("thinking", FlattenSeq(TrueParts(index)), TrueItem(index).signature))
<1> DEFINE item == TrueItem(index)
           data == TrueParts(index)
           shown == Shown(item)
           summary == FlattenSeq(data)
           signature == item.signature
           b == ContentBlock("thinking", summary, signature)
<1>1. data \in Seq(Stream!Strings) /\ signature \in SignatureValues
  BY TruePartsType
<1>2. shown = [type |-> "reasoning", summary |-> summary, signature |-> signature]
  BY DEF Shown, TrueParts
<1>3. summary \in Stream!Strings
  BY <1>1, FlatStrings
<1>4. b \in ReadBlocks /\ b.kind = "thinking" /\ b.data = summary /\ b.signature = signature
  BY <1>1, <1>3, BlockFields
<1> HIDE DEF shown, summary, signature
<1>5. ItemBlocks(shown) = IF summary # <<>> \/ signature # NoSignature THEN <<b>> ELSE <<>>
  BY <1>2 DEF ItemBlocks
<1> HIDE DEF b
<1>6. Reading(b) = IF summary = <<>> /\ signature = NoSignature THEN <<>> ELSE <<b>>
  BY <1>4, ReadingType
<1>7. Gist(<<b>>) = Reading(b) /\ Gist(<<>>) = <<>>
  BY <1>4, GistOfOne, GistOfNothing
<1>8. b \in PlainBlocks
  BY <1>4 DEF PlainBlocks
<1>9. ItemBlocks(shown) \in Seq(PlainBlocks)
  BY <1>5, <1>8, SeqOfOne, EmptySeq
<1>10. Gist(ItemBlocks(shown)) = Reading(b)
  BY <1>5, <1>6, <1>7
<1> QED
  BY <1>9, <1>10 DEF ItemGist, shown, b, summary, signature

\* The input of a call of the upstream's.
TrueInput(index) ==
    IF TrueItem(index).type = "function_call" THEN FunctionToolInput(TrueParts(index)[1])
    ELSE CustomToolInput(TrueParts(index)[1])

LEMMA TrueInputType ==
    ASSUME truth \in TrueResponses, NEW index \in TrueItems, IsTool(index)
    PROVE  /\ TrueInput(index) \in Stream!Strings
           /\ ContentBlock("tool_use", TrueInput(index), NoSignature) \in PlainBlocks
           /\ Reading(ContentBlock("tool_use", TrueInput(index), NoSignature)) =
                 <<ContentBlock("tool_use", TrueInput(index), NoSignature)>>
<1> DEFINE whole == TrueParts(index)[1]
           n == Len(whole)
           input == TrueInput(index)
           b == ContentBlock("tool_use", input, NoSignature)
<1>1. whole \in Seq(Fragments)
  BY CallType
<1>2. n \in 0 .. n /\ SubSeq(whole, 1, n) = whole
  <2> HIDE DEF whole
  <2> QED
    BY <1>1, WholeIsBeginning
<1>3. input \in Stream!Strings
  <2>1. CASE TrueItem(index).type = "function_call"
    <3>1. Stream!FunctionToolInput(whole) \in Stream!Strings
      BY <1>2, <2>1, GoodFunctionInput
    <3>2. Stream!FunctionToolInput(whole) = FunctionToolInput(whole)
      BY DEF Stream!FunctionToolInput, FunctionToolInput, Stream!EmptyObject, EmptyObject, Stream!Blank, Blank
    <3> QED
      BY <2>1, <3>1, <3>2 DEF TrueInput
  <2>2. CASE TrueItem(index).type = "custom_tool_call"
    <3>1. Stream!CustomToolInput(whole) \in Stream!Strings
      BY <1>2, <2>2, GoodCustomInput
    <3>2. Stream!CustomToolInput(whole) = CustomToolInput(whole)
      BY DEF Stream!CustomToolInput, CustomToolInput
    <3> QED
      BY <2>2, <3>1, <3>2 DEF TrueInput
  <2> QED
    BY <2>1, <2>2 DEF IsTool
<1>4. ~Whitespace(input)
  <2> HIDE DEF whole
  <2>1. ~Blank(FunctionToolInput(whole)) /\ ~Blank(CustomToolInput(whole))
    BY <1>1, EmptyObjectType, CustomInputIsNotBlank DEF FunctionToolInput
  <2> QED
    BY <2>1 DEF TrueInput, Whitespace, whole
<1> HIDE DEF input
<1>5. b \in ReadBlocks /\ b.kind = "tool_use" /\ b.signature = NoSignature /\ b.data = input
  BY <1>3, BlockFields DEF SignatureValues
<1> HIDE DEF b
<1>6. b \in PlainBlocks
  BY <1>5 DEF PlainBlocks
<1>7. Reading(b) = <<b>>
  BY <1>5, <1>4, ReadingType
<1> QED
  BY <1>3, <1>6, <1>7 DEF b, input

LEMMA CallRead ==
    ASSUME truth \in TrueResponses, NEW index \in TrueItems, IsTool(index)
    PROVE  /\ ItemBlocks(Shown(TrueItem(index))) \in Seq(PlainBlocks)
           /\ ItemGist(index) = <<ContentBlock("tool_use", TrueInput(index), NoSignature)>>
<1> DEFINE whole == TrueParts(index)[1]
           item == TrueItem(index)
           shown == Shown(item)
           b == ContentBlock("tool_use", TrueInput(index), NoSignature)
<1>1. ItemBlocks(shown) = <<b>>
  <2>1. CASE item.type = "function_call"
    <3>1. shown = [type |-> "function_call", arguments |-> whole]
      BY <2>1 DEF Shown, TrueParts
    <3>2. TrueInput(index) = FunctionToolInput(whole)
      BY <2>1 DEF TrueInput
    <3> HIDE DEF shown, whole
    <3> QED
      BY <3>1, <3>2 DEF ItemBlocks
  <2>2. CASE item.type = "custom_tool_call"
    <3>1. shown = [type |-> "custom_tool_call", input |-> whole]
      BY <2>2 DEF Shown, TrueParts
    <3>2. TrueInput(index) = CustomToolInput(whole)
      BY <2>2 DEF TrueInput
    <3> HIDE DEF shown, whole
    <3> QED
      BY <3>1, <3>2 DEF ItemBlocks
  <2> QED
    BY <2>1, <2>2 DEF IsTool
<1>2. b \in PlainBlocks /\ Reading(b) = <<b>>
  BY TrueInputType
<1> HIDE DEF b, shown
<1>3. Gist(<<b>>) = <<b>>
  BY <1>2, GistOfOne DEF PlainBlocks
<1> QED
  BY <1>1, <1>2, <1>3, SeqOfOne DEF ItemGist, b, shown

LEMMA ItemRead ==
    ASSUME truth \in TrueResponses, NEW index \in TrueItems
    PROVE  /\ ItemBlocks(Shown(TrueItem(index))) \in Seq(PlainBlocks)
           /\ ItemGist(index) \in Seq(ReadBlocks)
<1>1. TrueItem(index).type \in {"message", "reasoning", "function_call", "custom_tool_call"}
  BY TruePartsType
<1>2. ItemBlocks(Shown(TrueItem(index))) \in Seq(PlainBlocks)
  BY <1>1, MessageRead, ReasoningRead, CallRead DEF IsTool
<1> DEFINE blocks == ItemBlocks(Shown(TrueItem(index)))
<1>3. PlainBlocks \subseteq ReadBlocks
  BY DEF PlainBlocks
<1>4. blocks \in Seq(ReadBlocks)
  BY <1>2, <1>3, SeqSubset
<1> HIDE DEF blocks
<1>5. Gist(blocks) \in Seq(ReadBlocks)
  BY <1>4, GistIsFlatMap
<1> QED
  BY <1>2, <1>5 DEF ItemGist, blocks

LEMMA GistBeforeNext ==
    ASSUME truth \in TrueResponses, NEW k \in TrueItems
    PROVE  /\ GistBefore(k) \in Seq(ReadBlocks)
           /\ GistBefore(k + 1) = GistBefore(k) \o ItemGist(k)
<1> DEFINE ss == [i \in 1 .. k |-> ItemGist(i - 1)]
           tt == [i \in 1 .. k + 1 |-> ItemGist(i - 1)]
<1>1. k \in Nat /\ k < Len(truth.output) /\ Len(truth.output) \in Nat
  BY TrueResponseType DEF TrueItems
<1>2. ASSUME NEW i \in 1 .. k + 1
      PROVE  ItemGist(i - 1) \in Seq(ReadBlocks)
  <2>1. i - 1 \in TrueItems
    BY <1>1 DEF TrueItems
  <2> QED
    BY <2>1, ItemRead
<1>3. ss \in [1 .. k -> Seq(ReadBlocks)] /\ tt \in [1 .. k + 1 -> Seq(ReadBlocks)]
  BY <1>1, <1>2
<1>4. \A i \in 1 .. k : tt[i] = ss[i]
  BY <1>1
<1>5. tt[k + 1] = ItemGist(k)
  BY <1>1
<1>6. GistBefore(k) = FlattenSeq(ss) /\ GistBefore(k + 1) = FlattenSeq(tt)
  BY DEF GistBefore
<1> HIDE DEF ss, tt
<1>7. FlattenSeq(ss) \in Seq(ReadBlocks) /\ FlattenSeq(tt) = FlattenSeq(ss) \o tt[k + 1]
  BY <1>1, <1>3, <1>4, FlattenSeqOneMore
<1> QED
  BY <1>5, <1>6, <1>7

LEMMA GistBeforeNothing == GistBefore(0) = <<>>
<1> DEFINE ss == [i \in 1 .. 0 |-> ItemGist(i - 1)]
<1>1. ss \in [1 .. 0 -> {<<>>}]
  OBVIOUS
<1>2. GistBefore(0) = FlattenSeq(ss)
  BY DEF GistBefore
<1> HIDE DEF ss
<1> QED
  BY <1>1, <1>2, FlattenSeqOfEmpties

\* The Output list the upstream produces, as the client is shown it.
ShownTruth == [i \in 1 .. Len(truth.output) |-> Shown(truth.output[i])]

LEMMA GistOfOutput ==
    ASSUME truth \in TrueResponses
    PROVE  /\ OutputBlocks(ShownTruth) \in Seq(PlainBlocks)
           /\ Gist(OutputBlocks(ShownTruth)) = GistBefore(Len(truth.output))
<1> DEFINE n == Len(truth.output)
           ss == [i \in 1 .. n |-> ItemBlocks(Shown(TrueItem(i - 1)))]
<1>1. n \in Nat
  BY TrueResponseType
<1>2. ASSUME NEW i \in 1 .. n
      PROVE  /\ i - 1 \in TrueItems /\ TrueItem(i - 1) = truth.output[i]
             /\ ItemBlocks(Shown(TrueItem(i - 1))) \in Seq(PlainBlocks)
  <2>1. i - 1 \in TrueItems /\ TrueItem(i - 1) = truth.output[i]
    BY <1>1 DEF TrueItems, TrueItem
  <2> QED
    BY <2>1, ItemRead
<1>3. OutputBlocks(ShownTruth) = FlattenSeq(ss)
  <2>1. Len(ShownTruth) = n
    BY <1>1 DEF ShownTruth
  <2>2. \A i \in 1 .. n : ItemBlocks(ShownTruth[i]) = ItemBlocks(Shown(TrueItem(i - 1)))
    BY <1>2 DEF ShownTruth
  <2>3. [i \in 1 .. n |-> ItemBlocks(ShownTruth[i])] = ss
    BY <2>2
  <2> QED
    BY <2>1, <2>3 DEF OutputBlocks
<1>4. ss \in [1 .. n -> Seq(PlainBlocks)]
  BY <1>2
<1>5. GistBefore(n) = FlattenSeq([i \in 1 .. n |-> Gist(ss[i])])
  <2>1. \A i \in 1 .. n : ItemGist(i - 1) = Gist(ss[i])
    BY DEF ItemGist
  <2>2. [i \in 1 .. n |-> ItemGist(i - 1)] = [i \in 1 .. n |-> Gist(ss[i])]
    BY <2>1
  <2> QED
    BY <2>2 DEF GistBefore
<1> HIDE DEF n, ss
<1>6. PlainBlocks \subseteq ReadBlocks
  BY DEF PlainBlocks
<1>7. ss \in Seq(Seq(PlainBlocks)) /\ Len(ss) = n
  BY <1>1, <1>4, SeqOfFunction
<1>8. ss \in Seq(Seq(ReadBlocks))
  <2>1. Seq(PlainBlocks) \subseteq Seq(ReadBlocks)
    BY <1>6, SeqSubset
  <2> QED
    BY <1>7, <2>1, SeqSubset
<1>9. FlattenSeq(ss) \in Seq(PlainBlocks) /\ FlattenSeq(ss) \in Seq(ReadBlocks)
  BY <1>7, <1>8, FlattenSeqType
<1>10. Readings \in Lists(ReadBlocks, ReadBlocks)
  BY EmptySeq, GistIsFlatMap
<1>11. Gist(FlattenSeq(ss)) = FlatMap(Readings, FlattenSeq(ss))
  BY <1>9, GistIsFlatMap
<1>12. FlatMap(Readings, FlattenSeq(ss)) = FlattenSeq([i \in 1 .. Len(ss) |-> FlatMap(Readings, ss[i])])
  BY <1>8, <1>10, FlatMapFlatten
<1>13. [i \in 1 .. n |-> FlatMap(Readings, ss[i])] = [i \in 1 .. n |-> Gist(ss[i])]
  <2>1. ASSUME NEW i \in 1 .. n PROVE FlatMap(Readings, ss[i]) = Gist(ss[i])
    <3>1. ss[i] \in Seq(ReadBlocks)
      BY <1>7, <1>8, ElementOf
    <3> QED
      BY <3>1, GistIsFlatMap
  <2> QED
    BY <2>1
<1> QED
  BY <1>3, <1>5, <1>7, <1>9, <1>11, <1>12, <1>13 DEF n

-----------------------------------------------------------------------------
(* What has been said of an item, told in the usual order *)

FirstParts(parts, d) == FlattenSeq(SubSeq(parts, 1, d))

\* The first d parts, and n fragments of the next one.
SpokenTo(parts, d, n) ==
    FirstParts(parts, d) \o (IF d < Len(parts) THEN SubSeq(parts[d + 1], 1, n) ELSE <<>>)

LEMMA NoParts ==
    ASSUME NEW S, NEW parts \in Seq(S)
    PROVE  FirstParts(parts, 0) = <<>>
<1> DEFINE ss == SubSeq(parts, 1, 0)
<1>1. ss \in [1 .. 0 -> {<<>>}]
  OBVIOUS
<1> HIDE DEF ss
<1>2. FlattenSeq(ss) = <<>>
  BY <1>1, FlattenSeqOfEmpties
<1> QED
  BY <1>2 DEF FirstParts, ss

LEMMA OneMorePart ==
    ASSUME NEW parts \in Seq(Stream!Strings), NEW d \in 0 .. Len(parts) - 1
    PROVE  /\ FirstParts(parts, d) \in Stream!Strings
           /\ FirstParts(parts, d + 1) = FirstParts(parts, d) \o parts[d + 1]
           /\ parts[d + 1] \in Stream!Strings
<1> DEFINE S == Seq(Stream!Fragments)
           ss == SubSeq(parts, 1, d)
           tt == SubSeq(parts, 1, d + 1)
<1>1. parts \in Seq(S)
  BY DEF Stream!Strings
<1> HIDE DEF S
<1>2. ss \in [1 .. d -> S] /\ tt \in [1 .. d + 1 -> S] /\ d \in Nat
  <2>1. \A i \in 1 .. Len(parts) : parts[i] \in S
    BY <1>1
  <2>2. ss = [i \in 1 .. d |-> parts[i]] /\ tt = [i \in 1 .. d + 1 |-> parts[i]]
    BY <1>1
  <2> HIDE DEF ss, tt
  <2> QED
    BY <2>1, <2>2
<1>3. (\A i \in 1 .. d : tt[i] = ss[i]) /\ tt[d + 1] = parts[d + 1] /\ parts[d + 1] \in S
  BY <1>1
<1> HIDE DEF ss, tt
<1>4. FlattenSeq(ss) \in S /\ FlattenSeq(tt) = FlattenSeq(ss) \o tt[d + 1]
  BY <1>2, <1>3, FlattenSeqOneMore DEF S
<1> QED
  BY <1>3, <1>4 DEF FirstParts, ss, tt, S, Stream!Strings

LEMMA FirstPartsType ==
    ASSUME NEW parts \in Seq(Stream!Strings), NEW d \in 0 .. Len(parts)
    PROVE  FirstParts(parts, d) \in Stream!Strings
<1> DEFINE ss == SubSeq(parts, 1, d)
<1>1. ss \in Seq(Stream!Strings)
  OBVIOUS
<1> HIDE DEF ss
<1>2. FlattenSeq(ss) \in Stream!Strings
  BY <1>1, FlatStrings
<1> QED
  BY <1>2 DEF FirstParts, ss

LEMMA AllParts ==
    ASSUME NEW parts \in Seq(Stream!Strings)
    PROVE  FirstParts(parts, Len(parts)) = FlattenSeq(parts)
BY WholeSeq DEF FirstParts

LEMMA NothingAfter ==
    ASSUME NEW s \in Stream!Strings
    PROVE  s \o <<>> = s /\ <<>> \o s = s
BY DEF Stream!Strings

\* The parts that are left are blank.
LEMMA BlankRest ==
    ASSUME NEW parts \in Seq(Stream!Strings), NEW d \in 0 .. Len(parts),
           \A q \in d + 1 .. Len(parts) : parts[q] = <<>>
    PROVE  FirstParts(parts, d) = FlattenSeq(parts)
<1> DEFINE K == {m \in Nat : d + m <= Len(parts) => FirstParts(parts, d + m) = FirstParts(parts, d)}
<1>1. Len(parts) \in Nat /\ d \in Nat
  OBVIOUS
<1>2. 0 \in K
  BY <1>1
<1>3. ASSUME NEW m \in Nat, m \in K
      PROVE  m + 1 \in K
  <2> SUFFICES ASSUME d + (m + 1) <= Len(parts)
               PROVE  FirstParts(parts, d + (m + 1)) = FirstParts(parts, d)
    OBVIOUS
  <2> DEFINE e == d + m
  <2>1. e \in 0 .. Len(parts) - 1 /\ e + 1 = d + (m + 1) /\ e + 1 \in d + 1 .. Len(parts)
    BY <1>1
  <2>2. FirstParts(parts, e) = FirstParts(parts, d)
    BY <1>1, <1>3
  <2>3. parts[e + 1] = <<>>
    BY <2>1
  <2> HIDE DEF e
  <2>4. /\ FirstParts(parts, e) \in Stream!Strings
        /\ FirstParts(parts, e + 1) = FirstParts(parts, e) \o parts[e + 1]
    BY <2>1, OneMorePart
  <2>5. FirstParts(parts, e) \o <<>> = FirstParts(parts, e)
    BY <2>4, NothingAfter
  <2> QED
    BY <2>1, <2>2, <2>3, <2>4, <2>5
<1>4. Len(parts) - d \in K
  <2>1. Len(parts) - d \in Nat
    BY <1>1
  <2> HIDE DEF K
  <2> QED
    BY <1>2, <1>3, <2>1, SetInduction
<1>5. FirstParts(parts, d + (Len(parts) - d)) = FirstParts(parts, d)
  BY <1>1, <1>4
<1>6. d + (Len(parts) - d) = Len(parts)
  BY <1>1
<1> QED
  BY <1>5, <1>6, AllParts

\* How far a teller may have come.
Reached(parts, d, n) ==
    /\ d \in 0 .. Len(parts)
    /\ n \in Nat
    /\ d < Len(parts) => n <= Len(parts[d + 1])

LEMMA SpokenType ==
    ASSUME NEW parts \in Seq(Stream!Strings), NEW d, NEW n, Reached(parts, d, n)
    PROVE  SpokenTo(parts, d, n) \in Stream!Strings
<1> DEFINE a == FirstParts(parts, d)
           b == IF d < Len(parts) THEN SubSeq(parts[d + 1], 1, n) ELSE <<>>
<1>1. d \in 0 .. Len(parts) /\ n \in Nat /\ (d < Len(parts) => n <= Len(parts[d + 1]))
  BY DEF Reached
<1>2. a \in Stream!Strings
  BY <1>1, FirstPartsType
<1>3. b \in Stream!Strings
  <2>1. CASE d < Len(parts)
    <3> DEFINE whole == parts[d + 1]
    <3>1. d + 1 \in 1 .. Len(parts)
      BY <1>1, <2>1
    <3>2. whole \in Seq(Stream!Fragments)
      BY <3>1, ElementOf DEF Stream!Strings
    <3>3. n \in 0 .. Len(whole)
      BY <1>1, <2>1
    <3> HIDE DEF whole
    <3>4. SubSeq(whole, 1, n) \in Seq(Stream!Fragments)
      BY <3>2, <3>3, BeginningIsPrefix
    <3> QED
      BY <2>1, <3>4 DEF whole, Stream!Strings
  <2>2. CASE ~(d < Len(parts))
    BY <2>2, StringTypes
  <2> QED
    BY <2>1, <2>2
<1> HIDE DEF a, b
<1>4. a \o b \in Stream!Strings
  BY <1>2, <1>3, JoinedStrings
<1> QED
  BY <1>4 DEF SpokenTo, a, b

LEMMA NothingSpoken ==
    ASSUME NEW parts \in Seq(Stream!Strings), NEW d \in 0 .. Len(parts)
    PROVE  SpokenTo(parts, d, 0) = FirstParts(parts, d)
<1> DEFINE b == IF d < Len(parts) THEN SubSeq(parts[d + 1], 1, 0) ELSE <<>>
<1>1. b = <<>>
  OBVIOUS
<1> HIDE DEF b
<1>2. FirstParts(parts, d) \o b = FirstParts(parts, d)
  BY <1>1, FirstPartsType, NothingAfter
<1> QED
  BY <1>2 DEF SpokenTo, b

LEMMA SpokenOneMore ==
    ASSUME NEW parts \in Seq(Stream!Strings), NEW d \in 0 .. Len(parts) - 1, NEW n \in Nat,
           n < Len(parts[d + 1])
    PROVE  /\ SpokenTo(parts, d, n + 1) = SpokenTo(parts, d, n) \o <<parts[d + 1][n + 1]>>
           /\ <<parts[d + 1][n + 1]>> \in Stream!Strings
<1> DEFINE a == FirstParts(parts, d)
           whole == parts[d + 1]
           b == SubSeq(whole, 1, n)
           c == <<whole[n + 1]>>
<1>1. a \in Stream!Strings /\ whole \in Stream!Strings
  BY OneMorePart
<1>2. whole \in Seq(Stream!Fragments) /\ n \in 0 .. Len(whole) - 1
  <2>1. whole \in Seq(Stream!Fragments)
    BY <1>1 DEF Stream!Strings
  <2> QED
    BY <2>1
<1>3. SpokenTo(parts, d, n) = a \o b /\ SpokenTo(parts, d, n + 1) = a \o SubSeq(whole, 1, n + 1)
  BY DEF SpokenTo
<1> HIDE DEF a, whole
<1>4. b \o c = SubSeq(whole, 1, n + 1) /\ whole[n + 1] \in Stream!Fragments
  BY <1>2, CallGrows
<1>5. b \in Seq(Stream!Fragments)
  <2>1. n \in 0 .. Len(whole)
    BY <1>2
  <2> QED
    BY <1>2, <2>1, BeginningIsPrefix
<1>6. c \in Seq(Stream!Fragments)
  BY <1>4, SeqOfOne
<1>7. a \in Seq(Stream!Fragments)
  BY <1>1 DEF Stream!Strings
<1> HIDE DEF b, c
<1>8. Cat(a, Cat(b, c)) = Cat(Cat(a, b), c)
  BY <1>5, <1>6, <1>7, CatAssociative
<1> QED
  BY <1>3, <1>4, <1>6, <1>8 DEF Cat, c, whole, Stream!Strings

\* The end of a part of which everything was said.
LEMMA SpokenPart ==
    ASSUME NEW parts \in Seq(Stream!Strings), NEW d \in 0 .. Len(parts) - 1
    PROVE  SpokenTo(parts, d + 1, 0) = SpokenTo(parts, d, Len(parts[d + 1]))
<1> DEFINE whole == parts[d + 1]
<1>1. whole \in Seq(Stream!Fragments)
  BY OneMorePart DEF Stream!Strings
<1>2. SubSeq(whole, 1, Len(whole)) = whole
  <2> HIDE DEF whole
  <2> QED
    BY <1>1, WholeSeq
<1>3. SpokenTo(parts, d, Len(parts[d + 1])) = FirstParts(parts, d) \o whole
  BY <1>2 DEF SpokenTo
<1>4. d + 1 \in 0 .. Len(parts)
  OBVIOUS
<1>5. SpokenTo(parts, d + 1, 0) = FirstParts(parts, d + 1)
  BY <1>4, NothingSpoken
<1> QED
  BY <1>3, <1>5, OneMorePart

\* The end of an item of which everything was said.
LEMMA SpokenItem ==
    ASSUME NEW parts \in Seq(Stream!Strings), NEW d, NEW n, Reached(parts, d, n),
           d < Len(parts) => n = Len(parts[d + 1]) /\ \A q \in d + 2 .. Len(parts) : parts[q] = <<>>
    PROVE  SpokenTo(parts, d, n) = FlattenSeq(parts)
<1>1. d \in 0 .. Len(parts) /\ Len(parts) \in Nat
  BY DEF Reached
<1>2. CASE d = Len(parts)
  <2>1. SpokenTo(parts, d, n) = FirstParts(parts, d) \o <<>>
    <3>1. ~(d < Len(parts))
      BY <1>1, <1>2
    <3> QED
      BY <3>1 DEF SpokenTo
  <2>2. FirstParts(parts, d) \o <<>> = FirstParts(parts, d)
    BY <1>1, FirstPartsType, NothingAfter
  <2> QED
    BY <1>2, <2>1, <2>2, AllParts
<1>3. CASE d < Len(parts)
  <2>1. d \in 0 .. Len(parts) - 1 /\ d + 1 \in 0 .. Len(parts)
    BY <1>1, <1>3
  <2>2. SpokenTo(parts, d, n) = SpokenTo(parts, d + 1, 0)
    BY <1>3, <2>1, SpokenPart
  <2>3. SpokenTo(parts, d + 1, 0) = FirstParts(parts, d + 1)
    BY <2>1, NothingSpoken
  <2>4. (d + 1) + 1 = d + 2
    BY <1>1
  <2>5. \A q \in (d + 1) + 1 .. Len(parts) : parts[q] = <<>>
    BY <1>3, <2>4
  <2> DEFINE e == d + 1
  <2>6. e \in 0 .. Len(parts) /\ \A q \in e + 1 .. Len(parts) : parts[q] = <<>>
    BY <2>1, <2>5
  <2> HIDE DEF e
  <2>7. FirstParts(parts, e) = FlattenSeq(parts)
    BY <2>6, BlankRest
  <2> QED
    BY <2>2, <2>3, <2>7 DEF e
<1> QED
  BY <1>1, <1>2, <1>3

LEMMA SpokenSomething ==
    ASSUME NEW parts \in Seq(Stream!Strings), NEW d \in 0 .. Len(parts) - 1, NEW n \in Nat,
           0 < n, n <= Len(parts[d + 1])
    PROVE  SpokenTo(parts, d, n) # <<>>
<1> DEFINE a == FirstParts(parts, d)
           whole == parts[d + 1]
           b == SubSeq(whole, 1, n)
<1>1. a \in Seq(Stream!Fragments) /\ whole \in Seq(Stream!Fragments)
  BY OneMorePart DEF Stream!Strings
<1>2. SpokenTo(parts, d, n) = a \o b
  BY DEF SpokenTo
<1> HIDE DEF a
<1>3. b \in Seq(Stream!Fragments) /\ Len(b) = n
  <2>1. n <= Len(whole)
    OBVIOUS
  <2> HIDE DEF whole
  <2> QED
    BY <1>1, <2>1
<1> HIDE DEF b
<1>4. Len(Cat(a, b)) = Len(a) + Len(b)
  BY <1>1, <1>3, CatLength
<1>5. Len(a) \in Nat
  BY <1>1
<1>6. Len(Cat(a, b)) # 0
  BY <1>3, <1>4, <1>5
<1> QED
  BY <1>2, <1>6 DEF Cat

-----------------------------------------------------------------------------
(* What has been told of the items *)

\* Nothing but one item was told of.
OnlyTold(index) == \A other \in TrueItems \ {index} : told'[other] = told[other]

LEMMA ToldOfOne ==
    ASSUME ItemsInv, NEW event, NEW index \in TrueItems, "index" \in DOMAIN event, event.index = index,
           Tell(event)
    PROVE  told'[index] = ToldBy(told[index], event) /\ OnlyTold(index) /\ truth' = truth
<1>1. told' = [told EXCEPT ![index] = ToldBy(told[index], event)] /\ truth' = truth
  BY DEF Tell
<1>2. ASSUME NEW i \in TrueItems PROVE i \in DOMAIN told
  BY TrueItemType DEF ItemsInv
<1> DEFINE said == ToldBy(told[index], event)
<1> HIDE DEF said
<1>3. told'[index] = said /\ \A other \in TrueItems \ {index} : told'[other] = told[other]
  BY <1>1, <1>2 DEF said
<1> QED
  BY <1>1, <1>3 DEF said, OnlyTold

LEMMA ToldAnnouncement ==
    ASSUME ItemsInv, NEW index \in TrueItems, NEW event \in Announcements(index), ~told[index].seen,
           Tell(event)
    PROVE  /\ OnlyTold(index) /\ truth' = truth
           /\ told'[index].seen /\ ~told'[index].closed
           /\ told'[index].done = {}
           /\ \A part : SentOf(told'[index], part) = 0
           /\ told'[index].signature <=> event.item.signature # NoSignature
<1> DEFINE said == ToldBy(told[index], event)
           call1 == Untold.call \/ event.item.call # NoCall
           signature1 == Untold.signature \/ event.item.signature # NoSignature
<1>1. /\ event.type = "response.output_item.added" /\ event.index = index
      /\ "index" \in DOMAIN event
  BY DEF Announcements
<1>2. told'[index] = said /\ OnlyTold(index) /\ truth' = truth
  BY <1>1, ToldOfOne
<1>3. told[index] = Untold
  BY DEF ItemsInv, ItemInv
<1>4. said = [Untold EXCEPT !.seen = TRUE, !.call = call1, !.signature = signature1]
  BY <1>1, <1>3 DEF ToldBy
<1>5. signature1 <=> event.item.signature # NoSignature
  BY DEF Untold
<1> HIDE DEF said, call1, signature1
<1>6. /\ said.seen /\ ~said.closed /\ said.done = {} /\ said.sent = <<>> /\ said.signature = signature1
  BY <1>4 DEF Untold
<1>7. \A part : SentOf(said, part) = 0
  BY <1>6 DEF SentOf
<1> QED
  BY <1>2, <1>5, <1>6, <1>7

LEMMA ToldDelta ==
    ASSUME ItemsInv, NEW index \in TrueItems, NEW event \in Deltas(index), Tell(event)
    PROVE  /\ OnlyTold(index) /\ truth' = truth
           /\ told'[index].seen
           /\ told'[index].closed = told[index].closed
           /\ told'[index].done = told[index].done
           /\ told'[index].signature = told[index].signature
           /\ SentOf(told'[index], event.part) = SentOf(told[index], event.part) + 1
           /\ \A part : part # event.part => SentOf(told'[index], part) = SentOf(told[index], part)
<1> DEFINE before == told[index]
           said == ToldBy(before, event)
           part == event.part
           n == SentOf(before, part)
           call1 == before.call \/ event.call # NoCall
           sent1 == [p \in DOMAIN before.sent \cup {part} |-> IF p = part THEN n + 1 ELSE before.sent[p]]
<1>1. event.type = "delta" /\ event.index = index /\ "index" \in DOMAIN event
  BY DEF Deltas
<1>2. told'[index] = said /\ OnlyTold(index) /\ truth' = truth
  BY <1>1, ToldOfOne
<1>3. said = [before EXCEPT !.seen = TRUE, !.call = call1, !.sent = sent1]
  BY <1>1 DEF ToldBy, Sent, SentOf
<1>4. n = SentOf(before, part)
  OBVIOUS
<1>6. /\ said.seen /\ said.closed = before.closed /\ said.done = before.done
      /\ said.signature = before.signature /\ said.sent = sent1
  <2> HIDE DEF said, before, call1, sent1
  <2> QED
    BY <1>3
<1> HIDE DEF said, before, part, n
<1>7. SentOf(said, part) = n + 1
  BY <1>6 DEF SentOf
<1>8. ASSUME NEW p, p # part PROVE SentOf(said, p) = SentOf(before, p)
  BY <1>6, <1>8 DEF SentOf
<1> QED
  BY <1>2, <1>4, <1>6, <1>7, <1>8 DEF before, part

LEMMA ToldDone ==
    ASSUME ItemsInv, NEW index \in TrueItems, NEW event \in Dones(index), Tell(event)
    PROVE  /\ OnlyTold(index) /\ truth' = truth
           /\ told'[index].seen
           /\ told'[index].closed = told[index].closed
           /\ told'[index].done = told[index].done \cup {event.part}
           /\ told'[index].signature = told[index].signature
           /\ \A part : SentOf(told'[index], part) = SentOf(told[index], part)
<1> DEFINE before == told[index]
           said == ToldBy(before, event)
           call1 == before.call \/ event.call # NoCall
           done1 == before.done \cup {event.part}
           whole1 == IF event.text = <<>> THEN before.whole ELSE before.whole \cup {event.part}
<1>1. event.type = "done" /\ event.index = index /\ "index" \in DOMAIN event
  BY DEF Dones
<1>2. told'[index] = said /\ OnlyTold(index) /\ truth' = truth
  BY <1>1, ToldOfOne
<1>3. said = [before EXCEPT !.seen = TRUE, !.call = call1, !.done = done1, !.whole = whole1]
  BY <1>1 DEF ToldBy
<1>4. /\ said.seen /\ said.closed = before.closed /\ said.done = done1
      /\ said.signature = before.signature /\ said.sent = before.sent
  <2> HIDE DEF said, before, call1, done1, whole1
  <2> QED
    BY <1>3
<1> HIDE DEF said, before
<1>5. \A part : SentOf(said, part) = SentOf(before, part)
  BY <1>4 DEF SentOf
<1> QED
  BY <1>2, <1>4, <1>5 DEF before

LEMMA ToldItemDone ==
    ASSUME ItemsInv, NEW index \in TrueItems, NEW event \in ItemDones(index), Tell(event)
    PROVE  /\ OnlyTold(index) /\ truth' = truth
           /\ told'[index].seen
           /\ told'[index].closed
<1> DEFINE before == told[index]
           said == ToldBy(before, event)
           call1 == before.call \/ event.item.call # NoCall
           signature1 == before.signature \/ event.item.signature # NoSignature
           whole1 == IF event.item.data = TrueItem(index).data THEN DOMAIN TrueParts(index) ELSE before.whole
<1>1. event.type = "response.output_item.done" /\ event.index = index /\ "index" \in DOMAIN event
  BY DEF ItemDones
<1>2. told'[index] = said /\ OnlyTold(index) /\ truth' = truth
  BY <1>1, ToldOfOne
<1>3. said = [before EXCEPT !.seen = TRUE, !.closed = TRUE, !.call = call1, !.signature = signature1,
                            !.whole = whole1]
  BY <1>1 DEF ToldBy
<1>4. said.seen /\ said.closed
  <2> HIDE DEF said, before, call1, signature1, whole1
  <2> QED
    BY <1>3
<1> QED
  BY <1>2, <1>4

-----------------------------------------------------------------------------
(* The order of the items *)

\* The arguments of a call can be passed on.
ValidCall(index) ==
    TrueItem(index).type = "function_call" => ValidArguments(TrueParts(index)[1])

\* The items below k were told to the end, and those above it not at all.
InTurn(k, ts) ==
    /\ k \in 0 .. Len(truth.output)
    /\ \A index \in TrueItems :
          /\ ts[index].closed <=> index < k
          /\ index < k => ts[index].seen /\ ValidCall(index)
          /\ index > k => ~ts[index].seen

\* The flags of the converter say what was told, and what was read.
Flagged(ts, tool, saw, bs) ==
    /\ tool <=> \E index \in TrueItems : ts[index].seen /\ IsTool(index)
    /\ saw => \E index \in TrueItems : ts[index].seen
    /\ ~saw => bs = <<>>

LEMMA TurnOfOpen ==
    ASSUME NEW k, NEW ts, InTurn(k, ts), NEW index \in TrueItems, ts[index].seen, ~ts[index].closed
    PROVE  index = k
BY DEF InTurn, TrueItems

LEMMA TurnOfNew ==
    ASSUME NEW k, NEW ts, InTurn(k, ts), NEW index \in TrueItems, ~ts[index].seen,
           \A lower \in TrueItems : lower < index => ts[lower].closed
    PROVE  index = k
<1>1. index \in Nat /\ k \in Nat /\ index < Len(truth.output)
  BY DEF InTurn, TrueItems
<1>2. ~(index < k)
  BY DEF InTurn
<1>3. CASE index > k
  <2>1. k \in TrueItems
    BY <1>1, <1>3 DEF TrueItems
  <2>2. ts[k].closed
    BY <1>3, <2>1
  <2> QED
    BY <1>1, <2>1, <2>2 DEF InTurn
<1> QED
  BY <1>1, <1>2, <1>3

LEMMA TurnStays ==
    ASSUME NEW k, NEW ts, InTurn(k, ts), NEW us, k \in TrueItems,
           \A other \in TrueItems \ {k} : us[other] = ts[other], us[k].seen, ~us[k].closed
    PROVE  InTurn(k, us)
<1>1. k \in Nat
  BY DEF InTurn
<1>2. ASSUME NEW index \in TrueItems
      PROVE  /\ us[index].closed <=> index < k
             /\ index < k => us[index].seen /\ ValidCall(index)
             /\ index > k => ~us[index].seen
  <2>1. CASE index = k
    BY <1>1, <2>1
  <2>2. CASE index # k
    <3>1. us[index] = ts[index]
      BY <2>2
    <3> QED
      BY <3>1 DEF InTurn
  <2> QED
    BY <2>1, <2>2
<1> QED
  BY <1>2 DEF InTurn

LEMMA TurnEnds ==
    ASSUME NEW k, NEW ts, InTurn(k, ts), NEW us, k \in TrueItems, ValidCall(k),
           \A other \in TrueItems \ {k} : us[other] = ts[other], us[k].seen, us[k].closed
    PROVE  /\ InTurn(k + 1, us)
           /\ k + 1 \in TrueItems => ~us[k + 1].seen
<1>1. k \in Nat /\ k + 1 \in 0 .. Len(truth.output)
  BY DEF InTurn, TrueItems
<1>2. ASSUME NEW index \in TrueItems
      PROVE  /\ us[index].closed <=> index < k + 1
             /\ index < k + 1 => us[index].seen /\ ValidCall(index)
             /\ index > k => index # k /\ ~us[index].seen
  <2>1. index \in Nat
    BY DEF TrueItems
  <2>2. CASE index = k
    BY <1>1, <2>2
  <2>3. CASE index # k
    <3>1. us[index] = ts[index]
      BY <2>3
    <3>2. index < k + 1 <=> index < k
      BY <1>1, <2>1, <2>3
    <3> QED
      BY <3>1, <3>2 DEF InTurn
  <2> QED
    BY <2>2, <2>3
<1>3. \A index \in TrueItems : index > k + 1 => index > k
  BY <1>1 DEF TrueItems
<1>4. k + 1 > k
  BY <1>1
<1> QED
  BY <1>1, <1>2, <1>3, <1>4 DEF InTurn

LEMMA FlagsStay ==
    ASSUME NEW k \in TrueItems, NEW ts, NEW us, \A other \in TrueItems \ {k} : us[other] = ts[other],
           us[k].seen, NEW tool, NEW saw, NEW bs, Flagged(ts, tool, saw, bs),
           NEW tool1, tool1 <=> tool \/ IsTool(k), NEW saw1, NEW bs1, ~saw1 => bs1 = <<>>
    PROVE  Flagged(us, tool1, saw1, bs1)
<1>1. \E index \in TrueItems : us[index].seen
  OBVIOUS
<1>2. ASSUME tool1 PROVE \E index \in TrueItems : us[index].seen /\ IsTool(index)
  <2>1. CASE IsTool(k)
    BY <2>1
  <2>2. CASE ~IsTool(k)
    <3>1. PICK index \in TrueItems : ts[index].seen /\ IsTool(index)
      BY <1>2, <2>2 DEF Flagged
    <3>2. us[index] = ts[index]
      BY <2>2, <3>1
    <3> QED
      BY <3>1, <3>2
  <2> QED
    BY <2>1, <2>2
<1>3. ASSUME NEW index \in TrueItems, us[index].seen, IsTool(index) PROVE tool1
  <2>1. CASE index = k
    BY <1>3, <2>1
  <2>2. CASE index # k
    BY <1>3, <2>2 DEF Flagged
  <2> QED
    BY <2>1, <2>2
<1> QED
  BY <1>1, <1>2, <1>3 DEF Flagged

-----------------------------------------------------------------------------
(* An item told in the usual order *)

\* Of an item d parts were ended, and nothing was sent of any part but the next one.
Progress(index, said, d) ==
    /\ d \in 0 .. Len(TrueParts(index))
    /\ said.done = 1 .. d
    /\ \A part \in d + 2 .. Len(TrueParts(index)) : SentOf(said, part) = 0

SpokenOf(index, said, d) == SpokenTo(TrueParts(index), d, SentOf(said, d + 1))

\* The order of the parts is the usual one.
PartInOrder(event) ==
    /\ 1 .. event.part - 1 \subseteq told[event.index].done
    /\ event.type = "done" =>
          \/ SentWhole(event.index, event.part)
          \/ event.part = 1 /\ TellsPart(event.index, 1, event.text)

LEMMA SentSame ==
    ASSUME NEW index, NEW part
    PROVE  Sent(index, part) = SentOf(told[index], part)
BY DEF Sent, SentOf

LEMMA SentBeyond ==
    ASSUME truth \in TrueResponses, NEW index \in TrueItems, NEW said, Truthful(index, said),
           NEW part, part \notin 1 .. Len(TrueParts(index))
    PROVE  SentOf(said, part) = 0
<1>1. part \notin DOMAIN said.sent
  BY DEF Truthful
<1> QED
  BY <1>1 DEF SentOf

LEMMA SentReached ==
    ASSUME truth \in TrueResponses, NEW index \in TrueItems, NEW said, Truthful(index, said),
           NEW d, Progress(index, said, d)
    PROVE  /\ Reached(TrueParts(index), d, SentOf(said, d + 1))
           /\ SpokenOf(index, said, d) \in Stream!Strings
           /\ \A part : part \notin 1 .. d + 1 => SentOf(said, part) = 0
<1> DEFINE parts == TrueParts(index)
<1>1. /\ parts \in Seq(Stream!Strings) /\ Len(parts) \in Nat
      /\ \A part \in 1 .. Len(parts) : parts[part] \in Seq(Fragments)
  BY TruePartsType, TruePart
<1>2. d \in 0 .. Len(parts)
  BY DEF Progress
<1>5. Reached(parts, d, SentOf(said, d + 1))
  <2>1. CASE d < Len(parts)
    <3>1. d + 1 \in 1 .. Len(parts)
      BY <1>1, <1>2, <2>1
    <3>2. SentOf(said, d + 1) \in 0 .. Len(parts[d + 1])
      BY <1>1, <3>1, SentIsNat
    <3>3. Len(parts[d + 1]) \in Nat
      BY <1>1, <3>1
    <3> QED
      BY <1>2, <3>2, <3>3 DEF Reached
  <2>2. CASE ~(d < Len(parts))
    <3>1. d + 1 \notin 1 .. Len(parts)
      BY <1>1, <1>2, <2>2
    <3>2. SentOf(said, d + 1) = 0
      BY <3>1, SentBeyond
    <3> QED
      BY <1>2, <2>2, <3>2 DEF Reached
  <2> QED
    BY <2>1, <2>2
<1>6. SpokenOf(index, said, d) \in Stream!Strings
  BY <1>1, <1>5, SpokenType DEF SpokenOf
<1>7. ASSUME NEW part, part \notin 1 .. d + 1 PROVE SentOf(said, part) = 0
  <2>1. CASE part \in 1 .. Len(parts)
    <3>1. part \in d + 2 .. Len(parts)
      BY <1>1, <1>2, <1>7, <2>1
    <3> QED
      BY <3>1 DEF Progress
  <2>2. CASE part \notin 1 .. Len(parts)
    BY <2>2, SentBeyond
  <2> QED
    BY <2>1, <2>2
<1> QED
  BY <1>5, <1>6, <1>7

\* A part that is told in its turn is the next one.
LEMMA NextPart ==
    ASSUME truth \in TrueResponses, NEW index \in TrueItems, NEW d, Progress(index, told[index], d),
           NEW event, event.index = index, event.part \in OpenParts(index), PartInOrder(event)
    PROVE  event.part = d + 1 /\ d \in 0 .. Len(TrueParts(index)) - 1
<1> DEFINE parts == TrueParts(index)
           part == event.part
<1>1. Len(parts) \in Nat /\ DOMAIN parts = 1 .. Len(parts)
  BY TruePart
<1>2. part \in 1 .. Len(parts) /\ part \notin 1 .. d /\ d \in 0 .. Len(parts)
  BY <1>1 DEF OpenParts, Progress
<1>3. 1 .. part - 1 \subseteq 1 .. d
  BY DEF PartInOrder, Progress
<1> HIDE DEF part, parts
<1>4. part = d + 1
  <2>1. part > d
    BY <1>1, <1>2
  <2>2. CASE part - 1 >= 1
    <3>1. part - 1 \in 1 .. part - 1
      BY <1>1, <1>2, <2>2
    <3> QED
      BY <1>1, <1>2, <1>3, <2>1, <3>1
  <2> QED
    BY <1>1, <1>2, <2>1, <2>2
<1> QED
  BY <1>1, <1>2, <1>4 DEF part, parts

\* A delta tells the next fragment of the next part.
LEMMA DeltaProgress ==
    ASSUME ItemsInv, NEW index \in TrueItems, NEW d, Progress(index, told[index], d),
           NEW event \in Deltas(index), PartInOrder(event), Tell(event)
    PROVE  /\ event.part = d + 1
           /\ d \in 0 .. Len(TrueParts(index)) - 1
           /\ Progress(index, told'[index], d)
           /\ SentOf(told[index], d + 1) \in 0 .. Len(TrueParts(index)[d + 1]) - 1
           /\ SentOf(told'[index], d + 1) = SentOf(told[index], d + 1) + 1
           /\ event.fragment = TrueParts(index)[d + 1][SentOf(told[index], d + 1) + 1]
           /\ <<event.fragment>> \in Stream!Strings
           /\ SpokenOf(index, told'[index], d) = SpokenOf(index, told[index], d) \o <<event.fragment>>
           /\ SpokenOf(index, told'[index], d) # <<>>
<1> DEFINE parts == TrueParts(index)
           n == SentOf(told[index], d + 1)
           m == SentOf(told'[index], d + 1)
<1>1. /\ event.index = index
      /\ event.part \in OpenParts(index)
      /\ Sent(index, event.part) < Len(parts[event.part])
      /\ event.fragment = parts[event.part][Sent(index, event.part) + 1]
  BY DEF Deltas
<1>2. truth \in TrueResponses /\ Truthful(index, told[index])
  BY DEF ItemsInv, ItemInv
<1>3. event.part = d + 1 /\ d \in 0 .. Len(parts) - 1
  BY <1>1, <1>2, NextPart
<1>4. /\ told'[index].done = told[index].done
      /\ m = n + 1
      /\ \A part : part # d + 1 => SentOf(told'[index], part) = SentOf(told[index], part)
  BY <1>3, ToldDelta
<1>5. Sent(index, event.part) = n
  BY <1>3, SentSame
<1>6. /\ parts \in Seq(Stream!Strings) /\ Len(parts) \in Nat
      /\ \A part \in 1 .. Len(parts) : parts[part] \in Seq(Fragments)
  BY <1>2, TruePartsType, TruePart
<1>7. Reached(parts, d, n)
  BY <1>2, SentReached
<1>8. n \in Nat /\ n < Len(parts[d + 1]) /\ event.fragment = parts[d + 1][n + 1]
  BY <1>1, <1>3, <1>5, <1>7 DEF Reached
<1>9. Len(parts[d + 1]) \in Nat
  <2>1. d + 1 \in 1 .. Len(parts)
    BY <1>3, <1>6
  <2> QED
    BY <1>6, <2>1
<1>10. Progress(index, told'[index], d)
  <2>1. \A part \in d + 2 .. Len(parts) : part # d + 1
    BY <1>3, <1>6
  <2> QED
    BY <1>4, <2>1 DEF Progress
<1> HIDE DEF n, m, parts
<1>11. /\ SpokenTo(parts, d, n + 1) = SpokenTo(parts, d, n) \o <<parts[d + 1][n + 1]>>
       /\ <<parts[d + 1][n + 1]>> \in Stream!Strings
  BY <1>3, <1>6, <1>8, SpokenOneMore
<1>12. SpokenTo(parts, d, n + 1) # <<>>
  <2>1. n + 1 \in Nat /\ 0 < n + 1 /\ n + 1 <= Len(parts[d + 1])
    BY <1>8, <1>9
  <2> QED
    BY <1>3, <1>6, <2>1, SpokenSomething
<1>13. /\ SpokenOf(index, told'[index], d) = SpokenTo(parts, d, n + 1)
       /\ SpokenOf(index, told[index], d) = SpokenTo(parts, d, n)
  BY <1>4 DEF SpokenOf, n, m, parts
<1>14. n \in 0 .. Len(parts[d + 1]) - 1
  BY <1>8, <1>9
<1>15. d \in 0 .. Len(parts) - 1
  BY <1>3 DEF parts
<1> QED
  BY <1>3, <1>4, <1>8, <1>10, <1>11, <1>12, <1>13, <1>14, <1>15 DEF n, m, parts

\* The end of the next part, told by its deltas or all at once.
LEMMA DoneProgress ==
    ASSUME ItemsInv, NEW index \in TrueItems, NEW d, Progress(index, told[index], d),
           NEW event \in Dones(index), PartInOrder(event), Tell(event)
    PROVE  /\ event.part = d + 1
           /\ d \in 0 .. Len(TrueParts(index)) - 1
           /\ Progress(index, told'[index], d + 1)
           /\ SentOf(told'[index], d + 2) = 0
           /\ event.text \in {<<>>, TrueParts(index)[d + 1]}
           /\ event.text \in Stream!Strings
           /\ \/ /\ SentOf(told[index], d + 1) = Len(TrueParts(index)[d + 1])
                 /\ SpokenOf(index, told'[index], d + 1) = SpokenOf(index, told[index], d)
              \/ /\ d = 0
                 /\ SentOf(told[index], 1) = 0
                 /\ event.text = TrueParts(index)[1]
                 /\ SpokenOf(index, told[index], d) = <<>>
                 /\ SpokenOf(index, told'[index], d + 1) = event.text
<1> DEFINE parts == TrueParts(index)
           n == SentOf(told[index], d + 1)
<1>1. /\ event.index = index /\ event.type = "done"
      /\ event.part \in OpenParts(index)
      /\ event.text \in {<<>>, parts[event.part]}
  BY DEF Dones
<1>2. truth \in TrueResponses /\ Truthful(index, told[index])
  BY DEF ItemsInv, ItemInv
<1>3. event.part = d + 1 /\ d \in 0 .. Len(parts) - 1
  BY <1>1, <1>2, NextPart
<1>4. /\ told'[index].done = told[index].done \cup {d + 1}
      /\ \A part : SentOf(told'[index], part) = SentOf(told[index], part)
  BY <1>3, ToldDone
<1>5. /\ parts \in Seq(Stream!Strings) /\ Len(parts) \in Nat
  BY <1>2, TruePartsType
<1>6. \A part : part \notin 1 .. d + 1 => SentOf(told[index], part) = 0
  BY <1>2, SentReached
<1>7. SentOf(told'[index], d + 2) = 0
  <2>1. d + 2 \notin 1 .. d + 1
    BY <1>3, <1>5
  <2> QED
    BY <1>4, <1>6, <2>1
<1>8. Progress(index, told'[index], d + 1)
  <2>1. told'[index].done = 1 .. d + 1
    <3>1. told[index].done = 1 .. d
      BY DEF Progress
    <3> QED
      BY <1>3, <1>4, <1>5, <3>1
  <2>2. d + 1 \in 0 .. Len(parts)
    BY <1>3, <1>5
  <2>3. \A part \in (d + 1) + 2 .. Len(parts) : SentOf(told'[index], part) = 0
    <3>1. \A part \in (d + 1) + 2 .. Len(parts) : part \notin 1 .. d + 1
      BY <1>3, <1>5
    <3> QED
      BY <1>4, <1>6, <3>1
  <2> QED
    BY <2>1, <2>2, <2>3 DEF Progress
<1>9. event.text \in Stream!Strings
  <2>1. parts[d + 1] \in Stream!Strings /\ <<>> \in Stream!Strings
    BY <1>3, <1>5, OneMorePart, StringTypes
  <2> QED
    BY <1>1, <1>3, <2>1
<1> HIDE DEF parts, n
<1>10. /\ SpokenTo(parts, d + 1, 0) = SpokenTo(parts, d, Len(parts[d + 1]))
  BY <1>3, <1>5, SpokenPart
<1>11. /\ SpokenOf(index, told[index], d) = SpokenTo(parts, d, n)
       /\ SpokenOf(index, told'[index], d + 1) = SpokenTo(parts, d + 1, 0)
  <2>1. (d + 1) + 1 = d + 2
    BY <1>3, <1>5
  <2> QED
    BY <1>7, <2>1 DEF SpokenOf, n, parts
<1>12. CASE n = Len(parts[d + 1])
  BY <1>1, <1>3, <1>7, <1>8, <1>9, <1>10, <1>11, <1>12 DEF n, parts
<1>13. CASE n # Len(parts[d + 1])
  <2>1. Sent(index, d + 1) = n
    BY SentSame DEF n
  <2>2. ~SentWhole(index, d + 1)
    BY <1>13, <2>1 DEF SentWhole, parts
  <2>3. d + 1 = 1 /\ TellsPart(index, 1, event.text)
    BY <1>1, <1>3, <2>2 DEF PartInOrder
  <2>4. d = 0
    BY <1>3, <1>5, <2>3
  <2>5. n = 0 /\ event.text = parts[1]
    BY <2>1, <2>2, <2>3 DEF TellsPart, parts
  <2>6. SpokenTo(parts, 0, 0) = <<>>
    <3>1. 0 \in 0 .. Len(parts)
      BY <1>5
    <3> QED
      BY <1>5, <3>1, NothingSpoken, NoParts
  <2>7. SpokenTo(parts, 1, 0) = parts[1]
    <3>1. /\ FirstParts(parts, 1) = FirstParts(parts, 0) \o parts[1]
          /\ parts[1] \in Stream!Strings
      <4>1. /\ FirstParts(parts, 0 + 1) = FirstParts(parts, 0) \o parts[0 + 1]
            /\ parts[0 + 1] \in Stream!Strings
        BY <1>3, <1>5, <2>4, OneMorePart
      <4> QED
        BY <4>1
    <3>2. FirstParts(parts, 0) = <<>>
      BY <1>5, NoParts
    <3>3. 1 \in 0 .. Len(parts)
      BY <1>3, <1>5, <2>4
    <3>4. SpokenTo(parts, 1, 0) = FirstParts(parts, 1)
      BY <1>5, <3>3, NothingSpoken
    <3>5. <<>> \o parts[1] = parts[1]
      BY <3>1, NothingAfter
    <3> QED
      BY <3>1, <3>2, <3>4, <3>5
  <2>8. SpokenTo(parts, d, n) = <<>> /\ SpokenTo(parts, d + 1, 0) = event.text
    BY <2>4, <2>5, <2>6, <2>7
  <2> QED
    BY <1>1, <1>3, <1>7, <1>8, <1>9, <1>11, <2>4, <2>5, <2>8 DEF n, parts
<1> QED
  BY <1>12, <1>13

\* When an item ends in the usual order, everything has been said of it.
LEMMA EndProgress ==
    ASSUME ItemsInv, NEW index \in TrueItems, NEW d, Progress(index, told[index], d),
           \/ DOMAIN TrueParts(index) \subseteq told[index].done
           \/ \A part \in DOMAIN TrueParts(index) : SentWhole(index, part)
    PROVE  /\ SpokenOf(index, told[index], d) = FlattenSeq(TrueParts(index))
           /\ d < Len(TrueParts(index)) => SentOf(told[index], d + 1) = Len(TrueParts(index)[d + 1])
<1> DEFINE parts == TrueParts(index)
           n == SentOf(told[index], d + 1)
<1>1. truth \in TrueResponses /\ Truthful(index, told[index])
  BY DEF ItemsInv, ItemInv
<1>2. /\ parts \in Seq(Stream!Strings) /\ Len(parts) \in Nat /\ DOMAIN parts = 1 .. Len(parts)
      /\ \A part \in 1 .. Len(parts) : parts[part] \in Seq(Fragments)
  BY <1>1, TruePartsType, TruePart
<1>3. Reached(parts, d, n) /\ \A part : part \notin 1 .. d + 1 => SentOf(told[index], part) = 0
  BY <1>1, SentReached
<1>4. d \in 0 .. Len(parts) /\ told[index].done = 1 .. d
  BY DEF Progress
<1>5. CASE d < Len(parts)
  <2>1. d + 1 \in DOMAIN parts /\ d + 1 \notin 1 .. d
    BY <1>2, <1>4, <1>5
  <2>2. ASSUME NEW part \in 1 .. Len(parts) PROVE SentOf(told[index], part) = Len(parts[part])
    <3>1. SentWhole(index, part)
      BY <1>2, <1>4, <2>1
    <3> QED
      BY <3>1, SentSame DEF SentWhole
  <2>3. n = Len(parts[d + 1])
    BY <1>2, <2>1, <2>2
  <2>4. ASSUME NEW q \in d + 2 .. Len(parts) PROVE parts[q] = <<>>
    <3>1. q \in 1 .. Len(parts) /\ q \notin 1 .. d + 1
      BY <1>2, <1>4
    <3>2. Len(parts[q]) = 0 /\ parts[q] \in Seq(Fragments)
      BY <1>2, <1>3, <2>2, <3>1
    <3> QED
      BY <3>2, EmptySeq
  <2> HIDE DEF n, parts
  <2>5. SpokenTo(parts, d, n) = FlattenSeq(parts)
    BY <1>2, <1>3, <2>3, <2>4, SpokenItem
  <2> QED
    BY <2>3, <2>5 DEF SpokenOf, n, parts
<1>6. CASE ~(d < Len(parts))
  <2> HIDE DEF n, parts
  <2>1. SpokenTo(parts, d, n) = FlattenSeq(parts)
    BY <1>2, <1>3, <1>6, SpokenItem
  <2> QED
    BY <1>6, <2>1 DEF SpokenOf, n, parts
<1> QED
  BY <1>5, <1>6

-----------------------------------------------------------------------------
(* What the converter sends is read *)

\* The blocks that were read, the open one among them.
ReadSoFar(s, next, block, bs) ==
    /\ Reads(s, bs)
    /\ Len(bs) = IF block = Stream!NoBlock THEN next ELSE next + 1

\* The last block that was read, and those before it.
LastRead(bs, cs, kind, data) ==
    /\ cs \in Seq(ReadBlocks)
    /\ data \in Stream!Strings
    /\ bs = cs \o <<ContentBlock(kind, data, NoSignature)>>

LEMMA LastReadLength ==
    ASSUME NEW bs, NEW cs, NEW kind \in {"text", "thinking", "tool_use"}, NEW data,
           LastRead(bs, cs, kind, data)
    PROVE  /\ bs \in Seq(ReadBlocks)
           /\ Len(cs) \in Nat
           /\ Len(bs) = Len(cs) + 1
           /\ ContentBlock(kind, data, NoSignature) \in ReadBlocks
<1> DEFINE b == ContentBlock(kind, data, NoSignature)
<1>1. NoSignature \in SignatureValues
  BY DEF SignatureValues
<1>2. data \in Stream!Strings
  BY DEF LastRead
<1>3. b \in ReadBlocks
  BY <1>1, <1>2, BlockFields
<1> HIDE DEF b
<1>4. cs \in Seq(ReadBlocks)
  BY DEF LastRead
<1>5. Len(cs) \in Nat /\ cs \o <<b>> \in Seq(ReadBlocks) /\ Len(cs \o <<b>>) = Len(cs) + 1
  BY <1>3, <1>4, OneMore
<1> QED
  BY <1>3, <1>5 DEF b, LastRead

\* What opens a block, with all that was said in it.
FirstDeltas(kind, data) ==
    IF data = <<>> THEN <<>> ELSE <<Stream!BlockDelta(nextBlockIndex, Stream!DataDelta(kind), data)>>

LEMMA OpenRead ==
    ASSUME StreamShape, active = Stream!NoBlock, NEW bs, ReadSoFar(emitted, nextBlockIndex, active, bs),
           NEW kind \in {"text", "thinking", "tool_use"}, NEW data \in Stream!Strings,
           NEW index \in OutputIndexes, NEW custom \in BOOLEAN, NEW signature \in SignatureValues,
           Stream!OpenBlock(index, kind, custom, signature, FirstDeltas(kind, data))
    PROVE  /\ ReadSoFar(emitted', nextBlockIndex', active', bs \o <<ContentBlock(kind, data, NoSignature)>>)
           /\ LastRead(bs \o <<ContentBlock(kind, data, NoSignature)>>, bs, kind, data)
           /\ sawContent'
           /\ active' # Stream!NoBlock
           /\ active'.outputIndex = index
           /\ active'.kind = kind
           /\ active'.custom = custom
           /\ active'.signature = signature
           /\ active'.hadDelta <=> data # <<>>
<1> DEFINE n == nextBlockIndex
           had == FirstDeltas(kind, data) # <<>>
           block == Stream!Block(n, index, kind, custom, signature)
           s == emitted \o Stream!StartMessage
           e == Stream!BlockStart(n, kind)
           t == s \o <<e>>
           bs1 == bs \o <<ContentBlock(kind, data, NoSignature)>>
<1>1. /\ n \in Nat /\ Stream!IndexAfterClose = n
  BY ActiveType
<1>2. Reads(emitted, bs) /\ Len(bs) = n /\ bs \in Seq(ReadBlocks)
  BY DEF ReadSoFar, Reads
<1>3. had <=> data # <<>>
  BY DEF FirstDeltas
<1>4. /\ active' = [block EXCEPT !.hadDelta = had]
      /\ emitted' = ((s \o Stream!CloseActive) \o <<Stream!BlockStart(block.index, kind)>>) \o FirstDeltas(kind, data)
      /\ sawContent' = TRUE
      /\ nextBlockIndex' = n
  BY <1>1 DEF Stream!OpenBlock
<1>5. block.index = n
  BY DEF Stream!Block
<1>6. Reads(s, bs)
  BY <1>2, ReadMessageStart
<1>7. s \o Stream!CloseActive = s
  <2>1. Stream!CloseActive = <<>>
    BY DEF Stream!CloseActive
  <2> QED
    BY <1>6, <2>1 DEF Reads
<1>8. emitted' = t \o FirstDeltas(kind, data)
  BY <1>4, <1>5, <1>7
<1>9. Reads(t, bs \o <<NewlyRead(kind)>>)
  <2> HIDE DEF s
  <2>1. Reads(s \o <<Stream!BlockStart(Len(bs), kind)>>, bs \o <<NewlyRead(kind)>>)
    BY <1>6, ReadStart
  <2> QED
    BY <1>2, <2>1
<1>10. Reads(emitted', bs1)
  <2> HIDE DEF t
  <2>1. CASE data = <<>>
    <3>1. t \o <<>> = t
      BY <1>9 DEF Reads
    <3> QED
      BY <1>8, <1>9, <2>1, <3>1 DEF FirstDeltas, NewlyRead
  <2>2. CASE data # <<>>
    <3>1. Reads(t, bs \o <<ContentBlock(kind, <<>>, NoSignature)>>)
      BY <1>9 DEF NewlyRead
    <3>2. <<>> \in Stream!Strings
      BY StringTypes
    <3>3. Reads(t \o <<Stream!BlockDelta(Len(bs), Stream!DataDelta(kind), data)>>,
                bs \o <<ContentBlock(kind, <<>> \o data, NoSignature)>>)
      BY <1>2, <3>1, <3>2, ReadData
    <3>4. <<>> \o data = data
      BY NothingAfter
    <3> QED
      BY <1>2, <1>8, <2>2, <3>3, <3>4 DEF FirstDeltas
  <2> QED
    BY <2>1, <2>2
<1>11. LastRead(bs1, bs, kind, data)
  BY <1>2 DEF LastRead
<1> HIDE DEF had, bs1
<1>12. /\ active'.outputIndex = index /\ active'.kind = kind /\ active'.custom = custom
       /\ active'.signature = signature /\ active'.hadDelta = had
  BY <1>4 DEF Stream!Block
<1>13. active' # Stream!NoBlock
  BY <1>12 DEF Stream!NoBlock
<1>14. Len(bs1) = n + 1
  BY <1>2, <1>11, LastReadLength
<1> QED
  BY <1>3, <1>4, <1>10, <1>11, <1>12, <1>13, <1>14 DEF ReadSoFar, bs1

LEMMA OpenIndex ==
    ASSUME StreamShape, active # Stream!NoBlock
    PROVE  /\ active.index = nextBlockIndex
           /\ nextBlockIndex \in Nat
           /\ active \in OpenBlocks
           /\ active.kind \in {"text", "thinking", "tool_use"}
           /\ active.signature \in SignatureValues
           /\ sawContent
BY ActiveType

\* A delta for the open block.
LEMMA DeltaRead ==
    ASSUME StreamShape, active # Stream!NoBlock, NEW bs, ReadSoFar(emitted, nextBlockIndex, active, bs),
           NEW cs, NEW before, LastRead(bs, cs, active.kind, before), NEW data \in Stream!Strings,
           Stream!SendDelta(Stream!DataDelta(active.kind), data)
    PROVE  /\ Reads(emitted', cs \o <<ContentBlock(active.kind, before \o data, NoSignature)>>)
           /\ LastRead(cs \o <<ContentBlock(active.kind, before \o data, NoSignature)>>, cs, active.kind,
                       before \o data)
           /\ Len(cs \o <<ContentBlock(active.kind, before \o data, NoSignature)>>) = nextBlockIndex + 1
<1> DEFINE kind == active.kind
           joined == before \o data
           e == Stream!BlockDelta(nextBlockIndex, Stream!DataDelta(kind), data)
           bs1 == cs \o <<ContentBlock(kind, joined, NoSignature)>>
<1>1. active.index = nextBlockIndex /\ nextBlockIndex \in Nat /\ kind \in {"text", "thinking", "tool_use"}
  BY OpenIndex
<1>2. cs \in Seq(ReadBlocks) /\ before \in Stream!Strings
  BY DEF LastRead
<1>3. Len(cs) = nextBlockIndex
  <2>1. Len(bs) = Len(cs) + 1 /\ Len(cs) \in Nat
    BY <1>1, LastReadLength
  <2> QED
    BY <1>1, <2>1 DEF ReadSoFar
<1>4. emitted' = Append(emitted, e)
  BY <1>1 DEF Stream!SendDelta
<1>5. emitted \in Seq(StreamEvents) /\ Reads(emitted, cs \o <<ContentBlock(kind, before, NoSignature)>>)
  BY DEF ReadSoFar, Reads, LastRead
<1>6. Append(emitted, e) = emitted \o <<e>>
  BY <1>5
<1>7. Reads(emitted \o <<Stream!BlockDelta(Len(cs), Stream!DataDelta(kind), data)>>,
            cs \o <<ContentBlock(kind, before \o data, NoSignature)>>)
  <2> HIDE DEF kind
  <2> QED
    BY <1>1, <1>2, <1>5, ReadData
<1>8. Reads(emitted', bs1)
  BY <1>3, <1>4, <1>6, <1>7
<1>9. joined \in Stream!Strings
  BY <1>2, JoinedStrings
<1> HIDE DEF joined
<1>10. LastRead(bs1, cs, kind, joined)
  BY <1>2, <1>9 DEF LastRead
<1> HIDE DEF bs1, kind
<1>11. Len(bs1) = nextBlockIndex + 1
  BY <1>1, <1>3, <1>10, LastReadLength
<1> QED
  BY <1>8, <1>10, <1>11 DEF bs1, joined, kind

\* The open block is closed, after some more events.
LEMMA CloseRead ==
    ASSUME StreamShape, active # Stream!NoBlock, NEW bs, ReadSoFar(emitted, nextBlockIndex, active, bs),
           NEW cs, NEW before, LastRead(bs, cs, active.kind, before), NEW data \in Stream!Strings,
           NEW block, block.kind = active.kind, block.index = active.index, block.signature \in SignatureValues,
           NEW s, Reads(s, cs \o <<ContentBlock(active.kind, data, NoSignature)>>),
           emitted' = s \o Stream!Closing(block),
           active' = Stream!NoBlock, nextBlockIndex' = nextBlockIndex + 1
    PROVE  ReadSoFar(emitted', nextBlockIndex', active',
                     cs \o <<ContentBlock(active.kind, data, ShownSignature(active.kind, block.signature))>>)
<1> DEFINE kind == active.kind
           b == ContentBlock(kind, data, ShownSignature(kind, block.signature))
<1>1. active.index = nextBlockIndex /\ nextBlockIndex \in Nat /\ kind \in {"text", "thinking", "tool_use"}
  BY OpenIndex
<1>2. cs \in Seq(ReadBlocks)
  BY DEF LastRead
<1>3. Len(cs) = nextBlockIndex
  <2>1. Len(bs) = Len(cs) + 1 /\ Len(cs) \in Nat
    BY <1>1, LastReadLength
  <2> QED
    BY <1>1, <2>1 DEF ReadSoFar
<1> HIDE DEF kind
<1>4. block.kind = kind /\ block.index = Len(cs)
  BY <1>1, <1>3 DEF kind
<1>5. Reads(s, cs \o <<ContentBlock(kind, data, NoSignature)>>)
  BY DEF kind
<1>6. Reads(s \o Stream!Closing(block), cs \o <<b>>)
  BY <1>1, <1>2, <1>4, <1>5, ReadClosing
<1>7. b \in ReadBlocks
  <2>1. ShownSignature(kind, block.signature) \in SignatureValues
    BY DEF ShownSignature, SignatureValues
  <2> QED
    BY <1>1, <2>1, BlockFields
<1> HIDE DEF b
<1>8. Len(cs \o <<b>>) = Len(cs) + 1
  BY <1>2, <1>7, OneMore
<1> QED
  BY <1>3, <1>6, <1>8 DEF ReadSoFar, b, kind

LEMMA SendAndCloseRead ==
    ASSUME StreamShape, active # Stream!NoBlock, NEW bs, ReadSoFar(emitted, nextBlockIndex, active, bs),
           NEW cs, NEW before, LastRead(bs, cs, active.kind, before), NEW data \in Stream!Strings,
           NEW events, Reads(emitted \o events, cs \o <<ContentBlock(active.kind, data, NoSignature)>>),
           Stream!SendAndClose(events)
    PROVE  /\ ReadSoFar(emitted', nextBlockIndex', active',
                        cs \o <<ContentBlock(active.kind, data, ShownSignature(active.kind, active.signature))>>)
           /\ active' = Stream!NoBlock
           /\ hasTool' = hasTool /\ sawContent' = sawContent
           /\ streamTerminal' = streamTerminal /\ streamErr' = streamErr
<1> DEFINE s == emitted \o events
<1>1. /\ emitted' = s \o Stream!Closing(active)
      /\ active' = Stream!NoBlock /\ nextBlockIndex' = nextBlockIndex + 1
      /\ hasTool' = hasTool /\ sawContent' = sawContent
      /\ streamTerminal' = streamTerminal /\ streamErr' = streamErr
  BY DEF Stream!SendAndClose, Stream!CloseActive
<1>2. active.signature \in SignatureValues
  BY OpenIndex
<1>3. Reads(s, cs \o <<ContentBlock(active.kind, data, NoSignature)>>)
  OBVIOUS
<1> HIDE DEF s
<1> QED
  BY <1>1, <1>2, <1>3, CloseRead

-----------------------------------------------------------------------------
(* The item that is being told *)

\* The client has read what was said of a text, in a block that is open since a fragment
\* of the next part was sent.
OpenMessage(index, said, bs, block, d) ==
    /\ Gist(bs) = GistBefore(index) \o Units(SpokenOf(index, said, d))
    /\ block = Stream!NoBlock <=> SentOf(said, d + 1) = 0
    /\ block # Stream!NoBlock =>
          /\ block.kind = "text"
          /\ \E cs, data : LastRead(bs, cs, "text", data)

\* It has read what was said of a thought, in a block of its own.
OpenReasoning(index, said, bs, block, d) ==
    /\ block.kind = "thinking"
    /\ block.signature = IF said.signature THEN TrueItem(index).signature ELSE NoSignature
    /\ block.hadDelta <=> SpokenOf(index, said, d) # <<>>
    /\ \E cs : LastRead(bs, cs, "thinking", SpokenOf(index, said, d)) /\ Gist(cs) = GistBefore(index)

\* It has read what was sent of the arguments of a call, but of a custom input nothing,
\* until the input is complete.
CallSoFar(index, said, custom) ==
    IF custom THEN <<>> ELSE SubSeq(TrueParts(index)[1], 1, SentOf(said, 1))

OpenTool(index, said, bs, block, d) ==
    \/ /\ d = 0
       /\ block.kind = "tool_use"
       /\ block.hadDelta <=> ~block.custom /\ SentOf(said, 1) > 0
       /\ \E cs : LastRead(bs, cs, "tool_use", CallSoFar(index, said, block.custom)) /\ Gist(cs) = GistBefore(index)
    \/ /\ d = 1
       /\ block = Stream!NoBlock
       /\ Gist(bs) = GistBefore(index + 1)
       /\ ValidCall(index)

OpenItem(index, said, bs, block, d) ==
    /\ Progress(index, said, d)
    /\ block # Stream!NoBlock => block.outputIndex = index
    /\ TrueItem(index).type = "message" => OpenMessage(index, said, bs, block, d)
    /\ TrueItem(index).type = "reasoning" => OpenReasoning(index, said, bs, block, d)
    /\ IsTool(index) => OpenTool(index, said, bs, block, d)

\* The flags a step leaves as they are, but that there is something to read.
FlagsKept(bs) ==
    /\ hasTool' = hasTool
    /\ ~sawContent' => bs = <<>>
    /\ streamTerminal' = streamTerminal
    /\ streamErr' = streamErr

\* The item is told further, or to its end.
GoesOn(k, bs, d) ==
    /\ ReadSoFar(emitted', nextBlockIndex', active', bs)
    /\ OpenItem(k, told'[k], bs, active', d)
    /\ FlagsKept(bs)

IsOver(k, bs) ==
    /\ ReadSoFar(emitted', nextBlockIndex', active', bs)
    /\ Gist(bs) = GistBefore(k + 1)
    /\ active' = Stream!NoBlock
    /\ FlagsKept(bs)

-----------------------------------------------------------------------------
(* The steps of a message *)

LEMMA UnitsMore ==
    ASSUME NEW g \in Seq(ReadBlocks), NEW s \in Stream!Strings, NEW t \in Stream!Strings
    PROVE  (g \o Units(s)) \o Units(t) = g \o Units(s \o t)
<1>1. Units(s) \in Seq(ReadBlocks) /\ Units(t) \in Seq(ReadBlocks)
  BY UnitsType
<1>2. Cat(g, Cat(Units(s), Units(t))) = Cat(Cat(g, Units(s)), Units(t))
  BY <1>1, CatAssociative
<1>3. Units(s \o t) = Units(s) \o Units(t)
  BY UnitsConcat
<1> QED
  BY <1>2, <1>3 DEF Cat

LEMMA TextNow ==
    ASSUME ItemsInv, NEW k \in TrueItems, NEW d, Progress(k, told[k], d)
    PROVE  /\ GistBefore(k) \in Seq(ReadBlocks)
           /\ SpokenOf(k, told[k], d) \in Stream!Strings
           /\ truth \in TrueResponses
<1>1. truth \in TrueResponses /\ Truthful(k, told[k])
  BY DEF ItemsInv, ItemInv
<1> QED
  BY <1>1, SentReached, GistBeforeNext

LEMMA MessageDeltaRead ==
    ASSUME ItemsInv, StreamShape, NEW k \in TrueItems, TrueItem(k).type = "message",
           NEW bs, NEW d, ReadSoFar(emitted, nextBlockIndex, active, bs), OpenItem(k, told[k], bs, active, d),
           NEW event \in Deltas(k), PartInOrder(event), Tell(event), Stream!TextDelta(k, event.fragment)
    PROVE  \E bs1 : GoesOn(k, bs1, d)
<1> DEFINE f == <<event.fragment>>
           g == GistBefore(k)
           spoken == SpokenOf(k, told[k], d)
           spoken1 == SpokenOf(k, told'[k], d)
<1>1. Progress(k, told[k], d) /\ OpenMessage(k, told[k], bs, active, d)
      /\ (active # Stream!NoBlock => active.outputIndex = k)
  BY DEF OpenItem
<1>2. g \in Seq(ReadBlocks) /\ spoken \in Stream!Strings
  BY <1>1, TextNow
<1>3. /\ Progress(k, told'[k], d)
      /\ SentOf(told[k], d + 1) \in Nat
      /\ SentOf(told'[k], d + 1) = SentOf(told[k], d + 1) + 1
      /\ f \in Stream!Strings
      /\ spoken1 = spoken \o f
  <2>1. /\ Progress(k, told'[k], d)
        /\ SentOf(told[k], d + 1) \in 0 .. Len(TrueParts(k)[d + 1]) - 1
        /\ SentOf(told'[k], d + 1) = SentOf(told[k], d + 1) + 1
        /\ <<event.fragment>> \in Stream!Strings
        /\ SpokenOf(k, told'[k], d) = SpokenOf(k, told[k], d) \o <<event.fragment>>
    BY <1>1, DeltaProgress
  <2>2. SentOf(told[k], d + 1) \in Nat
    BY <2>1
  <2> QED
    BY <2>1, <2>2
<1>4. SentOf(told'[k], d + 1) # 0
  BY <1>3
<1>5. k \in OutputIndexes /\ ~IsTool(k)
  BY TextNow, <1>1, TrueItemType DEF IsTool
<1> HIDE DEF f, g, spoken, spoken1
<1>6. (g \o Units(spoken)) \o Units(f) = g \o Units(spoken1)
  BY <1>2, <1>3, UnitsMore
<1>7. Gist(bs) = g \o Units(spoken)
  BY <1>1 DEF OpenMessage, g, spoken
<1>8. ASSUME NEW bs1, NEW cs, NEW data, LastRead(bs1, cs, "text", data),
             ReadSoFar(emitted', nextBlockIndex', active', bs1), Gist(bs1) = Gist(bs) \o Units(f),
             active' # Stream!NoBlock, active'.kind = "text", active'.outputIndex = k,
             hasTool' = hasTool, sawContent', streamTerminal' = streamTerminal, streamErr' = streamErr
      PROVE  GoesOn(k, bs1, d)
  <2>1. OpenMessage(k, told'[k], bs1, active', d)
    BY <1>4, <1>6, <1>7, <1>8 DEF OpenMessage, g, spoken1
  <2>2. OpenItem(k, told'[k], bs1, active', d)
    BY <1>3, <1>5, <1>8, <2>1 DEF OpenItem
  <2> QED
    BY <1>8, <2>2 DEF GoesOn, FlagsKept
<1>9. CASE active # Stream!NoBlock
  <2>1. /\ active.kind = "text" /\ active.outputIndex = k
        /\ active \in OpenBlocks /\ nextBlockIndex \in Nat
    BY <1>1, <1>9, OpenIndex DEF OpenMessage
  <2>2. PICK cs, data : LastRead(bs, cs, "text", data)
    BY <1>1, <1>9 DEF OpenMessage
  <2> DEFINE bs1 == cs \o <<ContentBlock("text", data \o f, NoSignature)>>
  <2>3. /\ Stream!SendDelta(Stream!DataDelta("text"), f)
        /\ active' = [active EXCEPT !.hadDelta = TRUE]
        /\ sawContent' = TRUE
        /\ hasTool' = hasTool /\ streamTerminal' = streamTerminal /\ streamErr' = streamErr
        /\ nextBlockIndex' = nextBlockIndex
    BY <2>1 DEF Stream!TextDelta, Stream!ContentDelta, Stream!Continues, f
  <2>4. /\ active' \in OpenBlocks /\ active'.outputIndex = k /\ active'.kind = "text"
    BY <2>1, <2>3, HadDeltaChanges
  <2>5. active' # Stream!NoBlock
    BY <2>4 DEF Stream!NoBlock
  <2>6. /\ Reads(emitted', bs1) /\ LastRead(bs1, cs, "text", data \o f)
        /\ Len(bs1) = nextBlockIndex + 1
    BY <1>3, <1>9, <2>1, <2>2, <2>3, DeltaRead
  <2>7. ReadSoFar(emitted', nextBlockIndex', active', bs1)
    BY <2>3, <2>5, <2>6 DEF ReadSoFar
  <2>8. Gist(bs1) = Gist(bs) \o Units(f)
    <3>1. cs \in Seq(ReadBlocks) /\ data \in Stream!Strings /\ bs = cs \o <<ContentBlock("text", data, NoSignature)>>
      BY <2>2 DEF LastRead
    <3> QED
      BY <1>3, <3>1, GistOfLongerText
  <2> HIDE DEF bs1
  <2>9. GoesOn(k, bs1, d)
    BY <1>8, <2>3, <2>4, <2>5, <2>6, <2>7, <2>8
  <2> QED
    BY <2>9
<1>10. CASE active = Stream!NoBlock
  <2> DEFINE bs1 == bs \o <<ContentBlock("text", f, NoSignature)>>
  <2>1. ~Stream!Continues("text", k) /\ Stream!IndexAfterClose = nextBlockIndex
    BY <1>10 DEF Stream!Continues, Stream!NoBlock, Stream!IndexAfterClose
  <2>2. f # <<>>
    BY DEF f
  <2>3. FirstDeltas("text", f) = <<Stream!BlockDelta(Stream!IndexAfterClose, Stream!DataDelta("text"), f)>>
    BY <2>1, <2>2 DEF FirstDeltas
  <2>4. /\ Stream!OpenBlock(k, "text", FALSE, NoSignature, FirstDeltas("text", f))
        /\ hasTool' = hasTool /\ streamTerminal' = streamTerminal /\ streamErr' = streamErr
    BY <2>1, <2>3 DEF Stream!TextDelta, Stream!ContentDelta, f
  <2>5. NoSignature \in SignatureValues /\ bs \in Seq(ReadBlocks)
    BY DEF SignatureValues, ReadSoFar, Reads
  <2>6. /\ ReadSoFar(emitted', nextBlockIndex', active', bs1)
        /\ LastRead(bs1, bs, "text", f)
        /\ sawContent' /\ active' # Stream!NoBlock /\ active'.outputIndex = k /\ active'.kind = "text"
    BY <1>3, <1>5, <1>10, <2>4, <2>5, OpenRead
  <2>7. Gist(bs1) = Gist(bs) \o Units(f)
    BY <1>3, <2>5, GistOfText
  <2> HIDE DEF bs1
  <2>8. GoesOn(k, bs1, d)
    BY <1>8, <2>4, <2>6, <2>7
  <2> QED
    BY <2>8
<1> QED
  BY <1>9, <1>10

\* An event that is ignored leaves everything that was read.
LEMMA IgnoredRead ==
    ASSUME NEW bs, ReadSoFar(emitted, nextBlockIndex, active, bs), UNCHANGED streamVars,
           Flagged(told, hasTool, sawContent, bs)
    PROVE  ReadSoFar(emitted', nextBlockIndex', active', bs) /\ FlagsKept(bs) /\ active' = active
BY DEF streamVars, FlagsKept, Flagged

\* A text block is closed: nothing new is read.
LEMMA TextClosed ==
    ASSUME StreamShape, active # Stream!NoBlock, active.kind = "text",
           NEW bs, ReadSoFar(emitted, nextBlockIndex, active, bs),
           NEW cs, NEW data, LastRead(bs, cs, "text", data), Stream!SendAndClose(<<>>)
    PROVE  /\ ReadSoFar(emitted', nextBlockIndex', active', bs)
           /\ active' = Stream!NoBlock
           /\ FlagsKept(bs)
<1>1. /\ data \in Stream!Strings
      /\ bs = cs \o <<ContentBlock("text", data, NoSignature)>>
      /\ emitted \in Seq(StreamEvents) /\ Reads(emitted, bs)
  BY DEF LastRead, ReadSoFar, Reads
<1>2. emitted \o <<>> = emitted
  BY <1>1
<1>3. ShownSignature("text", active.signature) = NoSignature
  BY DEF ShownSignature
<1>4. /\ ReadSoFar(emitted', nextBlockIndex', active',
                   cs \o <<ContentBlock("text", data, ShownSignature("text", active.signature))>>)
      /\ active' = Stream!NoBlock
      /\ hasTool' = hasTool /\ sawContent' = sawContent
      /\ streamTerminal' = streamTerminal /\ streamErr' = streamErr
  BY <1>1, <1>2, SendAndCloseRead
<1>5. sawContent
  BY OpenIndex
<1> QED
  BY <1>1, <1>3, <1>4, <1>5 DEF FlagsKept

LEMMA MessageDoneRead ==
    ASSUME ItemsInv, StreamShape, NEW k \in TrueItems, TrueItem(k).type = "message",
           NEW bs, NEW d, ReadSoFar(emitted, nextBlockIndex, active, bs), OpenItem(k, told[k], bs, active, d),
           Flagged(told, hasTool, sawContent, bs),
           NEW event \in Dones(k), PartInOrder(event), Tell(event),
           \/ Stream!TextDone(event.text)
           \/ /\ active.kind # "text" /\ ~(active = Stream!NoBlock /\ event.text # <<>>)
              /\ UNCHANGED streamVars
    PROVE  \E bs1 : GoesOn(k, bs1, d + 1)
<1> DEFINE text == event.text
           g == GistBefore(k)
           n == SentOf(told[k], d + 1)
           spoken == SpokenOf(k, told[k], d)
           spoken1 == SpokenOf(k, told'[k], d + 1)
<1>1. Progress(k, told[k], d) /\ OpenMessage(k, told[k], bs, active, d)
  BY DEF OpenItem
<1>2. g \in Seq(ReadBlocks) /\ spoken \in Stream!Strings /\ truth \in TrueResponses
  BY <1>1, TextNow
<1>3. /\ d \in 0 .. Len(TrueParts(k)) - 1
      /\ Progress(k, told'[k], d + 1)
      /\ SentOf(told'[k], d + 2) = 0
      /\ text \in {<<>>, TrueParts(k)[d + 1]}
      /\ text \in Stream!Strings
      /\ \/ n = Len(TrueParts(k)[d + 1]) /\ spoken1 = spoken
         \/ /\ d = 0 /\ n = 0 /\ text = TrueParts(k)[1]
            /\ spoken = <<>> /\ spoken1 = text
  <2>1. /\ d \in 0 .. Len(TrueParts(k)) - 1
        /\ Progress(k, told'[k], d + 1)
        /\ SentOf(told'[k], d + 2) = 0
        /\ event.text \in {<<>>, TrueParts(k)[d + 1]}
        /\ event.text \in Stream!Strings
        /\ \/ /\ SentOf(told[k], d + 1) = Len(TrueParts(k)[d + 1])
              /\ SpokenOf(k, told'[k], d + 1) = SpokenOf(k, told[k], d)
           \/ /\ d = 0
              /\ SentOf(told[k], 1) = 0
              /\ event.text = TrueParts(k)[1]
              /\ SpokenOf(k, told[k], d) = <<>>
              /\ SpokenOf(k, told'[k], d + 1) = event.text
    BY <1>1, DoneProgress
  <2>2. d = 0 => d + 1 = 1
    OBVIOUS
  <2> QED
    BY <2>1, <2>2
<1>4. ~IsTool(k) /\ Len(TrueParts(k)) \in Nat /\ TrueParts(k) \in Seq(Stream!Strings)
  BY <1>2, TruePartsType DEF IsTool
<1>5. Gist(bs) = g \o Units(spoken) /\ (active = Stream!NoBlock <=> n = 0)
  BY <1>1 DEF OpenMessage
<1> HIDE DEF text, g, n, spoken, spoken1
<1>6. n = 0 /\ text = <<>> => spoken1 = spoken
  BY <1>3
<1>7. n = 0 /\ text # <<>> => spoken = <<>> /\ spoken1 = text
  <2>1. ASSUME n = 0, text # <<>>, n = Len(TrueParts(k)[d + 1]) PROVE FALSE
    <3>1. TrueParts(k)[d + 1] \in Stream!Strings
      BY <1>3, <1>4, OneMorePart
    <3>2. TrueParts(k)[d + 1] = <<>>
      BY <2>1, <3>1, EmptySeq DEF Stream!Strings
    <3> QED
      BY <1>3, <2>1, <3>2
  <2> QED
    BY <1>3, <2>1
<1>8. n # 0 => spoken1 = spoken
  BY <1>3
<1>9. ASSUME NEW bs1, ReadSoFar(emitted', nextBlockIndex', active', bs1), FlagsKept(bs1),
             active' = Stream!NoBlock, Gist(bs1) = g \o Units(spoken1)
      PROVE  GoesOn(k, bs1, d + 1)
  <2>1. SentOf(told'[k], (d + 1) + 1) = 0
    <3>1. (d + 1) + 1 = d + 2
      BY <1>3, <1>4
    <3> QED
      BY <1>3, <3>1
  <2>2. OpenMessage(k, told'[k], bs1, active', d + 1)
    BY <1>9, <2>1 DEF OpenMessage, g, spoken1
  <2>3. OpenItem(k, told'[k], bs1, active', d + 1)
    BY <1>3, <1>4, <1>9, <2>2 DEF OpenItem
  <2> QED
    BY <1>9, <2>3 DEF GoesOn
<1>10. CASE active = Stream!NoBlock /\ text # <<>>
  <2> DEFINE b == ContentBlock("text", text, NoSignature)
             s == emitted \o Stream!StartMessage
             bs1 == bs \o <<b>>
  <2>1. /\ emitted' = s \o Stream!FullBlockEvents(nextBlockIndex, Stream!ContentBlock("text", text, NoSignature))
        /\ sawContent' = TRUE
        /\ nextBlockIndex' = nextBlockIndex + 1
        /\ active' = active /\ hasTool' = hasTool
        /\ streamTerminal' = streamTerminal /\ streamErr' = streamErr
    BY <1>10 DEF Stream!TextDone, Stream!NoBlock, text
  <2>2. Stream!ContentBlock("text", text, NoSignature) = b
    BY DEF Stream!ContentBlock, ContentBlock
  <2>3. Reads(emitted, bs) /\ Len(bs) = nextBlockIndex /\ bs \in Seq(ReadBlocks)
    BY <1>10 DEF ReadSoFar, Reads
  <2>4. b \in PlainBlocks /\ b \in ReadBlocks
    <3>1. NoSignature \in SignatureValues
      BY DEF SignatureValues
    <3>2. b \in ReadBlocks /\ b.kind = "text" /\ b.signature = NoSignature
      BY <1>3, <3>1, BlockFields
    <3> QED
      BY <3>2 DEF PlainBlocks
  <2>5. Gist(bs1) = Gist(bs) \o Units(text)
    BY <1>3, <2>3, GistOfText
  <2>6. Reads(s, bs)
    BY <2>3, ReadMessageStart
  <2> HIDE DEF b, s
  <2>7. Reads(s \o Stream!FullBlockEvents(Len(bs), b), bs \o <<b>>)
    BY <2>4, <2>6, ReadFullBlock
  <2>8. Len(bs1) = nextBlockIndex + 1
    BY <2>3, <2>4, OneMore
  <2>9. ReadSoFar(emitted', nextBlockIndex', active', bs1)
    BY <1>10, <2>1, <2>2, <2>3, <2>7, <2>8 DEF ReadSoFar
  <2>10. Gist(bs1) = g \o Units(spoken1)
    <3>1. spoken1 = spoken \o text
      BY <1>3, <1>5, <1>7, <1>10, NothingAfter
    <3> QED
      BY <1>2, <1>3, <1>5, <2>5, <3>1, UnitsMore
  <2> HIDE DEF bs1
  <2>11. GoesOn(k, bs1, d + 1)
    BY <1>9, <1>10, <2>1, <2>9, <2>10 DEF FlagsKept
  <2> QED
    BY <2>11
<1>11. CASE active = Stream!NoBlock /\ text = <<>>
  <2>1. UNCHANGED streamVars
    BY <1>11 DEF Stream!TextDone, Stream!NoBlock, text
  <2>2. ReadSoFar(emitted', nextBlockIndex', active', bs) /\ FlagsKept(bs) /\ active' = active
    BY <2>1, IgnoredRead
  <2>3. GoesOn(k, bs, d + 1)
    BY <1>5, <1>6, <1>9, <1>11, <2>2
  <2> QED
    BY <2>3
<1>12. CASE active # Stream!NoBlock
  <2>1. active.kind = "text" /\ \E cs, data : LastRead(bs, cs, "text", data)
    BY <1>1, <1>12 DEF OpenMessage
  <2>2. PICK cs, data : LastRead(bs, cs, "text", data)
    BY <2>1
  <2>3. Stream!SendAndClose(<<>>)
    BY <1>12, <2>1 DEF Stream!TextDone
  <2>4. ReadSoFar(emitted', nextBlockIndex', active', bs) /\ active' = Stream!NoBlock /\ FlagsKept(bs)
    BY <1>12, <2>1, <2>2, <2>3, TextClosed
  <2>5. GoesOn(k, bs, d + 1)
    BY <1>5, <1>8, <1>9, <1>12, <2>4
  <2> QED
    BY <2>5
<1> QED
  BY <1>10, <1>11, <1>12

LEMMA MessageEndRead ==
    ASSUME ItemsInv, StreamShape, NEW k \in TrueItems, TrueItem(k).type = "message",
           NEW bs, NEW d, ReadSoFar(emitted, nextBlockIndex, active, bs), OpenItem(k, told[k], bs, active, d),
           Flagged(told, hasTool, sawContent, bs),
           \/ DOMAIN TrueParts(k) \subseteq told[k].done
           \/ \A part \in DOMAIN TrueParts(k) : SentWhole(k, part),
           \/ active # Stream!NoBlock /\ Stream!SendAndClose(<<>>)
           \/ active = Stream!NoBlock /\ UNCHANGED streamVars
    PROVE  IsOver(k, bs)
<1>1. Progress(k, told[k], d) /\ OpenMessage(k, told[k], bs, active, d)
  BY DEF OpenItem
<1>2. truth \in TrueResponses
  BY <1>1, TextNow
<1>3. SpokenOf(k, told[k], d) = FlattenSeq(TrueParts(k))
  BY <1>1, EndProgress
<1>4. Gist(bs) = GistBefore(k + 1)
  BY <1>1, <1>2, <1>3, MessageRead, GistBeforeNext DEF OpenMessage
<1>5. CASE active # Stream!NoBlock
  <2>1. active.kind = "text" /\ \E cs, data : LastRead(bs, cs, "text", data)
    BY <1>1, <1>5 DEF OpenMessage
  <2>2. PICK cs, data : LastRead(bs, cs, "text", data)
    BY <2>1
  <2>3. ReadSoFar(emitted', nextBlockIndex', active', bs) /\ active' = Stream!NoBlock /\ FlagsKept(bs)
    BY <1>5, <2>1, <2>2, TextClosed
  <2> QED
    BY <1>4, <2>3 DEF IsOver
<1>6. CASE active = Stream!NoBlock
  <2>1. ReadSoFar(emitted', nextBlockIndex', active', bs) /\ FlagsKept(bs) /\ active' = active
    BY <1>6, IgnoredRead
  <2> QED
    BY <1>4, <1>6, <2>1 DEF IsOver
<1> QED
  BY <1>5, <1>6

-----------------------------------------------------------------------------
(* An item is announced *)

\* A new item, nothing of whose strings was told.
Begins(k, bs) ==
    /\ ReadSoFar(emitted', nextBlockIndex', active', bs)
    /\ OpenItem(k, told'[k], bs, active', 0)
    /\ hasTool' <=> hasTool \/ IsTool(k)
    /\ ~sawContent' => bs = <<>>
    /\ streamTerminal' = streamTerminal
    /\ streamErr' = streamErr

LEMMA NewProgress ==
    ASSUME ItemsInv, NEW k \in TrueItems, NEW event \in Announcements(k), ~told[k].seen, Tell(event)
    PROVE  /\ Progress(k, told'[k], 0)
           /\ SentOf(told'[k], 1) = 0
           /\ SentOf(told'[k], 0 + 1) = 0
           /\ SpokenOf(k, told'[k], 0) = <<>>
           /\ event.item.signature = IF told'[k].signature THEN TrueItem(k).signature ELSE NoSignature
           /\ event.item.signature \in SignatureValues
           /\ event.item.type = TrueItem(k).type
           /\ event.type = "response.output_item.added" /\ event.index = k
           /\ truth \in TrueResponses /\ k \in OutputIndexes
<1> DEFINE parts == TrueParts(k)
<1>1. /\ told'[k].done = {}
      /\ \A part : SentOf(told'[k], part) = 0
      /\ told'[k].signature <=> event.item.signature # NoSignature
  BY ToldAnnouncement
<1>2. truth \in TrueResponses
  BY DEF ItemsInv
<1>3. parts \in Seq(Stream!Strings) /\ Len(parts) \in Nat /\ TrueItem(k).signature \in SignatureValues
  BY <1>2, TruePartsType
<1>4. PICK call \in SomeCall(k), signature \in {NoSignature, TrueItem(k).signature} :
          event = [type |-> "response.output_item.added", index |-> k, item |-> Announced(k, call, signature)]
  BY DEF Announcements
<1>5. event.item.type = TrueItem(k).type /\ event.item.signature = signature
  BY <1>4 DEF Announced, BlankItem
<1>6. Progress(k, told'[k], 0)
  <2>1. 0 \in 0 .. Len(parts) /\ {} = 1 .. 0
    BY <1>3
  <2> QED
    BY <1>1, <2>1 DEF Progress
<1>7. SpokenTo(parts, 0, 0) = <<>>
  <2>1. 0 \in 0 .. Len(parts)
    BY <1>3
  <2> QED
    BY <1>3, <2>1, NothingSpoken, NoParts
<1>8. SpokenOf(k, told'[k], 0) = <<>>
  BY <1>1, <1>7 DEF SpokenOf
<1>9. signature \in SignatureValues
  BY <1>3 DEF SignatureValues
<1>10. k \in OutputIndexes
  BY <1>2, TrueItemType
<1> QED
  BY <1>1, <1>2, <1>4, <1>5, <1>6, <1>8, <1>9, <1>10

LEMMA MessageBeginRead ==
    ASSUME ItemsInv, NEW k \in TrueItems, TrueItem(k).type = "message", NEW event \in Announcements(k),
           ~told[k].seen, Tell(event), active = Stream!NoBlock,
           NEW bs, ReadSoFar(emitted, nextBlockIndex, active, bs), Gist(bs) = GistBefore(k),
           Flagged(told, hasTool, sawContent, bs), Stream!Created
    PROVE  Begins(k, bs)
<1>1. /\ Progress(k, told'[k], 0) /\ SentOf(told'[k], 0 + 1) = 0 /\ SpokenOf(k, told'[k], 0) = <<>>
      /\ truth \in TrueResponses
  BY NewProgress
<1>2. /\ emitted' = emitted \o Stream!StartMessage
      /\ active' = active /\ nextBlockIndex' = nextBlockIndex /\ hasTool' = hasTool
      /\ sawContent' = sawContent /\ streamTerminal' = streamTerminal /\ streamErr' = streamErr
  BY DEF Stream!Created
<1>3. Reads(emitted \o Stream!StartMessage, bs)
  BY ReadMessageStart DEF ReadSoFar
<1>4. ReadSoFar(emitted', nextBlockIndex', active', bs)
  BY <1>2, <1>3 DEF ReadSoFar
<1>5. Gist(bs) = GistBefore(k) \o Units(<<>>)
  <2>1. GistBefore(k) \in Seq(ReadBlocks)
    BY <1>1, GistBeforeNext
  <2>2. GistBefore(k) \o <<>> = GistBefore(k)
    BY <2>1
  <2> QED
    BY <2>2, UnitsOfNothing
<1>6. OpenMessage(k, told'[k], bs, active', 0)
  BY <1>1, <1>2, <1>5 DEF OpenMessage
<1>7. ~IsTool(k)
  BY DEF IsTool
<1>8. OpenItem(k, told'[k], bs, active', 0)
  BY <1>1, <1>2, <1>6, <1>7 DEF OpenItem
<1>9. ~sawContent => bs = <<>>
  BY DEF Flagged
<1> QED
  BY <1>2, <1>4, <1>7, <1>8, <1>9 DEF Begins

LEMMA ReasoningBeginRead ==
    ASSUME ItemsInv, StreamShape, NEW k \in TrueItems, TrueItem(k).type = "reasoning",
           NEW event \in Announcements(k), ~told[k].seen, Tell(event), active = Stream!NoBlock,
           NEW bs, ReadSoFar(emitted, nextBlockIndex, active, bs), Gist(bs) = GistBefore(k),
           Stream!ReasoningAdded(k, event.item.signature)
    PROVE  \E bs1 : Begins(k, bs1)
<1> DEFINE bs1 == bs \o <<ContentBlock("thinking", <<>>, NoSignature)>>
           signature == event.item.signature
<1>1. /\ Progress(k, told'[k], 0) /\ SpokenOf(k, told'[k], 0) = <<>>
      /\ signature = IF told'[k].signature THEN TrueItem(k).signature ELSE NoSignature
      /\ signature \in SignatureValues
      /\ k \in OutputIndexes
  BY NewProgress
<1>2. FirstDeltas("thinking", <<>>) = <<>> /\ <<>> \in Stream!Strings
  BY StringTypes DEF FirstDeltas
<1>3. /\ Stream!OpenBlock(k, "thinking", FALSE, signature, FirstDeltas("thinking", <<>>))
      /\ hasTool' = hasTool /\ streamTerminal' = streamTerminal /\ streamErr' = streamErr
  BY <1>2 DEF Stream!ReasoningAdded
<1> HIDE DEF signature
<1>4. /\ ReadSoFar(emitted', nextBlockIndex', active', bs1)
      /\ LastRead(bs1, bs, "thinking", <<>>)
      /\ sawContent' /\ active'.outputIndex = k /\ active'.kind = "thinking"
      /\ active'.signature = signature
      /\ active'.hadDelta <=> <<>> # <<>>
  BY <1>1, <1>2, <1>3, OpenRead
<1> HIDE DEF bs1
<1>5. OpenReasoning(k, told'[k], bs1, active', 0)
  <2>1. \E cs : LastRead(bs1, cs, "thinking", <<>>) /\ Gist(cs) = GistBefore(k)
    BY <1>4
  <2> QED
    BY <1>1, <1>4, <2>1 DEF OpenReasoning
<1>6. ~IsTool(k)
  BY DEF IsTool
<1>7. OpenItem(k, told'[k], bs1, active', 0)
  BY <1>1, <1>4, <1>5, <1>6 DEF OpenItem
<1>8. Begins(k, bs1)
  BY <1>3, <1>4, <1>6, <1>7 DEF Begins
<1> QED
  BY <1>8

LEMMA NoneOfIt ==
    ASSUME NEW S, NEW s \in Seq(S)
    PROVE  SubSeq(s, 1, 0) = <<>>
OBVIOUS

LEMMA ToolBeginRead ==
    ASSUME ItemsInv, StreamShape, NEW k \in TrueItems, IsTool(k),
           NEW event \in Announcements(k), ~told[k].seen, Tell(event), active = Stream!NoBlock,
           NEW bs, ReadSoFar(emitted, nextBlockIndex, active, bs), Gist(bs) = GistBefore(k),
           NEW custom \in BOOLEAN, Stream!ToolAdded(k, custom)
    PROVE  \E bs1 : Begins(k, bs1)
<1> DEFINE bs1 == bs \o <<ContentBlock("tool_use", <<>>, NoSignature)>>
<1>1. /\ Progress(k, told'[k], 0) /\ SentOf(told'[k], 1) = 0
      /\ k \in OutputIndexes /\ truth \in TrueResponses
  BY NewProgress
<1>2. /\ FirstDeltas("tool_use", <<>>) = <<>> /\ <<>> \in Stream!Strings
      /\ NoSignature \in SignatureValues
  BY StringTypes DEF FirstDeltas, SignatureValues
<1>3. /\ Stream!OpenBlock(k, "tool_use", custom, NoSignature, FirstDeltas("tool_use", <<>>))
      /\ hasTool' = TRUE /\ streamTerminal' = streamTerminal /\ streamErr' = streamErr
  BY <1>2 DEF Stream!ToolAdded
<1>4. /\ ReadSoFar(emitted', nextBlockIndex', active', bs1)
      /\ LastRead(bs1, bs, "tool_use", <<>>)
      /\ sawContent' /\ active'.outputIndex = k /\ active'.kind = "tool_use"
      /\ active'.custom = custom
      /\ active'.hadDelta <=> <<>> # <<>>
  BY <1>1, <1>2, <1>3, OpenRead
<1> HIDE DEF bs1
<1>5. CallSoFar(k, told'[k], custom) = <<>>
  <2>1. TrueParts(k)[1] \in Seq(Fragments)
    BY <1>1, CallType
  <2> QED
    BY <1>1, <2>1, NoneOfIt DEF CallSoFar
<1>6. OpenTool(k, told'[k], bs1, active', 0)
  <2>1. \E cs : LastRead(bs1, cs, "tool_use", CallSoFar(k, told'[k], active'.custom)) /\ Gist(cs) = GistBefore(k)
    BY <1>4, <1>5
  <2> QED
    BY <1>1, <1>4, <2>1 DEF OpenTool
<1>7. TrueItem(k).type # "message" /\ TrueItem(k).type # "reasoning"
  BY DEF IsTool
<1>8. OpenItem(k, told'[k], bs1, active', 0)
  BY <1>1, <1>4, <1>6, <1>7 DEF OpenItem
<1>9. Begins(k, bs1)
  BY <1>3, <1>4, <1>8 DEF Begins
<1> QED
  BY <1>9

-----------------------------------------------------------------------------
(* The steps of reasoning *)

\* A block of reasoning goes on with what more was said.
LEMMA ThoughtGoesOn ==
    ASSUME NEW index, TrueItem(index).type = "reasoning", NEW bs1, NEW cs, NEW d, Progress(index, told'[index], d),
           ReadSoFar(emitted', nextBlockIndex', active', bs1),
           LastRead(bs1, cs, "thinking", SpokenOf(index, told'[index], d)), Gist(cs) = GistBefore(index),
           active'.kind = "thinking", active'.outputIndex = index,
           active'.signature = IF told'[index].signature THEN TrueItem(index).signature ELSE NoSignature,
           active'.hadDelta <=> SpokenOf(index, told'[index], d) # <<>>,
           FlagsKept(bs1)
    PROVE  GoesOn(index, bs1, d)
<1>1. ~IsTool(index)
  BY DEF IsTool
<1>2. OpenReasoning(index, told'[index], bs1, active', d)
  BY DEF OpenReasoning
<1>3. OpenItem(index, told'[index], bs1, active', d)
  BY <1>1, <1>2 DEF OpenItem
<1> QED
  BY <1>3 DEF GoesOn

LEMMA ThoughtNow ==
    ASSUME ItemsInv, StreamShape, NEW k \in TrueItems, TrueItem(k).type = "reasoning",
           NEW bs, NEW d, ReadSoFar(emitted, nextBlockIndex, active, bs), OpenItem(k, told[k], bs, active, d)
    PROVE  /\ Progress(k, told[k], d)
           /\ active # Stream!NoBlock
           /\ active \in OpenBlocks /\ active.index = nextBlockIndex /\ nextBlockIndex \in Nat
           /\ active.kind = "thinking" /\ active.outputIndex = k
           /\ active.signature = IF told[k].signature THEN TrueItem(k).signature ELSE NoSignature
           /\ active.hadDelta <=> SpokenOf(k, told[k], d) # <<>>
           /\ \E cs : LastRead(bs, cs, "thinking", SpokenOf(k, told[k], d)) /\ Gist(cs) = GistBefore(k)
           /\ sawContent
<1>1. Progress(k, told[k], d) /\ OpenReasoning(k, told[k], bs, active, d)
      /\ (active # Stream!NoBlock => active.outputIndex = k)
  BY DEF OpenItem
<1>2. active.kind = "thinking"
  BY <1>1 DEF OpenReasoning
<1>3. active # Stream!NoBlock
  BY <1>2 DEF Stream!NoBlock
<1>4. active \in OpenBlocks /\ active.index = nextBlockIndex /\ nextBlockIndex \in Nat /\ sawContent
  BY <1>3, OpenIndex
<1> QED
  BY <1>1, <1>3, <1>4 DEF OpenReasoning

LEMMA ReasoningDeltaRead ==
    ASSUME ItemsInv, StreamShape, NEW k \in TrueItems, TrueItem(k).type = "reasoning",
           NEW bs, NEW d, ReadSoFar(emitted, nextBlockIndex, active, bs), OpenItem(k, told[k], bs, active, d),
           NEW event \in Deltas(k), PartInOrder(event), Tell(event), Stream!ReasoningDelta(k, event.fragment)
    PROVE  \E bs1 : GoesOn(k, bs1, d)
<1> DEFINE f == <<event.fragment>>
           spoken == SpokenOf(k, told[k], d)
           spoken1 == SpokenOf(k, told'[k], d)
<1>1. /\ Progress(k, told[k], d) /\ active # Stream!NoBlock
      /\ active \in OpenBlocks /\ nextBlockIndex \in Nat
      /\ active.kind = "thinking" /\ active.outputIndex = k
      /\ active.signature = IF told[k].signature THEN TrueItem(k).signature ELSE NoSignature
      /\ \E cs : LastRead(bs, cs, "thinking", spoken) /\ Gist(cs) = GistBefore(k)
  BY ThoughtNow
<1>2. /\ Progress(k, told'[k], d)
      /\ f \in Stream!Strings
      /\ spoken1 = spoken \o f
      /\ spoken1 # <<>>
  BY <1>1, DeltaProgress
<1>3. event.part = d + 1 /\ told'[k].signature = told[k].signature
  BY <1>1, DeltaProgress, ToldDelta
<1>4. PICK cs : LastRead(bs, cs, "thinking", spoken) /\ Gist(cs) = GistBefore(k)
  BY <1>1
<1> DEFINE bs2 == cs \o <<ContentBlock("thinking", spoken \o f, NoSignature)>>
<1>5. /\ Stream!SendDelta(Stream!DataDelta("thinking"), f)
      /\ active' = [active EXCEPT !.hadDelta = TRUE]
      /\ sawContent' = TRUE
      /\ hasTool' = hasTool /\ streamTerminal' = streamTerminal /\ streamErr' = streamErr
      /\ nextBlockIndex' = nextBlockIndex
  BY <1>1 DEF Stream!ReasoningDelta, Stream!ContentDelta, Stream!Continues, f
<1>6. /\ active' \in OpenBlocks /\ active'.outputIndex = k /\ active'.kind = "thinking"
      /\ active'.signature = active.signature /\ active'.hadDelta = TRUE
  BY <1>1, <1>5, HadDeltaChanges
<1>7. active' # Stream!NoBlock
  BY <1>6 DEF Stream!NoBlock
<1> HIDE DEF f, spoken, spoken1
<1>8. /\ Reads(emitted', bs2) /\ LastRead(bs2, cs, "thinking", spoken \o f)
      /\ Len(bs2) = nextBlockIndex + 1
  BY <1>1, <1>2, <1>4, <1>5, DeltaRead
<1> HIDE DEF bs2
<1>9. ReadSoFar(emitted', nextBlockIndex', active', bs2) /\ FlagsKept(bs2)
  BY <1>5, <1>7, <1>8 DEF ReadSoFar, FlagsKept
<1>10. LastRead(bs2, cs, "thinking", spoken1)
  BY <1>2, <1>8
<1>11. GoesOn(k, bs2, d)
  BY <1>1, <1>2, <1>3, <1>4, <1>6, <1>9, <1>10, ThoughtGoesOn DEF spoken1
<1> QED
  BY <1>11

LEMMA ReasoningDoneRead ==
    ASSUME ItemsInv, StreamShape, NEW k \in TrueItems, TrueItem(k).type = "reasoning",
           NEW bs, NEW d, ReadSoFar(emitted, nextBlockIndex, active, bs), OpenItem(k, told[k], bs, active, d),
           Flagged(told, hasTool, sawContent, bs),
           NEW event \in Dones(k), PartInOrder(event), Tell(event),
           \/ Stream!ReasoningDone(event.text)
           \/ /\ ~(active.kind = "thinking" /\ ~active.hadDelta /\ event.text # <<>>)
              /\ UNCHANGED streamVars
    PROVE  \E bs1 : GoesOn(k, bs1, d + 1)
<1> DEFINE text == event.text
           n == SentOf(told[k], d + 1)
           spoken == SpokenOf(k, told[k], d)
           spoken1 == SpokenOf(k, told'[k], d + 1)
<1>1. /\ Progress(k, told[k], d) /\ active # Stream!NoBlock
      /\ active \in OpenBlocks /\ active.index = nextBlockIndex /\ nextBlockIndex \in Nat
      /\ active.kind = "thinking" /\ active.outputIndex = k
      /\ active.signature = IF told[k].signature THEN TrueItem(k).signature ELSE NoSignature
      /\ active.hadDelta <=> spoken # <<>>
      /\ \E cs : LastRead(bs, cs, "thinking", spoken) /\ Gist(cs) = GistBefore(k)
      /\ sawContent
  BY ThoughtNow
<1>2. /\ d \in 0 .. Len(TrueParts(k)) - 1
      /\ Progress(k, told'[k], d + 1)
      /\ text \in {<<>>, TrueParts(k)[d + 1]}
      /\ text \in Stream!Strings
      /\ \/ n = Len(TrueParts(k)[d + 1]) /\ spoken1 = spoken
         \/ spoken = <<>> /\ spoken1 = text
  BY <1>1, DoneProgress
<1>3. event.part = d + 1 /\ told'[k].signature = told[k].signature
  BY <1>1, DoneProgress, ToldDone
<1>4. PICK cs : LastRead(bs, cs, "thinking", spoken) /\ Gist(cs) = GistBefore(k)
  BY <1>1
<1>5. truth \in TrueResponses /\ TrueParts(k) \in Seq(Stream!Strings) /\ Len(TrueParts(k)) \in Nat
  BY <1>1, TextNow, TruePartsType
<1>6. ASSUME spoken = <<>>, n = Len(TrueParts(k)[d + 1]), text # <<>> PROVE FALSE
  <2> DEFINE part == TrueParts(k)[d + 1]
  <2>1. part \in Stream!Strings /\ part # <<>>
    BY <1>2, <1>5, <1>6, OneMorePart
  <2>2. Len(part) \in Nat /\ 0 < Len(part)
    <3> HIDE DEF part
    <3>1. Len(part) \in Nat /\ Len(part) # 0
      BY <2>1, EmptySeq DEF Stream!Strings
    <3> QED
      BY <3>1
  <2>3. SpokenTo(TrueParts(k), d, n) # <<>>
    <3> HIDE DEF n
    <3>1. n \in Nat /\ 0 < n /\ n <= Len(TrueParts(k)[d + 1])
      BY <1>6, <2>2
    <3> QED
      BY <1>2, <1>5, <3>1, SpokenSomething
  <2> QED
    BY <1>6, <2>3 DEF SpokenOf
<1>7. CASE ~active.hadDelta /\ text # <<>>
  <2> DEFINE bs1 == cs \o <<ContentBlock("thinking", spoken \o text, NoSignature)>>
  <2>1. spoken = <<>> /\ spoken1 = text
    BY <1>1, <1>2, <1>6, <1>7
  <2>2. /\ Stream!SendDelta(Stream!DataDelta("thinking"), text)
        /\ active' = [active EXCEPT !.hadDelta = TRUE]
        /\ hasTool' = hasTool /\ sawContent' = sawContent
        /\ streamTerminal' = streamTerminal /\ streamErr' = streamErr
        /\ nextBlockIndex' = nextBlockIndex
    BY <1>1, <1>7, DataDeltas DEF Stream!ReasoningDone, text
  <2>3. /\ active' \in OpenBlocks /\ active'.outputIndex = k /\ active'.kind = "thinking"
        /\ active'.signature = active.signature /\ active'.hadDelta = TRUE
    BY <1>1, <2>2, HadDeltaChanges
  <2>4. active' # Stream!NoBlock
    BY <2>3 DEF Stream!NoBlock
  <2> HIDE DEF text, n, spoken, spoken1
  <2>5. /\ Reads(emitted', bs1) /\ LastRead(bs1, cs, "thinking", spoken \o text)
        /\ Len(bs1) = nextBlockIndex + 1
    BY <1>1, <1>2, <1>4, <2>2, DeltaRead
  <2> HIDE DEF bs1
  <2>6. ReadSoFar(emitted', nextBlockIndex', active', bs1) /\ FlagsKept(bs1)
    BY <1>1, <2>2, <2>4, <2>5 DEF ReadSoFar, FlagsKept
  <2>7. spoken \o text = spoken1
    BY <1>2, <2>1, NothingAfter
  <2>8. LastRead(bs1, cs, "thinking", spoken1) /\ spoken1 # <<>>
    BY <1>7, <2>1, <2>5, <2>7
  <2>9. GoesOn(k, bs1, d + 1)
    BY <1>1, <1>2, <1>3, <1>4, <2>3, <2>6, <2>8, ThoughtGoesOn DEF spoken1
  <2> QED
    BY <2>9
<1>8. CASE ~(~active.hadDelta /\ text # <<>>)
  <2>1. UNCHANGED streamVars
    BY <1>8 DEF Stream!ReasoningDone, text
  <2>2. ReadSoFar(emitted', nextBlockIndex', active', bs) /\ FlagsKept(bs) /\ active' = active
    BY <2>1, IgnoredRead
  <2>3. spoken1 = spoken
    BY <1>1, <1>2, <1>8
  <2> HIDE DEF text, n, spoken, spoken1
  <2>4. LastRead(bs, cs, "thinking", spoken1) /\ (active'.hadDelta <=> spoken1 # <<>>)
    BY <1>1, <1>4, <2>2, <2>3
  <2>5. GoesOn(k, bs, d + 1)
    BY <1>1, <1>2, <1>3, <1>4, <2>2, <2>4, ThoughtGoesOn DEF spoken1
  <2> QED
    BY <2>5
<1> QED
  BY <1>7, <1>8

LEMMA ReasoningEndRead ==
    ASSUME ItemsInv, StreamShape, NEW k \in TrueItems, TrueItem(k).type = "reasoning",
           NEW bs, NEW d, ReadSoFar(emitted, nextBlockIndex, active, bs), OpenItem(k, told[k], bs, active, d),
           \/ DOMAIN TrueParts(k) \subseteq told[k].done
           \/ \A part \in DOMAIN TrueParts(k) : SentWhole(k, part),
           NEW signature \in {NoSignature, TrueItem(k).signature},
           told[k].signature \/ signature = TrueItem(k).signature,
           emitted' = emitted \o Stream!Closing(Stream!Signed(signature)),
           active' = Stream!NoBlock, nextBlockIndex' = nextBlockIndex + 1,
           hasTool' = hasTool, sawContent' = sawContent,
           streamTerminal' = streamTerminal, streamErr' = streamErr
    PROVE  \E bs1 : IsOver(k, bs1)
<1> DEFINE spoken == SpokenOf(k, told[k], d)
           block == Stream!Signed(signature)
           true == TrueItem(k).signature
<1>1. /\ Progress(k, told[k], d) /\ active # Stream!NoBlock
      /\ active \in OpenBlocks /\ active.index = nextBlockIndex /\ nextBlockIndex \in Nat
      /\ active.kind = "thinking" /\ active.outputIndex = k
      /\ active.signature = IF told[k].signature THEN true ELSE NoSignature
      /\ \E cs : LastRead(bs, cs, "thinking", spoken) /\ Gist(cs) = GistBefore(k)
      /\ sawContent
  BY ThoughtNow
<1>2. truth \in TrueResponses /\ true \in SignatureValues
  BY <1>1, TextNow, TruePartsType
<1>3. spoken = FlattenSeq(TrueParts(k)) /\ spoken \in Stream!Strings
  BY <1>1, EndProgress, TextNow
<1>4. /\ block.kind = "thinking" /\ block.index = active.index /\ block.signature = true
  <2>1. CASE signature # NoSignature
    BY <1>1, <2>1 DEF Stream!Signed, OpenBlocks
  <2>2. CASE signature = NoSignature
    BY <1>1, <2>2 DEF Stream!Signed
  <2> QED
    BY <2>1, <2>2
<1>5. PICK cs : LastRead(bs, cs, "thinking", spoken) /\ Gist(cs) = GistBefore(k)
  BY <1>1
<1> DEFINE b == ContentBlock("thinking", spoken, true)
           bs1 == cs \o <<b>>
<1>6. Reads(emitted, cs \o <<ContentBlock("thinking", spoken, NoSignature)>>) /\ cs \in Seq(ReadBlocks)
  BY <1>5 DEF ReadSoFar, LastRead
<1>7. ShownSignature("thinking", block.signature) = true
  BY <1>4 DEF ShownSignature
<1>8. emitted' = emitted \o Stream!Closing(block)
  OBVIOUS
<1> HIDE DEF spoken, block, true
<1>9. ReadSoFar(emitted', nextBlockIndex', active', cs \o <<ContentBlock("thinking", spoken, ShownSignature("thinking", block.signature))>>)
  BY <1>1, <1>2, <1>3, <1>4, <1>5, <1>6, <1>8, CloseRead
<1>10. ReadSoFar(emitted', nextBlockIndex', active', bs1)
  BY <1>7, <1>9
<1>11. b \in ReadBlocks
  BY <1>2, <1>3, BlockFields
<1> HIDE DEF b
<1>12. Gist(bs1) = Gist(cs) \o Reading(b)
  BY <1>6, <1>11, GistOneMore
<1>13. Gist(bs1) = GistBefore(k + 1)
  <2>1. ItemGist(k) = Reading(b)
    BY <1>2, <1>3, ReasoningRead DEF b, true
  <2> QED
    BY <1>2, <1>5, <1>12, <2>1, GistBeforeNext
<1> HIDE DEF bs1
<1>14. IsOver(k, bs1)
  BY <1>1, <1>10, <1>13 DEF IsOver, FlagsKept
<1> QED
  BY <1>14

-----------------------------------------------------------------------------
(* The steps of a tool call *)

\* The arguments of a call cannot be passed on.
GivesUp(k) == streamTerminal' /\ streamErr' = "conversion" /\ ~ValidCall(k)

LEMMA CallNow ==
    ASSUME ItemsInv, StreamShape, CallInv, ~streamTerminal, NEW k \in TrueItems, IsTool(k),
           NEW custom \in BOOLEAN, custom <=> TrueItem(k).type = "custom_tool_call",
           NEW bs, ReadSoFar(emitted, nextBlockIndex, active, bs), OpenItem(k, told[k], bs, active, 0)
    PROVE  /\ active # Stream!NoBlock
           /\ active \in OpenBlocks /\ active.index = nextBlockIndex /\ nextBlockIndex \in Nat
           /\ active.kind = "tool_use" /\ active.outputIndex = k /\ active.custom = custom
           /\ Stream!ToolMatches(k, custom)
           /\ SentOf(told[k], 1) \in 0 .. Len(TrueParts(k)[1])
           /\ active.buffer = SubSeq(TrueParts(k)[1], 1, SentOf(told[k], 1))
           /\ active.hadDelta <=> ~custom /\ SentOf(told[k], 1) > 0
           /\ \E cs : LastRead(bs, cs, "tool_use", CallSoFar(k, told[k], custom)) /\ Gist(cs) = GistBefore(k)
           /\ sawContent
<1>1. OpenTool(k, told[k], bs, active, 0) /\ (active # Stream!NoBlock => active.outputIndex = k)
  BY DEF OpenItem
<1>2. /\ active.kind = "tool_use"
      /\ active.hadDelta <=> ~active.custom /\ SentOf(told[k], 1) > 0
      /\ \E cs : LastRead(bs, cs, "tool_use", CallSoFar(k, told[k], active.custom)) /\ Gist(cs) = GistBefore(k)
  BY <1>1 DEF OpenTool
<1>3. active # Stream!NoBlock
  BY <1>2 DEF Stream!NoBlock
<1>4. active \in OpenBlocks /\ active.index = nextBlockIndex /\ nextBlockIndex \in Nat /\ sawContent
  BY <1>3, OpenIndex
<1>5. active.outputIndex = k
  BY <1>1, <1>3
<1>6. OpenCall(active, emitted, Sent(k, 1))
  BY <1>2, <1>5, MatchingCall
<1>7. Sent(k, 1) = SentOf(told[k], 1)
  BY SentSame
<1>8. active.custom \in BOOLEAN
  BY <1>4 DEF OpenBlocks
<1>9. active.custom = custom
  BY <1>5, <1>6, <1>8 DEF OpenCall
<1>10. /\ SentOf(told[k], 1) \in 0 .. Len(TrueParts(k)[1])
       /\ active.buffer = SubSeq(TrueParts(k)[1], 1, SentOf(told[k], 1))
  BY <1>5, <1>6, <1>7 DEF OpenCall
<1>11. Stream!ToolMatches(k, custom)
  BY <1>2, <1>5, <1>9 DEF Stream!ToolMatches
<1> QED
  BY <1>2, <1>3, <1>4, <1>5, <1>9, <1>10, <1>11

LEMMA ToolDeltaRead ==
    ASSUME ItemsInv, StreamShape, CallInv, ~streamTerminal, NEW k \in TrueItems, IsTool(k),
           NEW custom \in BOOLEAN, custom <=> TrueItem(k).type = "custom_tool_call",
           NEW bs, NEW d, ReadSoFar(emitted, nextBlockIndex, active, bs), OpenItem(k, told[k], bs, active, d),
           Flagged(told, hasTool, sawContent, bs),
           NEW event \in Deltas(k), PartInOrder(event), Tell(event),
           Stream!ToolDelta(k, custom, event.fragment)
    PROVE  \E bs1 : GoesOn(k, bs1, d)
<1> DEFINE whole == TrueParts(k)[1]
           f == event.fragment
           n == SentOf(told[k], 1)
           m == SentOf(told'[k], 1)
<1>1. Progress(k, told[k], d)
  BY DEF OpenItem
<1>2. truth \in TrueResponses
  BY <1>1, TextNow
<1>3. Len(TrueParts(k)) = 1 /\ whole \in Seq(Fragments) /\ Len(whole) \in Nat
  BY <1>2, CallType
<1>4. d = 0
  <2>1. d \in 0 .. Len(TrueParts(k)) - 1
    BY <1>1, DeltaProgress
  <2> QED
    BY <1>3, <2>1
<1>5. /\ Progress(k, told'[k], 0)
      /\ n \in 0 .. Len(whole) - 1 /\ m = n + 1 /\ f = whole[n + 1]
      /\ <<f>> \in Stream!Strings
  <2>1. /\ Progress(k, told'[k], 0)
        /\ SentOf(told[k], 0 + 1) \in 0 .. Len(TrueParts(k)[0 + 1]) - 1
        /\ SentOf(told'[k], 0 + 1) = SentOf(told[k], 0 + 1) + 1
        /\ event.fragment = TrueParts(k)[0 + 1][SentOf(told[k], 0 + 1) + 1]
        /\ <<event.fragment>> \in Stream!Strings
    BY <1>1, <1>4, DeltaProgress
  <2> QED
    BY <2>1
<1>6. OpenItem(k, told[k], bs, active, 0)
  BY <1>4
<1>7. /\ active # Stream!NoBlock
      /\ active \in OpenBlocks /\ active.index = nextBlockIndex /\ nextBlockIndex \in Nat
      /\ active.kind = "tool_use" /\ active.outputIndex = k /\ active.custom = custom
      /\ Stream!ToolMatches(k, custom)
      /\ active.buffer = SubSeq(whole, 1, n)
      /\ active.hadDelta <=> ~custom /\ n > 0
      /\ \E cs : LastRead(bs, cs, "tool_use", CallSoFar(k, told[k], custom)) /\ Gist(cs) = GistBefore(k)
      /\ sawContent
  BY <1>6, CallNow
<1>8. PICK cs : LastRead(bs, cs, "tool_use", CallSoFar(k, told[k], custom)) /\ Gist(cs) = GistBefore(k)
  BY <1>7
<1>9. /\ SubSeq(whole, 1, n) \o <<f>> = SubSeq(whole, 1, m)
      /\ Append(SubSeq(whole, 1, n), f) = SubSeq(whole, 1, m)
      /\ SubSeq(whole, 1, m) \in Seq(Fragments)
  <2> HIDE DEF whole, n, m
  <2> QED
    BY <1>3, <1>5, CallGrows
<1> DEFINE buffer1 == SubSeq(whole, 1, m)
           had1 == active.hadDelta \/ ~custom
<1>10. /\ active' = [active EXCEPT !.buffer = Append(@, f), !.hadDelta = @ \/ ~custom]
       /\ IF custom THEN UNCHANGED emitted ELSE Stream!SendDelta("input_json_delta", <<f>>)
       /\ UNCHANGED <<messageStarted, streamTerminal, streamErr, hasTool, sawContent, nextBlockIndex>>
  BY <1>7 DEF Stream!ToolDelta
<1>11. active' = [active EXCEPT !.buffer = buffer1, !.hadDelta = had1]
  BY <1>7, <1>9, <1>10 DEF OpenBlocks
<1>12. buffer1 \in Seq(Fragments) /\ had1 \in BOOLEAN
  BY <1>7, <1>9 DEF OpenBlocks
<1>13. had1 <=> ~custom /\ m > 0
  <2> HIDE DEF m, n
  <2> QED
    BY <1>5, <1>7
<1> HIDE DEF whole, f, n, m, buffer1, had1
<1>14. /\ active' \in OpenBlocks /\ active'.index = active.index /\ active'.kind = "tool_use"
       /\ active'.outputIndex = k /\ active'.custom = custom /\ active'.hadDelta = had1
  BY <1>7, <1>11, <1>12 DEF OpenBlocks
<1>15. active' # Stream!NoBlock
  BY <1>14 DEF Stream!NoBlock
<1>16. ASSUME NEW bs1, Reads(emitted', bs1), Len(bs1) = nextBlockIndex + 1,
              LastRead(bs1, cs, "tool_use", CallSoFar(k, told'[k], custom))
       PROVE  GoesOn(k, bs1, 0)
  <2>1. ReadSoFar(emitted', nextBlockIndex', active', bs1) /\ FlagsKept(bs1)
    BY <1>7, <1>10, <1>15, <1>16 DEF ReadSoFar, FlagsKept
  <2>2. OpenTool(k, told'[k], bs1, active', 0)
    <3>1. \E ds : LastRead(bs1, ds, "tool_use", CallSoFar(k, told'[k], active'.custom)) /\ Gist(ds) = GistBefore(k)
      BY <1>8, <1>14, <1>16
    <3> QED
      BY <1>13, <1>14, <3>1 DEF OpenTool, m
  <2>3. TrueItem(k).type # "message" /\ TrueItem(k).type # "reasoning"
    BY DEF IsTool
  <2>4. OpenItem(k, told'[k], bs1, active', 0)
    BY <1>5, <1>14, <2>2, <2>3 DEF OpenItem
  <2> QED
    BY <2>1, <2>4 DEF GoesOn
<1>17. CASE custom
  <2>1. Reads(emitted', bs) /\ Len(bs) = nextBlockIndex + 1
    BY <1>7, <1>10, <1>17 DEF ReadSoFar
  <2>2. LastRead(bs, cs, "tool_use", CallSoFar(k, told'[k], custom))
    BY <1>8, <1>17 DEF CallSoFar
  <2>3. GoesOn(k, bs, 0)
    BY <1>16, <2>1, <2>2
  <2> QED
    BY <1>4, <2>3
<1>18. CASE ~custom
  <2> DEFINE before == CallSoFar(k, told[k], custom)
             bs1 == cs \o <<ContentBlock("tool_use", before \o <<f>>, NoSignature)>>
  <2>1. before \o <<f>> = CallSoFar(k, told'[k], custom)
    BY <1>9, <1>18 DEF CallSoFar, whole, n, m
  <2>2. Stream!SendDelta(Stream!DataDelta("tool_use"), <<f>>)
    <3>1. Stream!DataDelta("tool_use") = "input_json_delta"
      BY DataDeltas
    <3>2. Stream!SendDelta("input_json_delta", <<f>>)
      BY <1>10, <1>18
    <3> QED
      BY <3>1, <3>2
  <2>3. LastRead(bs, cs, "tool_use", before)
    BY <1>8
  <2> HIDE DEF before
  <2>4. /\ Reads(emitted', bs1) /\ LastRead(bs1, cs, "tool_use", before \o <<f>>)
        /\ Len(bs1) = nextBlockIndex + 1
    <3> DEFINE g == <<f>>
    <3>1. g \in Stream!Strings /\ active # Stream!NoBlock
      BY <1>5, <1>7 DEF g
    <3>2. LastRead(bs, cs, active.kind, before) /\ Stream!SendDelta(Stream!DataDelta(active.kind), g)
      BY <1>7, <2>2, <2>3
    <3> HIDE DEF g
    <3>3. LET more == cs \o <<ContentBlock(active.kind, before \o g, NoSignature)>>
          IN  /\ Reads(emitted', more)
              /\ LastRead(more, cs, active.kind, before \o g)
              /\ Len(more) = nextBlockIndex + 1
      BY <3>1, <3>2, DeltaRead
    <3> QED
      BY <1>7, <3>3 DEF g
  <2> HIDE DEF bs1
  <2>5. GoesOn(k, bs1, 0)
    BY <1>16, <2>1, <2>4
  <2> QED
    BY <1>4, <2>5
<1> QED
  BY <1>17, <1>18

\* What is read as the input of a call: arguments of whitespace as the empty object.
ReadAsInput(k, sent) ==
    \/ sent = TrueInput(k)
    \/ Whitespace(sent) /\ TrueInput(k) = EmptyObject

\* A call is closed with its whole input.
LEMMA CallClosed ==
    ASSUME truth \in TrueResponses, StreamShape, NEW k \in TrueItems, IsTool(k),
           active # Stream!NoBlock, active.kind = "tool_use",
           NEW bs, ReadSoFar(emitted, nextBlockIndex, active, bs),
           NEW cs, NEW before, LastRead(bs, cs, "tool_use", before), Gist(cs) = GistBefore(k),
           NEW events, Stream!SendAndClose(events), NEW sent \in Stream!Strings, ReadAsInput(k, sent),
           Reads(emitted \o events, cs \o <<ContentBlock("tool_use", sent, NoSignature)>>)
    PROVE  \E bs1 : IsOver(k, bs1)
<1> DEFINE b == ContentBlock("tool_use", sent, NoSignature)
           bs1 == cs \o <<b>>
<1>1. b \in ReadBlocks /\ ItemGist(k) = Reading(b)
  <2> DEFINE input == TrueInput(k)
             c == ContentBlock("tool_use", input, NoSignature)
  <2>1. Reading(c) = <<c>> /\ ItemGist(k) = <<c>>
    BY TrueInputType, CallRead
  <2>2. b \in ReadBlocks /\ b.kind = "tool_use" /\ b.data = sent
    BY BlockFields DEF SignatureValues
  <2>3. CASE sent = input
    BY <2>1, <2>2, <2>3
  <2>4. CASE Whitespace(sent) /\ input = EmptyObject
    <3> HIDE DEF input
    <3>1. [b EXCEPT !.data = EmptyObject] = c
      BY <2>4 DEF ContentBlock
    <3>2. Reading(b) = <<[b EXCEPT !.data = EmptyObject]>>
      <4> HIDE DEF b
      <4> QED
        BY <2>2, <2>4, ReadingType
    <3> QED
      BY <2>1, <2>2, <3>1, <3>2
  <2> QED
    BY <2>3, <2>4 DEF ReadAsInput
<1>2. ShownSignature("tool_use", active.signature) = NoSignature
  BY DEF ShownSignature
<1>3. Reads(emitted \o events, cs \o <<ContentBlock("tool_use", sent, NoSignature)>>)
  OBVIOUS
<1>4. /\ ReadSoFar(emitted', nextBlockIndex', active',
                   cs \o <<ContentBlock("tool_use", sent, ShownSignature("tool_use", active.signature))>>)
      /\ active' = Stream!NoBlock
      /\ hasTool' = hasTool /\ sawContent' = sawContent
      /\ streamTerminal' = streamTerminal /\ streamErr' = streamErr
  BY <1>3, SendAndCloseRead
<1>5. ReadSoFar(emitted', nextBlockIndex', active', bs1)
  BY <1>2, <1>4
<1>6. b \in ReadBlocks /\ cs \in Seq(ReadBlocks)
  BY <1>1 DEF LastRead
<1> HIDE DEF b
<1>7. Gist(bs1) = Gist(cs) \o Reading(b)
  BY <1>6, GistOneMore
<1>8. Gist(bs1) = GistBefore(k + 1)
  BY <1>1, <1>7, GistBeforeNext
<1>9. sawContent
  BY OpenIndex
<1> HIDE DEF bs1
<1>10. IsOver(k, bs1)
  BY <1>4, <1>5, <1>8, <1>9 DEF IsOver, FlagsKept
<1> QED
  BY <1>10

LEMMA ToolEndRead ==
    ASSUME ItemsInv, StreamShape, CallInv, ~streamTerminal, NEW k \in TrueItems, IsTool(k),
           NEW custom \in BOOLEAN, custom <=> TrueItem(k).type = "custom_tool_call",
           NEW bs, ReadSoFar(emitted, nextBlockIndex, active, bs), OpenItem(k, told[k], bs, active, 0),
           NEW value \in {<<>>, TrueParts(k)[1]},
           \/ SentOf(told[k], 1) = Len(TrueParts(k)[1])
           \/ SentOf(told[k], 1) = 0 /\ value = TrueParts(k)[1],
           Stream!HandleToolDone(k, custom, value)
    PROVE  \/ ValidCall(k) /\ \E bs1 : IsOver(k, bs1)
           \/ GivesUp(k)
<1> DEFINE whole == TrueParts(k)[1]
           n == SentOf(told[k], 1)
           before == CallSoFar(k, told[k], custom)
           input == TrueInput(k)
           complete == Stream!Complete(value)
<1>1. truth \in TrueResponses
  BY DEF ItemsInv
<1>2. Len(TrueParts(k)) = 1 /\ whole \in Seq(Fragments) /\ Len(whole) \in Nat
  BY <1>1, CallType
<1>3. /\ active # Stream!NoBlock
      /\ active \in OpenBlocks /\ active.index = nextBlockIndex /\ nextBlockIndex \in Nat
      /\ active.kind = "tool_use" /\ active.outputIndex = k /\ active.custom = custom
      /\ Stream!ToolMatches(k, custom)
      /\ active.buffer = SubSeq(whole, 1, n)
      /\ active.hadDelta <=> ~custom /\ n > 0
      /\ \E cs : LastRead(bs, cs, "tool_use", before) /\ Gist(cs) = GistBefore(k)
      /\ sawContent
  BY CallNow
<1>4. PICK cs : LastRead(bs, cs, "tool_use", before) /\ Gist(cs) = GistBefore(k)
  BY <1>3
<1>5. SubSeq(whole, 1, Len(whole)) = whole /\ SubSeq(whole, 1, 0) = <<>>
  <2> HIDE DEF whole
  <2> QED
    BY <1>2, WholeIsBeginning, NoneOfIt
<1>6. complete = whole
  <2>1. CASE value = <<>>
    <3>1. complete = SubSeq(whole, 1, n)
      BY <1>3, <2>1 DEF Stream!Complete
    <3>2. n = Len(whole) \/ (n = 0 /\ whole = <<>>)
      BY <2>1
    <3> QED
      BY <1>5, <3>1, <3>2
  <2>2. CASE value # <<>>
    BY <2>2 DEF Stream!Complete
  <2> QED
    BY <2>1, <2>2
<1>7. input \in Stream!Strings
  BY <1>1, TrueInputType
<1>8. /\ Len(cs) = nextBlockIndex /\ cs \in Seq(ReadBlocks) /\ before \in Stream!Strings
      /\ Reads(emitted, cs \o <<ContentBlock("tool_use", before, NoSignature)>>)
      /\ emitted \in Seq(StreamEvents)
  <2>1. Len(bs) = Len(cs) + 1 /\ Len(cs) \in Nat
    BY <1>4, LastReadLength
  <2>2. Len(cs) = nextBlockIndex
    BY <1>3, <2>1 DEF ReadSoFar
  <2> QED
    BY <1>4, <2>2 DEF ReadSoFar, LastRead, Reads
<1>9. ASSUME before = <<>>, NEW sent \in Stream!Strings, ReadAsInput(k, sent),
             Stream!SendAndClose(<<Stream!BlockDelta(active.index, "input_json_delta", sent)>>)
      PROVE  \E bs1 : IsOver(k, bs1)
  <2> DEFINE events == <<Stream!BlockDelta(active.index, "input_json_delta", sent)>>
  <2>1. before \o sent = sent
    <3> HIDE DEF before
    <3> QED
      BY <1>9, NothingAfter
  <2>2. Reads(emitted \o <<Stream!BlockDelta(Len(cs), Stream!DataDelta("tool_use"), sent)>>,
              cs \o <<ContentBlock("tool_use", before \o sent, NoSignature)>>)
    <3> HIDE DEF before
    <3> QED
      BY <1>8, ReadData
  <2>3. Reads(emitted \o events, cs \o <<ContentBlock("tool_use", sent, NoSignature)>>)
    BY <1>3, <1>8, <2>1, <2>2, DataDeltas
  <2>4. Stream!SendAndClose(events)
    BY <1>9
  <2> HIDE DEF events, before
  <2> QED
    BY <1>1, <1>3, <1>4, <1>9, <2>3, <2>4, CallClosed
<1>10. CASE custom
  <2>1. Stream!SendAndClose(<<Stream!BlockDelta(active.index, "input_json_delta", Stream!CustomToolInput(complete))>>)
    BY <1>3, <1>10 DEF Stream!HandleToolDone, Stream!CustomDone
  <2>2. Stream!CustomToolInput(complete) = input
    BY <1>6, <1>10 DEF Stream!CustomToolInput, CustomToolInput, TrueInput
  <2>3. before = <<>>
    BY <1>10 DEF CallSoFar
  <2>4. ValidCall(k)
    BY <1>10 DEF ValidCall
  <2>5. ReadAsInput(k, input)
    BY DEF ReadAsInput
  <2> QED
    BY <1>7, <1>9, <2>1, <2>2, <2>3, <2>4, <2>5
<1>11. CASE ~custom
  <2>1. TrueItem(k).type = "function_call"
    BY <1>11 DEF IsTool
  <2>2. /\ input = FunctionToolInput(whole)
        /\ before = SubSeq(whole, 1, n)
        /\ ValidCall(k) <=> ValidArguments(whole)
        /\ Stream!ValidArguments(complete) <=> ValidArguments(whole)
    BY <1>6, <1>11, <2>1 DEF TrueInput, CallSoFar, ValidCall, Stream!ValidArguments, ValidArguments,
       Stream!Blank, Blank
  <2>3. IF Stream!ValidArguments(complete)
        THEN Stream!SendAndClose(IF active.hadDelta THEN <<>>
                                 ELSE <<Stream!BlockDelta(active.index, "input_json_delta",
                                                          Stream!SentArguments(complete))>>)
        ELSE Stream!Fail("conversion")
    BY <1>3, <1>11 DEF Stream!HandleToolDone, Stream!FunctionDone
  <2>4. /\ whole \in Stream!Strings
        /\ ReadAsInput(k, whole) \/ whole = <<>>
        /\ Stream!SentArguments(complete) \in Stream!Strings
        /\ ReadAsInput(k, Stream!SentArguments(complete))
    <3> DEFINE length == Len(whole)
    <3>1. length \in 0 .. length /\ SubSeq(whole, 1, length) = whole
      BY <1>2, <1>5
    <3> HIDE DEF length
    <3>2. SubSeq(whole, 1, length) \in Stream!Strings
      BY <1>1, <2>1, <3>1, GoodArguments DEF length
    <3> HIDE DEF whole, input
    <3>3. ReadAsInput(k, whole) \/ whole = <<>>
      BY <2>2 DEF ReadAsInput, FunctionToolInput, Whitespace, input
    <3>4. Stream!SentArguments(complete) = IF whole = <<>> THEN EmptyObject ELSE whole
      BY <1>6 DEF Stream!SentArguments, Stream!EmptyObject, EmptyObject
    <3>5. whole = <<>> => ReadAsInput(k, EmptyObject)
      BY <2>2 DEF ReadAsInput, FunctionToolInput, Blank, input
    <3> QED
      BY <3>1, <3>2, <3>3, <3>4, <3>5, EmptyObjectType
  <2>5. CASE ~Stream!ValidArguments(complete)
    BY <2>2, <2>3, <2>5 DEF Stream!Fail, Stream!FailWith, GivesUp
  <2>6. CASE Stream!ValidArguments(complete) /\ ~active.hadDelta
    <3>1. n = 0
      <4>1. n \in Nat
        BY CallNow
      <4> HIDE DEF n
      <4> QED
        BY <1>3, <1>11, <2>6, <4>1
    <3>2. before = <<>>
      BY <1>5, <2>2, <3>1
    <3> HIDE DEF before
    <3> QED
      BY <1>9, <2>2, <2>3, <2>6, <2>4, <3>2
  <2>7. CASE Stream!ValidArguments(complete) /\ active.hadDelta
    <3>1. n > 0
      BY <1>3, <2>7
    <3>2. n = Len(whole)
      BY <3>1
    <3>3. before = whole /\ whole # <<>>
      BY <1>5, <2>2, <3>1, <3>2
    <3>4. ReadAsInput(k, whole)
      BY <2>4, <3>3
    <3>5. emitted \o <<>> = emitted
      BY <1>8
    <3>6. Reads(emitted \o <<>>, cs \o <<ContentBlock("tool_use", whole, NoSignature)>>)
      BY <1>8, <3>3, <3>5
    <3>7. Stream!SendAndClose(<<>>)
      BY <2>3, <2>7
    <3> HIDE DEF before
    <3> QED
      BY <1>1, <1>3, <1>4, <2>2, <2>7, <2>4, <3>4, <3>6, <3>7, CallClosed
  <2> QED
    BY <2>5, <2>6, <2>7
<1> QED
  BY <1>10, <1>11

\* The end of the input of a call.
LEMMA ToolDoneRead ==
    ASSUME ItemsInv, StreamShape, CallInv, ~streamTerminal, NEW k \in TrueItems, IsTool(k),
           NEW custom \in BOOLEAN, custom <=> TrueItem(k).type = "custom_tool_call",
           NEW bs, NEW d, ReadSoFar(emitted, nextBlockIndex, active, bs), OpenItem(k, told[k], bs, active, d),
           NEW event \in Dones(k), PartInOrder(event), Tell(event),
           Stream!ToolDone(k, custom, event.text)
    PROVE  \/ \E bs1 : GoesOn(k, bs1, 1)
           \/ GivesUp(k)
<1>1. Progress(k, told[k], d)
  BY DEF OpenItem
<1>2. truth \in TrueResponses
  BY DEF ItemsInv
<1>3. Len(TrueParts(k)) = 1
  BY <1>2, CallType
<1>4. d = 0
  <2>1. d \in 0 .. Len(TrueParts(k)) - 1
    BY <1>1, DoneProgress
  <2> QED
    BY <1>3, <2>1
<1>5. /\ Progress(k, told'[k], 1)
      /\ event.text \in {<<>>, TrueParts(k)[1]}
      /\ \/ SentOf(told[k], 1) = Len(TrueParts(k)[1])
         \/ SentOf(told[k], 1) = 0 /\ event.text = TrueParts(k)[1]
  <2>1. /\ Progress(k, told'[k], 0 + 1)
        /\ event.text \in {<<>>, TrueParts(k)[0 + 1]}
        /\ \/ SentOf(told[k], 0 + 1) = Len(TrueParts(k)[0 + 1])
           \/ /\ SentOf(told[k], 1) = 0
              /\ event.text = TrueParts(k)[1]
    BY <1>1, <1>4, DoneProgress
  <2> QED
    BY <2>1
<1>6. OpenItem(k, told[k], bs, active, 0) /\ Stream!HandleToolDone(k, custom, event.text)
  BY <1>4 DEF Stream!ToolDone
<1>7. (ValidCall(k) /\ \E bs1 : IsOver(k, bs1)) \/ GivesUp(k)
  BY <1>5, <1>6, ToolEndRead
<1>8. ASSUME ValidCall(k), NEW bs1, IsOver(k, bs1) PROVE GoesOn(k, bs1, 1)
  <2>1. TrueItem(k).type # "message" /\ TrueItem(k).type # "reasoning"
    BY DEF IsTool
  <2>2. OpenTool(k, told'[k], bs1, active', 1)
    BY <1>8 DEF OpenTool, IsOver
  <2>3. OpenItem(k, told'[k], bs1, active', 1)
    BY <1>5, <1>8, <2>1, <2>2 DEF OpenItem, IsOver
  <2> QED
    BY <1>8, <2>3 DEF GoesOn, IsOver
<1> QED
  BY <1>7, <1>8

-----------------------------------------------------------------------------
(* The answer so far *)

\* Item k is being told and d of its parts were ended, or it is the next one.
Cursor(k, ts, bs, block, d) ==
    IF k \in TrueItems /\ ts[k].seen
    THEN OpenItem(k, ts[k], bs, block, d)
    ELSE block = Stream!NoBlock /\ Gist(bs) = GistBefore(k)

AnswerSoFar(s, next, block, tool, saw, ts, k, bs, d) ==
    /\ ReadSoFar(s, next, block, bs)
    /\ InTurn(k, ts)
    /\ Flagged(ts, tool, saw, bs)
    /\ Cursor(k, ts, bs, block, d)

NowRead(k, bs, d) ==
    AnswerSoFar(emitted, nextBlockIndex, active, hasTool, sawContent, told, k, bs, d)
NextRead(k, bs, d) ==
    AnswerSoFar(emitted', nextBlockIndex', active', hasTool', sawContent', told', k, bs, d)

LEMMA SeenCall ==
    ASSUME NEW k \in TrueItems, NEW ts, NEW tool, NEW saw, NEW bs, Flagged(ts, tool, saw, bs), ts[k].seen
    PROVE  tool <=> tool \/ IsTool(k)
BY DEF Flagged

LEMMA GoesOnRead ==
    ASSUME NEW k \in TrueItems, NEW bs, NEW d, NowRead(k, bs, d), told[k].seen,
           OnlyTold(k), told'[k].seen, ~told'[k].closed, NEW bs1, NEW d1, GoesOn(k, bs1, d1)
    PROVE  NextRead(k, bs1, d1)
<1>1. InTurn(k, told) /\ Flagged(told, hasTool, sawContent, bs)
  BY DEF NowRead, AnswerSoFar
<1>2. \A other \in TrueItems \ {k} : told'[other] = told[other]
  BY DEF OnlyTold
<1>3. InTurn(k, told')
  BY <1>1, <1>2, TurnStays
<1>4. (hasTool' <=> hasTool \/ IsTool(k)) /\ (~sawContent' => bs1 = <<>>)
  BY <1>1, SeenCall DEF GoesOn, FlagsKept
<1>5. Flagged(told', hasTool', sawContent', bs1)
  BY <1>1, <1>2, <1>4, FlagsStay
<1> QED
  BY <1>3, <1>5 DEF NextRead, AnswerSoFar, Cursor, GoesOn

LEMMA BeginsRead ==
    ASSUME NEW k \in TrueItems, NEW bs, NEW d, NowRead(k, bs, d),
           OnlyTold(k), told'[k].seen, ~told'[k].closed, NEW bs1, Begins(k, bs1)
    PROVE  NextRead(k, bs1, 0)
<1>1. InTurn(k, told) /\ Flagged(told, hasTool, sawContent, bs)
  BY DEF NowRead, AnswerSoFar
<1>2. \A other \in TrueItems \ {k} : told'[other] = told[other]
  BY DEF OnlyTold
<1>3. InTurn(k, told')
  BY <1>1, <1>2, TurnStays
<1>4. (hasTool' <=> hasTool \/ IsTool(k)) /\ (~sawContent' => bs1 = <<>>)
  BY DEF Begins
<1>5. Flagged(told', hasTool', sawContent', bs1)
  BY <1>1, <1>2, <1>4, FlagsStay
<1> QED
  BY <1>3, <1>5 DEF NextRead, AnswerSoFar, Cursor, Begins

LEMMA IsOverRead ==
    ASSUME NEW k \in TrueItems, NEW bs, NEW d, NowRead(k, bs, d), told[k].seen, ValidCall(k),
           OnlyTold(k), told'[k].seen, told'[k].closed, NEW bs1, IsOver(k, bs1)
    PROVE  NextRead(k + 1, bs1, 0)
<1>1. InTurn(k, told) /\ Flagged(told, hasTool, sawContent, bs)
  BY DEF NowRead, AnswerSoFar
<1>2. \A other \in TrueItems \ {k} : told'[other] = told[other]
  BY DEF OnlyTold
<1>3. InTurn(k + 1, told') /\ (k + 1 \in TrueItems => ~told'[k + 1].seen)
  BY <1>1, <1>2, TurnEnds
<1>4. (hasTool' <=> hasTool \/ IsTool(k)) /\ (~sawContent' => bs1 = <<>>)
  BY <1>1, SeenCall DEF IsOver, FlagsKept
<1>5. Flagged(told', hasTool', sawContent', bs1)
  BY <1>1, <1>2, <1>4, FlagsStay
<1> QED
  BY <1>3, <1>5 DEF NextRead, AnswerSoFar, Cursor, IsOver

-----------------------------------------------------------------------------
(* The events that are about an item *)

\* The step is read, unless the converter gives up.
StepRead ==
    \/ /\ streamTerminal' = streamTerminal
       /\ streamErr' = streamErr
       /\ \E k, bs, d : NextRead(k, bs, d)
    \/ \E k \in TrueItems : GivesUp(k)

LEMMA GoesOnStep ==
    ASSUME NEW k \in TrueItems, NEW bs, NEW d, NowRead(k, bs, d), told[k].seen,
           OnlyTold(k), told'[k].seen, ~told'[k].closed, NEW d1,
           (\E bs1 : GoesOn(k, bs1, d1)) \/ GivesUp(k)
    PROVE  StepRead
<1>1. CASE GivesUp(k)
  BY <1>1 DEF StepRead
<1>2. CASE \E bs1 : GoesOn(k, bs1, d1)
  <2>1. PICK bs1 : GoesOn(k, bs1, d1)
    BY <1>2
  <2>2. NextRead(k, bs1, d1)
    BY <2>1, GoesOnRead
  <2> QED
    BY <2>1, <2>2 DEF StepRead, GoesOn, FlagsKept
<1> QED
  BY <1>1, <1>2

LEMMA BeginsStep ==
    ASSUME NEW k \in TrueItems, NEW bs, NEW d, NowRead(k, bs, d),
           OnlyTold(k), told'[k].seen, ~told'[k].closed, \E bs1 : Begins(k, bs1)
    PROVE  StepRead
<1>1. PICK bs1 : Begins(k, bs1)
  OBVIOUS
<1>2. NextRead(k, bs1, 0)
  BY <1>1, BeginsRead
<1> QED
  BY <1>1, <1>2 DEF StepRead, Begins

LEMMA IsOverStep ==
    ASSUME NEW k \in TrueItems, NEW bs, NEW d, NowRead(k, bs, d), told[k].seen,
           OnlyTold(k), told'[k].seen, told'[k].closed,
           (ValidCall(k) /\ \E bs1 : IsOver(k, bs1)) \/ GivesUp(k)
    PROVE  StepRead
<1>1. CASE GivesUp(k)
  BY <1>1 DEF StepRead
<1>2. CASE ValidCall(k) /\ \E bs1 : IsOver(k, bs1)
  <2>1. PICK bs1 : IsOver(k, bs1)
    BY <1>2
  <2>2. NextRead(k + 1, bs1, 0)
    BY <1>2, <2>1, IsOverRead
  <2> QED
    BY <2>1, <2>2 DEF StepRead, IsOver, FlagsKept
<1> QED
  BY <1>1, <1>2

\* What is known of the item that is being told, and of the one that is next.
LEMMA NowTold ==
    ASSUME NEW k, NEW bs, NEW d, NowRead(k, bs, d), NEW index \in TrueItems,
           told[index].seen, ~told[index].closed
    PROVE  /\ index = k
           /\ ReadSoFar(emitted, nextBlockIndex, active, bs)
           /\ Flagged(told, hasTool, sawContent, bs)
           /\ OpenItem(k, told[k], bs, active, d)
<1>1. InTurn(k, told) /\ Cursor(k, told, bs, active, d)
  BY DEF NowRead, AnswerSoFar
<1>2. index = k
  BY <1>1, TurnOfOpen
<1> QED
  BY <1>1, <1>2 DEF NowRead, AnswerSoFar, Cursor

LEMMA NowNext ==
    ASSUME NEW k, NEW bs, NEW d, NowRead(k, bs, d), NEW index \in TrueItems,
           ~told[index].seen, \A lower \in TrueItems : lower < index => told[lower].closed
    PROVE  /\ index = k
           /\ ReadSoFar(emitted, nextBlockIndex, active, bs)
           /\ Flagged(told, hasTool, sawContent, bs)
           /\ active = Stream!NoBlock
           /\ Gist(bs) = GistBefore(k)
<1>1. InTurn(k, told) /\ Cursor(k, told, bs, active, d)
  BY DEF NowRead, AnswerSoFar
<1>2. index = k
  BY <1>1, TurnOfNew
<1> QED
  BY <1>1, <1>2 DEF NowRead, AnswerSoFar, Cursor

LEMMA AnnouncementRead ==
    ASSUME ItemsInv, StreamShape, ~streamTerminal, NEW k, NEW bs, NEW d, NowRead(k, bs, d),
           NEW index \in TrueItems, NEW event \in Announcements(index), ~told[index].seen,
           InOrder(event), Tell(event), Convert(event)
    PROVE  StepRead
<1> DEFINE type == TrueItem(index).type
<1>1. PICK call \in SomeCall(index), signature \in {NoSignature, TrueItem(index).signature} :
          event = [type |-> "response.output_item.added", index |-> index,
                   item |-> Announced(index, call, signature)]
  BY DEF Announcements
<1>2. event.type = "response.output_item.added" /\ event.index = index /\ "index" \in DOMAIN event
  BY <1>1
<1>3. event.item.type = type /\ event.item.signature = signature
  BY <1>1 DEF Announced, BlankItem
<1>4. \A lower \in TrueItems : lower < index => told[lower].closed
  BY <1>2 DEF InOrder
<1>5. /\ index = k
      /\ ReadSoFar(emitted, nextBlockIndex, active, bs)
      /\ Flagged(told, hasTool, sawContent, bs)
      /\ active = Stream!NoBlock
      /\ Gist(bs) = GistBefore(k)
  BY <1>4, NowNext
<1>6. OnlyTold(index) /\ told'[index].seen /\ ~told'[index].closed
  BY ToldAnnouncement
<1>7. Added(index, event.item)
  BY <1>2 DEF Convert, Handle, NoUseFor, Stream!TerminalTypes
<1>8. (\E bs1 : Begins(index, bs1)) => StepRead
  <2>1. NowRead(index, bs, d)
    BY <1>5
  <2> QED
    BY <1>6, <2>1, BeginsStep
<1>9. Gist(bs) = GistBefore(index)
  BY <1>5
<1>10. CASE type = "message" /\ Stream!Created
  <2>1. Begins(index, bs)
    BY <1>5, <1>9, <1>10, MessageBeginRead
  <2> QED
    BY <1>8, <2>1
<1>11. CASE type = "reasoning" /\ Stream!ReasoningAdded(index, event.item.signature)
  BY <1>5, <1>8, <1>9, <1>11, ReasoningBeginRead
<1>12. ASSUME NEW custom \in BOOLEAN, type \in {"function_call", "custom_tool_call"},
              Stream!ToolAdded(index, custom)
       PROVE  StepRead
  <2>1. IsTool(index)
    BY <1>12 DEF IsTool
  <2> QED
    BY <1>5, <1>8, <1>9, <1>12, <2>1, ToolBeginRead
<1>13. CASE type = "function_call" /\ Stream!ToolAdded(index, FALSE)
  BY <1>12, <1>13
<1>14. CASE type = "custom_tool_call" /\ Stream!ToolAdded(index, TRUE)
  BY <1>12, <1>14
<1> QED
  BY <1>3, <1>7, <1>10, <1>11, <1>13, <1>14 DEF Added

LEMMA DeltaEventRead ==
    ASSUME ItemsInv, StreamShape, CallInv, ~streamTerminal, NEW k, NEW bs, NEW d, NowRead(k, bs, d),
           NEW index \in TrueItems, NEW event \in Deltas(index), ~told[index].closed,
           InOrder(event), Tell(event), Convert(event)
    PROVE  StepRead
<1> DEFINE type == TrueItem(index).type
<1>1. PICK part \in {p \in OpenParts(index) : Sent(index, p) < Len(TrueParts(index)[p])},
           call \in SomeCall(index) :
          event = [type |-> "delta", index |-> index, kind |-> type, part |-> part,
                   fragment |-> TrueParts(index)[part][Sent(index, part) + 1], call |-> call]
  BY DEF Deltas
<1>2. /\ event.type = "delta" /\ event.index = index /\ "index" \in DOMAIN event
      /\ event.kind = type
  BY <1>1
<1>3. told[index].seen /\ PartInOrder(event)
  BY <1>2 DEF InOrder, PartInOrder
<1>4. /\ index = k
      /\ ReadSoFar(emitted, nextBlockIndex, active, bs)
      /\ Flagged(told, hasTool, sawContent, bs)
      /\ OpenItem(k, told[k], bs, active, d)
  BY <1>3, NowTold
<1>5. NowRead(index, bs, d) /\ OpenItem(index, told[index], bs, active, d)
  BY <1>4
<1>6. OnlyTold(index) /\ told'[index].seen /\ ~told'[index].closed
  BY ToldDelta
<1>7. DeltaOf(type, index, event.fragment)
  BY <1>2 DEF Convert, Handle, NoUseFor, Stream!TerminalTypes
<1>8. (\E bs1 : GoesOn(index, bs1, d)) => StepRead
  BY <1>3, <1>5, <1>6, GoesOnStep
<1>9. CASE type = "message" /\ Stream!TextDelta(index, event.fragment)
  BY <1>3, <1>4, <1>5, <1>8, <1>9, MessageDeltaRead
<1>10. CASE type = "reasoning" /\ Stream!ReasoningDelta(index, event.fragment)
  BY <1>3, <1>4, <1>5, <1>8, <1>10, ReasoningDeltaRead
<1>11. ASSUME NEW custom \in BOOLEAN, type \in {"function_call", "custom_tool_call"},
              custom <=> type = "custom_tool_call", Stream!ToolDelta(index, custom, event.fragment)
       PROVE  StepRead
  <2>1. IsTool(index)
    BY <1>11 DEF IsTool
  <2>2. custom <=> TrueItem(index).type = "custom_tool_call"
    BY <1>11
  <2> QED
    BY <1>3, <1>4, <1>5, <1>8, <1>11, <2>1, <2>2, ToolDeltaRead
<1>12. CASE type = "function_call" /\ Stream!ToolDelta(index, FALSE, event.fragment)
  BY <1>11, <1>12
<1>13. CASE type = "custom_tool_call" /\ Stream!ToolDelta(index, TRUE, event.fragment)
  BY <1>11, <1>13
<1> QED
  BY <1>7, <1>9, <1>10, <1>12, <1>13 DEF DeltaOf

LEMMA DoneEventRead ==
    ASSUME ItemsInv, StreamShape, CallInv, ~streamTerminal, NEW k, NEW bs, NEW d, NowRead(k, bs, d),
           NEW index \in TrueItems, NEW event \in Dones(index), ~told[index].closed,
           InOrder(event), Tell(event), Convert(event)
    PROVE  StepRead
<1> DEFINE type == TrueItem(index).type
<1>1. PICK part \in OpenParts(index), repeated \in BOOLEAN, call \in SomeCall(index) :
          event = [type |-> "done", index |-> index, kind |-> type, part |-> part,
                   text |-> IF repeated THEN TrueParts(index)[part] ELSE <<>>, call |-> call]
  BY DEF Dones
<1>2. /\ event.type = "done" /\ event.index = index /\ "index" \in DOMAIN event
      /\ event.kind = type
  BY <1>1
<1>3. told[index].seen /\ PartInOrder(event)
  BY <1>2 DEF InOrder, PartInOrder
<1>4. /\ index = k
      /\ ReadSoFar(emitted, nextBlockIndex, active, bs)
      /\ Flagged(told, hasTool, sawContent, bs)
      /\ OpenItem(k, told[k], bs, active, d)
  BY <1>3, NowTold
<1>5. NowRead(index, bs, d) /\ OpenItem(index, told[index], bs, active, d)
  BY <1>4
<1>6. OnlyTold(index) /\ told'[index].seen /\ ~told'[index].closed
  BY ToldDone
<1>7. DoneOf(type, index, event.text) \/ (NoUseFor(event) /\ UNCHANGED streamVars)
  BY <1>2 DEF Convert, Handle, Stream!TerminalTypes
<1>8. ASSUME NEW d1, (\E bs1 : GoesOn(index, bs1, d1)) \/ GivesUp(index)
      PROVE  StepRead
  BY <1>3, <1>5, <1>6, <1>8, GoesOnStep
<1>9. CASE type = "message"
  <2>1. \/ Stream!TextDone(event.text)
        \/ /\ active.kind # "text" /\ ~(active = Stream!NoBlock /\ event.text # <<>>)
           /\ UNCHANGED streamVars
    BY <1>2, <1>7, <1>9 DEF DoneOf, NoUseFor
  <2>2. \E bs1 : GoesOn(index, bs1, d + 1)
    BY <1>3, <1>4, <1>5, <1>9, <2>1, MessageDoneRead
  <2> QED
    BY <1>8, <2>2
<1>10. CASE type = "reasoning"
  <2>1. \/ Stream!ReasoningDone(event.text)
        \/ /\ ~(active.kind = "thinking" /\ ~active.hadDelta /\ event.text # <<>>)
           /\ UNCHANGED streamVars
    BY <1>2, <1>7, <1>10 DEF DoneOf, NoUseFor
  <2>2. \E bs1 : GoesOn(index, bs1, d + 1)
    BY <1>3, <1>4, <1>5, <1>10, <2>1, ReasoningDoneRead
  <2> QED
    BY <1>8, <2>2
<1>11. ASSUME NEW custom \in BOOLEAN, type \in {"function_call", "custom_tool_call"},
              custom <=> type = "custom_tool_call", Stream!ToolDone(index, custom, event.text)
       PROVE  StepRead
  <2>1. IsTool(index)
    BY <1>11 DEF IsTool
  <2>2. custom <=> TrueItem(index).type = "custom_tool_call"
    BY <1>11
  <2>3. (\E bs1 : GoesOn(index, bs1, 1)) \/ GivesUp(index)
    BY <1>3, <1>4, <1>5, <1>11, <2>1, <2>2, ToolDoneRead
  <2> QED
    BY <1>8, <2>3
<1>12. CASE type = "function_call" /\ Stream!ToolDone(index, FALSE, event.text)
  BY <1>11, <1>12
<1>13. CASE type = "custom_tool_call" /\ Stream!ToolDone(index, TRUE, event.text)
  BY <1>11, <1>13
<1>14. type \notin {"message", "reasoning"} => ~NoUseFor(event)
  BY <1>2 DEF NoUseFor
<1> QED
  BY <1>7, <1>9, <1>10, <1>12, <1>13, <1>14 DEF DoneOf

\* The end of a call: its input is completed, unless it was before.
LEMMA CallEndRead ==
    ASSUME ItemsInv, StreamShape, CallInv, ~streamTerminal, NEW k \in TrueItems, IsTool(k),
           NEW custom \in BOOLEAN, custom <=> TrueItem(k).type = "custom_tool_call",
           NEW bs, NEW d, ReadSoFar(emitted, nextBlockIndex, active, bs), OpenItem(k, told[k], bs, active, d),
           Flagged(told, hasTool, sawContent, bs),
           NEW value \in {<<>>, TrueParts(k)[1]},
           \/ DOMAIN TrueParts(k) \subseteq told[k].done
           \/ \A part \in DOMAIN TrueParts(k) : SentWhole(k, part)
           \/ TellsPart(k, 1, value),
           \/ active = Stream!NoBlock /\ UNCHANGED streamVars
           \/ active # Stream!NoBlock /\ Stream!HandleToolDone(k, custom, value)
    PROVE  (ValidCall(k) /\ \E bs1 : IsOver(k, bs1)) \/ GivesUp(k)
<1>1. OpenTool(k, told[k], bs, active, d) /\ Progress(k, told[k], d)
  BY DEF OpenItem
<1>2. Stream!NoBlock.kind = "none"
  BY DEF Stream!NoBlock
<1>3. CASE d = 1
  <2>1. active = Stream!NoBlock /\ Gist(bs) = GistBefore(k + 1) /\ ValidCall(k)
    BY <1>1, <1>3 DEF OpenTool
  <2>2. UNCHANGED streamVars
    BY <2>1
  <2>3. ReadSoFar(emitted', nextBlockIndex', active', bs) /\ FlagsKept(bs) /\ active' = active
    BY <2>2, IgnoredRead
  <2>4. IsOver(k, bs)
    BY <2>1, <2>3 DEF IsOver
  <2> QED
    BY <2>1, <2>4
<1>4. CASE d = 0
  <2>1. active.kind = "tool_use"
    BY <1>1, <1>4 DEF OpenTool
  <2>2. Stream!HandleToolDone(k, custom, value)
    BY <1>2, <2>1
  <2>3. Len(TrueParts(k)) = 1 /\ TrueParts(k)[1] \in Seq(Fragments) /\ DOMAIN TrueParts(k) = 1 .. Len(TrueParts(k))
    BY CallType, TruePart DEF ItemsInv
  <2>4. 1 \in DOMAIN TrueParts(k)
    BY <2>3
  <2>5. told[k].done = {}
    BY <1>1, <1>4 DEF Progress
  <2>6. \/ SentOf(told[k], 1) = Len(TrueParts(k)[1])
        \/ SentOf(told[k], 1) = 0 /\ value = TrueParts(k)[1]
    BY <2>4, <2>5, SentSame DEF SentWhole, TellsPart
  <2>7. OpenItem(k, told[k], bs, active, 0)
    BY <1>4
  <2> QED
    BY <2>2, <2>6, <2>7, ToolEndRead
<1> QED
  BY <1>1, <1>3, <1>4 DEF OpenTool

LEMMA ItemDoneRead ==
    ASSUME ItemsInv, StreamShape, CallInv, ~streamTerminal, NEW k, NEW bs, NEW d, NowRead(k, bs, d),
           NEW index \in TrueItems, NEW event \in ItemDones(index), ~told[index].closed,
           InOrder(event), Tell(event), Convert(event)
    PROVE  StepRead
<1> DEFINE type == TrueItem(index).type
           shown == Shown(event.item)
<1>1. PICK call \in SomeCall(index), signature \in {NoSignature, TrueItem(index).signature},
           data \in {BlankData, TrueItem(index).data} :
          event = [type |-> "response.output_item.done", index |-> index,
                   item |-> [type |-> type, call |-> call, signature |-> signature, data |-> data]]
  BY DEF ItemDones
<1>2. /\ event.type = "response.output_item.done" /\ event.index = index /\ "index" \in DOMAIN event
      /\ event.item.type = type /\ event.item.signature = signature /\ event.item.data = data
  BY <1>1
<1>3. /\ told[index].seen
      /\ \/ DOMAIN TrueParts(index) \subseteq told[index].done
         \/ \A part \in DOMAIN TrueParts(index) : SentWhole(index, part)
         \/ IsTool(index) /\ TellsPart(index, 1, data[FieldOf[type]][1])
      /\ told[index].signature \/ signature = TrueItem(index).signature
  BY <1>2 DEF InOrder
<1>4. /\ index = k
      /\ ReadSoFar(emitted, nextBlockIndex, active, bs)
      /\ Flagged(told, hasTool, sawContent, bs)
      /\ OpenItem(k, told[k], bs, active, d)
  BY <1>3, NowTold
<1>5. NowRead(index, bs, d) /\ OpenItem(index, told[index], bs, active, d)
  BY <1>4
<1>6. OnlyTold(index) /\ told'[index].seen /\ told'[index].closed
  BY ToldItemDone
<1>7. (ValidCall(index) /\ \E bs1 : IsOver(index, bs1)) \/ GivesUp(index) => StepRead
  BY <1>3, <1>5, <1>6, IsOverStep
<1>8. truth \in TrueResponses /\ type \in {"message", "reasoning", "function_call", "custom_tool_call"}
  BY TrueItemType, FieldsKnown DEF ItemsInv
<1>9. shown.type = type
  BY <1>2, <1>8 DEF Shown
<1>10. /\ Stream!ItemDone(index, shown) \/ (NoUseFor(event) /\ UNCHANGED streamVars)
       /\ Stream!ItemDone(index, shown) => active # Stream!NoBlock
       /\ NoUseFor(event) =>
             \/ active = Stream!NoBlock
             \/ type = "message" /\ active.kind \in {"thinking", "tool_use"}
  BY <1>2 DEF Convert, Handle, NoUseFor, Stream!TerminalTypes, Stream!ItemDone
<1>11. active # Stream!NoBlock => active.outputIndex = index
  BY <1>5 DEF OpenItem
<1>12. Stream!NoBlock.kind = "none"
  BY DEF Stream!NoBlock
<1> HIDE DEF shown
<1>13. CASE type = "message"
  <2>1. ~IsTool(index) /\ ValidCall(index)
    BY <1>13 DEF IsTool, ValidCall
  <2>2. active # Stream!NoBlock => active.kind = "text"
    BY <1>5, <1>13 DEF OpenItem, OpenMessage
  <2>3. Stream!ItemDone(index, shown) => Stream!SendAndClose(<<>>)
    BY <1>9, <1>11, <1>13 DEF Stream!ItemDone
  <2>4. \/ active # Stream!NoBlock /\ Stream!SendAndClose(<<>>)
        \/ active = Stream!NoBlock /\ UNCHANGED streamVars
    BY <1>10, <2>2, <2>3
  <2>5. IsOver(index, bs)
    BY <1>3, <1>4, <1>5, <1>13, <2>1, <2>4, MessageEndRead
  <2> QED
    BY <1>7, <2>1, <2>5
<1>14. CASE type = "reasoning"
  <2>1. ~IsTool(index) /\ ValidCall(index)
    BY <1>14 DEF IsTool, ValidCall
  <2>2. active.kind = "thinking"
    BY <1>5, <1>14 DEF OpenItem, OpenReasoning
  <2>3. Stream!ItemDone(index, shown)
    BY <1>10, <1>12, <1>14, <2>2
  <2>4. shown.signature = signature
    BY <1>2, <1>14 DEF Shown, shown
  <2>5. /\ emitted' = emitted \o Stream!Closing(Stream!Signed(signature))
        /\ active' = Stream!NoBlock /\ nextBlockIndex' = nextBlockIndex + 1
        /\ hasTool' = hasTool /\ sawContent' = sawContent
        /\ streamTerminal' = streamTerminal /\ streamErr' = streamErr
    BY <1>9, <1>11, <1>14, <2>3, <2>4 DEF Stream!ItemDone
  <2>6. \E bs1 : IsOver(index, bs1)
    BY <1>3, <1>4, <1>5, <1>14, <2>1, <2>5, ReasoningEndRead
  <2> QED
    BY <1>7, <2>1, <2>6
<1>15. ASSUME NEW custom \in BOOLEAN, type \in {"function_call", "custom_tool_call"},
              custom <=> type = "custom_tool_call",
              NEW value, value = data[FieldOf[type]][1],
              Stream!ItemDone(index, shown) => Stream!HandleToolDone(index, custom, value)
       PROVE  StepRead
  <2>1. IsTool(index)
    BY <1>15 DEF IsTool
  <2>2. custom <=> TrueItem(index).type = "custom_tool_call"
    BY <1>15
  <2>3. value \in {<<>>, TrueParts(index)[1]}
    BY <1>15, <1>8 DEF TrueParts, BlankData, FieldOf
  <2>4. \/ DOMAIN TrueParts(index) \subseteq told[index].done
        \/ \A part \in DOMAIN TrueParts(index) : SentWhole(index, part)
        \/ TellsPart(index, 1, value)
    BY <1>3, <1>15
  <2>5. \/ active = Stream!NoBlock /\ UNCHANGED streamVars
        \/ active # Stream!NoBlock /\ Stream!HandleToolDone(index, custom, value)
    BY <1>10, <1>15
  <2>6. (ValidCall(index) /\ \E bs1 : IsOver(index, bs1)) \/ GivesUp(index)
    BY <1>4, <1>5, <2>1, <2>2, <2>3, <2>4, <2>5, CallEndRead
  <2> QED
    BY <1>7, <2>6
<1>16. CASE type = "function_call"
  <2>1. shown.arguments = data["arguments"][1] /\ FieldOf[type] = "arguments"
    BY <1>2, <1>16 DEF Shown, FieldOf, shown
  <2>2. Stream!ItemDone(index, shown) => Stream!HandleToolDone(index, FALSE, shown.arguments)
    BY <1>9, <1>11, <1>16 DEF Stream!ItemDone
  <2> QED
    BY <1>15, <1>16, <2>1, <2>2
<1>17. CASE type = "custom_tool_call"
  <2>1. shown.input = data["input"][1] /\ FieldOf[type] = "input"
    BY <1>2, <1>17 DEF Shown, FieldOf, shown
  <2>2. Stream!ItemDone(index, shown) => Stream!HandleToolDone(index, TRUE, shown.input)
    BY <1>9, <1>11, <1>17 DEF Stream!ItemDone
  <2> QED
    BY <1>15, <1>17, <2>1, <2>2
<1> QED
  BY <1>8, <1>13, <1>14, <1>16, <1>17

-----------------------------------------------------------------------------
(* The Output list the upstream produces *)

LEMMA SameOutput ==
    ASSUME NEW output
    PROVE  /\ Stream!OutputBlocks(output) = OutputBlocks(output)
           /\ Stream!ValidOutput(output) <=> ValidOutput(output)
           /\ Stream!OutputHasTool(output) <=> OutputHasTool(output)
<1>1. Stream!OutputBlocks(output) = OutputBlocks(output)
  <2>1. \A item : Stream!ItemBlocks(item) = ItemBlocks(item)
    BY DEF Stream!ItemBlocks, ItemBlocks, Stream!ContentBlock, ContentBlock, Stream!FunctionToolInput,
           FunctionToolInput, Stream!CustomToolInput, CustomToolInput, Stream!EmptyObject, EmptyObject,
           Stream!Blank, Blank
  <2>2. [i \in 1 .. Len(output) |-> Stream!ItemBlocks(output[i])] = [i \in 1 .. Len(output) |-> ItemBlocks(output[i])]
    BY <2>1
  <2> QED
    BY <2>2, SameFlattenSeq DEF Stream!OutputBlocks, OutputBlocks
<1> QED
  BY <1>1 DEF Stream!ValidOutput, ValidOutput, Stream!ValidArguments, ValidArguments, Stream!Blank, Blank,
              Stream!OutputHasTool, OutputHasTool

LEMMA SameReason ==
    ASSUME NEW status, NEW maxTokens, NEW tool
    PROVE  /\ Stream!StopReasonFor(status, maxTokens, tool) = StopReasonFor(status, maxTokens, tool)
           /\ StopReasonFor(status, maxTokens, tool) \in {"end_turn", "max_tokens", "tool_use"}
BY DEF Stream!StopReasonFor, StopReasonFor

LEMMA ShownTrueItem ==
    ASSUME truth \in TrueResponses, NEW index \in TrueItems
    PROVE  /\ Shown(TrueItem(index)).type = TrueItem(index).type
           /\ TrueItem(index).type = "function_call" =>
                 Shown(TrueItem(index)).arguments = TrueParts(index)[1]
<1>1. TrueItem(index).type \in {"message", "reasoning", "function_call", "custom_tool_call"}
  BY TruePartsType
<1>2. Shown(TrueItem(index)).type = TrueItem(index).type
  BY <1>1 DEF Shown
<1>3. CASE TrueItem(index).type = "function_call"
  BY <1>2, <1>3 DEF Shown, TrueParts
<1> QED
  BY <1>2, <1>3

LEMMA ShownTruthType ==
    ASSUME truth \in TrueResponses
    PROVE  /\ Len(truth.output) \in Nat
           /\ DOMAIN truth.output = 1 .. Len(truth.output)
           /\ Len(ShownTruth) = Len(truth.output)
           /\ ShownTruth = <<>> => truth.output = <<>>
           /\ \A i \in 1 .. Len(truth.output) : i - 1 \in TrueItems /\ ShownTruth[i] = Shown(TrueItem(i - 1))
           /\ \A index \in TrueItems : index + 1 \in 1 .. Len(truth.output)
<1>1. truth.output \in Seq(ResponseItems)
  BY TrueResponseType
<1>2. Len(truth.output) \in Nat /\ DOMAIN truth.output = 1 .. Len(truth.output)
  BY <1>1, LenProperties
<1>3. Len(ShownTruth) = Len(truth.output)
  BY <1>2 DEF ShownTruth
<1>4. ShownTruth = <<>> => truth.output = <<>>
  <2>1. ShownTruth = <<>> => Len(truth.output) = 0
    BY <1>3, EmptySeq
  <2> QED
    BY <1>1, <2>1, EmptySeq
<1>5. ASSUME NEW i \in 1 .. Len(truth.output)
      PROVE  i - 1 \in TrueItems /\ ShownTruth[i] = Shown(TrueItem(i - 1))
  <2>1. i - 1 \in TrueItems /\ (i - 1) + 1 = i
    BY <1>2 DEF TrueItems
  <2> QED
    BY <2>1 DEF ShownTruth, TrueItem
<1>6. \A index \in TrueItems : index + 1 \in 1 .. Len(truth.output)
  BY <1>2 DEF TrueItems
<1> QED
  BY <1>2, <1>3, <1>4, <1>5, <1>6

LEMMA ValidTruth ==
    ASSUME truth \in TrueResponses
    PROVE  ValidOutput(ShownTruth) <=> \A index \in TrueItems : ValidCall(index)
<1>1. ASSUME ValidOutput(ShownTruth), NEW index \in TrueItems PROVE ValidCall(index)
  <2>1. index + 1 \in 1 .. Len(ShownTruth) /\ (index + 1) - 1 = index
    BY ShownTruthType DEF TrueItems
  <2>2. ShownTruth[index + 1] = Shown(TrueItem(index))
    BY <2>1, ShownTruthType
  <2>3. Shown(TrueItem(index)).type = "function_call" => ValidArguments(Shown(TrueItem(index)).arguments)
    BY <1>1, <2>1, <2>2 DEF ValidOutput
  <2> QED
    BY <2>3, ShownTrueItem DEF ValidCall
<1>2. ASSUME \A index \in TrueItems : ValidCall(index), NEW i \in 1 .. Len(ShownTruth),
             ShownTruth[i].type = "function_call"
      PROVE  ValidArguments(ShownTruth[i].arguments)
  <2>1. i - 1 \in TrueItems /\ ShownTruth[i] = Shown(TrueItem(i - 1))
    BY ShownTruthType
  <2> QED
    BY <1>2, <2>1, ShownTrueItem DEF ValidCall
<1>3. ASSUME \A index \in TrueItems : ValidCall(index) PROVE ValidOutput(ShownTruth)
  BY <1>2, <1>3 DEF ValidOutput
<1> QED
  BY <1>1, <1>3

LEMMA ToolsOfTruth ==
    ASSUME truth \in TrueResponses
    PROVE  OutputHasTool(ShownTruth) <=> \E index \in TrueItems : IsTool(index)
<1>1. ASSUME NEW index \in TrueItems, IsTool(index) PROVE OutputHasTool(ShownTruth)
  <2>1. index + 1 \in 1 .. Len(ShownTruth) /\ (index + 1) - 1 = index
    BY ShownTruthType DEF TrueItems
  <2>2. ShownTruth[index + 1] = Shown(TrueItem(index))
    BY <2>1, ShownTruthType
  <2> QED
    BY <1>1, <2>1, <2>2, ShownTrueItem DEF OutputHasTool, IsTool
<1>2. ASSUME NEW i \in 1 .. Len(ShownTruth), ShownTruth[i].type \in {"function_call", "custom_tool_call"}
      PROVE  \E index \in TrueItems : IsTool(index)
  <2>1. i - 1 \in TrueItems /\ ShownTruth[i] = Shown(TrueItem(i - 1))
    BY ShownTruthType
  <2>2. IsTool(i - 1)
    BY <1>2, <2>1, ShownTrueItem DEF IsTool
  <2> QED
    BY <2>1, <2>2
<1> QED
  BY <1>1, <1>2 DEF OutputHasTool

\* What the client of a buffered answer reads in it.
TrueContent == Latest(OutputBlocks(ShownTruth), <<>>, EmptyText)

LEMMA GistOfContent ==
    ASSUME truth \in TrueResponses
    PROVE  Gist(TrueContent) = GistBefore(Len(truth.output))
<1>1. Gist(OutputBlocks(ShownTruth)) = GistBefore(Len(truth.output))
  BY GistOfOutput
<1>2. CASE OutputBlocks(ShownTruth) = <<>>
  <2>1. Gist(<<>>) = <<>>
    BY GistOfNothing
  <2>2. <<>> \in Stream!Strings
    BY EmptySeq DEF Stream!Strings
  <2>3. ContentBlock("text", <<>>, NoSignature) \in ReadBlocks
    BY <2>2, BlockFields DEF SignatureValues
  <2>4. Gist(EmptyText) = Reading(ContentBlock("text", <<>>, NoSignature))
    BY <2>3, GistOfOne DEF EmptyText
  <2>5. Reading(ContentBlock("text", <<>>, NoSignature)) = Units(<<>>)
    BY <2>3, ReadingType, BlockFields
  <2> QED
    BY <1>1, <1>2, <2>1, <2>4, <2>5, UnitsOfNothing DEF TrueContent, Latest
<1>3. CASE OutputBlocks(ShownTruth) # <<>>
  BY <1>1, <1>3 DEF TrueContent, Latest
<1> QED
  BY <1>2, <1>3

-----------------------------------------------------------------------------
(* The end of the stream *)

\* The answer of the stream is the one of the accumulator, when both have ended.
TrueEnd(serr, aerr, s) ==
    /\ serr = "none" <=> aerr = "none" /\ ValidOutput(ShownTruth)
    /\ serr = "none" =>
          /\ Gist(StreamedBlocks(s)) = Gist(TrueContent)
          /\ s[Len(s) - 1].stop_reason =
                StopReasonFor(truth.status, truth.details = "max_output_tokens", OutputHasTool(ShownTruth))

\* Everything was told, to the end.
LEMMA AllTold ==
    ASSUME truth \in TrueResponses, NEW k, NEW bs, NEW d, NowRead(k, bs, d),
           \A index \in TrueItems : told[index].closed
    PROVE  /\ active = Stream!NoBlock
           /\ Gist(bs) = GistBefore(Len(truth.output))
           /\ ValidOutput(ShownTruth)
           /\ hasTool <=> OutputHasTool(ShownTruth)
<1>1. InTurn(k, told) /\ Flagged(told, hasTool, sawContent, bs) /\ Cursor(k, told, bs, active, d)
  BY DEF NowRead, AnswerSoFar
<1>2. Len(truth.output) \in Nat /\ k \in 0 .. Len(truth.output)
  BY <1>1, ShownTruthType DEF InTurn
<1>3. k \notin TrueItems
  BY <1>1, <1>2 DEF InTurn
<1>4. k = Len(truth.output)
  BY <1>2, <1>3 DEF TrueItems
<1>5. \A index \in TrueItems : told[index].seen /\ ValidCall(index)
  BY <1>1 DEF InTurn
<1>6. ValidOutput(ShownTruth)
  BY <1>5, ValidTruth
<1>7. hasTool <=> OutputHasTool(ShownTruth)
  BY <1>1, <1>5, ToolsOfTruth DEF Flagged
<1> QED
  BY <1>1, <1>3, <1>4, <1>6, <1>7 DEF Cursor

\* Nothing was told.
LEMMA NoneTold ==
    ASSUME truth \in TrueResponses, NEW k, NEW bs, NEW d, NowRead(k, bs, d),
           \A index \in TrueItems : ~told[index].seen
    PROVE  active = Stream!NoBlock /\ ~sawContent
BY DEF NowRead, AnswerSoFar, Flagged, Cursor

\* The Response object of the last event, as the converter looks at it.
TellsTruth(shown) ==
    /\ Stream!TerminalStatus(TrueType, shown) = truth.status
    /\ shown.status # "failed"
    /\ shown.maxTokens <=> truth.details = "max_output_tokens"
    /\ shown.output \in {<<>>, ShownTruth}
    /\ shown.output = <<>> => Told

LEMMA ConclusionShown ==
    ASSUME truth \in TrueResponses, NEW r \in Answers
    PROVE  TellsTruth(ShownResponse(r)) /\ ~TellsFailure(r)
<1>1. truth.status \in {"completed", "incomplete"} /\ truth.output \in Seq(ResponseItems)
  BY TrueResponseType
<1>2. CASE r \in TellingAnswers
  <2>1. PICK status \in ToldStatuses, output \in ToldOutputs : r = Answer(status, output)
    BY <1>2, TellingAnswer
  <2>2. /\ status \in {"", truth.status}
        /\ output \in {<<>>, truth.output} /\ (output = <<>> => Told)
    BY DEF ToldStatuses, ToldOutputs
  <2>3. r = [status |-> status, details |-> truth.details, error |-> FALSE, output |-> output]
    BY <2>1 DEF Answer, Response
  <2>4. r # NoResponse
    <3>1. "output" \in DOMAIN r /\ "output" \notin DOMAIN NoResponse
      BY <2>3 DEF NoResponse
    <3> QED
      BY <3>1
  <2>5. /\ r.status = status /\ r.details = truth.details /\ r.error = FALSE /\ r.output = output
    BY <2>3
  <2> DEFINE list == [i \in DOMAIN output |-> Shown(output[i])]
             shown == ShownResponse(r)
  <2>6. /\ shown.status = status
        /\ shown.maxTokens <=> truth.details = "max_output_tokens"
        /\ shown.output = list
    BY <2>4, <2>5 DEF ShownResponse
  <2>7. list \in {<<>>, ShownTruth} /\ (list = <<>> => Told)
    <3>1. CASE output = <<>>
      <4>1. 1 .. Len(<<>>) = {} /\ DOMAIN <<>> = 1 .. Len(<<>>)
        BY EmptySeq
      <4>2. list = <<>>
        BY <3>1, <4>1
      <4> QED
        BY <2>2, <3>1, <4>2
    <3>2. CASE output # <<>>
      <4>1. output = truth.output
        BY <2>2, <3>2
      <4>2. list = ShownTruth
        BY <4>1, ShownTruthType DEF ShownTruth
      <4>3. list # <<>>
        BY <3>2, <4>1, <4>2, ShownTruthType
      <4> QED
        BY <4>2, <4>3
    <3> QED
      BY <3>1, <3>2
  <2> HIDE DEF list, shown
  <2>8. Stream!TerminalStatus(TrueType, shown) = truth.status
    BY <1>1, <2>2, <2>6 DEF Stream!TerminalStatus, TrueType
  <2>9. shown.status # "failed"
    BY <1>1, <2>2, <2>6
  <2>10. TellsTruth(shown)
    BY <2>6, <2>7, <2>8, <2>9 DEF TellsTruth
  <2>11. ~TellsFailure(r)
    BY <1>1, <2>2, <2>5 DEF TellsFailure
  <2> QED
    BY <2>10, <2>11 DEF shown
<1>3. CASE r \in SilentAnswers
  <2>1. r = NoResponse /\ Told /\ truth.details = NoDetails
    BY <1>3 DEF SilentAnswers
  <2> DEFINE shown == ShownResponse(r)
  <2>2. shown.status = "" /\ shown.maxTokens = FALSE /\ shown.output = <<>>
    BY <2>1 DEF ShownResponse
  <2> HIDE DEF shown
  <2>3. Stream!TerminalStatus(TrueType, shown) = truth.status
    BY <1>1, <2>2 DEF Stream!TerminalStatus, TrueType
  <2>4. TellsTruth(shown)
    BY <2>1, <2>2, <2>3 DEF TellsTruth, NoDetails
  <2> QED
    BY <2>1, <2>4 DEF TellsFailure, shown
<1> QED
  BY <1>2, <1>3 DEF Answers

\* The blocks the last event brings, after those of bs, and what closes the message.
LEMMA LastBlocksRead ==
    ASSUME NEW bs, ReadSoFar(emitted, nextBlockIndex, active, bs), active = Stream!NoBlock,
           NEW blocks \in Seq(PlainBlocks), NEW reason \in {"end_turn", "max_tokens", "tool_use"},
           emitted' = emitted \o Stream!StartMessage \o Stream!CloseActive
                              \o Stream!StreamFullOutput(blocks, nextBlockIndex)
                              \o <<Stream!MessageDelta(reason), Stream!MessageStop>>
    PROVE  /\ StreamedBlocks(emitted') = bs \o blocks
           /\ emitted'[Len(emitted') - 1].stop_reason = reason
<1> DEFINE s == emitted \o Stream!StartMessage
           u == s \o Stream!StreamFullOutput(blocks, nextBlockIndex)
           v == u \o <<Stream!MessageDelta(reason), Stream!MessageStop>>
<1>1. Reads(emitted, bs) /\ Len(bs) = nextBlockIndex
  BY DEF ReadSoFar
<1>2. Reads(s, bs)
  BY <1>1, ReadMessageStart
<1>3. Stream!CloseActive = <<>>
  BY DEF Stream!CloseActive
<1>4. s \o Stream!CloseActive = s
  <2>1. s \in Seq(StreamEvents)
    BY <1>2 DEF Reads
  <2> HIDE DEF s
  <2> QED
    BY <1>3, <2>1
<1> HIDE DEF s
<1>5. Reads(u, bs \o blocks)
  BY <1>1, <1>2, ReadFullOutput
<1> HIDE DEF u
<1>6. Reads(v, bs \o blocks) /\ v[Len(v) - 1].stop_reason = reason
  BY <1>5, ReadEnd
<1>7. emitted' = v
  BY <1>4 DEF s, u, v
<1> HIDE DEF v
<1>8. StreamedBlocks(v) = bs \o blocks
  BY <1>6, ReadIsStreamed
<1> QED
  BY <1>6, <1>7, <1>8

LEMMA ConclusionRead ==
    ASSUME truth \in TrueResponses, streamErr = "none", NEW k, NEW bs, NEW d, NowRead(k, bs, d),
           \/ \A index \in TrueItems : told[index].closed
           \/ \A index \in TrueItems : ~told[index].seen,
           NEW shown, TellsTruth(shown), Stream!HandleTerminal(TrueType, shown),
           NEW aerr, aerr = "none"
    PROVE  streamTerminal' /\ TrueEnd(streamErr', aerr, emitted')
<1> DEFINE uses == Stream!UsesOutput(shown)
           blocks == IF uses THEN OutputBlocks(ShownTruth) ELSE <<>>
           tool == hasTool \/ (uses /\ OutputHasTool(ShownTruth))
           limit == truth.details = "max_output_tokens"
           reason == StopReasonFor(truth.status, limit, tool)
<1>1. /\ Stream!TerminalStatus(TrueType, shown) = truth.status
      /\ shown.status # "failed"
      /\ shown.maxTokens <=> limit
      /\ shown.output \in {<<>>, ShownTruth}
      /\ shown.output = <<>> => Told
  BY DEF TellsTruth
<1>2. ReadSoFar(emitted, nextBlockIndex, active, bs) /\ Flagged(told, hasTool, sawContent, bs)
  BY DEF NowRead, AnswerSoFar
<1>3. bs \in Seq(ReadBlocks)
  BY <1>2 DEF ReadSoFar, Reads
<1>4. active = Stream!NoBlock
  BY AllTold, NoneTold
<1>5. uses => shown.output = ShownTruth /\ bs = <<>>
  BY <1>1, <1>2 DEF Stream!UsesOutput, Flagged
<1>6. ~uses => \A index \in TrueItems : told[index].closed
  <2>1. CASE \A index \in TrueItems : told[index].closed
    BY <2>1
  <2>2. CASE \A index \in TrueItems : ~told[index].seen
    <3>1. ~uses => Told
      BY <1>1, <2>2, NoneTold DEF Stream!UsesOutput
    <3>2. Told => \A index \in TrueItems : told[index].seen
      BY DEF Told, WholeItem
    <3> QED
      BY <2>2, <3>1, <3>2
  <2> QED
    BY <2>1, <2>2
<1>7. ~uses => /\ Gist(bs) = GistBefore(Len(truth.output))
               /\ ValidOutput(ShownTruth)
               /\ hasTool <=> OutputHasTool(ShownTruth)
  BY <1>6, AllTold
<1>8. hasTool => OutputHasTool(ShownTruth)
  BY <1>2, ToolsOfTruth DEF Flagged
<1>9. uses => /\ Stream!OutputBlocks(shown.output) = OutputBlocks(ShownTruth)
              /\ Stream!ValidOutput(shown.output) <=> ValidOutput(ShownTruth)
              /\ Stream!OutputHasTool(shown.output) <=> OutputHasTool(ShownTruth)
  BY <1>5, SameOutput
<1>10. tool <=> OutputHasTool(ShownTruth)
  BY <1>7, <1>8
<1>11. CASE uses /\ ~ValidOutput(ShownTruth) /\ Stream!FailWith("conversion")
  BY <1>11 DEF Stream!FailWith, TrueEnd
<1>12. CASE /\ uses => ValidOutput(ShownTruth)
            /\ emitted' = emitted \o Stream!StartMessage \o Stream!CloseActive
                                  \o Stream!StreamFullOutput(blocks, nextBlockIndex)
                                  \o <<Stream!MessageDelta(reason), Stream!MessageStop>>
            /\ streamTerminal' = TRUE
            /\ streamErr' = streamErr
  <2>1. blocks \in Seq(PlainBlocks)
    BY GistOfOutput, EmptySeq
  <2>2. reason \in {"end_turn", "max_tokens", "tool_use"}
    BY SameReason
  <2>3. StreamedBlocks(emitted') = bs \o blocks /\ emitted'[Len(emitted') - 1].stop_reason = reason
    <3> HIDE DEF blocks, reason
    <3> QED
      BY <1>2, <1>4, <1>12, <2>1, <2>2, LastBlocksRead
  <2>4. Gist(bs \o blocks) = GistBefore(Len(truth.output))
    <3>1. CASE uses
      <4>1. OutputBlocks(ShownTruth) \in Seq(ReadBlocks)
        BY <2>1, <3>1 DEF PlainBlocks
      <4>2. bs \o blocks = OutputBlocks(ShownTruth)
        <5> DEFINE list == OutputBlocks(ShownTruth)
        <5>1. bs = <<>> /\ blocks = list
          BY <1>5, <3>1
        <5> HIDE DEF list, blocks, uses
        <5> QED
          BY <4>1, <5>1 DEF list
      <4> QED
        BY <4>2, GistOfOutput
    <3>2. CASE ~uses
      <4>1. blocks = <<>>
        BY <3>2
      <4>2. bs \o blocks = bs
        <5> HIDE DEF blocks
        <5> QED
          BY <1>3, <4>1
      <4> QED
        BY <1>7, <3>2, <4>2
    <3> QED
      BY <3>1, <3>2
  <2>5. ValidOutput(ShownTruth)
    BY <1>7, <1>12
  <2>6. reason = StopReasonFor(truth.status, limit, OutputHasTool(ShownTruth))
    <3> HIDE DEF tool
    <3> QED
      BY <1>10 DEF StopReasonFor
  <2> HIDE DEF blocks, reason
  <2> QED
    BY <1>12, <2>3, <2>4, <2>5, <2>6, GistOfContent DEF TrueEnd
<1>13. \/ uses /\ ~ValidOutput(ShownTruth) /\ Stream!FailWith("conversion")
       \/ /\ uses => ValidOutput(ShownTruth)
          /\ emitted' = emitted \o Stream!StartMessage \o Stream!CloseActive
                                \o Stream!StreamFullOutput(blocks, nextBlockIndex)
                                \o <<Stream!MessageDelta(reason), Stream!MessageStop>>
          /\ streamTerminal' = TRUE
          /\ streamErr' = streamErr
  <2> DEFINE blocks0 == IF uses THEN Stream!OutputBlocks(shown.output) ELSE <<>>
             tool0 == hasTool \/ (uses /\ Stream!OutputHasTool(shown.output))
             reason0 == Stream!StopReasonFor(Stream!TerminalStatus(TrueType, shown), shown.maxTokens, tool0)
  <2>1. blocks0 = blocks
    BY <1>9
  <2>2. reason0 = reason
    <3>1. tool0 <=> tool
      BY <1>9
    <3> HIDE DEF tool0, tool, limit
    <3>2. Stream!StopReasonFor(truth.status, shown.maxTokens, tool0) = StopReasonFor(truth.status, limit, tool)
      BY <1>1, <3>1 DEF Stream!StopReasonFor, StopReasonFor
    <3> QED
      BY <1>1, <3>2
  <2>3. \/ uses /\ ~Stream!ValidOutput(shown.output) /\ Stream!FailWith("conversion")
        \/ /\ uses => Stream!ValidOutput(shown.output)
           /\ emitted' = emitted \o Stream!StartMessage \o Stream!CloseActive
                                 \o Stream!StreamFullOutput(blocks0, nextBlockIndex)
                                 \o <<Stream!MessageDelta(reason0), Stream!MessageStop>>
           /\ streamTerminal' = TRUE
           /\ streamErr' = streamErr
    BY <1>1 DEF Stream!HandleTerminal
  <2> HIDE DEF blocks, blocks0, reason, reason0, uses
  <2> QED
    BY <1>9, <2>1, <2>2, <2>3
<1> QED
  BY <1>11, <1>12, <1>13

\* Both have ended, with the same answer.
BothEnd == terminal' /\ streamTerminal' /\ TrueEnd(streamErr', err', emitted')

LEMMA ConclusionEventRead ==
    ASSUME Inv, ~terminal, ~streamTerminal, streamErr = "none",
           NEW k, NEW bs, NEW d, NowRead(k, bs, d), NEW event \in Conclusions,
           InOrder(event), Process(event), Convert(event)
    PROVE  BothEnd
<1>1. PICK r \in Answers : event = [type |-> TrueType, response |-> r]
  BY DEF Conclusions
<1>2. /\ event.type = TrueType /\ event.response = r
      /\ event.type \in {"response.completed", "response.incomplete"}
  BY <1>1 DEF TrueType
<1>3. truth \in TrueResponses /\ err = "none"
  BY DEF Inv, ItemsInv, ResponseInv
<1>4. TellsTruth(ShownResponse(r)) /\ ~TellsFailure(r)
  BY <1>3, ConclusionShown
<1>5. terminal' /\ err' = "none"
  <2>1. TerminalFailure(r) \/ Terminal(TrueType, r)
    BY <1>2 DEF Process
  <2> QED
    BY <1>3, <1>4, <2>1 DEF TerminalFailure, Terminal
<1>6. Stream!HandleTerminal(TrueType, ShownResponse(r))
  BY <1>2 DEF Convert, Handle, NoUseFor
<1>7. \/ \A index \in TrueItems : told[index].closed
      \/ \A index \in TrueItems : ~told[index].seen
  BY <1>2 DEF InOrder
<1> DEFINE shown == ShownResponse(r)
<1>8. TellsTruth(shown) /\ Stream!HandleTerminal(TrueType, shown)
  BY <1>4, <1>6
<1> HIDE DEF shown
<1>9. streamTerminal' /\ TrueEnd(streamErr', err', emitted')
  BY <1>3, <1>5, <1>7, <1>8, ConclusionRead
<1> QED
  BY <1>5, <1>9 DEF BothEnd

\* The response fails.
LEMMA FailureEventRead ==
    ASSUME ~streamTerminal, NEW event \in Failures, Process(event), Convert(event)
    PROVE  BothEnd
<1>1. CASE event = [type |-> "response.failed"]
  <2>1. event.type = "response.failed"
    BY <1>1
  <2>2. UpstreamFailure /\ Stream!UpstreamFailure
    BY <2>1 DEF Process, Convert, Handle, NoUseFor, Stream!TerminalTypes
  <2> QED
    BY <2>2 DEF UpstreamFailure, Fail, Stream!UpstreamFailure, Stream!Fail, Stream!FailWith, BothEnd, TrueEnd
<1>2. ASSUME NEW r, event = [type |-> TrueType, response |-> r], TellsFailure(r),
             ShownResponse(r).status = "failed"
      PROVE  BothEnd
  <2>1. /\ event.type = TrueType /\ event.response = r
        /\ event.type \in {"response.completed", "response.incomplete"}
    BY <1>2 DEF TrueType
  <2>2. terminal' /\ err' = "upstream"
    <3>1. TerminalFailure(r) \/ Terminal(TrueType, r)
      BY <2>1 DEF Process
    <3> QED
      BY <1>2, <3>1 DEF TerminalFailure, Terminal, Fail
  <2>3. Stream!HandleTerminal(TrueType, ShownResponse(r))
    BY <2>1 DEF Convert, Handle, NoUseFor
  <2>4. Stream!Fail("upstream")
    BY <1>2, <2>3 DEF Stream!HandleTerminal
  <2> QED
    BY <2>2, <2>4 DEF Stream!Fail, Stream!FailWith, BothEnd, TrueEnd
<1>3. CASE event = [type |-> TrueType, response |-> Response("failed", NoDetails, FALSE, <<>>)]
  <2> DEFINE r == Response("failed", NoDetails, FALSE, <<>>)
  <2>1. r.status = "failed" /\ "output" \in DOMAIN r /\ "output" \notin DOMAIN NoResponse
    BY DEF Response, NoResponse
  <2> HIDE DEF r
  <2>2. r # NoResponse
    BY <2>1
  <2>3. TellsFailure(r) /\ ShownResponse(r).status = "failed"
    BY <2>1, <2>2 DEF TellsFailure, ShownResponse
  <2> QED
    BY <1>2, <1>3, <2>3 DEF r
<1>4. CASE event = [type |-> TrueType, response |-> Response("", NoDetails, TRUE, <<>>)]
  <2> DEFINE r == Response("", NoDetails, TRUE, <<>>)
  <2>1. r.error = TRUE /\ "output" \in DOMAIN r /\ "output" \notin DOMAIN NoResponse
    BY DEF Response, NoResponse
  <2> HIDE DEF r
  <2>2. r # NoResponse
    BY <2>1
  <2>3. TellsFailure(r) /\ ShownResponse(r).status = "failed"
    BY <2>1, <2>2 DEF TellsFailure, ShownResponse
  <2> QED
    BY <1>2, <1>4, <2>3 DEF r
<1> QED
  BY <1>1, <1>3, <1>4 DEF Failures

\* The response begins.
LEMMA BeginningRead ==
    ASSUME ~streamTerminal, NEW k, NEW bs, NEW d, NowRead(k, bs, d), NEW event \in Beginnings,
           Tell(event), Convert(event)
    PROVE  StepRead
<1>1. event.type = "response.created" /\ "index" \notin DOMAIN event
  <2>1. PICK status \in {"", "in_progress"} :
            event = [type |-> "response.created", response |-> Response(status, NoDetails, FALSE, <<>>)]
    BY DEF Beginnings
  <2> QED
    BY <2>1
<1>2. Stream!Created
  BY <1>1 DEF Convert, Handle, NoUseFor, Stream!TerminalTypes
<1>3. told' = told
  BY <1>1 DEF Tell
<1>4. /\ emitted' = emitted \o Stream!StartMessage
      /\ active' = active /\ nextBlockIndex' = nextBlockIndex /\ hasTool' = hasTool
      /\ sawContent' = sawContent /\ streamTerminal' = streamTerminal /\ streamErr' = streamErr
  BY <1>2 DEF Stream!Created
<1>5. ReadSoFar(emitted, nextBlockIndex, active, bs)
  BY DEF NowRead, AnswerSoFar
<1>6. Reads(emitted', bs)
  BY <1>4, <1>5, ReadMessageStart DEF ReadSoFar
<1>7. NextRead(k, bs, d)
  BY <1>3, <1>4, <1>5, <1>6 DEF NowRead, NextRead, AnswerSoFar, ReadSoFar
<1> QED
  BY <1>4, <1>7 DEF StepRead

-----------------------------------------------------------------------------
(* A step of the two *)

\* What a step in the usual order leads to.
SameNext ==
    IF terminal' THEN BothEnd
    ELSE IF streamTerminal' THEN streamErr' = "conversion" /\ ~ValidOutput(ShownTruth)
    ELSE streamErr' = "none" /\ \E k, bs, d : NextRead(k, bs, d)

LEMMA StepReadNext ==
    ASSUME truth \in TrueResponses, ~terminal', ~streamTerminal, streamErr = "none", StepRead
    PROVE  SameNext
<1>1. CASE \E k \in TrueItems : GivesUp(k)
  <2>1. ~ValidOutput(ShownTruth)
    BY <1>1, ValidTruth DEF GivesUp
  <2> QED
    BY <1>1, <2>1 DEF SameNext, GivesUp
<1>2. CASE /\ streamTerminal' = streamTerminal
           /\ streamErr' = streamErr
           /\ \E k, bs, d : NextRead(k, bs, d)
  BY <1>2 DEF SameNext
<1> QED
  BY <1>1, <1>2 DEF StepRead

\* Only the last event ends the response.
LEMMA NotTheEnd ==
    ASSUME ~terminal, NEW event, Process(event),
           event.type \in {"response.created", "response.output_item.added", "delta", "done",
                           "response.output_item.done"}
    PROVE  ~terminal'
BY DEF Process, Created, ItemAdded, Delta, Done, ItemDone, Put

\* After it has given up the converter ignores everything.
LEMMA NothingMoreStreamed ==
    ASSUME streamTerminal, NEW event, Convert(event)
    PROVE  UNCHANGED streamVars
BY DEF Convert, Handle, Added, DeltaOf, DoneOf, Stream!UpstreamFailure, Stream!Created, Stream!ReasoningAdded,
       Stream!ToolAdded, Stream!TextDelta, Stream!ReasoningDelta, Stream!ToolDelta, Stream!TextDone,
       Stream!ReasoningDone, Stream!ToolDone, Stream!ItemDone, Stream!HandleTerminal

LEMMA GivenUpNext ==
    ASSUME streamTerminal, streamErr = "conversion", ~ValidOutput(ShownTruth), NEW event, Convert(event)
    PROVE  SameNext
<1>1. streamTerminal' = streamTerminal /\ streamErr' = streamErr
  BY NothingMoreStreamed DEF streamVars
<1> QED
  BY <1>1 DEF SameNext, BothEnd, TrueEnd

LEMMA ReadingNext ==
    ASSUME ComparedInv, ~terminal, ~streamTerminal, streamErr = "none",
           NEW k, NEW bs, NEW d, NowRead(k, bs, d), NEW event \in Offers,
           InOrder(event), Tell(event), Process(event), Convert(event)
    PROVE  SameNext
<1>1. Inv /\ ItemsInv /\ StreamShape /\ CallInv /\ truth \in TrueResponses
  BY DEF ComparedInv, Inv, ItemsInv
<1>2. CASE event \in Failures
  BY <1>2, FailureEventRead DEF SameNext, BothEnd
<1>3. CASE event \in Conclusions
  BY <1>1, <1>3, ConclusionEventRead DEF SameNext, BothEnd
<1>4. CASE event \in Beginnings
  <2>1. event.type = "response.created"
    <3>1. PICK status \in {"", "in_progress"} :
              event = [type |-> "response.created", response |-> Response(status, NoDetails, FALSE, <<>>)]
      BY <1>4 DEF Beginnings
    <3> QED
      BY <3>1
  <2>2. ~terminal'
    BY <2>1, NotTheEnd
  <2>3. StepRead
    BY <1>4, BeginningRead
  <2> QED
    BY <1>1, <2>2, <2>3, StepReadNext
<1>5. ASSUME NEW index \in TrueItems, event \in ItemEvents(index)
      PROVE  SameNext
  <2>1. CASE ~told[index].seen /\ event \in Announcements(index)
    <3>1. event.type = "response.output_item.added"
      BY <2>1 DEF Announcements
    <3>2. ~terminal'
      BY <3>1, NotTheEnd
    <3>3. StepRead
      BY <1>1, <2>1, AnnouncementRead
    <3> QED
      BY <1>1, <3>2, <3>3, StepReadNext
  <2>2. CASE ~told[index].closed /\ event \in Deltas(index)
    <3>1. event.type = "delta"
      BY <2>2 DEF Deltas
    <3>2. ~terminal'
      BY <3>1, NotTheEnd
    <3>3. StepRead
      BY <1>1, <2>2, DeltaEventRead
    <3> QED
      BY <1>1, <3>2, <3>3, StepReadNext
  <2>3. CASE ~told[index].closed /\ event \in Dones(index)
    <3>1. event.type = "done"
      BY <2>3 DEF Dones
    <3>2. ~terminal'
      BY <3>1, NotTheEnd
    <3>3. StepRead
      BY <1>1, <2>3, DoneEventRead
    <3> QED
      BY <1>1, <3>2, <3>3, StepReadNext
  <2>4. CASE ~told[index].closed /\ event \in ItemDones(index)
    <3>1. event.type = "response.output_item.done"
      BY <2>4 DEF ItemDones
    <3>2. ~terminal'
      BY <3>1, NotTheEnd
    <3>3. StepRead
      BY <1>1, <2>4, ItemDoneRead
    <3> QED
      BY <1>1, <3>2, <3>3, StepReadNext
  <2> QED
    BY <1>5, <2>1, <2>2, <2>3, <2>4 DEF ItemEvents
<1> QED
  BY <1>2, <1>3, <1>4, <1>5 DEF Offers

-----------------------------------------------------------------------------
(* The invariant of the two answers *)

\* While the events come in the usual order, the client of a stream has read what was
\* told, or the converter has given up on a call that the accumulator's answer fails for
\* as well.
SameInv ==
    orderly =>
        IF terminal THEN streamTerminal /\ TrueEnd(streamErr, err, emitted)
        ELSE IF streamTerminal THEN streamErr = "conversion" /\ ~ValidOutput(ShownTruth)
        ELSE streamErr = "none" /\ \E k, bs, d : NowRead(k, bs, d)

LEMMA SameInitHolds == ComparedInit => SameInv
<1> SUFFICES ASSUME ComparedInit PROVE SameInv
  OBVIOUS
<1>1. /\ ~terminal /\ ~streamTerminal /\ streamErr = "none" /\ ~hasTool /\ ~sawContent
      /\ nextBlockIndex = 0 /\ active = Stream!NoBlock /\ emitted = <<>>
  BY DEF ComparedInit, Init, AccumulatorInit, Stream!Init
<1>2. truth \in TrueResponses /\ told = [index \in OutputIndexes |-> Untold]
  BY DEF ComparedInit, Init
<1>3. \A index \in TrueItems : ~told[index].seen /\ ~told[index].closed
  BY <1>2, TrueItemType DEF Untold
<1>4. Len(truth.output) \in Nat
  BY <1>2, ShownTruthType
<1>5. InTurn(0, told)
  <2>1. \A index \in TrueItems : index \in Nat
    BY <1>4 DEF TrueItems
  <2> QED
    BY <1>3, <1>4, <2>1 DEF InTurn
<1>6. ReadSoFar(emitted, nextBlockIndex, active, <<>>)
  BY <1>1, ReadNothing, EmptySeq DEF ReadSoFar
<1>7. Flagged(told, hasTool, sawContent, <<>>)
  BY <1>1, <1>3 DEF Flagged
<1>8. Cursor(0, told, <<>>, active, 0)
  BY <1>1, <1>3, GistOfNothing, GistBeforeNothing DEF Cursor
<1>9. NowRead(0, <<>>, 0)
  BY <1>5, <1>6, <1>7, <1>8 DEF NowRead, AnswerSoFar
<1> QED
  BY <1>1, <1>9 DEF SameInv

\* A step in the usual order.
LEMMA SameStep ==
    ASSUME ComparedInv, SameInv, ComparedNext, orderly'
    PROVE  SameNext
<1>1. PICK event \in Offers :
          Tell(event) /\ Process(event) /\ Convert(event) /\ orderly' = (orderly /\ InOrder(event))
  BY DEF ComparedNext
<1>2. orderly /\ InOrder(event)
  BY <1>1
<1>3. ~terminal
  BY <1>1 DEF Process, UpstreamFailure, Created, ItemAdded, Delta, Done, ItemDone, TerminalFailure, Terminal
<1>4. CASE streamTerminal
  BY <1>1, <1>2, <1>3, <1>4, GivenUpNext DEF SameInv
<1>5. CASE ~streamTerminal
  <2>1. streamErr = "none" /\ \E k, bs, d : NowRead(k, bs, d)
    BY <1>2, <1>3, <1>5 DEF SameInv
  <2>2. PICK k, bs, d : NowRead(k, bs, d)
    BY <2>1
  <2> QED
    BY <1>1, <1>2, <1>3, <1>5, <2>1, <2>2, ReadingNext
<1> QED
  BY <1>4, <1>5

\* What is said of the truth stays true.
LEMMA TruthStays ==
    ASSUME truth' = truth
    PROVE  /\ TrueItems' = TrueItems
           /\ \A index : TrueItem(index)' = TrueItem(index)
           /\ \A index : TrueParts(index)' = TrueParts(index)
           /\ \A index : IsTool(index)' <=> IsTool(index)
           /\ \A index : ValidCall(index)' <=> ValidCall(index)
           /\ \A index : ItemGist(index)' = ItemGist(index)
           /\ \A k : GistBefore(k)' = GistBefore(k)
           /\ ShownTruth' = ShownTruth
<1>1. TrueItems' = TrueItems /\ \A index : TrueItem(index)' = TrueItem(index)
  BY DEF TrueItems, TrueItem
<1>2. \A index : TrueParts(index)' = TrueParts(index)
  BY <1>1 DEF TrueParts
<1>3. \A index : IsTool(index)' <=> IsTool(index)
  BY <1>1 DEF IsTool
<1>4. \A index : ValidCall(index)' <=> ValidCall(index)
  BY <1>1, <1>2 DEF ValidCall
<1>5. \A index : ItemGist(index)' = ItemGist(index)
  BY <1>1 DEF ItemGist
<1>6. \A k : GistBefore(k)' = GistBefore(k)
  BY <1>5 DEF GistBefore
<1>7. ShownTruth' = ShownTruth
  BY DEF ShownTruth
<1> QED
  BY <1>1, <1>2, <1>3, <1>4, <1>5, <1>6, <1>7

LEMMA OpenStays ==
    ASSUME truth' = truth, NEW k, NEW bs, NEW d, OpenItem(k, told'[k], bs, active', d)
    PROVE  OpenItem(k, told[k], bs, active, d)'
<1>1. /\ TrueItem(k)' = TrueItem(k) /\ TrueParts(k)' = TrueParts(k) /\ (IsTool(k)' <=> IsTool(k))
      /\ ValidCall(k)' <=> ValidCall(k)
      /\ GistBefore(k)' = GistBefore(k) /\ GistBefore(k + 1)' = GistBefore(k + 1)
  BY TruthStays
<1>2. Progress(k, told[k], d)'
  BY <1>1 DEF OpenItem, Progress, SentOf
<1>3. SpokenOf(k, told[k], d)' = SpokenOf(k, told'[k], d)
  BY <1>1 DEF SpokenOf, SpokenTo, SentOf, FirstParts
<1>4. TrueItem(k)'.type = "message" => OpenMessage(k, told[k], bs, active, d)'
  BY <1>1, <1>3 DEF OpenItem, OpenMessage, LastRead, SentOf
<1>5. TrueItem(k)'.type = "reasoning" => OpenReasoning(k, told[k], bs, active, d)'
  BY <1>1, <1>3 DEF OpenItem, OpenReasoning, LastRead
<1>6. IsTool(k)' => OpenTool(k, told[k], bs, active, d)'
  BY <1>1 DEF OpenItem, OpenTool, LastRead, CallSoFar, SentOf
<1> QED
  BY <1>1, <1>2, <1>4, <1>5, <1>6 DEF OpenItem

LEMMA ReadStays ==
    ASSUME truth' = truth, NEW k, NEW bs, NEW d, NextRead(k, bs, d)
    PROVE  NowRead(k, bs, d)'
<1>1. /\ TrueItems' = TrueItems
      /\ \A index : IsTool(index)' <=> IsTool(index)
      /\ \A index : ValidCall(index)' <=> ValidCall(index)
      /\ GistBefore(k)' = GistBefore(k)
  BY TruthStays
<1>2. ReadSoFar(emitted, nextBlockIndex, active, bs)'
  BY DEF NextRead, AnswerSoFar, ReadSoFar, Reads, NumberedBelow, Opens, Says, DataOf
<1>3. InTurn(k, told)'
  BY <1>1 DEF NextRead, AnswerSoFar, InTurn
<1>4. Flagged(told, hasTool, sawContent, bs)'
  BY <1>1 DEF NextRead, AnswerSoFar, Flagged
<1>5. Cursor(k, told, bs, active, d)'
  <2>1. CASE k \in TrueItems /\ told'[k].seen
    BY <1>1, <2>1, OpenStays DEF NextRead, AnswerSoFar, Cursor
  <2>2. CASE ~(k \in TrueItems /\ told'[k].seen)
    BY <1>1, <2>2 DEF NextRead, AnswerSoFar, Cursor
  <2> QED
    BY <2>1, <2>2
<1> QED
  BY <1>2, <1>3, <1>4, <1>5 DEF NowRead, AnswerSoFar

LEMMA EndStays ==
    ASSUME truth' = truth, TrueEnd(streamErr', err', emitted')
    PROVE  TrueEnd(streamErr, err, emitted)'
<1>1. ShownTruth' = ShownTruth
  BY TruthStays
<1> QED
  BY <1>1 DEF TrueEnd, TrueContent

LEMMA SameNextHolds ==
    ASSUME truth' = truth, SameNext
    PROVE  SameInv'
<1>1. ShownTruth' = ShownTruth
  BY TruthStays
<1>2. CASE terminal'
  BY <1>2, EndStays DEF SameNext, BothEnd, SameInv
<1>3. CASE ~terminal' /\ streamTerminal'
  BY <1>1, <1>3 DEF SameNext, SameInv
<1>4. CASE ~terminal' /\ ~streamTerminal'
  <2>1. streamErr' = "none" /\ \E k, bs, d : NextRead(k, bs, d)
    BY <1>4 DEF SameNext
  <2>2. PICK k, bs, d : NextRead(k, bs, d)
    BY <2>1
  <2>3. NowRead(k, bs, d)'
    BY <2>2, ReadStays
  <2> QED
    BY <1>4, <2>1, <2>3 DEF SameInv
<1> QED
  BY <1>2, <1>3, <1>4

\* Nothing happens.
LEMMA SameStutters ==
    ASSUME SameInv, UNCHANGED comparedVars
    PROVE  SameInv'
<1>1. /\ truth' = truth /\ told' = told /\ terminal' = terminal /\ err' = err
      /\ UNCHANGED streamVars /\ orderly' = orderly
  BY DEF comparedVars, vars, accumulatorVars
<1>2. CASE ~orderly
  BY <1>1, <1>2 DEF SameInv
<1>3. CASE orderly
  <2>1. SameNext
    BY <1>1, <1>3 DEF SameInv, SameNext, BothEnd, streamVars, NowRead, NextRead
  <2> QED
    BY <1>1, <2>1, SameNextHolds
<1> QED
  BY <1>2, <1>3

LEMMA SameNextStep == ComparedInv /\ SameInv /\ [ComparedNext]_comparedVars => SameInv'
<1> SUFFICES ASSUME ComparedInv, SameInv, [ComparedNext]_comparedVars PROVE SameInv'
  OBVIOUS
<1>1. CASE UNCHANGED comparedVars
  BY <1>1, SameStutters
<1>2. CASE ComparedNext /\ orderly'
  <2>1. truth' = truth
    BY <1>2 DEF ComparedNext, Tell
  <2>2. SameNext
    BY <1>2, SameStep
  <2> QED
    BY <2>1, <2>2, SameNextHolds
<1>3. CASE ~orderly'
  BY <1>3 DEF SameInv
<1> QED
  BY <1>1, <1>2, <1>3

\* The answer of the accumulator is the one of the truth.
LEMMA SameInvImpliesAnswer == ComparedInv /\ SameInv => SameAnswer
<1> SUFFICES ASSUME ComparedInv, SameInv, orderly, terminal
             PROVE  /\ streamTerminal
                    /\ streamErr = "none" <=> Finalize = "none" /\ ~ResponsesToAnthropic(response).failed
                    /\ streamErr = "none" =>
                          /\ Gist(StreamedBlocks(emitted)) = Gist(ResponsesToAnthropic(response).content)
                          /\ StopReason = ResponsesToAnthropic(response).stop_reason
  BY DEF SameAnswer
<1>1. streamTerminal /\ TrueEnd(streamErr, err, emitted)
  BY DEF SameInv
<1>2. Inv /\ truth \in TrueResponses
  BY DEF ComparedInv, Inv, ItemsInv
<1>3. Finalize = "none" <=> err = "none"
  BY DEF Finalize
<1>4. err = "none" => response = truth
  BY <1>2, <1>3, InvImpliesTruth
<1>5. truth.status # "failed" /\ truth.error = FALSE
  BY <1>2, TrueResponseType
<1>6. ~ResponsesToAnthropic(truth).failed <=> ValidOutput(ShownTruth)
  BY <1>5 DEF ResponsesToAnthropic, FailedAnswer, ShownTruth
<1>7. ValidOutput(ShownTruth) =>
          /\ ResponsesToAnthropic(truth).content = TrueContent
          /\ ResponsesToAnthropic(truth).stop_reason =
                StopReasonFor(truth.status, truth.details = "max_output_tokens", OutputHasTool(ShownTruth))
  BY <1>5 DEF ResponsesToAnthropic, ShownTruth, TrueContent
<1> QED
  BY <1>1, <1>3, <1>4, <1>6, <1>7 DEF TrueEnd, StopReason

\* As long as the events come in the usual order, the client of a stream has read of each
\* item what was told of it, in blocks that say no more and no less, and when the response
\* ends, it has read what the buffered answer says.
THEOREM SameInvariant == ComparedSpec => []SameInv
<1>1. ComparedInit => ComparedInv /\ SameInv
  BY ComparedInitHolds, SameInitHolds
<1>2. ComparedInv /\ SameInv /\ [ComparedNext]_comparedVars => ComparedInv' /\ SameInv'
  BY ComparedNextHolds, SameNextStep
<1> QED
  BY <1>1, <1>2, PTL DEF ComparedSpec

\* Whether a client asks for a stream or not, it gets the same content and the same stop
\* reason, or an error both ways, as long as the events come in the usual order: what
\* ResponsesStreamConverter sends block by block is what ResponsesToAnthropic makes of the
\* Response the accumulator puts together (responses_to_anthropic.go:86-419, 430-452,
\* accumulator.go:101-131).
THEOREM AnswersAreTheSame == ComparedSpec => []SameAnswer
BY ComparedInvariant, SameInvariant, SameInvImpliesAnswer, PTL

================================================================================
