--------------------------- MODULE ConversationProofs ---------------------------
(***************************************************************************)
(* Proofs about Conversation.                                              *)
(***************************************************************************)
EXTENDS Conversation, SequenceLemmas, FiniteSetTheorems

-----------------------------------------------------------------------------
(* The choice of a tool *)

\* The forms of tools and choices.
LEMMA OlderTool ==
    ASSUME NEW t
    PROVE  t \in OlderTools <=>
               /\ t = [type |-> t.type, name |-> t.name, nested |-> t.nested, parameters |-> t.parameters]
               /\ t.type \in Types /\ t.name \in SomeName /\ t.nested \in SomeName /\ t.parameters \in Parameters
               /\ NamesOnce(t)
BY DEF OlderTools

LEMMA OlderWord ==
    ASSUME NEW c \in Words
    PROVE  c.kind \in {"absent", "word"} /\ c.kind # "object"
BY DEF Words, Absent

LEMMA OlderCall ==
    ASSUME NEW c \in OlderCalls, c \notin Words
    PROVE  c.kind = "object" /\ c.type = "" /\ c.name \in SomeName /\ c.nested = NoName
BY DEF OlderCalls

LEMMA OlderChoice ==
    ASSUME NEW c \in OlderChoices, c \notin Words
    PROVE  c.kind = "object" /\ c.type # "" /\ c.name \in SomeName /\ c.nested \in SomeName /\ NamesOnce(c)
BY DEF OlderChoices

LEMMA OlderCallWord ==
    ASSUME NEW c \in OlderCalls, c.kind = "word"
    PROVE  c \in OlderChoices
<1>1. c \in Words
  BY OlderCall
<1> QED
  BY <1>1 DEF OlderChoices

LEMMA TypedChoice ==
    ASSUME NEW kind \in {"object"}, NEW type \in Types \ {""}, NEW name \in SomeName
    PROVE  [kind |-> kind, type |-> type, name |-> name, nested |-> NoName] \in OlderChoices
<1> DEFINE c == [kind |-> kind, type |-> type, name |-> name, nested |-> NoName]
<1>1. c \in [kind : {"object"}, type : Types \ {""}, name : SomeName, nested : SomeName]
  BY DEF SomeName
<1>2. NamesOnce(c)
  BY DEF NamesOnce
<1>3. c \in OlderChoices
  <2> HIDE DEF c
  <2> QED
    BY <1>1, <1>2 DEF OlderChoices
<1> QED
  BY <1>3

LEMMA FunctionChoice ==
    ASSUME NEW name \in SomeName
    PROVE  Typed("function", name, NoName) \in OlderChoices
<1>1. "function" \in Types \ {""} /\ "object" \in {"object"}
  <2>1. "function" \in Types
    BY DEF Types
  <2>2. "function" # ""
    OBVIOUS
  <2> QED
    BY <2>1, <2>2
<1> QED
  BY <1>1, TypedChoice DEF Typed

LEMMA NestedTool ==
    ASSUME NEW type \in Types, NEW name \in SomeName, NEW parameters \in Parameters
    PROVE  [type |-> type, name |-> NoName, nested |-> name, parameters |-> parameters] \in OlderTools
<1> DEFINE t == [type |-> type, name |-> NoName, nested |-> name, parameters |-> parameters]
<1>1. t \in [type : Types, name : SomeName, nested : SomeName, parameters : Parameters]
  BY DEF SomeName
<1>2. NamesOnce(t)
  BY DEF NamesOnce
<1>3. t \in OlderTools
  <2> HIDE DEF t
  <2> QED
    BY <1>1, <1>2 DEF OlderTools
<1> QED
  BY <1>3

LEMMA LegacyTool ==
    ASSUME NEW name \in ToolNames
    PROVE  /\ FunctionTool(name) \in OlderTools
           /\ FunctionTool(name).type = "function"
           /\ FunctionTool(name).name = NoName /\ FunctionTool(name).nested = name
<1>1. FunctionTool(name) \in OlderTools
  <2>1. "function" \in Types
    BY DEF Types
  <2>2. "object" \in Parameters
    BY DEF Parameters
  <2>3. name \in SomeName
    BY DEF SomeName
  <2> QED
    BY <2>1, <2>2, <2>3, NestedTool DEF FunctionTool
<1>2. /\ FunctionTool(name).type = "function"
      /\ FunctionTool(name).name = NoName /\ FunctionTool(name).nested = name
  BY DEF FunctionTool
<1> QED
  BY <1>1, <1>2

Named(t) == t.type = "function" => t.name # NoName \/ t.nested # NoName
Flat(t) == IF t.type # "function" THEN t
           ELSE [t EXCEPT !.name = IF t.name = NoName THEN t.nested ELSE t.name, !.nested = NoName]

LEMMA KeptTools ==
    ASSUME NEW tools \in Seq(OlderTools)
    PROVE  /\ Which(tools, Named) = Kept({t \in OlderTools : Named(t)}, tools)
           /\ Which(tools, Named) \in Seq({t \in OlderTools : Named(t)})
           /\ Len(Which(tools, Named)) \in Nat
<1> DEFINE A == {t \in OlderTools : Named(t)}
<1>1. [i \in 1 .. Len(tools) |-> IF Named(tools[i]) THEN <<tools[i]>> ELSE <<>>]
          = [i \in 1 .. Len(tools) |-> IF tools[i] \in A THEN <<tools[i]>> ELSE <<>>]
  OBVIOUS
<1>2. Which(tools, Named) = Kept(A, tools)
  BY <1>1 DEF Which, Kept
<1>3. A \subseteq OlderTools
  OBVIOUS
<1> HIDE DEF A
<1>4. Kept(A, tools) \in Seq(A)
  BY <1>3, MapKept
<1>5. Len(Kept(A, tools)) \in Nat
  BY <1>4
<1> QED
  BY <1>2, <1>4, <1>5 DEF A

\* After normalizeTools the functions are those that had a name, wherever it was.
LEMMA NormalizedTools ==
    ASSUME NEW tools \in Seq(OlderTools), NEW name \in SomeName, name # NoName
    PROVE  ContainsFunction(Each(Flat, Which(tools, Named)), name) <=>
               \E i \in 1 .. Len(tools) :
                   tools[i].type = "function" /\ name \in {tools[i].name, tools[i].nested}
<1> DEFINE A == {t \in OlderTools : Named(t)}
           w == Kept(A, tools)
           normal == [i \in 1 .. Len(w) |-> Flat(w[i])]
<1>1. Which(tools, Named) = w
  BY KeptTools
<1>2. w \in Seq(A) /\ Elements(w) = Elements(tools) \cap A
  <2> HIDE DEF A
  <2>1. A \subseteq OlderTools
    BY DEF A
  <2>2. w \in Seq(A)
    BY <2>1, MapKept
  <2> QED
    BY <2>1, <2>2, KeptElements
<1>3. Len(normal) = Len(w) /\ \A i \in 1 .. Len(w) : normal[i] = Flat(w[i])
  <2> HIDE DEF w
  <2>1. Len(w) \in Nat
    BY <1>2
  <2> QED
    BY <2>1
<1>4. Each(Flat, Which(tools, Named)) = normal
  BY <1>1 DEF Each
<1>5. ASSUME NEW t \in A
      PROVE  Flat(t).type = "function" /\ Flat(t).name = name
                <=> t.type = "function" /\ name \in {t.name, t.nested}
  BY <1>5 DEF A, OlderTools, NamesOnce, Named, Flat
<1>6. ContainsFunction(normal, name) <=>
          \E t \in Elements(w) : t.type = "function" /\ name \in {t.name, t.nested}
  <2> HIDE DEF w, normal, A
  <2>1. \A i \in 1 .. Len(w) : w[i] \in A
    BY <1>2
  <2> QED
    BY <1>3, <1>5, <2>1 DEF ContainsFunction, Elements
<1>7. \A t \in Elements(tools) : t.type = "function" /\ name \in {t.name, t.nested} => t \in A
  BY DEF Elements, OlderTools, Named
<1>8. ContainsFunction(normal, name) <=>
          \E t \in Elements(tools) : t.type = "function" /\ name \in {t.name, t.nested}
  <2> HIDE DEF w, normal, A
  <2> QED
    BY <1>2, <1>6, <1>7
<1> HIDE DEF w, normal, A
<1> QED
  BY <1>4, <1>8 DEF Elements

\* normalizeLegacyFunctions: the older fields, where there are any, replace the newer.
LegacyTools(body) == IF body.functions = Absent THEN body.tools ELSE Each(FunctionTool, body.functions.names)
LegacyChoice(body) ==
    LET call == body.function_call
    IN  IF call.kind = "word" THEN call
        ELSE IF call.kind = "object" /\ call.name # NoName THEN Typed("function", call.name, NoName)
        ELSE body.tool_choice

\* normalizeToolChoice, of a choice and the tools as they are by then.
ValidatedChoice(choice, tools) ==
    LET name == IF choice.name = NoName THEN choice.nested ELSE choice.name
    IN  IF choice.kind # "object" THEN choice
        ELSE IF choice.type = "function"
             THEN IF name = NoName \/ ~ContainsFunction(tools, name) THEN Word("auto")
                  ELSE Typed("function", name, NoName)
        ELSE IF ContainsType(tools, choice.type) THEN choice
        ELSE Word("auto")

LEMMA TransformedFields ==
    ASSUME NEW body, Choosing(body)
    PROVE  LET newer == Transform(body)
           IN  /\ newer.functions = Absent
               /\ newer.function_call = Absent
               /\ newer.tools = Each(Flat, Which(LegacyTools(body), Named))
               /\ newer.tool_choice = ValidatedChoice(LegacyChoice(body), newer.tools)
<1> DEFINE b1 == NormalizeFields(body)
           b2 == NormalizeLegacyFunctions(b1)
           b3 == NormalizeTools(b2)
           b4 == NormalizeToolChoice(b3)
           b5 == NormalizeInput(b4)
           AsBefore(b) == /\ DOMAIN b = DOMAIN body
                          /\ b.functions = Absent /\ b.function_call = Absent
<1>1. /\ DOMAIN b1 = DOMAIN body
      /\ b1.functions = body.functions /\ b1.function_call = body.function_call
      /\ b1.tools = body.tools /\ b1.tool_choice = body.tool_choice
  BY DEF NormalizeFields, EnsureReasoningInclude, Choosing
<1>2. AsBefore(b2) /\ b2.tools = LegacyTools(body) /\ b2.tool_choice = LegacyChoice(body)
  <2> HIDE DEF b1
  <2> QED
    BY <1>1 DEF NormalizeLegacyFunctions, LegacyTools, LegacyChoice, Choosing
<1>3. AsBefore(b3) /\ b3.tools = Each(Flat, Which(b2.tools, Named)) /\ b3.tool_choice = b2.tool_choice
  <2> HIDE DEF b2
  <2> QED
    BY <1>2 DEF NormalizeTools, Choosing, Each, Which, Named, Flat
<1>4. AsBefore(b4) /\ b4.tools = b3.tools /\ b4.tool_choice = ValidatedChoice(b3.tool_choice, b3.tools)
  <2> HIDE DEF b3
  <2> QED
    BY <1>3 DEF NormalizeToolChoice, Choosing, ValidatedChoice
<1>5. AsBefore(b5) /\ b5.tools = b4.tools /\ b5.tool_choice = b4.tool_choice
  <2> HIDE DEF b4
  <2> QED
    BY <1>4 DEF NormalizeInput, Choosing
<1>6. Transform(body) = b5
  BY DEF Transform
<1> HIDE DEF b1, b2, b3, b4, b5
<1> QED
  BY <1>2, <1>3, <1>4, <1>5, <1>6

LEMMA LegacyTypes ==
    ASSUME NEW body, Choosing(body)
    PROVE  LegacyTools(body) \in Seq(OlderTools) /\ LegacyChoice(body) \in OlderChoices
<1>1. LegacyTools(body) \in Seq(OlderTools)
  <2>1. CASE body.functions = Absent
    BY <2>1 DEF LegacyTools, Choosing
  <2>2. CASE body.functions # Absent
    <3>1. body.functions.names \in Seq(ToolNames)
      BY <2>2 DEF Choosing
    <3> DEFINE names == body.functions.names
    <3> HIDE DEF names
    <3>2. \A i \in 1 .. Len(names) : FunctionTool(names[i]) \in OlderTools
      BY <3>1, LegacyTool DEF names
    <3>3. Len(names) \in Nat
      BY <3>1 DEF names
    <3>4. Each(FunctionTool, names) \in Seq(OlderTools)
      BY <3>2, <3>3 DEF Each
    <3> QED
      BY <2>2, <3>4 DEF LegacyTools, names
  <2> QED
    BY <2>1, <2>2
<1>2. LegacyChoice(body) \in OlderChoices
  <2> DEFINE call == body.function_call
  <2>1. CASE call.kind = "word"
    <3>1. call \in OlderChoices
      BY <2>1, OlderCallWord DEF Choosing
    <3> QED
      BY <2>1, <3>1 DEF LegacyChoice
  <2>2. CASE call.kind = "object" /\ call.name # NoName
    <3>1. call.name \in SomeName
      BY <2>2, OlderCall, OlderWord DEF Choosing
    <3> QED
      BY <2>2, <3>1, FunctionChoice DEF LegacyChoice
  <2>3. CASE call.kind # "word" /\ ~(call.kind = "object" /\ call.name # NoName)
    BY <2>3 DEF LegacyChoice, Choosing
  <2> QED
    BY <2>1, <2>2, <2>3
<1> QED
  BY <1>1, <1>2

\* What normalizeToolChoice looks the name up in are the functions the caller offers.
LEMMA OfferedTools ==
    ASSUME NEW body, Choosing(body), NEW name \in SomeName, name # NoName
    PROVE  ContainsFunction(Transform(body).tools, name) <=> name \in Functions(body)
<1> DEFINE tools == LegacyTools(body)
<1>1. ContainsFunction(Transform(body).tools, name) <=>
          \E i \in 1 .. Len(tools) : tools[i].type = "function" /\ name \in {tools[i].name, tools[i].nested}
  <2>1. tools \in Seq(OlderTools)
    BY LegacyTypes
  <2> HIDE DEF tools
  <2>2. Transform(body).tools = Each(Flat, Which(tools, Named))
    BY TransformedFields DEF tools
  <2> QED
    BY <2>1, <2>2, NormalizedTools
<1>2. CASE body.functions = Absent
  <2>1. body.tools \in Seq(OlderTools)
    BY DEF Choosing
  <2>2. DOMAIN body.tools = 1 .. Len(body.tools)
    BY <2>1
  <2>3. name \in Functions(body) <=>
            \E i \in 1 .. Len(body.tools) : body.tools[i].type = "function"
                                            /\ name \in {body.tools[i].name, body.tools[i].nested}
    BY <1>2, <2>2 DEF Functions
  <2> QED
    BY <1>1, <1>2, <2>3 DEF LegacyTools
<1>3. CASE body.functions # Absent
  <2> DEFINE names == body.functions.names
  <2>1. names \in Seq(ToolNames)
    BY <1>3 DEF Choosing
  <2>2. Functions(body) = {names[i] : i \in DOMAIN names}
    BY <1>3 DEF Functions, Range
  <2>3. tools = Each(FunctionTool, names)
    BY <1>3 DEF LegacyTools
  <2> HIDE DEF names, tools
  <2>4. Len(tools) = Len(names) /\ DOMAIN names = 1 .. Len(names)
    BY <2>1, <2>3 DEF Each
  <2>5. \A i \in 1 .. Len(names) : tools[i] = FunctionTool(names[i])
    BY <2>1, <2>3 DEF Each
  <2>6. \A i \in 1 .. Len(names) : /\ tools[i].type = "function"
                                   /\ tools[i].name = NoName /\ tools[i].nested = names[i]
    <3>1. \A i \in 1 .. Len(names) : names[i] \in ToolNames
      BY <2>1
    <3> QED
      BY <2>5, <3>1, LegacyTool
  <2> QED
    BY <1>1, <2>2, <2>4, <2>6
<1> QED
  BY <1>2, <1>3

\* The choice of the newer fields is the one of the older, if it is offered.
LEMMA ChoiceIsOffered ==
    ASSUME NEW body, Choosing(body)
    PROVE  /\ Chosen(Transform(body)) = Chosen(body) \cap Functions(body)
           /\ Chosen(Transform(body)) \subseteq Functions(Transform(body))
<1> DEFINE newer == Transform(body)
           choice == LegacyChoice(body)
           name == IF choice.name = NoName THEN choice.nested ELSE choice.name
           tools == newer.tools
           made == newer.tool_choice
<1>1. /\ newer.functions = Absent /\ newer.function_call = Absent
      /\ made = ValidatedChoice(choice, tools)
  BY TransformedFields
<1>2. choice \in OlderChoices
  BY LegacyTypes
<1> HIDE DEF newer, choice
<1>3. Chosen(newer) = IF made.kind = "object" /\ (made = Absent \/ made.type = "function")
                      THEN {made.name, made.nested} \ {NoName} ELSE {}
  BY <1>1 DEF Chosen, Absent
<1>4. CASE choice.kind = "object" /\ choice.type = "function"
  <2>1. name \in SomeName /\ NamesOnce(choice)
    BY <1>2, <1>4, OlderChoice, OlderWord DEF NamesOnce
  <2>2. Chosen(body) = {name} \ {NoName}
    <3>1. CASE body.function_call.kind = "word"
      BY <1>4, <3>1 DEF choice, LegacyChoice
    <3>2. CASE body.function_call.kind = "object" /\ body.function_call.name # NoName
      <4> DEFINE call == body.function_call
      <4>1. call.nested = NoName
        BY <3>2, OlderCall, OlderWord DEF Choosing
      <4>2. choice.name = call.name /\ choice.nested = NoName
        BY <3>2 DEF choice, LegacyChoice, Typed
      <4>3. Chosen(body) = {call.name, call.nested} \ {NoName}
        BY <3>2 DEF Chosen
      <4> QED
        BY <3>2, <4>1, <4>2, <4>3
    <3>3. CASE body.function_call.kind # "word" /\ ~(body.function_call.kind = "object" /\ body.function_call.name # NoName)
      <4>1. choice = body.tool_choice
        BY <3>3 DEF choice, LegacyChoice
      <4>2. Chosen(body) = {choice.name, choice.nested} \ {NoName}
        BY <1>4, <3>3, <4>1 DEF Chosen
      <4> QED
        BY <2>1, <4>2 DEF NamesOnce
    <3> QED
      BY <3>1, <3>2, <3>3
  <2>3. CASE name = NoName \/ ~ContainsFunction(tools, name)
    <3>1. made = Word("auto")
      BY <1>1, <1>4, <2>3 DEF ValidatedChoice
    <3>2. Chosen(newer) = {}
      BY <1>3, <3>1 DEF Word
    <3>3. name = NoName \/ name \notin Functions(body)
      BY <2>1, <2>3, OfferedTools DEF newer
    <3> QED
      BY <2>2, <3>2, <3>3 DEF newer
  <2>4. CASE name # NoName /\ ContainsFunction(tools, name)
    <3>1. made = Typed("function", name, NoName)
      BY <1>1, <1>4, <2>4 DEF ValidatedChoice
    <3> HIDE DEF made, name
    <3>2. Chosen(newer) = {name}
      BY <1>3, <2>4, <3>1 DEF Typed
    <3>3. name \in Functions(body)
      BY <2>1, <2>4, OfferedTools DEF newer
    <3>4. name \in Functions(newer)
      <4>1. PICK i \in 1 .. Len(tools) : tools[i].type = "function" /\ tools[i].name = name
        BY <2>4 DEF ContainsFunction
      <4>2. i \in DOMAIN tools
        <5>1. tools = Each(Flat, Which(LegacyTools(body), Named))
          BY TransformedFields DEF newer
        <5>2. DOMAIN tools = 1 .. Len(Which(LegacyTools(body), Named))
          BY <5>1 DEF Each
        <5>3. Len(Which(LegacyTools(body), Named)) \in Nat
          BY LegacyTypes, KeptTools
        <5>4. Len(tools) = Len(Which(LegacyTools(body), Named))
          BY <5>1, <5>3 DEF Each
        <5> QED
          BY <5>2, <5>4
      <4> QED
        BY <1>1, <4>1, <4>2 DEF Functions
    <3> QED
      BY <2>2, <2>4, <3>2, <3>3, <3>4 DEF newer
  <2> QED
    BY <2>3, <2>4
<1>5. CASE ~(choice.kind = "object" /\ choice.type = "function")
  <2>1. Chosen(newer) = {}
    <3>1. made = choice \/ made = Word("auto")
      BY <1>1, <1>5 DEF ValidatedChoice
    <3>2. made # Absent \/ made.kind # "object"
      BY DEF Absent
    <3> QED
      BY <1>3, <1>5, <3>1, <3>2 DEF Word
  <2>2. Chosen(body) = {}
    <3>1. CASE body.function_call.kind = "word"
      BY <3>1 DEF Chosen
    <3>2. CASE body.function_call.kind = "object" /\ body.function_call.name # NoName
      BY <1>5, <3>2 DEF choice, LegacyChoice, Typed
    <3>3. CASE body.function_call.kind # "word" /\ ~(body.function_call.kind = "object" /\ body.function_call.name # NoName)
      <4>1. choice = body.tool_choice
        BY <3>3 DEF choice, LegacyChoice
      <4>2. CASE choice \in Words
        BY <3>3, <4>1, <4>2, OlderWord DEF Chosen
      <4>3. CASE choice \notin Words
        <5>1. choice.type # ""
          BY <1>2, <4>3, OlderChoice
        <5>2. body.function_call \in Words \/ body.function_call.type = ""
          BY OlderCall DEF Choosing
        <5>3. choice # body.function_call
          BY <4>3, <5>1, <5>2
        <5> QED
          BY <1>5, <3>3, <4>1, <5>3 DEF Chosen
      <4> QED
        BY <4>2, <4>3
    <3> QED
      BY <3>1, <3>2, <3>3
  <2> QED
    BY <2>1, <2>2 DEF newer
<1> QED
  BY <1>4, <1>5

\* A request of the client is of the form the lemmas above are about.
LEMMA ConvertedChoice ==
    ASSUME NEW choice \in {Absent} \cup [kind : {"choice"}, type : STRING, name : SomeName],
           ValidChoice(choice)
    PROVE  ConvertToolChoice(choice) \in OlderChoices
<1>1. CASE choice = Absent
  <2>1. Absent \in OlderChoices
    BY DEF OlderChoices, Words
  <2>2. ConvertToolChoice(Absent) = Absent
    BY DEF ConvertToolChoice
  <2> QED
    BY <1>1, <2>1, <2>2
<1>2. CASE choice # Absent
  <2>1. \A word \in {"auto", "required", "none"} : Word(word) \in OlderChoices
    <3>1. \A word \in {"auto", "required", "none"} :
              [kind |-> "word", word |-> word] \in [kind : {"word"}, word : {"auto", "required", "none"}]
      OBVIOUS
    <3> QED
      BY <3>1 DEF Word, OlderChoices, Words
  <2>2. choice.name \in SomeName
    BY <1>2
  <2>3. choice.type \in {"auto", "any", "none", "tool"}
    BY <1>2 DEF ValidChoice
  <2> QED
    BY <1>2, <2>1, <2>2, <2>3, FunctionChoice DEF ConvertToolChoice
<1> QED
  BY <1>1, <1>2

LEMMA PlainTool ==
    ASSUME NEW type \in Types, NEW name \in SomeName, NEW parameters \in Parameters
    PROVE  [type |-> type, name |-> name, nested |-> NoName, parameters |-> parameters] \in OlderTools
<1> DEFINE t == [type |-> type, name |-> name, nested |-> NoName, parameters |-> parameters]
<1>1. t \in [type : Types, name : SomeName, nested : SomeName, parameters : Parameters]
  BY DEF SomeName
<1>2. NamesOnce(t)
  BY DEF NamesOnce
<1>3. t \in OlderTools
  <2> HIDE DEF t
  <2> QED
    BY <1>1, <1>2 DEF OlderTools
<1> QED
  BY <1>3

LEMMA ConvertedTools ==
    ASSUME NEW tools \in Seq([name : SomeName, schema : Schemas])
    PROVE  ConvertTools(tools) \in Seq(OlderTools)
<1> DEFINE Tool(i) == [type |-> "function", name |-> tools[i].name, nested |-> NoName,
                       parameters |-> NormalizeToolParameters(tools[i].schema)]
<1>1. ASSUME NEW i \in 1 .. Len(tools)
      PROVE  Tool(i) \in OlderTools
  <2>1. "function" \in Types
    BY DEF Types
  <2>2. tools[i].name \in SomeName /\ NormalizeToolParameters(tools[i].schema) \in Parameters
    <3>1. tools[i] \in [name : SomeName, schema : Schemas]
      BY ElementOf
    <3>2. tools[i].name \in SomeName /\ tools[i].schema \in Schemas
      BY <3>1
    <3> QED
      BY <3>2 DEF NormalizeToolParameters, Parameters
  <2> QED
    BY <2>1, <2>2, PlainTool
<1>2. Len(tools) \in Nat
  OBVIOUS
<1>3. ConvertTools(tools) = [i \in 1 .. Len(tools) |-> Tool(i)]
  BY DEF ConvertTools
<1> HIDE DEF Tool
<1> QED
  BY <1>1, <1>2, <1>3

LEMMA RequestChooses ==
    ASSUME NEW request, NEW options \in Options, Convertible(request),
           request.tools = options.tools, request.choice = options.choice
    PROVE  Choosing(ToResponses(request))
<1>1. ConvertTools(request.tools) \in Seq(OlderTools)
  BY ClientAssumption, ConvertedTools
<1>2. ConvertToolChoice(request.choice) \in OlderChoices
  BY ClientAssumption, ConvertedChoice DEF Convertible
<1>3. Absent \in OlderCalls
  BY DEF OlderCalls, Words
<1> QED
  BY <1>1, <1>2, <1>3 DEF Choosing, ToResponses

LEMMA NoRequestChooses == Chosen(NoRequest) = {}
BY DEF Chosen, NoRequest, Absent

\* Every step keeps to the choices the caller made.
LEMMA ChoiceStep ==
    ASSUME ChosenToolIsOffered, [Next]_vars
    PROVE  ChosenToolIsOffered'
<1>1. ASSUME NEW message, Ask(message) PROVE ChosenToolIsOffered'
  <2>1. PICK options \in Options :
            \E request : /\ Convertible(request)
                         /\ request.tools = options.tools /\ request.choice = options.choice
                         /\ sent' = Transform(ToResponses(request))
                         /\ UNCHANGED transformed
    BY <1>1 DEF Ask
  <2>2. Chosen(sent') \subseteq Functions(sent')
    BY <2>1, RequestChooses, ChoiceIsOffered
  <2> QED
    BY <2>1, <2>2 DEF ChosenToolIsOffered
<1>2. CASE TransformOlder
  <2>1. PICK body \in OlderBodies : transformed' = [older |-> body, newer |-> Transform(body)]
    BY <1>2 DEF TransformOlder
  <2>2. Chosen(Transform(body)) = Chosen(body) \cap Functions(body)
    BY OlderAssumption, ChoiceIsOffered
  <2> QED
    BY <1>2, <2>1, <2>2 DEF TransformOlder, ChosenToolIsOffered
<1>3. CASE UNCHANGED <<sent, transformed>>
  BY <1>3 DEF ChosenToolIsOffered
<1> QED
  BY <1>1, <1>2, <1>3 DEF Next, Answer, Fail, vars

\* The upstream is told to call a function only if it is among its tools, and a choice
\* of one that is reaches it from the older fields and from the newer ones
\* (normalizeLegacyFunctions, normalizeTools, normalizeToolChoice).
THEOREM ChoicesAreKept == Spec => []ChosenToolIsOffered
<1>1. Init => ChosenToolIsOffered
  BY NoRequestChooses DEF Init, ChosenToolIsOffered
<1>2. ChosenToolIsOffered /\ [Next]_vars => ChosenToolIsOffered'
  BY ChoiceStep
<1> QED
  BY <1>1, <1>2, PTL DEF Spec

-----------------------------------------------------------------------------
(* What is said, and what is sent of it *)

\* Filters of the model, as SequenceLemmas has them.
LEMMA KindKept ==
    ASSUME NEW S, NEW s \in Seq(S), NEW kind
    PROVE  Kind(s, kind) = Kept({x \in S : x.kind = kind}, s)
<1> DEFINE A == {x \in S : x.kind = kind}
<1>1. [i \in 1 .. Len(s) |-> IF s[i].kind = kind THEN <<s[i]>> ELSE <<>>]
          = [i \in 1 .. Len(s) |-> IF s[i] \in A THEN <<s[i]>> ELSE <<>>]
  OBVIOUS
<1> QED
  BY <1>1 DEF Kind, Which, Kept

LEMMA NonBlankKept ==
    ASSUME NEW S, NEW s \in Seq(S)
    PROVE  NonBlank(s) = Kept({x \in S : x.data # <<>>}, s)
<1> DEFINE A == {x \in S : x.data # <<>>}
<1>1. [i \in 1 .. Len(s) |-> IF s[i].data # <<>> THEN <<s[i]>> ELSE <<>>]
          = [i \in 1 .. Len(s) |-> IF s[i] \in A THEN <<s[i]>> ELSE <<>>]
  OBVIOUS
<1> QED
  BY <1>1 DEF NonBlank, Which, Kept

LEMMA OfTypeKept ==
    ASSUME NEW S, NEW s \in Seq(S), NEW type
    PROVE  OfType(s, type) = Kept({x \in S : x.type = type}, s)
<1> DEFINE A == {x \in S : x.type = type}
<1>1. [i \in 1 .. Len(s) |-> IF s[i].type = type THEN <<s[i]>> ELSE <<>>]
          = [i \in 1 .. Len(s) |-> IF s[i] \in A THEN <<s[i]>> ELSE <<>>]
  OBVIOUS
<1> QED
  BY <1>1 DEF OfType, Which, Kept

\* Items of answers, once their calls have ids.
Ids == ShortIds \cup LongIds \cup {NoId}
Signed == Signatures \cup {NoSignature}
ToldThinking ==
    [type : {"reasoning"}, summary : Seq(TextFragments), signature : Signed, call_id : {NoId}, name : {NoName}]
ToldMessages == [type : {"message"}, texts : Seq(Seq(TextFragments) \ {<<>>}), call_id : {NoId}, name : {NoName}]
ToldFunctions == [type : {"function_call"}, arguments : Seq(ArgFragments), call_id : Ids, name : ToolNames]
ToldCustoms == [type : {"custom_tool_call"}, input : Seq(ArgFragments), call_id : Ids, name : ToolNames]
ToldItems == ToldThinking \cup ToldMessages \cup ToldFunctions \cup ToldCustoms

LEMMA ToldKinds ==
    ASSUME NEW item \in ToldItems
    PROVE  /\ item.type = "reasoning" <=> item \in ToldThinking
           /\ item.type = "message" <=> item \in ToldMessages
           /\ item.type = "function_call" <=> item \in ToldFunctions
           /\ item.type = "custom_tool_call" <=> item \in ToldCustoms
           /\ IsCall(item) <=> item \in ToldFunctions \cup ToldCustoms
<1>1. \A x \in ToldThinking : x.type = "reasoning"
  BY DEF ToldThinking
<1>2. \A x \in ToldMessages : x.type = "message"
  BY DEF ToldMessages
<1>3. \A x \in ToldFunctions : x.type = "function_call"
  BY DEF ToldFunctions
<1>4. \A x \in ToldCustoms : x.type = "custom_tool_call"
  BY DEF ToldCustoms
<1> QED
  BY <1>1, <1>2, <1>3, <1>4 DEF ToldItems, IsCall

\* Blocks made of them.
Said(kind, data, signature, id, name) ==
    [kind |-> kind, data |-> data, signature |-> signature, id |-> id, name |-> name]
Inputs == {FunctionToolInput(a) : a \in Seq(ArgFragments)} \cup {CustomToolInput(a) : a \in Seq(ArgFragments)}
ThinkingBlocks == {Said("thinking", d, s, NoId, NoName) : d \in Seq(TextFragments), s \in Signed}
TextBlocks == {Said("text", d, NoSignature, NoId, NoName) : d \in Seq(TextFragments)} \cup {TextBlock(<<>>)}
UseBlocks == {Said("tool_use", d, NoSignature, id, name) : d \in Inputs, id \in Ids, name \in ToolNames}
SaidBlocks == ThinkingBlocks \cup TextBlocks \cup UseBlocks

\* What the user says.
ResultBlocks == {ToolResult(id, content, isError) : id \in Ids, content \in Seq(ShownBlocks), isError \in BOOLEAN}
UserBlocks == ShownBlocks \cup ResultBlocks

UserMessages == {Plain("user", text) : text \in Seq(TextFragments)} \cup {Blocked("user", bs) : bs \in Seq(UserBlocks)}
AssistantMessages == {Blocked("assistant", bs) : bs \in Seq(SaidBlocks)}
Messages == UserMessages \cup AssistantMessages

\* Items of Input.
Texts == Seq(TextFragments \cup {"\n\n", "billing"})
TextParts == {Part("input_text", text) : text \in Texts} \cup {Part("output_text", text) : text \in Texts}
ImageParts == {Part("input_image", image) : image \in Images}
Parts == TextParts \cup ImageParts
OtherMessages == {Message(role, parts) : role \in {"user", "developer"}, parts \in Seq(Parts)}
SaidMessages == {Message("assistant", <<Part("output_text", text)>>) : text \in Texts}
MessageItems == OtherMessages \cup SaidMessages
ResultItems == {OutputItem(b) : b \in ResultBlocks}
ReasoningItems == {ReasoningItem(b) : b \in ThinkingBlocks}
CallItems == {CallItem(b) : b \in UseBlocks}
Items == MessageItems \cup ResultItems \cup ReasoningItems \cup CallItems

\* Kinds of blocks.
LEMMA SaidKinds ==
    ASSUME NEW b \in SaidBlocks
    PROVE  /\ b.kind = "thinking" <=> b \in ThinkingBlocks
           /\ b.kind = "text" <=> b \in TextBlocks
           /\ b.kind = "tool_use" <=> b \in UseBlocks
<1>1. b \in ThinkingBlocks => b.kind = "thinking"
  BY DEF ThinkingBlocks, Said
<1>2. b \in TextBlocks => b.kind = "text"
  BY DEF TextBlocks, Said, TextBlock
<1>3. b \in UseBlocks => b.kind = "tool_use"
  BY DEF UseBlocks, Said
<1> QED
  BY <1>1, <1>2, <1>3 DEF SaidBlocks

LEMMA UserKinds ==
    ASSUME NEW b \in UserBlocks
    PROVE  /\ b.kind = "tool_result" <=> b \in ResultBlocks
           /\ b.kind \in {"text", "image"} <=> b \in ShownBlocks
           /\ b.kind = "text" => b.data \in Seq(TextFragments)
           /\ b.kind = "image" => b.data \in Images
           /\ b.kind \in {"text", "image", "tool_result"}
<1>1. b \in ResultBlocks => b.kind = "tool_result"
  BY DEF ResultBlocks, ToolResult
<1>2. ASSUME b \in ShownBlocks
      PROVE  /\ b.kind \in {"text", "image"}
             /\ b.kind = "text" => b.data \in Seq(TextFragments)
             /\ b.kind = "image" => b.data \in Images
  BY <1>2 DEF ShownBlocks
<1> QED
  BY <1>1, <1>2 DEF UserBlocks

LEMMA TextBlockData ==
    ASSUME NEW b \in TextBlocks
    PROVE  b.data \in Seq(TextFragments)
<1>1. CASE b \in {Said("text", d, NoSignature, NoId, NoName) : d \in Seq(TextFragments)}
  BY <1>1 DEF Said
<1>2. CASE b = TextBlock(<<>>)
  <2>1. b.data = <<>>
    BY <1>2 DEF TextBlock
  <2> QED
    BY <2>1, EmptySeq
<1> QED
  BY <1>1, <1>2 DEF TextBlocks

\* strings.Join of texts is a text.
LEMMA JoinedType ==
    ASSUME NEW texts \in Seq(Seq(TextFragments))
    PROVE  Joined(texts) \in Texts
<1> DEFINE F == TextFragments \cup {"\n\n", "billing"}
           ss == [i \in 1 .. Len(texts) |-> IF i = 1 THEN texts[i] ELSE <<"\n\n">> \o texts[i]]
<1>1. Len(texts) \in Nat /\ \A i \in 1 .. Len(texts) : texts[i] \in Seq(F)
  <2>1. \A i \in 1 .. Len(texts) : texts[i] \in Seq(TextFragments)
    BY ElementOf
  <2>2. TextFragments \subseteq F
    OBVIOUS
  <2> HIDE DEF F
  <2> QED
    BY <2>1, <2>2, SeqSubset
<1>2. <<"\n\n">> \in Seq(F)
  BY SeqOfOne
<1>3. ss \in Seq(Seq(F))
  <2> HIDE DEF F
  <2>1. \A i \in 1 .. Len(texts) : (IF i = 1 THEN texts[i] ELSE <<"\n\n">> \o texts[i]) \in Seq(F)
    BY <1>1, <1>2, ConcatProperties
  <2> QED
    BY <1>1, <2>1
<1>4. FlattenSeq(ss) \in Seq(F)
  <2> HIDE DEF F, ss
  <2> QED
    BY <1>3, FlattenSeqType
<1> QED
  BY <1>4 DEF Joined, Texts

LEMMA UseBlockFields ==
    ASSUME NEW b \in UseBlocks
    PROVE  b.id \in Ids /\ b.name \in ToolNames /\ b.data \in Inputs
BY DEF UseBlocks, Said

\* What each block of a user message contributes to the message that is sent.
ShownPart(b) == IF b.kind = "text" THEN Part("input_text", b.data) ELSE ImagePart(b)
Shows(b) == b.kind = "image" \/ (b.kind = "text" /\ b.data # <<>>)
ShowingBlocks == {b \in UserBlocks : Shows(b)}
ShownParts == Picks(UserBlocks, ShowingBlocks, [b \in UserBlocks |-> ShownPart(b)])
ImagesOfResult == [b \in ResultBlocks |-> ResultImages(b)]
ResultParts == Spread(UserBlocks, ResultBlocks, ImagesOfResult)

LEMMA TextsAreTexts == Seq(TextFragments) \subseteq Texts
<1>1. TextFragments \subseteq TextFragments \cup {"\n\n", "billing"}
  OBVIOUS
<1> HIDE DEF Texts
<1> QED
  BY <1>1, SeqSubset DEF Texts

LEMMA ShownPartType ==
    ASSUME NEW b \in UserBlocks, Shows(b)
    PROVE  ShownPart(b) \in Parts
BY UserKinds, TextsAreTexts DEF Shows, ShownPart, ImagePart, Parts, TextParts, ImageParts

LEMMA ResultImagesType ==
    ASSUME NEW b \in ResultBlocks
    PROVE  ResultImages(b) \in Seq(Parts)
<1> DEFINE A == {x \in ShownBlocks : x.kind = "image"}
           g == [x \in ShownBlocks |-> ImagePart(x)]
           w == Kept(A, b.content)
<1>1. b.content \in Seq(ShownBlocks)
  BY DEF ResultBlocks, ToolResult
<1>2. Kind(b.content, "image") = w
  BY <1>1, KindKept
<1>3. \A x \in A : ImagePart(x) \in Parts
  BY UserKinds DEF UserBlocks, ImagePart, Parts, TextParts, ImageParts
<1>4. w \in Seq(A)
  <2>1. A \subseteq ShownBlocks
    OBVIOUS
  <2> HIDE DEF A
  <2> QED
    BY <1>1, <2>1, MapKept
<1>5. ResultImages(b) = [i \in 1 .. Len(w) |-> ImagePart(w[i])]
  BY <1>2 DEF ResultImages, Each
<1> HIDE DEF A, w
<1>6. Len(w) \in Nat /\ \A i \in 1 .. Len(w) : w[i] \in A
  BY <1>4
<1> QED
  BY <1>3, <1>5, <1>6

LEMMA UserPartsAre ==
    ASSUME NEW bs \in Seq(UserBlocks)
    PROVE  /\ UserParts(bs) = FlatMap(ShownParts, bs) \o FlatMap(ResultParts, bs)
           /\ ShownParts \in Lists(UserBlocks, Parts)
           /\ ResultParts \in Lists(UserBlocks, Parts)
           /\ UserParts(bs) \in Seq(Parts)
<1> DEFINE g == [b \in UserBlocks |-> ShownPart(b)]
           w == Kept(ShowingBlocks, bs)
           r == Kept(ResultBlocks, bs)
           shown == Each(ShownPart, Which(bs, Shows))
           images == FlattenSeq(Each(ResultImages, Kind(bs, "tool_result")))
<1>1. UserParts(bs) = shown \o images
  BY DEF UserParts, Shows, ShownPart, Each, Which
<1>2. Which(bs, Shows) = w
  <2>1. [i \in 1 .. Len(bs) |-> IF Shows(bs[i]) THEN <<bs[i]>> ELSE <<>>]
            = [i \in 1 .. Len(bs) |-> IF bs[i] \in ShowingBlocks THEN <<bs[i]>> ELSE <<>>]
    BY DEF ShowingBlocks
  <2> QED
    BY <2>1 DEF Which, Kept
<1>3. ShowingBlocks \subseteq UserBlocks /\ ResultBlocks \subseteq UserBlocks
  BY DEF ShowingBlocks, UserBlocks
<1>4. w \in Seq(ShowingBlocks) /\ Mapped(g, w) = FlatMap(ShownParts, bs)
  <2> HIDE DEF g
  <2>1. /\ Kept(ShowingBlocks, bs) \in Seq(ShowingBlocks)
        /\ Mapped(g, Kept(ShowingBlocks, bs)) = FlatMap(Picks(UserBlocks, ShowingBlocks, g), bs)
    BY <1>3, MapKept
  <2> QED
    BY <2>1 DEF ShownParts, g
<1>5. shown = FlatMap(ShownParts, bs)
  <2> HIDE DEF w
  <2>1. shown = [i \in 1 .. Len(w) |-> ShownPart(w[i])]
    BY <1>2 DEF Each
  <2>2. \A i \in 1 .. Len(w) : w[i] \in UserBlocks
    BY <1>3, <1>4
  <2>3. [i \in 1 .. Len(w) |-> ShownPart(w[i])] = Mapped(g, w)
    BY <2>2 DEF Mapped
  <2> QED
    BY <1>4, <2>1, <2>3
<1>6. ShownParts \in Lists(UserBlocks, Parts)
  <2>1. \A b \in ShowingBlocks : g[b] \in Parts
    BY <1>3, ShownPartType DEF ShowingBlocks
  <2> HIDE DEF g
  <2>2. Picks(UserBlocks, ShowingBlocks, g) \in Lists(UserBlocks, Parts)
    BY <2>1, PicksType
  <2> QED
    BY <2>2 DEF ShownParts, g
<1>7. ImagesOfResult \in Lists(ResultBlocks, Parts)
  BY ResultImagesType DEF ImagesOfResult, Lists
<1>8. /\ ResultParts \in Lists(UserBlocks, Parts)
      /\ FlatMap(ImagesOfResult, r) = FlatMap(ResultParts, bs)
  <2>1. Spread(UserBlocks, ResultBlocks, ImagesOfResult) \in Lists(UserBlocks, Parts)
    BY <1>3, <1>7, FlatMapKept
  <2>2. FlatMap(ImagesOfResult, Kept(ResultBlocks, bs))
            = FlatMap(Spread(UserBlocks, ResultBlocks, ImagesOfResult), bs)
    BY <1>3, <1>7, <2>1, FlatMapKept
  <2> QED
    BY <2>1, <2>2 DEF ResultParts
<1>9. images = FlatMap(ImagesOfResult, r)
  <2>1. Kind(bs, "tool_result") = r
    <3>1. {b \in UserBlocks : b.kind = "tool_result"} = ResultBlocks
      BY <1>3, UserKinds
    <3> QED
      BY <3>1, KindKept
  <2>2. r \in Seq(ResultBlocks)
    BY <1>3, MapKept
  <2> HIDE DEF r
  <2>3. \A i \in 1 .. Len(r) : ResultImages(r[i]) = ImagesOfResult[r[i]]
    BY <2>2 DEF ImagesOfResult
  <2>4. Each(ResultImages, r) = [i \in 1 .. Len(r) |-> ImagesOfResult[r[i]]]
    BY <2>3 DEF Each
  <2> QED
    BY <2>1, <2>4 DEF FlatMap
<1>10. FlatMap(ShownParts, bs) \in Seq(Parts) /\ FlatMap(ResultParts, bs) \in Seq(Parts)
  BY <1>6, <1>8, FlatMapType
<1> HIDE DEF shown, images
<1> QED
  BY <1>1, <1>5, <1>6, <1>8, <1>9, <1>10, ConcatProperties

\* convertUserMessage, as what each block contributes.
ResultItem == Picks(UserBlocks, ResultBlocks, [b \in UserBlocks |-> OutputItem(b)])
ShownMessage(bs) == IF UserParts(bs) = <<>> THEN <<>> ELSE <<Message("user", UserParts(bs))>>

LEMMA UserItems ==
    ASSUME NEW bs \in Seq(UserBlocks)
    PROVE  /\ ConvertUserMessage(bs) = FlatMap(ResultItem, bs) \o ShownMessage(bs)
           /\ ResultItem \in Lists(UserBlocks, ResultItems)
           /\ FlatMap(ResultItem, bs) \in Seq(ResultItems)
           /\ ShownMessage(bs) \in Seq(OtherMessages)
<1> DEFINE g == [b \in UserBlocks |-> OutputItem(b)]
           r == Kept(ResultBlocks, bs)
<1>1. ResultBlocks \subseteq UserBlocks
  BY DEF UserBlocks
<1>2. r \in Seq(ResultBlocks) /\ Mapped(g, r) = FlatMap(ResultItem, bs)
  <2> HIDE DEF g
  <2>1. /\ Kept(ResultBlocks, bs) \in Seq(ResultBlocks)
        /\ Mapped(g, Kept(ResultBlocks, bs)) = FlatMap(Picks(UserBlocks, ResultBlocks, g), bs)
    BY <1>1, MapKept
  <2> QED
    BY <2>1 DEF ResultItem, g
<1>3. Kind(bs, "tool_result") = r
  <2>1. {b \in UserBlocks : b.kind = "tool_result"} = ResultBlocks
    BY <1>1, UserKinds
  <2> QED
    BY <2>1, KindKept
<1>4. Each(OutputItem, r) = Mapped(g, r)
  <2> HIDE DEF r
  <2>1. \A i \in 1 .. Len(r) : r[i] \in UserBlocks
    BY <1>1, <1>2
  <2> QED
    BY <2>1 DEF Each, Mapped
<1>5. ResultItem \in Lists(UserBlocks, ResultItems)
  <2>1. \A b \in ResultBlocks : g[b] \in ResultItems
    BY <1>1 DEF ResultItems
  <2> HIDE DEF g
  <2>2. Picks(UserBlocks, ResultBlocks, g) \in Lists(UserBlocks, ResultItems)
    BY <2>1, PicksType
  <2> QED
    BY <2>2 DEF ResultItem, g
<1>6. FlatMap(ResultItem, bs) \in Seq(ResultItems)
  BY <1>5, FlatMapType
<1>7. ShownMessage(bs) \in Seq(OtherMessages)
  <2>1. UserParts(bs) \in Seq(Parts)
    BY UserPartsAre
  <2>2. Message("user", UserParts(bs)) \in OtherMessages
    BY <2>1 DEF OtherMessages
  <2>3. <<>> \in Seq(OtherMessages)
    BY EmptySeq
  <2> QED
    BY <2>2, <2>3, SeqOfOne DEF ShownMessage
<1>8. ConvertUserMessage(bs) = Each(OutputItem, Kind(bs, "tool_result")) \o ShownMessage(bs)
  BY DEF ConvertUserMessage, ShownMessage
<1> HIDE DEF r
<1> QED
  BY <1>2, <1>3, <1>4, <1>5, <1>6, <1>7, <1>8

\* convertAssistantMessage.
SignedBlocks == {b \in ThinkingBlocks : b.signature # NoSignature}
NonBlankTexts == {b \in TextBlocks : b.data # <<>>}
SentThinking == Picks(SaidBlocks, SignedBlocks, [b \in SaidBlocks |-> ReasoningItem(b)])
SentUses == Picks(SaidBlocks, UseBlocks, [b \in SaidBlocks |-> CallItem(b)])
SaidText == Picks(SaidBlocks, NonBlankTexts, [b \in SaidBlocks |-> b.data])
SaidMessage(bs) ==
    IF Kept(NonBlankTexts, bs) = <<>> THEN <<>>
    ELSE <<Message("assistant", <<Part("output_text", Joined(FlatMap(SaidText, bs)))>>)>>

LEMMA SaidKept ==
    ASSUME NEW bs \in Seq(SaidBlocks)
    PROVE  /\ Kind(bs, "thinking") = Kept(ThinkingBlocks, bs)
           /\ Kind(bs, "text") = Kept(TextBlocks, bs)
           /\ Kind(bs, "tool_use") = Kept(UseBlocks, bs)
<1>1. {b \in SaidBlocks : b.kind = "thinking"} = ThinkingBlocks
  BY SaidKinds DEF SaidBlocks
<1>2. {b \in SaidBlocks : b.kind = "text"} = TextBlocks
  BY SaidKinds DEF SaidBlocks
<1>3. {b \in SaidBlocks : b.kind = "tool_use"} = UseBlocks
  BY SaidKinds DEF SaidBlocks
<1>4. Kind(bs, "thinking") = Kept({b \in SaidBlocks : b.kind = "thinking"}, bs)
  BY KindKept
<1>5. Kind(bs, "text") = Kept({b \in SaidBlocks : b.kind = "text"}, bs)
  BY KindKept
<1>6. Kind(bs, "tool_use") = Kept({b \in SaidBlocks : b.kind = "tool_use"}, bs)
  BY KindKept
<1> QED
  BY <1>1, <1>2, <1>3, <1>4, <1>5, <1>6

LEMMA AssistantItems ==
    ASSUME NEW bs \in Seq(SaidBlocks)
    PROVE  /\ ConvertAssistantMessage(bs) =
                  (FlatMap(SentThinking, bs) \o SaidMessage(bs)) \o FlatMap(SentUses, bs)
           /\ SentThinking \in Lists(SaidBlocks, ReasoningItems)
           /\ SentUses \in Lists(SaidBlocks, CallItems)
           /\ SaidText \in Lists(SaidBlocks, Seq(TextFragments))
           /\ FlatMap(SentThinking, bs) \in Seq(ReasoningItems)
           /\ SaidMessage(bs) \in Seq(MessageItems)
           /\ FlatMap(SentUses, bs) \in Seq(CallItems)
<1>1. ThinkingBlocks \subseteq SaidBlocks /\ TextBlocks \subseteq SaidBlocks /\ UseBlocks \subseteq SaidBlocks
      /\ SignedBlocks \subseteq SaidBlocks /\ NonBlankTexts \subseteq SaidBlocks
  BY DEF SaidBlocks, SignedBlocks, NonBlankTexts
<1> DEFINE Thought(b) == b.signature # NoSignature
           thoughts == Which(Kind(bs, "thinking"), Thought)
           texts == NonBlank(Kind(bs, "text"))
<1>2. ConvertAssistantMessage(bs) =
          (Each(ReasoningItem, thoughts)
           \o (IF texts = <<>> THEN <<>>
               ELSE <<Message("assistant", <<Part("output_text", Joined(Each(Data, texts)))>>)>>))
          \o Each(CallItem, Kind(bs, "tool_use"))
  BY DEF ConvertAssistantMessage
<1>3. thoughts = Kept(SignedBlocks, bs)
  <2> DEFINE w == Kept(ThinkingBlocks, bs)
             A == {b \in SaidBlocks : Thought(b)}
  <2>1. w \in Seq(ThinkingBlocks)
    BY <1>1, MapKept
  <2>2. Kind(bs, "thinking") = w
    BY SaidKept
  <2>3. Which(w, Thought) = Kept(A, w)
    <3> HIDE DEF w
    <3>1. [i \in 1 .. Len(w) |-> IF Thought(w[i]) THEN <<w[i]>> ELSE <<>>]
              = [i \in 1 .. Len(w) |-> IF w[i] \in A THEN <<w[i]>> ELSE <<>>]
      BY <1>1, <2>1
    <3> QED
      BY <3>1 DEF Which, Kept
  <2>4. ThinkingBlocks \cap A = SignedBlocks
    BY <1>1 DEF SignedBlocks
  <2>5. Kept(A, w) = Kept(ThinkingBlocks \cap A, bs)
    BY <1>1, KeptTwice
  <2> HIDE DEF w, A
  <2> QED
    BY <2>2, <2>3, <2>4, <2>5
<1>4. texts = Kept(NonBlankTexts, bs)
  <2> DEFINE w == Kept(TextBlocks, bs)
             A == {b \in TextBlocks : b.data # <<>>}
  <2>1. w \in Seq(TextBlocks)
    BY <1>1, MapKept
  <2>2. NonBlank(w) = Kept(A, w)
    <3> HIDE DEF w
    <3> QED
      BY <2>1, NonBlankKept
  <2>3. Kept(A, w) = Kept(TextBlocks \cap A, bs)
    BY <1>1, KeptTwice
  <2>4. TextBlocks \cap A = NonBlankTexts
    BY DEF NonBlankTexts
  <2> QED
    BY <2>2, <2>3, <2>4, SaidKept
<1>5. Each(ReasoningItem, thoughts) = FlatMap(SentThinking, bs)
  <2> DEFINE g == [b \in SaidBlocks |-> ReasoningItem(b)]
             w == Kept(SignedBlocks, bs)
  <2>1. w \in Seq(SignedBlocks) /\ Mapped(g, w) = FlatMap(Picks(SaidBlocks, SignedBlocks, g), bs)
    BY <1>1, MapKept
  <2>2. Each(ReasoningItem, w) = Mapped(g, w)
    <3> HIDE DEF w
    <3>1. \A i \in 1 .. Len(w) : w[i] \in SaidBlocks
      BY <1>1, <2>1
    <3> QED
      BY <3>1 DEF Each, Mapped
  <2> QED
    BY <1>3, <2>1, <2>2 DEF SentThinking
<1>6. Each(CallItem, Kind(bs, "tool_use")) = FlatMap(SentUses, bs)
  <2> DEFINE g == [b \in SaidBlocks |-> CallItem(b)]
             w == Kept(UseBlocks, bs)
  <2>1. w \in Seq(UseBlocks) /\ Mapped(g, w) = FlatMap(Picks(SaidBlocks, UseBlocks, g), bs)
    BY <1>1, MapKept
  <2>2. Each(CallItem, w) = Mapped(g, w)
    <3> HIDE DEF w
    <3>1. \A i \in 1 .. Len(w) : w[i] \in SaidBlocks
      BY <1>1, <2>1
    <3> QED
      BY <3>1 DEF Each, Mapped
  <2> QED
    BY <2>1, <2>2, SaidKept DEF SentUses
<1>7. Each(Data, texts) = FlatMap(SaidText, bs)
  <2> DEFINE g == [b \in SaidBlocks |-> b.data]
             w == Kept(NonBlankTexts, bs)
  <2>1. w \in Seq(NonBlankTexts) /\ Mapped(g, w) = FlatMap(Picks(SaidBlocks, NonBlankTexts, g), bs)
    BY <1>1, MapKept
  <2>2. Each(Data, w) = Mapped(g, w)
    <3> HIDE DEF w
    <3>1. \A i \in 1 .. Len(w) : w[i] \in SaidBlocks
      BY <1>1, <2>1
    <3> QED
      BY <3>1 DEF Each, Mapped, Data
  <2> QED
    BY <1>4, <2>1, <2>2 DEF SaidText
<1>8. SentThinking \in Lists(SaidBlocks, ReasoningItems)
  <2> DEFINE g == [b \in SaidBlocks |-> ReasoningItem(b)]
  <2>1. \A b \in SignedBlocks : g[b] \in ReasoningItems
    BY <1>1 DEF ReasoningItems, SignedBlocks
  <2> HIDE DEF g
  <2>2. Picks(SaidBlocks, SignedBlocks, g) \in Lists(SaidBlocks, ReasoningItems)
    BY <2>1, PicksType
  <2> QED
    BY <2>2 DEF SentThinking, g
<1>9. SentUses \in Lists(SaidBlocks, CallItems)
  <2> DEFINE g == [b \in SaidBlocks |-> CallItem(b)]
  <2>1. \A b \in UseBlocks : g[b] \in CallItems
    BY <1>1 DEF CallItems
  <2> HIDE DEF g
  <2>2. Picks(SaidBlocks, UseBlocks, g) \in Lists(SaidBlocks, CallItems)
    BY <2>1, PicksType
  <2> QED
    BY <2>2 DEF SentUses, g
<1>10. SaidText \in Lists(SaidBlocks, Seq(TextFragments))
  <2> DEFINE g == [b \in SaidBlocks |-> b.data]
  <2>1. \A b \in NonBlankTexts : g[b] \in Seq(TextFragments)
    BY <1>1, TextBlockData DEF NonBlankTexts
  <2> HIDE DEF g
  <2>2. Picks(SaidBlocks, NonBlankTexts, g) \in Lists(SaidBlocks, Seq(TextFragments))
    BY <2>1, PicksType
  <2> QED
    BY <2>2 DEF SaidText, g
<1>11. SaidMessage(bs) \in Seq(MessageItems)
  <2> DEFINE d == Joined(FlatMap(SaidText, bs))
             part == Part("output_text", d)
             parts == <<part>>
             m == Message("assistant", parts)
  <2>1. d \in Texts
    <3>1. FlatMap(SaidText, bs) \in Seq(Seq(TextFragments))
      BY <1>10, FlatMapType
    <3> HIDE DEF SaidText
    <3> QED
      BY <3>1, JoinedType
  <2> HIDE DEF d
  <2>4. m \in MessageItems
    BY <2>1 DEF MessageItems, SaidMessages
  <2> HIDE DEF m
  <2>5. <<m>> \in Seq(MessageItems) /\ <<>> \in Seq(MessageItems)
    BY <2>4, SeqOfOne, EmptySeq
  <2>6. SaidMessage(bs) = IF Kept(NonBlankTexts, bs) = <<>> THEN <<>> ELSE <<m>>
    BY DEF SaidMessage, m, parts, part, d
  <2> QED
    BY <2>5, <2>6
<1>12. FlatMap(SentThinking, bs) \in Seq(ReasoningItems) /\ FlatMap(SentUses, bs) \in Seq(CallItems)
  BY <1>8, <1>9, FlatMapType
<1> HIDE DEF thoughts, texts
<1> QED
  BY <1>2, <1>4, <1>5, <1>6, <1>7, <1>8, <1>9, <1>10, <1>11, <1>12 DEF SaidMessage

\* convertMessage.
Convert == [m \in Messages |-> ConvertMessage(m)]

LEMMA UserMessageItems ==
    ASSUME NEW m \in UserMessages
    PROVE  \/ /\ m.plain
              /\ m.text \in Seq(TextFragments)
              /\ ConvertMessage(m) = <<Message("user", <<Part("input_text", m.text)>>)>>
           \/ /\ ~m.plain
              /\ m.blocks \in Seq(UserBlocks)
              /\ ConvertMessage(m) = ConvertUserMessage(m.blocks)
<1>1. CASE m \in {Plain("user", text) : text \in Seq(TextFragments)}
  BY <1>1 DEF Plain, ConvertMessage
<1>2. CASE m \in {Blocked("user", bs) : bs \in Seq(UserBlocks)}
  BY <1>2 DEF Blocked, ConvertMessage
<1> QED
  BY <1>1, <1>2 DEF UserMessages

LEMMA AssistantMessageItems ==
    ASSUME NEW m \in AssistantMessages
    PROVE  /\ ~m.plain
           /\ m.blocks \in Seq(SaidBlocks)
           /\ ConvertMessage(m) = ConvertAssistantMessage(m.blocks)
<1>1. PICK bs \in Seq(SaidBlocks) : m = Blocked("assistant", bs)
  BY DEF AssistantMessages
<1>2. m.role = "assistant" /\ m.plain = FALSE /\ m.blocks = bs
  BY <1>1 DEF Blocked
<1>3. ConvertMessage(m) = ConvertAssistantMessage(m.blocks)
  BY <1>2 DEF ConvertMessage
<1> QED
  BY <1>2, <1>3

LEMMA ConvertType ==
    Convert \in Lists(Messages, Items)
<1>1. /\ MessageItems \subseteq Items /\ ResultItems \subseteq Items /\ OtherMessages \subseteq Items
      /\ ReasoningItems \subseteq Items /\ CallItems \subseteq Items
  BY DEF Items, MessageItems
<1>2. ASSUME NEW m \in UserMessages PROVE ConvertMessage(m) \in Seq(Items)
  <2>1. CASE m.plain
    <3>1. m.text \in Texts
      BY <2>1, UserMessageItems, TextsAreTexts
    <3>2. Part("input_text", m.text) \in Parts
      BY <3>1 DEF Parts, TextParts, ImageParts
    <3>3. Message("user", <<Part("input_text", m.text)>>) \in Items
      <4> DEFINE parts == <<Part("input_text", m.text)>>
      <4>1. parts \in Seq(Parts)
        BY <3>2, SeqOfOne
      <4> HIDE DEF parts
      <4>2. Message("user", parts) \in OtherMessages
        BY <4>1 DEF OtherMessages
      <4> QED
        BY <1>1, <4>2 DEF parts
    <3> QED
      BY <2>1, <3>3, UserMessageItems, SeqOfOne
  <2>2. CASE ~m.plain
    <3>1. m.blocks \in Seq(UserBlocks)
      BY <2>2, UserMessageItems
    <3>2. FlatMap(ResultItem, m.blocks) \in Seq(ResultItems) /\ ShownMessage(m.blocks) \in Seq(OtherMessages)
      BY <3>1, UserItems
    <3>3. FlatMap(ResultItem, m.blocks) \in Seq(Items) /\ ShownMessage(m.blocks) \in Seq(Items)
      BY <1>1, <3>2, SeqSubset
    <3>4. ConvertMessage(m) = FlatMap(ResultItem, m.blocks) \o ShownMessage(m.blocks)
      BY <2>2, <3>1, UserMessageItems, UserItems
    <3> QED
      BY <3>3, <3>4, ConcatProperties
  <2> QED
    BY <2>1, <2>2
<1>3. ASSUME NEW m \in AssistantMessages PROVE ConvertMessage(m) \in Seq(Items)
  <2> DEFINE bs == m.blocks
             a == FlatMap(SentThinking, bs)
             b == SaidMessage(bs)
             c == FlatMap(SentUses, bs)
  <2>1. bs \in Seq(SaidBlocks) /\ ConvertMessage(m) = ConvertAssistantMessage(bs)
    BY AssistantMessageItems
  <2>2. /\ ConvertAssistantMessage(bs) = (a \o b) \o c
        /\ a \in Seq(ReasoningItems) /\ b \in Seq(MessageItems) /\ c \in Seq(CallItems)
    BY <2>1, AssistantItems
  <2> HIDE DEF a, b, c, bs
  <2>3. a \in Seq(Items) /\ b \in Seq(Items) /\ c \in Seq(Items)
    BY <1>1, <2>2, SeqSubset
  <2>4. (a \o b) \o c \in Seq(Items)
    BY <2>3, ConcatProperties
  <2> QED
    BY <2>1, <2>2, <2>4
<1> QED
  BY <1>2, <1>3 DEF Convert, Lists, Messages

\* What is sent of a transcript: normalizeInput of every item of Input.
SentItems == {NormalItem(x) : x \in Items}
Normal == [x \in Items |-> <<NormalItem(x)>>]
SendsOf == Composed(Messages, Normal, Convert)
Preamble(texts) ==
    IF ConvertSystem(texts) = <<>> THEN <<>> ELSE <<Message("developer", ConvertSystem(texts))>>
SentOf(texts, ms) == FlatMap(Normal, Preamble(texts)) \o FlatMap(SendsOf, ms)

LEMMA PreambleType ==
    ASSUME NEW texts \in Systems
    PROVE  /\ Preamble(texts) \in Seq(OtherMessages) /\ Preamble(texts) \in Seq(Items)
           /\ ConvertSystem(texts) \in Seq(TextParts)
<1> DEFINE Sent(text) == text # <<>> /\ text[1] # "billing"
           T == Seq(TextFragments \cup {"billing"})
           A == {t \in T : Sent(t)}
           w == Kept(A, texts)
           InputText(text) == Part("input_text", text)
<1>1. texts \in Seq(T)
  BY ClientAssumption
<1>2. Which(texts, Sent) = w
  <2> HIDE DEF T
  <2>1. [i \in 1 .. Len(texts) |-> IF Sent(texts[i]) THEN <<texts[i]>> ELSE <<>>]
            = [i \in 1 .. Len(texts) |-> IF texts[i] \in A THEN <<texts[i]>> ELSE <<>>]
    BY <1>1
  <2> QED
    BY <2>1 DEF Which, Kept
<1>3. w \in Seq(A)
  <2>1. A \subseteq T
    OBVIOUS
  <2> HIDE DEF A, T
  <2> QED
    BY <1>1, <2>1, MapKept
<1>4. A \subseteq Texts
  <2>1. TextFragments \cup {"billing"} \subseteq TextFragments \cup {"\n\n", "billing"}
    OBVIOUS
  <2>2. T \subseteq Texts
    <3> HIDE DEF Texts
    <3> QED
      BY <2>1, SeqSubset DEF Texts
  <2> HIDE DEF T
  <2> QED
    BY <2>2
<1>5. ConvertSystem(texts) = Each(InputText, Which(texts, Sent))
  BY DEF ConvertSystem
<1>6. ConvertSystem(texts) \in Seq(TextParts)
  <2> HIDE DEF w, A
  <2>1. ConvertSystem(texts) = [i \in 1 .. Len(w) |-> Part("input_text", w[i])]
    BY <1>2, <1>5 DEF Each
  <2>2. Len(w) \in Nat /\ \A i \in 1 .. Len(w) : w[i] \in Texts
    BY <1>3, <1>4
  <2>3. \A i \in 1 .. Len(w) : Part("input_text", w[i]) \in TextParts
    BY <2>2 DEF TextParts
  <2> QED
    BY <2>1, <2>2, <2>3
<1>7. Message("developer", ConvertSystem(texts)) \in OtherMessages
  <2>1. ConvertSystem(texts) \in Seq(Parts)
    BY <1>6, SeqSubset DEF Parts
  <2> QED
    BY <2>1 DEF OtherMessages
<1>8. Preamble(texts) \in Seq(OtherMessages)
  BY <1>7, EmptySeq, SeqOfOne DEF Preamble
<1>9. OtherMessages \subseteq Items
  BY DEF Items, MessageItems
<1> QED
  BY <1>6, <1>8, <1>9, SeqSubset

LEMMA NormalType ==
    /\ Normal \in Lists(Items, SentItems)
    /\ SendsOf \in Lists(Messages, SentItems)
<1>1. ASSUME NEW x \in Items PROVE <<NormalItem(x)>> \in Seq(SentItems)
  BY SeqOfOne DEF SentItems
<1>2. Normal \in Lists(Items, SentItems)
  BY <1>1 DEF Normal, Lists
<1>3. <<>> \in Seq(Messages)
  BY EmptySeq
<1>4. Composed(Messages, Normal, Convert) \in Lists(Messages, SentItems)
  BY <1>2, <1>3, ConvertType, FlatMapCompose
<1> QED
  BY <1>2, <1>4 DEF SendsOf

\* The Input of a request, item by item.
LEMMA SentInput ==
    ASSUME NEW request, request.system \in Systems, request.messages \in Seq(Messages)
    PROVE  Transform(ToResponses(request)).input = SentOf(request.system, request.messages)
<1> DEFINE p == Preamble(request.system)
           q == FlatMap(Convert, request.messages)
           input == ConvertInput(request.system, request.messages)
           ms == request.messages
<1>1. input = p \o q
  <2>1. \A i \in 1 .. Len(ms) : Convert[ms[i]] = ConvertMessage(ms[i])
    BY ElementOf DEF Convert
  <2>2. Each(ConvertMessage, ms) = [i \in 1 .. Len(ms) |-> Convert[ms[i]]]
    BY <2>1 DEF Each
  <2> QED
    BY <2>2 DEF ConvertInput, Preamble, FlatMap
<1>2. p \in Seq(Items) /\ q \in Seq(Items)
  BY PreambleType, ConvertType, FlatMapType
<1>3. Transform(ToResponses(request)).input = Each(NormalItem, input)
  <2> DEFINE b0 == ToResponses(request)
             b1 == NormalizeFields(b0)
             b2 == NormalizeLegacyFunctions(b1)
             b3 == NormalizeTools(b2)
             b4 == NormalizeToolChoice(b3)
             b5 == NormalizeInput(b4)
  <2>0. b0.input = input /\ "input" \in DOMAIN b0
    BY DEF ToResponses
  <2> HIDE DEF b0, input
  <2>1. b1.input = input /\ "input" \in DOMAIN b1
    BY <2>0 DEF NormalizeFields, EnsureReasoningInclude
  <2> HIDE DEF b1
  <2>2. b2.input = input /\ "input" \in DOMAIN b2
    BY <2>1 DEF NormalizeLegacyFunctions
  <2> HIDE DEF b2
  <2>3. b3.input = input /\ "input" \in DOMAIN b3
    BY <2>2 DEF NormalizeTools
  <2> HIDE DEF b3
  <2>4. b4.input = input /\ "input" \in DOMAIN b4
    BY <2>3 DEF NormalizeToolChoice
  <2> HIDE DEF b4
  <2>5. b5.input = Each(NormalItem, input)
    BY <2>4 DEF NormalizeInput
  <2> QED
    BY <2>5 DEF Transform, b4, b3, b2, b1, b0
<1>4. Each(NormalItem, input) = FlatMap(Normal, input)
  <2> DEFINE g == [x \in Items |-> NormalItem(x)]
  <2>1. input \in Seq(Items)
    BY <1>1, <1>2, ConcatProperties
  <2> HIDE DEF input
  <2>2. Each(NormalItem, input) = Mapped(g, input)
    <3>1. \A i \in 1 .. Len(input) : NormalItem(input[i]) = g[input[i]]
      BY <2>1, ElementOf
    <3> QED
      BY <3>1 DEF Each, Mapped
  <2>3. FlatMap([x \in Items |-> <<g[x]>>], input) = Mapped(g, input)
    <3> HIDE DEF g
    <3> QED
      BY <2>1, MapIsFlatMap
  <2>4. [x \in Items |-> <<g[x]>>] = Normal
    BY DEF Normal
  <2> QED
    BY <2>2, <2>3, <2>4
<1> HIDE DEF p, q, input
<1>5. FlatMap(Normal, p \o q) = FlatMap(Normal, p) \o FlatMap(Normal, q)
  BY <1>2, NormalType, FlatMapConcat
<1>6. FlatMap(Normal, q) = FlatMap(SendsOf, ms)
  <2>1. FlatMap(Normal, FlatMap(Convert, ms)) = FlatMap(Composed(Messages, Normal, Convert), ms)
    BY ConvertType, NormalType, FlatMapCompose DEF SendsOf
  <2> QED
    BY <2>1 DEF SendsOf, q
<1> QED
  BY <1>1, <1>3, <1>4, <1>5, <1>6 DEF SentOf, p

-----------------------------------------------------------------------------
(* What is told, and the blocks made of it *)

LEMMA AnswerItemTypes ==
    ASSUME NEW item \in AnswerItems
    PROVE  /\ ~IsCall(item) => item \in ToldThinking \cup ToldMessages
           /\ IsCall(item) => \A id \in Ids : [item EXCEPT !.call_id = id] \in ToldFunctions \cup ToldCustoms
<1> DEFINE A1 == [type : {"reasoning"}, summary : Seq(TextFragments), signature : Signatures \cup {NoSignature},
                  call_id : {NoId}, name : {NoName}]
           A2 == [type : {"message"}, texts : Seq(Seq(TextFragments) \ {<<>>}), call_id : {NoId}, name : {NoName}]
           A3 == [type : {"function_call"}, arguments : Seq(ArgFragments), call_id : {NoId}, name : ToolNames]
           A4 == [type : {"custom_tool_call"}, input : Seq(ArgFragments), call_id : {NoId}, name : ToolNames]
<1>1. item \in A1 \/ item \in A2 \/ item \in A3 \/ item \in A4
  BY DEF AnswerItems
<1>2. CASE item \in A1
  <2>1. item \in ToldThinking
    BY <1>2 DEF ToldThinking, Signed
  <2>2. item.type = "reasoning"
    BY <1>2
  <2> QED
    BY <2>1, <2>2 DEF IsCall
<1>3. CASE item \in A2
  <2>1. item \in ToldMessages
    BY <1>3 DEF ToldMessages
  <2>2. item.type = "message"
    BY <1>3
  <2> QED
    BY <2>1, <2>2 DEF IsCall
<1>4. CASE item \in A3
  <2>1. item.type = "function_call"
    BY <1>4
  <2>2. \A id \in Ids : [item EXCEPT !.call_id = id] \in ToldFunctions
    BY <1>4 DEF ToldFunctions
  <2> QED
    BY <2>1, <2>2 DEF IsCall
<1>5. CASE item \in A4
  <2>1. item.type = "custom_tool_call"
    BY <1>5
  <2>2. \A id \in Ids : [item EXCEPT !.call_id = id] \in ToldCustoms
    BY <1>5 DEF ToldCustoms
  <2> QED
    BY <2>1, <2>2 DEF IsCall
<1> QED
  BY <1>1, <1>2, <1>3, <1>4, <1>5

LEMMA IdentifiedType ==
    ASSUME NEW answer \in Answers, NEW items \in Identified(answer)
    PROVE  items \in Seq(ToldItems)
<1> DEFINE calls == {i \in 1 .. Len(answer) : IsCall(answer[i])}
           free == (ShortIds \cup LongIds) \ Used
<1>1. PICK ids \in [calls -> free] :
          items = [i \in 1 .. Len(answer) |->
                      IF i \in calls THEN [answer[i] EXCEPT !.call_id = ids[i]] ELSE answer[i]]
  BY DEF Identified
<1>2. answer \in Seq(AnswerItems)
  BY UpstreamAssumption
<1>3. free \subseteq Ids
  BY DEF Ids
<1>4. ASSUME NEW i \in 1 .. Len(answer)
      PROVE  (IF i \in calls THEN [answer[i] EXCEPT !.call_id = ids[i]] ELSE answer[i]) \in ToldItems
  <2>1. answer[i] \in AnswerItems
    BY <1>2, ElementOf
  <2>2. CASE i \in calls
    <3>1. ids[i] \in Ids
      BY <1>1, <1>3, <2>2
    <3>2. IsCall(answer[i])
      BY <2>2
    <3> HIDE DEF calls
    <3>3. [answer[i] EXCEPT !.call_id = ids[i]] \in ToldFunctions \cup ToldCustoms
      BY <2>1, <3>1, <3>2, AnswerItemTypes
    <3> QED
      BY <2>2, <3>3 DEF ToldItems
  <2>3. CASE i \notin calls
    <3>1. ~IsCall(answer[i])
      BY <2>3
    <3>2. answer[i] \in ToldThinking \cup ToldMessages
      BY <2>1, <3>1, AnswerItemTypes
    <3> HIDE DEF calls
    <3> QED
      BY <2>3, <3>2 DEF ToldItems
  <2> QED
    BY <2>2, <2>3
<1>5. Len(answer) \in Nat
  BY <1>2
<1> DEFINE item(i) == IF i \in calls THEN [answer[i] EXCEPT !.call_id = ids[i]] ELSE answer[i]
<1>6. items = [i \in 1 .. Len(answer) |-> item(i)]
  BY <1>1
<1>7. \A i \in 1 .. Len(answer) : item(i) \in ToldItems
  BY <1>4
<1> HIDE DEF item
<1> QED
  BY <1>5, <1>6, <1>7

\* responseOutputToBlocks, item by item.
LEMMA ThinkingBlocksOf ==
    ASSUME NEW item \in ToldThinking
    PROVE  BlocksOf(item) = IF item.summary # <<>> \/ item.signature # NoSignature
                            THEN <<Said("thinking", item.summary, item.signature, NoId, NoName)>>
                            ELSE <<>>
<1>1. item.type = "reasoning" /\ item.call_id = NoId /\ item.name = NoName
  BY DEF ToldThinking
<1>2. CASE item.summary # <<>> \/ item.signature # NoSignature
  <2>1. ItemBlocks(item) = <<ContentBlock("thinking", item.summary, item.signature)>>
    BY <1>1, <1>2 DEF ItemBlocks
  <2> QED
    BY <1>1, <1>2, <2>1 DEF BlocksOf, Said, ContentBlock
<1>3. CASE ~(item.summary # <<>> \/ item.signature # NoSignature)
  <2>1. ItemBlocks(item) = <<>>
    BY <1>1, <1>3 DEF ItemBlocks
  <2> QED
    BY <1>3, <2>1 DEF BlocksOf
<1> QED
  BY <1>2, <1>3

LEMMA MessageBlocksOf ==
    ASSUME NEW item \in ToldMessages
    PROVE  BlocksOf(item) =
               [k \in 1 .. Len(item.texts) |-> Said("text", item.texts[k], NoSignature, NoId, NoName)]
<1>1. item.type = "message" /\ item.call_id = NoId /\ item.name = NoName
      /\ item.texts \in Seq(Seq(TextFragments) \ {<<>>})
  BY DEF ToldMessages
<1> DEFINE bs == [i \in 1 .. Len(item.texts) |-> ContentBlock("text", item.texts[i], NoSignature)]
<1>2. ItemBlocks(item) = bs
  BY <1>1 DEF ItemBlocks
<1>3. Len(bs) = Len(item.texts)
  <2>1. Len(item.texts) \in Nat
    BY <1>1
  <2> QED
    BY <2>1
<1>4. \A i \in 1 .. Len(item.texts) : /\ bs[i].kind = "text" /\ bs[i].data = item.texts[i]
                                      /\ bs[i].signature = NoSignature
  BY DEF ContentBlock
<1> HIDE DEF bs
<1> QED
  BY <1>1, <1>2, <1>3, <1>4 DEF BlocksOf, Said

LEMMA FunctionBlocksOf ==
    ASSUME NEW item \in ToldFunctions
    PROVE  BlocksOf(item) =
               <<Said("tool_use", FunctionToolInput(item.arguments), NoSignature, item.call_id, item.name)>>
<1>1. item.type = "function_call"
  BY DEF ToldFunctions
<1>2. ItemBlocks(item) = <<ContentBlock("tool_use", FunctionToolInput(item.arguments), NoSignature)>>
  BY <1>1 DEF ItemBlocks
<1> QED
  BY <1>2 DEF BlocksOf, Said, ContentBlock

LEMMA CustomBlocksOf ==
    ASSUME NEW item \in ToldCustoms
    PROVE  BlocksOf(item) =
               <<Said("tool_use", CustomToolInput(item.input), NoSignature, item.call_id, item.name)>>
<1>1. item.type = "custom_tool_call"
  BY DEF ToldCustoms
<1>2. ItemBlocks(item) = <<ContentBlock("tool_use", CustomToolInput(item.input), NoSignature)>>
  BY <1>1 DEF ItemBlocks
<1> QED
  BY <1>2 DEF BlocksOf, Said, ContentBlock

LEMMA BlocksOfKinds ==
    ASSUME NEW item \in ToldItems
    PROVE  /\ item \in ToldThinking => BlocksOf(item) \in Seq(ThinkingBlocks)
           /\ item \in ToldMessages => BlocksOf(item) \in Seq(TextBlocks)
           /\ item \in ToldFunctions \cup ToldCustoms => BlocksOf(item) \in Seq(UseBlocks)
<1>1. ASSUME item \in ToldThinking PROVE BlocksOf(item) \in Seq(ThinkingBlocks)
  <2>1. item.summary \in Seq(TextFragments) /\ item.signature \in Signed
    BY <1>1 DEF ToldThinking
  <2>2. Said("thinking", item.summary, item.signature, NoId, NoName) \in ThinkingBlocks
    BY <2>1 DEF ThinkingBlocks
  <2> QED
    BY <1>1, <2>2, ThinkingBlocksOf, SeqOfOne, EmptySeq
<1>2. ASSUME item \in ToldMessages PROVE BlocksOf(item) \in Seq(TextBlocks)
  <2>1. item.texts \in Seq(Seq(TextFragments) \ {<<>>})
    BY <1>2 DEF ToldMessages
  <2> DEFINE texts == item.texts
  <2> HIDE DEF texts
  <2>2. Len(texts) \in Nat /\ \A k \in 1 .. Len(texts) : texts[k] \in Seq(TextFragments)
    BY <2>1, ElementOf DEF texts
  <2>3. \A k \in 1 .. Len(texts) : Said("text", texts[k], NoSignature, NoId, NoName) \in TextBlocks
    BY <2>2 DEF TextBlocks
  <2>4. BlocksOf(item) = [k \in 1 .. Len(texts) |-> Said("text", texts[k], NoSignature, NoId, NoName)]
    BY <1>2, MessageBlocksOf DEF texts
  <2> QED
    BY <2>2, <2>3, <2>4
<1>3. ASSUME item \in ToldFunctions PROVE BlocksOf(item) \in Seq(UseBlocks)
  <2>1. item.arguments \in Seq(ArgFragments) /\ item.call_id \in Ids /\ item.name \in ToolNames
    BY <1>3 DEF ToldFunctions
  <2>2. FunctionToolInput(item.arguments) \in Inputs
    BY <2>1 DEF Inputs
  <2>3. Said("tool_use", FunctionToolInput(item.arguments), NoSignature, item.call_id, item.name) \in UseBlocks
    BY <2>1, <2>2 DEF UseBlocks
  <2> QED
    BY <1>3, <2>3, FunctionBlocksOf, SeqOfOne
<1>4. ASSUME item \in ToldCustoms PROVE BlocksOf(item) \in Seq(UseBlocks)
  <2>1. item.input \in Seq(ArgFragments) /\ item.call_id \in Ids /\ item.name \in ToolNames
    BY <1>4 DEF ToldCustoms
  <2>2. CustomToolInput(item.input) \in Inputs
    BY <2>1 DEF Inputs
  <2>3. Said("tool_use", CustomToolInput(item.input), NoSignature, item.call_id, item.name) \in UseBlocks
    BY <2>1, <2>2 DEF UseBlocks
  <2> QED
    BY <1>4, <2>3, CustomBlocksOf, SeqOfOne
<1> QED
  BY <1>1, <1>2, <1>3, <1>4

LEMMA BlocksOfType ==
    ASSUME NEW item \in ToldItems
    PROVE  BlocksOf(item) \in Seq(SaidBlocks)
<1>1. ThinkingBlocks \subseteq SaidBlocks /\ TextBlocks \subseteq SaidBlocks /\ UseBlocks \subseteq SaidBlocks
  BY DEF SaidBlocks
<1> QED
  BY <1>1, BlocksOfKinds, SeqSubset DEF ToldItems

ToldBlocks == [item \in ToldItems |-> BlocksOf(item)]

LEMMA BlocksAre ==
    ASSUME NEW items \in Seq(ToldItems)
    PROVE  /\ ToldBlocks \in Lists(ToldItems, SaidBlocks)
           /\ Blocks(items) = IF FlatMap(ToldBlocks, items) = <<>> THEN <<TextBlock(<<>>)>>
                              ELSE FlatMap(ToldBlocks, items)
           /\ Blocks(items) \in Seq(SaidBlocks)
<1>1. ToldBlocks \in Lists(ToldItems, SaidBlocks)
  BY BlocksOfType DEF ToldBlocks, Lists
<1>2. FlattenSeq(Each(BlocksOf, items)) = FlatMap(ToldBlocks, items)
  <2>1. \A i \in 1 .. Len(items) : ToldBlocks[items[i]] = BlocksOf(items[i])
    BY ElementOf DEF ToldBlocks
  <2>2. Each(BlocksOf, items) = [i \in 1 .. Len(items) |-> ToldBlocks[items[i]]]
    BY <2>1 DEF Each
  <2> QED
    BY <2>2 DEF FlatMap
<1>3. FlatMap(ToldBlocks, items) \in Seq(SaidBlocks)
  BY <1>1, FlatMapType
<1>4. <<TextBlock(<<>>)>> \in Seq(SaidBlocks)
  <2>1. TextBlock(<<>>) \in SaidBlocks
    BY DEF SaidBlocks, TextBlocks
  <2> QED
    BY <2>1, SeqOfOne
<1>5. Blocks(items) = IF FlatMap(ToldBlocks, items) = <<>> THEN <<TextBlock(<<>>)>>
                      ELSE FlatMap(ToldBlocks, items)
  BY <1>2 DEF Blocks
<1> QED
  BY <1>1, <1>3, <1>4, <1>5

-----------------------------------------------------------------------------
(* The transcript *)

\* A transcript before the client's turn ends with an answer, if with anything.
Turns == {ms \in Seq(Messages) : ms # <<>> => ms[Len(ms)] \in AssistantMessages}

LEMMA OpenCallsType ==
    ASSUME messages \in Turns
    PROVE  OpenCalls \in Seq(UseBlocks)
<1>1. CASE messages = <<>>
  BY <1>1, EmptySeq DEF OpenCalls
<1>2. CASE messages # <<>>
  <2> DEFINE bs == Last(messages).blocks
  <2>1. Last(messages) \in AssistantMessages
    BY <1>2 DEF Turns, Last
  <2>2. bs \in Seq(SaidBlocks)
    BY <2>1, AssistantMessageItems
  <2> HIDE DEF bs
  <2>3. Kind(bs, "tool_use") = Kept(UseBlocks, bs)
    BY <2>2, SaidKept
  <2>4. UseBlocks \subseteq SaidBlocks
    BY DEF SaidBlocks
  <2>5. Kept(UseBlocks, bs) \in Seq(UseBlocks)
    BY <2>2, <2>4, MapKept
  <2> QED
    BY <1>2, <2>3, <2>5 DEF OpenCalls, bs
<1> QED
  BY <1>1, <1>2

LEMMA ResultsType ==
    ASSUME messages \in Turns, NEW order \in Orders(Len(OpenCalls)),
           NEW results \in [1 .. Len(OpenCalls) -> ResultContents]
    PROVE  Results(order, results) \in Seq(ResultBlocks)
<1> DEFINE calls == OpenCalls
           n == Len(calls)
<1>1. calls \in Seq(UseBlocks)
  BY OpenCallsType
<1>2. order \in [1 .. n -> 1 .. n]
  BY DEF Orders
<1>3. results \in [1 .. n -> ResultContents]
  OBVIOUS
<1>4. Results(order, results) =
          [i \in 1 .. n |-> ToolResult(calls[order[i]].id, results[i].content, results[i].isError)]
  BY DEF Results
<1> HIDE DEF calls
<1>5. ASSUME NEW i \in 1 .. n
      PROVE  ToolResult(calls[order[i]].id, results[i].content, results[i].isError) \in ResultBlocks
  <2>1. calls[order[i]] \in UseBlocks
    BY <1>1, <1>2
  <2>2. calls[order[i]].id \in Ids
    BY <2>1, UseBlockFields
  <2>3. results[i] \in [content : Seq(ShownBlocks), isError : BOOLEAN]
    BY <1>3, ClientAssumption
  <2>4. results[i].content \in Seq(ShownBlocks) /\ results[i].isError \in BOOLEAN
    BY <2>3
  <2> QED
    BY <2>2, <2>4 DEF ResultBlocks
<1>6. n \in Nat
  BY <1>1
<1> HIDE DEF n
<1> QED
  BY <1>4, <1>5, <1>6

LEMMA RepliesType ==
    ASSUME messages \in Turns, NEW message \in Replies
    PROVE  message \in UserMessages
<1>1. Extras \subseteq Seq(UserBlocks)
  <2>1. ShownBlocks \subseteq UserBlocks
    BY DEF UserBlocks
  <2>2. Seq(ShownBlocks) \subseteq Seq(UserBlocks)
    BY <2>1, SeqSubset
  <2> QED
    BY <2>2, ClientAssumption
<1>2. CASE OpenCalls = <<>>
  <2>1. (\E extra \in Extras : message = Blocked("user", extra))
        \/ (\E fragment \in TextFragments : message = Plain("user", <<fragment>>))
    BY <1>2 DEF Replies
  <2>2. \A fragment \in TextFragments : <<fragment>> \in Seq(TextFragments)
    BY SeqOfOne
  <2> QED
    BY <1>1, <2>1, <2>2 DEF UserMessages
<1>3. CASE OpenCalls # <<>>
  <2>1. PICK before \in Extras, after \in Extras,
             order \in Orders(Len(OpenCalls)), results \in [1 .. Len(OpenCalls) -> ResultContents] :
             message = Blocked("user", before \o Results(order, results) \o after)
    BY <1>3 DEF Replies
  <2>2. Results(order, results) \in Seq(UserBlocks)
    <3>1. ResultBlocks \subseteq UserBlocks
      BY DEF UserBlocks
    <3>2. Results(order, results) \in Seq(ResultBlocks)
      BY ResultsType
    <3> QED
      BY <3>1, <3>2, SeqSubset
  <2>3. before \o Results(order, results) \in Seq(UserBlocks)
    BY <1>1, <2>2, ConcatProperties
  <2>4. (before \o Results(order, results)) \o after \in Seq(UserBlocks)
    BY <1>1, <2>3, ConcatProperties
  <2> QED
    BY <2>1, <2>4 DEF UserMessages
<1> QED
  BY <1>2, <1>3

\* What the upstream has answered was sent for the first messages of the transcript.
AnsweredFor(ms) ==
    answered = <<>> \/ \E u, v \in Seq(Messages) : ms = u \o v /\ answered = SentOf(system, u)
TranscriptInv ==
    /\ system \in Systems
    /\ told \in Seq(ToldItems)
    /\ turn # "upstream" => messages \in Turns /\ AnsweredFor(messages)
    /\ turn = "upstream" =>
           \E ms \in Turns : \E m \in UserMessages :
               /\ messages = Append(ms, m)
               /\ sent.input = SentOf(system, messages)
               /\ AnsweredFor(ms)

LEMMA TranscriptStep ==
    ASSUME TranscriptInv, [Next]_vars
    PROVE  TranscriptInv'
<1>0. \A ms : ms \in Turns => ms \in Seq(Messages)
  BY DEF Turns
<1>1. ASSUME turn = "client", NEW message \in Replies, Ask(message)
      PROVE  TranscriptInv'
  <2>1. messages \in Turns /\ AnsweredFor(messages) /\ message \in UserMessages
    BY <1>1, RepliesType DEF TranscriptInv
  <2>2. PICK request : /\ request.system = system /\ request.messages = Append(messages, message)
                       /\ messages' = request.messages
                       /\ sent' = Transform(ToResponses(request))
                       /\ turn' = "upstream"
                       /\ UNCHANGED <<system, answered, told, transformed>>
    BY <1>1 DEF Ask
  <2>3. messages' \in Seq(Messages)
    BY <1>0, <2>1, <2>2, AppendProperties DEF Messages
  <2>4. sent'.input = SentOf(system, messages')
    BY <2>2, <2>3, SentInput DEF TranscriptInv
  <2> QED
    BY <2>1, <2>2, <2>4 DEF TranscriptInv, AnsweredFor
<1>2. CASE Answer
  <2>1. PICK ms \in Turns, m \in UserMessages :
            messages = Append(ms, m) /\ sent.input = SentOf(system, messages)
    BY <1>2 DEF Answer, TranscriptInv
  <2>a. PICK answer \in Answers : \E items \in Identified(answer) :
            /\ told' = told \o items
            /\ messages' = Append(messages, Blocked("assistant", Blocks(items)))
    BY <1>2 DEF Answer
  <2>2. PICK items \in Identified(answer) :
            /\ told' = told \o items
            /\ messages' = Append(messages, Blocked("assistant", Blocks(items)))
            /\ answered' = sent.input /\ turn' = "client" /\ system' = system
    BY <1>2, <2>a DEF Answer
  <2> DEFINE reply == Blocked("assistant", Blocks(items))
  <2>3. items \in Seq(ToldItems)
    BY IdentifiedType
  <2>4. reply \in AssistantMessages /\ reply \in Messages
    BY <2>3, BlocksAre DEF AssistantMessages, Messages
  <2>5. messages \in Seq(Messages)
    BY <1>0, <2>1, AppendProperties DEF Messages
  <2> HIDE DEF reply
  <2>6. messages' = Append(messages, reply)
    BY <2>2 DEF reply
  <2>7. messages' \in Turns
    <3>1. /\ messages' \in Seq(Messages) /\ Len(messages') = Len(messages) + 1
          /\ messages'[Len(messages) + 1] = reply
      BY <2>4, <2>5, <2>6, AppendProperties
    <3>2. messages'[Len(messages')] \in AssistantMessages
      BY <2>4, <3>1
    <3> QED
      BY <3>1, <3>2 DEF Turns
  <2>8. messages' = messages \o <<reply>> /\ <<reply>> \in Seq(Messages)
    BY <2>4, <2>5, <2>6, SeqOfOne
  <2>9. AnsweredFor(messages)'
    BY <2>1, <2>2, <2>5, <2>8 DEF AnsweredFor
  <2>10. told' \in Seq(ToldItems)
    BY <2>2, <2>3, ConcatProperties DEF TranscriptInv
  <2> QED
    BY <2>2, <2>7, <2>9, <2>10 DEF TranscriptInv
<1>3. CASE Fail
  <2>1. PICK ms \in Turns, m \in UserMessages : messages = Append(ms, m) /\ AnsweredFor(ms)
    BY <1>3 DEF Fail, TranscriptInv
  <2>2. Front(messages) = ms
    BY <1>0, <2>1, FrontOfAppend
  <2> QED
    BY <1>3, <2>1, <2>2 DEF Fail, TranscriptInv, AnsweredFor
<1>4. CASE TransformOlder
  BY <1>4 DEF TransformOlder, TranscriptInv, AnsweredFor
<1>5. CASE UNCHANGED vars
  BY <1>5 DEF vars, TranscriptInv, AnsweredFor
<1> QED
  BY <1>1, <1>2, <1>3, <1>4, <1>5 DEF Next

LEMMA TranscriptInit == Init => TranscriptInv
<1> SUFFICES ASSUME Init PROVE TranscriptInv
  OBVIOUS
<1>1. <<>> \in Turns /\ <<>> \in Seq(ToldItems)
  BY EmptySeq DEF Turns
<1> QED
  BY <1>1 DEF Init, TranscriptInv, AnsweredFor

\* Each request begins with all of the Input of the one answered before it.
LEMMA AnsweredIsPrefix ==
    ASSUME TranscriptInv
    PROVE  ExtendsAnswered
<1> SUFFICES ASSUME turn = "upstream" PROVE IsPrefix(answered, sent.input)
  BY DEF ExtendsAnswered
<1>1. PICK ms \in Turns, m \in UserMessages :
          messages = Append(ms, m) /\ sent.input = SentOf(system, messages) /\ AnsweredFor(ms)
  BY DEF TranscriptInv
<1>2. ms \in Seq(Messages) /\ m \in Messages /\ messages \in Seq(Messages)
  BY <1>1, AppendProperties DEF Turns, Messages
<1>3. ASSUME NEW ss \in Seq(Messages)
      PROVE  SentOf(system, ss) \in Seq(SentItems)
  <2>1. FlatMap(Normal, Preamble(system)) \in Seq(SentItems)
    BY PreambleType, NormalType, FlatMapType DEF TranscriptInv
  <2>2. FlatMap(SendsOf, ss) \in Seq(SentItems)
    BY NormalType, FlatMapType
  <2> QED
    BY <2>1, <2>2, ConcatProperties DEF SentOf
<1>4. CASE answered = <<>>
  BY <1>1, <1>2, <1>3, <1>4, EmptyIsPrefix
<1>5. CASE answered # <<>>
  <2>1. PICK u \in Seq(Messages), v \in Seq(Messages) : ms = u \o v /\ answered = SentOf(system, u)
    BY <1>1, <1>5 DEF AnsweredFor
  <2> DEFINE w == v \o <<m>>
             p == FlatMap(Normal, Preamble(system))
             a == FlatMap(SendsOf, u)
             b == FlatMap(SendsOf, w)
  <2>2. w \in Seq(Messages) /\ messages = u \o w
    <3>1. <<m>> \in Seq(Messages)
      BY <1>2, SeqOfOne
    <3>2. messages = ms \o <<m>>
      BY <1>1, <1>2
    <3>3. (u \o v) \o <<m>> = u \o (v \o <<m>>)
      BY <3>1, ConcatAssociative
    <3> QED
      BY <2>1, <3>1, <3>2, <3>3, ConcatProperties
  <2> HIDE DEF w
  <2>3. FlatMap(SendsOf, messages) = a \o b
    BY <2>2, NormalType, FlatMapConcat
  <2>4. p \in Seq(SentItems) /\ a \in Seq(SentItems) /\ b \in Seq(SentItems)
    BY <2>2, PreambleType, NormalType, FlatMapType DEF TranscriptInv
  <2>5. answered = p \o a /\ sent.input = p \o (a \o b)
    BY <1>1, <2>1, <2>3 DEF SentOf
  <2> HIDE DEF p, a, b
  <2>6. p \o (a \o b) = (p \o a) \o b
    <3>1. Cat(p, Cat(a, b)) = Cat(Cat(p, a), b)
      BY <2>4, CatAssociative
    <3> QED
      BY <3>1, Zenon DEF Cat
  <2>7. p \o a \in Seq(SentItems)
    BY <2>4, ConcatProperties
  <2> QED
    BY <2>4, <2>5, <2>6, <2>7, ConcatIsPrefix
<1> QED
  BY <1>4, <1>5

\* What the upstream has kept of a conversation is never sent to it in another form:
\* ConvertInput and normalizeInput translate a message the same way in every request.
THEOREM InputGrows == Spec => []ExtendsAnswered
<1>1. TranscriptInv /\ [Next]_vars => TranscriptInv'
  BY TranscriptStep
<1> QED
  BY <1>1, TranscriptInit, AnsweredIsPrefix, PTL DEF Spec

-----------------------------------------------------------------------------
(* What is sent of what was said *)

\* The inputs of calls say something.
LEMMA EmptyObjectIsNotBlank == ~Blank(EmptyObject)
<1>1. Len(EmptyObject) \in Nat /\ Len(EmptyObject) >= 1
  BY DEF EmptyObject
<1>2. EmptyObject[1] = "{}"
  BY DEF EmptyObject
<1>3. EmptyObject[1] \notin Blanks
  BY <1>2, BlanksAssumption
<1> QED
  BY <1>1, <1>3, BeginsOutside DEF Blank

LEMMA CustomInputIsNotBlank ==
    ASSUME NEW S, NEW a \in Seq(S)
    PROVE  ~Blank(CustomToolInput(a))
<1> DEFINE input == CustomToolInput(a)
<1>1. Len(input) \in Nat /\ Len(input) >= 1 /\ input[1] = "{input:"
  BY FirstOfThree DEF CustomToolInput
<1> HIDE DEF input
<1>2. input[1] \notin Blanks
  BY <1>1, BlanksAssumption
<1> QED
  BY <1>1, <1>2, BeginsOutside DEF Blank, input

\* Items after normalizeInput.
LEMMA NormalFields ==
    /\ \A x \in MessageItems : NormalItem(x).type = "message" /\ NormalItem(x).body = x.body
    /\ \A b \in ResultBlocks : NormalItem(OutputItem(b)).type = "function_call_output"
    /\ \A b \in ThinkingBlocks : /\ NormalItem(ReasoningItem(b)).type = "reasoning"
                                 /\ NormalItem(ReasoningItem(b)).body = b.signature
    /\ \A b \in UseBlocks : /\ NormalItem(CallItem(b)).type = "function_call"
                            /\ NormalItem(CallItem(b)).call_id = CompactCallID(b.id)
                            /\ NormalItem(CallItem(b)).name = b.name
                            /\ NormalItem(CallItem(b)).body = b.data
<1>1. ASSUME NEW x \in MessageItems
      PROVE  NormalItem(x).type = "message" /\ NormalItem(x).body = x.body
  <2>1. PICK role, parts : x = Message(role, parts)
    <3>1. CASE x \in OtherMessages
      BY <3>1 DEF OtherMessages
    <3>2. CASE x \in SaidMessages
      <4>1. PICK text \in Texts : x = Message("assistant", <<Part("output_text", text)>>)
        BY <3>2 DEF SaidMessages
      <4> QED
        BY <4>1
    <3> QED
      BY <3>1, <3>2 DEF MessageItems
  <2> QED
    BY <2>1 DEF NormalItem, Message, InputItem
<1>2. ASSUME NEW b \in ResultBlocks
      PROVE  NormalItem(OutputItem(b)).type = "function_call_output"
  BY DEF NormalItem, OutputItem, InputItem
<1>3. ASSUME NEW b \in ThinkingBlocks
      PROVE  /\ NormalItem(ReasoningItem(b)).type = "reasoning"
             /\ NormalItem(ReasoningItem(b)).body = b.signature
  BY DEF NormalItem, ReasoningItem, InputItem
<1>4. ASSUME NEW b \in UseBlocks
      PROVE  /\ NormalItem(CallItem(b)).type = "function_call"
             /\ NormalItem(CallItem(b)).call_id = CompactCallID(b.id)
             /\ NormalItem(CallItem(b)).name = b.name
             /\ NormalItem(CallItem(b)).body = b.data
  <2> DEFINE x == CallItem(b)
  <2>1. /\ x.type = "function_call" /\ x.call_id = b.id /\ x.id = NoId /\ x.name = b.name
        /\ x.body = FunctionToolInput(b.data)
        /\ DOMAIN x = {"type", "call_id", "id", "name", "body"}
    BY DEF CallItem, InputItem
  <2>2. b.name # NoName
    BY UseBlockFields, UpstreamAssumption
  <2>3. FunctionToolInput(b.data) = b.data
    <3>1. \A a \in Seq(ArgFragments) : ~Blank(FunctionToolInput(a))
      BY EmptyObjectIsNotBlank DEF FunctionToolInput
    <3>2. \A a \in Seq(ArgFragments) : ~Blank(CustomToolInput(a))
      BY CustomInputIsNotBlank
    <3>3. ~Blank(b.data)
      BY <3>1, <3>2, UseBlockFields DEF Inputs
    <3> QED
      BY <3>3 DEF FunctionToolInput
  <2> HIDE DEF x
  <2>4. /\ NormalItem(x).type = x.type /\ NormalItem(x).body = x.body /\ NormalItem(x).name = x.name
        /\ NormalItem(x).call_id = CompactCallID(x.call_id)
    BY <2>1, <2>2 DEF NormalItem, CallTypes
  <2> QED
    BY <2>1, <2>3, <2>4 DEF x
<1> QED
  BY <1>1, <1>2, <1>3, <1>4

\* What P makes of the items that are sent, message by message.
MessageTo(P) == Composed(Messages, P, SendsOf)
ItemTo(P) == [x \in Items |-> P[NormalItem(x)]]

LEMMA ItemToType ==
    ASSUME NEW T, NEW P \in Lists(SentItems, T)
    PROVE  ItemTo(P) \in Lists(Items, T)
<1>1. \A x \in Items : P[NormalItem(x)] \in Seq(T)
  BY ListOf DEF SentItems
<1> QED
  BY <1>1 DEF ItemTo, Lists

LEMMA MessageToType ==
    ASSUME NEW T, NEW P \in Lists(SentItems, T), NEW ms \in Seq(Messages)
    PROVE  /\ MessageTo(P) \in Lists(Messages, T)
           /\ FlatMap(P, FlatMap(SendsOf, ms)) = FlatMap(MessageTo(P), ms)
<1>1. Composed(Messages, P, SendsOf) \in Lists(Messages, T)
  BY NormalType, FlatMapCompose
<1>2. FlatMap(P, FlatMap(SendsOf, ms)) = FlatMap(Composed(Messages, P, SendsOf), ms)
  BY NormalType, FlatMapCompose
<1> QED
  BY <1>1, <1>2 DEF MessageTo

LEMMA SentItemwise ==
    ASSUME NEW T, NEW P \in Lists(SentItems, T), NEW c \in Seq(Items)
    PROVE  FlatMap(P, FlatMap(Normal, c)) = FlatMap(ItemTo(P), c)
<1> DEFINE k == Composed(Items, P, Normal)
<1>1. k \in Lists(Items, T)
  BY NormalType, FlatMapCompose
<1>2. FlatMap(P, FlatMap(Normal, c)) = FlatMap(k, c)
  BY NormalType, FlatMapCompose
<1>3. ASSUME NEW x \in Items PROVE k[x] = ItemTo(P)[x]
  <2>1. k[x] = FlatMap(P, Normal[x])
    BY ComposedAt
  <2>2. NormalItem(x) \in SentItems /\ Normal[x] = <<NormalItem(x)>>
    BY DEF Normal, SentItems
  <2> HIDE DEF k
  <2>3. FlatMap(P, <<NormalItem(x)>>) = P[NormalItem(x)]
    BY <2>2, FlatMapOne
  <2> QED
    BY <2>1, <2>2, <2>3 DEF ItemTo
<1> HIDE DEF k
<1> QED
  BY <1>2, <1>3, FlatMapSame

LEMMA MessageToAt ==
    ASSUME NEW T, NEW P \in Lists(SentItems, T), NEW m \in Messages
    PROVE  MessageTo(P)[m] = FlatMap(ItemTo(P), ConvertMessage(m))
<1> DEFINE c == ConvertMessage(m)
<1>1. Convert[m] = c
  BY DEF Convert
<1>2. c \in Seq(Items)
  BY <1>1, ConvertType, ListOf
<1>3. MessageTo(P)[m] = FlatMap(P, SendsOf[m])
  BY ComposedAt DEF MessageTo
<1>4. SendsOf[m] = FlatMap(Normal, c)
  BY <1>1, ComposedAt DEF SendsOf
<1> HIDE DEF c
<1>5. FlatMap(P, FlatMap(Normal, c)) = FlatMap(ItemTo(P), c)
  BY <1>2, SentItemwise
<1> QED
  BY <1>3, <1>4, <1>5 DEF c

\* A projection that takes nothing of what users say.
Silent(P) == \A x \in OtherMessages \cup ResultItems : P[NormalItem(x)] = <<>>

LEMMA NothingFrom ==
    ASSUME NEW P, NEW C, C \subseteq Items, \A x \in C : P[NormalItem(x)] = <<>>, NEW c \in Seq(C)
    PROVE  FlatMap(ItemTo(P), c) = <<>>
<1>1. \A x \in C : ItemTo(P)[x] = <<>>
  BY DEF ItemTo
<1> QED
  BY <1>1, FlatMapNothing

LEMMA SilentMessages ==
    ASSUME NEW P, Silent(P), NEW c \in Seq(OtherMessages \cup ResultItems)
    PROVE  FlatMap(ItemTo(P), c) = <<>>
<1>1. OtherMessages \cup ResultItems \subseteq Items
  BY DEF Items, MessageItems
<1> QED
  BY <1>1, NothingFrom DEF Silent

LEMMA UserSends ==
    ASSUME NEW T, NEW P \in Lists(SentItems, T), Silent(P), NEW m \in UserMessages
    PROVE  MessageTo(P)[m] = <<>>
<1> DEFINE c == ConvertMessage(m)
<1>1. c \in Seq(OtherMessages \cup ResultItems)
  <2>1. CASE m.plain
    <3> DEFINE parts == <<Part("input_text", m.text)>>
    <3>1. Part("input_text", m.text) \in Parts
      BY <2>1, UserMessageItems, TextsAreTexts DEF Parts, TextParts, ImageParts
    <3>2. parts \in Seq(Parts)
      BY <3>1, SeqOfOne
    <3>3. c = <<Message("user", parts)>>
      BY <2>1, UserMessageItems
    <3> HIDE DEF parts, c
    <3>4. Message("user", parts) \in OtherMessages
      BY <3>2 DEF OtherMessages
    <3> QED
      BY <3>3, <3>4, SeqOfOne
  <2>2. CASE ~m.plain
    <3> DEFINE bs == m.blocks
    <3>1. bs \in Seq(UserBlocks) /\ c = ConvertUserMessage(bs)
      BY <2>2, UserMessageItems
    <3> HIDE DEF bs, c
    <3>2. /\ c = FlatMap(ResultItem, bs) \o ShownMessage(bs)
          /\ FlatMap(ResultItem, bs) \in Seq(ResultItems)
          /\ ShownMessage(bs) \in Seq(OtherMessages)
      BY <3>1, UserItems
    <3>3. /\ FlatMap(ResultItem, bs) \in Seq(OtherMessages \cup ResultItems)
          /\ ShownMessage(bs) \in Seq(OtherMessages \cup ResultItems)
      BY <3>2, SeqSubset
    <3> QED
      BY <3>2, <3>3, ConcatType
  <2> QED
    BY <2>1, <2>2
<1>2. m \in Messages
  BY DEF Messages
<1>3. MessageTo(P)[m] = FlatMap(ItemTo(P), c)
  BY <1>2, MessageToAt
<1> HIDE DEF c
<1> QED
  BY <1>1, <1>3, SilentMessages

\* What P makes of a whole request: what it makes of the answers in it.
LEMMA RequestTo ==
    ASSUME NEW T, NEW P \in Lists(SentItems, T), Silent(P), NEW texts \in Systems, NEW ms \in Seq(Messages)
    PROVE  FlatMap(P, SentOf(texts, ms)) = FlatMap(MessageTo(P), ms)
<1> DEFINE p == Preamble(texts)
           u == FlatMap(Normal, p)
           v == FlatMap(SendsOf, ms)
<1>1. p \in Seq(OtherMessages) /\ p \in Seq(Items)
  BY PreambleType
<1>2. p \in Seq(OtherMessages \cup ResultItems)
  BY <1>1, SeqSubset
<1> HIDE DEF p
<1>3. u \in Seq(SentItems) /\ v \in Seq(SentItems)
  BY <1>1, NormalType, FlatMapType
<1>4. FlatMap(P, u) = <<>>
  BY <1>1, <1>2, SentItemwise, SilentMessages
<1>5. FlatMap(P, v) = FlatMap(MessageTo(P), ms) /\ FlatMap(P, v) \in Seq(T)
  BY <1>3, MessageToType, FlatMapType
<1>6. SentOf(texts, ms) = u \o v
  BY DEF SentOf, p
<1> HIDE DEF u, v
<1>7. FlatMap(P, u \o v) = FlatMap(P, u) \o FlatMap(P, v)
  BY <1>3, FlatMapConcat
<1>8. <<>> \o FlatMap(P, v) = FlatMap(P, v)
  BY <1>5
<1> QED
  BY <1>4, <1>5, <1>6, <1>7, <1>8

\* What P makes of one answer.
ThoughtTo(P) == Composed(SaidBlocks, ItemTo(P), SentThinking)
UseTo(P) == Composed(SaidBlocks, ItemTo(P), SentUses)

LEMMA AnswerSends ==
    ASSUME NEW T, NEW P \in Lists(SentItems, T), NEW bs \in Seq(SaidBlocks)
    PROVE  /\ MessageTo(P)[Blocked("assistant", bs)] =
                  (FlatMap(ThoughtTo(P), bs) \o FlatMap(ItemTo(P), SaidMessage(bs))) \o FlatMap(UseTo(P), bs)
           /\ ThoughtTo(P) \in Lists(SaidBlocks, T)
           /\ UseTo(P) \in Lists(SaidBlocks, T)
           /\ FlatMap(ItemTo(P), SaidMessage(bs)) \in Seq(T)
<1> DEFINE m == Blocked("assistant", bs)
           th == FlatMap(SentThinking, bs)
           sm == SaidMessage(bs)
           us == FlatMap(SentUses, bs)
           I == ItemTo(P)
<1>1. m \in AssistantMessages /\ m \in Messages /\ m.blocks = bs
  BY DEF AssistantMessages, Messages, Blocked
<1>2. MessageTo(P)[m] = FlatMap(I, ConvertMessage(m))
  BY <1>1, MessageToAt
<1>3. ConvertMessage(m) = ConvertAssistantMessage(bs)
  <2> HIDE DEF m
  <2> QED
    BY <1>1, AssistantMessageItems
<1>4. /\ ConvertAssistantMessage(bs) = (th \o sm) \o us
      /\ th \in Seq(ReasoningItems) /\ sm \in Seq(MessageItems) /\ us \in Seq(CallItems)
      /\ SentThinking \in Lists(SaidBlocks, ReasoningItems)
      /\ SentUses \in Lists(SaidBlocks, CallItems)
  BY AssistantItems
<1>5. MessageItems \subseteq Items /\ ReasoningItems \subseteq Items /\ CallItems \subseteq Items
  BY DEF Items
<1>6. th \in Seq(Items) /\ sm \in Seq(Items) /\ us \in Seq(Items)
  <2> HIDE DEF th, sm, us
  <2> QED
    BY <1>4, <1>5, SeqSubset
<1>7. SentThinking \in Lists(SaidBlocks, Items) /\ SentUses \in Lists(SaidBlocks, Items)
  BY <1>4, <1>5, ListsSubset
<1>8. I \in Lists(Items, T)
  BY ItemToType
<1> HIDE DEF I
<1>9. FlatMap(I, th) = FlatMap(Composed(SaidBlocks, I, SentThinking), bs)
      /\ FlatMap(I, us) = FlatMap(Composed(SaidBlocks, I, SentUses), bs)
      /\ Composed(SaidBlocks, I, SentThinking) \in Lists(SaidBlocks, T)
      /\ Composed(SaidBlocks, I, SentUses) \in Lists(SaidBlocks, T)
  <2>1. /\ Composed(SaidBlocks, I, SentThinking) \in Lists(SaidBlocks, T)
        /\ Composed(SaidBlocks, I, SentUses) \in Lists(SaidBlocks, T)
    BY <1>7, <1>8, FlatMapCompose
  <2>2. FlatMap(I, FlatMap(SentThinking, bs)) = FlatMap(Composed(SaidBlocks, I, SentThinking), bs)
    BY <1>7, <1>8, <2>1, FlatMapCompose
  <2>3. FlatMap(I, FlatMap(SentUses, bs)) = FlatMap(Composed(SaidBlocks, I, SentUses), bs)
    BY <1>7, <1>8, <2>1, FlatMapCompose
  <2> QED
    BY <2>1, <2>2, <2>3
<1> HIDE DEF th, sm, us, m
<1>10. FlatMap(I, (th \o sm) \o us) = (FlatMap(I, th) \o FlatMap(I, sm)) \o FlatMap(I, us)
  <2> DEFINE w == th \o sm
  <2>1. w \in Seq(Items)
    BY <1>6, ConcatType
  <2>2. FlatMap(I, w) = FlatMap(I, th) \o FlatMap(I, sm)
    BY <1>6, <1>8, FlatMapConcat
  <2> HIDE DEF w
  <2>3. FlatMap(I, w \o us) = FlatMap(I, w) \o FlatMap(I, us)
    BY <1>6, <1>8, <2>1, FlatMapConcat
  <2> QED
    BY <2>2, <2>3 DEF w
<1>11. FlatMap(I, sm) \in Seq(T)
  BY <1>6, <1>8, FlatMapType
<1> QED
  BY <1>2, <1>3, <1>4, <1>9, <1>10, <1>11 DEF ThoughtTo, UseTo, I, sm, m

-----------------------------------------------------------------------------
(* The answers in a transcript *)

\* The assistant's messages, in the order they stand in, are those made of the answers
\* that are told, one of each.
Saying == Picks(Messages, AssistantMessages, [m \in Messages |-> m])
Reply == [items \in Seq(ToldItems) |-> <<Blocked("assistant", Blocks(items))>>]
Whole == [items \in Seq(ToldItems) |-> items]
AnswersInv ==
    \E answers \in Seq(Seq(ToldItems)) :
        /\ told = FlatMap(Whole, answers)
        /\ FlatMap(Saying, messages) = FlatMap(Reply, answers)

LEMMA AnswerTypes ==
    /\ Saying \in Lists(Messages, Messages)
    /\ \A m \in UserMessages : Saying[m] = <<>>
    /\ \A m \in AssistantMessages : Saying[m] = <<m>>
    /\ Reply \in Lists(Seq(ToldItems), Messages)
    /\ Whole \in Lists(Seq(ToldItems), ToldItems)
<1> DEFINE g == [m \in Messages |-> m]
<1>1. AssistantMessages \subseteq Messages /\ UserMessages \subseteq Messages
  BY DEF Messages
<1>2. Saying \in Lists(Messages, Messages)
  <2>1. \A m \in AssistantMessages : g[m] \in Messages
    BY <1>1
  <2> HIDE DEF g
  <2>2. Picks(Messages, AssistantMessages, g) \in Lists(Messages, Messages)
    BY <2>1, PicksType
  <2> QED
    BY <2>2 DEF Saying, g
<1>3. \A m \in AssistantMessages : Saying[m] = <<m>>
  BY <1>1 DEF Saying, Picks
<1>4. ASSUME NEW m \in UserMessages PROVE Saying[m] = <<>>
  <2>1. m.role = "user"
    BY DEF UserMessages, Plain, Blocked
  <2>2. \A n \in AssistantMessages : n.role = "assistant"
    BY DEF AssistantMessages, Blocked
  <2>3. m \notin AssistantMessages
    BY <2>1, <2>2
  <2> QED
    BY <1>1, <2>3 DEF Saying, Picks
<1>5. Reply \in Lists(Seq(ToldItems), Messages)
  <2>1. ASSUME NEW items \in Seq(ToldItems) PROVE <<Blocked("assistant", Blocks(items))>> \in Seq(Messages)
    <3> DEFINE reply == Blocked("assistant", Blocks(items))
    <3>1. reply \in Messages
      BY BlocksAre DEF AssistantMessages, Messages
    <3> HIDE DEF reply
    <3>2. <<reply>> \in Seq(Messages)
      BY <3>1, SeqOfOne
    <3> QED
      BY <3>2 DEF reply
  <2> QED
    BY <2>1 DEF Reply, Lists
<1>6. Whole \in Lists(Seq(ToldItems), ToldItems)
  BY DEF Whole, Lists
<1> QED
  BY <1>2, <1>3, <1>4, <1>5, <1>6

LEMMA AnswersUserSpeaks ==
    ASSUME NEW ms \in Seq(Messages), NEW m \in UserMessages
    PROVE  FlatMap(Saying, Append(ms, m)) = FlatMap(Saying, ms)
<1>1. m \in Messages
  BY DEF Messages
<1>2. FlatMap(Saying, ms) \in Seq(Messages)
  BY AnswerTypes, FlatMapType
<1>3. FlatMap(Saying, Append(ms, m)) = FlatMap(Saying, ms) \o Saying[m]
  BY <1>1, AnswerTypes, FlatMapOneMore
<1> QED
  BY <1>2, <1>3, AnswerTypes

LEMMA AnswersStep ==
    ASSUME TranscriptInv, AnswersInv, [Next]_vars
    PROVE  AnswersInv'
<1>0. \A ms : ms \in Turns => ms \in Seq(Messages)
  BY DEF Turns
<1>1. PICK answers \in Seq(Seq(ToldItems)) :
          told = FlatMap(Whole, answers) /\ FlatMap(Saying, messages) = FlatMap(Reply, answers)
  BY DEF AnswersInv
<1>2. ASSUME turn = "client", NEW message \in Replies, Ask(message)
      PROVE  AnswersInv'
  <2>1. messages \in Seq(Messages) /\ message \in UserMessages
    BY <1>0, <1>2, RepliesType DEF TranscriptInv
  <2>2. messages' = Append(messages, message) /\ told' = told
    BY <1>2 DEF Ask
  <2>3. FlatMap(Saying, messages') = FlatMap(Saying, messages)
    BY <2>1, <2>2, AnswersUserSpeaks
  <2> QED
    BY <1>1, <2>2, <2>3 DEF AnswersInv
<1>3. CASE Answer
  <2>1. PICK ms \in Turns, m \in UserMessages : messages = Append(ms, m)
    BY <1>3 DEF Answer, TranscriptInv
  <2>2. PICK answer \in Answers : \E items \in Identified(answer) :
            /\ told' = told \o items
            /\ messages' = Append(messages, Blocked("assistant", Blocks(items)))
    BY <1>3 DEF Answer
  <2>3. PICK items \in Identified(answer) :
            /\ told' = told \o items
            /\ messages' = Append(messages, Blocked("assistant", Blocks(items)))
    BY <2>2
  <2> DEFINE reply == Blocked("assistant", Blocks(items))
             grown == Append(answers, items)
  <2>4. items \in Seq(ToldItems)
    BY IdentifiedType
  <2>5. reply \in AssistantMessages /\ reply \in Messages
    BY <2>4, BlocksAre DEF AssistantMessages, Messages
  <2>6. Reply[items] = <<reply>> /\ Whole[items] = items
    BY <2>4 DEF Reply, Whole
  <2>7. messages \in Seq(Messages)
    BY <1>0, <2>1, AppendProperties DEF Messages
  <2> HIDE DEF reply
  <2>8. messages' = Append(messages, reply)
    BY <2>3 DEF reply
  <2>9. FlatMap(Saying, messages') = FlatMap(Saying, messages) \o <<reply>>
    <3>1. FlatMap(Saying, Append(messages, reply)) = FlatMap(Saying, messages) \o Saying[reply]
      BY <2>5, <2>7, AnswerTypes, FlatMapOneMore
    <3> QED
      BY <2>5, <2>8, <3>1, AnswerTypes
  <2>10. FlatMap(Reply, grown) = FlatMap(Reply, answers) \o Reply[items]
    BY <2>4, AnswerTypes, FlatMapOneMore
  <2>11. FlatMap(Whole, grown) = FlatMap(Whole, answers) \o Whole[items]
    BY <2>4, AnswerTypes, FlatMapOneMore
  <2>12. grown \in Seq(Seq(ToldItems))
    BY <2>4, AppendProperties
  <2> HIDE DEF grown
  <2> QED
    BY <1>1, <2>3, <2>6, <2>9, <2>10, <2>11, <2>12 DEF AnswersInv
<1>4. CASE Fail
  <2>1. PICK ms \in Turns, m \in UserMessages : messages = Append(ms, m)
    BY <1>4 DEF Fail, TranscriptInv
  <2>2. Front(messages) = ms
    BY <1>0, <2>1, FrontOfAppend
  <2>3. FlatMap(Saying, messages') = FlatMap(Saying, messages) /\ told' = told
    BY <1>0, <1>4, <2>1, <2>2, AnswersUserSpeaks DEF Fail
  <2> QED
    BY <1>1, <2>3 DEF AnswersInv
<1>5. CASE TransformOlder
  BY <1>5 DEF TransformOlder, AnswersInv
<1>6. CASE UNCHANGED vars
  BY <1>6 DEF vars, AnswersInv
<1> QED
  BY <1>2, <1>3, <1>4, <1>5, <1>6 DEF Next

LEMMA AnswersInit == Init => AnswersInv
<1> SUFFICES ASSUME Init PROVE AnswersInv
  OBVIOUS
<1>1. <<>> \in Seq(Seq(ToldItems))
  BY EmptySeq
<1>2. FlatMap(Whole, <<>>) = <<>> /\ FlatMap(Saying, <<>>) = <<>> /\ FlatMap(Reply, <<>>) = <<>>
  BY FlatMapEmpty
<1> QED
  BY <1>1, <1>2 DEF Init, AnswersInv

\* What the assistant's messages contribute to a request, if users contribute nothing,
\* is what the items of the answers do.
LEMMA AnswersReplayed ==
    ASSUME NEW T, NEW Q \in Lists(Messages, T), NEW R \in Lists(ToldItems, T),
           messages \in Seq(Messages), AnswersInv,
           \A m \in UserMessages : Q[m] = <<>>,
           \A items \in Seq(ToldItems) : Q[Blocked("assistant", Blocks(items))] = FlatMap(R, items)
    PROVE  FlatMap(Q, messages) = FlatMap(R, told)
<1>1. PICK answers \in Seq(Seq(ToldItems)) :
          told = FlatMap(Whole, answers) /\ FlatMap(Saying, messages) = FlatMap(Reply, answers)
  BY DEF AnswersInv
<1> DEFINE qs == Composed(Messages, Q, Saying)
           qr == Composed(Seq(ToldItems), Q, Reply)
           rw == Composed(Seq(ToldItems), R, Whole)
<1>2. /\ qs \in Lists(Messages, T) /\ qr \in Lists(Seq(ToldItems), T) /\ rw \in Lists(Seq(ToldItems), T)
  BY <1>1, AnswerTypes, FlatMapCompose
<1>3. FlatMap(Q, FlatMap(Saying, messages)) = FlatMap(qs, messages)
  BY <1>2, AnswerTypes, FlatMapCompose
<1>4. FlatMap(Q, FlatMap(Reply, answers)) = FlatMap(qr, answers)
  BY <1>2, AnswerTypes, FlatMapCompose
<1>5. FlatMap(R, FlatMap(Whole, answers)) = FlatMap(rw, answers)
  BY <1>2, AnswerTypes, FlatMapCompose
<1>6. ASSUME NEW m \in Messages PROVE qs[m] = Q[m]
  <2>1. qs[m] = FlatMap(Q, Saying[m])
    BY ComposedAt
  <2>2. CASE m \in UserMessages
    BY <2>1, <2>2, AnswerTypes, FlatMapEmpty
  <2>3. CASE m \in AssistantMessages
    <3>1. FlatMap(Q, <<m>>) = Q[m]
      BY FlatMapOne
    <3> QED
      BY <2>1, <2>3, <3>1, AnswerTypes
  <2> QED
    BY <2>2, <2>3 DEF Messages
<1>7. ASSUME NEW items \in Seq(ToldItems) PROVE qr[items] = rw[items]
  <2> DEFINE reply == Blocked("assistant", Blocks(items))
  <2>1. reply \in Messages
    BY BlocksAre DEF AssistantMessages, Messages
  <2>2. qr[items] = FlatMap(Q, Reply[items]) /\ rw[items] = FlatMap(R, Whole[items])
    BY ComposedAt
  <2>3. Reply[items] = <<reply>> /\ Whole[items] = items /\ Q[reply] = FlatMap(R, items)
    BY DEF Reply, Whole
  <2> HIDE DEF reply
  <2>4. FlatMap(Q, <<reply>>) = Q[reply]
    BY <2>1, FlatMapOne
  <2> QED
    BY <2>2, <2>3, <2>4
<1> HIDE DEF qs, qr, rw
<1>8. FlatMap(qs, messages) = FlatMap(Q, messages)
  BY <1>6, FlatMapSame
<1>9. FlatMap(qr, answers) = FlatMap(rw, answers)
  BY <1>7, FlatMapSame
<1> QED
  BY <1>1, <1>3, <1>4, <1>5, <1>8, <1>9

\* ... and of a request what the blocks of the answers do.
LEMMA BlocksReplayed ==
    ASSUME NEW T, NEW h \in Lists(SaidBlocks, T), NEW R \in Lists(ToldItems, T),
           h[TextBlock(<<>>)] = <<>>,
           \A item \in ToldItems : FlatMap(h, BlocksOf(item)) = R[item],
           NEW items \in Seq(ToldItems)
    PROVE  FlatMap(h, Blocks(items)) = FlatMap(R, items)
<1> DEFINE bs == FlatMap(ToldBlocks, items)
           hb == Composed(ToldItems, h, ToldBlocks)
           blank == TextBlock(<<>>)
<1>1. /\ ToldBlocks \in Lists(ToldItems, SaidBlocks)
      /\ Blocks(items) = IF bs = <<>> THEN <<blank>> ELSE bs
  BY BlocksAre
<1>2. hb \in Lists(ToldItems, T)
  BY <1>1, FlatMapCompose
<1>3. FlatMap(h, FlatMap(ToldBlocks, items)) = FlatMap(hb, items)
  BY <1>1, <1>2, FlatMapCompose
<1>4. \A item \in ToldItems : hb[item] = R[item]
  BY ComposedAt DEF ToldBlocks
<1>5. blank \in SaidBlocks
  BY DEF SaidBlocks, TextBlocks
<1> HIDE DEF hb, blank
<1>6. FlatMap(hb, items) = FlatMap(R, items)
  <2>1. ASSUME NEW g, NEW k, \A x \in ToldItems : g[x] = k[x]
        PROVE  FlatMap(g, items) = FlatMap(k, items)
    BY <2>1, FlatMapSame
  <2> QED
    BY <1>4, <2>1
<1>7. FlatMap(h, <<blank>>) = h[blank]
  BY <1>5, FlatMapOne
<1>8. bs = <<>> => FlatMap(h, bs) = <<>>
  BY FlatMapEmpty
<1> HIDE DEF bs
<1> QED
  BY <1>1, <1>3, <1>6, <1>7, <1>8 DEF bs, blank

LEMMA RequestReplays ==
    ASSUME NEW T, NEW P \in Lists(SentItems, T), Silent(P), NEW R \in Lists(ToldItems, T),
           TranscriptInv, AnswersInv, turn = "upstream",
           \A items \in Seq(ToldItems) :
               MessageTo(P)[Blocked("assistant", Blocks(items))] = FlatMap(R, items)
    PROVE  /\ sent.input \in Seq(SentItems)
           /\ FlatMap(P, sent.input) = FlatMap(R, told)
<1>1. PICK ms \in Turns, m \in UserMessages :
          messages = Append(ms, m) /\ sent.input = SentOf(system, messages)
  BY DEF TranscriptInv
<1>2. messages \in Seq(Messages) /\ system \in Systems
  BY <1>1, AppendProperties DEF Turns, Messages, TranscriptInv
<1>3. sent.input \in Seq(SentItems)
  <2>1. FlatMap(Normal, Preamble(system)) \in Seq(SentItems)
    BY <1>2, PreambleType, NormalType, FlatMapType
  <2>2. FlatMap(SendsOf, messages) \in Seq(SentItems)
    BY <1>2, NormalType, FlatMapType
  <2> QED
    BY <1>1, <2>1, <2>2, ConcatType DEF SentOf
<1>4. FlatMap(P, SentOf(system, messages)) = FlatMap(MessageTo(P), messages)
  BY <1>2, RequestTo
<1> DEFINE Q == MessageTo(P)
<1>5. Q \in Lists(Messages, T)
  BY <1>2, MessageToType
<1>6. \A n \in UserMessages : Q[n] = <<>>
  BY UserSends
<1> HIDE DEF Q
<1>7. \A items \in Seq(ToldItems) : Q[Blocked("assistant", Blocks(items))] = FlatMap(R, items)
  BY DEF Q
<1>8. FlatMap(Q, messages) = FlatMap(R, told)
  BY <1>2, <1>5, <1>6, <1>7, AnswersReplayed
<1> QED
  BY <1>1, <1>3, <1>4, <1>8 DEF Q

\* Projections that take only the thoughts, the texts or the calls of an answer.
LEMMA TakesNoUse ==
    ASSUME NEW T, NEW P \in Lists(SentItems, T), \A x \in CallItems : P[NormalItem(x)] = <<>>,
           NEW bs \in Seq(SaidBlocks)
    PROVE  FlatMap(UseTo(P), bs) = <<>>
<1>1. ASSUME NEW b \in SaidBlocks PROVE UseTo(P)[b] = <<>>
  <2> DEFINE c == SentUses[b]
  <2>1. UseTo(P)[b] = FlatMap(ItemTo(P), c)
    BY ComposedAt DEF UseTo
  <2>2. c \in Seq(CallItems)
    BY AssistantItems, ListOf
  <2>3. CallItems \subseteq Items
    BY DEF Items
  <2> HIDE DEF c
  <2> QED
    BY <2>1, <2>2, <2>3, NothingFrom
<1> QED
  BY <1>1, FlatMapNothing

LEMMA TakesNoThought ==
    ASSUME NEW T, NEW P \in Lists(SentItems, T), \A x \in ReasoningItems : P[NormalItem(x)] = <<>>,
           NEW bs \in Seq(SaidBlocks)
    PROVE  FlatMap(ThoughtTo(P), bs) = <<>>
<1>1. ASSUME NEW b \in SaidBlocks PROVE ThoughtTo(P)[b] = <<>>
  <2> DEFINE c == SentThinking[b]
  <2>1. ThoughtTo(P)[b] = FlatMap(ItemTo(P), c)
    BY ComposedAt DEF ThoughtTo
  <2>2. c \in Seq(ReasoningItems)
    BY AssistantItems, ListOf
  <2>3. ReasoningItems \subseteq Items
    BY DEF Items
  <2> HIDE DEF c
  <2> QED
    BY <2>1, <2>2, <2>3, NothingFrom
<1> QED
  BY <1>1, FlatMapNothing

LEMMA TakesNoText ==
    ASSUME NEW T, NEW P \in Lists(SentItems, T), \A x \in MessageItems : P[NormalItem(x)] = <<>>,
           NEW bs \in Seq(SaidBlocks)
    PROVE  FlatMap(ItemTo(P), SaidMessage(bs)) = <<>>
<1>1. SaidMessage(bs) \in Seq(MessageItems) /\ MessageItems \subseteq Items
  BY AssistantItems DEF Items
<1> QED
  BY <1>1, NothingFrom

-----------------------------------------------------------------------------
(* Ciphertexts *)

IsThought(x) == x.type = "reasoning"
IsSigned(item) == item.type = "reasoning" /\ item.signature # NoSignature
ThoughtSent == Picks(SentItems, {x \in SentItems : IsThought(x)}, [x \in SentItems |-> x.body])
ThoughtTold == Picks(ToldItems, {x \in ToldItems : IsSigned(x)}, [x \in ToldItems |-> x.signature])
Thoughts == {x.body : x \in SentItems} \cup {x.signature : x \in ToldItems}

LEMMA ThoughtTypes ==
    /\ ThoughtSent \in Lists(SentItems, Thoughts)
    /\ ThoughtTold \in Lists(ToldItems, Thoughts)
<1> DEFINE g == [x \in SentItems |-> x.body]
           k == [x \in ToldItems |-> x.signature]
           A == {x \in SentItems : IsThought(x)}
           B == {x \in ToldItems : IsSigned(x)}
<1>1. (\A x \in A : g[x] \in Thoughts) /\ (\A x \in B : k[x] \in Thoughts)
  BY DEF Thoughts
<1> HIDE DEF g, k, A, B
<1>2. Picks(SentItems, A, g) \in Lists(SentItems, Thoughts) /\ Picks(ToldItems, B, k) \in Lists(ToldItems, Thoughts)
  BY <1>1, PicksType
<1> QED
  BY <1>2 DEF ThoughtSent, ThoughtTold, g, k, A, B

LEMMA ThoughtsOfItems ==
    /\ \A x \in MessageItems \cup ResultItems \cup CallItems : ThoughtSent[NormalItem(x)] = <<>>
    /\ \A b \in ThinkingBlocks : ThoughtSent[NormalItem(ReasoningItem(b))] = <<b.signature>>
<1>1. ASSUME NEW x \in MessageItems \cup ResultItems \cup CallItems
      PROVE  NormalItem(x) \in SentItems /\ NormalItem(x).type # "reasoning"
  BY NormalFields DEF SentItems, Items, ResultItems, CallItems
<1>2. ASSUME NEW b \in ThinkingBlocks
      PROVE  /\ NormalItem(ReasoningItem(b)) \in SentItems
             /\ NormalItem(ReasoningItem(b)).type = "reasoning"
             /\ NormalItem(ReasoningItem(b)).body = b.signature
  BY NormalFields DEF SentItems, Items, ReasoningItems
<1> QED
  BY <1>1, <1>2 DEF ThoughtSent, Picks, IsThought

LEMMA ThoughtsOfBlocks ==
    ASSUME NEW b \in SaidBlocks
    PROVE  ThoughtTo(ThoughtSent)[b] = IF b \in SignedBlocks THEN <<b.signature>> ELSE <<>>
<1> DEFINE I == ItemTo(ThoughtSent)
<1>1. ThoughtTo(ThoughtSent)[b] = FlatMap(I, SentThinking[b])
  BY ComposedAt DEF ThoughtTo
<1>2. SentThinking[b] = IF b \in SignedBlocks THEN <<ReasoningItem(b)>> ELSE <<>>
  BY DEF SentThinking, Picks
<1>3. I \in Lists(Items, Thoughts)
  BY ThoughtTypes, ItemToType
<1>4. CASE b \in SignedBlocks
  <2> DEFINE x == ReasoningItem(b)
  <2>1. b \in ThinkingBlocks /\ x \in Items
    BY <1>4 DEF SignedBlocks, Items, ReasoningItems
  <2>2. I[x] = <<b.signature>>
    BY <2>1, ThoughtsOfItems DEF ItemTo
  <2>3. SentThinking[b] = <<x>>
    BY <1>2, <1>4
  <2> HIDE DEF x, I
  <2>4. FlatMap(I, <<x>>) = I[x]
    BY <1>3, <2>1, FlatMapOne
  <2> QED
    BY <1>1, <1>4, <2>2, <2>3, <2>4
<1>5. CASE b \notin SignedBlocks
  BY <1>1, <1>2, <1>5, FlatMapEmpty
<1> QED
  BY <1>4, <1>5

LEMMA ThoughtsOfAnswer ==
    ASSUME NEW items \in Seq(ToldItems)
    PROVE  MessageTo(ThoughtSent)[Blocked("assistant", Blocks(items))] = FlatMap(ThoughtTold, items)
<1> DEFINE h == ThoughtTo(ThoughtSent)
           bs == Blocks(items)
<1>1. bs \in Seq(SaidBlocks)
  BY BlocksAre
<1> HIDE DEF bs
<1>2. /\ MessageTo(ThoughtSent)[Blocked("assistant", bs)] =
             (FlatMap(h, bs) \o FlatMap(ItemTo(ThoughtSent), SaidMessage(bs))) \o FlatMap(UseTo(ThoughtSent), bs)
      /\ h \in Lists(SaidBlocks, Thoughts)
  BY <1>1, ThoughtTypes, AnswerSends
<1>3. FlatMap(ItemTo(ThoughtSent), SaidMessage(bs)) = <<>>
  BY <1>1, ThoughtTypes, ThoughtsOfItems, TakesNoText
<1>4. FlatMap(UseTo(ThoughtSent), bs) = <<>>
  BY <1>1, ThoughtTypes, ThoughtsOfItems, TakesNoUse
<1>5. \A b \in SaidBlocks : h[b] = IF b \in SignedBlocks THEN <<b.signature>> ELSE <<>>
  BY ThoughtsOfBlocks
<1>6. ThinkingBlocks \subseteq SaidBlocks /\ TextBlocks \subseteq SaidBlocks /\ UseBlocks \subseteq SaidBlocks
  BY DEF SaidBlocks
<1>7. \A b \in TextBlocks \cup UseBlocks : b \notin SignedBlocks
  BY <1>6, SaidKinds DEF SignedBlocks
<1> HIDE DEF h
<1>8. ASSUME NEW item \in ToldItems PROVE FlatMap(h, BlocksOf(item)) = ThoughtTold[item]
  <2>1. ThoughtTold[item] = IF IsSigned(item) THEN <<item.signature>> ELSE <<>>
    BY DEF ThoughtTold, Picks
  <2>2. CASE item \in ToldThinking
    <3> DEFINE b == Said("thinking", item.summary, item.signature, NoId, NoName)
    <3>1. item.summary \in Seq(TextFragments) /\ item.signature \in Signed
      BY <2>2 DEF ToldThinking
    <3>2. b \in ThinkingBlocks /\ b.signature = item.signature
      BY <3>1 DEF ThinkingBlocks, Said
    <3>3. BlocksOf(item) = IF item.summary # <<>> \/ item.signature # NoSignature THEN <<b>> ELSE <<>>
      BY <2>2, ThinkingBlocksOf
    <3>4. IsSigned(item) <=> item.signature # NoSignature
      BY <2>2, ToldKinds DEF IsSigned
    <3> HIDE DEF b
    <3>5. b \in SaidBlocks /\ (b \in SignedBlocks <=> item.signature # NoSignature)
      BY <1>6, <3>2 DEF SignedBlocks
    <3>6. FlatMap(h, <<b>>) = h[b] /\ FlatMap(h, <<>>) = <<>>
      BY <1>2, <3>5, FlatMapOne, FlatMapEmpty
    <3>7. h[b] = IF item.signature # NoSignature THEN <<item.signature>> ELSE <<>>
      BY <1>5, <3>2, <3>5
    <3> QED
      BY <2>1, <3>3, <3>4, <3>6, <3>7
  <2>3. CASE item \notin ToldThinking
    <3>1. ~IsSigned(item)
      BY <2>3, ToldKinds DEF IsSigned
    <3>2. BlocksOf(item) \in Seq(TextBlocks) \/ BlocksOf(item) \in Seq(UseBlocks)
      BY <2>3, BlocksOfKinds DEF ToldItems
    <3>3. BlocksOf(item) \in Seq(TextBlocks \cup UseBlocks)
      BY <3>2, SeqSubset
    <3>4. \A b \in TextBlocks \cup UseBlocks : h[b] = <<>>
      BY <1>5, <1>6, <1>7
    <3>5. FlatMap(h, BlocksOf(item)) = <<>>
      BY <3>3, <3>4, FlatMapNothing
    <3> QED
      BY <2>1, <3>1, <3>5
  <2> QED
    BY <2>2, <2>3
<1>9. h[TextBlock(<<>>)] = <<>>
  <2>1. TextBlock(<<>>) \in TextBlocks
    BY DEF TextBlocks
  <2> QED
    BY <1>5, <1>6, <1>7, <2>1
<1>10. FlatMap(h, bs) = FlatMap(ThoughtTold, items)
  BY <1>2, <1>8, <1>9, ThoughtTypes, BlocksReplayed DEF bs
<1>11. FlatMap(h, bs) \in Seq(Thoughts)
  BY <1>1, <1>2, FlatMapType
<1>12. (FlatMap(h, bs) \o <<>>) \o <<>> = FlatMap(h, bs)
  BY <1>11
<1> QED
  BY <1>2, <1>3, <1>4, <1>10, <1>12 DEF bs

LEMMA ThoughtsReplayed ==
    ASSUME TranscriptInv, AnswersInv, turn = "upstream"
    PROVE  SentThoughts = ToldThoughts
<1> DEFINE A == {x \in SentItems : IsThought(x)}
           B == {x \in ToldItems : IsSigned(x)}
           g == [x \in SentItems |-> x.body]
           k == [x \in ToldItems |-> x.signature]
           input == sent.input
<1>1. Silent(ThoughtSent)
  BY ThoughtsOfItems DEF Silent, MessageItems
<1>2. input \in Seq(SentItems) /\ FlatMap(ThoughtSent, input) = FlatMap(ThoughtTold, told)
  BY <1>1, ThoughtTypes, ThoughtsOfAnswer, RequestReplays
<1>3. told \in Seq(ToldItems)
  BY DEF TranscriptInv
<1> DEFINE u == Kept(A, input)
           v == Kept(B, told)
<1> HIDE DEF input
<1>4. OfType(input, "reasoning") = u
  BY <1>2, OfTypeKept DEF IsThought
<1>5. u \in Seq(A) /\ Mapped(g, u) = FlatMap(Picks(SentItems, A, g), input)
  <2>1. A \subseteq SentItems
    OBVIOUS
  <2> HIDE DEF A, g
  <2> QED
    BY <1>2, <2>1, MapKept
<1>6. v \in Seq(B) /\ Mapped(k, v) = FlatMap(Picks(ToldItems, B, k), told)
  <2>1. B \subseteq ToldItems
    OBVIOUS
  <2> HIDE DEF B, k
  <2> QED
    BY <1>3, <2>1, MapKept
<1>7. SentThoughts = Mapped(g, u)
  <2>1. SentThoughts = [i \in 1 .. Len(u) |-> u[i].body]
    BY <1>4 DEF SentThoughts, Each, input
  <2>2. \A i \in 1 .. Len(u) : u[i] \in SentItems
    BY <1>5
  <2> HIDE DEF u
  <2> QED
    BY <2>1, <2>2 DEF Mapped
<1>8. ToldThoughts = Mapped(k, v)
  <2>1. [i \in 1 .. Len(told) |-> IF told[i].type = "reasoning" /\ told[i].signature # NoSignature
                                  THEN <<told[i]>> ELSE <<>>]
            = [i \in 1 .. Len(told) |-> IF told[i] \in B THEN <<told[i]>> ELSE <<>>]
    BY <1>3 DEF IsSigned
  <2>2. ToldThoughts = [i \in 1 .. Len(v) |-> v[i].signature]
    BY <2>1 DEF ToldThoughts, Each, Which, Kept
  <2>3. \A i \in 1 .. Len(v) : v[i] \in ToldItems
    BY <1>6
  <2> HIDE DEF v
  <2> QED
    BY <2>2, <2>3 DEF Mapped
<1> QED
  BY <1>2, <1>5, <1>6, <1>7, <1>8 DEF ThoughtSent, ThoughtTold

-----------------------------------------------------------------------------
(* Calls *)

IsUse(x) == x.type = "function_call"
CallSentAs(x) == <<x.call_id, x.name, x.body>>
InputOf(item) == IF item.type = "function_call" THEN FunctionToolInput(item.arguments) ELSE CustomToolInput(item.input)
CallToldAs(item) == <<CompactCallID(item.call_id), item.name, InputOf(item)>>
CallSent == Picks(SentItems, {x \in SentItems : IsUse(x)}, [x \in SentItems |-> CallSentAs(x)])
CallTold == Picks(ToldItems, {x \in ToldItems : IsCall(x)}, [x \in ToldItems |-> CallToldAs(x)])
Calling == {CallSentAs(x) : x \in SentItems} \cup {CallToldAs(x) : x \in ToldItems}

LEMMA CallTypesOf ==
    /\ CallSent \in Lists(SentItems, Calling)
    /\ CallTold \in Lists(ToldItems, Calling)
<1> DEFINE g == [x \in SentItems |-> CallSentAs(x)]
           k == [x \in ToldItems |-> CallToldAs(x)]
           A == {x \in SentItems : IsUse(x)}
           B == {x \in ToldItems : IsCall(x)}
<1>1. (\A x \in A : g[x] \in Calling) /\ (\A x \in B : k[x] \in Calling)
  BY DEF Calling
<1> HIDE DEF g, k, A, B
<1>2. Picks(SentItems, A, g) \in Lists(SentItems, Calling) /\ Picks(ToldItems, B, k) \in Lists(ToldItems, Calling)
  BY <1>1, PicksType
<1> QED
  BY <1>2 DEF CallSent, CallTold, g, k, A, B

LEMMA CallsOfItems ==
    /\ \A x \in MessageItems \cup ResultItems \cup ReasoningItems : CallSent[NormalItem(x)] = <<>>
    /\ \A b \in UseBlocks : CallSent[NormalItem(CallItem(b))] = << <<CompactCallID(b.id), b.name, b.data>> >>
<1>1. ASSUME NEW x \in MessageItems \cup ResultItems \cup ReasoningItems
      PROVE  NormalItem(x) \in SentItems /\ NormalItem(x).type # "function_call"
  BY NormalFields DEF SentItems, Items, ResultItems, ReasoningItems
<1>2. ASSUME NEW b \in UseBlocks
      PROVE  CallSent[NormalItem(CallItem(b))] = << <<CompactCallID(b.id), b.name, b.data>> >>
  <2> DEFINE x == NormalItem(CallItem(b))
  <2>1. x \in SentItems
    BY DEF SentItems, Items, CallItems
  <2>2. x.type = "function_call" /\ x.call_id = CompactCallID(b.id) /\ x.name = b.name /\ x.body = b.data
    BY NormalFields
  <2> HIDE DEF x
  <2>3. CallSent[x] = <<CallSentAs(x)>>
    BY <2>1, <2>2 DEF CallSent, Picks, IsUse
  <2> QED
    BY <2>2, <2>3 DEF CallSentAs, x
<1> QED
  BY <1>1, <1>2 DEF CallSent, Picks, IsUse

LEMMA CallsOfBlocks ==
    ASSUME NEW b \in SaidBlocks
    PROVE  UseTo(CallSent)[b] =
               IF b \in UseBlocks THEN << <<CompactCallID(b.id), b.name, b.data>> >> ELSE <<>>
<1> DEFINE I == ItemTo(CallSent)
<1>1. UseTo(CallSent)[b] = FlatMap(I, SentUses[b])
  BY ComposedAt DEF UseTo
<1>2. SentUses[b] = IF b \in UseBlocks THEN <<CallItem(b)>> ELSE <<>>
  BY DEF SentUses, Picks
<1>3. I \in Lists(Items, Calling)
  BY CallTypesOf, ItemToType
<1>4. CASE b \in UseBlocks
  <2> DEFINE x == CallItem(b)
  <2>1. x \in Items
    BY <1>4 DEF Items, CallItems
  <2>2. I[x] = << <<CompactCallID(b.id), b.name, b.data>> >>
    BY <1>4, <2>1, CallsOfItems DEF ItemTo
  <2>3. SentUses[b] = <<x>>
    BY <1>2, <1>4
  <2> HIDE DEF x, I
  <2>4. FlatMap(I, <<x>>) = I[x]
    BY <1>3, <2>1, FlatMapOne
  <2> QED
    BY <1>1, <1>4, <2>2, <2>3, <2>4
<1>5. CASE b \notin UseBlocks
  BY <1>1, <1>2, <1>5, FlatMapEmpty
<1> QED
  BY <1>4, <1>5

LEMMA CallsOfAnswer ==
    ASSUME NEW items \in Seq(ToldItems)
    PROVE  MessageTo(CallSent)[Blocked("assistant", Blocks(items))] = FlatMap(CallTold, items)
<1> DEFINE h == UseTo(CallSent)
           bs == Blocks(items)
<1>1. bs \in Seq(SaidBlocks)
  BY BlocksAre
<1> HIDE DEF bs
<1>2. /\ MessageTo(CallSent)[Blocked("assistant", bs)] =
             (FlatMap(ThoughtTo(CallSent), bs) \o FlatMap(ItemTo(CallSent), SaidMessage(bs))) \o FlatMap(h, bs)
      /\ h \in Lists(SaidBlocks, Calling)
  BY <1>1, CallTypesOf, AnswerSends
<1>3. FlatMap(ItemTo(CallSent), SaidMessage(bs)) = <<>>
  BY <1>1, CallTypesOf, CallsOfItems, TakesNoText
<1>4. FlatMap(ThoughtTo(CallSent), bs) = <<>>
  BY <1>1, CallTypesOf, CallsOfItems, TakesNoThought
<1>5. \A b \in SaidBlocks :
          h[b] = IF b \in UseBlocks THEN << <<CompactCallID(b.id), b.name, b.data>> >> ELSE <<>>
  BY CallsOfBlocks
<1>6. ThinkingBlocks \subseteq SaidBlocks /\ TextBlocks \subseteq SaidBlocks /\ UseBlocks \subseteq SaidBlocks
  BY DEF SaidBlocks
<1>7. \A b \in TextBlocks \cup ThinkingBlocks : b \notin UseBlocks
  BY <1>6, SaidKinds
<1> HIDE DEF h
<1>8. ASSUME NEW item \in ToldItems PROVE FlatMap(h, BlocksOf(item)) = CallTold[item]
  <2>1. CallTold[item] = IF IsCall(item) THEN <<CallToldAs(item)>> ELSE <<>>
    BY DEF CallTold, Picks
  <2>2. CASE item \in ToldFunctions \cup ToldCustoms
    <3> DEFINE b == Said("tool_use", InputOf(item), NoSignature, item.call_id, item.name)
    <3>1. BlocksOf(item) = <<b>>
      BY <2>2, FunctionBlocksOf, CustomBlocksOf, ToldKinds DEF InputOf
    <3>2. b.id = item.call_id /\ b.name = item.name /\ b.data = InputOf(item)
      BY DEF Said
    <3> HIDE DEF b
    <3>3. b \in UseBlocks
      BY <2>2, <3>1, BlocksOfKinds, OnlyElement
    <3>4. FlatMap(h, <<b>>) = h[b]
      BY <1>2, <1>6, <3>3, FlatMapOne
    <3>5. h[b] = << <<CompactCallID(b.id), b.name, b.data>> >>
      BY <1>5, <1>6, <3>3
    <3> QED
      BY <2>1, <2>2, <3>1, <3>2, <3>4, <3>5, ToldKinds DEF CallToldAs
  <2>3. CASE item \notin ToldFunctions \cup ToldCustoms
    <3>1. ~IsCall(item)
      BY <2>3, ToldKinds
    <3>2. BlocksOf(item) \in Seq(TextBlocks) \/ BlocksOf(item) \in Seq(ThinkingBlocks)
      BY <2>3, BlocksOfKinds DEF ToldItems
    <3>3. BlocksOf(item) \in Seq(TextBlocks \cup ThinkingBlocks)
      BY <3>2, SeqSubset
    <3>4. \A b \in TextBlocks \cup ThinkingBlocks : h[b] = <<>>
      BY <1>5, <1>6, <1>7
    <3>5. FlatMap(h, BlocksOf(item)) = <<>>
      BY <3>3, <3>4, FlatMapNothing
    <3> QED
      BY <2>1, <3>1, <3>5
  <2> QED
    BY <2>2, <2>3
<1>9. h[TextBlock(<<>>)] = <<>>
  <2>1. TextBlock(<<>>) \in TextBlocks
    BY DEF TextBlocks
  <2> QED
    BY <1>5, <1>6, <1>7, <2>1
<1>10. FlatMap(h, bs) = FlatMap(CallTold, items)
  BY <1>2, <1>8, <1>9, CallTypesOf, BlocksReplayed DEF bs
<1>11. FlatMap(h, bs) \in Seq(Calling)
  BY <1>1, <1>2, FlatMapType
<1>12. (<<>> \o <<>>) \o FlatMap(h, bs) = FlatMap(h, bs)
  BY <1>11
<1> QED
  BY <1>2, <1>3, <1>4, <1>10, <1>12 DEF bs

LEMMA CallsReplayed ==
    ASSUME TranscriptInv, AnswersInv, turn = "upstream"
    PROVE  SentCalls = ToldCalls
<1> DEFINE A == {x \in SentItems : IsUse(x)}
           B == {x \in ToldItems : IsCall(x)}
           g == [x \in SentItems |-> CallSentAs(x)]
           k == [x \in ToldItems |-> CallToldAs(x)]
           input == sent.input
<1>1. Silent(CallSent)
  BY CallsOfItems DEF Silent, MessageItems
<1>2. input \in Seq(SentItems) /\ FlatMap(CallSent, input) = FlatMap(CallTold, told)
  BY <1>1, CallTypesOf, CallsOfAnswer, RequestReplays
<1>3. told \in Seq(ToldItems)
  BY DEF TranscriptInv
<1> DEFINE u == Kept(A, input)
           v == Kept(B, told)
<1> HIDE DEF input
<1>4. OfType(input, "function_call") = u
  BY <1>2, OfTypeKept DEF IsUse
<1>5. u \in Seq(A) /\ Mapped(g, u) = FlatMap(Picks(SentItems, A, g), input)
  <2>1. A \subseteq SentItems
    OBVIOUS
  <2> HIDE DEF A, g
  <2> QED
    BY <1>2, <2>1, MapKept
<1>6. v \in Seq(B) /\ Mapped(k, v) = FlatMap(Picks(ToldItems, B, k), told)
  <2>1. B \subseteq ToldItems
    OBVIOUS
  <2> HIDE DEF B, k
  <2> QED
    BY <1>3, <2>1, MapKept
<1>7. SentCalls = Mapped(g, u)
  <2>1. SentCalls = [i \in 1 .. Len(u) |-> CallSentAs(u[i])]
    BY <1>4 DEF SentCalls, Each, input, CallSentAs
  <2>2. \A i \in 1 .. Len(u) : u[i] \in SentItems
    BY <1>5
  <2> HIDE DEF u
  <2> QED
    BY <2>1, <2>2 DEF Mapped
<1>8. ToldCalls = Mapped(k, v)
  <2>1. [i \in 1 .. Len(told) |-> IF IsCall(told[i]) THEN <<told[i]>> ELSE <<>>]
            = [i \in 1 .. Len(told) |-> IF told[i] \in B THEN <<told[i]>> ELSE <<>>]
    BY <1>3
  <2>2. CallsOf(told) = v
    BY <2>1 DEF CallsOf, Which, Kept
  <2>3. ToldCalls = [i \in 1 .. Len(v) |-> CallToldAs(v[i])]
    BY <2>2 DEF ToldCalls, Each, CallToldAs, InputOf
  <2>4. \A i \in 1 .. Len(v) : v[i] \in ToldItems
    BY <1>6
  <2> HIDE DEF v
  <2> QED
    BY <2>3, <2>4 DEF Mapped
<1> QED
  BY <1>2, <1>5, <1>6, <1>7, <1>8 DEF CallSent, CallTold

-----------------------------------------------------------------------------
(* Texts *)

\* strings.Join of texts, without the marks between them, is the texts.
LEMMA JoinedKept ==
    ASSUME NEW texts \in Seq(Seq(TextFragments))
    PROVE  Kept(TextFragments, Joined(texts)) = FlattenSeq(texts)
<1> DEFINE F == TextFragments \cup {"\n\n", "billing"}
           mark == <<"\n\n">>
           part(i) == IF i = 1 THEN texts[i] ELSE mark \o texts[i]
           ss == [i \in 1 .. Len(texts) |-> part(i)]
<1>1. Len(texts) \in Nat /\ \A i \in 1 .. Len(texts) : texts[i] \in Seq(TextFragments)
  BY ElementOf
<1>2. TextFragments \subseteq F /\ mark \in Seq(F)
  BY SeqOfOne
<1>3. Kept(TextFragments, mark) = <<>>
  <2>1. {"\n\n"} \cap TextFragments = {} /\ mark \in Seq({"\n\n"})
    BY UpstreamAssumption
  <2> HIDE DEF mark
  <2>2. TextFragments \cap {"\n\n"} = {}
    BY <2>1
  <2> QED
    BY <2>1, <2>2, KeptNone
<1> HIDE DEF F, mark
<1>4. ASSUME NEW i \in 1 .. Len(texts)
      PROVE  part(i) \in Seq(F) /\ Kept(TextFragments, part(i)) = texts[i]
  <2> DEFINE text == texts[i]
  <2>1. text \in Seq(TextFragments)
    BY <1>1
  <2> HIDE DEF text
  <2>2. text \in Seq(F) /\ Kept(TextFragments, text) = text
    BY <1>2, <2>1, SeqSubset, KeptAll
  <2>3. Kept(TextFragments, mark \o text) = Kept(TextFragments, mark) \o Kept(TextFragments, text)
    <3>1. mark \in Seq(F) /\ text \in Seq(F)
      BY <1>2, <2>2
    <3> HIDE DEF part, ss
    <3> QED
      BY <3>1, KeptConcat
  <2>4. <<>> \o text = text /\ mark \o text \in Seq(F)
    BY <1>2, <2>2
  <2>5. Kept(TextFragments, mark \o text) = text
    BY <1>3, <2>2, <2>3, <2>4
  <2> QED
    BY <2>2, <2>4, <2>5 DEF text
<1>5. ss \in Seq(Seq(F)) /\ Len(ss) = Len(texts)
  <2>1. \A i \in 1 .. Len(texts) : part(i) \in Seq(F)
    BY <1>4
  <2> HIDE DEF part
  <2> QED
    BY <1>1, <2>1
<1>6. [i \in 1 .. Len(ss) |-> Kept(TextFragments, ss[i])] = texts
  <2>1. \A i \in 1 .. Len(texts) : Kept(TextFragments, part(i)) = texts[i]
    BY <1>4
  <2> HIDE DEF part
  <2> QED
    BY <1>5, <2>1
<1>7. Joined(texts) = FlattenSeq(ss)
  BY DEF Joined, mark
<1> HIDE DEF ss
<1>8. Kept(TextFragments, FlattenSeq(ss)) = FlattenSeq([i \in 1 .. Len(ss) |-> Kept(TextFragments, ss[i])])
  BY <1>5, KeptFlatten
<1> QED
  BY <1>6, <1>7, <1>8

IsAssistant(x) == x.type = "message" /\ x.body.role = "assistant"
AssistantSent == {x \in SentItems : IsAssistant(x)}
TextOf == [x \in AssistantSent |-> Kept(TextFragments, x.body.content[1].data)]
TextSent == Spread(SentItems, AssistantSent, TextOf)
TextsOf == [item \in ToldMessages |-> FlattenSeq(item.texts)]
TextTold == Spread(ToldItems, ToldMessages, TextsOf)

\* The only message of the assistant is the one with its texts.
LEMMA AssistantMessage ==
    ASSUME NEW text \in Texts
    PROVE  LET x == NormalItem(Message("assistant", <<Part("output_text", text)>>))
           IN  /\ x \in AssistantSent
               /\ x.body.content[1].data = text
<1> DEFINE parts == <<Part("output_text", text)>>
           y == Message("assistant", parts)
           x == NormalItem(y)
<1>1. y \in SaidMessages
  BY DEF SaidMessages
<1>2. parts[1].data = text
  BY DEF Part
<1> HIDE DEF parts
<1>3. y.body.role = "assistant" /\ y.body.content = parts
  BY DEF Message, InputItem
<1> HIDE DEF y
<1>4. y \in MessageItems /\ y \in Items
  BY <1>1 DEF MessageItems, Items
<1>5. x.type = "message" /\ x.body = y.body /\ x \in SentItems
  BY <1>4, NormalFields DEF SentItems
<1> HIDE DEF x
<1>6. x \in AssistantSent /\ x.body.content[1].data = text
  BY <1>2, <1>3, <1>5 DEF AssistantSent, IsAssistant
<1> QED
  BY <1>6 DEF x, y, parts

LEMMA OthersAreNotAssistants ==
    ASSUME NEW x \in OtherMessages \cup ResultItems \cup ReasoningItems \cup CallItems
    PROVE  NormalItem(x) \in SentItems /\ NormalItem(x) \notin AssistantSent
<1>1. CASE x \in OtherMessages
  <2>1. x.body.role \in {"user", "developer"}
    BY <1>1 DEF OtherMessages, Message, InputItem
  <2>2. x \in MessageItems /\ x \in Items
    BY <1>1 DEF MessageItems, Items
  <2>3. NormalItem(x).body = x.body /\ NormalItem(x) \in SentItems
    BY <2>2, NormalFields DEF SentItems
  <2> QED
    BY <2>1, <2>3 DEF AssistantSent, IsAssistant
<1>2. CASE x \in ResultItems \cup ReasoningItems \cup CallItems
  <2>1. NormalItem(x).type # "message"
    BY <1>2, NormalFields DEF ResultItems, ReasoningItems, CallItems
  <2>2. NormalItem(x) \in SentItems
    BY <1>2 DEF SentItems, Items
  <2> QED
    BY <2>1, <2>2 DEF AssistantSent, IsAssistant
<1> QED
  BY <1>1, <1>2

LEMMA TextTypes ==
    /\ TextOf \in Lists(AssistantSent, TextFragments)
    /\ TextSent \in Lists(SentItems, TextFragments)
    /\ TextsOf \in Lists(ToldMessages, TextFragments)
    /\ TextTold \in Lists(ToldItems, TextFragments)
<1>1. ASSUME NEW x \in AssistantSent
      PROVE  Kept(TextFragments, x.body.content[1].data) \in Seq(TextFragments)
  <2>1. PICK y \in Items : x = NormalItem(y)
    BY DEF AssistantSent, SentItems
  <2>2. y \in SaidMessages
    BY <2>1, OthersAreNotAssistants DEF Items, MessageItems
  <2>3. PICK text \in Texts : y = Message("assistant", <<Part("output_text", text)>>)
    BY <2>2 DEF SaidMessages
  <2>4. x.body.content[1].data = text
    BY <2>1, <2>3, AssistantMessage
  <2> DEFINE F == TextFragments \cup {"\n\n", "billing"}
  <2>5. TextFragments \subseteq F /\ text \in Seq(F)
    BY DEF Texts
  <2> HIDE DEF F
  <2>6. Kept(TextFragments, text) \in Seq(TextFragments)
    BY <2>5, MapKept
  <2> QED
    BY <2>4, <2>6
<1>2. TextOf \in Lists(AssistantSent, TextFragments)
  BY <1>1 DEF TextOf, Lists
<1>3. ASSUME NEW item \in ToldMessages
      PROVE  FlattenSeq(item.texts) \in Seq(TextFragments)
  <2> DEFINE texts == item.texts
  <2>1. texts \in Seq(Seq(TextFragments) \ {<<>>})
    BY DEF ToldMessages
  <2> HIDE DEF texts
  <2>2. texts \in Seq(Seq(TextFragments))
    BY <2>1, SeqSubset
  <2> QED
    BY <2>2, FlattenSeqType DEF texts
<1>4. TextsOf \in Lists(ToldMessages, TextFragments)
  BY <1>3 DEF TextsOf, Lists
<1>5. AssistantSent \subseteq SentItems /\ ToldMessages \subseteq ToldItems
  BY DEF AssistantSent, ToldItems
<1>6. Spread(SentItems, AssistantSent, TextOf) \in Lists(SentItems, TextFragments)
  BY <1>2, <1>5, SpreadType
<1>7. Spread(ToldItems, ToldMessages, TextsOf) \in Lists(ToldItems, TextFragments)
  BY <1>4, <1>5, SpreadType
<1> QED
  BY <1>2, <1>4, <1>6, <1>7 DEF TextSent, TextTold

LEMMA TextsOfItems ==
    /\ \A x \in OtherMessages \cup ResultItems \cup ReasoningItems \cup CallItems : TextSent[NormalItem(x)] = <<>>
    /\ \A text \in Texts : TextSent[NormalItem(Message("assistant", <<Part("output_text", text)>>))]
                               = Kept(TextFragments, text)
<1>1. \A x \in OtherMessages \cup ResultItems \cup ReasoningItems \cup CallItems : TextSent[NormalItem(x)] = <<>>
  BY OthersAreNotAssistants DEF TextSent, Spread
<1>2. ASSUME NEW text \in Texts
      PROVE  TextSent[NormalItem(Message("assistant", <<Part("output_text", text)>>))] = Kept(TextFragments, text)
  <2> DEFINE x == NormalItem(Message("assistant", <<Part("output_text", text)>>))
  <2>1. x \in AssistantSent /\ x.body.content[1].data = text
    BY AssistantMessage
  <2> HIDE DEF x
  <2>2. x \in SentItems /\ TextSent[x] = TextOf[x]
    BY <2>1 DEF TextSent, Spread, AssistantSent
  <2> QED
    BY <2>1, <2>2 DEF TextOf, x
<1> QED
  BY <1>1, <1>2

\* What the blocks of an answer say.
BlockText == [b \in NonBlankTexts |-> b.data]
TextOfBlock == Spread(SaidBlocks, NonBlankTexts, BlockText)

LEMMA BlockTextTypes ==
    /\ NonBlankTexts \subseteq SaidBlocks
    /\ BlockText \in Lists(NonBlankTexts, TextFragments)
    /\ TextOfBlock \in Lists(SaidBlocks, TextFragments)
    /\ \A b \in NonBlankTexts : TextOfBlock[b] = b.data
    /\ \A b \in SaidBlocks \ NonBlankTexts : TextOfBlock[b] = <<>>
<1>1. NonBlankTexts \subseteq SaidBlocks
  BY DEF NonBlankTexts, SaidBlocks
<1>2. \A b \in NonBlankTexts : b.data \in Seq(TextFragments)
  BY TextBlockData DEF NonBlankTexts
<1>3. BlockText \in Lists(NonBlankTexts, TextFragments)
  BY <1>2 DEF BlockText, Lists
<1>4. Spread(SaidBlocks, NonBlankTexts, BlockText) \in Lists(SaidBlocks, TextFragments)
  BY <1>1, <1>3, SpreadType
<1>5. /\ \A b \in NonBlankTexts : TextOfBlock[b] = b.data
      /\ \A b \in SaidBlocks \ NonBlankTexts : TextOfBlock[b] = <<>>
  BY <1>1 DEF TextOfBlock, Spread, BlockText
<1> QED
  BY <1>1, <1>3, <1>4, <1>5 DEF TextOfBlock

\* The message of an answer says what its blocks say.
LEMMA TextsOfMessage ==
    ASSUME NEW bs \in Seq(SaidBlocks)
    PROVE  FlatMap(ItemTo(TextSent), SaidMessage(bs)) = FlatMap(TextOfBlock, bs)
<1>1. CASE Kept(NonBlankTexts, bs) = <<>>
  <2>1. FlatMap(BlockText, Kept(NonBlankTexts, bs)) = FlatMap(TextOfBlock, bs)
    <3>1. Spread(SaidBlocks, NonBlankTexts, BlockText) \in Lists(SaidBlocks, TextFragments)
      BY BlockTextTypes, FlatMapKept
    <3>2. FlatMap(BlockText, Kept(NonBlankTexts, bs)) = FlatMap(Spread(SaidBlocks, NonBlankTexts, BlockText), bs)
      BY <3>1, BlockTextTypes, FlatMapKept
    <3> QED
      BY <3>2 DEF TextOfBlock
  <2>2. SaidMessage(bs) = <<>>
    BY <1>1 DEF SaidMessage
  <2> QED
    BY <1>1, <2>1, <2>2, FlatMapEmpty
<1>2. CASE Kept(NonBlankTexts, bs) # <<>>
  <2> DEFINE texts == FlatMap(SaidText, bs)
             text == Joined(texts)
             y == Message("assistant", <<Part("output_text", text)>>)
             same == Same(Seq(TextFragments))
             through == Composed(SaidBlocks, same, SaidText)
  <2>1. SaidText \in Lists(SaidBlocks, Seq(TextFragments)) /\ texts \in Seq(Seq(TextFragments))
    BY AssistantItems, FlatMapType
  <2>2. SaidMessage(bs) = <<y>>
    BY <1>2 DEF SaidMessage
  <2> HIDE DEF texts
  <2>3. text \in Texts /\ Kept(TextFragments, text) = FlattenSeq(texts)
    BY <2>1, JoinedType, JoinedKept
  <2> HIDE DEF text
  <2>4. y \in SaidMessages
    BY <2>3 DEF SaidMessages
  <2>5. y \in Items /\ TextSent[NormalItem(y)] = FlattenSeq(texts)
    BY <2>3, <2>4, TextsOfItems DEF Items, MessageItems
  <2> HIDE DEF y
  <2>6. ItemTo(TextSent)[y] = FlattenSeq(texts)
    BY <2>5 DEF ItemTo
  <2>7. FlatMap(ItemTo(TextSent), <<y>>) = ItemTo(TextSent)[y]
    BY <2>5, TextTypes, ItemToType, FlatMapOne
  <2>8. same \in Lists(Seq(TextFragments), TextFragments) /\ FlattenSeq(texts) = FlatMap(same, texts)
    BY <2>1, FlattenIsFlatMap
  <2>9. \A t \in Seq(TextFragments) : same[t] = t
    BY DEF Same
  <2> HIDE DEF same
  <2>10. through \in Lists(SaidBlocks, TextFragments)
    BY <2>1, <2>8, FlatMapCompose
  <2>11. FlatMap(same, FlatMap(SaidText, bs)) = FlatMap(through, bs)
    BY <2>1, <2>8, <2>10, FlatMapCompose
  <2>12. ASSUME NEW b \in SaidBlocks PROVE through[b] = TextOfBlock[b]
    <3>1. through[b] = FlatMap(same, SaidText[b])
      BY ComposedAt
    <3>2. SaidText[b] = IF b \in NonBlankTexts THEN <<b.data>> ELSE <<>>
      BY DEF SaidText, Picks
    <3> HIDE DEF through
    <3>3. CASE b \in NonBlankTexts
      <4> DEFINE t == b.data
      <4>1. t \in Seq(TextFragments)
        BY <3>3, TextBlockData DEF NonBlankTexts
      <4>2. SaidText[b] = <<t>> /\ TextOfBlock[b] = t
        BY <3>2, <3>3, BlockTextTypes
      <4> HIDE DEF t
      <4>3. FlatMap(same, <<t>>) = same[t]
        BY <2>8, <4>1, FlatMapOne
      <4> QED
        BY <2>9, <3>1, <4>1, <4>2, <4>3
    <3>4. CASE b \notin NonBlankTexts
      BY <3>1, <3>2, <3>4, BlockTextTypes, FlatMapEmpty
    <3> QED
      BY <3>3, <3>4
  <2> HIDE DEF through
  <2>13. FlatMap(through, bs) = FlatMap(TextOfBlock, bs)
    BY <2>12, FlatMapSame
  <2> QED
    BY <2>2, <2>6, <2>7, <2>8, <2>11, <2>13 DEF texts
<1> QED
  BY <1>1, <1>2

LEMMA TextsOfAnswer ==
    ASSUME NEW items \in Seq(ToldItems)
    PROVE  MessageTo(TextSent)[Blocked("assistant", Blocks(items))] = FlatMap(TextTold, items)
<1> DEFINE h == TextOfBlock
           bs == Blocks(items)
<1>1. bs \in Seq(SaidBlocks)
  BY BlocksAre
<1> HIDE DEF bs
<1>2. MessageTo(TextSent)[Blocked("assistant", bs)] =
          (FlatMap(ThoughtTo(TextSent), bs) \o FlatMap(ItemTo(TextSent), SaidMessage(bs)))
              \o FlatMap(UseTo(TextSent), bs)
  BY <1>1, TextTypes, AnswerSends
<1>3. FlatMap(ItemTo(TextSent), SaidMessage(bs)) = FlatMap(h, bs)
  BY <1>1, TextsOfMessage
<1>4. FlatMap(ThoughtTo(TextSent), bs) = <<>> /\ FlatMap(UseTo(TextSent), bs) = <<>>
  BY <1>1, TextTypes, TextsOfItems, TakesNoThought, TakesNoUse
<1>5. /\ h \in Lists(SaidBlocks, TextFragments)
      /\ \A b \in NonBlankTexts : h[b] = b.data
      /\ \A b \in SaidBlocks \ NonBlankTexts : h[b] = <<>>
  BY BlockTextTypes
<1>6. ThinkingBlocks \subseteq SaidBlocks /\ TextBlocks \subseteq SaidBlocks /\ UseBlocks \subseteq SaidBlocks
  BY DEF SaidBlocks
<1>7. \A b \in ThinkingBlocks \cup UseBlocks : b \notin NonBlankTexts
  BY <1>6, SaidKinds DEF NonBlankTexts
<1> HIDE DEF h
<1>8. ASSUME NEW item \in ToldItems PROVE FlatMap(h, BlocksOf(item)) = TextTold[item]
  <2>1. CASE item \in ToldMessages
    <3> DEFINE texts == item.texts
               said(k) == Said("text", texts[k], NoSignature, NoId, NoName)
               blocks == [k \in 1 .. Len(texts) |-> said(k)]
    <3>1. texts \in Seq(Seq(TextFragments) \ {<<>>})
      BY <2>1 DEF ToldMessages
    <3>2. BlocksOf(item) = blocks /\ TextTold[item] = FlattenSeq(texts)
      BY <2>1, MessageBlocksOf DEF TextTold, Spread, TextsOf
    <3> HIDE DEF texts
    <3>3. Len(texts) \in Nat /\ \A k \in 1 .. Len(texts) : texts[k] \in Seq(TextFragments) /\ texts[k] # <<>>
      BY <3>1, ElementOf
    <3>4. ASSUME NEW k \in 1 .. Len(texts) PROVE h[said(k)] = texts[k]
      <4>1. said(k) \in TextBlocks /\ said(k).data = texts[k]
        BY <3>3 DEF TextBlocks, Said
      <4> HIDE DEF said
      <4>2. said(k) \in NonBlankTexts
        BY <3>3, <4>1 DEF NonBlankTexts
      <4> QED
        BY <1>5, <4>1, <4>2
    <3> HIDE DEF said
    <3>5. Len(blocks) = Len(texts) /\ \A k \in 1 .. Len(texts) : blocks[k] = said(k)
      BY <3>3
    <3> HIDE DEF blocks
    <3>6. [k \in 1 .. Len(blocks) |-> h[blocks[k]]] = texts
      BY <3>1, <3>4, <3>5
    <3> QED
      BY <3>2, <3>6 DEF FlatMap
  <2>2. CASE item \notin ToldMessages
    <3>1. TextTold[item] = <<>>
      BY <2>2 DEF TextTold, Spread
    <3>2. BlocksOf(item) \in Seq(ThinkingBlocks) \/ BlocksOf(item) \in Seq(UseBlocks)
      BY <2>2, BlocksOfKinds DEF ToldItems
    <3>3. BlocksOf(item) \in Seq(ThinkingBlocks \cup UseBlocks)
      BY <3>2, SeqSubset
    <3>4. \A b \in ThinkingBlocks \cup UseBlocks : h[b] = <<>>
      BY <1>5, <1>6, <1>7
    <3> QED
      BY <3>1, <3>3, <3>4, FlatMapNothing
  <2> QED
    BY <2>1, <2>2
<1>9. h[TextBlock(<<>>)] = <<>>
  <2>1. TextBlock(<<>>) \in TextBlocks /\ TextBlock(<<>>).data = <<>>
    BY DEF TextBlocks, TextBlock
  <2> QED
    BY <1>5, <1>6, <2>1 DEF NonBlankTexts
<1>10. FlatMap(h, bs) = FlatMap(TextTold, items)
  BY <1>5, <1>8, <1>9, TextTypes, BlocksReplayed DEF bs
<1>11. FlatMap(h, bs) \in Seq(TextFragments)
  BY <1>1, <1>5, FlatMapType
<1>12. (<<>> \o FlatMap(h, bs)) \o <<>> = FlatMap(h, bs)
  BY <1>11
<1> QED
  BY <1>2, <1>3, <1>4, <1>10, <1>12 DEF bs

LEMMA TextsReplayed ==
    ASSUME TranscriptInv, AnswersInv, turn = "upstream"
    PROVE  SentTexts = ToldTexts
<1> DEFINE input == sent.input
           u == Kept(AssistantSent, input)
           v == Kept(ToldMessages, told)
<1>1. Silent(TextSent)
  BY TextsOfItems DEF Silent
<1>2. input \in Seq(SentItems) /\ FlatMap(TextSent, input) = FlatMap(TextTold, told)
  BY <1>1, TextTypes, TextsOfAnswer, RequestReplays
<1>3. told \in Seq(ToldItems)
  BY DEF TranscriptInv
<1>4. AssistantSent \subseteq SentItems /\ ToldMessages \subseteq ToldItems
  BY DEF AssistantSent, ToldItems
<1> HIDE DEF input
<1>5. FlatMap(TextOf, u) = FlatMap(TextSent, input)
  <2>1. Spread(SentItems, AssistantSent, TextOf) \in Lists(SentItems, TextFragments)
    BY <1>4, TextTypes, SpreadType
  <2>2. FlatMap(TextOf, Kept(AssistantSent, input)) = FlatMap(Spread(SentItems, AssistantSent, TextOf), input)
    BY <1>2, <1>4, <2>1, TextTypes, FlatMapKept
  <2> QED
    BY <2>2 DEF TextSent
<1>6. FlatMap(TextsOf, v) = FlatMap(TextTold, told)
  <2>1. Spread(ToldItems, ToldMessages, TextsOf) \in Lists(ToldItems, TextFragments)
    BY <1>4, TextTypes, SpreadType
  <2>2. FlatMap(TextsOf, Kept(ToldMessages, told)) = FlatMap(Spread(ToldItems, ToldMessages, TextsOf), told)
    BY <1>3, <1>4, <2>1, TextTypes, FlatMapKept
  <2> QED
    BY <2>2 DEF TextTold
<1>7. SentTexts = FlatMap(TextOf, u)
  <2> DEFINE Assistant(item) == item.type = "message" /\ item.body.role = "assistant"
             IsText(fragment) == fragment \in TextFragments
             SaidTextOf(item) == Which(item.body.content[1].data, IsText)
  <2>1. Which(input, Assistant) = u
    <3>1. [i \in 1 .. Len(input) |-> IF Assistant(input[i]) THEN <<input[i]>> ELSE <<>>]
              = [i \in 1 .. Len(input) |-> IF input[i] \in AssistantSent THEN <<input[i]>> ELSE <<>>]
      BY <1>2 DEF AssistantSent, IsAssistant
    <3> QED
      BY <3>1 DEF Which, Kept
  <2>2. u \in Seq(AssistantSent)
    BY <1>2, <1>4, MapKept
  <2> HIDE DEF u
  <2>3. \A x \in AssistantSent : SaidTextOf(x) = TextOf[x]
    BY DEF Which, Kept, TextOf
  <2>4. \A i \in 1 .. Len(u) : u[i] \in AssistantSent
    BY <2>2
  <2>5. SentTexts = FlattenSeq([i \in 1 .. Len(u) |-> SaidTextOf(u[i])])
    BY <2>1 DEF SentTexts, Each, input
  <2> HIDE DEF SaidTextOf
  <2>6. [i \in 1 .. Len(u) |-> SaidTextOf(u[i])] = [i \in 1 .. Len(u) |-> TextOf[u[i]]]
    BY <2>3, <2>4
  <2> QED
    BY <2>5, <2>6 DEF FlatMap
<1>8. ToldTexts = FlatMap(TextsOf, v)
  <2>1. OfType(told, "message") = v
    <3>1. {x \in ToldItems : x.type = "message"} = ToldMessages
      BY <1>4, ToldKinds
    <3> QED
      BY <1>3, <3>1, OfTypeKept
  <2>2. v \in Seq(ToldMessages)
    BY <1>3, <1>4, MapKept
  <2> HIDE DEF v
  <2>3. ToldTexts = FlattenSeq([i \in 1 .. Len(v) |-> FlattenSeq(v[i].texts)])
    BY <2>1 DEF ToldTexts, Each
  <2>4. [i \in 1 .. Len(v) |-> FlattenSeq(v[i].texts)] = [i \in 1 .. Len(v) |-> TextsOf[v[i]]]
    BY <2>2 DEF TextsOf
  <2> QED
    BY <2>3, <2>4 DEF FlatMap
<1> HIDE DEF u, v
<1> QED
  BY <1>2, <1>5, <1>6, <1>7, <1>8

\* "Reasoning ciphertext, tool-call pairing ... are retained" (README.md:53-57): every
\* request gives the upstream back all it has said, its ciphertexts, its texts and its
\* calls, each in their order and nothing twice, whatever the transcript.
THEOREM HistoryIsKept == Spec => []HistoryIsReplayed
<1>1. Init => TranscriptInv /\ AnswersInv
  BY TranscriptInit, AnswersInit
<1>2. TranscriptInv /\ AnswersInv /\ [Next]_vars => (TranscriptInv /\ AnswersInv)'
  BY TranscriptStep, AnswersStep
<1>3. TranscriptInv /\ AnswersInv => HistoryIsReplayed
  BY ThoughtsReplayed, TextsReplayed, CallsReplayed DEF HistoryIsReplayed
<1> QED
  BY <1>1, <1>2, <1>3, PTL DEF Spec

-----------------------------------------------------------------------------
(* Images *)

PartData == {p.data : p \in Parts}
PartImage == Picks(Parts, {p \in Parts : p.type = "input_image"}, [p \in Parts |-> p.data])
SentMessages == {x \in SentItems : x.type = "message"}
MessageImages == [x \in SentMessages |-> FlatMap(PartImage, x.body.content)]
ImageSent == Spread(SentItems, SentMessages, MessageImages)

LEMMA PartImages ==
    /\ PartImage \in Lists(Parts, PartData)
    /\ \A p \in TextParts : p \in Parts /\ PartImage[p] = <<>>
    /\ \A image \in Images : /\ Part("input_image", image) \in Parts
                             /\ PartImage[Part("input_image", image)] = <<image>>
                             /\ image \in PartData
<1> DEFINE A == {p \in Parts : p.type = "input_image"}
           g == [p \in Parts |-> p.data]
<1>1. PartImage \in Lists(Parts, PartData)
  <2>1. \A p \in A : g[p] \in PartData
    BY DEF PartData
  <2> HIDE DEF A, g
  <2>2. Picks(Parts, A, g) \in Lists(Parts, PartData)
    BY <2>1, PicksType
  <2> QED
    BY <2>2 DEF PartImage, A, g
<1>2. ASSUME NEW p \in TextParts PROVE p \in Parts /\ PartImage[p] = <<>>
  <2>1. p.type # "input_image"
    BY DEF TextParts, Part
  <2>2. p \in Parts
    BY DEF Parts
  <2> QED
    BY <2>1, <2>2 DEF PartImage, Picks
<1>3. ASSUME NEW image \in Images
      PROVE  /\ Part("input_image", image) \in Parts
             /\ PartImage[Part("input_image", image)] = <<image>>
             /\ image \in PartData
  <2> DEFINE p == Part("input_image", image)
  <2>1. p.type = "input_image" /\ p.data = image
    BY DEF Part
  <2>2. p \in Parts
    BY DEF Parts, ImageParts
  <2> HIDE DEF p
  <2>3. PartImage[p] = <<image>> /\ image \in PartData
    BY <2>1, <2>2 DEF PartImage, Picks, PartData
  <2> QED
    BY <2>2, <2>3 DEF p
<1> QED
  BY <1>1, <1>2, <1>3

LEMMA MessageContent ==
    ASSUME NEW y \in MessageItems
    PROVE  /\ y.body.content \in Seq(Parts)
           /\ NormalItem(y) \in SentMessages
           /\ NormalItem(y).body = y.body
<1>1. y.body.content \in Seq(Parts)
  <2>1. CASE y \in OtherMessages
    BY <2>1 DEF OtherMessages, Message, InputItem
  <2>2. CASE y \in SaidMessages
    <3>1. PICK text \in Texts : y = Message("assistant", <<Part("output_text", text)>>)
      BY <2>2 DEF SaidMessages
    <3> DEFINE part == Part("output_text", text)
    <3>2. part \in Parts
      BY DEF Parts, TextParts
    <3>3. y.body.content = <<part>>
      BY <3>1 DEF Message, InputItem
    <3> HIDE DEF part
    <3> QED
      BY <3>2, <3>3, SeqOfOne
  <2> QED
    BY <2>1, <2>2 DEF MessageItems
<1>2. NormalItem(y) \in SentItems
  BY DEF SentItems, Items
<1> QED
  BY <1>1, <1>2, NormalFields DEF SentMessages

LEMMA ImageTypes ==
    /\ MessageImages \in Lists(SentMessages, PartData)
    /\ ImageSent \in Lists(SentItems, PartData)
<1>1. ASSUME NEW x \in SentMessages PROVE FlatMap(PartImage, x.body.content) \in Seq(PartData)
  <2>1. PICK y \in Items : x = NormalItem(y)
    BY DEF SentMessages, SentItems
  <2>2. y \in MessageItems
    BY <2>1, NormalFields DEF SentMessages, Items, ResultItems, ReasoningItems, CallItems
  <2>3. x.body.content \in Seq(Parts)
    BY <2>1, <2>2, MessageContent
  <2> QED
    BY <2>3, PartImages, FlatMapType
<1>2. MessageImages \in Lists(SentMessages, PartData)
  BY <1>1 DEF MessageImages, Lists
<1>3. SentMessages \subseteq SentItems
  BY DEF SentMessages
<1>4. Spread(SentItems, SentMessages, MessageImages) \in Lists(SentItems, PartData)
  BY <1>2, <1>3, SpreadType
<1> QED
  BY <1>2, <1>4 DEF ImageSent

LEMMA ImagesOfItems ==
    /\ \A x \in ResultItems \cup ReasoningItems \cup CallItems : ImageSent[NormalItem(x)] = <<>>
    /\ \A y \in MessageItems : ImageSent[NormalItem(y)] = FlatMap(PartImage, y.body.content)
<1>1. ASSUME NEW x \in ResultItems \cup ReasoningItems \cup CallItems
      PROVE  ImageSent[NormalItem(x)] = <<>>
  <2>1. NormalItem(x).type # "message" /\ NormalItem(x) \in SentItems
    BY NormalFields DEF ResultItems, ReasoningItems, CallItems, SentItems, Items
  <2> QED
    BY <2>1 DEF ImageSent, Spread, SentMessages
<1>2. ASSUME NEW y \in MessageItems
      PROVE  ImageSent[NormalItem(y)] = FlatMap(PartImage, y.body.content)
  <2> DEFINE x == NormalItem(y)
  <2>1. x \in SentMessages /\ x \in SentItems /\ x.body = y.body
    BY MessageContent DEF SentMessages
  <2> HIDE DEF x
  <2>2. ImageSent[x] = FlatMap(PartImage, y.body.content)
    BY <2>1 DEF ImageSent, Spread, MessageImages
  <2> QED
    BY <2>2 DEF x
<1> QED
  BY <1>1, <1>2

\* What a block shows, and what of it is sent.
ImagesOfBlock(b) ==
    CASE b.kind = "image"       -> <<b.data>>
      [] b.kind = "tool_result" -> ImagesIn(b.content)
      [] OTHER                  -> <<>>
BlockImage == [b \in UserBlocks |-> IF b.kind = "image" THEN <<b.data>> ELSE <<>>]
ResultImage == [b \in UserBlocks |-> IF b.kind = "tool_result" THEN ImagesIn(b.content) ELSE <<>>]

\* The images of a result, as parts of the message that follows it.
LEMMA ImagesOfContent ==
    ASSUME NEW b \in ResultBlocks
    PROVE  /\ ImagesIn(b.content) \in Seq(PartData)
           /\ FlatMap(PartImage, ResultImages(b)) = ImagesIn(b.content)
<1> DEFINE A == {x \in ShownBlocks : x.kind = "image"}
           w == Kept(A, b.content)
           parts == [i \in 1 .. Len(w) |-> ImagePart(w[i])]
           images == [i \in 1 .. Len(w) |-> w[i].data]
<1>1. b.content \in Seq(ShownBlocks)
  BY DEF ResultBlocks, ToolResult
<1>2. Kind(b.content, "image") = w
  BY <1>1, KindKept
<1>3. w \in Seq(A)
  <2>1. A \subseteq ShownBlocks
    OBVIOUS
  <2> HIDE DEF A
  <2> QED
    BY <1>1, <2>1, MapKept
<1>4. ResultImages(b) = parts /\ ImagesIn(b.content) = images
  BY <1>2 DEF ResultImages, ImagesIn, Each
<1>5. \A x \in A : x.data \in Images
  BY UserKinds DEF UserBlocks
<1>6. \A x \in A : PartImage[ImagePart(x)] = <<x.data>> /\ x.data \in PartData
  BY <1>5, PartImages DEF ImagePart
<1> HIDE DEF A, w
<1>7. Len(w) \in Nat /\ \A i \in 1 .. Len(w) : w[i] \in A
  BY <1>3
<1>8. images \in Seq(PartData) /\ Len(images) = Len(w)
  BY <1>6, <1>7
<1>9. FlatMap(PartImage, parts) = FlattenSeq([i \in 1 .. Len(images) |-> <<images[i]>>])
  <2>1. [i \in 1 .. Len(parts) |-> PartImage[parts[i]]] = [i \in 1 .. Len(images) |-> <<images[i]>>]
    BY <1>6, <1>7
  <2> QED
    BY <2>1 DEF FlatMap
<1> HIDE DEF images
<1>10. FlattenSeq([i \in 1 .. Len(images) |-> <<images[i]>>]) = images
  <2>1. [i \in 1 .. Len(images) |-> IF images[i] \in PartData THEN <<images[i]>> ELSE <<>>]
            = [i \in 1 .. Len(images) |-> <<images[i]>>]
    BY <1>8, ElementOf
  <2>2. Kept(PartData, images) = images
    BY <1>8, KeptAll
  <2> QED
    BY <2>1, <2>2 DEF Kept
<1> QED
  BY <1>4, <1>8, <1>9, <1>10

LEMMA ImagesOfBlocks ==
    /\ BlockImage \in Lists(UserBlocks, PartData)
    /\ ResultImage \in Lists(UserBlocks, PartData)
    /\ \A b \in UserBlocks : /\ FlatMap(PartImage, ShownParts[b]) = BlockImage[b]
                             /\ FlatMap(PartImage, ResultParts[b]) = ResultImage[b]
                             /\ ImagesOfBlock(b) = BlockImage[b] \o ResultImage[b]
<1>1. ASSUME NEW b \in UserBlocks
      PROVE  /\ BlockImage[b] \in Seq(PartData)
             /\ ResultImage[b] \in Seq(PartData)
             /\ ImagesOfBlock(b) = BlockImage[b] \o ResultImage[b]
  <2>1. CASE b.kind = "image"
    <3>1. b.data \in PartData
      BY <2>1, UserKinds, PartImages
    <3>2. BlockImage[b] = <<b.data>> /\ ResultImage[b] = <<>> /\ ImagesOfBlock(b) = <<b.data>>
      BY <2>1 DEF BlockImage, ResultImage, ImagesOfBlock
    <3> QED
      BY <3>1, <3>2, SeqOfOne, EmptySeq
  <2>2. CASE b.kind = "tool_result"
    <3>1. ImagesIn(b.content) \in Seq(PartData)
      BY <2>2, UserKinds, ImagesOfContent
    <3>2. BlockImage[b] = <<>> /\ ResultImage[b] = ImagesIn(b.content) /\ ImagesOfBlock(b) = ImagesIn(b.content)
      BY <2>2 DEF BlockImage, ResultImage, ImagesOfBlock
    <3> QED
      BY <3>1, <3>2, EmptySeq
  <2>3. CASE b.kind \notin {"image", "tool_result"}
    <3>1. BlockImage[b] = <<>> /\ ResultImage[b] = <<>> /\ ImagesOfBlock(b) = <<>>
      BY <2>3 DEF BlockImage, ResultImage, ImagesOfBlock
    <3> QED
      BY <3>1, EmptySeq
  <2> QED
    BY <2>1, <2>2, <2>3
<1>2. ASSUME NEW b \in UserBlocks PROVE FlatMap(PartImage, ShownParts[b]) = BlockImage[b]
  <2>1. ShownParts[b] = IF Shows(b) THEN <<ShownPart(b)>> ELSE <<>>
    BY DEF ShownParts, Picks, ShowingBlocks
  <2>2. CASE b.kind = "image"
    <3> DEFINE part == Part("input_image", b.data)
    <3>1. part \in Parts /\ PartImage[part] = <<b.data>>
      BY <2>2, UserKinds, PartImages
    <3>2. ShownParts[b] = <<part>>
      BY <2>1, <2>2 DEF Shows, ShownPart, ImagePart
    <3> HIDE DEF part
    <3>3. FlatMap(PartImage, <<part>>) = PartImage[part]
      BY <3>1, PartImages, FlatMapOne
    <3> QED
      BY <2>2, <3>1, <3>2, <3>3 DEF BlockImage
  <2>3. CASE b.kind = "text" /\ b.data # <<>>
    <3> DEFINE part == Part("input_text", b.data)
    <3>1. part \in TextParts
      BY <2>3, UserKinds, TextsAreTexts DEF TextParts
    <3>2. ShownParts[b] = <<part>>
      BY <2>1, <2>3 DEF Shows, ShownPart
    <3> HIDE DEF part
    <3>3. FlatMap(PartImage, <<part>>) = PartImage[part] /\ PartImage[part] = <<>>
      BY <3>1, PartImages, FlatMapOne
    <3> QED
      BY <2>3, <3>2, <3>3 DEF BlockImage
  <2>4. CASE ~Shows(b)
    <3>1. b.kind # "image"
      BY <2>4 DEF Shows
    <3> QED
      BY <2>1, <2>4, <3>1, FlatMapEmpty DEF BlockImage
  <2> QED
    BY <2>2, <2>3, <2>4 DEF Shows
<1>3. ASSUME NEW b \in UserBlocks PROVE FlatMap(PartImage, ResultParts[b]) = ResultImage[b]
  <2>1. CASE b \in ResultBlocks
    <3>1. ResultParts[b] = ResultImages(b) /\ ResultImage[b] = ImagesIn(b.content)
      BY <2>1, UserKinds DEF ResultParts, Spread, ImagesOfResult, ResultImage
    <3> QED
      BY <2>1, <3>1, ImagesOfContent
  <2>2. CASE b \notin ResultBlocks
    <3>1. ResultParts[b] = <<>> /\ ResultImage[b] = <<>>
      BY <2>2, UserKinds DEF ResultParts, Spread, ResultImage
    <3> QED
      BY <3>1, FlatMapEmpty
  <2> QED
    BY <2>1, <2>2
<1>4. BlockImage \in Lists(UserBlocks, PartData) /\ ResultImage \in Lists(UserBlocks, PartData)
  BY <1>1 DEF BlockImage, ResultImage, Lists
<1> QED
  BY <1>1, <1>2, <1>3, <1>4

\* What each message of a transcript shows.
ShownIn == [m \in Messages |-> IF m.plain THEN <<>> ELSE FlattenSeq([i \in 1 .. Len(m.blocks) |-> ImagesOfBlock(m.blocks[i])])]
BlockImages == [b \in UserBlocks |-> ImagesOfBlock(b)]

LEMMA NothingShown ==
    ASSUME NEW m \in Messages, m \in AssistantMessages
    PROVE  ShownIn[m] = <<>>
<1> DEFINE bs == m.blocks
           h == [b \in SaidBlocks |-> <<>>]
<1>1. bs \in Seq(SaidBlocks) /\ ~m.plain
  BY AssistantMessageItems
<1> HIDE DEF bs
<1>2. \A b \in SaidBlocks : b.kind \notin {"image", "tool_result"}
  BY DEF SaidBlocks, ThinkingBlocks, TextBlocks, UseBlocks, Said, TextBlock
<1>3. \A b \in SaidBlocks : ImagesOfBlock(b) = <<>>
  BY <1>2 DEF ImagesOfBlock
<1>4. \A i \in 1 .. Len(bs) : bs[i] \in SaidBlocks
  BY <1>1, ElementOf
<1>5. [i \in 1 .. Len(bs) |-> ImagesOfBlock(bs[i])] = [i \in 1 .. Len(bs) |-> h[bs[i]]]
  BY <1>3, <1>4
<1>6. FlatMap(h, bs) = <<>>
  <2>1. \A b \in SaidBlocks : h[b] = <<>>
    OBVIOUS
  <2> HIDE DEF h
  <2> QED
    BY <1>1, <2>1, FlatMapNothing
<1>7. FlattenSeq([i \in 1 .. Len(bs) |-> ImagesOfBlock(bs[i])]) = <<>>
  BY <1>5, <1>6 DEF FlatMap
<1> QED
  BY <1>1, <1>7 DEF ShownIn, bs

LEMMA ShownByUser ==
    ASSUME NEW m \in UserMessages, ~m.plain
    PROVE  /\ ShownIn[m] = FlatMap(BlockImages, m.blocks)
           /\ m.blocks \in Seq(UserBlocks)
           /\ BlockImages \in Lists(UserBlocks, PartData)
<1> DEFINE bs == m.blocks
<1>1. bs \in Seq(UserBlocks) /\ m \in Messages
  BY UserMessageItems DEF Messages
<1> HIDE DEF bs
<1>2. [i \in 1 .. Len(bs) |-> ImagesOfBlock(bs[i])] = [i \in 1 .. Len(bs) |-> BlockImages[bs[i]]]
  BY <1>1 DEF BlockImages
<1>3. ShownIn[m] = FlatMap(BlockImages, bs)
  BY <1>1, <1>2 DEF ShownIn, FlatMap, bs
<1>4. ASSUME NEW b \in UserBlocks PROVE ImagesOfBlock(b) \in Seq(PartData)
  <2> DEFINE s == BlockImage[b]
             t == ResultImage[b]
  <2>1. s \in Seq(PartData) /\ t \in Seq(PartData)
    BY ImagesOfBlocks, ListOf
  <2>2. ImagesOfBlock(b) = s \o t
    BY ImagesOfBlocks
  <2> HIDE DEF s, t
  <2> QED
    BY <2>1, <2>2, ConcatType
<1>5. BlockImages \in Lists(UserBlocks, PartData)
  BY <1>4 DEF BlockImages, Lists
<1> QED
  BY <1>1, <1>3, <1>5 DEF bs

LEMMA ShownType ==
    ShownIn \in Lists(Messages, PartData)
<1>1. ASSUME NEW m \in Messages PROVE ShownIn[m] \in Seq(PartData)
  <2>1. CASE m \in AssistantMessages
    BY <2>1, NothingShown, EmptySeq
  <2>2. CASE m \in UserMessages /\ m.plain
    BY <2>2, EmptySeq DEF ShownIn
  <2>3. CASE m \in UserMessages /\ ~m.plain
    BY <2>3, ShownByUser, FlatMapType
  <2> QED
    BY <2>1, <2>2, <2>3 DEF Messages
<1> QED
  BY <1>1 DEF ShownIn, Lists

\* What is sent of the blocks of a user: the images among them, then those of results.
LEMMA ImagesOfUser ==
    ASSUME NEW m \in UserMessages, ~m.plain
    PROVE  MessageTo(ImageSent)[m] = FlatMap(BlockImage, m.blocks) \o FlatMap(ResultImage, m.blocks)
<1> DEFINE bs == m.blocks
           I == ItemTo(ImageSent)
           results == FlatMap(ResultItem, bs)
           shown == ShownMessage(bs)
           parts == UserParts(bs)
           a == FlatMap(ShownParts, bs)
           b == FlatMap(ResultParts, bs)
<1>1. bs \in Seq(UserBlocks) /\ m \in Messages /\ ConvertMessage(m) = ConvertUserMessage(bs)
  BY UserMessageItems DEF Messages
<1> HIDE DEF bs
<1>2. MessageTo(ImageSent)[m] = FlatMap(I, ConvertUserMessage(bs))
  BY <1>1, ImageTypes, MessageToAt
<1>3. I \in Lists(Items, PartData)
  BY ImageTypes, ItemToType
<1>4. ConvertUserMessage(bs) = results \o shown /\ results \in Seq(ResultItems) /\ shown \in Seq(OtherMessages)
  BY <1>1, UserItems
<1>5. ResultItems \subseteq Items /\ OtherMessages \subseteq Items
  BY DEF Items, MessageItems
<1> HIDE DEF results, shown
<1>6. results \in Seq(Items) /\ shown \in Seq(Items)
  BY <1>4, <1>5, SeqSubset
<1>7. FlatMap(I, results) = <<>>
  BY <1>4, <1>5, ImagesOfItems, NothingFrom
<1> HIDE DEF I
<1>8. FlatMap(I, results \o shown) = FlatMap(I, results) \o FlatMap(I, shown)
  BY <1>3, <1>6, FlatMapConcat
<1>9. parts = a \o b /\ parts \in Seq(Parts) /\ ShownParts \in Lists(UserBlocks, Parts) /\ ResultParts \in Lists(UserBlocks, Parts)
  BY <1>1, UserPartsAre
<1>10. a \in Seq(Parts) /\ b \in Seq(Parts)
  BY <1>1, <1>9, FlatMapType
<1>11. FlatMap(I, shown) = FlatMap(PartImage, parts)
  <2>1. CASE parts = <<>>
    BY <2>1, FlatMapEmpty DEF shown, ShownMessage
  <2>2. CASE parts # <<>>
    <3> DEFINE y == Message("user", parts)
    <3>1. shown = <<y>>
      BY <2>2 DEF shown, ShownMessage
    <3>2. y.body.content = parts
      BY DEF Message, InputItem
    <3>a. parts \in Seq(Parts)
      BY <1>9
    <3> HIDE DEF parts
    <3>3. Message("user", parts) \in OtherMessages
      BY <3>a DEF OtherMessages
    <3>b. y \in OtherMessages
      BY <3>3
    <3> HIDE DEF y
    <3>4. y \in MessageItems /\ y \in Items
      BY <1>5, <3>b DEF MessageItems
    <3>5. I[y] = FlatMap(PartImage, parts)
      BY <3>2, <3>4, ImagesOfItems DEF I, ItemTo
    <3>6. FlatMap(I, <<y>>) = I[y]
      BY <1>3, <3>4, FlatMapOne
    <3> QED
      BY <3>1, <3>5, <3>6
  <2> QED
    BY <2>1, <2>2
<1> HIDE DEF parts, a, b
<1>12. FlatMap(PartImage, a \o b) = FlatMap(PartImage, a) \o FlatMap(PartImage, b)
  BY <1>10, PartImages, FlatMapConcat
<1>13. FlatMap(PartImage, a) = FlatMap(BlockImage, bs)
  <2> DEFINE k == Composed(UserBlocks, PartImage, ShownParts)
  <2>1. k \in Lists(UserBlocks, PartData)
    BY <1>1, <1>9, PartImages, FlatMapCompose
  <2>2. FlatMap(PartImage, FlatMap(ShownParts, bs)) = FlatMap(k, bs)
    BY <1>1, <1>9, <2>1, PartImages, FlatMapCompose
  <2>3. ASSUME NEW x \in UserBlocks PROVE k[x] = BlockImage[x]
    <3>1. k[x] = FlatMap(PartImage, ShownParts[x])
      BY ComposedAt
    <3> QED
      BY <3>1, ImagesOfBlocks
  <2> HIDE DEF k
  <2> QED
    BY <1>1, <2>2, <2>3, FlatMapSame DEF a
<1>14. FlatMap(PartImage, b) = FlatMap(ResultImage, bs)
  <2> DEFINE k == Composed(UserBlocks, PartImage, ResultParts)
  <2>1. k \in Lists(UserBlocks, PartData)
    BY <1>1, <1>9, PartImages, FlatMapCompose
  <2>2. FlatMap(PartImage, FlatMap(ResultParts, bs)) = FlatMap(k, bs)
    BY <1>1, <1>9, <2>1, PartImages, FlatMapCompose
  <2>3. ASSUME NEW x \in UserBlocks PROVE k[x] = ResultImage[x]
    <3>1. k[x] = FlatMap(PartImage, ResultParts[x])
      BY ComposedAt
    <3> QED
      BY <3>1, ImagesOfBlocks
  <2> HIDE DEF k
  <2> QED
    BY <1>1, <2>2, <2>3, FlatMapSame DEF b
<1>15. FlatMap(I, shown) \in Seq(PartData)
  BY <1>3, <1>6, FlatMapType
<1>16. <<>> \o FlatMap(I, shown) = FlatMap(I, shown)
  BY <1>15
<1> QED
  BY <1>2, <1>4, <1>7, <1>8, <1>9, <1>11, <1>12, <1>13, <1>14, <1>16 DEF bs

\* Messages of text alone have no images.
LEMMA NoImages ==
    ASSUME NEW y \in MessageItems, y.body.content \in Seq(TextParts)
    PROVE  ImageSent[NormalItem(y)] = <<>>
<1> DEFINE parts == y.body.content
<1>1. ImageSent[NormalItem(y)] = FlatMap(PartImage, parts)
  BY ImagesOfItems
<1> HIDE DEF parts
<1>2. parts \in Seq(TextParts)
  BY DEF parts
<1>3. FlatMap(PartImage, parts) = <<>>
  BY <1>2, PartImages, FlatMapNothing
<1> QED
  BY <1>1, <1>3

LEMMA TextMessages ==
    /\ \A text \in Texts : Message("user", <<Part("input_text", text)>>) \in MessageItems
                           /\ ImageSent[NormalItem(Message("user", <<Part("input_text", text)>>))] = <<>>
    /\ \A y \in SaidMessages : ImageSent[NormalItem(y)] = <<>>
<1>1. ASSUME NEW text \in Texts
      PROVE  Message("user", <<Part("input_text", text)>>) \in MessageItems
             /\ ImageSent[NormalItem(Message("user", <<Part("input_text", text)>>))] = <<>>
  <2> DEFINE part == Part("input_text", text)
             parts == <<part>>
             y == Message("user", parts)
  <2>1. part \in TextParts
    BY DEF TextParts
  <2> HIDE DEF part
  <2>2. parts \in Seq(TextParts)
    BY <2>1, SeqOfOne
  <2>3. parts \in Seq(Parts)
    BY <2>2, SeqSubset DEF Parts
  <2> HIDE DEF parts
  <2>4. y \in MessageItems
    BY <2>3 DEF MessageItems, OtherMessages
  <2>5. y.body.content = parts
    BY DEF Message, InputItem
  <2> HIDE DEF y
  <2>6. ImageSent[NormalItem(y)] = <<>>
    BY <2>2, <2>4, <2>5, NoImages
  <2> QED
    BY <2>4, <2>6 DEF y, parts, part
<1>2. ASSUME NEW y \in SaidMessages PROVE ImageSent[NormalItem(y)] = <<>>
  <2>1. PICK text \in Texts : y = Message("assistant", <<Part("output_text", text)>>)
    BY DEF SaidMessages
  <2> DEFINE part == Part("output_text", text)
  <2>2. part \in TextParts
    BY DEF TextParts
  <2>3. y.body.content = <<part>>
    BY <2>1 DEF Message, InputItem
  <2> HIDE DEF part
  <2>4. y.body.content \in Seq(TextParts)
    BY <2>2, <2>3, SeqOfOne
  <2> QED
    BY <2>4, NoImages DEF MessageItems
<1> QED
  BY <1>1, <1>2

LEMMA ImagesOfMessages ==
    ASSUME NEW m \in Messages, NEW v
    PROVE  Count(v, MessageTo(ImageSent)[m]) = Count(v, ShownIn[m])
<1> DEFINE I == ItemTo(ImageSent)
<1>1. MessageTo(ImageSent)[m] = FlatMap(I, ConvertMessage(m))
  BY ImageTypes, MessageToAt
<1>2. I \in Lists(Items, PartData)
  BY ImageTypes, ItemToType
<1>3. CASE m \in UserMessages /\ m.plain
  <2> DEFINE y == Message("user", <<Part("input_text", m.text)>>)
  <2>1. ConvertMessage(m) = <<y>> /\ m.text \in Texts
    BY <1>3, UserMessageItems, TextsAreTexts
  <2>2. y \in Items /\ ImageSent[NormalItem(y)] = <<>>
    BY <2>1, TextMessages DEF Items
  <2> HIDE DEF y
  <2>3. I[y] = <<>>
    BY <2>2 DEF ItemTo
  <2> HIDE DEF I
  <2>4. FlatMap(I, <<y>>) = I[y]
    BY <1>2, <2>2, FlatMapOne
  <2>5. ShownIn[m] = <<>>
    BY <1>3 DEF ShownIn
  <2> QED
    BY <1>1, <2>1, <2>3, <2>4, <2>5
<1>4. CASE m \in UserMessages /\ ~m.plain
  <2> DEFINE bs == m.blocks
  <2>1. /\ MessageTo(ImageSent)[m] = FlatMap(BlockImage, bs) \o FlatMap(ResultImage, bs)
        /\ ShownIn[m] = FlatMap(BlockImages, bs) /\ bs \in Seq(UserBlocks)
        /\ BlockImages \in Lists(UserBlocks, PartData)
    BY <1>4, ImagesOfUser, ShownByUser
  <2> HIDE DEF bs
  <2>2. BlockImage \in Lists(UserBlocks, PartData) /\ ResultImage \in Lists(UserBlocks, PartData)
    BY ImagesOfBlocks
  <2>3. ASSUME NEW b \in UserBlocks
        PROVE  Count(v, BlockImages[b]) = Count(v, BlockImage[b]) + Count(v, ResultImage[b])
    <3> DEFINE s == BlockImage[b]
               t == ResultImage[b]
    <3>1. s \in Seq(PartData) /\ t \in Seq(PartData)
      BY <2>2, ListOf
    <3>2. BlockImages[b] = s \o t
      BY ImagesOfBlocks DEF BlockImages
    <3> HIDE DEF s, t
    <3>3. Count(v, s \o t) = Count(v, s) + Count(v, t)
      BY <3>1, CountConcat
    <3> QED
      BY <3>2, <3>3 DEF s, t
  <2>4. Count(v, FlatMap(BlockImages, bs)) = Count(v, FlatMap(BlockImage, bs)) + Count(v, FlatMap(ResultImage, bs))
    BY <2>1, <2>2, <2>3, CountSum
  <2> DEFINE s == FlatMap(BlockImage, bs)
             t == FlatMap(ResultImage, bs)
  <2>5. s \in Seq(PartData) /\ t \in Seq(PartData)
    BY <2>1, <2>2, FlatMapType
  <2> HIDE DEF s, t
  <2>6. Count(v, s \o t) = Count(v, s) + Count(v, t)
    BY <2>5, CountConcat
  <2> QED
    BY <2>1, <2>4, <2>6 DEF s, t
<1>5. CASE m \in AssistantMessages
  <2> DEFINE bs == m.blocks
  <2>1. bs \in Seq(SaidBlocks) /\ m = Blocked("assistant", bs)
    BY <1>5 DEF AssistantMessages, Blocked
  <2> HIDE DEF bs
  <2>2. MessageTo(ImageSent)[Blocked("assistant", bs)] =
            (FlatMap(ThoughtTo(ImageSent), bs) \o FlatMap(I, SaidMessage(bs))) \o FlatMap(UseTo(ImageSent), bs)
    BY <2>1, ImageTypes, AnswerSends
  <2>3. FlatMap(ThoughtTo(ImageSent), bs) = <<>> /\ FlatMap(UseTo(ImageSent), bs) = <<>>
    BY <2>1, ImageTypes, ImagesOfItems, TakesNoThought, TakesNoUse
  <2>4. FlatMap(I, SaidMessage(bs)) = <<>>
    <3>1. SaidMessage(bs) \in Seq(SaidMessages)
      <4> DEFINE text == Joined(FlatMap(SaidText, bs))
      <4>1. text \in Texts
        BY <2>1, AssistantItems, FlatMapType, JoinedType
      <4>2. SaidMessage(bs) = IF Kept(NonBlankTexts, bs) = <<>> THEN <<>>
                              ELSE <<Message("assistant", <<Part("output_text", text)>>)>>
        BY DEF SaidMessage
      <4> HIDE DEF text
      <4> DEFINE y == Message("assistant", <<Part("output_text", text)>>)
      <4>3. y \in SaidMessages
        BY <4>1 DEF SaidMessages
      <4> HIDE DEF y
      <4>4. <<y>> \in Seq(SaidMessages) /\ <<>> \in Seq(SaidMessages)
        BY <4>3, SeqOfOne, EmptySeq
      <4> QED
        BY <4>2, <4>4 DEF y
    <3>2. SaidMessages \subseteq Items
      BY DEF Items, MessageItems
    <3> QED
      BY <3>1, <3>2, TextMessages, NothingFrom
  <2>5. (<<>> \o <<>>) \o <<>> = <<>>
    OBVIOUS
  <2>6. ShownIn[m] = <<>>
    BY <1>5, NothingShown
  <2> QED
    BY <2>1, <2>2, <2>3, <2>4, <2>5, <2>6
<1> QED
  BY <1>3, <1>4, <1>5 DEF Messages

LEMMA NoImagesBefore ==
    ASSUME NEW texts \in Systems
    PROVE  FlatMap(ImageSent, FlatMap(Normal, Preamble(texts))) = <<>>
<1> DEFINE p == Preamble(texts)
           said == ConvertSystem(texts)
           y == Message("developer", said)
<1>1. p \in Seq(Items) /\ p \in Seq(OtherMessages) /\ said \in Seq(TextParts)
  BY PreambleType
<1>2. p = <<>> \/ p = <<y>>
  BY DEF Preamble
<1>3. y.body.content = said
  BY DEF Message, InputItem
<1> HIDE DEF said, y, p
<1>4. FlatMap(ImageSent, FlatMap(Normal, p)) = FlatMap(ItemTo(ImageSent), p)
  BY <1>1, ImageTypes, SentItemwise
<1>5. CASE p = <<>>
  BY <1>4, <1>5, FlatMapEmpty DEF p
<1>6. CASE p = <<y>>
  <2>1. y \in OtherMessages
    BY <1>1, <1>6, OnlyElement
  <2>2. y \in MessageItems /\ y \in Items
    BY <2>1 DEF MessageItems, Items
  <2>3. ImageSent[NormalItem(y)] = <<>>
    BY <1>1, <1>3, <2>2, NoImages
  <2>4. FlatMap(ItemTo(ImageSent), <<y>>) = ItemTo(ImageSent)[y]
    BY <2>2, ImageTypes, ItemToType, FlatMapOne
  <2>5. ItemTo(ImageSent)[y] = <<>>
    BY <2>2, <2>3 DEF ItemTo
  <2> QED
    BY <1>4, <1>6, <2>4, <2>5 DEF p
<1> QED
  BY <1>2, <1>5, <1>6

LEMMA SentImagesAre ==
    ASSUME sent.input \in Seq(SentItems)
    PROVE  SentImages = FlatMap(ImageSent, sent.input)
<1> DEFINE input == sent.input
           w == Kept(SentMessages, input)
           Is(part) == part.type = "input_image"
           OfPart(part) == part.data
           OfItem(item) == Each(OfPart, Which(item.body.content, Is))
           A == {p \in Parts : p.type = "input_image"}
           g == [p \in Parts |-> p.data]
<1> HIDE DEF input
<1>1. input \in Seq(SentItems) /\ SentMessages \subseteq SentItems
  BY DEF SentMessages, input
<1>2. OfType(input, "message") = w
  BY <1>1, OfTypeKept DEF SentMessages
<1>3. w \in Seq(SentMessages)
  BY <1>1, MapKept
<1>4. ASSUME NEW x \in SentMessages PROVE OfItem(x) = MessageImages[x]
  <2> DEFINE parts == x.body.content
             u == Kept(A, parts)
  <2>1. parts \in Seq(Parts)
    <3>1. PICK y \in Items : x = NormalItem(y)
      BY DEF SentMessages, SentItems
    <3>2. y \in MessageItems
      BY <3>1, NormalFields DEF SentMessages, Items, ResultItems, ReasoningItems, CallItems
    <3> QED
      BY <3>1, <3>2, MessageContent
  <2> HIDE DEF parts
  <2>2. Which(parts, Is) = u
    <3>1. [i \in 1 .. Len(parts) |-> IF Is(parts[i]) THEN <<parts[i]>> ELSE <<>>]
              = [i \in 1 .. Len(parts) |-> IF parts[i] \in A THEN <<parts[i]>> ELSE <<>>]
      BY <2>1
    <3> QED
      BY <3>1 DEF Which, Kept
  <2>3. u \in Seq(A) /\ Mapped(g, u) = FlatMap(Picks(Parts, A, g), parts)
    <3>1. A \subseteq Parts
      OBVIOUS
    <3> HIDE DEF A, g
    <3> QED
      BY <2>1, <3>1, MapKept
  <2>4. OfItem(x) = [i \in 1 .. Len(u) |-> u[i].data]
    BY <2>2 DEF Each, parts
  <2>5. \A i \in 1 .. Len(u) : u[i] \in Parts
    BY <2>3
  <2> HIDE DEF u
  <2>6. OfItem(x) = Mapped(g, u)
    BY <2>4, <2>5 DEF Mapped
  <2> QED
    BY <2>3, <2>6 DEF MessageImages, PartImage, parts, u
<1> HIDE DEF w
<1>5. SentImages = FlattenSeq([i \in 1 .. Len(w) |-> OfItem(w[i])])
  BY <1>2 DEF SentImages, Each, input
<1> HIDE DEF OfItem
<1>6. [i \in 1 .. Len(w) |-> OfItem(w[i])] = [i \in 1 .. Len(w) |-> MessageImages[w[i]]]
  BY <1>3, <1>4
<1>7. SentImages = FlatMap(MessageImages, w)
  BY <1>5, <1>6 DEF FlatMap
<1>8. Spread(SentItems, SentMessages, MessageImages) \in Lists(SentItems, PartData)
  BY <1>1, ImageTypes, SpreadType
<1>9. FlatMap(MessageImages, Kept(SentMessages, input)) = FlatMap(Spread(SentItems, SentMessages, MessageImages), input)
  BY <1>1, <1>8, ImageTypes, FlatMapKept
<1> QED
  BY <1>7, <1>9 DEF ImageSent, w, input

LEMMA ShownImagesAre ==
    ASSUME messages \in Seq(Messages)
    PROVE  ShownImages = FlatMap(ShownIn, messages)
<1> DEFINE OfMessage(m) == IF m.plain THEN <<>> ELSE FlattenSeq(Each(ImagesOfBlock, m.blocks))
<1>1. ShownImages = FlattenSeq([i \in 1 .. Len(messages) |-> OfMessage(messages[i])])
  BY DEF ShownImages, Each, ImagesOfBlock
<1>2. \A m \in Messages : OfMessage(m) = ShownIn[m]
  BY DEF ShownIn, Each
<1> HIDE DEF OfMessage
<1>3. [i \in 1 .. Len(messages) |-> OfMessage(messages[i])] = [i \in 1 .. Len(messages) |-> ShownIn[messages[i]]]
  BY <1>2
<1> QED
  BY <1>1, <1>3 DEF FlatMap

LEMMA SameImages ==
    ASSUME TranscriptInv
    PROVE  ImagesAreSent
<1> SUFFICES ASSUME turn = "upstream", NEW image
             PROVE  LET Is(i) == i = image
                    IN  Len(Which(ShownImages, Is)) = Len(Which(SentImages, Is))
  BY DEF ImagesAreSent
<1>1. PICK ms \in Turns, m \in UserMessages :
          messages = Append(ms, m) /\ sent.input = SentOf(system, messages)
  BY DEF TranscriptInv
<1>2. messages \in Seq(Messages) /\ system \in Systems
  BY <1>1, AppendProperties DEF Turns, Messages, TranscriptInv
<1> DEFINE Q == MessageTo(ImageSent)
           u == FlatMap(Normal, Preamble(system))
           v == FlatMap(SendsOf, messages)
<1>3. u \in Seq(SentItems) /\ v \in Seq(SentItems) /\ sent.input = u \o v
  BY <1>1, <1>2, PreambleType, NormalType, FlatMapType DEF SentOf
<1>4. FlatMap(ImageSent, u) = <<>>
  BY <1>2, NoImagesBefore
<1>5. Q \in Lists(Messages, PartData) /\ FlatMap(ImageSent, v) = FlatMap(Q, messages)
  BY <1>2, ImageTypes, MessageToType
<1>6. \A n \in Messages : Count(image, Q[n]) = Count(image, ShownIn[n])
  BY ImagesOfMessages
<1> HIDE DEF u, v, Q
<1>7. FlatMap(ImageSent, u \o v) = FlatMap(ImageSent, u) \o FlatMap(ImageSent, v)
  BY <1>3, ImageTypes, FlatMapConcat
<1>8. FlatMap(Q, messages) \in Seq(PartData)
  BY <1>2, <1>5, FlatMapType
<1>9. u \o v \in Seq(SentItems)
  BY <1>3, ConcatType
<1>10. SentImages = FlatMap(Q, messages)
  <2>1. SentImages = FlatMap(ImageSent, sent.input)
    BY <1>3, <1>9, SentImagesAre
  <2>2. <<>> \o FlatMap(Q, messages) = FlatMap(Q, messages)
    BY <1>8
  <2> QED
    BY <1>3, <1>4, <1>5, <1>7, <2>1, <2>2
<1>11. ShownImages = FlatMap(ShownIn, messages)
  BY <1>2, ShownImagesAre
<1>12. Count(image, FlatMap(Q, messages)) = Count(image, FlatMap(ShownIn, messages))
  BY <1>2, <1>5, <1>6, ShownType, CountSame
<1>13. Count(image, ShownImages) = Count(image, SentImages)
  BY <1>10, <1>11, <1>12
<1> DEFINE Is(i) == i = image
<1>14. ASSUME NEW s PROVE Len(Which(s, Is)) = Count(image, s)
  <2>1. \A x : Is(x) <=> x \in {image}
    OBVIOUS
  <2>2. [i \in 1 .. Len(s) |-> IF Is(s[i]) THEN <<s[i]>> ELSE <<>>]
            = [i \in 1 .. Len(s) |-> IF s[i] \in {image} THEN <<s[i]>> ELSE <<>>]
    BY <2>1
  <2> QED
    BY <2>2 DEF Which, Kept, Count
<1>15. Len(Which(ShownImages, Is)) = Count(image, ShownImages)
  BY <1>14
<1>16. Len(Which(SentImages, Is)) = Count(image, SentImages)
  BY <1>14
<1> QED
  BY <1>13, <1>15, <1>16

\* convertUserMessage and convertToolResult: whatever a user or a tool shows is sent, every
\* time it is shown, the images of results in the message after them, and no other image is.
THEOREM ImagesAreKept == Spec => []ImagesAreSent
<1>1. TranscriptInv /\ [Next]_vars => TranscriptInv'
  BY TranscriptStep
<1> QED
  BY <1>1, TranscriptInit, SameImages, PTL DEF Spec

-----------------------------------------------------------------------------
(* Calls and their results *)

IsResult(x) == x.type = "function_call_output"
CallIds(s) == {s[i].call_id : i \in {k \in 1 .. Len(s) : IsUse(s[k])}}

\* Nothing but calls and results stands between a result and its call.
Follows(s) ==
    \A j \in 1 .. Len(s) : IsResult(s[j]) =>
        \E i \in 1 .. j : /\ IsUse(s[i]) /\ s[i].call_id = s[j].call_id
                          /\ \A k \in i .. j : IsUse(s[k]) \/ IsResult(s[k])
ResultOf(s, i, j) == j \in 1 .. Len(s) /\ IsResult(s[j]) /\ s[j].call_id = s[i].call_id
Once(s) ==
    \A i \in 1 .. Len(s) : IsUse(s[i]) =>
        \E j \in 1 .. Len(s) : ResultOf(s, i, j) /\ \A k \in 1 .. Len(s) : ResultOf(s, i, k) => k = j
Paired(s) == Follows(s) /\ Once(s)

LEMMA ConcatAt ==
    ASSUME NEW S, NEW s \in Seq(S), NEW t \in Seq(S)
    PROVE  /\ Len(s) \in Nat /\ Len(t) \in Nat /\ Len(s \o t) = Len(s) + Len(t)
           /\ \A i \in 1 .. Len(s) : (s \o t)[i] = s[i]
           /\ \A i \in 1 .. Len(t) : (s \o t)[Len(s) + i] = t[i]
OBVIOUS

LEMMA UseIsNoResult ==
    ASSUME NEW x
    PROVE  ~(IsUse(x) /\ IsResult(x))
BY DEF IsUse, IsResult

LEMMA CallIdsConcat ==
    ASSUME NEW S, NEW s \in Seq(S), NEW t \in Seq(S)
    PROVE  CallIds(s \o t) = CallIds(s) \cup CallIds(t)
<1> DEFINE u == s \o t
<1>1. /\ Len(s) \in Nat /\ Len(t) \in Nat /\ Len(u) = Len(s) + Len(t)
      /\ \A i \in 1 .. Len(s) : u[i] = s[i]
      /\ \A i \in 1 .. Len(t) : u[Len(s) + i] = t[i]
  BY ConcatAt
<1> HIDE DEF u
<1>2. ASSUME NEW c \in CallIds(u) PROVE c \in CallIds(s) \cup CallIds(t)
  <2>1. PICK i \in 1 .. Len(u) : IsUse(u[i]) /\ c = u[i].call_id
    BY DEF CallIds
  <2>2. CASE i <= Len(s)
    <3>1. i \in 1 .. Len(s)
      BY <1>1, <2>2
    <3> QED
      BY <1>1, <2>1, <3>1 DEF CallIds
  <2>3. CASE i > Len(s)
    <3>1. i - Len(s) \in 1 .. Len(t) /\ u[i] = t[i - Len(s)]
      <4>1. i - Len(s) \in 1 .. Len(t) /\ Len(s) + (i - Len(s)) = i
        BY <1>1, <2>3
      <4> QED
        BY <1>1, <4>1
    <3> QED
      BY <2>1, <3>1 DEF CallIds
  <2> QED
    BY <1>1, <2>2, <2>3
<1>3. ASSUME NEW c \in CallIds(s) PROVE c \in CallIds(u)
  <2>1. PICK i \in 1 .. Len(s) : IsUse(s[i]) /\ c = s[i].call_id
    BY DEF CallIds
  <2>2. i \in 1 .. Len(u) /\ u[i] = s[i]
    BY <1>1
  <2> QED
    BY <2>1, <2>2 DEF CallIds
<1>4. ASSUME NEW c \in CallIds(t) PROVE c \in CallIds(u)
  <2>1. PICK i \in 1 .. Len(t) : IsUse(t[i]) /\ c = t[i].call_id
    BY DEF CallIds
  <2>2. Len(s) + i \in 1 .. Len(u) /\ u[Len(s) + i] = t[i]
    BY <1>1
  <2> QED
    BY <2>1, <2>2 DEF CallIds
<1>5. CallIds(u) = CallIds(s) \cup CallIds(t)
  BY <1>2, <1>3, <1>4
<1> QED
  BY <1>5 DEF u

LEMMA FollowsConcat ==
    ASSUME NEW S, NEW s \in Seq(S), NEW t \in Seq(S), Follows(s), Follows(t)
    PROVE  Follows(s \o t)
<1> DEFINE u == s \o t
           n == Len(s)
<1>1. /\ n \in Nat /\ Len(t) \in Nat /\ Len(u) = n + Len(t)
      /\ \A i \in 1 .. n : u[i] = s[i]
      /\ \A i \in 1 .. Len(t) : u[n + i] = t[i]
  BY ConcatAt
<1> HIDE DEF u
<1>2. ASSUME NEW j \in 1 .. Len(u), IsResult(u[j])
      PROVE  \E i \in 1 .. j : /\ IsUse(u[i]) /\ u[i].call_id = u[j].call_id
                               /\ \A k \in i .. j : IsUse(u[k]) \/ IsResult(u[k])
  <2>1. CASE j <= n
    <3>1. j \in 1 .. n /\ u[j] = s[j]
      BY <1>1, <2>1
    <3>2. PICK i \in 1 .. j : /\ IsUse(s[i]) /\ s[i].call_id = s[j].call_id
                              /\ \A k \in i .. j : IsUse(s[k]) \/ IsResult(s[k])
      BY <1>2, <3>1 DEF Follows
    <3>3. \A k \in i .. j : u[k] = s[k]
      BY <1>1, <3>1
    <3>4. u[i] = s[i]
      BY <1>1, <3>1
    <3> QED
      BY <3>1, <3>2, <3>3, <3>4
  <2>2. CASE j > n
    <3> DEFINE l == j - n
    <3>1. l \in 1 .. Len(t) /\ n + l = j
      BY <1>1, <2>2
    <3>2. u[j] = t[l]
      BY <1>1, <3>1
    <3> HIDE DEF l
    <3>3. PICK i \in 1 .. l : /\ IsUse(t[i]) /\ t[i].call_id = t[l].call_id
                              /\ \A k \in i .. l : IsUse(t[k]) \/ IsResult(t[k])
      BY <1>2, <3>1, <3>2 DEF Follows
    <3>4. n + i \in 1 .. j /\ i \in 1 .. Len(t)
      BY <1>1, <3>1
    <3>5. u[n + i] = t[i]
      BY <1>1, <3>4
    <3>6. ASSUME NEW k \in n + i .. j PROVE IsUse(u[k]) \/ IsResult(u[k])
      <4>1. k - n \in i .. l /\ k - n \in 1 .. Len(t) /\ n + (k - n) = k
        BY <1>1, <3>1
      <4>2. u[k] = t[k - n]
        BY <1>1, <4>1
      <4> QED
        BY <3>3, <4>1, <4>2
    <3> QED
      BY <3>2, <3>3, <3>4, <3>5, <3>6
  <2> QED
    BY <1>1, <2>1, <2>2
<1>3. Follows(u)
  BY <1>2 DEF Follows
<1> QED
  BY <1>3 DEF u

LEMMA ResultHasCall ==
    ASSUME NEW S, NEW s \in Seq(S), Follows(s), NEW j \in 1 .. Len(s), IsResult(s[j])
    PROVE  s[j].call_id \in CallIds(s)
<1>1. PICK i \in 1 .. j : IsUse(s[i]) /\ s[i].call_id = s[j].call_id
  BY DEF Follows
<1>2. i \in 1 .. Len(s)
  BY Len(s) \in Nat
<1> QED
  BY <1>1, <1>2 DEF CallIds

LEMMA OnceConcat ==
    ASSUME NEW S, NEW s \in Seq(S), NEW t \in Seq(S), Paired(s), Paired(t), CallIds(s) \cap CallIds(t) = {}
    PROVE  Once(s \o t)
<1> DEFINE u == s \o t
           n == Len(s)
<1>1. /\ n \in Nat /\ Len(t) \in Nat /\ Len(u) = n + Len(t)
      /\ \A i \in 1 .. n : u[i] = s[i]
      /\ \A i \in 1 .. Len(t) : u[n + i] = t[i]
  BY ConcatAt
<1> HIDE DEF u
<1>2. ASSUME NEW k \in 1 .. Len(u)
      PROVE  \/ k \in 1 .. n /\ u[k] = s[k]
             \/ k - n \in 1 .. Len(t) /\ n + (k - n) = k /\ u[k] = t[k - n]
  <2>1. k > n => k - n \in 1 .. Len(t) /\ n + (k - n) = k
    BY <1>1
  <2>2. k > n => u[k] = t[k - n]
    BY <1>1, <2>1
  <2> QED
    BY <1>1, <2>1, <2>2
<1>3. ASSUME NEW k \in 1 .. Len(u), IsResult(u[k]), ~(k \in 1 .. n /\ u[k] = s[k])
      PROVE  u[k].call_id \in CallIds(t)
  BY <1>2, <1>3, ResultHasCall DEF Paired
<1>4. ASSUME NEW k \in 1 .. Len(u), IsResult(u[k]), ~(k - n \in 1 .. Len(t) /\ n + (k - n) = k /\ u[k] = t[k - n])
      PROVE  u[k].call_id \in CallIds(s)
  BY <1>2, <1>4, ResultHasCall DEF Paired
<1>5. ASSUME NEW i \in 1 .. Len(u), IsUse(u[i])
      PROVE  \E j \in 1 .. Len(u) : ResultOf(u, i, j) /\ \A k \in 1 .. Len(u) : ResultOf(u, i, k) => k = j
  <2>1. CASE i \in 1 .. n /\ u[i] = s[i]
    <3>1. PICK j \in 1 .. n : ResultOf(s, i, j) /\ \A k \in 1 .. n : ResultOf(s, i, k) => k = j
      BY <1>5, <2>1 DEF Paired, Once
    <3>2. u[i].call_id \in CallIds(s)
      BY <1>5, <2>1 DEF CallIds
    <3>3. j \in 1 .. Len(u) /\ ResultOf(u, i, j)
      BY <1>1, <2>1, <3>1 DEF ResultOf
    <3>4. ASSUME NEW k \in 1 .. Len(u), ResultOf(u, i, k) PROVE k = j
      <4>1. k \in 1 .. n /\ u[k] = s[k]
        BY <1>3, <3>2, <3>4 DEF ResultOf
      <4>2. ResultOf(s, i, k)
        BY <2>1, <3>4, <4>1 DEF ResultOf
      <4> QED
        BY <3>1, <4>1, <4>2
    <3> QED
      BY <3>3, <3>4
  <2>2. CASE i - n \in 1 .. Len(t) /\ n + (i - n) = i /\ u[i] = t[i - n]
    <3> DEFINE p == i - n
    <3> HIDE DEF p
    <3>0. p \in 1 .. Len(t) /\ n + p = i /\ u[i] = t[p]
      BY <2>2 DEF p
    <3>1. PICK q \in 1 .. Len(t) : ResultOf(t, p, q) /\ \A k \in 1 .. Len(t) : ResultOf(t, p, k) => k = q
      BY <1>5, <3>0 DEF Paired, Once
    <3>2. u[i].call_id \in CallIds(t)
      BY <1>5, <3>0 DEF CallIds
    <3>3. n + q \in 1 .. Len(u) /\ u[n + q] = t[q]
      BY <1>1
    <3>4. ResultOf(u, i, n + q)
      BY <3>0, <3>1, <3>3 DEF ResultOf
    <3>5. ASSUME NEW k \in 1 .. Len(u), ResultOf(u, i, k) PROVE k = n + q
      <4>1. k - n \in 1 .. Len(t) /\ n + (k - n) = k /\ u[k] = t[k - n]
        BY <1>4, <3>2, <3>5 DEF ResultOf
      <4>2. ResultOf(t, p, k - n)
        BY <3>0, <3>5, <4>1 DEF ResultOf
      <4>3. k - n = q
        BY <3>1, <4>1, <4>2
      <4> QED
        BY <4>1, <4>3
    <3> QED
      BY <3>3, <3>4, <3>5
  <2> QED
    BY <1>2, <2>1, <2>2
<1>6. Once(u)
  BY <1>5 DEF Once
<1> QED
  BY <1>6 DEF u

\* Two parts of Input whose calls have different ids.
LEMMA PairedConcat ==
    ASSUME NEW S, NEW s \in Seq(S), NEW t \in Seq(S), Paired(s), Paired(t), CallIds(s) \cap CallIds(t) = {}
    PROVE  Paired(s \o t)
BY FollowsConcat, OnceConcat DEF Paired

LEMMA NothingToPair ==
    ASSUME NEW S, NEW s \in Seq(S), \A x \in S : ~IsUse(x) /\ ~IsResult(x)
    PROVE  Paired(s) /\ CallIds(s) = {}
<1>1. \A i \in 1 .. Len(s) : ~IsUse(s[i]) /\ ~IsResult(s[i])
  BY ElementOf
<1> QED
  BY <1>1 DEF Paired, Follows, Once, CallIds

\* An order of n things is one of all of them.
LEMMA OrderIsOnto ==
    ASSUME NEW n \in Nat, NEW order \in Orders(n)
    PROVE  /\ \A p \in 1 .. n : order[p] \in 1 .. n
           /\ \A p, q \in 1 .. n : order[p] = order[q] => p = q
           /\ \A q \in 1 .. n : \E p \in 1 .. n : order[p] = q
<1> DEFINE N == 1 .. n
<1>1. order \in [N -> N] /\ IsInjective(order)
  BY DEF Orders
<1>2. \A p, q \in N : order[p] = order[q] => p = q
  BY <1>1 DEF IsInjective
<1>3. IsFiniteSet(N)
  BY FS_Interval
<1>4. ASSUME NEW q \in N, \A p \in N : order[p] # q PROVE FALSE
  <2> DEFINE M == N \ {q}
  <2>1. order \in [N -> M]
    BY <1>1, <1>4
  <2>2. IsFiniteSet(M) /\ Cardinality(M) = Cardinality(N) - 1 /\ Cardinality(N) \in Nat
    BY <1>3, FS_RemoveElement, FS_CardinalityType
  <2>3. Cardinality(M) < Cardinality(N)
    BY <2>2
  <2> HIDE DEF M, N
  <2>4. \E x, y \in N : x # y /\ order[x] = order[y]
    BY <1>3, <2>1, <2>2, <2>3, FS_PigeonHole
  <2> QED
    BY <1>2, <2>4
<1> QED
  BY <1>1, <1>2, <1>4

LEMMA ConcatHalves ==
    ASSUME NEW S, NEW s \in Seq(S), NEW t \in Seq(S), Len(t) = Len(s)
    PROVE  /\ Len(s) \in Nat /\ Len(s \o t) = Len(s) + Len(s)
           /\ \A i \in 1 .. Len(s) : (s \o t)[i] = s[i]
           /\ \A i \in 1 .. Len(s) : (s \o t)[Len(s) + i] = t[i]
BY ConcatAt

\* Calls and their results, in any order.
LEMMA CallsAndResults ==
    ASSUME NEW S, NEW c \in Seq(S), NEW o \in Seq(S), Len(o) = Len(c),
           \A i \in 1 .. Len(c) : IsUse(c[i]),
           \A i \in 1 .. Len(o) : IsResult(o[i]),
           NEW order \in Orders(Len(c)),
           \A i \in 1 .. Len(o) : o[i].call_id = c[order[i]].call_id,
           \A i, j \in 1 .. Len(c) : c[i].call_id = c[j].call_id => i = j
    PROVE  Paired(c \o o) /\ CallIds(c \o o) = {c[i].call_id : i \in 1 .. Len(c)}
<1> DEFINE u == c \o o
           n == Len(c)
<1>1. /\ n \in Nat /\ Len(o) = n /\ Len(u) = n + n
      /\ \A i \in 1 .. n : u[i] = c[i]
      /\ \A i \in 1 .. n : u[n + i] = o[i]
  BY ConcatHalves
<1>2. /\ \A p \in 1 .. n : order[p] \in 1 .. n
      /\ \A p, q \in 1 .. n : order[p] = order[q] => p = q
      /\ \A q \in 1 .. n : \E p \in 1 .. n : order[p] = q
  BY <1>1, OrderIsOnto
<1> HIDE DEF u
<1>3. ASSUME NEW k \in 1 .. Len(u)
      PROVE  \/ k \in 1 .. n /\ u[k] = c[k] /\ IsUse(u[k]) /\ ~IsResult(u[k])
             \/ k > n /\ k - n \in 1 .. n /\ n + (k - n) = k /\ u[k] = o[k - n] /\ IsResult(u[k]) /\ ~IsUse(u[k])
  <2>1. CASE k <= n
    <3>1. k \in 1 .. n
      BY <1>1, <2>1
    <3> QED
      BY <1>1, <3>1, UseIsNoResult
  <2>2. CASE k > n
    <3>1. k - n \in 1 .. n /\ n + (k - n) = k
      BY <1>1, <2>2
    <3>2. u[k] = o[k - n]
      BY <1>1, <3>1
    <3> QED
      BY <1>1, <2>2, <3>1, <3>2, UseIsNoResult
  <2> QED
    BY <1>1, <2>1, <2>2
<1>4. ASSUME NEW j \in 1 .. Len(u), IsResult(u[j])
      PROVE  \E i \in 1 .. j : /\ IsUse(u[i]) /\ u[i].call_id = u[j].call_id
                               /\ \A k \in i .. j : IsUse(u[k]) \/ IsResult(u[k])
  <2> DEFINE p == j - n
             i == order[p]
  <2>1. j > n /\ p \in 1 .. n /\ u[j] = o[p]
    BY <1>3, <1>4
  <2>2. i \in 1 .. n
    BY <1>2, <2>1
  <2> HIDE DEF i, p
  <2>3. u[i] = c[i] /\ IsUse(u[i])
    BY <1>1, <2>2
  <2>4. u[i].call_id = u[j].call_id
    BY <1>1, <2>1, <2>3 DEF i
  <2>5. i \in 1 .. j
    BY <1>1, <2>1, <2>2
  <2>6. \A k \in i .. j : k \in 1 .. Len(u)
    BY <1>1, <2>5
  <2> QED
    BY <1>3, <2>3, <2>4, <2>5, <2>6
<1>5. ASSUME NEW i \in 1 .. Len(u), IsUse(u[i])
      PROVE  \E j \in 1 .. Len(u) : ResultOf(u, i, j) /\ \A k \in 1 .. Len(u) : ResultOf(u, i, k) => k = j
  <2>1. i \in 1 .. n /\ u[i] = c[i]
    BY <1>3, <1>5
  <2>2. PICK p \in 1 .. n : order[p] = i
    BY <1>2, <2>1
  <2>3. n + p \in 1 .. Len(u) /\ u[n + p] = o[p]
    BY <1>1
  <2>4. ResultOf(u, i, n + p)
    BY <1>1, <2>1, <2>2, <2>3 DEF ResultOf
  <2>5. ASSUME NEW k \in 1 .. Len(u), ResultOf(u, i, k) PROVE k = n + p
    <3> DEFINE q == k - n
    <3>1. q \in 1 .. n /\ n + q = k /\ u[k] = o[q]
      BY <1>3, <2>5 DEF ResultOf
    <3> HIDE DEF q
    <3>2. c[order[q]].call_id = c[i].call_id
      BY <1>1, <2>1, <2>5, <3>1 DEF ResultOf
    <3>3. order[q] \in 1 .. n
      BY <1>2, <3>1
    <3>4. order[q] = i
      BY <2>1, <3>2, <3>3
    <3>5. q = p
      BY <1>2, <2>2, <3>1, <3>4
    <3> QED
      BY <3>1, <3>5
  <2> QED
    BY <2>3, <2>4, <2>5
<1>6. CallIds(u) = {c[i].call_id : i \in 1 .. n}
  <2>1. ASSUME NEW id \in CallIds(u) PROVE \E i \in 1 .. n : id = c[i].call_id
    <3>1. PICK i \in 1 .. Len(u) : IsUse(u[i]) /\ id = u[i].call_id
      BY DEF CallIds
    <3>2. i \in 1 .. n /\ u[i] = c[i]
      BY <1>3, <3>1
    <3> QED
      BY <3>1, <3>2
  <2>2. ASSUME NEW i \in 1 .. n PROVE c[i].call_id \in CallIds(u)
    <3>1. i \in 1 .. Len(u) /\ u[i] = c[i]
      BY <1>1
    <3> QED
      BY <3>1 DEF CallIds
  <2> QED
    BY <2>1, <2>2
<1>7. Paired(u)
  BY <1>4, <1>5 DEF Paired, Follows, Once
<1> QED
  BY <1>6, <1>7 DEF u

\* Items that are neither.
Quiet == {NormalItem(x) : x \in MessageItems \cup ReasoningItems}

LEMMA NormalSeq ==
    ASSUME NEW C, C \subseteq Items, NEW s \in Seq(C)
    PROVE  /\ FlatMap(Normal, s) = [i \in 1 .. Len(s) |-> NormalItem(s[i])]
           /\ FlatMap(Normal, s) \in Seq({NormalItem(x) : x \in C})
           /\ Len(FlatMap(Normal, s)) = Len(s)
<1> DEFINE g == [x \in Items |-> NormalItem(x)]
<1>1. s \in Seq(Items)
  BY SeqSubset
<1>2. Normal = [x \in Items |-> <<g[x]>>]
  BY DEF Normal
<1>3. \A i \in 1 .. Len(s) : s[i] \in C /\ g[s[i]] = NormalItem(s[i])
  BY ElementOf
<1> HIDE DEF g
<1>4. FlatMap(Normal, s) = Mapped(g, s)
  BY <1>1, <1>2, MapIsFlatMap
<1>5. FlatMap(Normal, s) = [i \in 1 .. Len(s) |-> NormalItem(s[i])]
  BY <1>3, <1>4 DEF Mapped
<1>6. \A i \in 1 .. Len(s) : NormalItem(s[i]) \in {NormalItem(x) : x \in C}
  BY <1>3
<1>7. Len(s) \in Nat
  OBVIOUS
<1> DEFINE N == {NormalItem(x) : x \in C}
           f == [i \in 1 .. Len(s) |-> NormalItem(s[i])]
<1>8. f \in [1 .. Len(s) -> N]
  BY <1>6
<1> HIDE DEF f, N
<1>9. f \in Seq(N) /\ Len(f) = Len(s)
  BY <1>7, <1>8, SeqOfFunction
<1> QED
  BY <1>5, <1>9 DEF f, N

LEMMA QuietItems ==
    /\ Quiet \subseteq SentItems
    /\ \A x \in Quiet : ~IsUse(x) /\ ~IsResult(x)
<1>1. \A x \in MessageItems : NormalItem(x).type = "message"
  BY NormalFields
<1>2. \A x \in ReasoningItems : NormalItem(x).type = "reasoning"
  BY NormalFields DEF ReasoningItems
<1> QED
  BY <1>1, <1>2 DEF Quiet, SentItems, Items, IsUse, IsResult

LEMMA ResultFields ==
    ASSUME NEW b \in ResultBlocks
    PROVE  /\ IsResult(NormalItem(OutputItem(b)))
           /\ NormalItem(OutputItem(b)).call_id = CompactCallID(b.id)
           /\ NormalItem(OutputItem(b)) \in SentItems
<1>1. OutputItem(b).id = NoId /\ OutputItem(b).call_id = b.id /\ OutputItem(b).type = "function_call_output"
  BY DEF OutputItem, InputItem
<1> DEFINE x == OutputItem(b)
<1>2. DOMAIN x = {"type", "call_id", "id", "name", "body"}
  BY DEF OutputItem, InputItem
<1> HIDE DEF x
<1>3. NormalItem(x).call_id = CompactCallID(IF x.call_id = NoId THEN x.id ELSE x.call_id)
      /\ NormalItem(x).type = x.type
  BY <1>1, <1>2 DEF NormalItem, OutputTypes, x
<1>4. NormalItem(x) \in SentItems
  BY DEF x, SentItems, Items, ResultItems
<1> QED
  BY <1>1, <1>3, <1>4 DEF x, IsResult

LEMMA UseFields ==
    ASSUME NEW b \in UseBlocks
    PROVE  /\ IsUse(NormalItem(CallItem(b)))
           /\ NormalItem(CallItem(b)).call_id = CompactCallID(b.id)
           /\ NormalItem(CallItem(b)) \in SentItems
BY NormalFields DEF IsUse, SentItems, Items, CallItems

\* What is sent of an answer: its calls last.
Uses(m) == Kind(m.blocks, "tool_use")
SentCallsOf(calls) == [i \in 1 .. Len(calls) |-> NormalItem(CallItem(calls[i]))]

LEMMA AnswerEndsWithCalls ==
    ASSUME NEW m \in AssistantMessages
    PROVE  /\ Uses(m) \in Seq(UseBlocks)
           /\ \E r \in Seq(Quiet) : SendsOf[m] = r \o SentCallsOf(Uses(m))
<1> DEFINE bs == m.blocks
           A == FlatMap(SentThinking, bs)
           B == SaidMessage(bs)
           D == FlatMap(SentUses, bs)
           calls == Kept(UseBlocks, bs)
           g == [b \in SaidBlocks |-> CallItem(b)]
<1>1. m \in Messages /\ bs \in Seq(SaidBlocks) /\ ConvertMessage(m) = ConvertAssistantMessage(bs)
  BY AssistantMessageItems DEF Messages
<1> HIDE DEF bs
<1>2. /\ ConvertAssistantMessage(bs) = (A \o B) \o D
      /\ A \in Seq(ReasoningItems) /\ B \in Seq(MessageItems) /\ D \in Seq(CallItems)
  BY <1>1, AssistantItems
<1>3. UseBlocks \subseteq SaidBlocks
  BY DEF SaidBlocks
<1>4. calls \in Seq(UseBlocks) /\ Mapped(g, calls) = FlatMap(Picks(SaidBlocks, UseBlocks, g), bs)
  <2> HIDE DEF g
  <2> QED
    BY <1>1, <1>3, MapKept
<1>5. D = Mapped(g, calls)
  BY <1>4 DEF SentUses
<1>6. Uses(m) = calls
  BY <1>1, SaidKept DEF Uses, bs
<1> HIDE DEF calls
<1>7. /\ Len(D) = Len(calls) /\ Len(calls) \in Nat
      /\ \A i \in 1 .. Len(calls) : D[i] = CallItem(calls[i])
  <2>1. \A i \in 1 .. Len(calls) : g[calls[i]] = CallItem(calls[i])
    BY <1>3, <1>4, ElementOf
  <2> HIDE DEF g, D
  <2> QED
    BY <1>4, <1>5, <2>1 DEF Mapped
<1> DEFINE M == MessageItems \cup ReasoningItems
           AB == A \o B
<1>8. AB \in Seq(M)
  <2>1. A \in Seq(M) /\ B \in Seq(M)
    <3> HIDE DEF A, B
    <3> QED
      BY <1>2, SeqSubset
  <2> HIDE DEF A, B, M
  <2> QED
    BY <2>1, ConcatType
<1>9. M \subseteq Items /\ CallItems \subseteq Items
  BY DEF Items
<1> HIDE DEF A, B, D, M, AB
<1>10. Convert[m] = AB \o D
  BY <1>1, <1>2 DEF Convert, AB
<1>11. AB \in Seq(Items) /\ D \in Seq(Items)
  BY <1>2, <1>8, <1>9, SeqSubset
<1>12. SendsOf[m] = FlatMap(Normal, AB \o D)
  <2>1. SendsOf[m] = FlatMap(Normal, Convert[m])
    BY <1>1, ComposedAt DEF SendsOf
  <2> QED
    BY <1>10, <2>1
<1>13. FlatMap(Normal, AB \o D) = FlatMap(Normal, AB) \o FlatMap(Normal, D)
  BY <1>11, NormalType, FlatMapConcat
<1>14. FlatMap(Normal, AB) \in Seq({NormalItem(x) : x \in M})
  BY <1>8, <1>9, NormalSeq
<1>15. FlatMap(Normal, D) = SentCallsOf(calls)
  <2>1. FlatMap(Normal, D) = [i \in 1 .. Len(D) |-> NormalItem(D[i])]
    BY <1>2, <1>9, NormalSeq
  <2> QED
    BY <1>7, <2>1 DEF SentCallsOf
<1>16. FlatMap(Normal, AB) \in Seq(Quiet)
  BY <1>14 DEF Quiet, M
<1> QED
  BY <1>4, <1>6, <1>12, <1>13, <1>15, <1>16

\* What is sent of a user's message: the results first, in the order the client gives.
SentResults(results) == [i \in 1 .. Len(results) |-> NormalItem(OutputItem(results[i]))]

LEMMA OthersAreQuiet ==
    ASSUME NEW c \in Seq(OtherMessages)
    PROVE  FlatMap(Normal, c) \in Seq(Quiet) /\ c \in Seq(Items)
<1>1. OtherMessages \subseteq Items /\ {NormalItem(x) : x \in OtherMessages} \subseteq Quiet
  BY DEF Items, MessageItems, Quiet
<1>2. FlatMap(Normal, c) \in Seq({NormalItem(x) : x \in OtherMessages})
  BY <1>1, NormalSeq
<1> QED
  BY <1>1, <1>2, SeqSubset

LEMMA SendsAt ==
    ASSUME NEW m \in Messages
    PROVE  SendsOf[m] = FlatMap(Normal, ConvertMessage(m))
<1>1. SendsOf[m] = FlatMap(Normal, Convert[m])
  BY ComposedAt DEF SendsOf
<1> QED
  BY <1>1 DEF Convert

LEMMA BlocksSend ==
    ASSUME NEW bs \in Seq(UserBlocks), NEW results \in Seq(ResultBlocks), Kept(ResultBlocks, bs) = results
    PROVE  \E t \in Seq(Quiet) : SendsOf[Blocked("user", bs)] = SentResults(results) \o t
<1> DEFINE m == Blocked("user", bs)
           g == [b \in UserBlocks |-> OutputItem(b)]
           R == FlatMap(ResultItem, bs)
           O == ShownMessage(bs)
<1>1. m \in Messages /\ ConvertMessage(m) = ConvertUserMessage(bs)
  BY DEF Messages, UserMessages, Blocked, ConvertMessage
<1>2. ConvertUserMessage(bs) = R \o O /\ R \in Seq(ResultItems) /\ O \in Seq(OtherMessages)
  BY UserItems
<1>3. ResultBlocks \subseteq UserBlocks
  BY DEF UserBlocks
<1>4. Mapped(g, Kept(ResultBlocks, bs)) = FlatMap(Picks(UserBlocks, ResultBlocks, g), bs)
  <2> HIDE DEF g
  <2> QED
    BY <1>3, MapKept
<1>5. R = Mapped(g, results)
  BY <1>4 DEF ResultItem
<1>6. /\ Len(R) = Len(results) /\ Len(results) \in Nat
      /\ \A i \in 1 .. Len(results) : R[i] = OutputItem(results[i])
  <2>1. \A i \in 1 .. Len(results) : g[results[i]] = OutputItem(results[i])
    BY <1>3, ElementOf
  <2> HIDE DEF g, R
  <2> QED
    BY <1>5, <2>1 DEF Mapped
<1>7. ResultItems \subseteq Items
  BY DEF Items
<1> HIDE DEF m, R, O
<1>8. R \in Seq(Items) /\ O \in Seq(Items) /\ FlatMap(Normal, O) \in Seq(Quiet)
  BY <1>2, <1>7, SeqSubset, OthersAreQuiet
<1>9. FlatMap(Normal, R \o O) = FlatMap(Normal, R) \o FlatMap(Normal, O)
  BY <1>8, NormalType, FlatMapConcat
<1>10. FlatMap(Normal, R) = SentResults(results)
  <2>1. FlatMap(Normal, R) = [i \in 1 .. Len(R) |-> NormalItem(R[i])]
    BY <1>2, <1>7, NormalSeq
  <2> QED
    BY <1>6, <2>1 DEF SentResults
<1>11. SendsOf[m] = FlatMap(Normal, R \o O)
  BY <1>1, <1>2, SendsAt
<1> QED
  BY <1>8, <1>9, <1>10, <1>11 DEF m

LEMMA NoResultsShown ==
    ASSUME NEW bs \in Seq(ShownBlocks)
    PROVE  bs \in Seq(UserBlocks) /\ Kept(ResultBlocks, bs) = <<>>
<1>1. ShownBlocks \subseteq UserBlocks
  BY DEF UserBlocks
<1>2. ASSUME NEW b \in ShownBlocks PROVE b \notin ResultBlocks
  <2>1. b.kind # "tool_result"
    BY DEF ShownBlocks
  <2> QED
    BY <1>1, <2>1, UserKinds
<1>3. ResultBlocks \cap ShownBlocks = {}
  BY <1>2
<1> QED
  BY <1>1, <1>3, SeqSubset, KeptNone

LEMMA ReplySends ==
    ASSUME messages \in Turns, NEW message \in Replies
    PROVE  \E order \in Orders(Len(OpenCalls)) : \E results \in Seq(ResultBlocks) : \E t \in Seq(Quiet) :
               /\ SendsOf[message] = SentResults(results) \o t
               /\ Len(results) = Len(OpenCalls)
               /\ \A i \in 1 .. Len(results) : results[i].id = OpenCalls[order[i]].id
<1>1. message \in UserMessages /\ OpenCalls \in Seq(UseBlocks)
  BY RepliesType, OpenCallsType
<1>2. CASE OpenCalls = <<>>
  <2>1. <<>> \in Seq(ResultBlocks) /\ Len(<<>>) = 0
    BY EmptySeq
  <2>2. <<>> \in Orders(0)
    BY DEF Orders, IsInjective
  <2>3. \E t \in Seq(Quiet) : SendsOf[message] = SentResults(<<>>) \o t
    <3>1. CASE \E extra \in Extras : message = Blocked("user", extra)
      <4>1. PICK extra \in Extras : message = Blocked("user", extra)
        BY <3>1
      <4>2. extra \in Seq(ShownBlocks)
        BY ClientAssumption
      <4>3. extra \in Seq(UserBlocks) /\ Kept(ResultBlocks, extra) = <<>>
        BY <4>2, NoResultsShown
      <4> QED
        BY <2>1, <4>1, <4>3, BlocksSend
    <3>2. CASE \E fragment \in TextFragments : message = Plain("user", <<fragment>>)
      <4> DEFINE c == <<Message("user", <<Part("input_text", message.text)>>)>>
      <4>1. message \in Messages /\ message.plain /\ message.role = "user"
        BY <1>1, <3>2 DEF Messages, Plain
      <4>2. ConvertMessage(message) = c /\ message.text \in Seq(TextFragments)
        BY <1>1, <4>1, UserMessageItems
      <4>3. Part("input_text", message.text) \in Parts
        BY <4>2, TextsAreTexts DEF Parts, TextParts
      <4>4. Message("user", <<Part("input_text", message.text)>>) \in OtherMessages
        <5> DEFINE parts == <<Part("input_text", message.text)>>
        <5>1. parts \in Seq(Parts)
          BY <4>3, SeqOfOne
        <5> HIDE DEF parts
        <5>2. Message("user", parts) \in OtherMessages
          BY <5>1 DEF OtherMessages
        <5> QED
          BY <5>2 DEF parts
      <4>5. c \in Seq(OtherMessages)
        BY <4>4, SeqOfOne
      <4> HIDE DEF c
      <4>6. SendsOf[message] = FlatMap(Normal, c) /\ FlatMap(Normal, c) \in Seq(Quiet)
        BY <4>1, <4>2, <4>5, SendsAt, OthersAreQuiet
      <4>7. SentResults(<<>>) = <<>>
        BY DEF SentResults
      <4>8. SendsOf[message] = <<>> \o FlatMap(Normal, c)
        BY <4>6
      <4> QED
        BY <4>6, <4>7, <4>8
    <3>3. message \in {Blocked("user", extra) : extra \in Extras \ {<<>>}}
                     \cup {Plain("user", <<fragment>>) : fragment \in TextFragments}
      BY <1>2 DEF Replies
    <3> QED
      BY <3>1, <3>2, <3>3
  <2>4. Len(OpenCalls) = 0
    BY <1>2
  <2>5. \A i \in 1 .. Len(<<>>) : FALSE
    OBVIOUS
  <2> QED
    BY <2>1, <2>2, <2>3, <2>4, <2>5
<1>3. CASE OpenCalls # <<>>
  <2>1. PICK before \in Extras, after \in Extras,
             order \in Orders(Len(OpenCalls)), contents \in [1 .. Len(OpenCalls) -> ResultContents] :
             message = Blocked("user", before \o Results(order, contents) \o after)
    BY <1>3 DEF Replies
  <2> DEFINE results == Results(order, contents)
             bs == (before \o results) \o after
  <2>2. before \in Seq(ShownBlocks) /\ after \in Seq(ShownBlocks)
    BY ClientAssumption
  <2>3. results \in Seq(ResultBlocks)
    BY ResultsType
  <2>4. /\ Len(results) = Len(OpenCalls)
        /\ \A i \in 1 .. Len(results) : results[i].id = OpenCalls[order[i]].id
    BY <1>1 DEF Results, ToolResult
  <2> HIDE DEF results
  <2>5. /\ before \in Seq(UserBlocks) /\ Kept(ResultBlocks, before) = <<>>
        /\ after \in Seq(UserBlocks) /\ Kept(ResultBlocks, after) = <<>>
    BY <2>2, NoResultsShown
  <2>6. results \in Seq(UserBlocks) /\ Kept(ResultBlocks, results) = results
    <3>1. ResultBlocks \subseteq UserBlocks
      BY DEF UserBlocks
    <3> QED
      BY <2>3, <3>1, SeqSubset, KeptAll
  <2>8. bs \in Seq(UserBlocks) /\ Kept(ResultBlocks, bs) = results
    <3>0. before \in Seq(UserBlocks) /\ results \in Seq(UserBlocks) /\ after \in Seq(UserBlocks)
      BY <2>5, <2>6
    <3> DEFINE begun == before \o results
    <3>1. begun \in Seq(UserBlocks)
      BY <3>0
    <3>4. Kept(ResultBlocks, begun) = Kept(ResultBlocks, before) \o Kept(ResultBlocks, results)
      BY <3>0, KeptConcat
    <3> HIDE DEF begun
    <3>8. after \in Seq(UserBlocks)
      BY <3>0
    <3>5. begun \o after \in Seq(UserBlocks)
      BY <3>1, <3>8, ConcatType
    <3>6. Kept(ResultBlocks, begun \o after) = Kept(ResultBlocks, begun) \o Kept(ResultBlocks, after)
      BY <3>1, <3>8, KeptConcat
    <3>7. bs = begun \o after
      BY DEF begun
    <3>2. (<<>> \o results) \o <<>> = results
      BY <2>3
    <3>3. Kept(ResultBlocks, begun) \o Kept(ResultBlocks, after) = (<<>> \o results) \o <<>>
      BY <2>5, <2>6, <3>4
    <3> HIDE DEF bs
    <3> QED
      BY <3>2, <3>3, <3>5, <3>6, <3>7
  <2>9. message = Blocked("user", bs)
    BY <2>1 DEF results
  <2> HIDE DEF bs
  <2>10. \E t \in Seq(Quiet) : SendsOf[message] = SentResults(results) \o t
    BY <2>3, <2>8, <2>9, BlocksSend
  <2> QED
    BY <2>3, <2>4, <2>10
<1> QED
  BY <1>2, <1>3

\* Sequences without repetition.
Distinct(s) == \A i, j \in 1 .. Len(s) : s[i] = s[j] => i = j

LEMMA DistinctOneMore ==
    ASSUME NEW S, NEW s \in Seq(S), NEW x \in S, Distinct(s), x \notin Elements(s)
    PROVE  Distinct(s \o <<x>>)
<1> DEFINE u == s \o <<x>>
<1>1. /\ Len(s) \in Nat /\ Len(u) = Len(s) + 1
      /\ \A i \in 1 .. Len(s) : u[i] = s[i]
      /\ u[Len(s) + 1] = x
  OBVIOUS
<1> HIDE DEF u
<1>2. \A i \in 1 .. Len(u) : i \in 1 .. Len(s) \/ i = Len(s) + 1
  BY <1>1
<1>3. \A i \in 1 .. Len(s) : s[i] # x
  BY DEF Elements
<1>4. Distinct(u)
  BY <1>1, <1>2, <1>3 DEF Distinct
<1> QED
  BY <1>4 DEF u

\* What a filter keeps of elements that g tells apart.
LEMMA DistinctPicks ==
    ASSUME NEW S, NEW A, A \subseteq S, NEW g, NEW s \in Seq(S),
           \A i, j \in 1 .. Len(s) : s[i] \in A /\ s[j] \in A /\ g[s[i]] = g[s[j]] => i = j
    PROVE  Distinct(FlatMap(Picks(S, A, g), s))
<1> DEFINE T == {g[x] : x \in S}
           h == Picks(S, A, g)
           Apart(u) == \A i, j \in 1 .. Len(u) : u[i] \in A /\ u[j] \in A /\ g[u[i]] = g[u[j]] => i = j
           P == {u \in Seq(S) : Apart(u) => Distinct(FlatMap(h, u))}
<1>1. h \in Lists(S, T)
  <2>1. \A x \in A : g[x] \in T
    OBVIOUS
  <2> HIDE DEF T
  <2> QED
    BY <2>1, PicksType
<1>2. /\ \A x \in S : x \in A => h[x] = <<g[x]>>
      /\ \A x \in S : x \notin A => h[x] = <<>>
  BY DEF Picks
<1> HIDE DEF h, T
<1>3. <<>> \in P
  <2>1. <<>> \in Seq(S) /\ FlatMap(h, <<>>) = <<>>
    BY EmptySeq, FlatMapEmpty
  <2>2. Distinct(<<>>)
    BY DEF Distinct
  <2> QED
    BY <2>1, <2>2
<1>4. ASSUME NEW u \in Seq(S), NEW x \in S, u \in P PROVE Append(u, x) \in P
  <2> DEFINE v == Append(u, x)
             F == FlatMap(h, u)
  <2>1. /\ v \in Seq(S) /\ Len(v) = Len(u) + 1 /\ v[Len(u) + 1] = x /\ Len(u) \in Nat
        /\ \A i \in 1 .. Len(u) : v[i] = u[i]
    OBVIOUS
  <2>2. F \in Seq(T) /\ FlatMap(h, v) = F \o h[x]
    BY <1>1, FlatMapOneMore
  <2> HIDE DEF v, F
  <2>3. ASSUME Apart(v) PROVE Distinct(FlatMap(h, v))
    <3>1. Apart(u)
      BY <2>1, <2>3
    <3>2. Distinct(F)
      BY <1>4, <3>1 DEF F
    <3>3. CASE x \notin A
      <4>1. FlatMap(h, v) = F
        BY <1>2, <2>2, <3>3
      <4> QED
        BY <3>2, <4>1
    <3>4. CASE x \in A
      <4>1. Elements(F) = UNION {Elements(h[y]) : y \in Elements(u)}
        BY <1>1, FlatMapElements DEF F
      <4>2. ASSUME NEW y \in Elements(u), g[x] \in Elements(h[y]) PROVE FALSE
        <5>1. PICK i \in 1 .. Len(u) : y = u[i]
          BY DEF Elements
        <5>2. y \in S
          BY <5>1, ElementOf
        <5>3. y \in A /\ g[x] = g[y]
          <6>1. PICK k \in 1 .. Len(h[y]) : g[x] = h[y][k]
            BY <4>2 DEF Elements
          <6>2. CASE y \notin A
            BY <1>2, <5>2, <6>1, <6>2
          <6>3. CASE y \in A
            <7>1. h[y] = <<g[y]>>
              BY <1>2, <5>2, <6>3
            <7> QED
              BY <6>1, <6>3, <7>1
          <6> QED
            BY <6>2, <6>3
        <5>4. i \in 1 .. Len(v) /\ Len(u) + 1 \in 1 .. Len(v) /\ v[i] = y /\ i # Len(u) + 1
          BY <2>1, <5>1
        <5> QED
          BY <2>1, <2>3, <3>4, <5>3, <5>4
      <4>3. g[x] \notin Elements(F)
        BY <4>1, <4>2
      <4>4. FlatMap(h, v) = F \o <<g[x]>> /\ g[x] \in T
        BY <1>2, <2>2, <3>4 DEF T
      <4> QED
        BY <2>2, <3>2, <4>3, <4>4, DistinctOneMore
    <3> QED
      BY <3>3, <3>4
  <2> QED
    BY <2>1, <2>3 DEF v
<1>5. Seq(S) \subseteq P
  <2> HIDE DEF P
  <2> QED
    BY <1>3, <1>4, SequenceInduction
<1>6. Apart(s)
  OBVIOUS
<1> QED
  BY <1>5, <1>6 DEF h

\* The ids of the calls of an answer.
CallIdOf == [item \in ToldItems |-> item.call_id]
CalledItems == {item \in ToldItems : IsCall(item)}
CallId == Picks(ToldItems, CalledItems, CallIdOf)
UseId == Picks(SaidBlocks, UseBlocks, [b \in SaidBlocks |-> b.id])

LEMMA CallIdTypes ==
    CallId \in Lists(ToldItems, Ids) /\ UseId \in Lists(SaidBlocks, Ids)
<1> DEFINE g == [b \in SaidBlocks |-> b.id]
<1>1. \A item \in CalledItems : CallIdOf[item] \in Ids
  BY ToldKinds DEF CalledItems, CallIdOf, ToldFunctions, ToldCustoms
<1>2. \A b \in UseBlocks : g[b] \in Ids
  BY UseBlockFields DEF SaidBlocks
<1> HIDE DEF g
<1> QED
  BY <1>1, <1>2, PicksType DEF CallId, UseId, g

\* The calls of the blocks of an answer have the ids of its items.
LEMMA UsesOfAnswer ==
    ASSUME NEW items \in Seq(ToldItems)
    PROVE  LET m == Blocked("assistant", Blocks(items))
           IN  /\ m \in AssistantMessages /\ m \in Messages
               /\ Len(Uses(m)) = Len(FlatMap(CallId, items))
               /\ \A i \in 1 .. Len(Uses(m)) : Uses(m)[i].id = FlatMap(CallId, items)[i]
<1> DEFINE m == Blocked("assistant", Blocks(items))
           bs == Blocks(items)
           g == [b \in SaidBlocks |-> b.id]
           h == UseId
<1>1. bs \in Seq(SaidBlocks)
  BY BlocksAre
<1>2. m \in AssistantMessages /\ m \in Messages /\ m.blocks = bs
  BY <1>1 DEF AssistantMessages, Messages, Blocked
<1> HIDE DEF m, bs
<1>3. Uses(m) = Kept(UseBlocks, bs)
  BY <1>1, <1>2, SaidKept DEF Uses
<1>4. ThinkingBlocks \subseteq SaidBlocks /\ TextBlocks \subseteq SaidBlocks /\ UseBlocks \subseteq SaidBlocks
  BY DEF SaidBlocks
<1>5. \A b \in SaidBlocks : h[b] = IF b \in UseBlocks THEN <<b.id>> ELSE <<>>
  BY DEF UseId, Picks
<1>6. \A b \in TextBlocks \cup ThinkingBlocks : b \notin UseBlocks
  BY <1>4, SaidKinds
<1>7. Mapped(g, Kept(UseBlocks, bs)) = FlatMap(h, bs) /\ Kept(UseBlocks, bs) \in Seq(UseBlocks)
  <2> HIDE DEF g
  <2>1. Mapped(g, Kept(UseBlocks, bs)) = FlatMap(Picks(SaidBlocks, UseBlocks, g), bs)
        /\ Kept(UseBlocks, bs) \in Seq(UseBlocks)
    BY <1>1, <1>4, MapKept
  <2> QED
    BY <2>1 DEF UseId, g
<1> HIDE DEF h
<1>8. ASSUME NEW item \in ToldItems PROVE FlatMap(h, BlocksOf(item)) = CallId[item]
  <2>1. CallId[item] = IF IsCall(item) THEN <<item.call_id>> ELSE <<>>
    BY DEF CallId, Picks, CalledItems, CallIdOf
  <2>2. CASE item \in ToldFunctions \cup ToldCustoms
    <3> DEFINE b == Said("tool_use", InputOf(item), NoSignature, item.call_id, item.name)
    <3>1. BlocksOf(item) = <<b>>
      BY <2>2, FunctionBlocksOf, CustomBlocksOf, ToldKinds DEF InputOf
    <3>2. b.id = item.call_id
      BY DEF Said
    <3> HIDE DEF b
    <3>3. b \in UseBlocks
      BY <2>2, <3>1, BlocksOfKinds, OnlyElement
    <3>4. h \in Lists(SaidBlocks, Ids) /\ b \in SaidBlocks
      BY <1>4, <3>3, CallIdTypes DEF h
    <3>5. FlatMap(h, <<b>>) = h[b]
      BY <3>4, FlatMapOne
    <3>6. h[b] = <<b.id>>
      BY <1>5, <3>3, <3>4
    <3> QED
      BY <2>1, <2>2, <3>1, <3>2, <3>5, <3>6, ToldKinds
  <2>3. CASE item \notin ToldFunctions \cup ToldCustoms
    <3>1. ~IsCall(item)
      BY <2>3, ToldKinds
    <3>2. BlocksOf(item) \in Seq(TextBlocks) \/ BlocksOf(item) \in Seq(ThinkingBlocks)
      BY <2>3, BlocksOfKinds DEF ToldItems
    <3>3. BlocksOf(item) \in Seq(TextBlocks \cup ThinkingBlocks)
      BY <3>2, SeqSubset
    <3>4. \A b \in TextBlocks \cup ThinkingBlocks : h[b] = <<>>
      BY <1>4, <1>5, <1>6
    <3>5. FlatMap(h, BlocksOf(item)) = <<>>
      BY <3>3, <3>4, FlatMapNothing
    <3> QED
      BY <2>1, <3>1, <3>5
  <2> QED
    BY <2>2, <2>3
<1>9. h[TextBlock(<<>>)] = <<>>
  <2>1. TextBlock(<<>>) \in TextBlocks
    BY DEF TextBlocks
  <2> QED
    BY <1>4, <1>5, <1>6, <2>1
<1>10. FlatMap(h, bs) = FlatMap(CallId, items)
  BY <1>8, <1>9, CallIdTypes, BlocksReplayed DEF bs, h
<1> DEFINE calls == Uses(m)
<1>11. calls \in Seq(UseBlocks) /\ Mapped(g, calls) = FlatMap(CallId, items)
  BY <1>3, <1>7, <1>10
<1>12. \A i \in 1 .. Len(calls) : g[calls[i]] = calls[i].id
  BY <1>4, <1>11, ElementOf
<1> HIDE DEF calls, g
<1>13. /\ Len(calls) = Len(FlatMap(CallId, items))
       /\ \A i \in 1 .. Len(calls) : calls[i].id = FlatMap(CallId, items)[i]
  BY <1>11, <1>12 DEF Mapped
<1> QED
  BY <1>2, <1>13 DEF calls, m

\* The ids the upstream has used are those of all it has told.
LEMMA UsedIds ==
    ASSUME told \in Seq(ToldItems)
    PROVE  Used = Elements(FlatMap(CallId, told))
<1> DEFINE v == Kept(CalledItems, told)
<1>1. [i \in 1 .. Len(told) |-> IF IsCall(told[i]) THEN <<told[i]>> ELSE <<>>]
          = [i \in 1 .. Len(told) |-> IF told[i] \in CalledItems THEN <<told[i]>> ELSE <<>>]
  BY DEF CalledItems
<1>2. CallsOf(told) = v
  BY <1>1 DEF CallsOf, Which, Kept
<1>3. CalledItems \subseteq ToldItems
  BY DEF CalledItems
<1>4. v \in Seq(CalledItems) /\ Mapped(CallIdOf, v) = FlatMap(CallId, told)
  BY <1>3, MapKept DEF CallId
<1> HIDE DEF v
<1>5. /\ Len(Mapped(CallIdOf, v)) = Len(v)
      /\ \A i \in 1 .. Len(v) : Mapped(CallIdOf, v)[i] = v[i].call_id
  BY <1>3, <1>4, ElementOf DEF Mapped, CallIdOf
<1>6. Used = {v[i].call_id : i \in 1 .. Len(v)}
  BY <1>2 DEF Used
<1> QED
  BY <1>4, <1>5, <1>6 DEF Elements

\* The ids of a new answer are its own.
LEMMA FreshIds ==
    ASSUME NEW answer \in Answers, NEW items \in Identified(answer)
    PROVE  /\ Distinct(FlatMap(CallId, items))
           /\ Elements(FlatMap(CallId, items)) \subseteq (ShortIds \cup LongIds) \ Used
<1> DEFINE calls == {i \in 1 .. Len(answer) : IsCall(answer[i])}
           free == (ShortIds \cup LongIds) \ Used
<1>1. PICK ids \in {f \in [calls -> free] : IsInjective(f)} :
          items = [i \in 1 .. Len(answer) |->
                      IF i \in calls THEN [answer[i] EXCEPT !.call_id = ids[i]] ELSE answer[i]]
  BY DEF Identified
<1>2. answer \in Seq(AnswerItems) /\ items \in Seq(ToldItems) /\ CalledItems \subseteq ToldItems
  BY UpstreamAssumption, IdentifiedType DEF CalledItems
<1>3. ids \in [calls -> free] /\ \A i, j \in calls : ids[i] = ids[j] => i = j
  BY <1>1 DEF IsInjective
<1>4. Len(items) = Len(answer) /\ Len(answer) \in Nat
  BY <1>1, <1>2
<1> HIDE DEF free
<1>5. ASSUME NEW i \in 1 .. Len(items), items[i] \in CalledItems
      PROVE  i \in calls /\ CallIdOf[items[i]] = ids[i]
  <2>1. items[i] \in ToldItems /\ IsCall(items[i])
    BY <1>5 DEF CalledItems
  <2>2. i \in 1 .. Len(answer)
    BY <1>4
  <2>3. CASE i \notin calls
    <3>1. items[i] = answer[i]
      BY <1>1, <2>2, <2>3
    <3> QED
      BY <2>1, <2>2, <2>3, <3>1
  <2>4. CASE i \in calls
    <3>1. items[i] = [answer[i] EXCEPT !.call_id = ids[i]]
      BY <1>1, <2>2, <2>4
    <3>2. answer[i] \in AnswerItems
      BY <1>2, <2>2, ElementOf
    <3>3. "call_id" \in DOMAIN answer[i]
      BY <3>2 DEF AnswerItems
    <3>4. items[i].call_id = ids[i]
      BY <3>1, <3>3
    <3> QED
      BY <2>1, <2>4, <3>4 DEF CallIdOf
  <2> QED
    BY <2>3, <2>4
<1> HIDE DEF calls
<1>6. Distinct(FlatMap(CallId, items))
  <2>1. \A i, j \in 1 .. Len(items) :
            items[i] \in CalledItems /\ items[j] \in CalledItems /\ CallIdOf[items[i]] = CallIdOf[items[j]]
            => i = j
    BY <1>3, <1>5
  <2> QED
    BY <1>2, <2>1, DistinctPicks DEF CallId
<1>7. ASSUME NEW id \in Elements(FlatMap(CallId, items)) PROVE id \in free
  <2>1. PICK item \in Elements(items) : id \in Elements(CallId[item])
    BY <1>2, CallIdTypes, FlatMapElements
  <2>2. PICK i \in 1 .. Len(items) : item = items[i]
    BY DEF Elements
  <2>3. item \in ToldItems
    BY <1>2, <2>2, ElementOf
  <2>4. CallId[item] = IF item \in CalledItems THEN <<CallIdOf[item]>> ELSE <<>>
    BY <2>3 DEF CallId, Picks
  <2>5. PICK k \in 1 .. Len(CallId[item]) : id = CallId[item][k]
    BY <2>1 DEF Elements
  <2>6. item \in CalledItems
    BY <2>4, <2>5
  <2>7. id = CallIdOf[item]
    BY <2>4, <2>5, <2>6
  <2> QED
    BY <1>3, <1>5, <2>2, <2>6, <2>7
<1> QED
  BY <1>6, <1>7 DEF free

\* A turn: what comes before the calls of an answer, these, their results and what the
\* user says besides.
LEMMA TurnIsPaired ==
    ASSUME NEW r \in Seq(Quiet), NEW t \in Seq(Quiet), NEW c \in Seq(SentItems), NEW o \in Seq(SentItems),
           Paired(Cat(c, o))
    PROVE  /\ Paired(Cat(Cat(r, c), Cat(o, t)))
           /\ CallIds(Cat(Cat(r, c), Cat(o, t))) = CallIds(Cat(c, o))
<1>1. r \in Seq(SentItems) /\ t \in Seq(SentItems)
  BY QuietItems, SeqSubset
<1>2. Paired(r) /\ CallIds(r) = {} /\ Paired(t) /\ CallIds(t) = {}
  BY QuietItems, NothingToPair
<1> DEFINE co == c \o o
           cot == co \o t
<1>3. co \in Seq(SentItems) /\ Paired(co)
  BY ConcatType DEF Cat
<1>4. (r \o c) \o (o \o t) = r \o cot
  <2> DEFINE ot == Cat(o, t)
  <2>1. ot \in Seq(SentItems)
    BY <1>1, ConcatType DEF Cat
  <2>2. Cat(c, ot) = Cat(Cat(c, o), t)
    BY <1>1, CatAssociative
  <2> HIDE DEF ot
  <2>3. Cat(Cat(r, c), ot) = Cat(r, Cat(c, ot))
    BY <1>1, <2>1, CatAssociative
  <2>4. Cat(Cat(r, c), ot) = Cat(r, Cat(Cat(c, o), t))
    BY <2>2, <2>3, Zenon
  <2> QED
    BY <2>4, Zenon DEF Cat, ot
<1> HIDE DEF co
<1>5. cot \in Seq(SentItems) /\ CallIds(cot) = CallIds(co)
  <2>1. CallIds(cot) = CallIds(co) \cup CallIds(t)
    BY <1>1, <1>3, CallIdsConcat
  <2> QED
    BY <1>1, <1>2, <1>3, <2>1, ConcatType
<1>6. Paired(cot)
  <2>1. CallIds(co) \cap CallIds(t) = {}
    BY <1>2
  <2> QED
    BY <1>1, <1>2, <1>3, <2>1, PairedConcat
<1> HIDE DEF cot
<1>7. CallIds(r \o cot) = CallIds(co)
  <2>1. CallIds(r \o cot) = CallIds(r) \cup CallIds(cot)
    BY <1>1, <1>5, CallIdsConcat
  <2> QED
    BY <1>2, <1>5, <2>1
<1>8. Paired(r \o cot)
  <2>1. CallIds(r) \cap CallIds(cot) = {}
    BY <1>2
  <2> QED
    BY <1>1, <1>2, <1>5, <1>6, <2>1, PairedConcat
<1>9. Cat(Cat(r, c), Cat(o, t)) = r \o cot
  BY <1>4 DEF Cat
<1>10. Cat(c, o) = co
  BY DEF co, Cat
<1> QED
  BY <1>7, <1>8, <1>9, <1>10

\* Results that answer calls, in an order.
AnswersTo(c, o, order) ==
    /\ order \in Orders(Len(c))
    /\ Len(o) = Len(c)
    /\ \A i \in 1 .. Len(c) : IsUse(c[i])
    /\ \A i \in 1 .. Len(o) : IsResult(o[i])
    /\ \A i \in 1 .. Len(o) : o[i].call_id = c[order[i]].call_id
    /\ \A i, j \in 1 .. Len(c) : c[i].call_id = c[j].call_id => i = j

LEMMA AnsweredCalls ==
    ASSUME NEW S, NEW c \in Seq(S), NEW o \in Seq(S), NEW order, AnswersTo(c, o, order)
    PROVE  Paired(c \o o) /\ CallIds(c \o o) = {c[i].call_id : i \in 1 .. Len(c)}
<1>1. order \in Orders(Len(c))
  BY DEF AnswersTo
<1>2. \A i \in 1 .. Len(o) : o[i].call_id = c[order[i]].call_id
  BY DEF AnswersTo
<1> QED
  BY <1>1, <1>2, CallsAndResults DEF AnswersTo

LEMMA CompactIsInjective ==
    ASSUME NEW a \in ShortIds \cup LongIds, NEW b \in ShortIds \cup LongIds,
           CompactCallID(a) = CompactCallID(b)
    PROVE  a = b
BY DigestAssumption DEF CompactCallID

LEMMA CallsSent ==
    ASSUME NEW calls \in Seq(UseBlocks)
    PROVE  /\ SentCallsOf(calls) \in Seq(SentItems)
           /\ Len(SentCallsOf(calls)) = Len(calls)
           /\ \A i \in 1 .. Len(calls) : /\ IsUse(SentCallsOf(calls)[i])
                                         /\ SentCallsOf(calls)[i].call_id = CompactCallID(calls[i].id)
<1> DEFINE Sent(b) == NormalItem(CallItem(b))
<1>1. ASSUME NEW i \in 1 .. Len(calls)
      PROVE  /\ IsUse(Sent(calls[i]))
             /\ Sent(calls[i]).call_id = CompactCallID(calls[i].id)
             /\ Sent(calls[i]) \in SentItems
  BY ElementOf, UseFields
<1>2. SentCallsOf(calls) = [i \in 1 .. Len(calls) |-> Sent(calls[i])] /\ Len(calls) \in Nat
  BY DEF SentCallsOf
<1> HIDE DEF Sent
<1> QED
  BY <1>1, <1>2

LEMMA ResultsSent ==
    ASSUME NEW results \in Seq(ResultBlocks)
    PROVE  /\ SentResults(results) \in Seq(SentItems)
           /\ Len(SentResults(results)) = Len(results)
           /\ \A i \in 1 .. Len(results) : /\ IsResult(SentResults(results)[i])
                                           /\ SentResults(results)[i].call_id = CompactCallID(results[i].id)
<1> DEFINE Sent(b) == NormalItem(OutputItem(b))
<1>1. ASSUME NEW i \in 1 .. Len(results)
      PROVE  /\ IsResult(Sent(results[i]))
             /\ Sent(results[i]).call_id = CompactCallID(results[i].id)
             /\ Sent(results[i]) \in SentItems
  BY ElementOf, ResultFields
<1>2. SentResults(results) = [i \in 1 .. Len(results) |-> Sent(results[i])] /\ Len(results) \in Nat
  BY DEF SentResults
<1> HIDE DEF Sent
<1> QED
  BY <1>1, <1>2

\* What makes no call has no ids.
LEMMA NoCallIds ==
    ASSUME NEW s, \A i \in 1 .. Len(s) : ~IsUse(s[i])
    PROVE  CallIds(s) = {}
BY DEF CallIds

LEMMA AnswerCallIds ==
    ASSUME NEW a \in AssistantMessages
    PROVE  CallIds(SendsOf[a]) = {CompactCallID(Uses(a)[i].id) : i \in 1 .. Len(Uses(a))}
<1> DEFINE c == SentCallsOf(Uses(a))
<1>1. PICK r \in Seq(Quiet) : SendsOf[a] = r \o c
  BY AnswerEndsWithCalls
<1>2. /\ c \in Seq(SentItems) /\ Len(c) = Len(Uses(a))
      /\ \A i \in 1 .. Len(Uses(a)) : IsUse(c[i]) /\ c[i].call_id = CompactCallID(Uses(a)[i].id)
  BY AnswerEndsWithCalls, CallsSent
<1>3. r \in Seq(SentItems) /\ CallIds(r) = {}
  BY QuietItems, SeqSubset, NothingToPair
<1> HIDE DEF c
<1>4. CallIds(r \o c) = CallIds(c)
  <2>1. r \in Seq(SentItems) /\ c \in Seq(SentItems)
    BY <1>2, <1>3
  <2>2. CallIds(r \o c) = CallIds(r) \cup CallIds(c)
    BY <2>1, CallIdsConcat
  <2> QED
    BY <1>3, <2>2
<1>5. CallIds(c) = {CompactCallID(Uses(a)[i].id) : i \in 1 .. Len(Uses(a))}
  BY <1>2 DEF CallIds
<1> QED
  BY <1>1, <1>4, <1>5

\* A transcript whose last answer may have calls without results: their ids are new.
OpenAfter(ms) ==
    ms # <<>> =>
        \E us \in Seq(Messages) : \E a \in AssistantMessages :
            /\ ms = Append(us, a)
            /\ Paired(FlatMap(SendsOf, us))
            /\ \A i, j \in 1 .. Len(Uses(a)) : CompactCallID(Uses(a)[i].id) = CompactCallID(Uses(a)[j].id) => i = j
            /\ \A i \in 1 .. Len(Uses(a)) : CompactCallID(Uses(a)[i].id) \notin CallIds(FlatMap(SendsOf, us))

LEMMA OpenCallsOf ==
    ASSUME NEW us \in Seq(Messages), NEW a \in AssistantMessages, messages = Append(us, a)
    PROVE  OpenCalls = Uses(a)
<1>1. a \in Messages
  BY DEF Messages
<1>2. messages # <<>> /\ messages[Len(messages)] = a
  BY <1>1
<1> QED
  BY <1>2 DEF OpenCalls, Uses, Last

\* The first message of a conversation.
LEMMA FirstMessage ==
    ASSUME messages = <<>>, NEW message \in Replies
    PROVE  Paired(SendsOf[message]) /\ CallIds(SendsOf[message]) = {}
<1>1. messages \in Turns
  BY EmptySeq DEF Turns
<1>2. PICK results \in Seq(ResultBlocks), t \in Seq(Quiet) :
          SendsOf[message] = SentResults(results) \o t /\ Len(results) = Len(OpenCalls)
  BY <1>1, ReplySends
<1>3. Len(results) = 0
  BY <1>2 DEF OpenCalls
<1>4. SentResults(results) = <<>>
  BY <1>3 DEF SentResults
<1>5. <<>> \o t = t
  OBVIOUS
<1>6. SendsOf[message] = t
  BY <1>2, <1>4, <1>5
<1> QED
  BY <1>6, QuietItems, NothingToPair

\* The answers to the calls of an answer.
LEMMA CallsAreAnswered ==
    ASSUME messages \in Turns, NEW us \in Seq(Messages), NEW a \in AssistantMessages,
           messages = Append(us, a),
           \A i, j \in 1 .. Len(Uses(a)) : CompactCallID(Uses(a)[i].id) = CompactCallID(Uses(a)[j].id) => i = j,
           NEW message \in Replies
    PROVE  /\ Paired(SendsOf[a] \o SendsOf[message])
           /\ CallIds(SendsOf[a] \o SendsOf[message]) = CallIds(SendsOf[a])
<1> DEFINE calls == OpenCalls
           c == SentCallsOf(calls)
<1>1. OpenCalls = Uses(a) /\ calls \in Seq(UseBlocks)
  BY OpenCallsOf, AnswerEndsWithCalls
<1>2. PICK order \in Orders(Len(calls)), results \in Seq(ResultBlocks), t \in Seq(Quiet) :
          /\ SendsOf[message] = SentResults(results) \o t
          /\ Len(results) = Len(calls)
          /\ \A i \in 1 .. Len(results) : results[i].id = calls[order[i]].id
  BY ReplySends
<1> DEFINE o == SentResults(results)
<1>3. PICK r \in Seq(Quiet) : SendsOf[a] = r \o c
  BY <1>1, AnswerEndsWithCalls
<1> HIDE DEF calls
<1>4. /\ c \in Seq(SentItems) /\ Len(c) = Len(calls) /\ Len(calls) \in Nat
      /\ \A i \in 1 .. Len(calls) : IsUse(c[i]) /\ c[i].call_id = CompactCallID(calls[i].id)
  BY <1>1, CallsSent
<1>5. /\ o \in Seq(SentItems) /\ Len(o) = Len(results)
      /\ \A i \in 1 .. Len(results) : IsResult(o[i]) /\ o[i].call_id = CompactCallID(results[i].id)
  BY ResultsSent
<1>6. \A p \in 1 .. Len(calls) : order[p] \in 1 .. Len(calls)
  BY <1>4, OrderIsOnto
<1> HIDE DEF c, o
<1>7. \A i \in 1 .. Len(o) : o[i].call_id = c[order[i]].call_id
  <2> SUFFICES ASSUME NEW i \in 1 .. Len(o) PROVE o[i].call_id = c[order[i]].call_id
    OBVIOUS
  <2>1. i \in 1 .. Len(results) /\ i \in 1 .. Len(calls)
    BY <1>2, <1>5
  <2>2. order[i] \in 1 .. Len(calls)
    BY <1>6, <2>1
  <2>3. results[i].id = calls[order[i]].id
    BY <1>2, <2>1
  <2>4. o[i].call_id = CompactCallID(results[i].id)
    BY <1>5, <2>1
  <2>5. c[order[i]].call_id = CompactCallID(calls[order[i]].id)
    BY <1>4, <2>2
  <2> QED
    BY <2>3, <2>4, <2>5
<1>8. /\ Len(o) = Len(c)
      /\ \A i \in 1 .. Len(c) : IsUse(c[i])
      /\ \A i \in 1 .. Len(o) : IsResult(o[i])
      /\ order \in Orders(Len(c))
  BY <1>2, <1>4, <1>5
<1>9. \A i, j \in 1 .. Len(c) : c[i].call_id = c[j].call_id => i = j
  BY <1>1, <1>4 DEF calls
<1>10. Paired(c \o o) /\ CallIds(c \o o) = {c[i].call_id : i \in 1 .. Len(c)}
  <2>1. AnswersTo(c, o, order)
    BY <1>7, <1>8, <1>9 DEF AnswersTo
  <2> QED
    BY <1>4, <1>5, <2>1, AnsweredCalls
<1>11. /\ Paired((r \o c) \o (o \o t))
       /\ CallIds((r \o c) \o (o \o t)) = CallIds(c \o o)
  <2>2. c \in Seq(SentItems) /\ o \in Seq(SentItems) /\ Paired(c \o o)
    BY <1>4, <1>5, <1>10
  <2> QED
    <3>1. Paired(Cat(c, o))
      BY <2>2 DEF Cat
    <3>2. c \in Seq(SentItems) /\ o \in Seq(SentItems)
      BY <2>2
    <3>3. /\ Paired(Cat(Cat(r, c), Cat(o, t)))
          /\ CallIds(Cat(Cat(r, c), Cat(o, t))) = CallIds(Cat(c, o))
      BY <3>1, <3>2, TurnIsPaired
    <3> QED
      BY <3>3, Zenon DEF Cat
<1>12. CallIds(SendsOf[a]) = {CompactCallID(calls[i].id) : i \in 1 .. Len(calls)}
  BY <1>1, AnswerCallIds DEF calls
<1>13. {c[i].call_id : i \in 1 .. Len(c)} = {CompactCallID(calls[i].id) : i \in 1 .. Len(calls)}
  <2>1. Len(c) = Len(calls)
    BY <1>4
  <2>2. \A i \in 1 .. Len(calls) : c[i].call_id = CompactCallID(calls[i].id)
    BY <1>4
  <2>3. {c[i].call_id : i \in 1 .. Len(calls)} = {CompactCallID(calls[i].id) : i \in 1 .. Len(calls)}
    BY <2>2, Zenon
  <2> QED
    BY <2>1, <2>3, Zenon
<1>14. SendsOf[message] = o \o t
  BY <1>2 DEF o
<1> QED
  BY <1>3, <1>10, <1>11, <1>12, <1>13, <1>14

\* A request of the client makes no calls, and answers the ones that were open.
LEMMA TurnCompletes ==
    ASSUME messages \in Turns, OpenAfter(messages), NEW message \in Replies
    PROVE  /\ Paired(FlatMap(SendsOf, Append(messages, message)))
           /\ CallIds(FlatMap(SendsOf, Append(messages, message))) = CallIds(FlatMap(SendsOf, messages))
<1>1. messages \in Seq(Messages) /\ message \in Messages
  BY RepliesType DEF Turns, Messages
<1> DEFINE X == FlatMap(SendsOf, messages)
           w == SendsOf[message]
<1>2. FlatMap(SendsOf, Append(messages, message)) = X \o w
  BY <1>1, NormalType, FlatMapOneMore
<1>3. X \in Seq(SentItems) /\ w \in Seq(SentItems)
  BY <1>1, NormalType, FlatMapType, ListOf
<1>4. CASE messages = <<>>
  <2>1. X = <<>>
    BY <1>4, FlatMapEmpty
  <2>2. <<>> \o w = w
    BY <1>3
  <2>3. CallIds(<<>>) = {}
    BY NoCallIds
  <2> QED
    BY <1>2, <1>4, <2>1, <2>2, <2>3, FirstMessage
<1>5. CASE messages # <<>>
  <2>1. PICK us \in Seq(Messages), a \in AssistantMessages :
            /\ messages = Append(us, a)
            /\ Paired(FlatMap(SendsOf, us))
            /\ \A i, j \in 1 .. Len(Uses(a)) : CompactCallID(Uses(a)[i].id) = CompactCallID(Uses(a)[j].id) => i = j
            /\ \A i \in 1 .. Len(Uses(a)) : CompactCallID(Uses(a)[i].id) \notin CallIds(FlatMap(SendsOf, us))
    BY <1>5 DEF OpenAfter
  <2>2. a \in Messages
    BY DEF Messages
  <2> DEFINE U == FlatMap(SendsOf, us)
             A == SendsOf[a]
  <2>3. X = U \o A
    BY <2>1, <2>2, NormalType, FlatMapOneMore
  <2>4. U \in Seq(SentItems) /\ A \in Seq(SentItems)
    BY <2>2, NormalType, FlatMapType, ListOf
  <2>5. Paired(A \o w) /\ CallIds(A \o w) = CallIds(A)
    BY <2>1, CallsAreAnswered
  <2>6. CallIds(A) \cap CallIds(U) = {}
    BY <2>1, AnswerCallIds
  <2>7. Paired(U)
    BY <2>1
  <2> HIDE DEF U, A, X, w
  <2> DEFINE Aw == A \o w
  <2>8. (U \o A) \o w = U \o Aw
    BY <1>3, <2>4, ConcatAssociative
  <2>9. Aw \in Seq(SentItems) /\ Paired(Aw) /\ CallIds(Aw) = CallIds(A)
    BY <1>3, <2>4, <2>5, ConcatType
  <2>10. CallIds(U \o A) = CallIds(U) \cup CallIds(A)
    BY <2>4, CallIdsConcat
  <2> HIDE DEF Aw
  <2>11. Paired(U \o Aw) /\ CallIds(U \o Aw) = CallIds(U) \cup CallIds(Aw)
    BY <2>4, <2>6, <2>7, <2>9, PairedConcat, CallIdsConcat
  <2>12. X \o w = U \o Aw
    BY <2>3, <2>8
  <2> HIDE DEF X, w
  <2>13. CallIds(X \o w) = CallIds(X)
    BY <2>3, <2>9, <2>10, <2>11, <2>12
  <2>14. Paired(X \o w)
    BY <2>11, <2>12
  <2> QED
    BY <1>2, <2>13, <2>14 DEF X, w
<1> QED
  BY <1>4, <1>5

ToldIds == Elements(FlatMap(CallId, told))

\* A call id is new to the Responses API in the form it is sent in, and every message but
\* the last answer leaves no call without its result.
PairsInv ==
    /\ CallIds(FlatMap(SendsOf, messages)) \subseteq {CompactCallID(id) : id \in ToldIds}
    /\ ToldIds \subseteq ShortIds \cup LongIds
    /\ turn # "upstream" => OpenAfter(messages)
    /\ turn = "upstream" =>
           /\ Paired(FlatMap(SendsOf, messages))
           /\ \E ms \in Turns : \E m \in UserMessages : messages = Append(ms, m) /\ OpenAfter(ms)

LEMMA PairsAsk ==
    ASSUME TranscriptInv, PairsInv, turn = "client", NEW message \in Replies, Ask(message)
    PROVE  PairsInv'
<1>1. messages \in Turns /\ OpenAfter(messages) /\ message \in UserMessages
  BY RepliesType DEF TranscriptInv, PairsInv
<1>2. messages' = Append(messages, message) /\ turn' = "upstream" /\ told' = told
  BY DEF Ask
<1>3. /\ Paired(FlatMap(SendsOf, Append(messages, message)))
      /\ CallIds(FlatMap(SendsOf, Append(messages, message))) = CallIds(FlatMap(SendsOf, messages))
  BY <1>1, TurnCompletes
<1>4. ToldIds' = ToldIds
  BY <1>2 DEF ToldIds
<1>5. CallIds(FlatMap(SendsOf, messages)) \subseteq {CompactCallID(id) : id \in ToldIds}
      /\ ToldIds \subseteq ShortIds \cup LongIds
  BY DEF PairsInv
<1> QED
  BY <1>1, <1>2, <1>3, <1>4, <1>5 DEF PairsInv

LEMMA PairsAnswer ==
    ASSUME TranscriptInv, PairsInv, Answer
    PROVE  PairsInv'
<1>1. PICK answer \in Answers : \E items \in Identified(answer) :
          /\ told' = told \o items
          /\ messages' = Append(messages, Blocked("assistant", Blocks(items)))
  BY DEF Answer
<1>2. PICK items \in Identified(answer) :
          /\ told' = told \o items
          /\ messages' = Append(messages, Blocked("assistant", Blocks(items)))
          /\ turn' = "client"
  BY <1>1 DEF Answer
<1> DEFINE a == Blocked("assistant", Blocks(items))
           ids == FlatMap(CallId, items)
           X == FlatMap(SendsOf, messages)
<1>3. /\ items \in Seq(ToldItems) /\ told \in Seq(ToldItems)
  BY IdentifiedType DEF TranscriptInv
<1>4. /\ a \in AssistantMessages /\ a \in Messages
      /\ Len(Uses(a)) = Len(ids)
      /\ \A i \in 1 .. Len(Uses(a)) : Uses(a)[i].id = ids[i]
  BY <1>3, UsesOfAnswer
<1>5. messages' = Append(messages, a)
  BY <1>2
<1>6. turn = "upstream" /\ Paired(X)
  BY DEF Answer, PairsInv
<1>7. messages \in Seq(Messages)
  <2>1. PICK ms \in Turns, m \in UserMessages : messages = Append(ms, m)
    BY <1>6 DEF TranscriptInv
  <2> QED
    BY <2>1, AppendProperties DEF Turns, Messages
<1>8. Distinct(ids) /\ Elements(ids) \subseteq (ShortIds \cup LongIds) \ ToldIds
  BY <1>3, FreshIds, UsedIds DEF ToldIds
<1>9. ToldIds' = ToldIds \cup Elements(ids)
  <2>1. CallId \in Lists(ToldItems, Ids)
    BY CallIdTypes
  <2>2. FlatMap(CallId, told \o items) = FlatMap(CallId, told) \o ids
    BY <1>3, <2>1, FlatMapConcat
  <2>3. FlatMap(CallId, told) \in Seq(Ids) /\ ids \in Seq(Ids)
    BY <1>3, <2>1, FlatMapType
  <2>4. Elements(FlatMap(CallId, told) \o ids) = Elements(FlatMap(CallId, told)) \cup Elements(ids)
    BY <2>3, ElementsOfConcat
  <2> QED
    BY <1>2, <2>2, <2>4 DEF ToldIds
<1> HIDE DEF ids, a
<1>10. ASSUME NEW i \in 1 .. Len(Uses(a))
       PROVE  Uses(a)[i].id \in Elements(ids)
  BY <1>4 DEF Elements
<1>11. ASSUME NEW i \in 1 .. Len(Uses(a)), NEW j \in 1 .. Len(Uses(a)),
              CompactCallID(Uses(a)[i].id) = CompactCallID(Uses(a)[j].id)
       PROVE  i = j
  <2>1. Uses(a)[i].id = Uses(a)[j].id
    BY <1>8, <1>10, <1>11, CompactIsInjective
  <2>2. ids[i] = ids[j] /\ i \in 1 .. Len(ids) /\ j \in 1 .. Len(ids)
    BY <1>4, <2>1
  <2> QED
    BY <1>8, <2>2 DEF Distinct
<1>12. /\ CallIds(X) \subseteq {CompactCallID(id) : id \in ToldIds}
       /\ ToldIds \subseteq ShortIds \cup LongIds
  BY DEF PairsInv
<1> HIDE DEF X
<1>13. ASSUME NEW i \in 1 .. Len(Uses(a)), CompactCallID(Uses(a)[i].id) \in CallIds(X)
       PROVE  FALSE
  <2>1. PICK id \in ToldIds : CompactCallID(Uses(a)[i].id) = CompactCallID(id)
    BY <1>12, <1>13
  <2>2. Uses(a)[i].id = id
    BY <1>8, <1>10, <1>12, <2>1, CompactIsInjective
  <2> QED
    BY <1>8, <1>10, <2>1, <2>2
<1>14. OpenAfter(messages)'
  BY <1>4, <1>5, <1>6, <1>7, <1>11, <1>13 DEF OpenAfter, X
<1>15. CallIds(FlatMap(SendsOf, messages')) \subseteq {CompactCallID(id) : id \in ToldIds'}
  <2>1. FlatMap(SendsOf, Append(messages, a)) = X \o SendsOf[a]
    BY <1>4, <1>7, NormalType, FlatMapOneMore DEF X
  <2>2. X \in Seq(SentItems) /\ SendsOf[a] \in Seq(SentItems)
    BY <1>4, <1>7, NormalType, FlatMapType, ListOf DEF X
  <2>3. CallIds(X \o SendsOf[a]) = CallIds(X) \cup CallIds(SendsOf[a])
    BY <2>2, CallIdsConcat
  <2>4. CallIds(SendsOf[a]) = {CompactCallID(Uses(a)[i].id) : i \in 1 .. Len(Uses(a))}
    BY <1>4, AnswerCallIds
  <2>5. ASSUME NEW id \in CallIds(SendsOf[a])
        PROVE  id \in {CompactCallID(x) : x \in ToldIds'}
    BY <1>9, <1>10, <2>4
  <2>6. ASSUME NEW id \in CallIds(X)
        PROVE  id \in {CompactCallID(x) : x \in ToldIds'}
    BY <1>9, <1>12
  <2>7. FlatMap(SendsOf, messages') = X \o SendsOf[a]
    BY <1>5, <2>1
  <2> QED
    BY <2>3, <2>5, <2>6, <2>7
<1>16. ToldIds' \subseteq ShortIds \cup LongIds
  BY <1>8, <1>9, <1>12
<1> QED
  BY <1>2, <1>14, <1>15, <1>16 DEF PairsInv

LEMMA PairsFail ==
    ASSUME PairsInv, Fail
    PROVE  PairsInv'
<1>1. PICK ms \in Turns, m \in UserMessages : messages = Append(ms, m) /\ OpenAfter(ms)
  BY DEF Fail, PairsInv
<1>2. ms \in Seq(Messages) /\ m \in Messages
  BY DEF Turns, Messages
<1>3. messages' = ms /\ turn' = "client" /\ told' = told
  BY <1>1, <1>2, FrontOfAppend DEF Fail
<1>4. CallIds(FlatMap(SendsOf, ms)) \subseteq CallIds(FlatMap(SendsOf, messages))
  <2>1. FlatMap(SendsOf, messages) = FlatMap(SendsOf, ms) \o SendsOf[m]
    BY <1>1, <1>2, NormalType, FlatMapOneMore
  <2>2. FlatMap(SendsOf, ms) \in Seq(SentItems) /\ SendsOf[m] \in Seq(SentItems)
    BY <1>2, NormalType, FlatMapType, ListOf
  <2> QED
    BY <2>1, <2>2, CallIdsConcat
<1>5. ToldIds' = ToldIds
  BY <1>3 DEF ToldIds
<1>6. OpenAfter(messages)'
  BY <1>1, <1>3 DEF OpenAfter
<1>7. /\ CallIds(FlatMap(SendsOf, messages)) \subseteq {CompactCallID(id) : id \in ToldIds}
      /\ ToldIds \subseteq ShortIds \cup LongIds
  BY DEF PairsInv
<1> QED
  BY <1>3, <1>4, <1>5, <1>6, <1>7 DEF PairsInv

LEMMA PairsStep ==
    ASSUME TranscriptInv, PairsInv, [Next]_vars
    PROVE  PairsInv'
<1>1. ASSUME UNCHANGED <<messages, told>>, turn # "upstream", turn' # "upstream"
      PROVE  PairsInv'
  BY <1>1 DEF PairsInv, ToldIds, OpenAfter
<1>2. CASE TransformOlder
  BY <1>1, <1>2 DEF TransformOlder
<1>3. CASE UNCHANGED vars
  BY <1>3 DEF PairsInv, ToldIds, OpenAfter, vars
<1> QED
  BY <1>2, <1>3, PairsAsk, PairsAnswer, PairsFail DEF Next

LEMMA PairsInit == Init => PairsInv
<1> SUFFICES ASSUME Init PROVE PairsInv
  OBVIOUS
<1>1. messages = <<>> /\ told = <<>> /\ turn = "client"
  BY DEF Init
<1>2. FlatMap(SendsOf, messages) = <<>> /\ FlatMap(CallId, told) = <<>>
  BY <1>1, FlatMapEmpty
<1>3. CallIds(<<>>) = {} /\ Elements(<<>>) = {}
  BY NoCallIds DEF Elements
<1> QED
  BY <1>1, <1>2, <1>3 DEF PairsInv, OpenAfter, ToldIds

\* What Preamble puts before the messages makes no call.
LEMMA InputIsPaired ==
    ASSUME TranscriptInv, PairsInv, turn = "upstream"
    PROVE  sent.input \in Seq(SentItems) /\ Paired(sent.input)
<1> DEFINE P == FlatMap(Normal, Preamble(system))
           X == FlatMap(SendsOf, messages)
<1>1. PICK ms \in Turns, m \in UserMessages : messages = Append(ms, m) /\ sent.input = SentOf(system, messages)
  BY DEF TranscriptInv
<1>2. messages \in Seq(Messages)
  BY <1>1, AppendProperties DEF Turns, Messages
<1>3. sent.input = P \o X
  BY <1>1 DEF SentOf
<1>4. Preamble(system) \in Seq(OtherMessages)
  BY PreambleType DEF TranscriptInv
<1>5. P \in Seq(Quiet)
  BY <1>4, OthersAreQuiet
<1>6. P \in Seq(SentItems) /\ Paired(P) /\ CallIds(P) = {}
  BY <1>5, QuietItems, SeqSubset, NothingToPair
<1>7. X \in Seq(SentItems)
  BY <1>2, NormalType, FlatMapType
<1>8. Paired(X)
  BY DEF PairsInv
<1> HIDE DEF P, X
<1>9. CallIds(P) \cap CallIds(X) = {}
  BY <1>6
<1>10. Paired(P \o X)
  BY <1>6, <1>7, <1>8, <1>9, PairedConcat
<1> QED
  BY <1>3, <1>6, <1>7, <1>10, ConcatType

LEMMA PairedFollows ==
    ASSUME TranscriptInv, PairsInv
    PROVE  ResultsFollowCalls
<1> SUFFICES ASSUME turn = "upstream" PROVE ResultsFollowCalls
  BY DEF ResultsFollowCalls
<1> DEFINE input == sent.input
           At(type) == {i \in 1 .. Len(input) : input[i].type = type}
           AnswersOf(i) == {j \in At("function_call_output") : input[j].call_id = input[i].call_id}
<1>1. input \in Seq(SentItems) /\ Follows(input) /\ Once(input)
  BY InputIsPaired DEF Paired
<1>2. Len(input) \in Nat
  BY <1>1
<1> HIDE DEF input
<1>3. ASSUME NEW j \in At("function_call_output")
      PROVE  \E i \in At("function_call") :
                 /\ i < j
                 /\ input[i].call_id = input[j].call_id
                 /\ \A k \in i .. j : input[k].type \in {"function_call", "function_call_output"}
  <2>1. j \in 1 .. Len(input) /\ IsResult(input[j])
    BY <1>3 DEF IsResult
  <2>2. PICK i \in 1 .. j : /\ IsUse(input[i]) /\ input[i].call_id = input[j].call_id
                            /\ \A k \in i .. j : IsUse(input[k]) \/ IsResult(input[k])
    BY <1>1, <2>1 DEF Follows
  <2>3. i # j
    BY <2>1, <2>2, UseIsNoResult
  <2>4. i \in At("function_call") /\ i < j
    BY <1>2, <2>1, <2>2, <2>3 DEF IsUse
  <2> QED
    BY <2>2, <2>4 DEF IsUse, IsResult
<1>4. ASSUME NEW i \in At("function_call")
      PROVE  Cardinality(AnswersOf(i)) = 1
  <2>1. i \in 1 .. Len(input) /\ IsUse(input[i])
    BY <1>4 DEF IsUse
  <2>2. PICK j \in 1 .. Len(input) : ResultOf(input, i, j) /\ \A k \in 1 .. Len(input) : ResultOf(input, i, k) => k = j
    BY <1>1, <2>1 DEF Once
  <2>3. \A k : k \in AnswersOf(i) <=> k \in 1 .. Len(input) /\ ResultOf(input, i, k)
    BY DEF ResultOf, IsResult
  <2> HIDE DEF AnswersOf
  <2>4. AnswersOf(i) = {j}
    BY <2>2, <2>3
  <2> QED
    BY <2>4, FS_Singleton
<1> QED
  BY <1>3, <1>4 DEF ResultsFollowCalls, input

\* README.md:54-57: "tool-call pairing" is retained.  convertUserMessage puts the results
\* of a message before what else it says, convertAssistantMessage the calls after the text,
\* and compactCallIDIfNeeded names a call and its result alike: every call of a request is
\* followed by its one result, with nothing but calls and results between them.
THEOREM ResultsArePaired == Spec => []ResultsFollowCalls
<1>1. Init => TranscriptInv /\ PairsInv
  BY TranscriptInit, PairsInit
<1>2. TranscriptInv /\ PairsInv /\ [Next]_vars => (TranscriptInv /\ PairsInv)'
  BY TranscriptStep, PairsStep
<1>3. TranscriptInv /\ PairsInv => ResultsFollowCalls
  BY PairedFollows
<1> QED
  BY <1>1, <1>2, <1>3, PTL DEF Spec
===============================================================================
