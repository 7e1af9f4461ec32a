-------------------------- MODULE MCStreamConverter --------------------------
(***************************************************************************)
(* Two output items, one piece of text, arguments that are a whole object, *)
(* half of one or whitespace, and terminal Output lists of every shape     *)
(* that matters: none, several blocks of several kinds, a call that does   *)
(* not parse.                                                              *)
(***************************************************************************)
EXTENDS StreamConverter

MCTextStrings == {<<>>, <<"t">>}
MCArgStrings == {<<>>, <<"{">>, <<"{", "}">>}
MCBlankStrings == MCArgStrings \cup {<<" ">>}
MCObjects == {<<"{", "}">>}

Reasoning(summary, signature) == [type |-> "reasoning", summary |-> summary, signature |-> signature]
Message(texts) == [type |-> "message", texts |-> texts]
FunctionCall(arguments) == [type |-> "function_call", arguments |-> arguments]
CustomCall(input) == [type |-> "custom_tool_call", input |-> input]

MCTerminalOutputs ==
    {<<>>,
     <<Reasoning(<<"t">>, "sig"), Message(<< <<"t">>, <<"t">> >>)>>,
     <<Reasoning(<<>>, ""), FunctionCall(<<>>), FunctionCall(<<" ">>)>>,
     <<CustomCall(<<"}">>)>>,
     <<Message(<< <<"t">> >>), FunctionCall(<<"{">>)>>}

\* Every terminal event carries a call whose arguments do not parse.
MCMalformedOutputs == {<<FunctionCall(<<"{">>)>>}

==============================================================================
