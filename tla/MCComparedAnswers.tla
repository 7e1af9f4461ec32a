--------------------------- MODULE MCComparedAnswers ---------------------------
(***************************************************************************)
(* Responses of one and two items: every type of item, two parts, calls    *)
(* with empty arguments and with whitespace, a call whose arguments do not *)
(* parse, and two calls that may be streamed side by side.                 *)
(***************************************************************************)
EXTENDS ComparedAnswers

MCObjects == {<<"{", "}">>, <<"{", "{">>}

Item(type, call, signature, parts) ==
    [BlankItem EXCEPT !.type = type, !.call = call, !.signature = signature,
                      !.data[FieldOf[type]] = parts]

Thought == Item("reasoning", NoCall, "sig", << <<"t">>, <<"u">> >>)
Message == Item("message", NoCall, NoSignature, << <<"t", "u">> >>)
TwoTexts == Item("message", NoCall, NoSignature, << <<"t">>, <<"u">> >>)
Call == Item("function_call", "a", NoSignature, << <<"{", "}">> >>)
OtherCall == Item("function_call", "b", NoSignature, << <<"{", "{">> >>)
EmptyCall == Item("function_call", "a", NoSignature, << <<>> >>)
BlankCall == Item("function_call", "b", NoSignature, << <<" ">> >>)
CutCall == Item("function_call", "a", NoSignature, << <<"{">> >>)
CustomCall == Item("custom_tool_call", "b", NoSignature, << <<"}", "{">> >>)

MCTrueResponses ==
    {Response("completed", NoDetails, FALSE, <<>>),
     Response("completed", NoDetails, FALSE, <<Thought, EmptyCall>>),
     Response("completed", NoDetails, FALSE, <<BlankCall, Message>>),
     Response("completed", NoDetails, FALSE, <<Message, Call>>),
     Response("completed", NoDetails, FALSE, <<Call, CustomCall>>),
     Response("completed", NoDetails, FALSE, <<Call, OtherCall>>),
     Response("incomplete", "content_filter", FALSE, <<TwoTexts>>),
     Response("incomplete", "max_output_tokens", FALSE, <<Message, CutCall>>)}

================================================================================
