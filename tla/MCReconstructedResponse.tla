------------------------ MODULE MCReconstructedResponse ------------------------
(***************************************************************************)
(* Responses of two items: of every type, with strings of one and two      *)
(* fragments and in one and two parts, a message whose last part is blank, *)
(* calls with empty arguments and with whitespace, and one that was cut    *)
(* off.  And one response of no items.                                     *)
(***************************************************************************)
EXTENDS ReconstructedResponse

MCObjects == {<<"{", "}">>}

Item(type, call, signature, parts) ==
    [BlankItem EXCEPT !.type = type, !.call = call, !.signature = signature,
                      !.data[FieldOf[type]] = parts]

Thought == Item("reasoning", NoCall, "sig", << <<"t">>, <<"u">> >>)
Message == Item("message", NoCall, NoSignature, << <<"t", "u">> >>)
TwoTexts == Item("message", NoCall, NoSignature, << <<"t">>, <<"u">> >>)
BlankText == Item("message", NoCall, NoSignature, << <<"t">>, <<>> >>)
Call == Item("function_call", "a", NoSignature, << <<"{", "}">> >>)
EmptyCall == Item("function_call", "a", NoSignature, << <<>> >>)
BlankCall == Item("function_call", "b", NoSignature, << <<" ">> >>)
CutCall == Item("function_call", "a", NoSignature, << <<"{">> >>)
CustomCall == Item("custom_tool_call", "b", NoSignature, << <<"}", "{">> >>)

MCTrueResponses ==
    {Response("completed", NoDetails, FALSE, <<>>),
     Response("completed", NoDetails, FALSE, <<Thought, EmptyCall>>),
     Response("completed", NoDetails, FALSE, <<BlankCall, Message>>),
     Response("completed", NoDetails, FALSE, <<Message, Call>>),
     Response("completed", NoDetails, FALSE, <<Call, CustomCall>>),
     Response("incomplete", "max_output_tokens", FALSE, <<CustomCall>>),
     Response("incomplete", "content_filter", FALSE, <<TwoTexts>>),
     Response("incomplete", "content_filter", FALSE, <<BlankText>>),
     Response("incomplete", NoDetails, FALSE, <<Message>>),
     Response("incomplete", "max_output_tokens", FALSE, <<Message, CutCall>>)}

================================================================================
