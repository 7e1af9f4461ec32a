----------------------------- MODULE MCConversation -----------------------------
(***************************************************************************)
(* Three requests and two answers: thoughts, texts and calls between each  *)
(* other, two calls in one answer, one of them with a long id, results in  *)
(* both orders, with images, with errors and with whitespace for text.     *)
(***************************************************************************)
EXTENDS Conversation

MCDigest == [id \in LongIds |-> "fc_long"]
MCObjects == {<<"{", "}">>}

MCSystems == {<<>>, << <<"billing">>, <<"t">> >>}

Tool(name, schema) == [name |-> name, schema |-> schema]
Choice(type, name) == [kind |-> "choice", type |-> type, name |-> name]
MCOptions ==
    {[tools |-> <<Tool("read", "none"), Tool(NoName, "object")>>, effort |-> "max",
      choice |-> Choice("tool", "read")],
     [tools |-> <<>>, effort |-> "", choice |-> Choice("tool", "write")],
     [tools |-> <<Tool("read", "invalid")>>, effort |-> "low", choice |-> Choice("any", NoName)]}

Thought(summary, signature) ==
    [type |-> "reasoning", summary |-> summary, signature |-> signature, call_id |-> NoId, name |-> NoName]
Says(texts) == [type |-> "message", texts |-> texts, call_id |-> NoId, name |-> NoName]
Calls(name, arguments) ==
    [type |-> "function_call", arguments |-> arguments, call_id |-> NoId, name |-> name]
CallsCustom(name, input) ==
    [type |-> "custom_tool_call", input |-> input, call_id |-> NoId, name |-> name]

MCAnswers ==
    {<<>>,
     <<Says(<< <<"t">>, <<" ">> >>)>>,
     <<Thought(<<"t">>, "one"), Calls("read", <<" ">>), Thought(<<>>, "two"),
       CallsCustom("read", <<"{">>)>>,
     <<Thought(<<" ">>, NoSignature), Says(<< <<" ">> >>), Calls("read", <<"{", "}">>)>>}

MCExtras == {<<>>, <<TextBlock(<<>>), ImageBlock("cat"), TextBlock(<<"t">>)>>}
MCResultContents ==
    {[content |-> <<TextBlock(<<"t">>), ImageBlock("cat")>>, isError |-> FALSE],
     [content |-> <<TextBlock(<<" ">>)>>, isError |-> TRUE]}

Older(functions, call, tools, choice) ==
    [input         |-> <<[type |-> "custom_tool_call_output", call_id |-> NoId, id |-> "long",
                          name |-> NoName, body |-> <<>>]>>,
     fields        |-> {"temperature"},
     instructions  |-> FALSE,
     include       |-> {},
     reasoning     |-> "",
     functions     |-> functions,
     function_call |-> call,
     tools         |-> tools,
     tool_choice   |-> choice]

Nested(name) == [type |-> "function", name |-> NoName, nested |-> name, parameters |-> "object"]
MCOlderBodies ==
    {Older(functions, call, tools, choice) :
        functions \in {Absent, [kind |-> "list", names |-> <<"read">>]},
        call \in {Absent, Word("none"), Typed("", "read", NoName), Typed("", "write", NoName)},
        tools \in {<<>>, <<Nested("read"), Nested(NoName)>>,
                   <<[type |-> "web_search", name |-> NoName, nested |-> NoName, parameters |-> "none"]>>},
        choice \in {Absent, Typed("function", NoName, "read"), Typed("web_search", NoName, NoName)}}

================================================================================
