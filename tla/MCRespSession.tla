---------------------------- MODULE MCRespSession ----------------------------
(* Commands and answers with everything that could mislead a reader: empty *)
(* arguments, a line end inside of an argument, lists in lists, every      *)
(* answer of the protocol.                                                 *)
EXTENDS RespSession

MCText == [n \in -1 .. MaxLength |-> ToString(n)]

MCBytes == Punctuation \cup {"CR", "LF", "SP", "v", "w", "l", "p"} \cup Range(MCText)

S(bytes) == <<"str", bytes>>

MCCommands ==
  {ListOf(<<S(<<"v">>)>>),
   ListOf(<<S(<<"v">>), S(<<>>)>>),
   ListOf(<<S(<<"v">>), S(<<"LF">>), S(<<"CR", "LF">>)>>),
   ListOf(<<S(<<"v">>), <<"int", <<"1">>>>, <<"float", <<"1">>>>, <<"list", 0>>>>)}

MCRawTexts == {<<"v">>, <<"v", "SP", "w">>}

FindResult(ids) ==
  <<<<"list", Len(ids)>>>>
    \o FlattenSeq([i \in 1 .. Len(ids) |-> ListOf(<<S(ids[i]), <<"float", <<"1">>>>>>)])

MCAnswers ==
  {<<<<"+", <<"1">>>>>>, <<<<"-", <<"8", "SP", "w">>>>>>,
   FindResult(<<>>), FindResult(<<<<"CR", "LF">>, <<>>>>),
   <<<<"dict", 2>>, S(<<"l">>), <<"int", <<"1">>>>, S(<<"p">>), S(<<"w">>)>>}
=============================================================================
