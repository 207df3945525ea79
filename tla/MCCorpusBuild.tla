---- MODULE MCCorpusBuild ----
(* A volume of three pages, each of several kinds, and one of a page.      *)
EXTENDS CorpusBuild

First == {<<"text">>, <<"toc", "book">>, <<"end", "title", "stop">>}
Second == {<<"running", "author", "title", "text">>, <<"section", "book", "nested", "title", "text">>,
           <<"text", "stop", "note", "number">>, <<"running">>, <<>>}
Third == {<<"running", "text", "echo">>, <<"title", "section", "text">>, <<"verse", "section", "stop", "end">>}

MCContents ==
  {(1 :> <<p, q, r>>) @@ (2 :> <<<<"title", "text">>>>) : p \in First, q \in Second, r \in Third}
====
