------------------------------ MODULE MCStreams ------------------------------
(* A text with a quote and a closing brace, a number before a text, an      *)
(* escape of either kind, an opening brace, no field of the record; agents  *)
(* that update this record, with an empty text and a list, create another  *)
(* one beside their output, and do not end; any of these is cut anywhere.  *)
EXTENDS Streams, TLC

T(t) == [kind |-> "text", of |-> t]
N(n) == [kind |-> "num", of |-> n]
L(l) == [kind |-> "list", of |-> l]
D(d) == [kind |-> "data", of |-> d]
A == <<"a">>
B == <<"b">>
MCFields == {A, B}
MCInitial == (A :> T(<<>>)) @@ (B :> T(<<"o">>))
Llm(doc) == [kind |-> "llm", turns |-> <<<<[tool |-> "set_output", doc |-> doc]>>>>]
Agent(turns) == [kind |-> "agent", turns |-> turns]
Use(tool, doc) == [tool |-> tool, doc |-> doc]

MCScripts == {
  Llm(<<<<B, T(<<"x", "\"", "}">>)>>>>),
  Llm(<<<<A, N(<<"1", "2">>)>>, <<B, T(<<"y">>)>>>>),
  Llm(<<<<B, T(<<"e'", "\n">>)>>>>),
  Llm(<<<<B, T(<<"{">>)>>, <<A, N(<<"1">>)>>>>),
  Llm(<<<<<<"l">>, N(<<"1">>)>>>>),
  Agent(<<<<Use("update", <<<<<<"d">>, D(<<<<B, T(<<>>)>>, <<A, T(<<"x">>)>>, <<<<"l">>, L(<<<<"x">>, <<"y">>>>)>>>>)>>>>)>>, <<>>>>),
  Agent(<<<<Use("create", <<<<<<"d">>, D(<<<<B, T(<<"z">>)>>>>)>>>>),
            Use("set_output", <<<<A, T(<<"y">>)>>>>)>>>>),
  Agent(<<<<Use("create", <<<<B, T(<<"z">>)>>>>)>>,
          <<Use("update", <<<<<<"d">>, D(<<<<B, T(<<"w">>)>>>>)>>>>)>>>>)}
MCChars == {"a", "b", "d", "l", "o", "x", "y", "z", "w", "e'", "e", "u", "n", "\n", "1", "2",
            "\"", "\\", "{", "}", "[", "]", ":", ","}
=============================================================================
