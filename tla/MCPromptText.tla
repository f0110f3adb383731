---------------------------- MODULE MCPromptText ----------------------------
EXTENDS PromptText

MCChunks ==
  {<<"{", "{">>, <<"}", "}">>, <<"}">>, <<"{">>, <<" ">>, <<"a">>,
   <<"{", "{", "a", "}", "}">>, <<"{", "{", "c", "}", "}">>, <<"!">>}
MCLetters == {"a", "A", "%", "_", "\\", "\"", ",", "="}
MCInherited == {<<"c">>}
=============================================================================
