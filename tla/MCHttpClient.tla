---------------------------- MODULE MCHttpClient ----------------------------
(* Answers of every framing, with and without headers the client can read.  *)
EXTENDS HttpClient

CONSTANT NoValue

A(version, before, framing, length) ==
    [version |-> version, lines |-> before, framing |-> framing, length |-> length]

MCAnswers ==
    {A(TRUE, <<>>, "length", 2), A(TRUE, <<"plain">>, "length", 0),
     A(TRUE, <<"plain">>, "chunked", 2), A(TRUE, <<>>, "none", 1),
     A(TRUE, <<"long">>, "length", 1), A(FALSE, <<>>, "length", 1)}

MCUpper == {0, 4}
=============================================================================
