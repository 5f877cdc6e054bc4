------------------------------- MODULE MCCodecs -------------------------------
(* Short inputs of every shape the helpers tell apart.                       *)
EXTENDS Codecs

SeqsUpTo(set, n) == UNION {[1..m -> set] : m \in 0..n}

MCChars == {"a", "A", "b", "B", Colon, Blank}

Tables == {"plain", "url"}
Lines == {<<"a", ":">> \o t : t \in SeqsUpTo({"b", " "}, 2)} \cup {<<"b", ":", "a">>, <<"A", "B", ":", " ", "a">>, <<"a">>}

MCInputs ==
    [encode |-> [table : Tables, data : SeqsUpTo({0, 63, 190, 255}, 4)],
     decode |-> [table : Tables, text : SeqsUpTo({65, 81, 45, 47, 61}, 4)
                     \cup {<<81, 81, x, y>> \o t : x, y \in {81, 61}, t \in [1..4 -> {81, 61, 33}]}],
     find   |-> [source : SeqsUpTo({"a", "A", "b"}, 4), target : SeqsUpTo({"a", "B"}, 3)],
     header |-> [lines : SeqsUpTo(Lines, 2), name : {<<"a">>, <<"A", "b">>}],
     hmac   |-> [key : SeqsUpTo({Zero, Ipad, <<"byte", 7>>}, 4), data : {<<>>, <<Zero>>}],
     url    |-> {u \in [length : 0..9, dot : 0..9, azure : BOOLEAN] :
                    u.dot <= u.length /\ (u.azure => AfterDot(u) + AzureSize - 1 <= u.length)}]
=============================================================================
