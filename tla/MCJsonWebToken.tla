---------------------------- MODULE MCJsonWebToken ----------------------------
(* Trees of a few nodes, with two spellings of one name; and tokens.         *)
EXTENDS JsonWebToken

MCNames == {"a", "A"}
MCFold == [n \in MCNames \cup HeaderClaimSet \cup PayloadClaimSet |-> IF n = "A" THEN "a" ELSE n]
=============================================================================
