-------------------------------- MODULE Base64 --------------------------------
(***************************************************************************)
(* mcl_core/src/base64.c: bytes to and from quantums of four characters.    *)
(* Characters are their ASCII codes, bytes and characters are counted from  *)
(* zero as in the code; table tells the two alphabets apart.                *)
(***************************************************************************)
EXTENDS Integers, Sequences, FiniteSets

PADDING_CHAR == 61
QUANTUM_SIZE == 4
INPUT_GROUP_SIZE == 3
Invalid == 255
Byte == 0..255
Sextet == 0..63

\* base64_encode_table, base64_url_encode_table
EncodeTable(table, i) ==
    IF i <= 25 THEN 65 + i
    ELSE IF i <= 51 THEN 97 + (i - 26)
    ELSE IF i <= 61 THEN 48 + (i - 52)
    ELSE IF i = 62 THEN (IF table = "url" THEN 45 ELSE 43)
    ELSE IF table = "url" THEN 95 ELSE 47

\* base64_decode_table, base64_url_decode_table
DecodeTable(table, c) ==
    IF c \in 65..90 THEN c - 65
    ELSE IF c \in 97..122 THEN c - 97 + 26
    ELSE IF c \in 48..57 THEN c - 48 + 52
    ELSE IF c = (IF table = "url" THEN 45 ELSE 43) THEN 62
    ELSE IF c = (IF table = "url" THEN 95 ELSE 47) THEN 63
    ELSE Invalid

-----------------------------------------------------------------------------
(* One quantum.                                                            *)

\* The 24 bits of a group, and six of them; a byte that is not there is zero.
Group(a, b, c) == a * 65536 + b * 256 + c
Shifted(input, places) == input \div (IF places = 0 THEN 1 ELSE IF places = 1 THEN 64
                                      ELSE IF places = 2 THEN 4096 ELSE 262144)
SextetOf(input, place) == Shifted(input, 3 - place) % 64

\* What _decode_quantum composes from four sextets, and a byte of it.
Value(a, b, c, d) == ((a * 64 + b) * 64 + c) * 64 + d
ByteOf(value, place) == (value \div (IF place = 2 THEN 1 ELSE IF place = 1 THEN 256 ELSE 65536)) % 256

-----------------------------------------------------------------------------
(* _encode_with_table                                                      *)

At(data, i) == IF i < Len(data) THEN data[i + 1] ELSE 0
EncodedLength(n) == QUANTUM_SIZE * ((n \div INPUT_GROUP_SIZE) + (IF n % INPUT_GROUP_SIZE = 0 THEN 0 ELSE 1))

\* The last quantum of data whose length is no multiple of three.
Pads(data, i, place) == i + INPUT_GROUP_SIZE > Len(data) /\ place > Len(data) % INPUT_GROUP_SIZE

Encode(table, data) ==
    [k \in 1..EncodedLength(Len(data)) |->
        LET i == ((k - 1) \div QUANTUM_SIZE) * INPUT_GROUP_SIZE
            place == (k - 1) % QUANTUM_SIZE
            input == Group(At(data, i), At(data, i + 1), At(data, i + 2))
        IN  IF Pads(data, i, place) THEN PADDING_CHAR ELSE EncodeTable(table, SextetOf(input, place))]

-----------------------------------------------------------------------------
(* _decode_with_table                                                      *)

\* The padding characters at the end; the first character of all is not looked at.
PaddingCount(text) ==
    CHOOSE n \in 0..Len(text) :
        /\ \A k \in 0..n - 1 : Len(text) - k > 1 /\ text[Len(text) - k] = PADDING_CHAR
        /\ Len(text) - n > 1 => text[Len(text) - n] # PADDING_CHAR

\* Variant: padding in the middle is not looked for.
WellPaddedAtEnd(text) == PaddingCount(text) <= 2

WellPadded(text) ==
    /\ PaddingCount(text) <= 2
    /\ \A k \in 1..Len(text) - (1 + PaddingCount(text)) : text[k] # PADDING_CHAR

SextetAt(table, text, k) == IF text[k] = PADDING_CHAR THEN 0 ELSE DecodeTable(table, text[k])

DecodedSize(text) == ((Len(text) \div QUANTUM_SIZE) * INPUT_GROUP_SIZE) - PaddingCount(text)

\* _decode_quantum for the quantum q leaves out as many bytes as it has padding characters.
QuantumPadding(text, q) ==
    Cardinality({k \in 1..QUANTUM_SIZE : text[QUANTUM_SIZE * q + k] = PADDING_CHAR})
Writes(text) ==
    UNION {{INPUT_GROUP_SIZE * q + place : place \in 0..(INPUT_GROUP_SIZE - QuantumPadding(text, q)) - 1} :
              q \in 0..(Len(text) \div QUANTUM_SIZE) - 1}

IsDecodable(table, text) ==
    /\ Len(text) > 0 /\ Len(text) % QUANTUM_SIZE = 0
    /\ WellPadded(text)
    /\ \A k \in DOMAIN text : SextetAt(table, text, k) # Invalid

\* The bytes, or an empty sequence with MCL_BAD_CONTENT_ENCODING.
Decode(table, text) ==
    IF ~IsDecodable(table, text) THEN <<>>
    ELSE [n \in 1..DecodedSize(text) |->
            LET q == (n - 1) \div INPUT_GROUP_SIZE
            IN ByteOf(Value(SextetAt(table, text, 4 * q + 1), SextetAt(table, text, 4 * q + 2),
                            SextetAt(table, text, 4 * q + 3), SextetAt(table, text, 4 * q + 4)),
                      (n - 1) % INPUT_GROUP_SIZE)]
=============================================================================
