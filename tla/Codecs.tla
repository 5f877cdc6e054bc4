-------------------------------- MODULE Codecs --------------------------------
(***************************************************************************)
(* The helpers of the libraries that compute a result from their input      *)
(* alone: base64.c, hmac.c, the searches of string_util.c, the lookup of a   *)
(* response header, and the tests of the upload URL; each is called once,    *)
(* with an input out of a set.  The correlation id is computed in place, a   *)
(* byte at a time.                                                           *)
(***************************************************************************)
EXTENDS Base64, CorrelationId, SequencesExt

Colon == ":"
Blank == " "

CONSTANTS Inputs,    \* the inputs, by call
          Chars,     \* the characters of the texts among them
          BlockSize, \* HMAC_MAXIMUM_KEY_SIZE
          HashSize,  \* HMAC_SHA256_SIZE
          AzureSize, \* sizeof(azure_storage_url), its null included
          Width      \* mcl_size_t has this many values

ASSUME CodecsAssumption ==
    /\ {BlockSize, HashSize, AzureSize, Width} \subseteq Nat
    /\ {Colon, Blank} \subseteq Chars
    /\ 0 < HashSize /\ HashSize <= BlockSize /\ 1 < AzureSize /\ AzureSize < Width

\* What the callers hand over: bytes, characters, a name of a header without its colon,
\* and a URL whose length is a mcl_size_t and whose first dot is inside or missing.
ASSUME InputsAssumption ==
    /\ DOMAIN Inputs = {"encode", "decode", "find", "header", "hmac", "url"}
    /\ Inputs.encode \subseteq [table : {"plain", "url"}, data : Seq(Byte)]
    /\ Inputs.decode \subseteq [table : {"plain", "url"}, text : Seq(Byte)]
    /\ Inputs.find \subseteq [source : Seq(Chars), target : Seq(Chars)]
    /\ Inputs.header \subseteq [lines : Seq(Seq(Chars)), name : Seq(Chars)]
    /\ \A i \in Inputs.header : i.name # <<>> /\ Colon \notin ToSet(i.name)
    /\ Inputs.hmac \subseteq [key : Seq({"byte"} \X Byte), data : Seq({"byte"} \X Byte)]
    /\ Inputs.url \subseteq [length : 0..Width - 1, dot : Nat, azure : BOOLEAN]
    /\ \A u \in Inputs.url : u.dot <= u.length

VARIABLES call, input, result

codecVars == <<call, input, result, idVars>>

CodecsInit ==
    /\ call \in DOMAIN Inputs \cup {"correlation id"}
    /\ input \in IF call \in DOMAIN Inputs THEN Inputs[call] ELSE {"none"}
    /\ result = <<>>
    /\ IdInit

-----------------------------------------------------------------------------
(* Strings are sequences of characters.                                    *)

Lowercase(c) == CASE c = "A" -> "a" [] c = "B" -> "b" [] OTHER -> c
Same(c, d, ignoreCase) == c = d \/ (ignoreCase /\ Lowercase(c) = Lowercase(d))

Found(at) == [found |-> TRUE, at |-> at]
NotFound == [found |-> FALSE, at |-> 0]

\* After a mismatch the search begins anew, with the next character.
AfterMismatch(state) == 0

\* string_util_find, string_util_find_case_insensitive: the length of the target that is
\* matched after n characters.
States(source, target, ignoreCase) ==
    LET state[n \in 0..Len(source)] ==
            IF n = 0 THEN 0
            ELSE IF state[n - 1] = Len(target) THEN Len(target)
            ELSE IF Same(source[n], target[state[n - 1] + 1], ignoreCase) THEN state[n - 1] + 1
            ELSE AfterMismatch(state[n - 1])
    IN state

Find(source, target, ignoreCase) ==
    LET state == States(source, target, ignoreCase)
        ends == {n \in DOMAIN state : state[n] = Len(target)}
    IN IF target = <<>> \/ Len(target) > Len(source) \/ ends = {} THEN NotFound
       ELSE Found((CHOOSE n \in ends : \A m \in ends : n <= m) - Len(target))

-----------------------------------------------------------------------------
(* mcl_http_response_get_header                                            *)

Holds(line, name) == Find(line, name, TRUE).found

\* Where the value begins; without a colon, where the name was found.
ValueBegins(line, name) ==
    LET colon == Find(line, <<Colon>>, FALSE)
        place == IF colon.found THEN colon.at ELSE Find(line, name, TRUE).at
    IN IF place + 2 <= Len(line) /\ line[place + 2] = Blank THEN place + 2 ELSE place + 1

\* The name may be anywhere in the line; no line: MCL_FAIL.
GetHeader(lines, name) ==
    IF ~\E k \in DOMAIN lines : Holds(lines[k], name) THEN <<"FAIL">>
    ELSE LET k == CHOOSE k \in DOMAIN lines :
                     Holds(lines[k], name) /\ \A m \in 1..k - 1 : ~Holds(lines[m], name)
         IN SubSeq(lines[k], ValueBegins(lines[k], name) + 1, Len(lines[k]))

-----------------------------------------------------------------------------
(* hmac_sha256; a byte is a tuple, and a hash is named after what is hashed. *)

Ipad == <<"byte", 54>>
Opad == <<"byte", 92>>
Zero == <<"byte", 0>>
Xor(byte, pad) == IF byte = Zero THEN pad ELSE <<"xor", byte, pad>>
Sha256(bytes) == [k \in 1..HashSize |-> <<"hash", bytes, k>>]

KeyTooLong(key) == Len(key) > BlockSize

LocalKey(key) == IF KeyTooLong(key) THEN Sha256(key) ELSE key
Padded(key, pad) == [k \in 1..BlockSize |-> IF k <= Len(LocalKey(key)) THEN Xor(LocalKey(key)[k], pad) ELSE pad]

\* An empty key is MCL_INVALID_PARAMETER.
Hmac(key, data) ==
    IF key = <<>> THEN <<>> ELSE Sha256(Padded(key, Opad) \o Sha256(Padded(key, Ipad) \o data))

-----------------------------------------------------------------------------
(* _is_for_azure: a URL is its length, the place of its first dot and       *)
(* whether the name of the storage follows; sizes are unsigned.             *)

\* The loop looks at the null, too.
AfterDot(url) == IF url.dot < url.length THEN url.dot + 1 ELSE IF url.length = 0 THEN 1 ELSE url.length

Room(url) == AfterDot(url) < (url.length - AzureSize) % Width
IsForAzure(url) == Room(url) /\ url.azure

\* The characters memcmp compares.
Compared(url) == IF Room(url) THEN AfterDot(url)..AfterDot(url) + AzureSize - 2 ELSE {}

-----------------------------------------------------------------------------
(* The calls.                                                              *)

Returns(name, value) ==
    call = name /\ result = <<>> /\ result' = <<value>> /\ UNCHANGED <<call, input, idVars>>

Base64Encode == call = "encode" /\ Returns("encode", Encode(input.table, input.data))
Base64Decode == call = "decode" /\ Returns("decode", Decode(input.table, input.text))
StringFind == call = "find" /\ Returns("find", Find(input.source, input.target, TRUE))
ResponseGetHeader == call = "header" /\ Returns("header", GetHeader(input.lines, input.name))
HmacSha256 == call = "hmac" /\ Returns("hmac", Hmac(input.key, input.data))
UploadUrlTest == call = "url" /\ Returns("url", IsForAzure(input))
CorrelationIdByte == call = "correlation id" /\ PrintByte /\ UNCHANGED <<call, input, result>>

CodecsNext ==
    \/ Base64Encode \/ Base64Decode
    \/ StringFind \/ ResponseGetHeader
    \/ HmacSha256 \/ UploadUrlTest
    \/ CorrelationIdByte

CodecsSpec == CodecsInit /\ [][CodecsNext]_codecVars

-----------------------------------------------------------------------------
(* Properties.                                                             *)

Returned(name) == call = name /\ result # <<>>

\* What is encoded decodes to the data it came from, for every length of the last group
\* and every value of its bits (base64_encode, base64_decode).
RoundTrip == Returned("encode") => Decode(input.table, result[1]) = input.data

Bit(n, place) == (n \div 2 ^ place) % 2

\* Text is accepted when it is one or more groups of four characters of the alphabet, but
\* for one or two paddings at its end; its bytes are then the bits of the characters, and
\* they are written inside the buffer and fill it (_decode_with_table, _decode_quantum).
DecodesBits ==
    Returned("decode") =>
        LET Alphabet == {EncodeTable(input.table, i) : i \in Sextet}
            Body(padding) == SubSeq(input.text, 1, Len(input.text) - padding)
            Formed(padding) ==
                /\ Len(input.text) > 0 /\ Len(input.text) % 4 = 0
                /\ ToSet(Body(padding)) \subseteq Alphabet
                /\ \A k \in 1..padding : input.text[Len(input.text) - k + 1] = PADDING_CHAR
        IN  IF \E padding \in 0..2 : Formed(padding)
            THEN LET padding == CHOOSE p \in 0..2 : Formed(p)
                 IN /\ Len(result[1]) = 3 * (Len(input.text) \div 4) - padding
                    /\ \A n \in 0..8 * Len(result[1]) - 1 :
                          Bit(result[1][(n \div 8) + 1], 7 - (n % 8))
                              = Bit(SextetAt(input.table, input.text, (n \div 6) + 1), 5 - (n % 6))
                    /\ Writes(input.text) = 0..Len(result[1]) - 1
            ELSE result[1] = <<>>

\* A target that is found is where it is said to be; one at the beginning is found
\* (string_util_find; one that overlaps with a part of itself may be missed).
FindSound ==
    Returned("find") =>
        LET MatchesAt(place) ==
                /\ place + Len(input.target) <= Len(input.source)
                /\ \A k \in DOMAIN input.target : Same(input.source[place + k], input.target[k], TRUE)
        IN  /\ result[1].found => MatchesAt(result[1].at)
            /\ input.target # <<>> /\ MatchesAt(0) => result[1] = Found(0)

\* The value of a header is what follows its colon and a blank, when no line before it
\* contains its name (mcl_http_response_get_header).
HeaderValue ==
    Returned("header") =>
        \A k \in DOMAIN input.lines :
            (\A m \in 1..k - 1 : ~Holds(input.lines[m], input.name)) =>
                \A value \in {SubSeq(input.lines[k], n, Len(input.lines[k])) : n \in 1..Len(input.lines[k]) + 1} :
                    input.lines[k] \in {input.name \o <<Colon>> \o value, input.name \o <<Colon, Blank>> \o value}
                        /\ (value = <<>> \/ value[1] # Blank)
                    => result[1] = value

\* HMAC as it is defined: a key is brought to the length of a block, hashed when it is
\* longer and filled with zeros when it is shorter (hmac_sha256).
HmacIsDefined ==
    Returned("hmac") /\ input.key # <<>> =>
        LET Block == LET local == IF Len(input.key) > BlockSize THEN Sha256(input.key) ELSE input.key
                     IN local \o [k \in 1..BlockSize - Len(local) |-> Zero]
            With(pad) == [k \in 1..BlockSize |-> Xor(Block[k], pad)]
        IN result[1] = Sha256(With(Opad) \o Sha256(With(Ipad) \o input.data))

\* A URL that is at least as long as the name of the storage is read inside only, and
\* recognised when a path of two characters follows the name (_is_for_azure).
UrlIsRead ==
    Returned("url") /\ input.length >= AzureSize =>
        /\ Compared(input) \subseteq 0..input.length
        /\ input.azure /\ AfterDot(input) + AzureSize - 1 + 2 <= input.length => result[1]

\* Every call returns what its definition says: RFC 4648 and RFC 2104, and the searches
\* their headers describe, so far as the code keeps to them.
ResultsAreRight == RoundTrip /\ DecodesBits /\ FindSound /\ HeaderValue /\ HmacIsDefined /\ UrlIsRead
=============================================================================
