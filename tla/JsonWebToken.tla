----------------------------- MODULE JsonWebToken -----------------------------
(***************************************************************************)
(* mcl_core/src/jwt.c, as _compose_token_request... of core_processor.c uses *)
(* it: two trees of claims become one text, signed, and all that was        *)
(* allocated on the way is freed, wherever it breaks off.  Besides tokens,  *)
(* the program works on trees of its own.                                   *)
(***************************************************************************)
EXTENDS JsonTree

CONSTANT MaxProgramNodes   \* bound on the trees of the program

VARIABLES pc,
          jwt,     \* header and payload: nodes, or 0
          array,   \* the array of schemas
          texts,   \* what is allocated of strings and signatures, with its contents
          token    \* what the caller gets, or "none"

jwtVars == <<pc, jwt, array, texts, token>>
vars == <<treeVars, jwtVars>>

NoJwt == [header |-> 0, payload |-> 0]

Init ==
    /\ TreeInit
    /\ pc = "idle" /\ jwt = NoJwt /\ array = 0 /\ texts = << >> /\ token = <<>>

-----------------------------------------------------------------------------
(* Texts.                                                                  *)

Encoded(text) == <<"encoded", text>>
Joined(first, second) == <<"joined", first, second>>
Signed(text) == <<"signed", text>>

Made(name, text) == [t \in DOMAIN texts \cup {name} |-> IF t = name THEN text ELSE texts[t]]
Free(names) == [t \in DOMAIN texts \ names |-> texts[t]]

Claims(n) == {nodes[c].name : c \in nodes[n].children}

-----------------------------------------------------------------------------
(* jwt_initialize                                                          *)

HeaderClaimSet == {"typ", "alg"}
PayloadClaimSet == {"iss", "sub", "aud", "iat", "nbf", "exp", "schemas", "ten", "jti"}

\* The names of the claims are written in lower case.
ASSUME ClaimsAssumption ==
    \A claim \in HeaderClaimSet \cup PayloadClaimSet : claim \in DOMAIN Fold /\ Fold[claim] = claim

\* The steps in their order.
Following ==
    [header |-> "typ", typ |-> "alg", alg |-> "identifier", identifier |-> "payload", payload |-> "iss",
     iss |-> "sub", sub |-> "aud", aud |-> "iat", iat |-> "nbf", nbf |-> "exp", exp |-> "schemas",
     schemas |-> "urn", urn |-> "ten", ten |-> "jti", jti |-> "header json"]

\* Explored, as a bound, while the program has no trees of its own.
JwtInitialize ==
    /\ pc = "idle" /\ Live = {}
    /\ \/ pc' = "done"     \* No memory.
       \/ pc' = "header"
    /\ UNCHANGED <<treeVars, jwt, array, texts, token>>

CreateHeader ==
    /\ pc = "header"
    /\ Initialize("object")
    /\ IF answer' = "OK" THEN jwt' = [jwt EXCEPT !.header = NewNode] /\ pc' = Following[pc]
       ELSE pc' = "destroy" /\ UNCHANGED jwt
    /\ UNCHANGED <<array, texts, token>>

AddHeaderClaim ==
    /\ pc \in HeaderClaimSet
    /\ AddTo(jwt.header, "string", pc)
    /\ pc' = Following[pc]
    /\ UNCHANGED <<jwt, array, texts, token>>

GenerateJti ==
    /\ pc = "identifier"
    /\ \/ pc' = "destroy" /\ UNCHANGED texts
       \/ pc' = Following[pc] /\ texts' = Made("jti", <<"guid">>)
    /\ UNCHANGED <<treeVars, jwt, array, token>>

\* Variant: the identifier stays behind when a claim cannot be added.
PayloadFailedKeeping == UNCHANGED texts

PayloadFailed == texts' = Free({"jti"})

CreatePayload ==
    /\ pc = "payload"
    /\ Initialize("object")
    /\ IF answer' = "OK" THEN jwt' = [jwt EXCEPT !.payload = NewNode] /\ pc' = Following[pc] /\ UNCHANGED texts
       ELSE pc' = "destroy" /\ PayloadFailed /\ UNCHANGED jwt
    /\ UNCHANGED <<array, token>>

\* The array of schemas is filled even where it was not attached; whatever fails, the
\* payload goes first.
AddPayloadClaim ==
    /\ pc \in PayloadClaimSet \cup {"urn"}
    /\ CASE pc = "schemas" -> StartIn(jwt.payload, "array", pc)
         [] pc = "urn" -> AddTo(array, "string", NoName)
         [] OTHER -> AddTo(jwt.payload, "string", pc)
    /\ array' = IF pc = "schemas" /\ answer' = "OK" THEN NewNode ELSE array
    /\ IF answer' = "OK"
       THEN /\ pc' = Following[pc]
            /\ texts' = IF pc = "jti" THEN Free({"jti"}) ELSE texts
       ELSE pc' = "destroy" /\ PayloadFailed
    /\ UNCHANGED <<jwt, token>>

-----------------------------------------------------------------------------
(* jwt_get_token                                                           *)

\* A step makes a text of others; what it frees of them, and what it frees when it fails.
Step(makes, frees, freesFailing, next) ==
    [makes |-> makes, frees |-> frees, freesFailing |-> freesFailing, next |-> next]

TokenSteps ==
    [step \in {"header json", "payload json", "encode header", "encode payload", "join", "sign", "encode", "finish"} |->
        CASE step = "header json" -> Step("header", {}, {}, "payload json")
          [] step = "payload json" -> Step("payload", {}, {}, "encode header")
          [] step = "encode header" -> Step("header64", {}, {}, "encode payload")
          [] step = "encode payload" -> Step("payload64", {}, {"header64"}, "join")
          [] step = "join" -> Step("both", {"header64", "payload64"}, {"header64", "payload64"}, "sign")
          [] step = "sign" -> Step("hash", {}, {"both"}, "encode")
          [] step = "encode" -> Step("signature", {"hash"}, {"hash", "both"}, "finish")
          [] step = "finish" -> Step("token", {"both", "signature"}, {"both", "signature"}, "destroy")]

\* Variant: only the payload is signed.
SignedTextPayload == texts["payload"]

\* What _calculate_signature gets.
SignedText == texts["both"]

Text(step) ==
    CASE step = "header json" -> <<"json", Claims(jwt.header)>>
      [] step = "payload json" -> <<"json", Claims(jwt.payload)>>
      [] step = "encode header" -> Encoded(texts["header"])
      [] step = "encode payload" -> Encoded(texts["payload"])
      [] step = "join" -> Joined(texts["header64"], texts["payload64"])
      [] step = "sign" -> Signed(SignedText)
      [] step = "encode" -> Encoded(texts["hash"])
      [] step = "finish" -> Joined(texts["both"], texts["signature"])

TokenStep ==
    /\ pc \in DOMAIN TokenSteps
    /\ LET step == TokenSteps[pc]
           made == Made(step.makes, Text(pc))
       IN  \/ /\ texts' = [t \in DOMAIN made \ step.frees |-> made[t]]
              /\ pc' = step.next
           \/ /\ texts' = Free(step.freesFailing)
              /\ pc' = "destroy"
    /\ UNCHANGED <<treeVars, jwt, array, token>>

\* The texts of the trees go at the end of jwt_get_token; jwt_destroy.
JwtDestroy ==
    /\ pc = "destroy"
    /\ nodes' = [m \in Live \ UNION {Below(n) : n \in roots} |-> nodes[m]] /\ roots' = {}
    /\ UNCHANGED <<lost, silent, parsed, answer>>
    /\ texts' = Free({"header", "payload"})
    /\ pc' = IF "token" \in DOMAIN texts THEN "request" ELSE "done"
    /\ jwt' = NoJwt /\ array' = 0 /\ UNCHANGED token

\* The token becomes the payload of a request, or memory runs out.
ComposeRequest ==
    /\ pc = "request"
    /\ \/ token' = <<texts["token"]>>
       \/ UNCHANGED token
    /\ texts' = Free({"token"})
    /\ pc' = "done" /\ UNCHANGED <<treeVars, jwt, array>>

Next ==
    \/ JwtInitialize \/ CreateHeader \/ AddHeaderClaim \/ GenerateJti \/ CreatePayload \/ AddPayloadClaim
    \/ TokenStep \/ JwtDestroy \/ ComposeRequest
    \/ pc = "idle" /\ TreeStep /\ Cardinality(Live') <= MaxProgramNodes /\ UNCHANGED jwtVars

Spec == Init /\ [][Next]_vars

-----------------------------------------------------------------------------
(* Properties.                                                             *)

\* Wherever a token breaks off, every text is freed, and every node that is not lost
\* (jwt_initialize, jwt_get_token, _generate_token, _join_with_dot).
TokenClean == pc = "done" => DOMAIN texts = {} /\ roots = {} /\ Live = UNION {Below(n) : n \in lost}

\* What is signed is what is sent: a header, a payload, and their signature.
TokenSigned ==
    token # <<>> =>
        LET both == token[1][2]
            header == both[2][2][2]
            payload == both[3][2][2]
        IN /\ token[1] = Joined(both, Encoded(Signed(both)))
           /\ header \subseteq HeaderClaimSet /\ payload \subseteq PayloadClaimSet
           /\ silent \/ (header = HeaderClaimSet /\ payload = PayloadClaimSet)
=============================================================================
