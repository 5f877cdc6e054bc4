------------------------- MODULE HttpClientCurlProofs -------------------------
(***************************************************************************)
(* Proofs about HttpClientCurl, for bodies and answers of any length, any   *)
(* headers, any certificates and any number of requests on one handle: a    *)
(* request is sent as it is, whatever the handle served before, and the     *)
(* client on libcurl implements the same HttpCall as the one on sockets.    *)
(***************************************************************************)
EXTENDS HttpClientCurl, SequenceTheorems, TLAPS

-----------------------------------------------------------------------------
(* The inductive invariant, by the place the call is at.                    *)

Performing == {"send", "sent", "receive"}

\* A request that a caller hands over.
RequestIsSane ==
    /\ request.body = "none" => request.length = 0 /\ request.size = 0
    /\ request.body = "buffer" => request.size = request.length
    /\ request.body = "callback" => request.size \in {0, request.length}

\* The options of the easy handle say what the request of this call asks, and point to
\* nothing of an earlier call.
OptionsAreOwn ==
    /\ "stale" \notin {easy.list, easy.data, easy.post}
    /\ easy.custom = IF request.method = "PATCH" THEN "PATCH" ELSE "none"
    /\ request.method = "GET" => easy.verb = "GET"
    /\ request.method = "POST" =>
        /\ easy.verb = "POST"
        /\ request.body # "callback" =>
              easy.postSize = request.size /\ (easy.post # "null" \/ request.size = 0)
        /\ request.body = "callback" =>
              easy.post = "null" /\ easy.postSize = -1 /\ easy.read = "stream" /\ easy.data = "own"
    /\ request.method \in {"PUT", "PATCH"} =>
        /\ easy.verb = "PUT" /\ easy.data = "own"
        /\ request.body = "callback" => easy.read = "stream"
        /\ request.body # "callback" => easy.read = "default" /\ easy.inSize = request.size

\* A method the client does not know leaves the handle without a body to send.
OptionsAreEmpty ==
    easy.verb = "POST" /\ easy.post = "null" /\ easy.postSize = -1 /\ easy.data = "null"

OptionsFit ==
    /\ pc \in {"sinks", "connect"} \cup Performing =>
        IF request.method \in Supported THEN OptionsAreOwn ELSE OptionsAreEmpty
    /\ pc \in {"connect"} \cup Performing => easy.sinks = "own"
    /\ pc = "crashed" => request.method \notin Supported

\* The body is on its way from its first byte, and what is left of it is where the next
\* piece is taken from: the buffer of POSTFIELDS, the callback of the client, the caller's.
BodyIsLeft ==
    /\ pc \in {"sinks", "connect"} =>
        /\ wire = <<>> /\ offset = 0
        /\ request.body = "callback" /\ request.method \in Supported => source = request.length
    /\ pc = "send" =>
        /\ wire = Positions(0, Len(wire))
        /\ request.method \in {"GET", "DELETE"} => Len(wire) = 0
        /\ request.method \in {"POST", "PUT", "PATCH"} =>
            /\ request.body = "callback" => Len(wire) + source = request.length
            /\ request.body # "callback" => Len(wire) <= request.length
            /\ request.method # "POST" /\ request.body # "callback" => offset = Len(wire)

\* The service has the request from the end of the sending on, and then it has all of it.
ServedInFull ==
    /\ pc \in {"sent", "receive"} => ended /\ request.method \in Supported
    /\ ended => pc \in {"sent", "receive", "done"} /\ wire = Positions(0, Asked)

\* What has come of the answer and what is to come are the answer.
AnswerIsLeft ==
    /\ answer # Nothing => ended /\ pc \in {"receive", "done"}
    /\ pc = "receive" => answer # Nothing /\ got + left = answer.length
    /\ result = "OK" => answer # Nothing /\ got = answer.length
    /\ result = "none" <=> pc # "done"

\* Before the transfer begins, and between calls, nothing has been sent or received.
NothingYet ==
    /\ pc \in {"idle", "options"} => NoCall
    /\ pc \in {"sinks", "connect", "send", "sent"} => got = 0 /\ left = 0 /\ lines = 0
    /\ pc \notin {"idle", "crashed"} => client # Nothing

\* TypeOK, part by part.
Clients == [certificates : Seq(Certificate), caInfo : Certificate \cup {Nothing},
            callback : BOOLEAN, timed : BOOLEAN]

EasyOptions ==
    [verb : {"GET", "POST", "PUT"}, custom : {"none", "PATCH"},
     post : {"null", "own", "stale"}, postSize : Lengths \cup {-1}, inSize : Lengths \cup {-1},
     read : {"fread", "default", "stream"}, data : {"null", "own", "stale"},
     list : {"null", "own", "stale"}, header : Seq({"chunked", "header", "expect"}),
     sinks : {"null", "own", "stale"}]

Requests == [method : Methods, body : {"none", "buffer", "callback"}, length : Lengths,
             size : Lengths]

Places == {"idle", "options", "sinks", "connect", "send", "sent", "receive", "done", "crashed"}

Allocations == {"list", "lost list", "response header", "payload", "old payload", "response"}

Codes == {"none", "OK", "FAIL", "OUT_OF_MEMORY", "COULD_NOT_CONNECT", "SSL_HANDSHAKE_FAIL",
          "NOT_VERIFIED", "IMPROPER_CERTIFICATE", "NETWORK_SEND_FAIL", "NETWORK_RECEIVE_FAIL",
          "REQUEST_TIMEOUT"}

SendingTyped == stalled \in BOOLEAN /\ source \in Lengths /\ offset \in Lengths
                /\ wire \in Seq(1..MaxLength) /\ ended \in BOOLEAN

ReceivingTyped == answer \in Answers \cup {Nothing} /\ lines \in Nat /\ left \in Lengths
                  /\ got \in Lengths

Typed ==
    /\ client = Nothing \/ client \in Clients
    /\ easy \in EasyOptions /\ request \in Requests /\ pc \in Places
    /\ SendingTyped /\ ReceivingTyped
    /\ heap \subseteq Allocations /\ result \in Codes

IInv ==
    /\ Typed /\ RequestIsSane /\ OptionsFit /\ BodyIsLeft /\ ServedInFull
    /\ AnswerIsLeft /\ NothingYet

-----------------------------------------------------------------------------
(* The bytes of a body.                                                    *)

\* A body of n bytes, sent in order.
LEMMA PositionsAre ==
    ASSUME NEW n \in Lengths
    PROVE  Positions(0, n) \in Seq(1..MaxLength) /\ Len(Positions(0, n)) = n
<1>1. n \in Nat /\ MaxLength \in Nat /\ n <= MaxLength
  BY CurlAssumption DEF Lengths
<1>2. Positions(0, n) \in [1..n -> 1..MaxLength]
  BY <1>1 DEF Positions
<1>. QED BY <1>1, <1>2, SeqDef, LenProperties

\* The next piece goes where the bytes before it end.
LEMMA PositionsJoin ==
    ASSUME NEW a \in Nat, NEW n \in Nat
    PROVE  Positions(0, a) \o Positions(a, n) = Positions(0, a + n)
<1>1. /\ Positions(0, a) \in Seq(Nat) /\ Len(Positions(0, a)) = a
      /\ Positions(a, n) \in Seq(Nat) /\ Len(Positions(a, n)) = n
      /\ Positions(0, a + n) \in Seq(Nat) /\ Len(Positions(0, a + n)) = a + n
  <2>1. ASSUME NEW x \in Nat, NEW y \in Nat
        PROVE  Positions(x, y) \in Seq(Nat) /\ Len(Positions(x, y)) = y
    <3>1. Positions(x, y) \in [1..y -> Nat]
      BY DEF Positions
    <3>. QED BY <3>1, SeqDef, LenProperties
  <2>. QED BY <2>1
<1>. DEFINE p == Positions(0, a)
            q == Positions(a, n)
            r == Positions(0, a + n)
<1>2. /\ p \o q \in Seq(Nat) /\ Len(p \o q) = a + n
      /\ \A i \in 1..(a + n) : (p \o q)[i] = IF i <= a THEN p[i] ELSE q[i - a]
  <2>1. p \in Seq(Nat) /\ q \in Seq(Nat) /\ Len(p) = a /\ Len(q) = n
    BY <1>1
  <2>. HIDE DEF p, q
  <2>2. /\ p \o q \in Seq(Nat) /\ Len(p \o q) = Len(p) + Len(q)
        /\ \A i \in 1..(Len(p) + Len(q)) :
              (p \o q)[i] = IF i <= Len(p) THEN p[i] ELSE q[i - Len(p)]
    BY <2>1, ConcatProperties, Zenon
  <2>. QED BY <2>1, <2>2
<1>3. ASSUME NEW i \in 1..(a + n)
      PROVE  (p \o q)[i] = r[i]
  <2>1. r[i] = i
    BY DEF Positions
  <2>2. CASE i <= a
    BY <1>2, <2>1, <2>2 DEF Positions
  <2>3. CASE ~(i <= a)
    <3>1. i - a \in 1..n /\ a + (i - a) = i
      BY <2>3
    <3>2. q[i - a] = i
      BY <3>1 DEF Positions
    <3>. QED BY <1>2, <2>1, <2>3, <3>2
  <2>. QED BY <2>2, <2>3
<1>. HIDE DEF p, q, r
<1>4. p \o q = r
  <2>1. r \in Seq(Nat) /\ Len(r) = a + n
    BY <1>1 DEF r
  <2>. QED BY <1>2, <1>3, <2>1, SeqEqual
<1>. QED BY <1>4 DEF p, q, r

\* A piece of at least one byte, of those that are left.
LEMMA NextPiece ==
    ASSUME NEW k \in Nat, NEW n \in Nat, k + n \in Lengths, wire = Positions(0, k),
           wire' = wire \o Positions(k, n)
    PROVE  wire' \in Seq(1..MaxLength) /\ wire' = Positions(0, k + n) /\ Len(wire') = k + n
<1>1. wire' = Positions(0, k + n)
  BY PositionsJoin
<1>. QED BY <1>1, PositionsAre

-----------------------------------------------------------------------------
(* The options of the easy handle.                                         *)

\* _set_request_options begins with a handle that has no body and no verb of its own.
LEMMA ResetOptions ==
    ASSUME NEW e \in EasyOptions
    PROVE  /\ Reset(e) \in EasyOptions
           /\ Reset(e).custom = "none" /\ Reset(e).postSize = -1 /\ Reset(e).inSize = -1
           /\ Reset(e).data = "null" /\ Reset(e).post = "null" /\ Reset(e).verb = "POST"
           /\ Reset(e).list = e.list /\ Reset(e).sinks = e.sinks /\ Reset(e).read = e.read
BY DEF Reset, EasyOptions

\* What a call leaves in the handle.
LEMMA StaleOptions ==
    ASSUME NEW e \in EasyOptions
    PROVE  Stale(e) \in EasyOptions
<1>. DEFINE old(x) == IF x = "null" THEN "null" ELSE "stale"
            a == [e EXCEPT !.list = old(@)]
            b == [a EXCEPT !.data = old(@)]
            c == [b EXCEPT !.post = old(@)]
            d == [c EXCEPT !.sinks = old(@)]
<1>1. a \in EasyOptions
  BY DEF EasyOptions
<1>. HIDE DEF a
<1>2. b \in EasyOptions
  BY <1>1 DEF EasyOptions
<1>. HIDE DEF b
<1>3. c \in EasyOptions
  BY <1>2 DEF EasyOptions
<1>. HIDE DEF c
<1>4. d \in EasyOptions
  BY <1>3 DEF EasyOptions
<1>5. Stale(e) = d
  BY DEF Stale, EasyOptions, a, b, c
<1>. QED BY <1>4, <1>5

LEMMA StalePointers ==
    ASSUME NEW e \in EasyOptions
    PROVE  "own" \notin {Stale(e).list, Stale(e).data, Stale(e).post, Stale(e).sinks}
<1>. DEFINE old(x) == IF x = "null" THEN "null" ELSE "stale"
            a == [e EXCEPT !.list = old(@)]
            b == [a EXCEPT !.data = old(@)]
            c == [b EXCEPT !.post = old(@)]
            d == [c EXCEPT !.sinks = old(@)]
<1>1. Stale(e) = d
  BY DEF Stale, EasyOptions
<1>2. a \in EasyOptions /\ a.list = old(e.list)
  BY DEF EasyOptions
<1>. HIDE DEF a
<1>3. b \in EasyOptions /\ b.list = old(e.list) /\ b.data = old(a.data)
  BY <1>2 DEF EasyOptions
<1>. HIDE DEF b
<1>4. c \in EasyOptions /\ c.list = old(e.list) /\ c.data = old(a.data) /\ c.post = old(b.post)
  BY <1>3 DEF EasyOptions
<1>. HIDE DEF c
<1>5. d.list = old(e.list) /\ d.data = old(a.data) /\ d.post = old(b.post) /\ d.sinks = old(c.sinks)
  BY <1>4 DEF EasyOptions
<1>. HIDE DEF d
<1>. QED BY <1>1, <1>5

LEMMA HeaderOptions ==
    ASSUME NEW e \in EasyOptions, NEW kept \in Seq({"chunked", "header", "expect"})
    PROVE  /\ HeaderOption(e, kept) \in EasyOptions
           /\ HeaderOption(e, kept).list \in {"null", "own"}
           /\ HeaderOption(e, kept).verb = e.verb /\ HeaderOption(e, kept).custom = e.custom
           /\ HeaderOption(e, kept).post = e.post /\ HeaderOption(e, kept).postSize = e.postSize
           /\ HeaderOption(e, kept).inSize = e.inSize /\ HeaderOption(e, kept).read = e.read
           /\ HeaderOption(e, kept).data = e.data /\ HeaderOption(e, kept).sinks = e.sinks
BY DEF HeaderOption, EasyOptions

LEMMA PayloadOptionsAre ==
    ASSUME NEW e \in EasyOptions, request.size \in Lengths
    PROVE  /\ PayloadOptions(e) \in EasyOptions
           /\ PayloadOptions(e).verb = "PUT" /\ PayloadOptions(e).data = "own"
           /\ PayloadOptions(e).post = e.post
           /\ PayloadOptions(e).custom = e.custom
           /\ request.body = "callback" => PayloadOptions(e).read = "stream"
           /\ request.body # "callback" =>
                 PayloadOptions(e).read = "default" /\ PayloadOptions(e).inSize = request.size
BY DEF PayloadOptions, EasyOptions

\* After MethodOptions the handle holds the verb and the body of the request.
LEMMA MethodOptionsAre ==
    ASSUME Typed, RequestIsSane, request.method \in Supported, NEW e \in EasyOptions,
           e.custom = "none", e.postSize = -1, e.data = "null", e.post = "null", e.verb = "POST"
    PROVE  LET m == MethodOptions(e) IN
           /\ m \in EasyOptions
           /\ "stale" \notin {m.data, m.post}
           /\ m.custom = IF request.method = "PATCH" THEN "PATCH" ELSE "none"
           /\ request.method = "GET" => m.verb = "GET"
           /\ request.method = "POST" =>
               /\ m.verb = "POST"
               /\ request.body # "callback" =>
                     m.postSize = request.size /\ (m.post # "null" \/ request.size = 0)
               /\ request.body = "callback" =>
                     m.post = "null" /\ m.postSize = -1 /\ m.read = "stream" /\ m.data = "own"
           /\ request.method \in {"PUT", "PATCH"} =>
               /\ m.verb = "PUT" /\ m.data = "own"
               /\ request.body = "callback" => m.read = "stream"
               /\ request.body # "callback" => m.read = "default" /\ m.inSize = request.size
<1>1. request.size \in Lengths /\ request.body \in {"none", "buffer", "callback"}
  BY DEF Typed, Requests
<1>2. CASE request.method = "GET"
  <2>1. MethodOptions(e) = [e EXCEPT !.verb = "GET"]
    BY <1>2 DEF MethodOptions
  <2>. QED BY <1>2, <2>1 DEF EasyOptions
<1>3. CASE request.method = "POST" /\ request.body # "callback"
  <2>1. MethodOptions(e) = [e EXCEPT !.post = IF request.body = "buffer" THEN "own" ELSE "null",
                                     !.postSize = request.size]
    BY <1>3 DEF MethodOptions
  <2>2. request.body = "none" => request.size = 0
    BY DEF RequestIsSane
  <2>. QED BY <1>1, <1>3, <2>1, <2>2 DEF EasyOptions
<1>4. CASE request.method = "POST" /\ request.body = "callback"
  <2>1. MethodOptions(e) = [e EXCEPT !.read = "stream", !.data = "own"]
    BY <1>4 DEF MethodOptions
  <2>. QED BY <1>4, <2>1 DEF EasyOptions
<1>5. CASE request.method = "PUT"
  <2>1. MethodOptions(e) = PayloadOptions(e)
    BY <1>5 DEF MethodOptions
  <2>. QED BY <1>1, <1>5, <2>1, PayloadOptionsAre
<1>6. CASE request.method = "PATCH"
  <2>. DEFINE p == PayloadOptions(e)
  <2>1. MethodOptions(e) = [p EXCEPT !.custom = "PATCH"]
    BY <1>6 DEF MethodOptions
  <2>2. /\ p \in EasyOptions /\ p.verb = "PUT" /\ p.data = "own" /\ p.post = "null"
        /\ request.body = "callback" => p.read = "stream"
        /\ request.body # "callback" => p.read = "default" /\ p.inSize = request.size
    BY <1>1, PayloadOptionsAre
  <2>. HIDE DEF p
  <2>. QED BY <1>6, <2>1, <2>2 DEF EasyOptions
<1>. QED BY <1>2, <1>3, <1>4, <1>5, <1>6 DEF Supported

\* The sinks of the response are not set here.
LEMMA MethodKeepsSinks ==
    ASSUME NEW e \in EasyOptions, request.method \in Supported
    PROVE  MethodOptions(e).sinks = e.sinks
<1>1. PayloadOptions(e).sinks = e.sinks /\ [PayloadOptions(e) EXCEPT !.custom = "PATCH"].sinks = e.sinks
  BY DEF PayloadOptions, EasyOptions
<1>. QED BY <1>1 DEF MethodOptions, EasyOptions, Supported

-----------------------------------------------------------------------------
(* The invariant is inductive.                                             *)

LEMMA TypedIsTypeOK ==
    Typed => TypeOK
BY DEF Typed, TypeOK, Clients, EasyOptions, Requests, Places, Allocations, Codes, SendingTyped,
       ReceivingTyped

\* Between calls nothing is sent or received.
LEMMA NothingIsTyped ==
    /\ 0 \in Lengths /\ <<>> \in Seq(1..MaxLength)
    /\ NewRequest \in Requests /\ NewEasy \in EasyOptions
<1>1. 0 \in Lengths
  BY CurlAssumption DEF Lengths
<1>2. NewEasy \in EasyOptions
  BY <1>1, EmptySeq DEF NewEasy, EasyOptions
<1>3. NewRequest \in Requests
  BY <1>1 DEF NewRequest, Methods, Requests
<1>. QED BY <1>1, <1>2, <1>3, EmptySeq

LEMMA InitHolds == Init => IInv
<1>. SUFFICES ASSUME Init PROVE IInv
  OBVIOUS
<1>1. Typed
  BY NothingIsTyped DEF Init, NoCall, Typed, SendingTyped, ReceivingTyped, Places, Codes
<1>. QED BY <1>1 DEF Init, NewRequest, NewEasy, IInv, RequestIsSane, OptionsFit, OptionsAreOwn,
            OptionsAreEmpty, BodyIsLeft, ServedInFull, AnswerIsLeft, NothingYet, NoCall,
            Performing, Asked, Supported

\* The handle is made, given certificates and freed between calls, and a crash ends all.
LEMMA HandleStep ==
    ASSUME IInv, Initialize \/ AddCertificate \/ Destroy \/ Finish \/ Restart
    PROVE  IInv'
<1>. USE DEF IInv
<1>3. CASE Initialize
  <2>1. Typed'
    BY <1>3, NothingIsTyped, EmptySeq
    DEF Initialize, Typed, SendingTyped, ReceivingTyped, Clients, callVars
  <2>. QED BY <1>3, <2>1 DEF Initialize, callVars, RequestIsSane, OptionsFit, OptionsAreOwn,
              OptionsAreEmpty, BodyIsLeft, ServedInFull, AnswerIsLeft, NothingYet, NoCall,
              Performing, Asked, Supported
<1>4. CASE AddCertificate
  <2>1. PICK c \in Certificates :
            client' = CaOptions([client EXCEPT !.certificates = Append(@, c)], c)
    BY <1>4 DEF AddCertificate
  <2>2. c \in Certificate
    BY CurlAssumption
  <2>. DEFINE d == [client EXCEPT !.certificates = Append(@, c)]
  <2>3. client \in Clients
    BY <1>4 DEF AddCertificate, Typed
  <2>4. d \in Clients
    BY <2>2, <2>3 DEF Clients
  <2>. HIDE DEF d
  <2>5. [d EXCEPT !.caInfo = c] \in Clients /\ [d EXCEPT !.callback = TRUE] \in Clients
    BY <2>2, <2>4 DEF Clients
  <2>6. client' \in Clients
    BY <2>1, <2>5 DEF d, CaOptions
  <2>7. Typed'
    BY <1>4, <2>6 DEF AddCertificate, Typed, SendingTyped, ReceivingTyped, callVars
  <2>. QED BY <1>4, <2>7 DEF AddCertificate, callVars, RequestIsSane, OptionsFit, OptionsAreOwn,
              OptionsAreEmpty, BodyIsLeft, ServedInFull, AnswerIsLeft, NothingYet, NoCall,
              Performing, Asked, Supported
<1>5. CASE Destroy
  <2>1. Typed'
    BY <1>5, NothingIsTyped DEF Destroy, Typed, SendingTyped, ReceivingTyped, callVars
  <2>. QED BY <1>5, <2>1 DEF Destroy, callVars, RequestIsSane, OptionsFit, OptionsAreOwn,
              OptionsAreEmpty, BodyIsLeft, ServedInFull, AnswerIsLeft, NothingYet, NoCall,
              Performing, Asked, Supported
<1>6. CASE Finish
  <2>1. Typed'
    BY <1>6, NothingIsTyped
    DEF Finish, GoNoCall, Typed, SendingTyped, ReceivingTyped, Places, Codes
  <2>. QED BY <1>6, <2>1 DEF Finish, GoNoCall, NewRequest, RequestIsSane, OptionsFit,
              OptionsAreOwn, OptionsAreEmpty, BodyIsLeft, ServedInFull, AnswerIsLeft,
              NothingYet, NoCall, Performing, Asked, Supported
<1>7. CASE Restart
  <2>1. Typed'
    BY <1>7, NothingIsTyped
    DEF Restart, GoNoCall, Typed, SendingTyped, ReceivingTyped, Places, Codes
  <2>. QED BY <1>7, <2>1 DEF Restart, GoNoCall, NewRequest, RequestIsSane, OptionsFit,
              OptionsAreOwn, OptionsAreEmpty, BodyIsLeft, ServedInFull, AnswerIsLeft,
              NothingYet, NoCall, Performing, Asked, Supported
<1>. QED BY <1>3, <1>4, <1>5, <1>6, <1>7

\* mcl_http_client_send begins.
LEMMA BeginStep ==
    ASSUME IInv, Begin
    PROVE  IInv'
<1>. USE DEF IInv
<1>1. PICK method \in Methods, b \in Bodies :
          request' = [method |-> method, body |-> b.body, length |-> b.length, size |-> b.size]
  BY DEF Begin
<1>2. /\ b.body \in {"none", "buffer", "callback"} /\ b.length \in Lengths /\ b.size \in Lengths
      /\ b.body = "none" => b.length = 0 /\ b.size = 0
      /\ b.body = "buffer" => b.size = b.length
      /\ b.body = "callback" => b.size \in {0, b.length}
  BY CurlAssumption DEF Bodies, Lengths
<1>3. RequestIsSane'
  BY <1>1, <1>2 DEF RequestIsSane
<1>4. Typed'
  <2>1. request' \in Requests
    BY <1>1, <1>2 DEF Requests
  <2>. QED BY <2>1 DEF Begin, Typed, SendingTyped, ReceivingTyped, Places, callVars
<1>5. NothingYet' /\ AnswerIsLeft' /\ ServedInFull'
  BY DEF Begin, callVars, NothingYet, NoCall, AnswerIsLeft, ServedInFull
<1>6. OptionsFit' /\ BodyIsLeft'
  BY DEF Begin, OptionsFit, BodyIsLeft, Performing
<1>. QED BY <1>3, <1>4, <1>5, <1>6

\* _set_request_options, whatever header lines the memory was short for.
LEMMA SetRequestOptionsStep ==
    ASSUME IInv, SetRequestOptions
    PROVE  IInv'
<1>. USE DEF IInv
<1>. DEFINE Lines == {"chunked", "header", "expect"}
<1>1. HeaderLines \in Seq(Lines) /\ Len(HeaderLines) \in Nat
  <2>1. [i \in 1..Headers |-> "header"] \in Seq(Lines)
    BY CurlAssumption, SeqDef
  <2>2. <<"chunked">> \in Seq(Lines) /\ << >> \in Seq(Lines) /\ <<"expect">> \in Seq(Lines)
    OBVIOUS
  <2>3. HeaderLines \in Seq(Lines)
    <3>1. (IF Chunked THEN <<"chunked">> ELSE << >>) \in Seq(Lines)
      BY <2>2
    <3>2. (IF Chunked THEN <<"chunked">> ELSE << >>) \o [i \in 1..Headers |-> "header"] \in Seq(Lines)
      BY <2>1, <3>1, ConcatProperties, Zenon
    <3>. QED BY <2>2, <3>2, ConcatProperties, Zenon DEF HeaderLines
  <2>. QED BY <2>3, LenProperties
<1>2. PICK short \in 0..Len(HeaderLines) :
        /\ easy' = HeaderOption(MethodOptions(Reset(easy)), SubSeq(HeaderLines, short + 1, Len(HeaderLines)))
        /\ heap' = (IF SubSeq(HeaderLines, short + 1, Len(HeaderLines)) = <<>> THEN {} ELSE {"list"})
                   \cup (IF short > 1 THEN {"lost list"} ELSE {})
  BY DEF SetRequestOptions
<1>. DEFINE kept == SubSeq(HeaderLines, short + 1, Len(HeaderLines))
            m == MethodOptions(Reset(easy))
<1>3. kept \in Seq(Lines)
  <2>1. \A i \in short + 1 .. Len(HeaderLines) : HeaderLines[i] \in Lines
    BY <1>1, ElementOfSeq
  <2>2. short + 1 \in Int /\ Len(HeaderLines) \in Int
    BY <1>1
  <2>3. \A i \in (short + 1) .. Len(HeaderLines) : i \in 1 .. Len(HeaderLines)
    BY <1>1
  <2>. HIDE DEF Lines
  <2>. QED BY <1>1, <2>1, <2>2, <2>3, SubSeqProperties
<1>. HIDE DEF kept
<1>4. easy \in EasyOptions /\ request.method \in Supported
  BY DEF Typed, SetRequestOptions
<1>5. /\ m \in EasyOptions
      /\ "stale" \notin {m.data, m.post}
      /\ m.custom = IF request.method = "PATCH" THEN "PATCH" ELSE "none"
      /\ request.method = "GET" => m.verb = "GET"
      /\ request.method = "POST" =>
          /\ m.verb = "POST"
          /\ request.body # "callback" =>
                m.postSize = request.size /\ (m.post # "null" \/ request.size = 0)
          /\ request.body = "callback" =>
                m.post = "null" /\ m.postSize = -1 /\ m.read = "stream" /\ m.data = "own"
      /\ request.method \in {"PUT", "PATCH"} =>
          /\ m.verb = "PUT" /\ m.data = "own"
          /\ request.body = "callback" => m.read = "stream"
          /\ request.body # "callback" => m.read = "default" /\ m.inSize = request.size
  BY <1>4, ResetOptions, MethodOptionsAre
<1>. HIDE DEF m
<1>6. easy' = HeaderOption(m, kept)
  BY <1>2 DEF m, kept
<1>7. easy' \in EasyOptions /\ easy'.list # "stale"
      /\ easy'.verb = m.verb /\ easy'.custom = m.custom
      /\ easy'.post = m.post /\ easy'.postSize = m.postSize
      /\ easy'.inSize = m.inSize /\ easy'.read = m.read /\ easy'.data = m.data
  BY <1>3, <1>5, <1>6, HeaderOptions
<1>8. OptionsAreOwn'
  BY <1>5, <1>7 DEF OptionsAreOwn, SetRequestOptions
<1>9. pc' = "sinks" /\ request' = request /\ OptionsFit'
  BY <1>4, <1>8 DEF OptionsFit, Performing, SetRequestOptions
<1>10. Typed'
  <2>1. heap' \subseteq {"list", "lost list", "response header", "payload", "old payload", "response"}
    BY <1>2
  <2>2. source' \in Lengths
    <3>1. source' = IF request.body = "callback" THEN request.length ELSE 0
      BY DEF SetRequestOptions
    <3>2. request.length \in Lengths
      BY DEF Typed, Requests
    <3>. QED BY <3>1, <3>2, NothingIsTyped
  <2>. QED BY <1>7, <2>1, <2>2
           DEF SetRequestOptions, Typed, SendingTyped, ReceivingTyped, Places, Allocations
<1>11. RequestIsSane' /\ BodyIsLeft'
  BY DEF SetRequestOptions, RequestIsSane, BodyIsLeft, NothingYet, NoCall
<1>12. ServedInFull' /\ AnswerIsLeft' /\ NothingYet'
  BY DEF SetRequestOptions, ServedInFull, AnswerIsLeft, NothingYet, NoCall
<1>. QED BY <1>9, <1>10, <1>11, <1>12

\* A method the client does not know.
LEMMA SetUnsupportedStep ==
    ASSUME IInv, SetUnsupported
    PROVE  IInv'
<1>. USE DEF IInv
<1>1. /\ easy' \in EasyOptions
      /\ easy'.verb = "POST" /\ easy'.post = "null" /\ easy'.postSize = -1 /\ easy'.data = "null"
  BY ResetOptions DEF Typed, SetUnsupported
<1>2. Typed'
  BY <1>1 DEF SetUnsupported, Typed, SendingTyped, ReceivingTyped, Places, callVars
<1>3. OptionsFit'
  BY <1>1 DEF SetUnsupported, OptionsFit, OptionsAreEmpty, Performing
<1>4. RequestIsSane' /\ BodyIsLeft'
  BY DEF SetUnsupported, RequestIsSane, BodyIsLeft, NothingYet, NoCall, callVars
<1>5. ServedInFull' /\ AnswerIsLeft' /\ NothingYet'
  BY DEF SetUnsupported, ServedInFull, AnswerIsLeft, NothingYet, NoCall, callVars
<1>. QED BY <1>2, <1>3, <1>4, <1>5

\* A call ends early, for whatever reason: nothing of it is left in use.
LEMMA LeaveStep ==
    ASSUME IInv, pc \in {"sinks", "connect", "send", "sent", "receive"},
           NEW code \in Codes \ {"none", "OK"}, NEW lost \in SUBSET Allocations, Leave(code, lost)
    PROVE  IInv'
<1>. USE DEF IInv
<1>1. Typed'
  <2>1. easy' \in EasyOptions
    BY StaleOptions DEF Leave, Typed
  <2>2. heap' \subseteq Allocations /\ result' \in Codes /\ pc' \in Places
    BY DEF Leave, Typed, Places
  <2>. QED BY <2>1, <2>2 DEF Leave, Typed, SendingTyped, ReceivingTyped, callVars
<1>2. RequestIsSane' /\ OptionsFit' /\ BodyIsLeft'
  BY DEF Leave, RequestIsSane, OptionsFit, BodyIsLeft, Performing
<1>3. ServedInFull'
  BY DEF Leave, callVars, ServedInFull, Asked
<1>4. AnswerIsLeft' /\ NothingYet'
  BY DEF Leave, callVars, AnswerIsLeft, ServedInFull, NothingYet
<1>. QED BY <1>1, <1>2, <1>3, <1>4

\* The reasons there are.
LEMMA FailureStep ==
    ASSUME IInv, RefuseService \/ Fault \/ TimeOut
    PROVE  IInv'
<1>1. ASSUME NEW code \in Codes \ {"none", "OK"}, Leave(code, {}),
             pc \in {"connect", "send", "sent", "receive"}
      PROVE  IInv'
  BY <1>1, LeaveStep
<1>2. /\ "IMPROPER_CERTIFICATE" \in Codes \ {"none", "OK"} /\ "NOT_VERIFIED" \in Codes \ {"none", "OK"}
      /\ "FAIL" \in Codes \ {"none", "OK"} /\ "NETWORK_SEND_FAIL" \in Codes \ {"none", "OK"}
      /\ "NETWORK_RECEIVE_FAIL" \in Codes \ {"none", "OK"} /\ "REQUEST_TIMEOUT" \in Codes \ {"none", "OK"}
      /\ {"COULD_NOT_CONNECT", "SSL_HANDSHAKE_FAIL", "OUT_OF_MEMORY"} \subseteq Codes \ {"none", "OK"}
  BY DEF Codes
<1>3. CASE RefuseService
  BY <1>1, <1>2, <1>3 DEF RefuseService
<1>4. CASE ConnectFails
  BY <1>1, <1>2, <1>4 DEF ConnectFails
<1>5. CASE SendFails
  BY <1>1, <1>2, <1>5 DEF SendFails
<1>6. CASE ReceiveFails
  BY <1>1, <1>2, <1>6 DEF ReceiveFails
<1>7. CASE TimeOut
  BY <1>1, <1>2, <1>7 DEF TimeOut
<1>8. CASE ResizeFails
  <2>. DEFINE lost == IF "payload" \in heap THEN {"old payload"} ELSE {}
  <2>1. lost \in SUBSET Allocations
    BY DEF Allocations
  <2>2. Leave("FAIL", lost) /\ pc = "receive"
    BY <1>8 DEF ResizeFails
  <2>. HIDE DEF lost
  <2>. QED BY <1>2, <2>1, <2>2, LeaveStep
<1>. QED BY <1>3, <1>4, <1>5, <1>6, <1>7, <1>8 DEF Fault

\* The sinks of the response are set, and libcurl connects.
LEMMA ConnectStep ==
    ASSUME IInv, PrepareResponse \/ Connect
    PROVE  IInv'
<1>. USE DEF IInv
<1>1. CASE PrepareResponse
  <2>1. CASE Leave("OUT_OF_MEMORY", {})
    <3>1. "OUT_OF_MEMORY" \in Codes \ {"none", "OK"} /\ {} \in SUBSET Allocations /\ pc = "sinks"
      BY <1>1 DEF Codes, PrepareResponse
    <3>. QED BY <2>1, <3>1, LeaveStep
  <2>2. CASE /\ pc' = "connect"
             /\ easy' = [easy EXCEPT !.sinks = "own"]
             /\ heap' = heap \cup {"response header"}
             /\ UNCHANGED <<client, request, callVars, result>>
    <3>1. /\ easy' \in EasyOptions /\ easy'.sinks = "own"
          /\ easy'.verb = easy.verb /\ easy'.custom = easy.custom
          /\ easy'.post = easy.post /\ easy'.postSize = easy.postSize
          /\ easy'.inSize = easy.inSize /\ easy'.read = easy.read /\ easy'.data = easy.data
          /\ easy'.list = easy.list
      BY <2>2 DEF Typed, EasyOptions
    <3>2. heap' \subseteq Allocations
      BY <2>2 DEF Typed, Allocations
    <3>3. Typed'
      BY <2>2, <3>1, <3>2 DEF Typed, SendingTyped, ReceivingTyped, Places, callVars
    <3>4. pc = "sinks"
      BY <1>1 DEF PrepareResponse
    <3>5. OptionsFit'
      BY <2>2, <3>1, <3>4 DEF OptionsFit, OptionsAreOwn, OptionsAreEmpty, Performing
    <3>6. RequestIsSane' /\ BodyIsLeft' /\ ServedInFull'
      BY <2>2, <3>4 DEF RequestIsSane, BodyIsLeft, ServedInFull, callVars
    <3>7. AnswerIsLeft' /\ NothingYet'
      BY <2>2, <3>4 DEF AnswerIsLeft, NothingYet, callVars
    <3>. QED BY <3>3, <3>5, <3>6, <3>7
  <2>. QED BY <1>1, <2>1, <2>2 DEF PrepareResponse
<1>2. CASE Connect
  <2>1. Typed'
    BY <1>2 DEF Connect, Typed, SendingTyped, ReceivingTyped, Places, callVars
  <2>2. OptionsFit'
    BY <1>2 DEF Connect, OptionsFit, OptionsAreOwn, OptionsAreEmpty, Performing
  <2>3. wire = <<>> /\ Len(wire) = 0 /\ offset = 0
    BY <1>2 DEF Connect, BodyIsLeft
  <2>4. wire = Positions(0, Len(wire))
    <3>1. Positions(0, 0) \in Seq(1..MaxLength) /\ Len(Positions(0, 0)) = 0
      BY PositionsAre, NothingIsTyped
    <3>. QED BY <2>3, <3>1, EmptySeq
  <2>5. BodyIsLeft'
    <3>1. request.length \in Nat
      BY CurlAssumption DEF Typed, Requests, Lengths
    <3>. QED BY <1>2, <2>3, <2>4, <3>1 DEF Connect, BodyIsLeft, RequestIsSane, Supported, callVars
  <2>6. RequestIsSane' /\ ServedInFull'
    BY <1>2 DEF Connect, RequestIsSane, ServedInFull, callVars
  <2>7. AnswerIsLeft' /\ NothingYet'
    BY <1>2 DEF Connect, AnswerIsLeft, NothingYet, callVars
  <2>. QED BY <2>1, <2>2, <2>5, <2>6, <2>7
<1>. QED BY <1>1, <1>2

\* While the body is sent, nothing but it and what it is taken from changes.
SendsOn(k, n) ==
    /\ pc = "send" /\ k = Len(wire) /\ wire' = wire \o Positions(k, n)
    /\ UNCHANGED <<client, easy, request, pc, stalled, ended, answer, lines, left, got, heap, result>>

\* A piece of the body is sent, from where the one before it ended.
LEMMA SendStep ==
    ASSUME IInv, NEW k \in Nat, NEW n \in Nat, SendsOn(k, n),
           request.method \in {"POST", "PUT", "PATCH"}, k + n <= request.length,
           source' \in Lengths, offset' \in Lengths,
           request.body = "callback" => k + n + source' = request.length,
           request.method # "POST" /\ request.body # "callback" => offset' = k + n
    PROVE  IInv'
<1>. USE DEF IInv
<1>1. wire' \in Seq(1..MaxLength) /\ wire' = Positions(0, k + n) /\ Len(wire') = k + n
  <2>1. k + n \in Lengths
    BY CurlAssumption DEF Typed, Requests, Lengths
  <2>2. wire = Positions(0, k) /\ wire' = wire \o Positions(k, n)
    BY DEF SendsOn, BodyIsLeft
  <2>. QED BY <2>1, <2>2, NextPiece
<1>2. Typed'
  BY <1>1 DEF SendsOn, Typed, SendingTyped, ReceivingTyped
<1>3. BodyIsLeft'
  BY <1>1 DEF SendsOn, BodyIsLeft
<1>4. RequestIsSane' /\ OptionsFit'
  BY DEF SendsOn, RequestIsSane, OptionsFit, OptionsAreOwn, OptionsAreEmpty, Performing
<1>5. ServedInFull' /\ AnswerIsLeft' /\ NothingYet'
  BY DEF SendsOn, ServedInFull, AnswerIsLeft, NothingYet
<1>. QED BY <1>2, <1>3, <1>4, <1>5

\* libcurl sends the fields, or asks the client's callback or the caller's for the next piece.
LEMMA SendingStep ==
    ASSUME IInv, SendFields \/ ReadDefault \/ ReadStream
    PROVE  IInv'
<1>. USE DEF IInv
<1>1. /\ pc = "send"
      /\ request.length \in Nat /\ request.size \in Nat /\ Len(wire) \in Nat
      /\ source \in Nat /\ offset \in Nat /\ MaxLength \in Nat /\ request.length <= MaxLength
      /\ source \in Lengths /\ offset \in Lengths
      /\ request.method \in Methods /\ request.body \in {"none", "buffer", "callback"}
  BY CurlAssumption, LenProperties
  DEF Typed, Requests, Lengths, SendingTyped, SendFields, ReadDefault, ReadStream
<1>2. IF request.method \in Supported THEN OptionsAreOwn ELSE OptionsAreEmpty
  BY <1>1 DEF OptionsFit, Performing
<1>3. wire = Positions(0, Len(wire))
  BY <1>1 DEF BodyIsLeft
<1>4. CASE SendFields
  <2>1. easy.verb = "POST" /\ (easy.post # "null" \/ easy.postSize = 0) /\ Len(wire) < easy.postSize
    BY <1>4 DEF SendFields, FromFields
  <2>2. request.method = "POST" /\ request.body # "callback" /\ easy.postSize = request.size
    BY <1>1, <1>2, <2>1 DEF OptionsAreOwn, OptionsAreEmpty, Supported, Methods
  <2>3. request.size = request.length
    BY <1>1, <2>2 DEF RequestIsSane
  <2>4. PICK n \in 1..(easy.postSize - Len(wire)) : wire' = wire \o Positions(Len(wire), n)
    BY <1>4 DEF SendFields
  <2>5. n \in Nat /\ Len(wire) + n <= request.length
    BY <1>1, <2>2, <2>3, <2>4
  <2>6. SendsOn(Len(wire), n) /\ source' = source /\ offset' = offset
    BY <1>4, <2>4 DEF SendFields, SendsOn
  <2>. QED BY <1>1, <2>2, <2>5, <2>6, SendStep
<1>5. CASE ReadDefault
  <2>1. easy.verb = "PUT" /\ easy.read = "default"
    BY <1>5 DEF ReadDefault
  <2>2. request.method \in {"PUT", "PATCH"} /\ request.body # "callback"
    BY <1>1, <1>2, <2>1 DEF OptionsAreOwn, OptionsAreEmpty, Supported, Methods
  <2>3. request.size = request.length /\ offset = Len(wire)
    BY <1>1, <2>2 DEF RequestIsSane, BodyIsLeft
  <2>4. PICK n \in 1..RemainingSize : wire' = wire \o Positions(offset, n) /\ offset' = offset + n
    BY <1>5 DEF ReadDefault
  <2>5. n \in Nat /\ Len(wire) + n <= request.length /\ offset' = Len(wire) + n
    BY <1>1, <2>3, <2>4 DEF RemainingSize
  <2>6. SendsOn(Len(wire), n) /\ source' = source
    BY <1>5, <2>3, <2>4 DEF ReadDefault, SendsOn
  <2>7. offset' \in Lengths
    BY <1>1, <2>5 DEF Lengths
  <2>. QED BY <1>1, <2>2, <2>5, <2>6, <2>7, SendStep
<1>6. CASE ReadStream
  <2>1. easy.verb \in {"POST", "PUT"} /\ easy.read = "stream" /\ easy.data = "own" /\ ~FromFields
    BY <1>6 DEF ReadStream
  <2>2. request.method \in {"POST", "PUT", "PATCH"} /\ request.body = "callback"
    BY <1>1, <1>2, <2>1 DEF OptionsAreOwn, OptionsAreEmpty, Supported, Methods, FromFields,
       RequestIsSane
  <2>3. Len(wire) + source = request.length
    BY <1>1, <2>2 DEF BodyIsLeft
  <2>4. PICK n \in 1..source : wire' = wire \o Positions(request.length - source, n) /\ source' = source - n
    BY <1>6 DEF ReadStream
  <2>5. /\ n \in Nat /\ Len(wire) + n <= request.length /\ Len(wire) + n + source' = request.length
        /\ request.length - source = Len(wire) /\ source' \in Lengths
    BY <1>1, <2>3, <2>4 DEF Lengths
  <2>6. SendsOn(Len(wire), n) /\ offset' = offset
    BY <1>6, <2>4, <2>5 DEF ReadStream, SendsOn
  <2>. QED BY <1>1, <2>2, <2>5, <2>6, SendStep
<1>. QED BY <1>4, <1>5, <1>6

\* The request is sent in full: there is nothing left where its body is taken from.
LEMMA EndSendStep ==
    ASSUME IInv, EndSend
    PROVE  IInv' /\ Len(wire) = Asked
<1>. USE DEF IInv
<1>1. /\ request.length \in Nat /\ request.size \in Nat /\ Len(wire) \in Nat /\ source \in Nat
      /\ request.method \in Methods /\ request.body \in {"none", "buffer", "callback"}
      /\ pc = "send" /\ IsSent
  BY CurlAssumption, LenProperties DEF Typed, Requests, Lengths, SendingTyped, EndSend
<1>2. IF request.method \in Supported THEN OptionsAreOwn ELSE OptionsAreEmpty
  BY <1>1 DEF OptionsFit, Performing
<1>3. request.method \in Supported /\ Len(wire) = Asked
  <2>1. CASE request.method \notin Supported
    <3>1. easy.verb # "GET" /\ ~FromFields /\ Declared = -1 /\ easy.data # "own"
      BY <1>2, <2>1 DEF OptionsAreEmpty, FromFields, Declared
    <3>2. ~IsSent
      BY <1>1, <3>1 DEF IsSent
    <3>. QED BY <1>1, <3>2
  <2>2. CASE request.method = "GET"
    BY <1>1, <2>2 DEF BodyIsLeft, Asked, Supported
  <2>3. CASE request.method = "POST" /\ request.body # "callback"
    <3>1. FromFields /\ easy.verb # "GET" /\ easy.postSize = request.size
      BY <1>2, <2>3 DEF OptionsAreOwn, Supported, FromFields
    <3>2. Len(wire) = request.size
      BY <1>1, <3>1 DEF IsSent
    <3>. QED BY <1>1, <2>3, <3>2 DEF RequestIsSane, Asked, Supported
  <2>4. CASE request.method \in {"PUT", "PATCH"} /\ request.body # "callback"
    <3>1. ~FromFields /\ easy.verb = "PUT" /\ easy.read = "default" /\ easy.inSize = request.size
      BY <1>2, <2>4 DEF OptionsAreOwn, Supported, FromFields
    <3>2. Len(wire) = request.size
      BY <1>1, <3>1 DEF IsSent, Declared
    <3>. QED BY <1>1, <2>4, <3>2 DEF RequestIsSane, Asked, Supported
  <2>5. CASE request.method \in {"POST", "PUT", "PATCH"} /\ request.body = "callback"
    <3>1. easy.verb # "GET" /\ ~FromFields /\ easy.read # "default"
      BY <1>2, <2>5 DEF OptionsAreOwn, Supported, FromFields
    <3>2. source = 0
      BY <1>1, <3>1 DEF IsSent
    <3>. QED BY <1>1, <2>5, <3>2 DEF BodyIsLeft, Asked, Supported
  <2>. QED BY <1>1, <2>1, <2>2, <2>3, <2>4, <2>5 DEF Supported, Methods
<1>4. wire = Positions(0, Asked)
  BY <1>1, <1>3 DEF BodyIsLeft
<1>5. Typed'
  BY DEF EndSend, Typed, SendingTyped, ReceivingTyped, Places
<1>6. RequestIsSane' /\ OptionsFit' /\ BodyIsLeft'
  BY DEF EndSend, RequestIsSane, OptionsFit, OptionsAreOwn, OptionsAreEmpty, BodyIsLeft, Performing
<1>7. ServedInFull'
  BY <1>3, <1>4 DEF EndSend, ServedInFull, Asked
<1>8. AnswerIsLeft' /\ NothingYet'
  BY DEF EndSend, AnswerIsLeft, NothingYet
<1>. QED BY <1>3, <1>5, <1>6, <1>7, <1>8

\* The answer comes, line by line and piece by piece.
LEMMA ReceivingStep ==
    ASSUME IInv, ServiceAnswers \/ ReceiveHeader \/ ReceivePayload
    PROVE  IInv'
<1>. USE DEF IInv
<1>1. MaxLength \in Nat /\ lines \in Nat /\ left \in 0..MaxLength /\ got \in 0..MaxLength
  BY CurlAssumption DEF Typed, ReceivingTyped, Lengths
<1>2. CASE ServiceAnswers
  <2>1. PICK a \in Answers : answer' = a /\ lines' = a.lines /\ left' = a.length
    BY <1>2 DEF ServiceAnswers
  <2>2. a.lines \in Nat /\ a.length \in Lengths /\ a.length \in Nat /\ a # Nothing
    BY CurlAssumption DEF Lengths
  <2>3. Typed'
    BY <1>2, <2>1, <2>2 DEF ServiceAnswers, Typed, SendingTyped, ReceivingTyped, Places
  <2>4. RequestIsSane' /\ OptionsFit' /\ BodyIsLeft'
    BY <1>2 DEF ServiceAnswers, RequestIsSane, OptionsFit, OptionsAreOwn, OptionsAreEmpty,
       BodyIsLeft, Performing
  <2>5. ServedInFull'
    BY <1>2 DEF ServiceAnswers, ServedInFull, Asked
  <2>6. AnswerIsLeft' /\ NothingYet'
    <3>1. got = 0 /\ ended
      BY <1>2 DEF ServiceAnswers, NothingYet, ServedInFull
    <3>. QED BY <1>2, <2>1, <2>2, <3>1 DEF ServiceAnswers, AnswerIsLeft, NothingYet
  <2>. QED BY <2>3, <2>4, <2>5, <2>6
<1>3. CASE ReceiveHeader
  <2>1. CASE Leave("FAIL", {})
    <3>1. "FAIL" \in Codes \ {"none", "OK"} /\ {} \in SUBSET Allocations /\ pc = "receive"
      BY <1>3 DEF Codes, ReceiveHeader
    <3>. QED BY <2>1, <3>1, LeaveStep
  <2>2. CASE ~Leave("FAIL", {})
    <3>1. /\ pc = "receive" /\ lines > 0 /\ lines' = lines - 1
          /\ UNCHANGED <<client, easy, request, pc, stalled, source, offset, wire, ended, answer, left, got,
                         heap, result>>
      BY <1>3, <2>2 DEF ReceiveHeader
    <3>2. Typed'
      BY <1>1, <3>1 DEF Typed, SendingTyped, ReceivingTyped
    <3>3. RequestIsSane' /\ OptionsFit' /\ BodyIsLeft'
      BY <3>1 DEF RequestIsSane, OptionsFit, OptionsAreOwn, OptionsAreEmpty, BodyIsLeft, Performing
    <3>4. ServedInFull' /\ AnswerIsLeft' /\ NothingYet'
      BY <3>1 DEF ServedInFull, Asked, AnswerIsLeft, NothingYet
    <3>. QED BY <3>2, <3>3, <3>4
  <2>. QED BY <2>1, <2>2
<1>4. CASE ReceivePayload
  <2>1. PICK n \in 1..left : got' = got + n /\ left' = left - n
    BY <1>4 DEF ReceivePayload, StorePiece
  <2>2. pc = "receive" /\ answer \in Answers /\ got + left = answer.length /\ answer.length \in 0..MaxLength
    BY <1>4, CurlAssumption DEF ReceivePayload, AnswerIsLeft, Typed, ReceivingTyped, Lengths
  <2>3. got' \in Lengths /\ left' \in Lengths /\ got' + left' = answer.length
    BY <1>1, <2>1, <2>2 DEF Lengths
  <2>4. Typed'
    BY <1>4, <2>3 DEF ReceivePayload, Typed, SendingTyped, ReceivingTyped, Allocations
  <2>5. RequestIsSane' /\ OptionsFit' /\ BodyIsLeft'
    BY <1>4 DEF ReceivePayload, RequestIsSane, OptionsFit, OptionsAreOwn, OptionsAreEmpty,
       BodyIsLeft, Performing
  <2>6. ServedInFull' /\ NothingYet'
    BY <1>4 DEF ReceivePayload, ServedInFull, Asked, NothingYet
  <2>7. AnswerIsLeft'
    BY <1>4, <2>3 DEF ReceivePayload, AnswerIsLeft
  <2>. QED BY <2>4, <2>5, <2>6, <2>7
<1>. QED BY <1>2, <1>3, <1>4

\* What takes place besides: the answer is handed over, the service stalls, a read function is
\* called with a null pointer.
LEMMA OtherStep ==
    ASSUME IInv, Deliver \/ ServiceStalls \/ ReadStale
    PROVE  IInv'
<1>. USE DEF IInv
<1>1. CASE Deliver
  <2>1. CASE Leave("OUT_OF_MEMORY", {})
    <3>1. "OUT_OF_MEMORY" \in Codes \ {"none", "OK"} /\ {} \in SUBSET Allocations /\ pc = "receive"
      BY <1>1 DEF Codes, Deliver
    <3>. QED BY <2>1, <3>1, LeaveStep
  <2>2. CASE ~Leave("OUT_OF_MEMORY", {})
    <3>1. /\ pc = "receive" /\ left = 0 /\ pc' = "done" /\ result' = "OK"
          /\ easy' = Stale(easy)
          /\ heap' = (heap \ {"list"}) \cup {"response"}
          /\ UNCHANGED <<client, request, callVars>>
      BY <1>1, <2>2 DEF Deliver
    <3>2. easy' \in EasyOptions /\ heap' \subseteq Allocations
      BY <3>1, StaleOptions DEF Typed, Allocations
    <3>3. Typed'
      BY <3>1, <3>2 DEF Typed, SendingTyped, ReceivingTyped, Places, Codes, callVars
    <3>4. RequestIsSane' /\ OptionsFit' /\ BodyIsLeft'
      BY <3>1 DEF RequestIsSane, OptionsFit, BodyIsLeft, Performing
    <3>5. ServedInFull' /\ NothingYet'
      BY <3>1 DEF ServedInFull, Asked, NothingYet, callVars
    <3>6. got = answer.length
      <4>1. got \in Nat
        BY CurlAssumption DEF Typed, ReceivingTyped, Lengths
      <4>. QED BY <3>1, <4>1 DEF AnswerIsLeft
    <3>7. AnswerIsLeft'
      BY <3>1, <3>6 DEF AnswerIsLeft, callVars
    <3>. QED BY <3>3, <3>4, <3>5, <3>7
  <2>. QED BY <2>1, <2>2
<1>2. CASE ServiceStalls
  <2>1. Typed'
    BY <1>2 DEF ServiceStalls, Typed, SendingTyped, ReceivingTyped
  <2>2. RequestIsSane' /\ OptionsFit' /\ BodyIsLeft'
    BY <1>2 DEF ServiceStalls, RequestIsSane, OptionsFit, OptionsAreOwn, OptionsAreEmpty,
       BodyIsLeft, Performing
  <2>3. ServedInFull' /\ AnswerIsLeft' /\ NothingYet'
    BY <1>2 DEF ServiceStalls, ServedInFull, Asked, AnswerIsLeft, NothingYet
  <2>. QED BY <2>1, <2>2, <2>3
<1>3. CASE ReadStale
  <2>1. request.method \in Methods /\ request.body \in {"none", "buffer", "callback"}
    BY DEF Typed, Requests
  <2>2. request.method \notin Supported
    BY <1>3, <2>1 DEF ReadStale, OptionsFit, OptionsAreOwn, Performing, FromFields, Supported,
       Methods, RequestIsSane
  <2>3. Typed'
    BY <1>3 DEF ReadStale, Typed, SendingTyped, ReceivingTyped, Places, callVars
  <2>4. RequestIsSane' /\ OptionsFit' /\ BodyIsLeft'
    BY <1>3, <2>2 DEF ReadStale, RequestIsSane, OptionsFit, BodyIsLeft, Performing
  <2>5. ServedInFull' /\ AnswerIsLeft' /\ NothingYet'
    BY <1>3 DEF ReadStale, ServedInFull, AnswerIsLeft, NothingYet, callVars
  <2>. QED BY <2>3, <2>4, <2>5
<1>. QED BY <1>1, <1>2, <1>3

\* The invariant the other theorems rest on: what the options of the handle, the body on its
\* way and the answer have to do with the request that the call is for.
THEOREM Invariance == Spec => []IInv
<1>1. ASSUME IInv, [Next]_vars
      PROVE  IInv'
  <2>1. CASE UNCHANGED vars
    <3>1. Typed' /\ RequestIsSane' /\ OptionsFit'
      BY <1>1, <2>1 DEF vars, callVars, IInv, Typed, SendingTyped, ReceivingTyped, RequestIsSane,
                        OptionsFit, OptionsAreOwn, OptionsAreEmpty, Performing
    <3>2. BodyIsLeft' /\ ServedInFull' /\ AnswerIsLeft' /\ NothingYet'
      BY <1>1, <2>1 DEF vars, callVars, IInv, BodyIsLeft, ServedInFull, Asked, AnswerIsLeft,
                        NothingYet, NoCall
    <3>. QED BY <3>1, <3>2 DEF IInv
  <2>2. CASE Next
    BY <1>1, <2>2, HandleStep, BeginStep, SetRequestOptionsStep, SetUnsupportedStep, FailureStep,
       ConnectStep, SendingStep, EndSendStep, ReceivingStep, OtherStep
    DEF Next, Transfer
  <2>. QED BY <1>1, <2>1, <2>2
<1>. QED BY InitHolds, <1>1, PTL DEF Spec

\* The options of the easy handle, the request and what has come of the answer stay in their
\* ranges, for bodies of any length (mcl_http_client_send).
THEOREM TypeCorrect == Spec => []TypeOK
<1>1. IInv => TypeOK
  BY TypedIsTypeOK DEF IInv
<1>. QED BY <1>1, Invariance, PTL

\* _set_request_options: a request of a method the client supports goes out with its own verb
\* and its own body, byte by byte, whatever was sent on the handle before, and neither it
\* nor a crash of it comes from a pointer of an earlier call.
THEOREM EveryRequestIsOwn == Spec => []OwnRequest
<1>1. ASSUME IInv
      PROVE  OwnRequest
  <2>1. pc = "crashed" => request.method \notin Supported
    BY <1>1 DEF IInv, OptionsFit
  <2>2. ASSUME pc \in {"sent", "receive"}, request.method \in Supported
        PROVE  /\ (IF easy.custom = "none" THEN easy.verb ELSE easy.custom) = request.method
               /\ wire = Positions(0, Asked)
               /\ "stale" \notin {easy.list, easy.data, easy.post, easy.sinks}
    <3>1. OptionsAreOwn /\ easy.sinks = "own"
      BY <1>1, <2>2 DEF IInv, OptionsFit, Performing
    <3>2. request.method = "PUT" => easy.verb = "PUT" /\ easy.custom = "none"
      BY <3>1 DEF OptionsAreOwn
    <3>3. wire = Positions(0, Asked)
      BY <1>1, <2>2 DEF IInv, ServedInFull
    <3>. QED BY <2>2, <3>1, <3>2, <3>3 DEF OptionsAreOwn, Supported
  <2>. QED BY <2>1, <2>2 DEF OwnRequest
<1>. QED BY <1>1, Invariance, PTL

-----------------------------------------------------------------------------
(* The pointers in the handle.                                             *)

\* No option that libcurl may follow points to memory that the call has freed; and once the call
\* is over, none is taken for a pointer to what it owned.
PointersAreAlive ==
    /\ easy.list = "own" /\ pc # "crashed" => "list" \in heap
    /\ easy.sinks = "own" /\ pc # "crashed" => "response header" \in heap
    /\ pc \in {"idle", "options", "done"} => "own" \notin {easy.list, easy.data, easy.post, easy.sinks}

LEMMA LeaveIsAlive ==
    ASSUME Typed, NEW code, NEW lost, Leave(code, lost)
    PROVE  PointersAreAlive'
<1>1. easy \in EasyOptions /\ easy' = Stale(easy)
  BY DEF Typed, Leave
<1>2. "own" \notin {easy'.list, easy'.data, easy'.post, easy'.sinks}
  BY <1>1, StalePointers
<1>. QED BY <1>2 DEF PointersAreAlive

\* What a call leaves in the options of the easy handle is marked as such, and in a call every
\* pointer that _set_request_options and mcl_http_client_send set is to memory that is alive.
THEOREM PointersStayAlive == Spec => []PointersAreAlive
<1>1. Init => PointersAreAlive
  BY DEF Init, NewEasy, PointersAreAlive
<1>2. ASSUME IInv, PointersAreAlive, [Next]_vars
      PROVE  PointersAreAlive'
  <2>. USE <1>2
  <2>1. easy \in EasyOptions /\ Typed
    BY DEF IInv, Typed
  <2>2. ASSUME UNCHANGED <<easy, pc>>, heap \subseteq heap'
        PROVE  PointersAreAlive'
    BY <2>2 DEF PointersAreAlive
  <2>3. CASE Initialize \/ Destroy \/ Restart
    <3>1. easy' = NewEasy
      BY <2>3 DEF Initialize, Destroy, Restart
    <3>2. NewEasy.list = "null" /\ NewEasy.data = "null" /\ NewEasy.post = "null" /\ NewEasy.sinks = "null"
      BY DEF NewEasy
    <3>. QED BY <3>1, <3>2 DEF PointersAreAlive
  <2>4. CASE AddCertificate \/ ServiceStalls
    BY <2>2, <2>4 DEF AddCertificate, ServiceStalls
  <2>5. CASE Begin \/ Finish
    BY <2>5 DEF Begin, Finish, PointersAreAlive
  <2>6. CASE SetRequestOptions
    <3>1. PICK short \in 0..Len(HeaderLines) :
            LET kept == SubSeq(HeaderLines, short + 1, Len(HeaderLines)) IN
            /\ easy' = HeaderOption(MethodOptions(Reset(easy)), kept)
            /\ heap' = (IF kept = <<>> THEN {} ELSE {"list"}) \cup (IF short > 1 THEN {"lost list"} ELSE {})
      BY <2>6 DEF SetRequestOptions
    <3>. DEFINE kept == SubSeq(HeaderLines, short + 1, Len(HeaderLines))
                m == MethodOptions(Reset(easy))
    <3>2. m \in EasyOptions /\ m.sinks = easy.sinks
      <4>1. /\ Reset(easy) \in EasyOptions /\ Reset(easy).custom = "none" /\ Reset(easy).postSize = -1
            /\ Reset(easy).data = "null" /\ Reset(easy).post = "null" /\ Reset(easy).verb = "POST"
            /\ Reset(easy).sinks = easy.sinks
        BY <2>1, ResetOptions
      <4>2. request.method \in Supported
        BY <2>6 DEF SetRequestOptions
      <4>3. m \in EasyOptions
        BY <4>1, <4>2, MethodOptionsAre DEF IInv
      <4>4. m.sinks = Reset(easy).sinks
        BY <4>1, <4>2, MethodKeepsSinks
      <4>. QED BY <4>1, <4>3, <4>4
    <3>3. easy' = HeaderOption(m, kept)
      BY <3>1
    <3>. HIDE DEF m
    <3>4. easy'.list = (IF kept = <<>> THEN "null" ELSE "own") /\ easy'.sinks = easy.sinks
      BY <3>2, <3>3 DEF HeaderOption, EasyOptions
    <3>5. kept # <<>> => "list" \in heap'
      BY <3>1
    <3>6. easy.sinks # "own" /\ pc' = "sinks"
      BY <2>6 DEF SetRequestOptions, PointersAreAlive
    <3>. QED BY <3>4, <3>5, <3>6 DEF PointersAreAlive
  <2>7. CASE SetUnsupported
    <3>1. easy'.list = easy.list /\ easy'.sinks = easy.sinks
      BY <2>1, <2>7, ResetOptions DEF SetUnsupported
    <3>. QED BY <2>7, <3>1 DEF SetUnsupported, PointersAreAlive
  <2>8. CASE PrepareResponse
    <3>1. CASE ~Leave("OUT_OF_MEMORY", {})
      <4>1. /\ pc = "sinks" /\ pc' = "connect"
            /\ easy' = [easy EXCEPT !.sinks = "own"]
            /\ heap' = heap \cup {"response header"}
        BY <2>8, <3>1 DEF PrepareResponse
      <4>2. easy'.list = easy.list
        BY <2>1, <4>1 DEF EasyOptions
      <4>. QED BY <4>1, <4>2 DEF PointersAreAlive
    <3>. QED BY <2>1, <3>1, LeaveIsAlive
  <2>9. CASE Connect \/ EndSend \/ ServiceAnswers \/ ReadStale
    BY <2>9 DEF Connect, EndSend, ServiceAnswers, ReadStale, PointersAreAlive
  <2>10. CASE SendFields \/ ReadDefault \/ ReadStream \/ ReceivePayload
    BY <2>2, <2>10 DEF SendFields, ReadDefault, ReadStream, ReceivePayload
  <2>11. CASE RefuseService \/ Fault \/ TimeOut
    BY <2>1, <2>11, LeaveIsAlive
    DEF RefuseService, Fault, TimeOut, ConnectFails, SendFails, ResizeFails, ReceiveFails
  <2>12. CASE ReceiveHeader
    BY <2>1, <2>2, <2>12, LeaveIsAlive DEF ReceiveHeader
  <2>13. CASE Deliver
    <3>1. CASE ~Leave("OUT_OF_MEMORY", {})
      <4>1. pc' = "done" /\ easy' = Stale(easy)
        BY <2>13, <3>1 DEF Deliver
      <4>2. "own" \notin {easy'.list, easy'.data, easy'.post, easy'.sinks}
        BY <2>1, <4>1, StalePointers
      <4>. QED BY <4>1, <4>2 DEF PointersAreAlive
    <3>. QED BY <2>1, <3>1, LeaveIsAlive
  <2>14. CASE UNCHANGED vars
    BY <2>2, <2>14 DEF vars
  <2>. QED
    BY <2>3, <2>4, <2>5, <2>6, <2>7, <2>8, <2>9, <2>10, <2>11, <2>12, <2>13, <2>14
    DEF Next, Transfer
<1>. QED BY <1>1, <1>2, Invariance, PTL DEF Spec

-----------------------------------------------------------------------------
(* The client implements HttpCall.                                         *)

\* A step that shows nothing: the call goes on.
LEMMA NothingShown ==
    ASSUME IInv, UNCHANGED <<request, ended, answer, result>>, InCall' = InCall,
           ended => wire' = wire, result # "OK" \/ got' = got
    PROVE  [Call!Next]_(Call!callVars)
BY DEF Call!callVars, CallOutcome, Asked

LEMMA BeginImplements ==
    ASSUME IInv, Begin
    PROVE  [Call!Next]_(Call!callVars)
<1>1. PICK method \in Methods, b \in Bodies :
          request' = [method |-> method, body |-> b.body, length |-> b.length, size |-> b.size]
  BY DEF Begin
<1>2. b.length \in Lengths /\ 0 \in Lengths
  BY CurlAssumption DEF Bodies, Lengths
<1>3. Asked' \in Lengths
  BY <1>1, <1>2 DEF Asked
<1>4. /\ ~InCall /\ InCall'
      /\ ended' = ended /\ wire' = wire /\ answer' = answer /\ got' = got /\ result' = result
  BY DEF Begin, InCall, callVars
<1>5. Call!Ask
  BY <1>3, <1>4 DEF Call!Ask, Call!Lengths, Lengths, CallOutcome
<1>. QED BY <1>5 DEF Call!Next

\* The service has the whole request when libcurl has sent it.
LEMMA ServeImplements ==
    ASSUME IInv, EndSend
    PROVE  [Call!Next]_(Call!callVars)
<1>1. Len(wire) = Asked /\ IInv'
  BY EndSendStep
<1>2. Asked \in Nat
  BY CurlAssumption DEF IInv, Typed, Requests, Lengths, Asked
<1>3. /\ pc = "send" /\ pc' = "sent" /\ ended' = TRUE /\ wire' = wire /\ request' = request
      /\ answer' = answer /\ result' = result /\ got' = got
  BY DEF EndSend
<1>4. ended = FALSE /\ result = "none"
  BY <1>3 DEF IInv, ServedInFull, AnswerIsLeft, Typed, SendingTyped
<1>5. Asked # Nothing /\ Asked \in 0..Asked /\ InCall /\ InCall' /\ Asked' = Asked
  BY <1>2, <1>3, CurlAssumption DEF InCall, Asked
<1>6. Call!Serve
  BY <1>1, <1>3, <1>4, <1>5 DEF Call!Serve, CallOutcome
<1>. QED BY <1>6 DEF Call!Next

\* What the service has in full.
LEMMA ServedIsAsked ==
    ASSUME IInv, ended
    PROVE  Len(wire) = Asked /\ Asked \in Nat /\ Asked # Nothing
<1>1. Asked \in Lengths /\ Asked \in Nat
  BY CurlAssumption DEF IInv, Typed, Requests, Lengths, Asked
<1>2. wire = Positions(0, Asked)
  BY DEF IInv, ServedInFull
<1>. QED BY <1>1, <1>2, PositionsAre, CurlAssumption

LEMMA AnswerImplements ==
    ASSUME IInv, ServiceAnswers
    PROVE  [Call!Next]_(Call!callVars)
<1>1. PICK a \in Answers : answer' = a
  BY DEF ServiceAnswers
<1>2. a.length \in Lengths /\ a # Nothing
  BY CurlAssumption
<1>3. /\ pc = "sent" /\ pc' = "receive" /\ ended' = ended /\ wire' = wire /\ request' = request
      /\ result' = result /\ got' = got
  BY DEF ServiceAnswers
<1>4. ended /\ answer = Nothing /\ result = "none"
  BY <1>3 DEF IInv, ServedInFull, AnswerIsLeft
<1>5. InCall /\ InCall' /\ Asked' = Asked
  BY <1>3 DEF InCall, Asked
<1>6. Len(wire) = Asked /\ Asked # Nothing
  BY <1>4, ServedIsAsked
<1>7. Call!Answer
  BY <1>1, <1>2, <1>3, <1>4, <1>5, <1>6 DEF Call!Answer, Call!Lengths, Lengths, CallOutcome
<1>. QED BY <1>7 DEF Call!Next

LEMMA LeaveImplements ==
    ASSUME IInv, pc \in {"sinks", "connect", "send", "sent", "receive"},
           NEW code \in Codes \ {"none", "OK"}, NEW lost, Leave(code, lost)
    PROVE  [Call!Next]_(Call!callVars)
<1>1. /\ pc' = "done" /\ result' = code /\ UNCHANGED <<request, ended, wire, answer, got>>
  BY DEF Leave, callVars
<1>2. result = "none" /\ InCall /\ InCall'
  BY <1>1 DEF IInv, AnswerIsLeft, InCall
<1>3. Asked # Nothing /\ Asked' = Asked
  <2>1. Asked \in Nat
    BY CurlAssumption DEF IInv, Typed, Requests, Lengths, Asked
  <2>. QED BY <1>1, <2>1, CurlAssumption DEF Asked
<1>4. Call!Fail
  BY <1>1, <1>2, <1>3 DEF Call!Fail, CallOutcome
<1>. QED BY <1>4 DEF Call!Next

\* The answer is handed over with the size that was received.
LEMMA DeliverImplements ==
    ASSUME IInv, Deliver
    PROVE  [Call!Next]_(Call!callVars)
<1>1. CASE Leave("OUT_OF_MEMORY", {})
  <2>1. "OUT_OF_MEMORY" \in Codes \ {"none", "OK"} /\ pc = "receive"
    BY DEF Codes, Deliver
  <2>. QED BY <1>1, <2>1, LeaveImplements
<1>2. CASE ~Leave("OUT_OF_MEMORY", {})
  <2>1. /\ pc = "receive" /\ left = 0 /\ pc' = "done" /\ result' = "OK"
        /\ UNCHANGED <<request, ended, wire, answer, got>>
    BY <1>2 DEF Deliver, callVars
  <2>2. answer \in Answers /\ got \in Nat /\ answer # Nothing /\ got + left = answer.length /\ result = "none"
    BY <2>1, CurlAssumption DEF IInv, AnswerIsLeft, Typed, ReceivingTyped, Lengths
  <2>3. got = answer.length /\ answer.length # Nothing
    BY <2>1, <2>2, CurlAssumption
  <2>4. InCall /\ InCall' /\ Asked' = Asked
    BY <2>1 DEF InCall, Asked
  <2>5. Call!Succeed
    BY <2>1, <2>2, <2>3, <2>4 DEF Call!Succeed, CallOutcome
  <2>. QED BY <2>5 DEF Call!Next
<1>. QED BY <1>1, <1>2

\* The caller takes the result, or the process crashes before there is one.
LEMMA EndImplements ==
    ASSUME IInv, InCall, ~InCall', answer' = Nothing, ended' = FALSE, result' = "none"
    PROVE  [Call!Next]_(Call!callVars)
<1>1. Asked # Nothing
  <2>1. Asked \in Nat
    BY CurlAssumption DEF IInv, Typed, Requests, Lengths, Asked
  <2>. QED BY <2>1, CurlAssumption
<1>2. Call!Finish
  BY <1>1 DEF Call!Finish, CallOutcome
<1>. QED BY <1>2 DEF Call!Next

LEMMA StepImplements ==
    ASSUME IInv, [Next]_vars
    PROVE  [Call!Next]_(Call!callVars)
<1>1. ASSUME NEW code \in Codes \ {"none", "OK"}, NEW lost, Leave(code, lost),
             pc \in {"sinks", "connect", "send", "sent", "receive"}
      PROVE  [Call!Next]_(Call!callVars)
  BY <1>1, LeaveImplements
<1>2. /\ "IMPROPER_CERTIFICATE" \in Codes \ {"none", "OK"} /\ "NOT_VERIFIED" \in Codes \ {"none", "OK"}
      /\ "FAIL" \in Codes \ {"none", "OK"} /\ "NETWORK_SEND_FAIL" \in Codes \ {"none", "OK"}
      /\ "NETWORK_RECEIVE_FAIL" \in Codes \ {"none", "OK"} /\ "REQUEST_TIMEOUT" \in Codes \ {"none", "OK"}
      /\ "OUT_OF_MEMORY" \in Codes \ {"none", "OK"}
      /\ {"COULD_NOT_CONNECT", "SSL_HANDSHAKE_FAIL", "OUT_OF_MEMORY"} \subseteq Codes \ {"none", "OK"}
  BY DEF Codes
<1>3. pc # "done" => result = "none"
  BY DEF IInv, AnswerIsLeft
<1>4. pc \in {"idle", "options", "sinks", "connect", "send", "crashed"} =>
        ended = FALSE /\ answer = Nothing
  BY DEF IInv, ServedInFull, AnswerIsLeft, Typed, SendingTyped
<1>5. CASE Initialize \/ AddCertificate \/ Destroy
  BY <1>3, <1>5, NothingShown DEF Initialize, AddCertificate, Destroy, InCall, callVars
<1>6. CASE SetRequestOptions \/ SetUnsupported
  BY <1>3, <1>6, NothingShown DEF SetRequestOptions, SetUnsupported, InCall, callVars
<1>7. CASE PrepareResponse
  <2>1. pc = "sinks"
    BY <1>7 DEF PrepareResponse
  <2>2. CASE Leave("OUT_OF_MEMORY", {})
    BY <1>1, <1>2, <2>1, <2>2
  <2>3. CASE ~Leave("OUT_OF_MEMORY", {})
    BY <1>3, <1>7, <2>3, NothingShown DEF PrepareResponse, InCall, callVars
  <2>. QED BY <2>2, <2>3
<1>8. CASE Connect
  <2>1. CASE pc' = "send"
    BY <1>3, <1>8, <2>1, NothingShown DEF Connect, InCall, callVars
  <2>2. CASE pc' = "crashed"
    BY <1>3, <1>4, <1>8, <2>2, EndImplements DEF Connect, InCall, callVars
  <2>. QED BY <1>8, <2>1, <2>2 DEF Connect
<1>9. CASE SendFields \/ ReadDefault \/ ReadStream
  BY <1>3, <1>4, <1>9, NothingShown DEF SendFields, ReadDefault, ReadStream, InCall
<1>10. CASE ReadStale
  BY <1>3, <1>4, <1>10, EndImplements DEF ReadStale, InCall, callVars
<1>11. CASE ReceiveHeader
  <2>1. CASE Leave("FAIL", {})
    BY <1>1, <1>2, <1>11, <2>1 DEF ReceiveHeader
  <2>2. CASE ~Leave("FAIL", {})
    BY <1>3, <1>11, <2>2, NothingShown DEF ReceiveHeader, InCall
  <2>. QED BY <2>1, <2>2
<1>12. CASE ReceivePayload
  BY <1>3, <1>12, NothingShown DEF ReceivePayload, InCall
<1>13. CASE RefuseService
  BY <1>1, <1>2, <1>13 DEF RefuseService
<1>14. CASE Fault
  BY <1>1, <1>2, <1>14 DEF Fault, ConnectFails, SendFails, ResizeFails, ReceiveFails
<1>15. CASE TimeOut
  BY <1>1, <1>2, <1>15 DEF TimeOut
<1>16. CASE ServiceStalls
  BY <1>3, <1>16, NothingShown DEF ServiceStalls, InCall
<1>17. CASE Finish
  BY <1>17, EndImplements DEF Finish, GoNoCall, InCall
<1>18. CASE Restart
  <2>1. pc = "crashed" /\ ~InCall /\ ~InCall' /\ ended' = FALSE /\ answer' = Nothing /\ result' = "none"
    BY <1>18 DEF Restart, GoNoCall, InCall
  <2>. QED BY <1>3, <1>4, <2>1 DEF Call!callVars, CallOutcome
<1>19. CASE UNCHANGED vars
  BY <1>19, NothingShown DEF vars, callVars, InCall
<1>. QED
  BY <1>5, <1>6, <1>7, <1>8, <1>9, <1>10, <1>11, <1>12, <1>13, <1>14, <1>15, <1>16, <1>17, <1>18,
     <1>19, BeginImplements, ServeImplements, AnswerImplements, DeliverImplements
  DEF Next, Transfer

\* mcl_http_client_send on libcurl does nothing but what HttpCall says: a call that succeeds has
\* given the service the whole request and its caller the whole answer to it.
THEOREM ImplementsCall == Spec => RefinesCall
<1>1. Init => Call!Init
  BY DEF Init, NoCall, Call!Init, CallOutcome, InCall
<1>2. IInv /\ [Next]_vars => [Call!Next]_(Call!callVars)
  BY StepImplements
<1>. QED BY <1>1, <1>2, Invariance, PTL DEF Spec, RefinesCall, Call!Spec
=============================================================================
