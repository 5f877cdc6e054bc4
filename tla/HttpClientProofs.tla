--------------------------- MODULE HttpClientProofs ---------------------------
(***************************************************************************)
(* Proofs about HttpClient, for bodies and answers of any length, any       *)
(* number of headers and any size of the buffer of the callback: that it    *)
(* implements HttpCall, and that a call frees what it allocates.            *)
(***************************************************************************)
EXTENDS HttpClient, SequenceTheorems, TLAPS

-----------------------------------------------------------------------------
(* The inductive invariant, by the place the call is at.                    *)

Before == {"idle", "check", "connect", "crashed"}

\* Between the calls and up to the connection nothing has been sent or received.
NothingYet ==
    /\ pc \in Before => wire = NoWire /\ piece = 0
    /\ pc \in Before \cup Sending \cup {"status"} =>
          answer = Nothing /\ found = "none" /\ size = 0 /\ got = 0
    /\ result = "none" <=> pc # "done"

\* What the checks at the beginning of the call have let through.
RequestIsValid ==
    /\ pc \notin {"idle", "crashed", "done"} => IsSane
    /\ pc \in {"connect"} \cup Sending \cup Receiving => ~IsInvalid

\* The buffers of the head that are still to send: the framing, if the method has a body,
\* is the last but one, and the blank line is the last.
Marker == IF request.size # 0 THEN "length" ELSE "chunked"

HeadIsLeft ==
    pc = "head" =>
        /\ Len(queue) >= 1 /\ queue[Len(queue)] = "blank"
        /\ \A i \in 1..(Len(queue) - 2) : queue[i] \notin {"length", "chunked", "blank"}
        /\ request.method # "PATCH"
        /\ ~wire.head /\ wire.data = 0 /\ ~wire.ended /\ piece = 0
        /\ IF request.method = "GET"
           THEN /\ wire.framing = "none"
                /\ Len(queue) >= 2 => queue[Len(queue) - 1] \notin {"length", "chunked", "blank"}
           ELSE IF Len(queue) >= 2
           THEN wire.framing = "none" /\ queue[Len(queue) - 1] = Marker
           ELSE wire.framing = Marker /\ (Marker = "length" => wire.declared = request.size)

\* A body from a buffer: what is sent and what is left are the size that was declared.
BufferIsLeft ==
    pc = "buffer" =>
        /\ request.method # "GET" /\ request.body = "buffer"
        /\ wire.head /\ wire.framing = "length" /\ wire.declared = request.size
        /\ piece > 0 /\ wire.data + piece = request.size

\* A body from the callback: what is sent, what is in the buffer and what the callback still
\* has are the body; and with a size declared, remaining_size is what is left of that.
CallbackIsLeft ==
    pc = "callback" =>
        /\ request.method # "GET" /\ request.body = "callback" /\ wire.head
        /\ wire.data + piece + source = request.length
        /\ wire.framing = Marker /\ ~wire.ended
        /\ Marker = "length" =>
              wire.declared = request.size /\ wire.data + piece + remaining = request.size

\* Once the client waits for the answer, the service has all of the request.
RequestIsSent == pc \in Receiving => HasRequest /\ wire.data = Asked

\* The header lines to come and those read: only the answer's framing is found.
HeadersAreLeft ==
    pc = "headers" =>
        /\ answer # Nothing /\ got = 0 /\ left = answer.length
        /\ \A i \in DOMAIN lines : lines[i] \in {"plain", "long", answer.framing}
        /\ found \in {"none", answer.framing}
        /\ size = IF found = "length" THEN answer.length ELSE 0

\* The bytes of the answer: those stored, those of the chunk at hand, those after it.  A
\* receive that asks for more than the chunk has will not end with success.
BytesAreLeft ==
    /\ pc \in {"chunk", "bytes", "crlf", "last crlf", "deliver"} =>
          /\ answer # Nothing /\ found \in {"length", "chunked"}
    /\ pc \in {"chunk", "crlf"} => got = size /\ got + left = answer.length /\ found = "chunked"
    /\ pc = "bytes" =>
          /\ got + due + left = answer.length /\ want >= due
          /\ want = due => size = got + due /\ size > 0
          /\ found = "length" => want = due /\ left = 0
    /\ pc \in {"last crlf", "deliver"} => got = size /\ got = answer.length
    /\ pc = "done" /\ result = "OK" => got = size /\ answer # Nothing /\ got = answer.length

\* What is allocated at each place.
HeapIsKnown ==
    /\ pc \in {"idle", "check", "crashed"} => heap = {}
    /\ pc = "connect" => heap = {"socket"}
    /\ pc = "head" => /\ heap \in {{"socket"}, {"socket", "hostname"}}
                      /\ "hostname" \in heap => \E i \in 1..(Len(queue) - 1) : queue[i] = "host"
    /\ pc \in {"buffer", "callback", "status"} => heap = {"socket"}
    /\ pc = "headers" => heap = {"socket", "list"}
    /\ pc \in Receiving \ {"status"} => "list" \in heap /\ heap \subseteq {"socket", "list", "body"}
    /\ pc = "bytes" => "body" \in heap
    /\ pc \in {"chunk", "crlf", "last crlf", "deliver"} => (got > 0 <=> "body" \in heap)

IInv ==
    /\ TypeOK
    /\ NothingYet
    /\ RequestIsValid
    /\ HeadIsLeft
    /\ BufferIsLeft
    /\ CallbackIsLeft
    /\ RequestIsSent
    /\ HeadersAreLeft
    /\ BytesAreLeft
    /\ HeapIsKnown
    /\ NothingLost
-----------------------------------------------------------------------------
(* The invariant is inductive.                                             *)

\* The fields of the request and of what is on the wire, for the provers.
LEMMA FieldTypes ==
    ASSUME TypeOK
    PROVE  /\ request.method \in Methods /\ request.secure \in BOOLEAN
           /\ request.body \in {"none", "buffer", "callback"}
           /\ request.length \in Nat /\ request.length <= MaxLength
           /\ request.size \in Nat /\ request.size <= MaxLength /\ request.size \in Lengths
           /\ request.headers \in Nat
           /\ wire.data \in Nat /\ wire.due \in Int /\ wire.declared \in Nat
           /\ wire.head \in BOOLEAN /\ wire.ended \in BOOLEAN
           /\ source \in Nat /\ source <= MaxLength /\ MaxLength \in Nat /\ Asked \in Lengths
BY ClientAssumption DEF TypeOK, Requests, Wires, Lengths, Asked

\* A call that fails, from wherever it is.
LEMMA FailStep ==
    ASSUME IInv, pc \notin {"idle", "done", "crashed"},
           NEW code \in Results \ {"none", "OK"},
           NEW lost \in SUBSET {"cut header", "old body"}, FailWith(code, lost)
    PROVE  IInv'
<1>1. TypeOK'
  BY ClientAssumption DEF IInv, TypeOK, Allocations, FailWith, reqVars, inVars, outVars
<1> USE <1>1 DEF IInv, Before, Sending, Receiving, Results, FailWith, Freed, reqVars, inVars, outVars
<1>2. NothingYet' /\ RequestIsValid'
  BY DEF NothingYet, NoWire, RequestIsValid, IsSane, IsInvalid
<1>3. HeadIsLeft' /\ BufferIsLeft' /\ CallbackIsLeft'
  BY DEF HeadIsLeft, BufferIsLeft, CallbackIsLeft, Marker
<1>4. RequestIsSent' /\ HeadersAreLeft' /\ BytesAreLeft'
  BY DEF RequestIsSent, HasRequest, Asked, HeadersAreLeft, BytesAreLeft
<1>5. HeapIsKnown' /\ NothingLost'
  <2>1. heap \subseteq Freed
    <3>1. CASE pc \in {"check", "connect"}
      BY <3>1 DEF HeapIsKnown
    <3>2. CASE pc = "head"
      BY <3>2 DEF HeapIsKnown
    <3>3. CASE pc \in {"buffer", "callback", "status"}
      BY <3>3 DEF HeapIsKnown
    <3>4. CASE pc \in Receiving \ {"status"}
      BY <3>4 DEF HeapIsKnown
    <3>. QED BY <3>1, <3>2, <3>3, <3>4 DEF TypeOK
  <2>2. heap' \subseteq {"cut header", "old body"}
    BY <2>1
  <2>. QED BY <2>2 DEF HeapIsKnown, NothingLost
<1>. QED BY <1>1, <1>2, <1>3, <1>4, <1>5 DEF IInv

\* The handles between the calls.
LEMMA IdleStep ==
    ASSUME IInv, pc = "idle", UNCHANGED <<pc, link, outVars, inVars, heap, result>>,
           client' \in {"none", "untrusting", "trusting"}, request' \in Requests
    PROVE  IInv'
<1>1. TypeOK'
  BY ClientAssumption DEF IInv, TypeOK, inVars, outVars
<1> USE <1>1 DEF IInv, Before, Sending, Receiving, inVars, outVars
<1>2. NothingYet' /\ RequestIsValid'
  BY DEF NothingYet, NoWire, RequestIsValid, IsSane, IsInvalid
<1>3. HeadIsLeft' /\ BufferIsLeft' /\ CallbackIsLeft'
  BY DEF HeadIsLeft, BufferIsLeft, CallbackIsLeft, Marker
<1>4. RequestIsSent' /\ HeadersAreLeft' /\ BytesAreLeft'
  BY DEF RequestIsSent, HasRequest, Asked, HeadersAreLeft, BytesAreLeft
<1>5. HeapIsKnown' /\ NothingLost'
  BY DEF HeapIsKnown, NothingLost
<1>. QED BY <1>1, <1>2, <1>3, <1>4, <1>5 DEF IInv

\* The service closes the connection, or stalls.
LEMMA ServiceStep ==
    ASSUME IInv, link' \in {"closed", "silent"}, UNCHANGED <<reqVars, pc, outVars, inVars, heap, result>>
    PROVE  IInv'
<1>1. TypeOK'
  BY ClientAssumption DEF IInv, TypeOK, reqVars, inVars, outVars
<1> USE <1>1 DEF IInv, Before, Sending, Receiving, reqVars, inVars, outVars
<1>2. NothingYet' /\ RequestIsValid'
  BY DEF NothingYet, NoWire, RequestIsValid, IsSane, IsInvalid
<1>3. HeadIsLeft' /\ BufferIsLeft' /\ CallbackIsLeft'
  BY DEF HeadIsLeft, BufferIsLeft, CallbackIsLeft, Marker
<1>4. RequestIsSent' /\ HeadersAreLeft' /\ BytesAreLeft'
  BY DEF RequestIsSent, HasRequest, Asked, HeadersAreLeft, BytesAreLeft
<1>5. HeapIsKnown' /\ NothingLost'
  BY DEF HeapIsKnown, NothingLost
<1>. QED BY <1>1, <1>2, <1>3, <1>4, <1>5 DEF IInv

\* A call begins.
LEMMA BeginStep ==
    ASSUME IInv, Begin
    PROVE  IInv'
<1>1. TypeOK'
  BY ClientAssumption DEF IInv, TypeOK, Begin, reqVars, inVars, outVars
<1> USE <1>1 DEF IInv, Before, Sending, Receiving, Begin, reqVars, inVars, outVars
<1>2. NothingYet' /\ RequestIsValid'
  BY DEF NothingYet, NoWire, RequestIsValid, IsSane, IsInvalid
<1>3. HeadIsLeft' /\ BufferIsLeft' /\ CallbackIsLeft'
  BY DEF HeadIsLeft, BufferIsLeft, CallbackIsLeft, Marker
<1>4. RequestIsSent' /\ HeadersAreLeft' /\ BytesAreLeft'
  BY DEF RequestIsSent, HasRequest, Asked, HeadersAreLeft, BytesAreLeft
<1>5. HeapIsKnown' /\ NothingLost'
  BY DEF HeapIsKnown, NothingLost
<1>. QED BY <1>1, <1>2, <1>3, <1>4, <1>5 DEF IInv

\* The destruction of a socket that was never set.
LEMMA CrashStep ==
    ASSUME IInv, pc = "check", pc' = "crashed",
           UNCHANGED <<reqVars, link, outVars, inVars, heap, result>>
    PROVE  IInv'
<1>1. TypeOK'
  BY ClientAssumption DEF IInv, TypeOK, reqVars, inVars, outVars
<1> USE <1>1 DEF IInv, Before, Sending, Receiving, reqVars, inVars, outVars
<1>2. NothingYet' /\ RequestIsValid'
  BY DEF NothingYet, NoWire, RequestIsValid, IsSane, IsInvalid
<1>3. HeadIsLeft' /\ BufferIsLeft' /\ CallbackIsLeft'
  BY DEF HeadIsLeft, BufferIsLeft, CallbackIsLeft, Marker
<1>4. RequestIsSent' /\ HeadersAreLeft' /\ BytesAreLeft'
  BY DEF RequestIsSent, HasRequest, Asked, HeadersAreLeft, BytesAreLeft
<1>5. HeapIsKnown' /\ NothingLost'
  BY DEF HeapIsKnown, NothingLost
<1>. QED BY <1>1, <1>2, <1>3, <1>4, <1>5 DEF IInv

\* A request that is let through.
LEMMA StartStep ==
    ASSUME IInv, pc = "check", ~IsInvalid, pc' = "connect", heap' = {"socket"},
           UNCHANGED <<reqVars, link, outVars, inVars, result>>
    PROVE  IInv'
<1>1. TypeOK'
  BY ClientAssumption DEF IInv, TypeOK, Allocations, reqVars, inVars, outVars
<1> USE <1>1 DEF IInv, Before, Sending, Receiving, reqVars, inVars, outVars
<1>2. NothingYet' /\ RequestIsValid'
  BY DEF NothingYet, NoWire, RequestIsValid, IsSane, IsInvalid
<1>3. HeadIsLeft' /\ BufferIsLeft' /\ CallbackIsLeft'
  BY DEF HeadIsLeft, BufferIsLeft, CallbackIsLeft, Marker
<1>4. RequestIsSent' /\ HeadersAreLeft' /\ BytesAreLeft'
  BY DEF RequestIsSent, HasRequest, Asked, HeadersAreLeft, BytesAreLeft
<1>5. HeapIsKnown' /\ NothingLost'
  BY DEF HeapIsKnown, NothingLost
<1>. QED BY <1>1, <1>2, <1>3, <1>4, <1>5 DEF IInv

\* Two facts about sequences: what a head or an end adds to one.
LEMMA Appended ==
    ASSUME NEW S, NEW s \in Seq(S), NEW x \in S
    PROVE  /\ s \o <<x>> \in Seq(S) /\ Len(s \o <<x>>) = Len(s) + 1 /\ Len(s) \in Nat
           /\ \A i \in 1..Len(s) : (s \o <<x>>)[i] = s[i]
           /\ (s \o <<x>>)[Len(s) + 1] = x
<1>1. <<x>> \in Seq(S) /\ Len(<<x>>) = 1 /\ <<x>>[1] = x
  OBVIOUS
<1>. QED BY <1>1, ConcatProperties

LEMMA Prefixed ==
    ASSUME NEW S, NEW t \in Seq(S), NEW a \in S, NEW b \in S
    PROVE  /\ <<a, b>> \o t \in Seq(S) /\ Len(<<a, b>> \o t) = Len(t) + 2 /\ Len(t) \in Nat
           /\ (<<a, b>> \o t)[1] = a /\ (<<a, b>> \o t)[2] = b
           /\ \A i \in 1..Len(t) : (<<a, b>> \o t)[i + 2] = t[i]
<1> DEFINE f == <<a, b>>
<1>1. f \in Seq(S) /\ Len(f) = 2 /\ f[1] = a /\ f[2] = b
  OBVIOUS
<1> HIDE DEF f
<1>2. t \in Seq(S) /\ Len(t) \in Nat
  BY LenProperties
<1>3. f \o t \in Seq(S) /\ Len(f \o t) = Len(f) + Len(t)
  BY <1>1, <1>2, ConcatProperties
<1>4. \A i \in 1..(Len(f) + Len(t)) : (f \o t)[i] = IF i <= Len(f) THEN f[i] ELSE t[i - Len(f)]
  BY <1>1, <1>2, ConcatProperties
<1>5. (f \o t)[1] = a /\ (f \o t)[2] = b
  <2>1. Len(f) = 2 /\ 1 \in 1..(Len(f) + Len(t)) /\ 2 \in 1..(Len(f) + Len(t))
    BY <1>1, <1>2
  <2>. QED BY <1>1, <1>2, <1>3, <1>4, <2>1
<1>6. \A i \in 1..Len(t) : (f \o t)[i + 2] = t[i]
  <2> SUFFICES ASSUME NEW i \in 1..Len(t)
               PROVE  (f \o t)[i + 2] = t[i]
    OBVIOUS
  <2>1. i + 2 \in 1..(Len(f) + Len(t)) /\ ~(i + 2 <= Len(f)) /\ (i + 2) - Len(f) = i
    BY <1>1, <1>2
  <2>. QED BY <1>4, <2>1
<1>. QED BY <1>1, <1>2, <1>3, <1>5, <1>6 DEF f

\* The head, buffer by buffer.
LEMMA HeadIsMade ==
    ASSUME TypeOK
    PROVE  /\ HeadBuffers \in Seq(Buffers) /\ Len(HeadBuffers) \in Nat /\ Len(HeadBuffers) >= 4
           /\ HeadBuffers[2] = "host" /\ HeadBuffers[Len(HeadBuffers)] = "blank"
           /\ \A i \in 1..(Len(HeadBuffers) - 2) : HeadBuffers[i] \notin {"length", "chunked", "blank"}
           /\ HeadBuffers[Len(HeadBuffers) - 1] = IF request.method = "GET" THEN "agent" ELSE Marker
<1> DEFINE h == request.headers
           line == "request line"
           host == "host"
           agent == "agent"
           blank == "blank"
           headers == [i \in 1..h |-> "header"]
           s1 == <<line, host>> \o headers
           s2 == s1 \o <<agent>>
<1>1. h \in Nat
  BY FieldTypes
<1>2. line \in Buffers /\ host \in Buffers /\ "header" \in Buffers
      /\ agent \in Buffers /\ Marker \in Buffers /\ blank \in Buffers
  BY DEF Buffers, Marker
<1>3. headers \in Seq(Buffers) /\ Len(headers) = h /\ \A i \in 1..h : headers[i] = "header"
  <2>1. headers \in [1..h -> Buffers] /\ DOMAIN headers = 1..h /\ \A i \in 1..h : headers[i] = "header"
    BY <1>2
  <2> HIDE DEF headers, h
  <2>2. headers \in Seq(Buffers)
    BY <1>1, <2>1
  <2>3. Len(headers) = h
    BY <1>1, <2>1, <2>2
  <2>. QED BY <2>1, <2>2, <2>3
<1> HIDE DEF headers, h, line, host, agent, blank
<1>4. /\ s1 \in Seq(Buffers) /\ Len(s1) = h + 2
      /\ s1[1] = line /\ s1[2] = host
      /\ \A i \in 1..h : s1[i + 2] = headers[i]
  <2>1. headers \in Seq(Buffers)
    BY <1>3
  <2>2. /\ s1 \in Seq(Buffers) /\ Len(s1) = Len(headers) + 2
        /\ s1[1] = line /\ s1[2] = host
        /\ \A i \in 1..Len(headers) : s1[i + 2] = headers[i]
    BY <1>2, <2>1, Prefixed
  <2>. QED BY <1>3, <2>2
<1> HIDE DEF s1
<1>5. \A i \in 1..(h + 2) : s1[i] \in {"request line", "host", "header"}
  <2> SUFFICES ASSUME NEW i \in 1..(h + 2)
               PROVE  s1[i] \in {"request line", "host", "header"}
    OBVIOUS
  <2>1. CASE i = 1 \/ i = 2
    BY <1>4, <2>1 DEF line, host
  <2>2. CASE i > 2
    <3>1. i - 2 \in 1..h /\ i = (i - 2) + 2
      BY <1>1, <2>2
    <3>2. s1[(i - 2) + 2] = headers[i - 2] /\ headers[i - 2] = "header"
      BY <1>3, <1>4, <3>1
    <3>. QED BY <3>1, <3>2
  <2>3. i = 1 \/ i = 2 \/ i > 2
    BY <1>1
  <2>. QED BY <2>1, <2>2, <2>3
<1>6. /\ s2 \in Seq(Buffers) /\ Len(s2) = h + 3 /\ s2[2] = host /\ s2[h + 3] = agent
      /\ \A i \in 1..(h + 3) : s2[i] \notin {"length", "chunked", "blank"}
  <2>1. /\ s2 \in Seq(Buffers) /\ Len(s2) = h + 3 /\ s2[h + 3] = agent
        /\ \A i \in 1..(h + 2) : s2[i] = s1[i]
    <3>1. s1 \in Seq(Buffers)
      BY <1>4
    <3>2. /\ s2 \in Seq(Buffers) /\ Len(s2) = Len(s1) + 1 /\ s2[Len(s1) + 1] = agent
          /\ \A i \in 1..Len(s1) : s2[i] = s1[i]
      BY <1>2, <3>1, Appended
    <3> HIDE DEF s2
    <3>. QED BY <1>1, <1>4, <3>2
  <2>2. 2 \in 1..(h + 2) /\ \A i \in 1..(h + 3) : i \in 1..(h + 2) \/ i = h + 3
    BY <1>1
  <2>. QED BY <1>4, <1>5, <2>1, <2>2 DEF agent
<1> HIDE DEF s2
<1>7. CASE request.method = "GET"
  <2> DEFINE s3 == s2 \o <<blank>>
  <2>1. HeadBuffers = s3
    <3>1. HeadBuffers = (s2 \o <<>>) \o <<blank>>
      BY <1>7 DEF HeadBuffers, headers, h, s1, s2, line, host, agent, blank
    <3>. QED BY <1>6, <3>1, ConcatEmptySeq
  <2>2. /\ s3 \in Seq(Buffers) /\ Len(s3) = Len(s2) + 1 /\ s3[Len(s2) + 1] = blank
        /\ \A i \in 1..Len(s2) : s3[i] = s2[i]
    <3>1. s2 \in Seq(Buffers)
      BY <1>6
    <3>. QED BY <1>2, <3>1, Appended
  <2> HIDE DEF s3
  <2>3. Len(s3) = h + 4 /\ s3[h + 4] = blank /\ \A i \in 1..(h + 3) : s3[i] = s2[i]
    BY <1>1, <1>6, <2>2
  <2>. QED BY <1>1, <1>6, <1>7, <2>1, <2>2, <2>3 DEF host, agent, blank
<1>8. CASE request.method # "GET"
  <2> DEFINE s3 == s2 \o <<Marker>>
             s4 == s3 \o <<blank>>
  <2>1. HeadBuffers = s4
    BY <1>8 DEF HeadBuffers, headers, h, s1, s2, line, host, agent, blank, Marker
  <2>2. /\ s3 \in Seq(Buffers) /\ Len(s3) = Len(s2) + 1 /\ s3[Len(s2) + 1] = Marker
        /\ \A i \in 1..Len(s2) : s3[i] = s2[i]
    <3>1. s2 \in Seq(Buffers)
      BY <1>6
    <3>. QED BY <1>2, <3>1, Appended
  <2> HIDE DEF s3
  <2>3. /\ s4 \in Seq(Buffers) /\ Len(s4) = Len(s3) + 1 /\ s4[Len(s3) + 1] = blank
        /\ \A i \in 1..Len(s3) : s4[i] = s3[i]
    BY <1>2, <2>2, Appended
  <2> HIDE DEF s4
  <2>4. Len(s4) = h + 5 /\ s4[h + 5] = blank /\ s4[h + 4] = Marker /\ \A i \in 1..(h + 3) : s4[i] = s2[i]
    BY <1>1, <1>6, <2>2, <2>3
  <2>. QED BY <1>1, <1>6, <1>8, <2>1, <2>3, <2>4 DEF host, blank
<1>. QED BY <1>7, <1>8

\* The connection is made; the host name is allocated until its header is sent.
LEMMA ConnectStep ==
    ASSUME IInv, pc = "connect", request.method # "PATCH",
           pc' = "head", link' = "open", queue' = HeadBuffers, heap' = heap \cup {"hostname"},
           UNCHANGED <<reqVars, wire, source, piece, remaining, inVars, result>>
    PROVE  IInv'
<1>1. TypeOK
  BY DEF IInv
<1>2. TypeOK'
  BY <1>1, HeadIsMade DEF TypeOK, Sending, Allocations, reqVars, inVars
<1> USE <1>1, <1>2 DEF IInv, reqVars, inVars, Before, Sending, Receiving
<1>3. NothingYet' /\ RequestIsValid' /\ RequestIsSent'
  BY DEF NothingYet, RequestIsValid, RequestIsSent, IsSane, IsInvalid
<1>4. HeadIsLeft'
  <2>1. wire = NoWire /\ piece = 0
    BY DEF NothingYet
  <2>2. ~wire.head /\ wire.data = 0 /\ ~wire.ended /\ wire.framing = "none"
    BY <2>1 DEF NoWire
  <2>3. Marker' = Marker
    BY DEF Marker
  <2>. QED BY <2>1, <2>2, <2>3, HeadIsMade DEF HeadIsLeft
<1>5. BufferIsLeft' /\ CallbackIsLeft' /\ HeadersAreLeft'
  BY DEF BufferIsLeft, CallbackIsLeft, HeadersAreLeft
<1>6. BytesAreLeft' /\ NothingLost'
  BY DEF BytesAreLeft, NothingLost
<1>7. HeapIsKnown'
  <2>1. heap' = {"socket", "hostname"}
    BY DEF HeapIsKnown
  <2>2. 2 \in 1..(Len(queue') - 1) /\ queue'[2] = "host"
    BY HeadIsMade
  <2>. QED BY <2>1, <2>2 DEF HeapIsKnown
<1>. QED BY <1>2, <1>3, <1>4, <1>5, <1>6, <1>7 DEF IInv

\* A buffer of the head is sent.
LEMMA SendHeadStep ==
    ASSUME IInv, SendHead
    PROVE  IInv'
<1>1. TypeOK /\ HeadIsLeft /\ HeapIsKnown /\ NothingYet /\ RequestIsValid
  BY DEF IInv
<1>2. /\ pc = "head" /\ queue # <<>> /\ queue' = Tail(queue)
      /\ UNCHANGED <<reqVars, link, inVars, result>>
  BY DEF SendHead
<1>3. /\ queue \in Seq(Buffers) /\ queue' \in Seq(Buffers) /\ Len(queue) \in Nat /\ Len(queue) > 0
      /\ Head(queue) = queue[1] /\ Len(queue') = Len(queue) - 1
      /\ \A i \in 1..Len(queue') : queue'[i] = queue[i + 1]
  BY <1>1, <1>2 DEF TypeOK
<1>4. Marker' = Marker /\ Marker \in {"length", "chunked"}
  BY <1>2 DEF Marker, reqVars
<1> DEFINE part == Head(queue)
<1>5. heap' = IF part = "host" THEN heap \ {"hostname"} ELSE heap
  BY DEF SendHead
\* The last buffer.
<1>6. CASE Len(queue) = 1
  <2>1. part = "blank"
    BY <1>1, <1>2, <1>3, <1>6 DEF HeadIsLeft
  <2>2. /\ wire' = [wire EXCEPT !.head = TRUE] /\ pc' = AfterHead
        /\ piece' = IF AfterHead = "buffer" THEN request.size ELSE 0
        /\ source' = IF AfterHead = "callback" THEN request.length ELSE 0
        /\ remaining' = IF AfterHead = "callback" THEN request.size ELSE 0
    BY <2>1 DEF SendHead
  <2>3. /\ wire' \in Wires /\ wire'.head = TRUE /\ wire'.data = 0 /\ wire'.framing = wire.framing
        /\ wire'.declared = wire.declared /\ ~wire'.ended
    BY <1>1, <1>2, <2>2 DEF TypeOK, HeadIsLeft, Wires
  <2>4. \/ request.method = "GET" /\ pc' = "status" /\ wire.framing = "none"
        \/ /\ request.method # "GET" /\ request.body = "buffer" /\ pc' = "buffer"
           /\ piece' = request.size /\ request.size > 0
           /\ wire.framing = "length" /\ wire.declared = request.size
        \/ /\ request.method # "GET" /\ request.body = "callback" /\ pc' = "callback"
           /\ piece' = 0 /\ source' = request.length /\ remaining' = request.size
           /\ wire.framing = Marker /\ (Marker = "length" => wire.declared = request.size)
    <3>1. request.size \in Nat /\ request.body \in {"none", "buffer", "callback"}
      BY <1>1, FieldTypes
    <3>2. ~IsInvalid
      BY <1>1, <1>2 DEF RequestIsValid, Sending
    <3>3. IF request.method = "GET" THEN wire.framing = "none"
          ELSE wire.framing = Marker /\ (Marker = "length" => wire.declared = request.size)
      BY <1>1, <1>2, <1>6 DEF HeadIsLeft
    <3>4. CASE request.method = "GET"
      BY <2>2, <3>3, <3>4 DEF AfterHead
    <3>5. CASE request.method # "GET" /\ request.body = "buffer"
      BY <2>2, <3>1, <3>2, <3>3, <3>5 DEF AfterHead, IsInvalid, Marker
    <3>6. CASE request.method # "GET" /\ request.body = "callback"
      BY <2>2, <3>3, <3>6 DEF AfterHead
    <3>. QED BY <3>1, <3>2, <3>4, <3>5, <3>6 DEF IsInvalid
  <2>5. heap = {"socket"} /\ heap' = heap
    BY <1>1, <1>2, <1>3, <1>5, <1>6, <2>1 DEF HeapIsKnown
  <2>6. /\ source' \in Lengths /\ piece' \in Nat /\ remaining' \in Nat
        /\ pc' \in {"status", "buffer", "callback"}
        /\ request.length \in Nat /\ request.size \in Nat
    <3>1. request.length \in Lengths /\ request.size \in Nat /\ 0 \in Lengths /\ request.length \in Nat
      BY <1>1, ClientAssumption, FieldTypes DEF TypeOK, Requests, Lengths
    <3>. QED BY <3>1, <2>2, <2>4
  <2>7. TypeOK'
    BY <1>1, <1>2, <1>3, <2>3, <2>5, <2>6 DEF TypeOK, Sending, Receiving, reqVars, inVars
  <2> USE <1>1, <1>2, <2>3, <2>4, <2>5, <2>6, <2>7 DEF reqVars, inVars, Before, Sending, Receiving
  <2>8. NothingYet' /\ RequestIsValid'
    BY DEF NothingYet, RequestIsValid, IsSane, IsInvalid
  <2>9. HeadIsLeft' /\ BufferIsLeft'
    BY DEF HeadIsLeft, BufferIsLeft
  <2>10. CallbackIsLeft'
    BY <1>4 DEF CallbackIsLeft
  <2>11. RequestIsSent'
    BY DEF RequestIsSent, HasRequest, Asked
  <2>12. HeadersAreLeft' /\ BytesAreLeft' /\ NothingLost'
    BY DEF HeadersAreLeft, BytesAreLeft, NothingLost
  <2>13. HeapIsKnown'
    BY DEF HeapIsKnown
  <2>. QED BY <2>7, <2>8, <2>9, <2>10, <2>11, <2>12, <2>13 DEF IInv
\* A buffer before it.
<1>7. CASE Len(queue) > 1
  <2>1. part # "blank" /\ part = queue[1]
    BY <1>1, <1>2, <1>3, <1>4, <1>7 DEF HeadIsLeft
  <2>2. pc' = "head" /\ UNCHANGED <<piece, source, remaining>>
    BY <1>2, <2>1 DEF SendHead
  <2>3. heap' \in {{"socket"}, {"socket", "hostname"}}
    BY <1>1, <1>2, <1>5 DEF HeapIsKnown
  <2>4. "hostname" \in heap' => \E i \in 1..(Len(queue') - 1) : queue'[i] = "host"
    <3> SUFFICES ASSUME "hostname" \in heap'
                 PROVE  \E i \in 1..(Len(queue') - 1) : queue'[i] = "host"
      OBVIOUS
    <3>1. PICK i \in 1..(Len(queue) - 1) : queue[i] = "host"
      BY <1>1, <1>2, <1>5 DEF HeapIsKnown
    <3>2. i # 1
      BY <1>5, <2>1, <3>1
    <3>3. i - 1 \in 1..(Len(queue') - 1) /\ queue'[i - 1] = queue[i]
      BY <1>3, <3>2
    <3>. QED BY <3>1, <3>3
  <2>5. /\ wire' \in Wires /\ ~wire'.head /\ wire'.data = 0 /\ ~wire'.ended
        /\ IF request.method = "GET" THEN wire'.framing = "none"
           ELSE IF Len(queue) > 2 THEN wire'.framing = "none"
           ELSE wire'.framing = Marker /\ (Marker = "length" => wire'.declared = request.size)
    <3>1. wire \in Wires /\ ~wire.head /\ wire.data = 0 /\ ~wire.ended /\ wire.framing = "none"
      BY <1>1, <1>2, <1>7 DEF TypeOK, HeadIsLeft
    <3>2. request.size \in Lengths
      BY <1>1, FieldTypes
    <3>3. CASE Len(queue) > 2 \/ request.method = "GET"
      <4>1. part \notin {"length", "chunked", "blank"}
        <5>1. CASE Len(queue) > 2
          <6>1. 1 \in 1..(Len(queue) - 2)
            BY <1>3, <5>1
          <6>. QED BY <1>1, <1>2, <2>1, <6>1 DEF HeadIsLeft
        <5>2. CASE Len(queue) = 2 /\ request.method = "GET"
          BY <1>1, <1>2, <2>1, <5>2 DEF HeadIsLeft
        <5>. QED BY <1>3, <1>7, <3>3, <5>1, <5>2
      <4>2. wire' = wire
        BY <4>1 DEF SendHead
      <4>. QED BY <3>1, <3>3, <4>2
    <3>4. CASE Len(queue) = 2 /\ request.method # "GET"
      <4>1. part = Marker
        BY <1>1, <1>2, <2>1, <3>4 DEF HeadIsLeft
      <4>2. CASE Marker = "length"
        <5> DEFINE d == request.size
        <5>1. wire' = [wire EXCEPT !.framing = "length", !.declared = d]
          BY <4>1, <4>2 DEF SendHead
        <5>2. d \in Lengths
          BY <3>2
        <5> HIDE DEF d
        <5>3. /\ wire' \in Wires /\ ~wire'.head /\ wire'.data = 0 /\ ~wire'.ended
              /\ wire'.framing = "length" /\ wire'.declared = d
          BY <3>1, <5>1, <5>2 DEF Wires, Framings
        <5>. QED BY <3>4, <4>2, <5>3 DEF d
      <4>3. CASE Marker = "chunked"
        <5>1. wire' = [wire EXCEPT !.framing = "chunked"]
          BY <4>1, <4>3 DEF SendHead
        <5>. QED BY <3>1, <3>4, <4>3, <5>1 DEF Wires, Framings
      <4>. QED BY <1>4, <4>2, <4>3
    <3>. QED BY <1>3, <1>7, <3>3, <3>4
  <2>6. TypeOK'
    BY <1>1, <1>2, <1>3, <2>2, <2>3, <2>5 DEF TypeOK, Allocations, reqVars, inVars
  <2>7. HeadIsLeft'
    <3>1. Len(queue') >= 1 /\ queue'[Len(queue')] = "blank"
      BY <1>1, <1>2, <1>3, <1>7 DEF HeadIsLeft
    <3>2. \A i \in 1..(Len(queue') - 2) : queue'[i] \notin {"length", "chunked", "blank"}
      BY <1>1, <1>2, <1>3, <1>7 DEF HeadIsLeft
    <3>3. Len(queue') >= 2 => queue'[Len(queue') - 1] = queue[Len(queue) - 1]
      BY <1>3
    <3>4. request.method # "PATCH" /\ piece = 0 /\ Len(queue) >= 2
      BY <1>1, <1>2, <1>3, <1>7 DEF HeadIsLeft
    <3>5. IF request.method = "GET" THEN queue[Len(queue) - 1] \notin {"length", "chunked", "blank"}
          ELSE queue[Len(queue) - 1] = Marker
      BY <1>1, <1>2, <1>3, <1>7 DEF HeadIsLeft
    <3>6. Len(queue') >= 2 <=> Len(queue) > 2
      BY <1>3
    <3>. QED BY <1>2, <1>4, <2>2, <2>5, <3>1, <3>2, <3>3, <3>4, <3>5, <3>6 DEF HeadIsLeft, reqVars
  <2> USE <1>1, <1>2, <2>2, <2>3, <2>4, <2>6, <2>7 DEF IInv, reqVars, inVars, Before, Sending, Receiving
  <2>8. NothingYet' /\ RequestIsValid' /\ RequestIsSent'
    BY DEF NothingYet, RequestIsValid, RequestIsSent, IsSane, IsInvalid
  <2>9. BufferIsLeft' /\ CallbackIsLeft' /\ HeadersAreLeft' /\ BytesAreLeft' /\ NothingLost'
    BY DEF BufferIsLeft, CallbackIsLeft, HeadersAreLeft, BytesAreLeft, NothingLost
  <2>10. HeapIsKnown'
    BY DEF HeapIsKnown
  <2>. QED BY <2>6, <2>7, <2>8, <2>9, <2>10 DEF IInv
<1>. QED BY <1>3, <1>6, <1>7

\* A piece of a body is sent.
LEMMA SendPieceStep ==
    ASSUME IInv, SendPiece
    PROVE  IInv'
<1>1. PICK k \in 1..piece :
        /\ piece' = piece - k
        /\ wire' = [wire EXCEPT !.data = @ + k,
                                !.due = IF wire.framing = "chunked" THEN @ - k ELSE @]
        /\ pc' = IF pc = "buffer" /\ k = piece THEN "status" ELSE pc
  BY DEF SendPiece
<1>2. /\ pc \in {"buffer", "callback"} /\ piece > 0
      /\ UNCHANGED <<reqVars, link, queue, source, remaining, inVars, heap, result>>
  BY DEF SendPiece
<1>3. TypeOK
  BY DEF IInv
<1>4. /\ k \in Nat /\ k <= piece /\ k > 0 /\ piece \in Nat /\ piece' \in Nat /\ piece' = piece - k
      /\ (k = piece <=> piece' = 0)
  BY <1>1, <1>3 DEF TypeOK
<1>5. /\ wire' \in Wires
      /\ wire'.data = wire.data + k /\ wire'.head = wire.head /\ wire'.framing = wire.framing
      /\ wire'.declared = wire.declared /\ wire'.ended = wire.ended
  <2> DEFINE d == wire.data + k
             u == IF wire.framing = "chunked" THEN wire.due - k ELSE wire.due
  <2>1. wire \in Wires /\ wire.data \in Nat /\ wire.due \in Int
    BY <1>3, FieldTypes DEF TypeOK
  <2>2. d \in Nat /\ u \in Int
    BY <2>1, <1>4
  <2>3. wire' = [wire EXCEPT !.data = d, !.due = u]
    BY <1>1, <2>1 DEF Wires
  <2> HIDE DEF d, u
  <2>4. /\ wire' \in Wires /\ wire'.data = d /\ wire'.head = wire.head
        /\ wire'.framing = wire.framing /\ wire'.declared = wire.declared /\ wire'.ended = wire.ended
    BY <2>1, <2>2, <2>3 DEF Wires
  <2>. QED BY <2>4 DEF d
<1>6. TypeOK'
  BY <1>1, <1>2, <1>3, <1>4, <1>5 DEF TypeOK, reqVars, inVars, Sending, Receiving
<1> USE <1>1, <1>2, <1>4, <1>5, <1>6, FieldTypes DEF IInv, reqVars, inVars, Before, Sending, Receiving
<1>7. NothingYet'
  BY DEF NothingYet
<1>8. RequestIsValid'
  BY DEF RequestIsValid, IsSane, IsInvalid
<1>9. BufferIsLeft'
  BY DEF BufferIsLeft
<1>10. CallbackIsLeft'
  <2> SUFFICES ASSUME pc' = "callback" PROVE CallbackIsLeft'
    BY DEF CallbackIsLeft
  <2>1. pc = "callback"
    OBVIOUS
  <2>2. Marker' = Marker
    BY DEF Marker
  <2>3. remaining \in Nat
    BY <1>3 DEF TypeOK
  <2>. QED BY <2>1, <2>2, <2>3 DEF CallbackIsLeft
<1>11. RequestIsSent'
  BY DEF RequestIsSent, HasRequest, Asked, BufferIsLeft, RequestIsValid, IsSane, IsInvalid
<1>12. HeadIsLeft' /\ HeadersAreLeft' /\ BytesAreLeft' /\ HeapIsKnown' /\ NothingLost'
  BY DEF HeadIsLeft, HeadersAreLeft, BytesAreLeft, HeapIsKnown, NothingLost
<1>. QED BY <1>6, <1>7, <1>8, <1>9, <1>10, <1>11, <1>12 DEF IInv

\* The callback gives a chunk, or the end.
LEMMA CallbackChunkStep ==
    ASSUME IInv, CallbackChunk
    PROVE  IInv'
<1>1. PICK n \in Lengths :
        /\ Supplies(n)
        /\ source' = source - n /\ piece' = n
        /\ wire' = [wire EXCEPT !.due = n, !.ended = (n = 0)]
        /\ pc' = IF n = 0 THEN "status" ELSE "callback"
  BY DEF CallbackChunk
<1>2. /\ pc = "callback" /\ piece = 0 /\ wire.framing = "chunked"
      /\ UNCHANGED <<reqVars, link, queue, remaining, inVars, heap, result>>
  BY DEF CallbackChunk
<1>3. TypeOK
  BY DEF IInv
<1>4. /\ n \in Nat /\ n <= source /\ (source = 0 <=> n = 0) /\ source \in Nat /\ source' \in Nat
      /\ source' = source - n /\ source' \in Lengths
  BY <1>1, <1>3, ClientAssumption DEF TypeOK, Supplies, Lengths
<1>5. /\ wire' \in Wires
      /\ wire'.data = wire.data /\ wire'.head = wire.head /\ wire'.framing = wire.framing
      /\ wire'.declared = wire.declared /\ (wire'.ended <=> n = 0)
  <2>1. wire \in Wires /\ n \in Int
    BY <1>3, <1>4 DEF TypeOK
  <2>2. CASE n = 0
    <3>1. wire' = [wire EXCEPT !.due = n, !.ended = TRUE]
      BY <1>1, <2>2
    <3>. QED BY <2>1, <2>2, <3>1 DEF Wires
  <2>3. CASE n # 0
    <3>1. wire' = [wire EXCEPT !.due = n, !.ended = FALSE]
      BY <1>1, <2>3
    <3>. QED BY <2>1, <2>3, <3>1 DEF Wires
  <2>. QED BY <2>2, <2>3
<1>6. TypeOK'
  BY <1>1, <1>2, <1>3, <1>4, <1>5 DEF TypeOK, reqVars, inVars, Sending, Receiving
<1> USE <1>1, <1>2, <1>4, <1>5, <1>6, FieldTypes DEF IInv, reqVars, inVars, Before, Sending, Receiving
<1>7. NothingYet'
  BY DEF NothingYet
<1>8. RequestIsValid'
  BY DEF RequestIsValid, IsSane, IsInvalid
<1>9. CallbackIsLeft'
  <2> SUFFICES ASSUME pc' = "callback" PROVE CallbackIsLeft'
    BY DEF CallbackIsLeft
  <2>1. n # 0
    OBVIOUS
  <2>2. Marker' = Marker
    BY DEF Marker
  <2>3. remaining \in Nat
    BY <1>3 DEF TypeOK
  <2>. QED BY <2>1, <2>2, <2>3 DEF CallbackIsLeft
<1>10. RequestIsSent'
  <2> SUFFICES ASSUME pc' \in Receiving PROVE HasRequest' /\ wire'.data = Asked'
    BY DEF RequestIsSent
  <2>1. n = 0
    OBVIOUS
  <2>2. source = 0 /\ wire'.data = request.length /\ wire'.head /\ wire'.ended
    BY <2>1 DEF CallbackIsLeft
  <2>. QED BY <2>1, <2>2 DEF HasRequest, Asked, CallbackIsLeft
<1>11. HeadIsLeft' /\ BufferIsLeft' /\ HeadersAreLeft' /\ BytesAreLeft' /\ HeapIsKnown' /\ NothingLost'
  BY DEF HeadIsLeft, BufferIsLeft, HeadersAreLeft, BytesAreLeft, HeapIsKnown, NothingLost
<1>. QED BY <1>6, <1>7, <1>8, <1>9, <1>10, <1>11 DEF IInv

\* The callback gives data that were announced.
CallbackDataSent(n) ==
    /\ source' = source - n /\ piece' = n /\ remaining' = remaining - n
    /\ pc' = IF n = 0 THEN "status" ELSE "callback"
    /\ UNCHANGED <<reqVars, link, queue, wire, inVars, heap, result>>

LEMMA CallbackDataStep ==
    ASSUME IInv, pc = "callback", piece = 0, wire.framing = "length", NEW n \in Lengths, Supplies(n),
           ~(n > remaining \/ (n = 0 /\ remaining # 0)), CallbackDataSent(n)
    PROVE  IInv'
<1>3. TypeOK
  BY DEF IInv
<1>4. /\ n \in Nat /\ n <= source /\ (source = 0 <=> n = 0) /\ source \in Nat /\ source' \in Nat
      /\ source' = source - n /\ source' \in Lengths
      /\ remaining \in Nat /\ n <= remaining /\ remaining' = remaining - n /\ remaining' \in Nat
      /\ n = 0 => remaining = 0
  BY <1>3, ClientAssumption DEF TypeOK, Supplies, Lengths, CallbackDataSent
<1>6. TypeOK'
  BY <1>3, <1>4 DEF TypeOK, CallbackDataSent, reqVars, inVars, Sending, Receiving
<1> USE <1>4, <1>6, FieldTypes DEF IInv, CallbackDataSent, reqVars, inVars, Before, Sending, Receiving
<1>7. NothingYet'
  BY DEF NothingYet
<1>8. RequestIsValid'
  BY DEF RequestIsValid, IsSane, IsInvalid
<1>9. CallbackIsLeft'
  BY DEF CallbackIsLeft, Marker, TypeOK
<1>10. RequestIsSent'
  <2> SUFFICES ASSUME pc' \in Receiving PROVE HasRequest' /\ wire'.data = Asked'
    BY DEF RequestIsSent
  <2>1. n = 0
    OBVIOUS
  <2>2. /\ wire.data = request.length /\ wire.head /\ wire.data = request.size
        /\ wire.declared = request.size
    BY <2>1 DEF CallbackIsLeft, Marker
  <2>. QED BY <2>1, <2>2 DEF HasRequest, Asked, CallbackIsLeft
<1>11. HeadIsLeft' /\ BufferIsLeft' /\ HeadersAreLeft' /\ BytesAreLeft' /\ HeapIsKnown' /\ NothingLost'
  BY DEF HeadIsLeft, BufferIsLeft, HeadersAreLeft, BytesAreLeft, HeapIsKnown, NothingLost
<1>. QED BY <1>6, <1>7, <1>8, <1>9, <1>10, <1>11 DEF IInv

\* What the type invariant says of the answer and of the counters of its bytes.
LEMMA AnswerTypes ==
    ASSUME TypeOK
    PROVE  /\ answer # Nothing => /\ answer \in Answer /\ answer.length \in Nat
                                  /\ answer.length <= MaxLength /\ answer.framing \in Framings
           /\ size \in Nat /\ want \in Nat /\ due \in Nat /\ left \in Nat /\ got \in Nat
           /\ \A a \in Answers : /\ a \in Answer /\ a # Nothing
                                 /\ a.length \in Nat /\ a.length <= MaxLength
                                 /\ a.framing \in Framings /\ a.lines \in Seq({"plain", "long"})
BY ClientAssumption DEF TypeOK, Answer, Lengths

\* The status line is read: the answer is the one drawn, and its header lines are to come.
LEMMA ReadStatusStep ==
    ASSUME IInv, pc = "status", NEW a \in Answers,
           pc' = "headers", answer' = a, left' = a.length,
           lines' = a.lines \o (IF a.framing = "none" THEN <<>> ELSE <<a.framing>>),
           heap' = heap \cup {"list"},
           UNCHANGED <<reqVars, link, outVars, found, size, want, due, got, result>>
    PROVE  IInv'
<1>1. TypeOK
  BY DEF IInv
<1>2. /\ a \in Answer /\ a # Nothing /\ a.length \in Nat /\ a.framing \in Framings
      /\ a.lines \in Seq({"plain", "long"})
  BY <1>1, AnswerTypes
<1>3. lines' \in Seq(Lines) /\ \A i \in DOMAIN lines' : lines'[i] \in {"plain", "long", a.framing}
  <2>1. CASE a.framing = "none"
    BY <1>2, <2>1 DEF Lines
  <2>2. CASE a.framing # "none"
    BY <1>2, <2>2 DEF Lines, Framings
  <2>. QED BY <2>1, <2>2
<1>4. TypeOK'
  BY <1>1, <1>2, <1>3 DEF TypeOK, Receiving, Allocations, reqVars, outVars
<1> USE <1>1, <1>2, <1>3, <1>4 DEF IInv, reqVars, outVars, Before, Sending, Receiving
<1>5. NothingYet' /\ RequestIsValid'
  BY DEF NothingYet, RequestIsValid, IsSane, IsInvalid
<1>6. HeadIsLeft' /\ BufferIsLeft' /\ CallbackIsLeft'
  BY DEF HeadIsLeft, BufferIsLeft, CallbackIsLeft
<1>7. RequestIsSent'
  BY DEF RequestIsSent, HasRequest, Asked
<1>8. HeadersAreLeft'
  BY DEF HeadersAreLeft, NothingYet
<1>9. BytesAreLeft' /\ HeapIsKnown' /\ NothingLost'
  BY DEF BytesAreLeft, HeapIsKnown, NothingLost
<1>. QED BY <1>4, <1>5, <1>6, <1>7, <1>8, <1>9 DEF IInv

\* A header line is read.
LEMMA ReadHeaderStep ==
    ASSUME IInv, pc = "headers", lines # <<>>, Head(lines) # "long",
           lines' = Tail(lines),
           found' = IF found = "none" /\ Head(lines) \in Framings THEN Head(lines) ELSE found,
           size' = IF found = "none" /\ Head(lines) = "length" THEN answer.length ELSE size,
           UNCHANGED <<reqVars, pc, link, outVars, answer, want, due, left, got, heap, result>>
    PROVE  IInv'
<1>1. TypeOK /\ HeadersAreLeft
  BY DEF IInv
<1>2. /\ answer # Nothing /\ answer.length \in Nat /\ answer.framing \in Framings
      /\ got = 0 /\ left = answer.length
  BY <1>1, AnswerTypes DEF HeadersAreLeft
<1>3. /\ Head(lines) \in Lines /\ Head(lines) \in {"plain", answer.framing}
      /\ lines' \in Seq(Lines) /\ \A i \in DOMAIN lines' : lines'[i] \in {"plain", "long", answer.framing}
  <2>1. lines \in Seq(Lines) /\ \A i \in DOMAIN lines : lines[i] \in {"plain", "long", answer.framing}
    BY <1>1 DEF HeadersAreLeft, TypeOK
  <2>2. Head(lines) = lines[1] /\ 1 \in DOMAIN lines
    BY <2>1
  <2>3. \A i \in DOMAIN Tail(lines) : i + 1 \in DOMAIN lines /\ Tail(lines)[i] = lines[i + 1]
    BY <2>1
  <2>. QED BY <2>1, <2>2, <2>3
<1>4. /\ found' \in Framings /\ found' \in {"none", answer.framing}
      /\ size' \in Nat /\ size' = IF found' = "length" THEN answer.length ELSE 0
  BY <1>1, <1>2, <1>3 DEF HeadersAreLeft, Framings
<1>5. TypeOK'
  BY <1>1, <1>2, <1>3, <1>4 DEF TypeOK, reqVars, outVars
<1> USE <1>2, <1>3, <1>4, <1>5 DEF IInv, reqVars, outVars, Before, Sending, Receiving
<1>6. NothingYet' /\ RequestIsValid'
  BY DEF NothingYet, RequestIsValid, IsSane, IsInvalid
<1>7. HeadIsLeft' /\ BufferIsLeft' /\ CallbackIsLeft'
  BY DEF HeadIsLeft, BufferIsLeft, CallbackIsLeft
<1>8. RequestIsSent'
  BY DEF RequestIsSent, HasRequest, Asked
<1>9. HeadersAreLeft'
  BY DEF HeadersAreLeft
<1>10. BytesAreLeft' /\ HeapIsKnown' /\ NothingLost'
  BY DEF BytesAreLeft, HeapIsKnown, NothingLost
<1>. QED BY <1>5, <1>6, <1>7, <1>8, <1>9, <1>10 DEF IInv

\* The blank line after the headers: the body follows, if there is one.
LEMMA EndHeadersStep ==
    ASSUME IInv, pc = "headers", found # "none",
           pc' = CASE found = "chunked" -> "chunk"
                   [] found = "length" /\ size = 0 -> "deliver"
                   [] OTHER -> "bytes",
           want' = size, due' = size, left' = IF found = "length" THEN 0 ELSE left,
           heap' = IF found = "length" /\ size # 0 THEN heap \cup {"body"} ELSE heap,
           UNCHANGED <<reqVars, link, outVars, answer, lines, found, size, got, result>>
    PROVE  IInv'
<1>1. TypeOK /\ HeadersAreLeft /\ HeapIsKnown
  BY DEF IInv
<1>2. /\ answer # Nothing /\ answer.length \in Nat /\ answer.framing \in Framings
      /\ got = 0 /\ left = answer.length /\ size \in Nat /\ heap = {"socket", "list"}
  BY <1>1, AnswerTypes DEF HeadersAreLeft, HeapIsKnown
<1>3. \/ found = "chunked" /\ pc' = "chunk" /\ size = 0 /\ left' = left /\ heap' = heap
      \/ /\ found = "length" /\ size = 0 /\ pc' = "deliver" /\ answer.length = 0 /\ left' = 0 /\ heap' = heap
      \/ /\ found = "length" /\ size > 0 /\ pc' = "bytes" /\ answer.length = size /\ left' = 0
         /\ heap' = heap \cup {"body"}
  BY <1>1, <1>2 DEF TypeOK, HeadersAreLeft, Framings
<1>4. TypeOK'
  BY <1>1, <1>2, <1>3 DEF TypeOK, reqVars, outVars, Receiving, Allocations
<1> USE <1>2, <1>3, <1>4 DEF IInv, reqVars, outVars, Before, Sending, Receiving
<1>5. NothingYet' /\ RequestIsValid'
  BY DEF NothingYet, RequestIsValid, IsSane, IsInvalid
<1>6. HeadIsLeft' /\ BufferIsLeft' /\ CallbackIsLeft'
  BY DEF HeadIsLeft, BufferIsLeft, CallbackIsLeft
<1>7. RequestIsSent'
  BY DEF RequestIsSent, HasRequest, Asked
<1>8. BytesAreLeft' /\ HeadersAreLeft'
  BY DEF BytesAreLeft, HeadersAreLeft
<1>9. HeapIsKnown' /\ NothingLost'
  BY DEF HeapIsKnown, NothingLost
<1>. QED BY <1>4, <1>5, <1>6, <1>7, <1>8, <1>9 DEF IInv

\* The body is at hand: what a step does to the counts of its bytes decides.
LEMMA BodyStep ==
    ASSUME IInv, pc \in {"chunk", "bytes", "crlf", "last crlf"},
           pc' \in {"chunk", "bytes", "crlf", "last crlf", "deliver"},
           size' \in Nat, want' \in Nat, due' \in Nat, left' \in Nat, got' \in Nat,
           heap' = heap \/ heap' = heap \cup {"body"},
           UNCHANGED <<reqVars, link, outVars, answer, lines, found, result>>,
           BytesAreLeft',
           pc' = "bytes" => "body" \in heap',
           pc' # "bytes" => (got' > 0 <=> "body" \in heap')
    PROVE  IInv'
<1>1. TypeOK'
  BY DEF IInv, TypeOK, reqVars, outVars, Receiving, Allocations
<1> USE <1>1 DEF IInv, reqVars, outVars, Before, Sending, Receiving
<1>2. NothingYet' /\ RequestIsValid'
  BY DEF NothingYet, RequestIsValid, IsSane, IsInvalid
<1>3. HeadIsLeft' /\ BufferIsLeft' /\ CallbackIsLeft' /\ HeadersAreLeft'
  BY DEF HeadIsLeft, BufferIsLeft, CallbackIsLeft, HeadersAreLeft
<1>4. RequestIsSent'
  BY DEF RequestIsSent, HasRequest, Asked
<1>5. HeapIsKnown' /\ NothingLost'
  BY DEF HeapIsKnown, NothingLost
<1>. QED BY <1>1, <1>2, <1>3, <1>4, <1>5 DEF IInv

LEMMA ReadLastChunkStep ==
    ASSUME IInv, ReadLastChunk
    PROVE  IInv'
<1>1. TypeOK /\ BytesAreLeft /\ HeapIsKnown
  BY DEF IInv
<1>2. left = 0
  <2>1. left \in Nat /\ NextChunk(0)
    BY <1>1, AnswerTypes DEF ReadLastChunk
  <2>. QED BY <2>1 DEF NextChunk
<1>3. /\ pc = "chunk" /\ pc' = "last crlf"
      /\ UNCHANGED <<reqVars, link, outVars, inVars, heap, result>>
  BY DEF ReadLastChunk
<1>4. BytesAreLeft'
  <2>1. got = size /\ got + left = answer.length /\ got \in Nat /\ answer # Nothing /\ answer.length \in Nat
    BY <1>1, <1>3, AnswerTypes DEF BytesAreLeft
  <2>2. found \in {"length", "chunked"}
    BY <1>1, <1>3 DEF BytesAreLeft
  <2>3. got = answer.length
    BY <1>2, <2>1
  <2>. QED BY <1>3, <2>1, <2>2, <2>3 DEF BytesAreLeft, inVars
<1>5. got > 0 <=> "body" \in heap
  BY <1>1, <1>3 DEF HeapIsKnown
<1>. QED BY <1>1, <1>3, <1>4, <1>5, AnswerTypes, BodyStep DEF inVars

\* The line of a chunk, and the memory for it: the chunk is asked for with what sscanf
\* made of its size, and that is never less than the service sends.
LEMMA ReadChunkLineStep ==
    ASSUME IInv, ReadChunkLine
    PROVE  IInv'
<1>1. TypeOK /\ BytesAreLeft /\ HeapIsKnown
  BY DEF IInv
<1>2. PICK k \in Lengths, g \in Upper :
        /\ NextChunk(k) /\ k + g # 0
        /\ pc' = "bytes" /\ want' = k + g /\ due' = k /\ left' = left - k
        /\ size' = size + k + g
        /\ heap' = heap \cup {"body"}
  BY DEF ReadChunkLine
<1>3. /\ pc = "chunk"
      /\ UNCHANGED <<reqVars, link, outVars, answer, lines, found, got, result>>
  BY DEF ReadChunkLine
<1>4. /\ answer # Nothing /\ answer.length \in Nat /\ found = "chunked"
      /\ got \in Nat /\ left \in Nat /\ size \in Nat /\ got = size /\ got + left = answer.length
  BY <1>1, <1>3, AnswerTypes DEF BytesAreLeft
<1>5. k \in Nat /\ g \in Nat /\ k <= left
  BY <1>2, <1>4, ClientAssumption DEF Lengths, NextChunk
<1>6. left' \in Nat /\ want' \in Nat /\ due' \in Nat /\ size' \in Nat /\ want' >= due'
  BY <1>2, <1>4, <1>5
<1>7. BytesAreLeft'
  <2>1. got' + due' + left' = answer'.length
    BY <1>2, <1>3, <1>4, <1>5
  <2>2. want' = due' => size' = got' + due' /\ size' > 0
    BY <1>2, <1>3, <1>4, <1>5
  <2>. QED BY <1>2, <1>3, <1>4, <1>6, <2>1, <2>2 DEF BytesAreLeft
<1>. QED BY <1>2, <1>3, <1>4, <1>6, <1>7, BodyStep

\* Bytes are received: those stored and those to come are the same in all.
LEMMA ReceiveBytesStep ==
    ASSUME IInv, ReceiveBytes
    PROVE  IInv'
<1>1. TypeOK /\ BytesAreLeft /\ HeapIsKnown
  BY DEF IInv
<1>2. PICK k \in 1..due :
        /\ k <= want
        /\ want' = want - k /\ due' = due - k /\ got' = got + k
        /\ pc' = IF k < want THEN "bytes" ELSE IF found = "length" THEN "deliver" ELSE "crlf"
  BY DEF ReceiveBytes
<1>3. /\ pc = "bytes"
      /\ UNCHANGED <<reqVars, link, outVars, answer, lines, found, size, left, heap, result>>
  BY DEF ReceiveBytes
<1>4. /\ answer # Nothing /\ answer.length \in Nat /\ found \in {"length", "chunked"}
      /\ got \in Nat /\ left \in Nat /\ size \in Nat /\ want \in Nat /\ due \in Nat
      /\ got + due + left = answer.length /\ want >= due
      /\ want = due => size = got + due /\ size > 0
      /\ found = "length" => want = due /\ left = 0
      /\ "body" \in heap
  BY <1>1, <1>3, AnswerTypes DEF BytesAreLeft, HeapIsKnown
<1>5. k \in Nat /\ k > 0 /\ k <= due
  BY <1>2, <1>4
<1>6. want' \in Nat /\ due' \in Nat /\ got' \in Nat /\ got' > 0
  BY <1>2, <1>4, <1>5
<1>7. pc' # "bytes" => want = due /\ k = want
  BY <1>2, <1>4, <1>5
<1>8. BytesAreLeft'
  BY <1>2, <1>3, <1>4, <1>5, <1>6, <1>7 DEF BytesAreLeft
<1>9. size' \in Nat /\ left' \in Nat /\ pc' \in {"bytes", "crlf", "deliver"}
  BY <1>2, <1>3, <1>4
<1>. QED BY <1>3, <1>4, <1>6, <1>8, <1>9, BodyStep

LEMMA ReadCrLfStep ==
    ASSUME IInv, ReadCrLf
    PROVE  IInv'
<1>1. TypeOK /\ BytesAreLeft /\ HeapIsKnown
  BY DEF IInv
<1>2. /\ pc \in {"crlf", "last crlf"} /\ pc' = IF pc = "crlf" THEN "chunk" ELSE "deliver"
      /\ UNCHANGED <<reqVars, link, outVars, inVars, heap, result>>
  BY DEF ReadCrLf
<1>3. BytesAreLeft'
  BY <1>1, <1>2, AnswerTypes DEF BytesAreLeft, inVars
<1>4. got > 0 <=> "body" \in heap
  BY <1>1, <1>2 DEF HeapIsKnown
<1>. QED BY <1>1, <1>2, <1>3, <1>4, AnswerTypes, BodyStep DEF inVars

\* The response takes over the headers and the body; the socket is freed.
LEMMA DeliverStep ==
    ASSUME IInv, pc = "deliver", pc' = "done", result' = "OK",
           heap' = (heap \ {"socket"}) \cup {"response"},
           UNCHANGED <<reqVars, link, outVars, inVars>>
    PROVE  IInv'
<1>1. TypeOK /\ BytesAreLeft /\ HeapIsKnown
  BY DEF IInv
<1>2. TypeOK'
  BY <1>1 DEF TypeOK, Allocations, Results, reqVars, outVars, inVars
<1> USE <1>1, <1>2 DEF IInv, reqVars, outVars, inVars, Before, Sending, Receiving
<1>3. NothingYet' /\ RequestIsValid' /\ RequestIsSent'
  BY DEF NothingYet, RequestIsValid, RequestIsSent
<1>4. HeadIsLeft' /\ BufferIsLeft' /\ CallbackIsLeft' /\ HeadersAreLeft'
  BY DEF HeadIsLeft, BufferIsLeft, CallbackIsLeft, HeadersAreLeft
<1>5. BytesAreLeft'
  BY DEF BytesAreLeft
<1>6. HeapIsKnown' /\ NothingLost'
  BY DEF HeapIsKnown, NothingLost
<1>. QED BY <1>2, <1>3, <1>4, <1>5, <1>6 DEF IInv

\* The handles are free for the next call.
LEMMA IdleAgain ==
    ASSUME IInv, GoIdle, client' \in {"none", "untrusting", "trusting"}, request' \in Requests
    PROVE  IInv'
<1>1. NoWire \in Wires
  BY ClientAssumption DEF NoWire, Wires, Lengths, Framings
<1>2. <<>> \in Seq(Buffers) /\ <<>> \in Seq(Lines)
  OBVIOUS
<1>3. TypeOK'
  BY <1>1, <1>2, ClientAssumption DEF GoIdle, TypeOK, Results, Framings, Lengths
<1> USE <1>3 DEF GoIdle, Before, Sending, Receiving
<1>4. NothingYet' /\ RequestIsValid' /\ RequestIsSent'
  BY DEF NothingYet, RequestIsValid, RequestIsSent
<1>5. HeadIsLeft' /\ BufferIsLeft' /\ CallbackIsLeft' /\ HeadersAreLeft'
  BY DEF HeadIsLeft, BufferIsLeft, CallbackIsLeft, HeadersAreLeft
<1>6. BytesAreLeft' /\ HeapIsKnown' /\ NothingLost'
  BY DEF BytesAreLeft, HeapIsKnown, NothingLost
<1>. QED BY <1>3, <1>4, <1>5, <1>6 DEF IInv

\* The setters of the request keep it a request.
LEMMA SetParameterStep ==
    ASSUME IInv, SetParameter
    PROVE  IInv'
<1>1. TypeOK /\ pc = "idle" /\ UNCHANGED <<client, pc, link, outVars, inVars, heap, result>>
  BY DEF IInv, SetParameter, RenewRequest, AddHeader, SetMethod, SetUrl, SetBody, SetCallback,
         SetBodySize, Set
<1>2. request \in Requests /\ request.headers \in 0..MaxHeaders
  BY <1>1 DEF TypeOK, Requests
<1>3. request' \in Requests
  <2>1. CASE RenewRequest
    BY <2>1, ClientAssumption DEF RenewRequest, Set, NewRequest, Requests, Methods, Lengths
  <2>2. CASE AddHeader
    <3>1. request.headers + 1 \in 0..MaxHeaders
      BY <1>2, <2>2, ClientAssumption DEF AddHeader
    <3>. QED BY <1>2, <2>2, <3>1 DEF AddHeader, Set, Requests
  <2>3. ASSUME NEW m \in Methods, SetMethod(m) PROVE request' \in Requests
    BY <1>2, <2>3 DEF SetMethod, Set, Requests
  <2>4. ASSUME NEW b \in BOOLEAN, SetUrl(b) PROVE request' \in Requests
    BY <1>2, <2>4 DEF SetUrl, Set, Requests
  <2>5. ASSUME NEW n \in Lengths, SetBody(n) \/ SetCallback(n) \/ SetBodySize(n) PROVE request' \in Requests
    BY <1>2, <2>5 DEF SetBody, SetCallback, SetBodySize, Set, Requests
  <2>. QED BY <2>1, <2>2, <2>3, <2>4, <2>5 DEF SetParameter
<1>. QED BY <1>1, <1>3, IdleStep DEF TypeOK

\* A stuttering step.
LEMMA StutterStep ==
    ASSUME IInv, UNCHANGED vars
    PROVE  IInv'
<1> USE DEF vars, reqVars, inVars, outVars, IInv
<1>1. TypeOK' /\ NothingYet' /\ RequestIsValid'
  BY DEF TypeOK, NothingYet, RequestIsValid, IsSane, IsInvalid
<1>2. HeadIsLeft' /\ BufferIsLeft' /\ CallbackIsLeft'
  BY DEF HeadIsLeft, BufferIsLeft, CallbackIsLeft, Marker
<1>3. RequestIsSent' /\ HeadersAreLeft' /\ BytesAreLeft'
  BY DEF RequestIsSent, HasRequest, Asked, HeadersAreLeft, BytesAreLeft
<1>4. HeapIsKnown' /\ NothingLost'
  BY DEF HeapIsKnown, NothingLost
<1>. QED BY <1>1, <1>2, <1>3, <1>4

\* The places an error can come from, with what it leaves.
Failing ==
    /\ pc \notin {"idle", "done", "crashed"}
    /\ \E code \in Results \ {"none", "OK"}, lost \in SUBSET {"cut header", "old body"} :
          FailWith(code, lost)

\* What a step of the client is, an error apart.
LEMMA ClientSteps ==
    ASSUME ClientStep \/ Fault
    PROVE  \/ Failing
           \/ /\ pc = "check" /\ pc' = "crashed"
              /\ UNCHANGED <<reqVars, link, outVars, inVars, heap, result>>
           \/ /\ pc = "check" /\ ~IsInvalid /\ pc' = "connect" /\ heap' = {"socket"}
              /\ UNCHANGED <<reqVars, link, outVars, inVars, result>>
           \/ /\ pc = "connect" /\ request.method # "PATCH"
              /\ pc' = "head" /\ link' = "open" /\ queue' = HeadBuffers /\ heap' = heap \cup {"hostname"}
              /\ UNCHANGED <<reqVars, wire, source, piece, remaining, inVars, result>>
           \/ SendHead \/ SendPiece \/ CallbackChunk
           \/ \E n \in Lengths :
                 /\ pc = "callback" /\ piece = 0 /\ wire.framing = "length" /\ Supplies(n)
                 /\ ~(n > remaining \/ (n = 0 /\ remaining # 0)) /\ CallbackDataSent(n)
           \/ \E a \in Answers :
                 /\ pc = "status" /\ pc' = "headers" /\ answer' = a /\ left' = a.length
                 /\ lines' = a.lines \o (IF a.framing = "none" THEN <<>> ELSE <<a.framing>>)
                 /\ heap' = heap \cup {"list"}
                 /\ UNCHANGED <<reqVars, link, outVars, found, size, want, due, got, result>>
           \/ /\ pc = "headers" /\ lines # <<>> /\ Head(lines) # "long"
              /\ lines' = Tail(lines)
              /\ found' = IF found = "none" /\ Head(lines) \in Framings THEN Head(lines) ELSE found
              /\ size' = IF found = "none" /\ Head(lines) = "length" THEN answer.length ELSE size
              /\ UNCHANGED <<reqVars, pc, link, outVars, answer, want, due, left, got, heap, result>>
           \/ /\ pc = "headers" /\ found # "none"
              /\ pc' = CASE found = "chunked" -> "chunk"
                         [] found = "length" /\ size = 0 -> "deliver"
                         [] OTHER -> "bytes"
              /\ want' = size /\ due' = size /\ left' = IF found = "length" THEN 0 ELSE left
              /\ heap' = IF found = "length" /\ size # 0 THEN heap \cup {"body"} ELSE heap
              /\ UNCHANGED <<reqVars, link, outVars, answer, lines, found, size, got, result>>
           \/ ReadLastChunk \/ ReadChunkLine \/ ReceiveBytes \/ ReadCrLf
           \/ /\ pc = "deliver" /\ pc' = "done" /\ result' = "OK"
              /\ heap' = (heap \ {"socket"}) \cup {"response"}
              /\ UNCHANGED <<reqVars, link, outVars, inVars>>
<1> USE DEF Fail, Failing, Results
<1>1. CASE Reject \/ Start
  BY <1>1 DEF Reject, Start
<1>2. CASE RefuseService \/ Connect
  BY <1>2 DEF RefuseService, Connect
<1>3. CASE CallbackData
  BY <1>3 DEF CallbackData, CallbackDataSent
<1>4. CASE ReceiveFails
  BY <1>4 DEF ReceiveFails, Receiving
<1>5. CASE ReadStatus
  BY <1>5 DEF ReadStatus
<1>6. CASE ReadCutHeader
  BY <1>6 DEF ReadCutHeader
<1>7. CASE ReadHeader
  BY <1>7 DEF ReadHeader
<1>8. CASE EndHeaders
  BY <1>8 DEF EndHeaders
<1>9. CASE Deliver
  BY <1>9 DEF Deliver
<1>10. CASE ConnectFails \/ SendFails \/ CallbackGivesUp
  BY <1>10 DEF ConnectFails, SendFails, CallbackGivesUp, Sending
<1>11. CASE ResizeFails
  BY <1>11 DEF ResizeFails
<1>. QED BY <1>1, <1>2, <1>3, <1>4, <1>5, <1>6, <1>7, <1>8, <1>9, <1>10, <1>11 DEF ClientStep, Fault

LEMMA NextStep ==
    ASSUME IInv, [Next]_vars
    PROVE  IInv'
<1>1. CASE Initialize \/ AddCertificate \/ Destroy
  <2>1. IInv /\ pc = "idle" /\ UNCHANGED <<request, pc, link, outVars, inVars, heap, result>>
    BY <1>1 DEF Initialize, AddCertificate, Destroy
  <2>2. client' \in {"none", "untrusting", "trusting"} /\ request' \in Requests
    BY <1>1, <2>1 DEF Initialize, AddCertificate, Destroy, IInv, TypeOK
  <2>. QED BY <2>1, <2>2, IdleStep
<1>2. CASE ClientStep \/ Fault
  BY <1>2, ClientSteps, FailStep, CrashStep, StartStep, ConnectStep, SendHeadStep, SendPieceStep,
     CallbackChunkStep, CallbackDataStep, ReadStatusStep, ReadHeaderStep, EndHeadersStep,
     ReadLastChunkStep, ReadChunkLineStep, ReceiveBytesStep, ReadCrLfStep, DeliverStep DEF Failing
<1>3. CASE Finish \/ Restart
  <2>1. GoIdle /\ client' \in {"none", "untrusting", "trusting"} /\ request' \in Requests
    <3>1. NewRequest \in Requests
      BY ClientAssumption DEF NewRequest, Requests, Methods, Lengths
    <3>2. CASE Finish
      BY <3>2 DEF Finish, reqVars, IInv, TypeOK
    <3>3. CASE Restart
      BY <3>1, <3>3 DEF Restart
    <3>. QED BY <1>3, <3>2, <3>3
  <2>. QED BY <2>1, IdleAgain
<1>4. CASE ServiceCloses \/ ServiceStalls
  BY <1>4, ServiceStep DEF ServiceCloses, ServiceStalls
<1>. QED BY <1>1, <1>2, <1>3, <1>4, SetParameterStep, BeginStep, StutterStep DEF Next

LEMMA InitHolds == Init => IInv
<1> SUFFICES ASSUME Init PROVE IInv
  OBVIOUS
<1>1. NewRequest \in Requests /\ NoWire \in Wires
  BY ClientAssumption DEF NewRequest, Requests, Methods, Lengths, NoWire, Wires, Framings
<1>2. TypeOK
  BY <1>1, ClientAssumption DEF Init, Idle, TypeOK, Lengths, Framings, Results
<1>. QED
  BY <1>2 DEF Init, Idle, IInv, Before, Sending, Receiving, NothingYet, RequestIsValid, HeadIsLeft,
     BufferIsLeft, CallbackIsLeft, RequestIsSent, HeadersAreLeft, BytesAreLeft, HeapIsKnown, NothingLost

-----------------------------------------------------------------------------
(* The safety properties.                                                  *)

\* The invariant holds in every state of mcl_http_client_send.
THEOREM Invariance == Spec => []IInv
<1>1. IInv /\ [Next]_vars => IInv'
  BY NextStep
<1>. QED BY InitHolds, <1>1, PTL DEF Spec

\* Whatever a call of mcl_http_client_send ends with, it has freed what it allocated but for
\* the copy of a cut header line and the body a failed resize replaced; and a response has a
\* body exactly if bytes were received.
THEOREM FreesItsMemory == Spec => []NothingLost
<1>1. IInv => NothingLost
  BY DEF IInv
<1>. QED BY <1>1, Invariance, PTL

-----------------------------------------------------------------------------
(* The client implements HttpCall.                                         *)

\* What the abstract specification sees of a call stays the same.
LEMMA NothingSeen ==
    ASSUME UNCHANGED <<request, wire, answer, result, size, got>>, InCall' = InCall
    PROVE  UNCHANGED Call!callVars
BY DEF Call!callVars, CallAsked, CallServed, CallAnswered, CallOutcome, CallReply, HasRequest, Asked

\* HasRequest, case by case.
LEMMA RequestByFraming ==
    /\ HasRequest => wire.head = TRUE
    /\ HasRequest /\ wire.framing = "length" => wire.data = wire.declared
    /\ HasRequest /\ wire.framing = "chunked" => wire.ended = TRUE
BY DEF HasRequest

\* The request that the service has is the one asked for, or a part of it.
LEMMA ServedFits ==
    IInv /\ InCall /\ HasRequest /\ pc \in Sending \cup Receiving => wire.data \in 0..Asked
<1> SUFFICES ASSUME IInv, InCall, HasRequest, pc \in Sending \cup Receiving
             PROVE  wire.data \in 0..Asked
  OBVIOUS
<1>1. TypeOK /\ wire.data \in Nat /\ Asked \in Nat /\ request.length \in Nat
      /\ source \in Nat /\ piece \in Nat
  BY FieldTypes DEF IInv, TypeOK, Lengths
<1>2. CASE pc = "head"
  BY <1>2, RequestByFraming DEF IInv, HeadIsLeft
<1>3. CASE pc = "buffer"
  BY <1>1, <1>3, RequestByFraming DEF IInv, BufferIsLeft
<1>4. CASE pc = "callback"
  BY <1>1, <1>4 DEF IInv, CallbackIsLeft, Asked
<1>5. CASE pc \in Receiving
  BY <1>1, <1>5 DEF IInv, RequestIsSent
<1>. QED BY <1>2, <1>3, <1>4, <1>5 DEF Sending

\* A step that sends: the service may have the request after it.
LEMMA SendingImplements ==
    ASSUME IInv, IInv', pc \in Sending, pc' \in Sending \cup Receiving, ~HasRequest,
           UNCHANGED <<request, answer, result, size, got>>
    PROVE  [Call!Next]_(Call!callVars)
<1>1. /\ InCall /\ InCall' /\ result = "none" /\ answer = Nothing
  BY DEF InCall, Sending, Receiving, IInv, NothingYet
<1>2. Asked \in Nat /\ Asked # Nothing /\ Asked' = Asked
  BY FieldTypes, ClientAssumption DEF IInv, Lengths, Asked
<1>3. /\ CallAsked = Asked /\ CallAsked' = CallAsked /\ CallServed = Nothing
      /\ CallAnswered' = CallAnswered /\ CallOutcome' = CallOutcome /\ CallReply' = CallReply
      /\ CallOutcome = "none"
  BY <1>1, <1>2 DEF CallAsked, CallServed, CallAnswered, CallOutcome, CallReply
<1>4. CASE ~HasRequest'
  <2>1. CallServed' = CallServed
    BY <1>3, <1>4 DEF CallServed
  <2>. QED BY <1>3, <2>1 DEF Call!callVars
<1>5. CASE HasRequest'
  <2>1. (wire.data \in 0..Asked)'
    <3>1. (IInv /\ InCall /\ HasRequest /\ pc \in Sending \cup Receiving)'
      BY <1>1, <1>5 DEF Sending, Receiving
    <3>. QED BY <3>1, ServedFits, PTL
  <2>2. CallServed' \in 0..CallAsked
    BY <1>1, <1>2, <1>3, <1>5, <2>1 DEF CallServed
  <2>3. Call!Serve
    BY <1>2, <1>3, <2>2 DEF Call!Serve
  <2>. QED BY <2>3 DEF Call!Next
<1>. QED BY <1>4, <1>5

\* A call that fails.
LEMMA FailImplements ==
    ASSUME IInv, Failing
    PROVE  [Call!Next]_(Call!callVars)
<1>1. /\ InCall /\ InCall' /\ result = "none" /\ result' \in Results \ {"none", "OK"}
      /\ UNCHANGED <<request, wire, answer>>
  BY DEF Failing, FailWith, InCall, IInv, NothingYet, reqVars, outVars, inVars
<1>2. Asked # Nothing
  BY FieldTypes, ClientAssumption DEF IInv, Lengths
<1>3. /\ CallAsked = Asked /\ CallAsked' = CallAsked /\ CallServed' = CallServed
      /\ CallAnswered' = CallAnswered /\ CallOutcome = "none" /\ CallOutcome' = "error"
      /\ CallReply' = CallReply
  BY <1>1 DEF CallAsked, CallServed, CallAnswered, CallOutcome, CallReply, Asked, HasRequest, Results
<1>4. Call!Fail
  BY <1>2, <1>3 DEF Call!Fail
<1>. QED BY <1>4 DEF Call!Next

\* A call begins.
LEMMA BeginImplements ==
    ASSUME IInv, Begin
    PROVE  [Call!Next]_(Call!callVars)
<1>1. /\ ~InCall /\ InCall' /\ ~HasRequest /\ ~HasRequest'
      /\ UNCHANGED <<request, wire, answer, result, size, got>>
  <2>1. wire = NoWire /\ UNCHANGED <<request, wire, answer, result, size, got>>
    BY DEF Begin, IInv, NothingYet, Before, reqVars, outVars, inVars
  <2>2. ~HasRequest /\ ~HasRequest'
    BY <2>1 DEF HasRequest, NoWire
  <2>. QED BY <2>1, <2>2 DEF Begin, InCall
<1>2. Asked' = Asked /\ Asked \in 0..MaxLength
  BY <1>1, FieldTypes DEF Asked, IInv, Lengths
<1>3. CallAsked = Nothing /\ CallAsked' \in 0..MaxLength
  BY <1>1, <1>2 DEF CallAsked
<1>4. /\ CallServed' = CallServed /\ CallAnswered' = CallAnswered
      /\ CallOutcome' = CallOutcome /\ CallReply' = CallReply
  BY <1>1 DEF CallServed, CallAnswered, CallOutcome, CallReply
<1>5. Call!Ask
  BY <1>3, <1>4 DEF Call!Ask, Call!Lengths
<1>. QED BY <1>5 DEF Call!Next

\* A call that is over, or whose process has ended.
LEMMA EndImplements ==
    ASSUME IInv, InCall, ~InCall', answer' = Nothing, result' = "none"
    PROVE  [Call!Next]_(Call!callVars)
<1>1. CallAsked = Asked /\ Asked # Nothing
  BY FieldTypes, ClientAssumption DEF CallAsked, IInv, Lengths
<1>2. /\ CallAsked' = Nothing /\ CallServed' = Nothing /\ CallAnswered' = Nothing
      /\ CallOutcome' = "none" /\ CallReply' = Nothing
  BY DEF CallAsked, CallServed, CallAnswered, CallOutcome, CallReply
<1>3. Call!Finish
  BY <1>1, <1>2 DEF Call!Finish
<1>. QED BY <1>3 DEF Call!Next

\* The answer to the request comes in, and nothing before the request is there.
LEMMA AnswerImplements ==
    ASSUME IInv, pc = "status", pc' = "headers", NEW a \in Answers, answer' = a,
           UNCHANGED <<request, wire, result>>
    PROVE  [Call!Next]_(Call!callVars)
<1>1. /\ InCall /\ InCall' /\ HasRequest /\ wire.data = Asked /\ answer = Nothing /\ result = "none"
      /\ HasRequest' /\ wire'.data = wire.data /\ Asked' = Asked
  BY DEF InCall, IInv, RequestIsSent, Receiving, NothingYet, HasRequest, Asked
<1>2. Asked # Nothing /\ a # Nothing /\ a.length \in 0..MaxLength
  BY FieldTypes, AnswerTypes, ClientAssumption DEF IInv, Lengths
<1>3. /\ CallAsked = Asked /\ CallAsked' = CallAsked /\ CallServed = CallAsked
      /\ CallServed' = CallServed /\ CallAnswered = Nothing /\ CallAnswered' = a.length
      /\ CallOutcome = "none" /\ CallOutcome' = CallOutcome /\ CallReply' = CallReply
  BY <1>1, <1>2 DEF CallAsked, CallServed, CallAnswered, CallOutcome, CallReply
<1>4. Call!Answer
  BY <1>2, <1>3 DEF Call!Answer, Call!Lengths
<1>. QED BY <1>4 DEF Call!Next

\* The caller gets the answer, all of it.
LEMMA DeliverImplements ==
    ASSUME IInv, pc = "deliver", pc' = "done", result' = "OK",
           UNCHANGED <<request, wire, answer, size, got>>
    PROVE  [Call!Next]_(Call!callVars)
<1>1. /\ InCall /\ InCall' /\ result = "none" /\ answer # Nothing /\ got = size /\ got = answer.length
  BY DEF InCall, IInv, NothingYet, BytesAreLeft
<1>2. answer.length # Nothing
  BY <1>1, AnswerTypes, ClientAssumption DEF IInv
<1>3. /\ CallAsked' = CallAsked /\ CallServed' = CallServed /\ CallAnswered' = CallAnswered
      /\ CallAnswered = answer.length /\ CallReply' = answer.length
      /\ CallOutcome = "none" /\ CallOutcome' = "OK"
  BY <1>1 DEF CallAsked, CallServed, CallAnswered, CallOutcome, CallReply, HasRequest, Asked
<1>4. Call!Succeed
  BY <1>2, <1>3 DEF Call!Succeed
<1>. QED BY <1>4 DEF Call!Next

\* Until it is sent, the service has not got the request.
LEMMA NotYetServed ==
    ASSUME IInv, \/ pc = "head"
                 \/ pc \in {"buffer", "callback"} /\ piece > 0
                 \/ pc = "callback" /\ wire.framing = "chunked"
    PROVE  ~HasRequest
<1>1. wire.data \in Nat /\ piece \in Nat /\ remaining \in Nat /\ request.size \in Nat
  BY FieldTypes DEF IInv, TypeOK
<1>2. CASE pc = "head"
  BY <1>2, RequestByFraming DEF IInv, HeadIsLeft
<1>3. CASE pc = "buffer" /\ piece > 0
  BY <1>1, <1>3, RequestByFraming DEF IInv, BufferIsLeft
<1>4. CASE pc = "callback" /\ (piece > 0 \/ wire.framing = "chunked")
  BY <1>1, <1>4, RequestByFraming DEF IInv, CallbackIsLeft, Marker
<1>. QED BY <1>2, <1>3, <1>4

LEMMA StepImplements ==
    ASSUME IInv, IInv', [Next]_vars
    PROVE  [Call!Next]_(Call!callVars)
<1>1. CASE Initialize \/ AddCertificate \/ Destroy
  BY <1>1, NothingSeen DEF Initialize, AddCertificate, Destroy, InCall, outVars, inVars
<1>2. CASE SetParameter
  <2>1. pc = "idle" /\ UNCHANGED <<pc, wire, answer, result, size, got>>
    BY <1>2 DEF SetParameter, RenewRequest, AddHeader, SetMethod, SetUrl, SetBody, SetCallback,
                SetBodySize, Set, outVars, inVars
  <2>2. ~InCall /\ ~InCall'
    BY <2>1 DEF InCall
  <2>. QED BY <2>1, <2>2 DEF Call!callVars, CallAsked, CallServed, CallAnswered, CallOutcome, CallReply
<1>3. CASE ClientStep \/ Fault
  <2>1. CASE Failing
    BY <2>1, FailImplements
  <2>2. CASE pc = "check" /\ pc' = "crashed" /\ UNCHANGED <<reqVars, link, outVars, inVars, heap, result>>
    BY <2>2, EndImplements DEF InCall, IInv, NothingYet, Before, inVars
  <2>3. ASSUME InCall, InCall', UNCHANGED <<request, wire, answer, result, size, got>>
        PROVE  [Call!Next]_(Call!callVars)
    BY <2>3, NothingSeen
  <2>4. CASE SendHead \/ SendPiece \/ CallbackChunk
    <3>1. pc \in Sending /\ UNCHANGED <<request, answer, result, size, got>> /\ ~HasRequest
      BY <2>4, NotYetServed DEF SendHead, SendPiece, CallbackChunk, Sending, reqVars, inVars
    <3>2. pc' \in Sending \cup Receiving
      <4>1. pc' # "idle" /\ pc' # "crashed" /\ pc' # "done" /\ pc' # "check" /\ pc' # "connect"
        <5>1. CASE SendPiece \/ CallbackChunk
          BY <5>1 DEF SendPiece, CallbackChunk
        <5>2. CASE SendHead
          <6>1. request.body \in {"none", "buffer", "callback"} /\ ~IsInvalid /\ pc = "head"
            BY <5>2, FieldTypes DEF SendHead, IInv, RequestIsValid, Sending
          <6>2. AfterHead \in {"status", "buffer", "callback"}
            BY <6>1 DEF AfterHead, IsInvalid
          <6>3. pc' = AfterHead \/ pc' = pc
            BY <5>2 DEF SendHead
          <6>. QED BY <6>1, <6>2, <6>3
        <5>. QED BY <2>4, <5>1, <5>2
      <4>. QED BY <4>1 DEF IInv, TypeOK
    <3>. QED BY <3>1, <3>2, SendingImplements
  <2>5. ASSUME NEW n \in Lengths, pc = "callback", CallbackDataSent(n)
        PROVE  [Call!Next]_(Call!callVars)
    BY <2>3, <2>5 DEF CallbackDataSent, InCall, reqVars, inVars
  <2>6. CASE ReadLastChunk \/ ReadCrLf
    BY <2>3, <2>6 DEF ReadLastChunk, ReadCrLf, InCall, reqVars, inVars, outVars
  <2>7. ASSUME InCall, InCall', result = "none", UNCHANGED <<request, wire, answer, result>>
        PROVE  [Call!Next]_(Call!callVars)
    BY <2>7 DEF Call!callVars, CallAsked, CallServed, CallAnswered, CallOutcome, CallReply,
                HasRequest, Asked
  <2>8. InCall /\ pc # "done" => result = "none"
    BY DEF IInv, NothingYet
  <2>9. CASE ReadChunkLine \/ ReceiveBytes
    BY <2>7, <2>8, <2>9 DEF ReadChunkLine, ReceiveBytes, InCall, reqVars, outVars
  <2>. QED
    BY <1>3, <2>1, <2>2, <2>3, <2>4, <2>5, <2>6, <2>7, <2>8, <2>9, ClientSteps, AnswerImplements,
       DeliverImplements DEF InCall, reqVars, outVars, inVars
<1>4. CASE Finish \/ Restart
  <2>1. answer' = Nothing /\ result' = "none" /\ ~InCall'
    BY <1>4 DEF Finish, Restart, GoIdle, InCall
  <2>2. CASE Finish
    BY <2>1, <2>2, EndImplements DEF Finish, InCall
  <2>3. CASE Restart
    <3>1. ~InCall /\ answer = Nothing /\ result = "none"
      BY <2>3 DEF Restart, InCall, IInv, NothingYet, Before
    <3>. QED BY <2>1, <3>1 DEF Call!callVars, CallAsked, CallServed, CallAnswered, CallOutcome, CallReply
  <2>. QED BY <1>4, <2>2, <2>3
<1>5. CASE ServiceCloses \/ ServiceStalls
  BY <1>5, NothingSeen DEF ServiceCloses, ServiceStalls, InCall, reqVars, outVars, inVars
<1>6. CASE UNCHANGED vars
  BY <1>6, NothingSeen DEF vars, InCall, reqVars, outVars, inVars
<1>. QED BY <1>1, <1>2, <1>3, <1>4, <1>5, <1>6, BeginImplements DEF Next

\* However the bytes are cut and the answer is framed, mcl_http_client_send does nothing but
\* what HttpCall says: a call that succeeds has given the service the whole request and its
\* caller the whole answer to it, with the answer's size.
THEOREM ImplementsCall == Spec => RefinesCall
<1>1. Init => Call!Init
  BY DEF Init, Idle, Call!Init, CallAsked, CallServed, CallAnswered, CallOutcome, CallReply, InCall
<1>2. IInv /\ IInv' /\ [Next]_vars => [Call!Next]_(Call!callVars)
  BY StepImplements
<1>. QED BY <1>1, <1>2, Invariance, PTL DEF Spec, RefinesCall, Call!Spec
=============================================================================
