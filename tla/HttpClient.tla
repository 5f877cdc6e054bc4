----------------------------- MODULE HttpClient -----------------------------
(***************************************************************************)
(* The HTTP client of the library on a TLS socket (http_client/basic), with *)
(* the request object it sends and the response object it makes.  Bodies    *)
(* are byte counts: bytes arrive in the order they were sent, cut into      *)
(* pieces anywhere.  A line is read as a whole or cut by the connection.    *)
(* The service draws its answer from Answers; it closes connections, and    *)
(* may stall with the connection open.                                      *)
(***************************************************************************)
EXTENDS Integers, Sequences

CONSTANTS Nothing, MaxLength,
          MaxHeaders,      \* bound: header lines of a request
          CallbackBuffer,  \* HTTP_CALLBACK_BUFFER_SIZE
          Answers,         \* records [version, lines, framing, length]
          Upper            \* values of the half of chunk_size that sscanf("%x") leaves unset

Lengths == 0..MaxLength
Methods == {"GET", "POST", "PUT", "PATCH"}
Framings == {"none", "length", "chunked"}
Answer == [version: BOOLEAN, lines: Seq({"plain", "long"}), framing: Framings, length: Lengths]

ASSUME ClientAssumption ==
    /\ MaxLength \in Nat /\ Nothing \notin Nat /\ Nothing \notin Answer
    /\ MaxHeaders \in Nat /\ CallbackBuffer \in Nat \ {0}
    /\ Answers \subseteq Answer
    \* 2^32 bytes, the least the unset half can add, are more than any answer has
    /\ 0 \in Upper /\ Upper \subseteq Nat /\ \A g \in Upper : g # 0 => g > MaxLength

VARIABLES client,    \* the handle: none, or whether its certificate chain has the service's
          request,   \* mcl_http_request_t
          pc,        \* where mcl_http_client_send is
          link,      \* the connection
          queue,     \* buffers of the head still to send
          wire,      \* the request as sent: framing, declared, data, due of a chunk, ended
          source,    \* bytes the payload callback still has
          piece,     \* bytes of the present buffer still to send
          remaining, \* remaining_size
          answer, lines,   \* the answer, and its header lines to come
          found,     \* the framing header recognised
          size,      \* body_size
          want,      \* bytes the present receive_to_buffer still waits for
          due,       \* bytes of the present chunk or body the service still sends
          left,      \* bytes of the answer's body not yet in a chunk
          got,       \* bytes stored in response_body
          heap,      \* allocations of the call that are alive
          result

reqVars == <<client, request>>
outVars == <<queue, wire, source, piece, remaining>>
inVars  == <<answer, lines, found, size, want, due, left, got>>
vars == <<client, request, pc, link, outVars, inVars, heap, result>>

NewRequest == [method |-> "GET", secure |-> FALSE, body |-> "none", length |-> 0,
               size |-> 0, headers |-> 0]
NoWire == [head |-> FALSE, framing |-> "none", declared |-> 0, data |-> 0, due |-> 0, ended |-> FALSE]

Idle ==
    /\ pc = "idle" /\ link = "none" /\ queue = <<>> /\ wire = NoWire
    /\ source = 0 /\ piece = 0 /\ remaining = 0
    /\ answer = Nothing /\ lines = <<>> /\ found = "none"
    /\ size = 0 /\ want = 0 /\ due = 0 /\ left = 0 /\ got = 0
    /\ heap = {} /\ result = "none"

GoIdle ==
    /\ pc' = "idle" /\ link' = "none" /\ queue' = <<>> /\ wire' = NoWire
    /\ source' = 0 /\ piece' = 0 /\ remaining' = 0
    /\ answer' = Nothing /\ lines' = <<>> /\ found' = "none"
    /\ size' = 0 /\ want' = 0 /\ due' = 0 /\ left' = 0 /\ got' = 0
    /\ heap' = {} /\ result' = "none"

Init == client = "none" /\ request = NewRequest /\ Idle

-----------------------------------------------------------------------------
(* The client handle and the request object.                               *)

\* mcl_http_client_initialize: with an unusable certificate there is no handle;
\* mcl_http_client_add_certificate keeps the handle and what it could parse.
Initialize ==
    /\ pc = "idle" /\ client = "none"
    /\ client' \in {"untrusting", "trusting"}
    /\ UNCHANGED <<request, pc, link, outVars, inVars, heap, result>>

AddCertificate ==
    /\ pc = "idle" /\ client = "untrusting"
    /\ client' = "trusting"
    /\ UNCHANGED <<request, pc, link, outVars, inVars, heap, result>>

Destroy ==
    /\ pc = "idle" /\ client # "none"
    /\ client' = "none"
    /\ UNCHANGED <<request, pc, link, outVars, inVars, heap, result>>

Set(r) ==
    /\ pc = "idle" /\ request' = r
    /\ UNCHANGED <<client, pc, link, outVars, inVars, heap, result>>

RenewRequest == Set(NewRequest)
SetMethod(m) == Set([request EXCEPT !.method = m])
SetUrl(secure) == Set([request EXCEPT !.secure = secure])
\* Buffer and callback replace each other; the size that goes with them is set by itself.
SetBody(n) == n > 0 /\ Set([request EXCEPT !.body = "buffer", !.length = n])
SetCallback(n) == Set([request EXCEPT !.body = "callback", !.length = n])
SetBodySize(n) == Set([request EXCEPT !.size = n])
AddHeader == request.headers < MaxHeaders /\ Set([request EXCEPT !.headers = @ + 1])

-----------------------------------------------------------------------------
(* mcl_http_client_send.                                                   *)

\* What the functions on the stack free on their way out: mcl_http_client_send the
\* socket, start_http the host name, get_response the headers and the body.
Sending == {"head", "buffer", "callback"}
Receiving == {"status", "headers", "chunk", "bytes", "crlf", "last crlf", "deliver"}

\* Variant: get_response keeps the body of a failed call.
FreedWithoutBody ==
    {"socket"} \cup (IF pc \in {"connect", "head"} THEN {"hostname"} ELSE {})
               \cup (IF pc \in Receiving THEN {"list"} ELSE {})

Freed ==
    {"socket"} \cup (IF pc \in {"connect", "head"} THEN {"hostname"} ELSE {})
               \cup (IF pc \in Receiving THEN {"list", "body"} ELSE {})

FailWith(code, lost) ==
    /\ pc' = "done" /\ result' = code
    /\ heap' = (heap \ Freed) \cup lost
    /\ UNCHANGED <<reqVars, link, outVars, inVars>>

Fail(code) == FailWith(code, {})

\* The caller gives no size, or that of its buffer.
IsSane == request.body = "buffer" => request.size \in {0, request.length}

Begin ==
    /\ pc = "idle" /\ client # "none" /\ IsSane
    /\ pc' = "check"
    /\ UNCHANGED <<reqVars, link, outVars, inVars, heap, result>>

IsInvalid ==
    \/ request.method # "GET" /\ request.body = "none"
    \/ request.body = "buffer" /\ request.size = 0

\* A rejected request: mcl_tls_socket_destroy is called with a handle that was never set.
Reject ==
    /\ pc = "check"
    /\ IsInvalid \/ ~request.secure
    /\ \/ Fail(IF IsInvalid THEN "INVALID_PARAMETER" ELSE "NOT_SUPPORTED")
       \/ /\ pc' = "crashed"
          /\ UNCHANGED <<reqVars, link, outVars, inVars, heap, result>>

Start ==
    /\ pc = "check"
    /\ ~IsInvalid /\ request.secure
    /\ \/ Fail("OUT_OF_MEMORY")
       \/ /\ pc' = "connect"
          /\ heap' = {"socket"}
          /\ UNCHANGED <<reqVars, link, outVars, inVars, result>>

\* What goes over the wire before the body, one entry per send_buffer sequence.
HeadBuffers ==
    <<"request line", "host">> \o [i \in 1..request.headers |-> "header"] \o <<"agent">>
    \o (IF request.method = "GET" THEN <<>>
        ELSE IF request.size # 0 THEN <<"length">> ELSE <<"chunked">>)
    \o <<"blank">>

\* mcl_tls_socket_connect, result codes by class: the address or the port, memory, the
\* certificate of the service.
ConnectFails ==
    /\ pc = "connect"
    /\ \E code \in {"OUT_OF_MEMORY", "COULD_NOT_CONNECT", "NOT_VERIFIED"} : Fail(code)

RefuseService ==
    /\ pc = "connect" /\ client = "untrusting" /\ Fail("NOT_VERIFIED")

\* start_http: methods other than GET, PUT and POST are refused once connected.
Connect ==
    /\ pc = "connect" /\ client = "trusting"
    /\ IF request.method = "PATCH" THEN Fail("FAIL")
       ELSE /\ pc' = "head" /\ link' = "open" /\ queue' = HeadBuffers
            /\ heap' = heap \cup {"hostname"}
            /\ UNCHANGED <<reqVars, wire, source, piece, remaining, inVars, result>>

AfterHead ==
    CASE request.method = "GET" -> "status"
      [] request.method # "GET" /\ request.body = "buffer" -> "buffer"
      [] request.method # "GET" /\ request.body = "callback" -> "callback"

SendHead ==
    /\ pc = "head" /\ queue # <<>>
    /\ queue' = Tail(queue)
    /\ LET part == Head(queue) IN
       /\ wire' = CASE part = "length"  -> [wire EXCEPT !.framing = "length", !.declared = request.size]
                    [] part = "chunked" -> [wire EXCEPT !.framing = "chunked"]
                    [] part = "blank"   -> [wire EXCEPT !.head = TRUE]
                    [] OTHER -> wire
       /\ heap' = IF part = "host" THEN heap \ {"hostname"} ELSE heap
       /\ IF part = "blank"
          THEN /\ pc' = AfterHead
               /\ piece' = IF AfterHead = "buffer" THEN request.size ELSE 0
               /\ source' = IF AfterHead = "callback" THEN request.length ELSE 0
               /\ remaining' = IF AfterHead = "callback" THEN request.size ELSE 0
          ELSE UNCHANGED <<pc, piece, source, remaining>>
    /\ UNCHANGED <<reqVars, link, inVars, result>>

SendFails ==
    /\ pc \in Sending /\ Fail("FAIL")

SendPiece ==
    /\ pc \in {"buffer", "callback"} /\ piece > 0
    /\ \E k \in 1..piece :
       /\ piece' = piece - k
       /\ wire' = [wire EXCEPT !.data = @ + k,
                               !.due = IF wire.framing = "chunked" THEN @ - k ELSE @]
       /\ pc' = IF pc = "buffer" /\ k = piece THEN "status" ELSE pc
    /\ UNCHANGED <<reqVars, link, queue, source, remaining, inVars, heap, result>>

-----------------------------------------------------------------------------
(* send_with_callback.                                                     *)

\* What the callback returns: 0 at the end, or more than the buffer to give up.
Supplies(n) ==
    IF source = 0 THEN n = 0 ELSE n \in 1..source /\ n <= CallbackBuffer

CallbackGivesUp ==
    /\ pc = "callback" /\ piece = 0 /\ Fail("FAIL")

\* Variant: the loop of send_with_callback goes on after the last chunk.
CallbackChunkForever ==
    /\ pc = "callback" /\ piece = 0 /\ wire.framing = "chunked"
    /\ \E n \in Lengths :
       /\ Supplies(n)
       /\ source' = source - n /\ piece' = n
       /\ wire' = [wire EXCEPT !.due = n, !.ended = (n = 0)]
    /\ UNCHANGED <<reqVars, pc, link, queue, remaining, inVars, heap, result>>

CallbackChunk ==
    /\ pc = "callback" /\ piece = 0 /\ wire.framing = "chunked"
    /\ \E n \in Lengths :
       /\ Supplies(n)
       /\ source' = source - n /\ piece' = n
       /\ wire' = [wire EXCEPT !.due = n, !.ended = (n = 0)]
       /\ pc' = IF n = 0 THEN "status" ELSE "callback"
    /\ UNCHANGED <<reqVars, link, queue, remaining, inVars, heap, result>>

CallbackData ==
    /\ pc = "callback" /\ piece = 0 /\ wire.framing = "length"
    /\ \E n \in Lengths :
       /\ Supplies(n)
       /\ IF n > remaining \/ (n = 0 /\ remaining # 0) THEN Fail("FAIL")
          ELSE /\ source' = source - n /\ piece' = n /\ remaining' = remaining - n
               /\ pc' = IF n = 0 THEN "status" ELSE "callback"
               /\ UNCHANGED <<reqVars, link, queue, wire, inVars, heap, result>>

-----------------------------------------------------------------------------
(* get_response.                                                           *)

\* mcl_tls_socket_receive fails when the connection is gone.
ReceiveFails ==
    /\ pc \in Receiving \ {"headers", "deliver"} /\ link = "closed"
    /\ Fail("FAIL")

ReadStatus ==
    /\ pc = "status" /\ link = "open"
    /\ \E a \in Answers :
       \/ ~a.version /\ Fail("FAIL")
       \/ a.version /\ Fail("OUT_OF_MEMORY")
       \/ /\ a.version
          /\ pc' = "headers" /\ answer' = a /\ left' = a.length
          /\ lines' = a.lines \o (IF a.framing = "none" THEN <<>> ELSE <<a.framing>>)
          /\ heap' = heap \cup {"list"}
          /\ UNCHANGED <<reqVars, link, outVars, found, size, want, due, got, result>>

\* The loop copies the line before it looks at the code of the receive: a line cut
\* after its third byte, or longer than the buffer, leaves its copy behind.
ReadCutHeader ==
    /\ pc = "headers"
    /\ \/ link = "closed"
       \/ link = "open" /\ lines # <<>> /\ Head(lines) = "long"
    /\ \/ link = "closed" /\ Fail("FAIL")
       \/ FailWith("FAIL", {"cut header"})
       \/ Fail("OUT_OF_MEMORY")

ReadHeader ==
    /\ pc = "headers" /\ link = "open" /\ lines # <<>> /\ Head(lines) # "long"
    /\ \/ Fail("OUT_OF_MEMORY")
       \/ /\ lines' = Tail(lines)
          /\ found' = IF found = "none" /\ Head(lines) \in Framings THEN Head(lines) ELSE found
          /\ size' = IF found = "none" /\ Head(lines) = "length" THEN answer.length ELSE size
          /\ UNCHANGED <<reqVars, pc, link, outVars, answer, want, due, left, got, heap, result>>

EndHeaders ==
    /\ pc = "headers" /\ link = "open" /\ lines = <<>>
    /\ \/ found = "none" /\ Fail("FAIL")
       \/ found = "length" /\ size # 0 /\ Fail("OUT_OF_MEMORY")
       \/ /\ found # "none"
          /\ pc' = CASE found = "chunked" -> "chunk"
                     [] found = "length" /\ size = 0 -> "deliver"
                     [] OTHER -> "bytes"
          /\ want' = size
          /\ due' = size
          /\ left' = IF found = "length" THEN 0 ELSE left
          /\ heap' = IF found = "length" /\ size # 0 THEN heap \cup {"body"} ELSE heap
          /\ UNCHANGED <<reqVars, link, outVars, answer, lines, found, size, got, result>>

\* get_chunked_response: the service sends any split of what is left, then 0.
NextChunk(k) == IF left = 0 THEN k = 0 ELSE k \in 1..left

ReadLastChunk ==
    /\ pc = "chunk" /\ link = "open" /\ NextChunk(0)
    /\ pc' = "last crlf"
    /\ UNCHANGED <<reqVars, link, outVars, inVars, heap, result>>

ReadChunkLine ==
    /\ pc = "chunk" /\ link = "open"
    /\ \E k \in Lengths, g \in Upper :
       /\ NextChunk(k) /\ k + g # 0
       /\ pc' = "bytes" /\ want' = k + g /\ due' = k /\ left' = left - k
       /\ size' = size + k + g
       /\ heap' = heap \cup {"body"}
    /\ UNCHANGED <<reqVars, link, outVars, answer, lines, found, got, result>>

\* MCL_RESIZE drops the old block when there is no larger one.
ResizeFails ==
    /\ pc = "chunk" /\ link = "open" /\ (left # 0 \/ Upper # {0})
    /\ FailWith("OUT_OF_MEMORY", IF "body" \in heap THEN {"old body"} ELSE {})

\* Variant: a short receive is taken for a full one.
ReceiveOnce ==
    /\ pc = "bytes" /\ link = "open"
    /\ \E k \in 1..due :
       /\ k <= want
       /\ want' = 0 /\ due' = due - k /\ got' = got + k
       /\ pc' = IF found = "length" THEN "deliver" ELSE "crlf"
    /\ UNCHANGED <<reqVars, link, outVars, answer, lines, found, size, left, heap, result>>

\* A receive_to_buffer that asks for more than the chunk has takes framing for data
\* until the connection closes: those bytes are never delivered, and left out here.
ReceiveBytes ==
    /\ pc = "bytes" /\ link = "open"
    /\ \E k \in 1..due :
       /\ k <= want
       /\ want' = want - k /\ due' = due - k /\ got' = got + k
       /\ pc' = IF k < want THEN "bytes" ELSE IF found = "length" THEN "deliver" ELSE "crlf"
    /\ UNCHANGED <<reqVars, link, outVars, answer, lines, found, size, left, heap, result>>

ReadCrLf ==
    /\ pc \in {"crlf", "last crlf"} /\ link = "open"
    /\ pc' = IF pc = "crlf" THEN "chunk" ELSE "deliver"
    /\ UNCHANGED <<reqVars, link, outVars, inVars, heap, result>>

\* mcl_http_response_initialize takes over the headers and the body.
Deliver ==
    /\ pc = "deliver"
    /\ \/ Fail("OUT_OF_MEMORY")
       \/ /\ pc' = "done" /\ result' = "OK"
          /\ heap' = (heap \ {"socket"}) \cup {"response"}
          /\ UNCHANGED <<reqVars, link, outVars, inVars>>

\* The caller destroys the response and may go on with the same handles.
Finish ==
    /\ pc = "done"
    /\ GoIdle
    /\ UNCHANGED reqVars

Restart ==
    /\ pc = "crashed"
    /\ client' = "none" /\ request' = NewRequest /\ GoIdle

-----------------------------------------------------------------------------
(* The service.                                                            *)

ServiceCloses ==
    /\ link = "open" /\ pc # "done"
    /\ link' = "closed"
    /\ UNCHANGED <<reqVars, pc, outVars, inVars, heap, result>>

ServiceStalls ==
    /\ link = "open" /\ pc # "done"
    /\ link' = "silent"
    /\ UNCHANGED <<reqVars, pc, outVars, inVars, heap, result>>

\* What the service can tell from the framing: it has the whole request.
HasRequest ==
    /\ wire.head
    /\ CASE wire.framing = "none"    -> TRUE
         [] wire.framing = "length"  -> wire.data = wire.declared
         [] wire.framing = "chunked" -> wire.ended

-----------------------------------------------------------------------------
SetParameter ==
    \/ RenewRequest \/ AddHeader
    \/ \E m \in Methods : SetMethod(m)
    \/ \E b \in BOOLEAN : SetUrl(b)
    \/ \E n \in Lengths : SetBody(n) \/ SetCallback(n) \/ SetBodySize(n)

ClientStep ==
    \/ Reject \/ Start \/ RefuseService \/ Connect \/ SendHead \/ SendPiece \/ CallbackChunk \/ CallbackData
    \/ ReceiveFails \/ ReadStatus \/ ReadCutHeader \/ ReadHeader \/ EndHeaders
    \/ ReadLastChunk \/ ReadChunkLine \/ ReceiveBytes \/ ReadCrLf \/ Deliver

\* What may happen to a call at any time, and no scheduling makes happen.
Fault == ConnectFails \/ SendFails \/ CallbackGivesUp \/ ResizeFails

Next ==
    \/ Initialize \/ AddCertificate \/ Destroy \/ SetParameter \/ Begin \/ ClientStep \/ Fault \/ Finish \/ Restart
    \/ ServiceCloses \/ ServiceStalls

Spec == Init /\ [][Next]_vars

\* A process that runs, and a service that does not keep a connection open forever.
FairSpec == Spec /\ WF_vars(ClientStep) /\ WF_vars(ServiceCloses)

-----------------------------------------------------------------------------
(* Properties.                                                             *)

Requests == [method: Methods, secure: BOOLEAN, body: {"none", "buffer", "callback"},
             length: Lengths, size: Lengths, headers: 0..MaxHeaders]
Buffers == {"request line", "host", "header", "agent", "length", "chunked", "blank"}
Wires == [head: BOOLEAN, framing: Framings, declared: Lengths, data: Nat, due: Int, ended: BOOLEAN]
Lines == {"plain", "long", "length", "chunked"}
Allocations == {"socket", "hostname", "list", "body", "response", "cut header", "old body"}
Results == {"none", "OK", "FAIL", "OUT_OF_MEMORY", "COULD_NOT_CONNECT", "NOT_VERIFIED",
            "INVALID_PARAMETER", "NOT_SUPPORTED"}

TypeOK ==
    /\ client \in {"none", "untrusting", "trusting"} /\ request \in Requests
    /\ pc \in {"idle", "check", "connect", "done", "crashed"} \cup Sending \cup Receiving
    /\ link \in {"none", "open", "closed", "silent"}
    /\ queue \in Seq(Buffers) /\ wire \in Wires
    /\ source \in Lengths /\ piece \in Nat /\ remaining \in Nat
    /\ answer \in Answers \cup {Nothing}
    /\ lines \in Seq(Lines) /\ found \in Framings
    /\ size \in Nat /\ want \in Nat /\ due \in Nat /\ left \in Nat /\ got \in Nat
    /\ heap \subseteq Allocations /\ result \in Results

\* The bytes the caller wants to send.
Asked == IF request.method = "GET" THEN 0 ELSE request.length

\* A call leaves no allocation behind, apart from the two the code forgets: the copy of
\* a header line that was cut, and the body a failed resize replaced.
NothingLost ==
    pc = "done" =>
        IF result = "OK" THEN /\ heap \subseteq {"response", "list", "body"}
                              /\ "list" \in heap
                              /\ (got > 0 <=> "body" \in heap)
        ELSE heap \subseteq {"cut header", "old body"}

InCall == pc \notin {"idle", "crashed"}
CallAsked == IF InCall THEN Asked ELSE Nothing
CallServed == IF InCall /\ HasRequest THEN wire.data ELSE Nothing
CallAnswered == IF answer = Nothing THEN Nothing ELSE answer.length
CallOutcome == IF result \in {"none", "OK"} THEN result ELSE "error"
CallReply == IF result # "OK" THEN Nothing ELSE IF size = got THEN got ELSE -1

Call == INSTANCE HttpCall WITH
    asked <- CallAsked, served <- CallServed, answered <- CallAnswered,
    outcome <- CallOutcome, reply <- CallReply

\* Whatever is cut, fails or is misread on the way, a call that succeeds has given the
\* service the whole request and its caller the whole answer, with its size.
RefinesCall == Call!Spec

\* A call comes back, unless the service stalls: every piece that is sent or received
\* brings it nearer to its end, and a closed connection ends it.
Running == pc \notin {"idle", "done", "crashed"}
CallReturns == Running ~> (~Running \/ link = "silent")
=============================================================================
