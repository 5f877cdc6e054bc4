--------------------------- MODULE HttpClientCurl ---------------------------
(***************************************************************************)
(* The HTTP client of the library on libcurl (http_client/curl).  One easy *)
(* handle serves every request of a client: the options of a call stay in  *)
(* it, with pointers to what the call owned.  The steps of a transfer are   *)
(* libcurl's, calling back into the client; a service may stall.            *)
(***************************************************************************)
EXTENDS Integers, Sequences, FiniteSets

CONSTANTS Nothing, MaxLength,
          Headers,          \* header lines the caller adds to a request
          Certificates,     \* the certificates a client may be given
          MaxCertificates,  \* bound: how many of them
          Answers           \* records [lines, length]

Lengths == 0..MaxLength
Methods == {"GET", "POST", "PUT", "PATCH", "DELETE"}
Supported == {"GET", "POST", "PUT", "PATCH"}
Certificate == [file : BOOLEAN, kind : {"service", "other", "unreadable"}]

ASSUME CurlAssumption ==
    /\ MaxLength \in Nat /\ Nothing \notin Nat
    /\ Headers \in Nat /\ MaxCertificates \in Nat /\ Certificates \subseteq Certificate
    /\ Answers \subseteq [lines : Nat, length : Lengths] /\ Nothing \notin Answers

VARIABLES client,   \* the handle: Nothing, or its certificate list, CA options and timeout
          easy,     \* the options of the easy handle
          request,  \* mcl_http_request_t
          pc,       \* where mcl_http_client_send and curl_easy_perform are
          stalled,  \* the service does nothing more in this call
          source,   \* bytes the caller's stream callback still has
          offset,   \* callback_offset of the default PUT callback
          wire,     \* positions of the body bytes sent
          ended,    \* the service has the whole request
          answer, lines, left,   \* the answer, its lines and bytes to come
          got,      \* response_payload->size
          heap,     \* allocations of the call that are alive
          result

callVars == <<stalled, source, offset, wire, ended, answer, lines, left, got>>
vars == <<client, easy, request, pc, callVars, heap, result>>

NewRequest == [method |-> "GET", body |-> "none", length |-> 0, size |-> 0]

\* curl_easy_init: a pointer option is null, or to memory of this call or of one that is over.
NewEasy == [verb |-> "GET", custom |-> "none", post |-> "null", postSize |-> -1, inSize |-> -1,
            read |-> "fread", data |-> "null", list |-> "null", header |-> <<>>, sinks |-> "null"]

NoCall ==
    /\ stalled = FALSE /\ source = 0 /\ offset = 0 /\ wire = <<>> /\ ended = FALSE /\ answer = Nothing
    /\ lines = 0 /\ left = 0 /\ got = 0

GoNoCall ==
    /\ stalled' = FALSE /\ source' = 0 /\ offset' = 0 /\ wire' = <<>> /\ ended' = FALSE /\ answer' = Nothing
    /\ lines' = 0 /\ left' = 0 /\ got' = 0

Init ==
    /\ client = Nothing /\ easy = NewEasy /\ request = NewRequest
    /\ pc = "idle" /\ NoCall /\ heap = {} /\ result = "none"

-----------------------------------------------------------------------------
(* The client handle and the request object.                               *)

\* mcl_http_client_initialize: a timeout of zero seconds is none at all.
Initialize ==
    /\ pc = "idle" /\ client = Nothing
    /\ \E timed \in BOOLEAN :
          client' = [certificates |-> <<>>, caInfo |-> Nothing, callback |-> FALSE, timed |-> timed]
    /\ easy' = NewEasy
    /\ UNCHANGED <<request, pc, callVars, heap, result>>

\* The first certificate, if a file, is left to libcurl; from then on the whole list
\* goes through _ssl_context_callback.
CaOptions(c, certificate) ==
    IF Len(c.certificates) = 1 /\ certificate.file THEN [c EXCEPT !.caInfo = certificate]
    ELSE [c EXCEPT !.callback = TRUE]

AddCertificate ==
    /\ pc = "idle" /\ client # Nothing /\ Len(client.certificates) < MaxCertificates
    /\ \E certificate \in Certificates :
          client' = CaOptions([client EXCEPT !.certificates = Append(@, certificate)], certificate)
    /\ UNCHANGED <<easy, request, pc, callVars, heap, result>>

Destroy ==
    /\ pc = "idle" /\ client # Nothing
    /\ client' = Nothing /\ easy' = NewEasy
    /\ UNCHANGED <<request, pc, callVars, heap, result>>

\* The request as a caller hands it over: the size is that of its body, or not given
\* with a callback.  Bound: a body has no byte or MaxLength of them.
Bodies ==
    {[body |-> "none", length |-> 0, size |-> 0],
     [body |-> "buffer", length |-> MaxLength, size |-> MaxLength],
     [body |-> "callback", length |-> 0, size |-> 0],
     [body |-> "callback", length |-> MaxLength, size |-> 0],
     [body |-> "callback", length |-> MaxLength, size |-> MaxLength]}

\* mcl_http_client_send
Begin ==
    /\ pc = "idle" /\ client # Nothing
    /\ \E method \in Methods, b \in Bodies :
          request' = [method |-> method, body |-> b.body, length |-> b.length, size |-> b.size]
    /\ pc' = "options"
    /\ UNCHANGED <<client, easy, callVars, heap, result>>

-----------------------------------------------------------------------------
(* _set_request_options.                                                   *)

\* The options every call starts from.
\* Variant: a PATCH request leaves its verb behind.
ResetKeepsVerb(e) ==
    [e EXCEPT !.verb = "POST", !.postSize = -1, !.inSize = -1, !.data = "null", !.post = "null"]

\* POSTFIELDS comes last, and libcurl takes setting it, even to null, for a POST.
Reset(e) ==
    [e EXCEPT !.custom = "none", !.postSize = -1, !.inSize = -1, !.data = "null",
              !.post = "null", !.verb = "POST"]

\* _set_payload_options and _set_in_file_size
PayloadOptions(e) ==
    [e EXCEPT !.verb = "PUT",
              !.read = IF request.body = "callback" THEN "stream" ELSE "default",
              !.data = "own",
              !.inSize = IF request.body = "callback" /\ request.size = 0 THEN -1 ELSE request.size]

MethodOptions(e) ==
    CASE request.method = "GET" -> [e EXCEPT !.verb = "GET"]
      [] request.method = "POST" /\ request.body # "callback" ->
            [e EXCEPT !.post = IF request.body = "buffer" THEN "own" ELSE "null",
                      !.postSize = request.size]
      [] request.method = "POST" /\ request.body = "callback" ->
            [e EXCEPT !.read = "stream", !.data = "own"]
      [] request.method = "PUT" -> PayloadOptions(e)
      [] request.method = "PATCH" -> [PayloadOptions(e) EXCEPT !.custom = "PATCH"]

Chunked ==
    /\ request.body = "callback"
    /\ request.method = "POST" \/ (request.method \in {"PUT", "PATCH"} /\ request.size = 0)

HeaderLines ==
    (IF Chunked THEN <<"chunked">> ELSE <<>>)
    \o [i \in 1..Headers |-> "header"] \o <<"expect">>

HeaderOption(e, kept) ==
    [e EXCEPT !.header = kept, !.list = IF kept = <<>> THEN "null" ELSE "own"]

\* curl_slist_append answers null when memory is short: the lines before it are lost,
\* and the list starts again with the next one.
SetRequestOptions ==
    /\ pc = "options" /\ request.method \in Supported
    /\ \E short \in 0..Len(HeaderLines) :
       LET kept == SubSeq(HeaderLines, short + 1, Len(HeaderLines)) IN
       /\ easy' = HeaderOption(MethodOptions(Reset(easy)), kept)
       /\ heap' = (IF kept = <<>> THEN {} ELSE {"list"}) \cup (IF short > 1 THEN {"lost list"} ELSE {})
    /\ source' = IF request.body = "callback" THEN request.length ELSE 0
    /\ pc' = "sinks"
    /\ UNCHANGED <<client, request, stalled, offset, wire, ended, answer, lines, left, got, result>>

\* Any other method is logged as not supported, and the request is sent all the same,
\* with the header list of the call before.
SetUnsupported ==
    /\ pc = "options" /\ request.method \notin Supported
    /\ easy' = Reset(easy) /\ pc' = "sinks"
    /\ UNCHANGED <<client, request, callVars, heap, result>>

-----------------------------------------------------------------------------
(* mcl_http_client_send.                                                   *)

Freed == {"list", "response header", "payload"}

Stale(e) ==
    [e EXCEPT !.list = IF @ = "null" THEN "null" ELSE "stale",
              !.data = IF @ = "null" THEN "null" ELSE "stale",
              !.post = IF @ = "null" THEN "null" ELSE "stale",
              !.sinks = IF @ = "null" THEN "null" ELSE "stale"]

\* The call is over: what it owned is freed, and stays in the options of the handle.
Leave(code, lost) ==
    /\ pc' = "done" /\ result' = code
    /\ heap' = (heap \ Freed) \cup lost
    /\ easy' = Stale(easy)
    /\ UNCHANGED <<client, request, callVars>>

PrepareResponse ==
    /\ pc = "sinks"
    /\ \/ Leave("OUT_OF_MEMORY", {})
       \/ /\ pc' = "connect"
          /\ easy' = [easy EXCEPT !.sinks = "own"]
          /\ heap' = heap \cup {"response header"}
          /\ UNCHANGED <<client, request, callVars, result>>

\* _ssl_context_callback and CAINFO: certificates that are read, and the ones that cannot be.
Loaded ==
    (IF client.caInfo = Nothing THEN {} ELSE {client.caInfo.kind})
    \cup (IF client.callback
          THEN {client.certificates[i].kind : i \in DOMAIN client.certificates} ELSE {})

\* _convert_to_mcl_return_code, by class.
ConnectFails ==
    /\ pc = "connect"
    /\ \E code \in {"COULD_NOT_CONNECT", "SSL_HANDSHAKE_FAIL", "OUT_OF_MEMORY"} : Leave(code, {})

\* Without the certificate of the service, and with no default store that has it.
RefuseService ==
    /\ pc = "connect"
    /\ \/ "unreadable" \in Loaded /\ Leave("IMPROPER_CERTIFICATE", {})
       \/ /\ "unreadable" \notin Loaded /\ "service" \notin Loaded
          /\ Leave("NOT_VERIFIED", {})

\* The header list is read: one freed by an earlier call is undefined behaviour.
Connect ==
    /\ pc = "connect" /\ ~stalled
    /\ "service" \in Loaded /\ "unreadable" \notin Loaded
    /\ pc' \in (IF easy.list = "stale" THEN {"crashed", "send"} ELSE {"send"})
    /\ UNCHANGED <<client, easy, request, callVars, heap, result>>

\* What libcurl sends: POSTFIELDS, or what the read function gives.
FromFields == easy.verb = "POST" /\ (easy.post # "null" \/ easy.postSize = 0)
Declared == IF easy.verb = "POST" THEN easy.postSize ELSE easy.inSize
Positions(from, n) == [i \in 1..n |-> from + i]

SendFields ==
    /\ pc = "send" /\ ~stalled /\ FromFields /\ Len(wire) < easy.postSize
    /\ \E n \in 1..(easy.postSize - Len(wire)) : wire' = wire \o Positions(Len(wire), n)
    /\ UNCHANGED <<client, easy, request, pc, stalled, source, offset, ended, answer, lines, left, got, heap, result>>

\* _request_payload_callback_for_put
RemainingSize == request.size - offset

ReadDefault ==
    /\ pc = "send" /\ ~stalled /\ easy.verb = "PUT" /\ easy.read = "default" /\ Len(wire) < Declared
    /\ \E n \in 1..RemainingSize :
       /\ wire' = wire \o Positions(offset, n)
       /\ offset' = offset + n
    /\ UNCHANGED <<client, easy, request, pc, stalled, source, ended, answer, lines, left, got, heap, result>>

ReadStream ==
    /\ pc = "send" /\ ~stalled /\ easy.verb \in {"POST", "PUT"} /\ ~FromFields
    /\ easy.read = "stream" /\ easy.data = "own" /\ source > 0
    /\ \E n \in 1..source :
       /\ wire' = wire \o Positions(request.length - source, n)
       /\ source' = source - n
    /\ UNCHANGED <<client, easy, request, pc, stalled, offset, ended, answer, lines, left, got, heap, result>>

\* The caller's callback gives up, or the connection breaks.
SendFails ==
    /\ pc = "send" /\ \E code \in {"FAIL", "NETWORK_SEND_FAIL"} : Leave(code, {})

\* A read function of another request, called with a null pointer.
ReadStale ==
    /\ pc = "send" /\ easy.verb # "GET" /\ ~FromFields /\ easy.data # "own"
    /\ pc' = "crashed"
    /\ UNCHANGED <<client, easy, request, callVars, heap, result>>

IsSent ==
    CASE easy.verb = "GET" -> TRUE
      [] easy.verb # "GET" /\ FromFields -> Len(wire) = easy.postSize
      [] easy.verb # "GET" /\ ~FromFields /\ easy.read = "default" -> Len(wire) = Declared
      [] OTHER -> easy.data = "own" /\ source = 0

EndSend ==
    /\ pc = "send" /\ ~stalled /\ IsSent
    /\ pc' = "sent" /\ ended' = TRUE
    /\ UNCHANGED <<client, easy, request, stalled, source, offset, wire, answer, lines, left, got, heap, result>>

ServiceAnswers ==
    /\ pc = "sent" /\ ~stalled
    /\ pc' = "receive"
    /\ \E a \in Answers : answer' = a /\ lines' = a.lines /\ left' = a.length
    /\ UNCHANGED <<client, easy, request, stalled, source, offset, wire, ended, got, heap, result>>

\* _response_header_callback
ReceiveHeader ==
    /\ pc = "receive" /\ ~stalled /\ lines > 0
    /\ \/ Leave("FAIL", {})
       \/ /\ lines' = lines - 1
          /\ UNCHANGED <<client, easy, request, pc, stalled, source, offset, wire, ended, answer, left, got,
                         heap, result>>

\* _response_payload_callback; MCL_RESIZE drops the old block when there is no larger one.
\* Variant: the size is that of the last piece.
StoreLastPiece(n) == got' = n

StorePiece(n) == got' = got + n

ReceivePayload ==
    /\ pc = "receive" /\ ~stalled /\ lines = 0 /\ left > 0
    /\ \E n \in 1..left :
       /\ StorePiece(n) /\ left' = left - n
    /\ heap' = heap \cup {"payload"}
    /\ UNCHANGED <<client, easy, request, pc, stalled, source, offset, wire, ended, answer, lines, result>>

ResizeFails ==
    /\ pc = "receive" /\ lines = 0 /\ left > 0
    /\ Leave("FAIL", IF "payload" \in heap THEN {"old payload"} ELSE {})

ReceiveFails ==
    /\ pc \in {"sent", "receive"} /\ Leave("NETWORK_RECEIVE_FAIL", {})

\* mcl_http_response_initialize takes over the headers and the payload.
Deliver ==
    /\ pc = "receive" /\ lines = 0 /\ left = 0
    /\ \/ Leave("OUT_OF_MEMORY", {})
       \/ /\ pc' = "done" /\ result' = "OK"
          /\ easy' = Stale(easy)
          /\ heap' = (heap \ {"list"}) \cup {"response"}
          /\ UNCHANGED <<client, request, callVars>>

\* CURLOPT_TIMEOUT and CURLOPT_CONNECTTIMEOUT cover the whole transfer.
\* Variant: only the connection is timed.
TimeOutOfConnect ==
    /\ pc = "connect" /\ client.timed
    /\ Leave("REQUEST_TIMEOUT", {})

TimeOut ==
    /\ pc \in {"connect", "send", "sent", "receive"} /\ client.timed
    /\ Leave("REQUEST_TIMEOUT", {})

ServiceStalls ==
    /\ pc \in {"connect", "send", "sent", "receive"} /\ ~stalled
    /\ stalled' = TRUE
    /\ UNCHANGED <<client, easy, request, pc, source, offset, wire, ended, answer, lines, left, got, heap, result>>

\* The caller destroys the response.
Finish ==
    /\ pc = "done"
    /\ pc' = "idle" /\ GoNoCall /\ heap' = {} /\ result' = "none" /\ request' = NewRequest
    /\ UNCHANGED <<client, easy>>

Restart ==
    /\ pc = "crashed"
    /\ client' = Nothing /\ easy' = NewEasy /\ request' = NewRequest
    /\ pc' = "idle" /\ GoNoCall /\ heap' = {} /\ result' = "none"

-----------------------------------------------------------------------------
Transfer ==
    \/ SetRequestOptions \/ SetUnsupported \/ PrepareResponse \/ RefuseService \/ Connect
    \/ SendFields \/ ReadDefault \/ ReadStream \/ ReadStale \/ EndSend
    \/ ServiceAnswers \/ ReceiveHeader \/ ReceivePayload \/ Deliver

Fault == ConnectFails \/ SendFails \/ ResizeFails \/ ReceiveFails

Next ==
    \/ Initialize \/ AddCertificate \/ Destroy \/ Begin
    \/ Transfer \/ Fault \/ TimeOut \/ ServiceStalls \/ Finish \/ Restart

Spec == Init /\ [][Next]_vars

\* A process that runs, and a clock that goes on; the service owes nothing.
FairSpec == Spec /\ WF_vars(Transfer) /\ WF_vars(TimeOut)

-----------------------------------------------------------------------------
(* Properties.                                                             *)

TypeOK ==
    /\ client = Nothing \/ client \in [certificates : Seq(Certificate),
                                       caInfo : Certificate \cup {Nothing}, callback : BOOLEAN, timed : BOOLEAN]
    /\ easy \in [verb : {"GET", "POST", "PUT"}, custom : {"none", "PATCH"},
                 post : {"null", "own", "stale"}, postSize : Lengths \cup {-1}, inSize : Lengths \cup {-1},
                 read : {"fread", "default", "stream"}, data : {"null", "own", "stale"},
                 list : {"null", "own", "stale"}, header : Seq({"chunked", "header", "expect"}),
                 sinks : {"null", "own", "stale"}]
    /\ request \in [method : Methods, body : {"none", "buffer", "callback"}, length : Lengths,
                    size : Lengths]
    /\ pc \in {"idle", "options", "sinks", "connect", "send", "sent", "receive", "done", "crashed"}
    /\ stalled \in BOOLEAN /\ source \in Lengths /\ offset \in Lengths
    /\ wire \in Seq(1..MaxLength) /\ ended \in BOOLEAN
    /\ answer \in Answers \cup {Nothing} /\ lines \in Nat /\ left \in Lengths /\ got \in Lengths
    /\ heap \subseteq {"list", "lost list", "response header", "payload", "old payload", "response"}
    /\ result \in {"none", "OK", "FAIL", "OUT_OF_MEMORY", "COULD_NOT_CONNECT", "SSL_HANDSHAKE_FAIL",
                   "NOT_VERIFIED", "IMPROPER_CERTIFICATE", "NETWORK_SEND_FAIL", "NETWORK_RECEIVE_FAIL",
                   "REQUEST_TIMEOUT"}

Asked == IF request.method \in {"GET", "DELETE"} THEN 0 ELSE request.length

\* Whatever requests the handle served before, one with a method the client supports has
\* its own verb and its own body, each byte once and in order, and no pointer of an
\* earlier call in its options, nor does it crash over one (_set_request_options).
OwnRequest ==
    /\ pc = "crashed" => request.method \notin Supported
    /\ pc \in {"sent", "receive"} /\ request.method \in Supported =>
        /\ (IF easy.custom = "none" THEN easy.verb ELSE easy.custom) = request.method
        /\ wire = Positions(0, Asked)
        /\ "stale" \notin {easy.list, easy.data, easy.post, easy.sinks}

InCall == pc \notin {"idle", "crashed"}
CallOutcome == IF result \in {"none", "OK"} THEN result ELSE "error"

Call == INSTANCE HttpCall WITH
    asked    <- IF InCall THEN Asked ELSE Nothing,
    served   <- IF ended THEN Len(wire) ELSE Nothing,
    answered <- IF answer = Nothing THEN Nothing ELSE answer.length,
    outcome  <- CallOutcome,
    reply    <- IF result = "OK" THEN got ELSE Nothing

\* The promise the socket client keeps is kept by this one too (mcl_http_client_send).
RefinesCall == Call!Spec

\* With a timeout set, a call comes back even from a service that stalls with the
\* connection open (CURLOPT_TIMEOUT in mcl_http_client_initialize).
CallReturns == (InCall /\ pc # "done" /\ client.timed) ~> ~(InCall /\ pc # "done")
=============================================================================
