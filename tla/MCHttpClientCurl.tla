-------------------------- MODULE MCHttpClientCurl --------------------------
(* Requests one after the other on the same easy handle.                    *)
EXTENDS HttpClientCurl

CONSTANT NoValue

MCAnswers == {[lines |-> 1, length |-> 0], [lines |-> 0, length |-> 2]}
C(file, kind) == [file |-> file, kind |-> kind]
MCCertificates == {C(TRUE, "service"), C(FALSE, "service"), C(TRUE, "other"), C(FALSE, "unreadable")}
=============================================================================
