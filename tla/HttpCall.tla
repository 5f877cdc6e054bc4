------------------------------ MODULE HttpCall ------------------------------
(***************************************************************************)
(* What mcl_http_client_send promises its callers, whatever the framing of *)
(* the request and of the answer and however the bytes are cut: the        *)
(* service gets the body in full or not at all, and a call that reports    *)
(* success hands over the whole answer to this request.                    *)
(***************************************************************************)
EXTENDS Naturals

CONSTANTS Nothing,      \* no request, no answer
          MaxLength     \* bytes of the longest body

VARIABLES asked,        \* bytes the caller wants to send
          served,       \* bytes of the request the service has in full
          answered,     \* bytes of the service's answer
          outcome,      \* of the call: "none", "OK" or "error"
          reply         \* bytes handed to the caller

callVars == <<asked, served, answered, outcome, reply>>

Lengths == 0..MaxLength

TypeOK ==
    /\ {asked, served, answered, reply} \subseteq Lengths \cup {Nothing}
    /\ outcome \in {"none", "OK", "error"}

Init ==
    /\ asked = Nothing /\ served = Nothing /\ answered = Nothing /\ reply = Nothing
    /\ outcome = "none"

Ask ==
    /\ asked = Nothing
    /\ asked' \in Lengths
    /\ UNCHANGED <<served, answered, outcome, reply>>

\* A callback that has more than it announced is cut off, and the call fails.
Serve ==
    /\ asked # Nothing /\ served = Nothing /\ outcome = "none"
    /\ served' \in 0..asked
    /\ UNCHANGED <<asked, answered, outcome, reply>>

Answer ==
    /\ served = asked /\ asked # Nothing
    /\ answered = Nothing /\ outcome = "none"
    /\ answered' \in Lengths
    /\ UNCHANGED <<asked, served, outcome, reply>>

Succeed ==
    /\ answered # Nothing /\ outcome = "none"
    /\ outcome' = "OK"
    /\ reply' = answered
    /\ UNCHANGED <<asked, served, answered>>

Fail ==
    /\ asked # Nothing /\ outcome = "none"
    /\ outcome' = "error"
    /\ UNCHANGED <<asked, served, answered, reply>>

\* The caller takes the result, or its process ends.
Finish ==
    /\ asked # Nothing
    /\ asked' = Nothing /\ served' = Nothing /\ answered' = Nothing /\ reply' = Nothing
    /\ outcome' = "none"

Next == Ask \/ Serve \/ Answer \/ Succeed \/ Fail \/ Finish

Spec == Init /\ [][Next]_callVars
=============================================================================
