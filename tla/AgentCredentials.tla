-------------------------- MODULE AgentCredentials --------------------------
(***************************************************************************)
(* Credentials of MindConnect Library agents: mcl_core/src/core.c,         *)
(* core_processor.c and security_handler.c, with the load/save and         *)
(* critical section callbacks of the application and the agent management  *)
(* service of MindSphere.                                                  *)
(*                                                                         *)
(* Several agent processes may share one credential storage: the doc of    *)
(* mcl_core_update_credentials speaks of credentials "changed by another   *)
(* process".  Every process owns one mcl_core_t handle.  A call is cut     *)
(* where another process, the service or the network can act: waiting for  *)
(* the critical section, the request in flight, and the save callback,     *)
(* which truncates the storage before it writes it.                        *)
(*                                                                         *)
(* Data abstraction.  The service numbers what it grants 1, 2, ...: grant  *)
(* n carries client_secret n and registration access token n.  Clients and *)
(* RSA key pairs are numbered too, and 0 is MCL_NULL.  A registration URI  *)
(* is identified with the client it belongs to.                            *)
(***************************************************************************)
EXTENDS Naturals, Sequences, FiniteSets

CONSTANTS
    Agents,              \* processes that run the library
    Provisioned,         \* agents configured with an initial access token
    Persistent,          \* agents configured with both credential callbacks
    Rsa,                 \* TRUE: MCL_SECURITY_RSA_3072, FALSE: shared secret
    UseLock,             \* both critical section callbacks are configured
    SaveReportsErrors,   \* the save callback notices an incomplete write
    RatSurvivesRotation, \* the service still accepts older tokens of a client
    Calls,               \* functions of mcl_core.h the application calls
    MaxClients,          \* how often the service honours the initial token
    MaxGrants,           \* bound: registrations the service grants
    MaxKeys,             \* bound: RSA key pairs generated
    MaxLate              \* bound: requests alive after their sender gave up

ASSUME ConfigAssumption ==
    /\ Provisioned \subseteq Agents
    /\ Persistent \subseteq Agents
    /\ {Rsa, UseLock, SaveReportsErrors, RatSurvivesRotation} \subseteq BOOLEAN
    /\ Calls \subseteq {"onboard", "rotate", "update", "token"}
    /\ {MaxClients, MaxGrants, MaxKeys, MaxLate} \subseteq Nat

VARIABLES
    pc,        \* where the process of an agent is
    call,      \* the function it is executing
    ret,       \* what the last call returned
    mem,       \* credentials in the security handler of its handle
    token,     \* access_token: 0 or the grant it was issued for
    time,      \* last_token_time, as its relation to the last token received
    reply,     \* answer of the service that is on its way to the agent
    storage,   \* credentials behind the load/save callbacks
    savedUpTo, \* history: the newest grant that was ever saved completely
    grants,    \* service: the registrations granted so far
    clients,   \* service: number of clients registered
    keys,      \* number of RSA key pairs generated so far
    late       \* registration requests whose sender no longer waits

local == <<pc, call, ret, mem, token, time, reply>>
service == <<grants, clients>>
vars == <<pc, call, ret, mem, token, time, reply, storage, savedUpTo, grants,
          clients, keys, late>>

Null == 0

Credentials ==
    [client : Nat, secret : Nat, rat : Nat, uri : Nat, key : Nat]

\* security_handler_initialize: every pointer is MCL_NULL.  Also a storage the
\* load callback cannot read credentials from.
NoCredentials ==
    [client |-> Null, secret |-> Null, rat |-> Null, uri |-> Null, key |-> Null]

NoReply == [status |-> "none", grant |-> Null]

Request == [client : Nat, rat : Nat, key : Nat]

Places == {"down", "idle", "entering", "sent", "saving", "writing", "aborted"}

ApiFunctions == {"none", "onboard", "rotate", "update", "token"}

Results == {"none", "ok", "up_to_date", "refused", "fail"}

Answers == [status : {"none", "ok", "created", "error"}, grant : Nat]

TypeOK ==
    /\ pc \in [Agents -> Places]
    /\ call \in [Agents -> ApiFunctions]
    /\ ret \in [Agents -> Results]
    /\ mem \in [Agents -> Credentials]
    /\ token \in [Agents -> Nat]
    /\ time \in [Agents -> {"none", "last", "other"}]
    /\ reply \in [Agents -> Answers]
    /\ storage \in Credentials
    /\ savedUpTo \in Nat
    /\ grants \in Seq([client : Nat, key : Nat])
    /\ clients \in Nat
    /\ keys \in Nat
    /\ late \in SUBSET Request

Init ==
    /\ pc = [a \in Agents |-> "down"]
    /\ call = [a \in Agents |-> "none"]
    /\ ret = [a \in Agents |-> "none"]
    /\ mem = [a \in Agents |-> NoCredentials]
    /\ token = [a \in Agents |-> Null]
    /\ time = [a \in Agents |-> "none"]
    /\ reply = [a \in Agents |-> NoReply]
    /\ storage = NoCredentials
    /\ savedUpTo = 0
    /\ grants = <<>>
    /\ clients = 0
    /\ keys = 0
    /\ late = {}

-----------------------------------------------------------------------------
(* Helpers.                                                                *)

\* mcl_core_is_onboarded.
IsOnboarded(a) == mem[a].rat # Null

\* An agent between critical_section_enter_callback and ..._leave_callback.
\* An update runs through its section in one step and is never seen inside.
InSection(a) ==
    \/ pc[a] = "sent" /\ call[a] \in {"onboard", "rotate"}
    \/ pc[a] \in {"saving", "writing"}

\* Mutant of CanEnter: no critical section.
CanAlwaysEnter(a) == pc[a] = "entering"

\* The enter callback is the application's: it lets one process in at a time,
\* and a process that dies inside does not keep the others out.
CanEnter(a) ==
    /\ pc[a] = "entering"
    /\ UseLock => \A b \in Agents : ~InSection(b)

\* The call ends: the critical section is left and the result returned.
Return(a, result) ==
    /\ pc' = [pc EXCEPT ![a] = "idle"]
    /\ call' = [call EXCEPT ![a] = "none"]
    /\ ret' = [ret EXCEPT ![a] = result]
    /\ reply' = [reply EXCEPT ![a] = NoReply]

\* The request leaves the agent.
Send(a, c) ==
    /\ pc' = [pc EXCEPT ![a] = "sent"]
    /\ call' = [call EXCEPT ![a] = c]
    /\ ret' = [ret EXCEPT ![a] = "none"]
    /\ reply' = [reply EXCEPT ![a] = NoReply]

\* Mutant of RequestOf: a rotation is a registration with the initial token.
RequestOfNewClient(a) == [client |-> Null, rat |-> Null, key |-> mem[a].key]

\* What a registration request carries: the handle does not change while the
\* request is in flight.
RequestOf(a) ==
    [client |-> mem[a].uri, rat |-> mem[a].rat, key |-> mem[a].key]

\* A request nobody waits for any more may still reach the service, or not.
GiveUp(a) ==
    \/ late' = late
    \/ /\ pc[a] = "sent"
       /\ call[a] \in {"onboard", "rotate"}
       /\ reply[a] = NoReply
       /\ Cardinality(late) < MaxLate
       /\ late' = late \cup {RequestOf(a)}

\* The process is gone, with its handle.
Gone(a, where) ==
    /\ pc' = [pc EXCEPT ![a] = where]
    /\ call' = [call EXCEPT ![a] = "none"]
    /\ ret' = [ret EXCEPT ![a] = "none"]
    /\ mem' = [mem EXCEPT ![a] = NoCredentials]
    /\ token' = [token EXCEPT ![a] = Null]
    /\ time' = [time EXCEPT ![a] = "none"]
    /\ reply' = [reply EXCEPT ![a] = NoReply]

-----------------------------------------------------------------------------
(* mcl_core_initialize and mcl_core_destroy.                               *)

\* _load_initial_credentials: without an initial access token there is no
\* handle; an RSA agent generates its first key pair.
LoadInitialCredentials(a) ==
    /\ a \in Provisioned
    /\ IF Rsa
       THEN /\ keys < MaxKeys
            /\ keys' = keys + 1
            /\ mem' = [mem EXCEPT ![a] = [NoCredentials EXCEPT !.key = keys + 1]]
       ELSE UNCHANGED <<keys, mem>>

\* A failing initialization leaves no handle behind: the process may try again,
\* which is the state it is in already.  The load callback may answer
\* MCL_CREDENTIALS_NOT_LOADED whatever the storage holds.
Initialize(a) ==
    /\ pc[a] \in {"down", "aborted"}
    /\ pc' = [pc EXCEPT ![a] = "idle"]
    /\ \/ /\ a \in Persistent
          /\ storage # NoCredentials
          /\ mem' = [mem EXCEPT ![a] = storage]
          /\ UNCHANGED keys
       \/ LoadInitialCredentials(a)
    /\ UNCHANGED <<call, ret, token, time, reply, storage, savedUpTo, service,
                   late>>

Destroy(a) ==
    /\ pc[a] = "idle"
    /\ Gone(a, "down")
    /\ UNCHANGED <<storage, savedUpTo, service, keys, late>>

\* The process dies anywhere inside a call.
Crash(a) ==
    /\ pc[a] \in {"entering", "sent", "saving", "writing"}
    /\ Gone(a, "down")
    /\ GiveUp(a)
    /\ UNCHANGED <<storage, savedUpTo, service, keys>>

-----------------------------------------------------------------------------
(* mcl_core_onboard, mcl_core_rotate_key: up to the request.               *)

Begin(a, c) ==
    /\ pc[a] = "idle"
    /\ c \in Calls \ {"token"}
    /\ pc' = [pc EXCEPT ![a] = "entering"]
    /\ call' = [call EXCEPT ![a] = c]
    /\ ret' = [ret EXCEPT ![a] = "none"]
    /\ UNCHANGED <<mem, token, time, reply, storage, savedUpTo, service, keys,
                   late>>

\* MCL_CANNOT_ENTER_CRITICAL_SECTION: nothing was entered, nothing is left.
EnterFails(a) ==
    /\ UseLock
    /\ pc[a] = "entering"
    /\ Return(a, "fail")
    /\ UNCHANGED <<mem, token, time, storage, savedUpTo, service, keys, late>>

\* POST with the initial access token and, for RSA, the public key of the pair
\* generated at initialization.
Onboard(a) ==
    /\ CanEnter(a)
    /\ call[a] = "onboard"
    /\ \/ IsOnboarded(a) /\ Return(a, "refused")
       \/ ~IsOnboarded(a) /\ Return(a, "fail")
       \/ ~IsOnboarded(a) /\ Send(a, "onboard")
    /\ UNCHANGED <<mem, token, time, storage, savedUpTo, service, keys, late>>

\* Mutant of ReplaceKeyPair: a rotation keeps the key pair it has.
KeepKeyPair(a) == UNCHANGED <<keys, mem>>

\* _compose_rsa_key_rotation_json: the key pair in use is freed before the new
\* one is generated, and the new one is in the handle before it is registered.
ReplaceKeyPair(a) ==
    /\ keys < MaxKeys
    /\ keys' = keys + 1
    /\ mem' = [mem EXCEPT ![a].key = keys + 1]

LoseKeyPair(a) ==
    /\ mem' = [mem EXCEPT ![a].key = Null]
    /\ UNCHANGED keys

\* PUT to the registration URI with the registration access token.
RotateKey(a) ==
    /\ CanEnter(a)
    /\ call[a] = "rotate"
    /\ \/ ~IsOnboarded(a) /\ Return(a, "refused") /\ UNCHANGED <<mem, keys>>
       \/ /\ IsOnboarded(a) /\ ~Rsa
          /\ Return(a, "fail") \/ Send(a, "rotate")
          /\ UNCHANGED <<mem, keys>>
       \/ /\ IsOnboarded(a) /\ Rsa
          /\ \/ LoseKeyPair(a) /\ Return(a, "fail")
             \/ ReplaceKeyPair(a) /\ (Return(a, "fail") \/ Send(a, "rotate"))
    /\ UNCHANGED <<token, time, storage, savedUpTo, service, late>>

-----------------------------------------------------------------------------
(* The answer to a registration request.                                   *)

\* Mutant of SendFails: no timeout for a rotation.
SendFailsForOnboardOnly(a) ==
    /\ pc[a] = "sent"
    /\ call[a] = "onboard"
    /\ Return(a, "fail")
    /\ GiveUp(a)
    /\ UNCHANGED <<mem, token, time, storage, savedUpTo, service, keys>>

\* mcl_http_client_send returns an error: not sent, or the answer is lost.
SendFails(a) ==
    /\ pc[a] = "sent"
    /\ call[a] # "token"
    /\ Return(a, "fail")
    /\ GiveUp(a)
    /\ UNCHANGED <<mem, token, time, storage, savedUpTo, service, keys>>

\* _process_registration_response: 201 is asked of an onboarding, 200 of a
\* rotation.  Which of the two it was is read from the handle again.
IsSuccess(a) == reply[a].status = IF IsOnboarded(a) THEN "ok" ELSE "created"

\* A status that is no success, or a payload that cannot be parsed.
RejectResponse(a) ==
    /\ pc[a] = "sent"
    /\ call[a] # "token"
    /\ reply[a] # NoReply
    /\ Return(a, "fail")
    /\ UNCHANGED <<mem, token, time, storage, savedUpTo, service, keys, late>>

\* The four strings of the answer replace those of the handle together; an RSA
\* key pair stays.  _save_credentials comes next.
ProcessRegistrationResponse(a) ==
    LET g == reply[a].grant
        c == grants[g].client
    IN  /\ pc[a] = "sent"
        /\ call[a] # "token"
        /\ reply[a] # NoReply
        /\ IsSuccess(a)
        /\ mem' = [mem EXCEPT ![a] =
                      [client |-> c, secret |-> IF Rsa THEN Null ELSE g,
                       rat |-> g, uri |-> c, key |-> mem[a].key]]
        /\ IF a \in Persistent
           THEN /\ pc' = [pc EXCEPT ![a] = "saving"]
                /\ reply' = [reply EXCEPT ![a] = NoReply]
                /\ UNCHANGED <<call, ret>>
           ELSE Return(a, "ok")
        /\ UNCHANGED <<token, time, storage, savedUpTo, service, keys, late>>

\* Mutant of SaveFails: the result of _save_credentials is dropped.
SaveFailsUnnoticed(a) ==
    /\ pc[a] = "saving"
    /\ Return(a, "ok")
    /\ UNCHANGED <<mem, token, time, storage, savedUpTo, service, keys, late>>

\* The save callback cannot open the storage: MCL_CREDENTIALS_NOT_SAVED is the
\* result of the call, although the handle holds the new credentials.
SaveFails(a) ==
    /\ pc[a] = "saving"
    /\ Return(a, "fail")
    /\ UNCHANGED <<mem, token, time, storage, savedUpTo, service, keys, late>>

\* The storage is opened for writing, which truncates it.
SaveOpens(a) ==
    /\ pc[a] = "saving"
    /\ pc' = [pc EXCEPT ![a] = "writing"]
    /\ storage' = NoCredentials
    /\ UNCHANGED <<call, ret, mem, token, time, reply, savedUpTo, service, keys,
                   late>>

SaveWrites(a) ==
    /\ pc[a] = "writing"
    /\ \/ /\ storage' = mem[a]
          /\ savedUpTo' = IF mem[a].rat > savedUpTo THEN mem[a].rat ELSE savedUpTo
          /\ Return(a, "ok")
       \/ /\ UNCHANGED <<storage, savedUpTo>>
          /\ Return(a, IF SaveReportsErrors THEN "fail" ELSE "ok")
    /\ UNCHANGED <<mem, token, time, service, keys, late>>

-----------------------------------------------------------------------------
(* mcl_core_update_credentials.                                            *)

\* _check_client_secret compares secret and token, _check_rsa_private_key the
\* private key alone.
IsUpToDate(a) ==
    IF Rsa THEN mem[a].key = storage.key
           ELSE mem[a].secret = storage.secret /\ mem[a].rat = storage.rat

\* Mutants of TakeOver: the registration access token, or the secret, is left out.
TakeOverSecretOnly(a) == mem' = [mem EXCEPT ![a].secret = storage.secret]

TakeOverTokenOnly(a) == mem' = [mem EXCEPT ![a].rat = storage.rat]

\* Everything but client id and registration URI is replaced.
TakeOver(a) ==
    mem' = [mem EXCEPT ![a] = [storage EXCEPT !.client = mem[a].client,
                                              !.uri = mem[a].uri]]

\* The private key in use is MCL_NULL after a rotation that could not generate
\* one; strlen() of it ends the process.
UpdateCredentials(a) ==
    /\ CanEnter(a)
    /\ call[a] = "update"
    /\ \/ /\ ~IsOnboarded(a)
          /\ Return(a, "refused")
          /\ UNCHANGED <<mem, token, time>>
       \/ /\ IsOnboarded(a)     \* no callbacks, or nothing is loaded
          /\ Return(a, "fail")
          /\ UNCHANGED <<mem, token, time>>
       \/ /\ IsOnboarded(a) /\ a \in Persistent /\ storage # NoCredentials
          /\ \/ /\ storage.client # mem[a].client
                /\ Return(a, "fail")
                /\ UNCHANGED <<mem, token, time>>
             \/ /\ storage.client = mem[a].client
                /\ Rsa /\ mem[a].key = Null
                /\ Gone(a, "aborted")
             \/ /\ storage.client = mem[a].client
                /\ Rsa => mem[a].key # Null
                /\ IF IsUpToDate(a)
                   THEN Return(a, "up_to_date") /\ UNCHANGED mem
                   ELSE Return(a, "ok") /\ TakeOver(a)
                /\ UNCHANGED <<token, time>>
    /\ UNCHANGED <<storage, savedUpTo, service, keys, late>>

-----------------------------------------------------------------------------
(* mcl_core_get_access_token, which enters no critical section.            *)

GetAccessToken(a) ==
    /\ pc[a] = "idle"
    /\ "token" \in Calls
    /\ \/ /\ ~IsOnboarded(a)
          /\ Return(a, "refused")
          /\ UNCHANGED <<mem, token, time>>
       \/ /\ IsOnboarded(a)     \* the request cannot be composed
          /\ Return(a, "fail")
          /\ token' = [token EXCEPT ![a] = Null]
          /\ UNCHANGED <<mem, time>>
       \/ /\ IsOnboarded(a)
          /\ Rsa /\ mem[a].key = Null
          /\ Gone(a, "aborted")
       \/ /\ IsOnboarded(a)
          /\ Rsa => mem[a].key # Null
          /\ Send(a, "token")
          /\ UNCHANGED <<mem, token, time>>
    /\ UNCHANGED <<storage, savedUpTo, service, keys, late>>

\* The old token is freed whatever happens.  The Server-Time header is optional
\* and is taken from an answer of any status.
ReceiveToken(a, header, parsed) ==
    LET success == reply[a].status = "ok" /\ parsed
    IN  /\ pc[a] = "sent"
        /\ call[a] = "token"
        /\ reply[a] # NoReply
        /\ token' = [token EXCEPT ![a] = IF success THEN reply[a].grant ELSE Null]
        /\ time' = [time EXCEPT ![a] =
                       IF header THEN IF success THEN "last" ELSE "other"
                       ELSE IF success /\ @ # "none" THEN "other" ELSE @]
        /\ Return(a, IF success THEN "ok" ELSE "fail")
        /\ UNCHANGED <<mem, storage, savedUpTo, service, keys, late>>

TokenRequestFails(a) ==
    /\ pc[a] = "sent"
    /\ call[a] = "token"
    /\ token' = [token EXCEPT ![a] = Null]
    /\ Return(a, "fail")
    /\ UNCHANGED <<mem, time, storage, savedUpTo, service, keys, late>>

-----------------------------------------------------------------------------
(* The agent management service, as the library relies on it (external).   *)

IsNewest(n) == \A m \in 1 .. Len(grants) :
                  grants[m].client = grants[n].client => m <= n

\* An onboarding needs an initial access token that is still honoured, a
\* rotation a registration access token of the client its URI names.
Accepts(r) ==
    /\ Len(grants) < MaxGrants
    /\ \/ r.rat = Null /\ clients < MaxClients
       \/ /\ r.rat \in 1 .. Len(grants)
          /\ grants[r.rat].client = r.client
          /\ RatSurvivesRotation \/ IsNewest(r.rat)

Grant(r) ==
    LET new == r.rat = Null
    IN  /\ clients' = IF new THEN clients + 1 ELSE clients
        /\ grants' = Append(grants, [client |-> IF new THEN clients + 1 ELSE r.client,
                                     key    |-> r.key])

\* The status is 201 or 200; which of the two the library asks for is its own
\* affair.  An error is possible at any time.
ServiceRegisters(a) ==
    /\ pc[a] = "sent"
    /\ call[a] # "token"
    /\ reply[a] = NoReply
    /\ \/ /\ Accepts(RequestOf(a))
          /\ Grant(RequestOf(a))
          /\ \E s \in {"ok", "created"} :
                reply' = [reply EXCEPT ![a] = [status |-> s, grant |-> Len(grants) + 1]]
       \/ /\ reply' = [reply EXCEPT ![a] = [status |-> "error", grant |-> Null]]
          /\ UNCHANGED service
    /\ UNCHANGED <<pc, call, ret, mem, token, time, storage, savedUpTo, keys, late>>

\* A request whose sender gave up is handled all the same, or dies out.
ServiceRegistersLate(r) ==
    /\ r \in late
    /\ late' = late \ {r}
    /\ \/ Accepts(r) /\ Grant(r)
       \/ UNCHANGED service
    /\ UNCHANGED <<local, storage, savedUpTo, keys>>

\* A token is granted to the newest credentials of a client only.
ServiceAuthenticates(a) ==
    /\ pc[a] = "sent"
    /\ call[a] = "token"
    /\ reply[a] = NoReply
    /\ \/ \E n \in 1 .. Len(grants) :
             /\ grants[n].client = mem[a].client
             /\ IsNewest(n)
             /\ IF Rsa THEN grants[n].key = mem[a].key ELSE mem[a].secret = n
             /\ reply' = [reply EXCEPT ![a] = [status |-> "ok", grant |-> n]]
       \/ reply' = [reply EXCEPT ![a] = [status |-> "error", grant |-> Null]]
    /\ UNCHANGED <<pc, call, ret, mem, token, time, storage, savedUpTo, service,
                   keys, late>>

-----------------------------------------------------------------------------

AgentStep(a) ==
    \/ Initialize(a) \/ Destroy(a) \/ Crash(a)
    \/ \E c \in Calls : Begin(a, c)
    \/ EnterFails(a)
    \/ Onboard(a) \/ RotateKey(a) \/ UpdateCredentials(a)
    \/ SendFails(a) \/ RejectResponse(a) \/ ProcessRegistrationResponse(a)
    \/ SaveFails(a) \/ SaveOpens(a) \/ SaveWrites(a)
    \/ GetAccessToken(a) \/ TokenRequestFails(a)
    \/ \E header, parsed \in BOOLEAN : ReceiveToken(a, header, parsed)

ServiceStep ==
    \/ \E a \in Agents : ServiceRegisters(a) \/ ServiceAuthenticates(a)
    \/ \E r \in late : ServiceRegistersLate(r)

Next == ServiceStep \/ \E a \in Agents : AgentStep(a)

Spec == Init /\ [][Next]_vars

\* Requests end at the latest with the timeout of the HTTP client, and the save
\* callback returns.  Nothing is assumed of the application's next call, of the
\* service, or of the order in which a lock admits processes.
Fairness ==
    \A a \in Agents :
        /\ WF_vars(SendFails(a))
        /\ WF_vars(SaveFails(a) \/ SaveOpens(a))
        /\ WF_vars(SaveWrites(a))

FairSpec == Spec /\ Fairness

-----------------------------------------------------------------------------
(* Properties.                                                             *)

\* c is registration c.rat of the service as a whole.
Whole(c) ==
    /\ c.rat \in 1 .. Len(grants)
    /\ c.client = grants[c.rat].client
    /\ c.uri = c.client
    /\ c.secret = IF Rsa THEN Null ELSE c.rat

\* Client id, secret, registration token and registration URI of a handle, and
\* all that is stored, come from one registration.  An update takes over only
\* some of the fields, and a rotation, an update and a restart may overlap with
\* those of other processes.
CredentialsWhole ==
    /\ \A a \in Agents :
          IF IsOnboarded(a) THEN Whole(mem[a])
          ELSE mem[a] = [NoCredentials EXCEPT !.key = mem[a].key]
    /\ storage # NoCredentials =>
          Whole(storage) /\ storage.key = grants[storage.rat].key

\* With a critical section, credentials saved completely are never overwritten
\* with older ones: the request, its answer and the save are one section.
StorageIsNewestSaved ==
    UseLock /\ storage # NoCredentials => storage.rat = savedUpTo

\* update_credentials compares RSA private keys and no tokens.  That is enough:
\* a handle with the stored key holds the stored token, even though a failed
\* rotation leaves an unregistered key in the handle.
EqualKeysMeanEqualTokens ==
    Rsa => \A a \in Agents :
        /\ IsOnboarded(a)
        /\ storage # NoCredentials
        /\ mem[a].client = storage.client
        /\ mem[a].key = storage.key
        => mem[a].rat = storage.rat

\* An access token in a handle was issued to the client whose id the handle
\* reports to its services (mcl_core_get_client_id).
TokenBelongsToClient ==
    \A a \in Agents : token[a] # Null =>
        /\ IsOnboarded(a)
        /\ token[a] \in 1 .. Len(grants)
        /\ grants[token[a]].client = mem[a].client

\* mcl_core_onboard and mcl_core_rotate_key return MCL_OK only with the new
\* credentials stored, if the agent has callbacks to store them with.
ReportedSuccessIsStored ==
    [][\A a \in Persistent :
          /\ call[a] \in {"onboard", "rotate"}
          /\ call'[a] = "none" /\ ret'[a] = "ok"
          => storage' = mem'[a]]_vars

\* An onboarded handle stays with its client as long as its process runs.
ClientNeverChanges ==
    [][\A a \in Agents :
          IsOnboarded(a) /\ pc'[a] \notin {"down", "aborted"}
          => mem'[a].client = mem[a].client]_vars

\* Handles and storage together behave as CredentialSync says.
Held(a) ==
    [client |-> mem[a].client, secret |-> mem[a].secret,
     rat |-> mem[a].rat, uri |-> mem[a].uri]

Sync == INSTANCE CredentialSync WITH
            held   <- [a \in Agents |-> Held(a)],
            stored <- storage,
            issued <- grants

RefinesSync == Sync!Spec

\* Whoever is in the critical section leaves it.
SectionIsLeft == \A a \in Agents : InSection(a) ~> ~InSection(a)

=============================================================================
