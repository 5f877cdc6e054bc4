----------------------- MODULE AgentCredentialsProofs -----------------------
(***************************************************************************)
(* Proofs about AgentCredentials, for every number of agents and of        *)
(* grants, every configuration and every bound.                            *)
(***************************************************************************)
EXTENDS AgentCredentials, SequenceTheorems, TLAPS

Grants == [client : Nat, key : Nat]

\* What is on its way to agent a answers the request it sent: a registration is
\* newer than the one the handle holds, of the same client unless the handle
\* holds none, and for the public key in the handle.
AnswerFits(a) ==
    /\ reply[a].status # "none" => pc[a] = "sent"
    /\ pc[a] = "sent" => call[a] \in {"onboard", "rotate", "token"}
    /\ pc[a] = "sent" /\ call[a] = "token" => IsOnboarded(a)
    /\ pc[a] = "sent" /\ reply[a].status \in {"ok", "created"} =>
          LET g == reply[a].grant
          IN  /\ g \in 1 .. Len(grants)
              /\ IsOnboarded(a) => grants[g].client = mem[a].client
              /\ call[a] # "token" => /\ g > mem[a].rat
                                      /\ grants[g].key = mem[a].key

\* A handle is onboarded while it is saved, with the registered key pair, and
\* is empty while the process is down.
HandleFits(a) ==
    /\ pc[a] \in {"saving", "writing"} =>
          IsOnboarded(a) /\ mem[a].key = grants[mem[a].rat].key
    /\ pc[a] \in {"down", "aborted"} => mem[a] = NoCredentials

\* One process at a time is in the critical section.
MutualExclusion ==
    UseLock => \A a, b \in Agents : InSection(a) /\ InSection(b) => a = b

\* A registration that is still to be saved is newer than all that were saved.
UnsavedIsNewer ==
    UseLock =>
        /\ savedUpTo <= Len(grants)
        /\ \A a \in Agents :
              /\ /\ pc[a] = "sent" /\ call[a] # "token"
                 /\ reply[a].status \in {"ok", "created"}
                 => reply[a].grant > savedUpTo
              /\ pc[a] \in {"saving", "writing"} => mem[a].rat > savedUpTo

Fits == \A a \in Agents : AnswerFits(a) /\ HandleFits(a)

IInv ==
    /\ TypeOK
    /\ Fits
    /\ CredentialsWhole
    /\ TokenBelongsToClient
    /\ MutualExclusion
    /\ UnsavedIsNewer
    /\ StorageIsNewestSaved

-----------------------------------------------------------------------------
(* Types.                                                                  *)

\* A registration request is made of numbers.
LEMMA RequestType ==
    ASSUME TypeOK, NEW a \in Agents
    PROVE  RequestOf(a) \in Request
BY DEF TypeOK, RequestOf, Request, Credentials

\* What the service does to its own state: it appends one registration, for the
\* key of the request and, if the request names a client, for that client.
LEMMA GrantAppends ==
    ASSUME TypeOK, NEW r \in Request, Grant(r)
    PROVE  /\ clients' \in Nat
           /\ \E g \in Grants :
                 /\ g.key = r.key
                 /\ r.rat # Null => g.client = r.client
                 /\ grants' = Append(grants, g)
<1> DEFINE g == [client |-> IF r.rat = Null THEN clients + 1 ELSE r.client,
                 key |-> r.key]
<1>1. g \in Grants
  BY DEF TypeOK, Request, Grants
<1>2. grants' = Append(grants, g) /\ clients' \in Nat
  BY DEF Grant, TypeOK
<1>. QED BY <1>1, <1>2

\* An appended registration leaves the earlier ones where they are.
LEMMA AppendKeeps ==
    ASSUME NEW s \in Seq(Grants), NEW g \in Grants
    PROVE  /\ Append(s, g) \in Seq(Grants)
           /\ Len(Append(s, g)) = Len(s) + 1
           /\ Append(s, g)[Len(s) + 1] = g
           /\ \A n \in 1 .. Len(s) : Append(s, g)[n] = s[n]
BY AppendProperties

\* Records of the handle, the storage and the answers are what their fields are.
LEMMA KeyReplaced ==
    ASSUME NEW c \in Credentials, NEW k \in Nat
    PROVE  [c EXCEPT !.key = k] \in Credentials
BY DEF Credentials

LEMMA TakenOver ==
    ASSUME NEW c \in Credentials, NEW d \in Credentials
    PROVE  [c EXCEPT !.client = d.client, !.uri = d.uri] \in Credentials
BY DEF Credentials

LEMMA NoCredentialsType == NoCredentials \in Credentials
BY DEF NoCredentials, Credentials, Null

LEMMA AnswerType ==
    ASSUME NEW s \in {"none", "ok", "created", "error"}, NEW n \in Nat
    PROVE  [status |-> s, grant |-> n] \in Answers
BY DEF Answers

LEMMA NoReplyType == NoReply \in Answers
BY AnswerType DEF NoReply, Null

\* The ways a call goes on or ends keep the types of what they assign.
LEMMA ReturnType ==
    ASSUME TypeOK, NEW a \in Agents, NEW r \in Results, Return(a, r)
    PROVE  /\ pc' \in [Agents -> Places] /\ call' \in [Agents -> ApiFunctions]
           /\ ret' \in [Agents -> Results] /\ reply' \in [Agents -> Answers]
BY NoReplyType DEF Return, TypeOK, Places, ApiFunctions, Results

LEMMA SendType ==
    ASSUME TypeOK, NEW a \in Agents, NEW c \in ApiFunctions, Send(a, c)
    PROVE  /\ pc' \in [Agents -> Places] /\ call' \in [Agents -> ApiFunctions]
           /\ ret' \in [Agents -> Results] /\ reply' \in [Agents -> Answers]
BY NoReplyType DEF Send, TypeOK, Places, ApiFunctions, Results

LEMMA GoneType ==
    ASSUME TypeOK, NEW a \in Agents, NEW p \in Places, Gone(a, p)
    PROVE  /\ pc' \in [Agents -> Places] /\ call' \in [Agents -> ApiFunctions]
           /\ ret' \in [Agents -> Results] /\ reply' \in [Agents -> Answers]
           /\ mem' \in [Agents -> Credentials] /\ token' \in [Agents -> Nat]
           /\ time' \in [Agents -> {"none", "last", "other"}]
BY NoReplyType, NoCredentialsType
   DEF Gone, TypeOK, Places, ApiFunctions, Results, Null

LEMMA GiveUpType ==
    ASSUME TypeOK, NEW a \in Agents, GiveUp(a)
    PROVE  late' \in SUBSET Request
BY RequestType DEF GiveUp, TypeOK

\* Every step keeps the types, given that an answer fits its request.
LEMMA TypeStep ==
    ASSUME TypeOK, Fits, [Next]_vars
    PROVE  TypeOK'
<1>1. ASSUME NEW a \in Agents, Initialize(a) PROVE TypeOK'
  <2>1. mem' \in [Agents -> Credentials] /\ keys' \in Nat
    <3>1. CASE mem' = [mem EXCEPT ![a] = storage] /\ UNCHANGED keys
      BY <3>1 DEF TypeOK
    <3>2. CASE LoadInitialCredentials(a)
      <4>1. CASE /\ keys' = keys + 1
                 /\ mem' = [mem EXCEPT ![a] =
                               [NoCredentials EXCEPT !.key = keys + 1]]
        <5>1. [NoCredentials EXCEPT !.key = keys + 1] \in Credentials
          <6>1. keys + 1 \in Nat
            BY DEF TypeOK
          <6>. QED BY <6>1, NoCredentialsType, KeyReplaced
        <5>. QED BY <4>1, <5>1 DEF TypeOK
      <4>2. CASE UNCHANGED <<keys, mem>>
        BY <4>2 DEF TypeOK
      <4>. QED BY <3>2, <4>1, <4>2 DEF LoadInitialCredentials
    <3>. QED BY <1>1, <3>1, <3>2 DEF Initialize
  <2>. QED BY <1>1, <2>1 DEF Initialize, TypeOK, Places, service
<1>2. ASSUME NEW a \in Agents, Destroy(a) PROVE TypeOK'
  BY <1>2, GoneType DEF Destroy, TypeOK, service, Places
<1>3. ASSUME NEW a \in Agents, Crash(a) PROVE TypeOK'
  BY <1>3, GoneType, GiveUpType DEF Crash, TypeOK, service, Places
<1>4. ASSUME NEW a \in Agents, NEW c \in Calls, Begin(a, c) PROVE TypeOK'
  BY <1>4, ConfigAssumption
     DEF Begin, TypeOK, Places, ApiFunctions, Results, service
<1>5. ASSUME NEW a \in Agents, EnterFails(a) PROVE TypeOK'
  BY <1>5, ReturnType DEF EnterFails, TypeOK, service, Results
<1>6. ASSUME NEW a \in Agents, Onboard(a) PROVE TypeOK'
  <2>1. \/ \E r \in Results : Return(a, r)
        \/ \E c \in ApiFunctions : Send(a, c)
    BY <1>6 DEF Onboard, Results, ApiFunctions
  <2>. QED BY <1>6, <2>1, ReturnType, SendType DEF Onboard, TypeOK, service
<1>7. ASSUME NEW a \in Agents, RotateKey(a) PROVE TypeOK'
  <2>1. \/ \E r \in Results : Return(a, r)
        \/ \E c \in ApiFunctions : Send(a, c)
    BY <1>7 DEF RotateKey, Results, ApiFunctions
  <2>2. mem' \in [Agents -> Credentials] /\ keys' \in Nat
    <3>1. CASE ReplaceKeyPair(a)
      <4>1. [mem[a] EXCEPT !.key = keys + 1] \in Credentials
        <5>1. mem[a] \in Credentials /\ keys + 1 \in Nat
          BY DEF TypeOK
        <5>. QED BY <5>1, KeyReplaced
      <4>2. mem' = [mem EXCEPT ![a] = [mem[a] EXCEPT !.key = keys + 1]]
        BY <3>1 DEF ReplaceKeyPair
      <4>. QED BY <3>1, <4>1, <4>2 DEF ReplaceKeyPair, TypeOK
    <3>2. CASE LoseKeyPair(a)
      <4>1. [mem[a] EXCEPT !.key = Null] \in Credentials
        BY KeyReplaced DEF TypeOK, Null
      <4>2. mem' = [mem EXCEPT ![a] = [mem[a] EXCEPT !.key = Null]]
        BY <3>2 DEF LoseKeyPair
      <4>. QED BY <3>2, <4>1, <4>2 DEF LoseKeyPair, TypeOK
    <3>3. CASE UNCHANGED <<mem, keys>>
      BY <3>3 DEF TypeOK
    <3>. QED BY <1>7, <3>1, <3>2, <3>3 DEF RotateKey
  <2>. QED
    BY <1>7, <2>1, <2>2, ReturnType, SendType DEF RotateKey, TypeOK, service
<1>8. ASSUME NEW a \in Agents, UpdateCredentials(a) PROVE TypeOK'
  <2>1. UNCHANGED <<storage, savedUpTo, grants, clients, keys, late>>
    BY <1>8 DEF UpdateCredentials, service
  <2>2. CASE Gone(a, "aborted")
    BY <2>1, <2>2, GoneType DEF TypeOK, Places
  <2>3. CASE /\ \E r \in Results : Return(a, r)
             /\ UNCHANGED <<token, time>>
             /\ mem' = mem \/ TakeOver(a)
    <3>1. mem' \in [Agents -> Credentials]
      <4>1. [storage EXCEPT !.client = mem[a].client, !.uri = mem[a].uri]
               \in Credentials
        BY TakenOver DEF TypeOK
      <4>. QED BY <2>3, <4>1 DEF TakeOver, TypeOK
    <3>. QED BY <2>1, <2>3, <3>1, ReturnType DEF TypeOK
  <2>. QED BY <1>8, <2>2, <2>3 DEF UpdateCredentials, Results
<1>9. ASSUME NEW a \in Agents, SendFails(a) PROVE TypeOK'
  BY <1>9, ReturnType, GiveUpType DEF SendFails, TypeOK, service, Results
<1>10. ASSUME NEW a \in Agents, RejectResponse(a) PROVE TypeOK'
  BY <1>10, ReturnType DEF RejectResponse, TypeOK, service, Results
<1>11. ASSUME NEW a \in Agents, ProcessRegistrationResponse(a) PROVE TypeOK'
  <2> DEFINE g == reply[a].grant
  <2>1. g \in 1 .. Len(grants)
    BY <1>11 DEF ProcessRegistrationResponse, IsSuccess, Fits, AnswerFits
  <2>2. grants[g] \in Grants
    BY <2>1, ElementOfSeq DEF TypeOK, Grants
  <2>3. mem' \in [Agents -> Credentials]
    <3>1. mem' = [mem EXCEPT ![a] =
                     [client |-> grants[g].client,
                      secret |-> IF Rsa THEN Null ELSE g, rat |-> g,
                      uri |-> grants[g].client, key |-> mem[a].key]]
      BY <1>11 DEF ProcessRegistrationResponse
    <3>2. [client |-> grants[g].client,
           secret |-> IF Rsa THEN Null ELSE g, rat |-> g,
           uri |-> grants[g].client, key |-> mem[a].key] \in Credentials
      <4>1. g \in Nat /\ grants[g].client \in Nat /\ mem[a].key \in Nat
        BY <2>1, <2>2 DEF TypeOK, Credentials, Grants, Answers
      <4> HIDE DEF g
      <4>. QED BY <4>1 DEF Credentials, Null
    <3>. QED BY <3>1, <3>2 DEF TypeOK
  <2>4. /\ pc' \in [Agents -> Places] /\ call' \in [Agents -> ApiFunctions]
        /\ ret' \in [Agents -> Results] /\ reply' \in [Agents -> Answers]
    <3>1. CASE a \in Persistent
      BY <1>11, <3>1, NoReplyType DEF ProcessRegistrationResponse, TypeOK, Places
    <3>2. CASE a \notin Persistent
      BY <1>11, <3>2, ReturnType DEF ProcessRegistrationResponse, Results
    <3>. QED BY <3>1, <3>2
  <2>. QED
    BY <1>11, <2>3, <2>4 DEF ProcessRegistrationResponse, TypeOK, service
<1>12. ASSUME NEW a \in Agents, SaveFails(a) PROVE TypeOK'
  BY <1>12, ReturnType DEF SaveFails, TypeOK, service, Results
<1>13. ASSUME NEW a \in Agents, SaveOpens(a) PROVE TypeOK'
  BY <1>13 DEF SaveOpens, TypeOK, service, Places, Credentials, NoCredentials,
               Null
<1>14. ASSUME NEW a \in Agents, SaveWrites(a) PROVE TypeOK'
  <2>1. storage' \in Credentials /\ savedUpTo' \in Nat
    BY <1>14 DEF SaveWrites, TypeOK, Credentials
  <2>2. \E r \in Results : Return(a, r)
    BY <1>14 DEF SaveWrites, Results
  <2>. QED BY <1>14, <2>1, <2>2, ReturnType DEF SaveWrites, TypeOK, service
<1>15. ASSUME NEW a \in Agents, GetAccessToken(a) PROVE TypeOK'
  <2>1. UNCHANGED <<storage, savedUpTo, grants, clients, keys, late>>
    BY <1>15 DEF GetAccessToken, service
  <2>2. CASE Gone(a, "aborted")
    BY <2>1, <2>2, GoneType DEF TypeOK, Places
  <2>3. CASE /\ \E r \in Results : Return(a, r)
             /\ UNCHANGED <<mem, time>>
             /\ token' = token \/ token' = [token EXCEPT ![a] = Null]
    <3>1. /\ pc' \in [Agents -> Places] /\ call' \in [Agents -> ApiFunctions]
          /\ ret' \in [Agents -> Results] /\ reply' \in [Agents -> Answers]
      BY <2>3, ReturnType
    <3>2. token' \in [Agents -> Nat]
      BY <2>3 DEF TypeOK, Null
    <3>. QED BY <2>1, <2>3, <3>1, <3>2 DEF TypeOK
  <2>4. CASE Send(a, "token") /\ UNCHANGED <<mem, token, time>>
    BY <2>1, <2>4, SendType DEF TypeOK, ApiFunctions
  <2>. QED BY <1>15, <2>2, <2>3, <2>4 DEF GetAccessToken, Results
<1>16. ASSUME NEW a \in Agents, TokenRequestFails(a) PROVE TypeOK'
  BY <1>16, ReturnType DEF TokenRequestFails, TypeOK, service, Results, Null
<1>17. ASSUME NEW a \in Agents, NEW h \in BOOLEAN, NEW p \in BOOLEAN,
              ReceiveToken(a, h, p)
       PROVE  TypeOK'
  <2>1. \E r \in Results : Return(a, r)
    BY <1>17 DEF ReceiveToken, Results
  <2>2. token' \in [Agents -> Nat]
    BY <1>17 DEF ReceiveToken, TypeOK, Answers, Null
  <2>3. time' \in [Agents -> {"none", "last", "other"}]
    BY <1>17 DEF ReceiveToken, TypeOK
  <2>. QED
    BY <1>17, <2>1, <2>2, <2>3, ReturnType DEF ReceiveToken, TypeOK, service
<1>18. ASSUME NEW r \in Request, Grant(r)
       PROVE  clients' \in Nat /\ grants' \in Seq(Grants)
  <2>1. PICK g \in Grants : grants' = Append(grants, g) /\ clients' \in Nat
    BY <1>18, GrantAppends
  <2>2. grants \in Seq(Grants)
    BY DEF TypeOK, Grants
  <2>. QED BY <2>1, <2>2, AppendKeeps
<1>19. ASSUME NEW a \in Agents, ServiceRegisters(a) PROVE TypeOK'
  <2>1. reply' \in [Agents -> Answers]
    <3>1. Len(grants) + 1 \in Nat
      BY LenProperties DEF TypeOK
    <3>2. \E s \in {"none", "ok", "created", "error"}, n \in Nat :
             reply' = [reply EXCEPT ![a] = [status |-> s, grant |-> n]]
      BY <1>19, <3>1 DEF ServiceRegisters, Null
    <3>. QED BY <3>2, AnswerType DEF TypeOK
  <2>2. clients' \in Nat /\ grants' \in Seq(Grants)
    BY <1>18, <1>19, RequestType DEF ServiceRegisters, TypeOK, service, Grants
  <2>. QED BY <1>19, <2>1, <2>2 DEF ServiceRegisters, TypeOK, Grants
<1>20. ASSUME NEW r \in late, ServiceRegistersLate(r) PROVE TypeOK'
  <2>1. clients' \in Nat /\ grants' \in Seq(Grants)
    BY <1>18, <1>20 DEF ServiceRegistersLate, TypeOK, service, Grants
  <2>. QED BY <1>20, <2>1 DEF ServiceRegistersLate, TypeOK, local, Grants
<1>21. ASSUME NEW a \in Agents, ServiceAuthenticates(a) PROVE TypeOK'
  <2>1. reply' \in [Agents -> Answers]
    <3>1. \A n \in 1 .. Len(grants) : n \in Nat
      BY LenProperties DEF TypeOK
    <3>2. \E s \in {"none", "ok", "created", "error"}, n \in Nat :
             reply' = [reply EXCEPT ![a] = [status |-> s, grant |-> n]]
      BY <1>21, <3>1 DEF ServiceAuthenticates, Null
    <3>. QED BY <3>2, AnswerType DEF TypeOK
  <2>. QED BY <1>21, <2>1 DEF ServiceAuthenticates, TypeOK, service
<1>22. CASE UNCHANGED vars
  BY <1>22 DEF vars, TypeOK
<1>. QED
  BY <1>1, <1>2, <1>3, <1>4, <1>5, <1>6, <1>7, <1>8, <1>9, <1>10, <1>11, <1>12,
     <1>13, <1>14, <1>15, <1>16, <1>17, <1>19, <1>20, <1>21, <1>22
     DEF Next, AgentStep, ServiceStep

-----------------------------------------------------------------------------
(* The shapes of a step.                                                   *)

\* What the invariants read of agent b stays.
SameRow(b) ==
    /\ pc'[b] = pc[b] /\ call'[b] = call[b] /\ reply'[b] = reply[b]
    /\ mem'[b] = mem[b] /\ token'[b] = token[b]

\* Registrations are never withdrawn or changed.
GrantsKept ==
    /\ Len(grants') \in Nat /\ Len(grants) <= Len(grants')
    /\ \A n \in 1 .. Len(grants) : grants'[n] = grants[n]

\* How a step of agent a may change its handle.
Handle(a) ==
    \/ mem'[a] = mem[a] /\ pc[a] \notin {"down", "aborted"}
    \/ /\ mem'[a] = NoCredentials
       /\ token'[a] = Null
       /\ pc'[a] \in {"down", "aborted"}
    \/ /\ pc[a] \in {"down", "aborted"}
       /\ storage # NoCredentials
       /\ mem'[a] = storage
    \/ /\ pc[a] \in {"down", "aborted"}
       /\ token' = token
       /\ \/ mem'[a] = mem[a]
          \/ \E k \in Nat : mem'[a] = [NoCredentials EXCEPT !.key = k]
    \/ /\ pc[a] \notin {"down", "aborted"}
       /\ \E k \in Nat : mem'[a] = [mem[a] EXCEPT !.key = k]
    \/ /\ pc[a] \notin {"down", "aborted"}
       /\ IsOnboarded(a)
       /\ storage # NoCredentials
       /\ storage.client = mem[a].client
       /\ mem'[a] = [storage EXCEPT !.client = mem[a].client,
                                    !.uri = mem[a].uri]
    \/ ProcessRegistrationResponse(a)

\* How it may move.
Move(a) ==
    \/ \E r \in Results : Return(a, r)
    \/ \E p \in {"down", "aborted"} : Gone(a, p)
    \/ Send(a, "token") /\ IsOnboarded(a) /\ mem' = mem
    \/ CanEnter(a) /\ (Send(a, "onboard") \/ Send(a, "rotate"))
    \/ pc[a] # "sent" /\ pc'[a] \in {"idle", "entering"} /\ reply' = reply
    \/ /\ ProcessRegistrationResponse(a)
       /\ pc'[a] = "saving" /\ call'[a] = call[a] /\ reply'[a] = NoReply
    \/ SaveOpens(a)

\* Only the row of the agent changes.
LEMMA StepFrame ==
    ASSUME TypeOK, NEW a \in Agents, AgentStep(a)
    PROVE  /\ UNCHANGED <<grants, clients>>
           /\ \A b \in Agents \ {a} : SameRow(b)
<1> USE DEF SameRow, service, TypeOK
<1>1. ASSUME NEW b \in Agents \ {a}, NEW r, Return(a, r)
      PROVE  pc'[b] = pc[b] /\ call'[b] = call[b] /\ reply'[b] = reply[b]
  BY <1>1 DEF Return
<1>2. ASSUME NEW b \in Agents \ {a}, NEW c, Send(a, c)
      PROVE  pc'[b] = pc[b] /\ call'[b] = call[b] /\ reply'[b] = reply[b]
  BY <1>2 DEF Send
<1>3. ASSUME NEW b \in Agents \ {a}, NEW p, Gone(a, p)
      PROVE  SameRow(b)
  BY <1>3 DEF Gone
<1>4. CASE Initialize(a)
  BY <1>4 DEF Initialize, LoadInitialCredentials
<1>5. CASE Destroy(a)
  BY <1>5, <1>3 DEF Destroy
<1>6. CASE Crash(a)
  BY <1>6, <1>3 DEF Crash
<1>7. ASSUME NEW c \in Calls, Begin(a, c)
      PROVE  UNCHANGED <<grants, clients>> /\ \A b \in Agents \ {a} : SameRow(b)
  BY <1>7 DEF Begin
<1>8. CASE EnterFails(a)
  BY <1>8, <1>1 DEF EnterFails
<1>9. CASE Onboard(a)
  BY <1>9, <1>1, <1>2 DEF Onboard
<1>10. CASE RotateKey(a)
  <2>1. \A b \in Agents \ {a} : mem'[b] = mem[b]
    BY <1>10 DEF RotateKey, ReplaceKeyPair, LoseKeyPair
  <2>. QED BY <1>10, <1>1, <1>2, <2>1 DEF RotateKey
<1>11. CASE UpdateCredentials(a)
  BY <1>11, <1>1, <1>3 DEF UpdateCredentials, TakeOver
<1>12. CASE SendFails(a)
  BY <1>12, <1>1 DEF SendFails
<1>13. CASE RejectResponse(a)
  BY <1>13, <1>1 DEF RejectResponse
<1>14. CASE ProcessRegistrationResponse(a)
  BY <1>14, <1>1 DEF ProcessRegistrationResponse
<1>15. CASE SaveFails(a)
  BY <1>15, <1>1 DEF SaveFails
<1>16. CASE SaveOpens(a)
  BY <1>16 DEF SaveOpens
<1>17. CASE SaveWrites(a)
  BY <1>17, <1>1 DEF SaveWrites
<1>18. CASE GetAccessToken(a)
  BY <1>18, <1>1, <1>2, <1>3 DEF GetAccessToken
<1>19. CASE TokenRequestFails(a)
  BY <1>19, <1>1 DEF TokenRequestFails
<1>20. ASSUME NEW h \in BOOLEAN, NEW p \in BOOLEAN, ReceiveToken(a, h, p)
       PROVE  UNCHANGED <<grants, clients>> /\ \A b \in Agents \ {a} : SameRow(b)
  BY <1>20, <1>1 DEF ReceiveToken
<1>. QED
  BY <1>4, <1>5, <1>6, <1>7, <1>8, <1>9, <1>10, <1>11, <1>12, <1>13, <1>14,
     <1>15, <1>16, <1>17, <1>18, <1>19, <1>20 DEF AgentStep

\* Every step of an agent has one of the shapes.
LEMMA StepShape ==
    ASSUME TypeOK, NEW a \in Agents, AgentStep(a)
    PROVE  Handle(a) /\ Move(a)
<1>1. CASE Initialize(a)
  <2>1. keys + 1 \in Nat
    BY DEF TypeOK
  <2>2. pc[a] # "sent" /\ pc'[a] = "idle" /\ reply' = reply
    BY <1>1 DEF Initialize, TypeOK
  <2>3. pc[a] \in {"down", "aborted"} /\ token' = token
    BY <1>1 DEF Initialize
  <2>4. CASE storage # NoCredentials /\ mem' = [mem EXCEPT ![a] = storage]
    BY <2>2, <2>3, <2>4 DEF Handle, Move, TypeOK
  <2>5. CASE LoadInitialCredentials(a)
    BY <2>1, <2>2, <2>3, <2>5 DEF Handle, Move, TypeOK, LoadInitialCredentials
  <2>. QED BY <1>1, <2>4, <2>5 DEF Initialize
<1>2. ASSUME NEW p \in {"down", "aborted"}, Gone(a, p) PROVE Handle(a) /\ Move(a)
  BY <1>2 DEF Gone, Handle, Move, TypeOK
<1>3. CASE Destroy(a)
  BY <1>2, <1>3 DEF Destroy
<1>4. CASE Crash(a)
  BY <1>2, <1>4 DEF Crash
<1>5. ASSUME NEW c \in Calls, Begin(a, c) PROVE Handle(a) /\ Move(a)
  BY <1>5 DEF Begin, Handle, Move, TypeOK
<1>6. CASE EnterFails(a)
  BY <1>6 DEF EnterFails, Handle, Move, Results
<1>7. CASE Onboard(a)
  BY <1>7 DEF Onboard, CanEnter, Handle, Move, Results
<1>8. CASE RotateKey(a)
  <2>1. Move(a)
    BY <1>8 DEF RotateKey, Move, Results
  <2>2. pc[a] \notin {"down", "aborted"}
    BY <1>8 DEF RotateKey, CanEnter
  <2>3. \/ mem' = mem
        \/ \E k \in Nat : mem'[a] = [mem[a] EXCEPT !.key = k]
    <3>1. CASE ReplaceKeyPair(a)
      <4>1. keys + 1 \in Nat /\ mem'[a] = [mem[a] EXCEPT !.key = keys + 1]
        BY <3>1 DEF ReplaceKeyPair, TypeOK
      <4>. QED BY <4>1
    <3>2. CASE LoseKeyPair(a)
      <4>1. 0 \in Nat /\ mem'[a] = [mem[a] EXCEPT !.key = 0]
        BY <3>2 DEF LoseKeyPair, TypeOK, Null
      <4>. QED BY <4>1
    <3>. QED BY <1>8, <3>1, <3>2 DEF RotateKey
  <2>. QED BY <2>1, <2>2, <2>3 DEF Handle
<1>9. CASE UpdateCredentials(a)
  <2>1. pc[a] \notin {"down", "aborted"}
    BY <1>9 DEF UpdateCredentials, CanEnter
  <2>2. CASE Gone(a, "aborted")
    BY <1>2, <2>2
  <2>3. CASE ~ Gone(a, "aborted")
    <3>1. \E r \in Results : Return(a, r)
      BY <1>9, <2>3 DEF UpdateCredentials, Results
    <3>2. CASE mem' = mem
      BY <2>1, <3>1, <3>2 DEF Handle, Move
    <3>3. CASE mem' # mem
      <4>1. /\ IsOnboarded(a) /\ storage # NoCredentials
            /\ storage.client = mem[a].client /\ TakeOver(a)
        BY <1>9, <2>3, <3>3 DEF UpdateCredentials
      <4>. QED BY <2>1, <3>1, <4>1 DEF TakeOver, Handle, Move, TypeOK
    <3>. QED BY <3>2, <3>3
  <2>. QED BY <2>2, <2>3
<1>10. CASE SendFails(a)
  BY <1>10 DEF SendFails, Handle, Move, Results
<1>11. CASE RejectResponse(a)
  BY <1>11 DEF RejectResponse, Handle, Move, Results
<1>12. CASE ProcessRegistrationResponse(a)
  <2>1. CASE a \in Persistent
    BY <1>12, <2>1 DEF ProcessRegistrationResponse, Handle, Move, TypeOK
  <2>2. CASE a \notin Persistent
    BY <1>12, <2>2 DEF ProcessRegistrationResponse, Handle, Move, Results
  <2>. QED BY <2>1, <2>2
<1>13. CASE SaveFails(a)
  BY <1>13 DEF SaveFails, Handle, Move, Results
<1>14. CASE SaveOpens(a)
  BY <1>14 DEF SaveOpens, Handle, Move
<1>15. CASE SaveWrites(a)
  BY <1>15 DEF SaveWrites, Handle, Move, Results
<1>16. CASE GetAccessToken(a)
  <2>1. CASE Gone(a, "aborted")
    BY <1>2, <2>1
  <2>2. CASE ~ Gone(a, "aborted")
    BY <1>16, <2>2 DEF GetAccessToken, Handle, Move, Results
  <2>. QED BY <2>1, <2>2
<1>17. CASE TokenRequestFails(a)
  BY <1>17 DEF TokenRequestFails, Handle, Move, Results
<1>18. ASSUME NEW h \in BOOLEAN, NEW p \in BOOLEAN, ReceiveToken(a, h, p)
       PROVE  Handle(a) /\ Move(a)
  BY <1>18 DEF ReceiveToken, Handle, Move, Results
<1>. QED
  BY <1>1, <1>3, <1>4, <1>5, <1>6, <1>7, <1>8, <1>9, <1>10, <1>11, <1>12,
     <1>13, <1>14, <1>15, <1>16, <1>17, <1>18 DEF AgentStep

-----------------------------------------------------------------------------
(* Answers and handles fit, and are kept by the steps of others.           *)

\* A grant of the service keeps the registrations there are.
LEMMA GrantKeeps ==
    ASSUME TypeOK, NEW r \in Request, Grant(r)
    PROVE  /\ GrantsKept
           /\ Len(grants') = Len(grants) + 1
           /\ grants'[Len(grants) + 1].key = r.key
           /\ r.rat # Null => grants'[Len(grants) + 1].client = r.client
<1>1. grants \in Seq(Grants)
  BY DEF TypeOK, Grants
<1>2. PICK g \in Grants : /\ g.key = r.key
                          /\ r.rat # Null => g.client = r.client
                          /\ grants' = Append(grants, g)
  BY GrantAppends
<1>3. Len(grants) \in Nat
  BY <1>1, LenProperties
<1>. QED BY <1>1, <1>2, <1>3, AppendKeeps DEF GrantsKept

LEMMA UnchangedKeeps ==
    ASSUME TypeOK, UNCHANGED grants
    PROVE  GrantsKept
BY LenProperties DEF GrantsKept, TypeOK

\* What others do leaves the answer to an agent and its handle fitting.
LEMMA OthersFit ==
    ASSUME TypeOK, CredentialsWhole, GrantsKept,
           NEW b \in Agents, SameRow(b), AnswerFits(b), HandleFits(b)
    PROVE  AnswerFits(b)' /\ HandleFits(b)'
<1>1. AnswerFits(b)'
  <2>1. /\ pc'[b] = pc[b] /\ call'[b] = call[b] /\ reply'[b] = reply[b]
        /\ mem'[b] = mem[b]
    BY DEF SameRow
  <2>2. \A g \in 1 .. Len(grants) : g \in 1 .. Len(grants') /\ grants'[g] = grants[g]
    BY LenProperties DEF GrantsKept, TypeOK
  <2>. QED BY <2>1, <2>2 DEF AnswerFits, IsOnboarded
<1>2. HandleFits(b)'
  BY LenProperties
     DEF HandleFits, SameRow, IsOnboarded, GrantsKept, TypeOK, CredentialsWhole,
         Whole
<1>. QED BY <1>1, <1>2

\* A step of agent a leaves its own answer and handle fitting.
LEMMA OwnFits ==
    ASSUME TypeOK, Fits, CredentialsWhole, NEW a \in Agents, AgentStep(a)
    PROVE  AnswerFits(a)' /\ HandleFits(a)'
<1>1. UNCHANGED grants
  BY StepFrame
<1>2. Move(a)
  BY StepShape
<1>3. AnswerFits(a) /\ HandleFits(a)
  BY DEF Fits
<1>4. ASSUME NEW r \in Results, Return(a, r) PROVE AnswerFits(a)' /\ HandleFits(a)'
  BY <1>4 DEF Return, AnswerFits, HandleFits, TypeOK, NoReply
<1>5. ASSUME NEW p \in {"down", "aborted"}, Gone(a, p)
      PROVE  AnswerFits(a)' /\ HandleFits(a)'
  BY <1>5 DEF Gone, AnswerFits, HandleFits, TypeOK, NoReply
<1>6. ASSUME NEW c \in {"onboard", "rotate", "token"}, Send(a, c),
             c = "token" => IsOnboarded(a) /\ mem' = mem
      PROVE  AnswerFits(a)' /\ HandleFits(a)'
  BY <1>6 DEF Send, AnswerFits, HandleFits, TypeOK, NoReply, IsOnboarded
<1>7. CASE pc[a] # "sent" /\ pc'[a] \in {"idle", "entering"} /\ reply' = reply
  BY <1>3, <1>7 DEF AnswerFits, HandleFits
<1>8. CASE /\ ProcessRegistrationResponse(a)
           /\ pc'[a] = "saving" /\ call'[a] = call[a] /\ reply'[a] = NoReply
  <2>1. AnswerFits(a)'
    BY <1>8 DEF AnswerFits, NoReply
  <2>2. reply[a].status \in {"ok", "created"}
    BY <1>8 DEF ProcessRegistrationResponse, IsSuccess
  <2>3. /\ reply[a].grant \in 1 .. Len(grants)
        /\ grants[reply[a].grant].key = mem[a].key
    BY <1>3, <1>8, <2>2 DEF ProcessRegistrationResponse, AnswerFits
  <2>4. mem'[a].rat = reply[a].grant /\ mem'[a].key = mem[a].key
    BY <1>8 DEF ProcessRegistrationResponse, TypeOK
  <2>5. reply[a].grant # Null
    BY <2>3, LenProperties DEF TypeOK, Null
  <2>. QED BY <1>1, <1>8, <2>1, <2>3, <2>4, <2>5 DEF HandleFits, IsOnboarded
<1>9. CASE SaveOpens(a)
  BY <1>1, <1>3, <1>9
     DEF SaveOpens, AnswerFits, HandleFits, IsOnboarded, TypeOK
<1>. QED BY <1>2, <1>4, <1>5, <1>6, <1>7, <1>8, <1>9 DEF Move

LEMMA FitsStep ==
    ASSUME TypeOK, Fits, CredentialsWhole, [Next]_vars
    PROVE  Fits' /\ GrantsKept
<1>1. ASSUME NEW a \in Agents, AgentStep(a) PROVE Fits' /\ GrantsKept
  <2>1. GrantsKept
    BY <1>1, StepFrame, UnchangedKeeps
  <2>2. ASSUME NEW b \in Agents \ {a} PROVE AnswerFits(b)' /\ HandleFits(b)'
    BY <1>1, <2>1, <2>2, StepFrame, OthersFit DEF Fits
  <2>. QED BY <1>1, <2>1, <2>2, OwnFits DEF Fits
<1>2. ASSUME NEW a \in Agents, ServiceRegisters(a) PROVE Fits' /\ GrantsKept
  <2>1. \A b \in Agents \ {a} : SameRow(b)
    BY <1>2 DEF ServiceRegisters, SameRow, TypeOK
  <2>2. /\ pc' = pc /\ call' = call /\ mem' = mem /\ pc[a] = "sent"
        /\ AnswerFits(a) /\ HandleFits(a) /\ call[a] # "token"
    BY <1>2 DEF ServiceRegisters, Fits
  <2>3. HandleFits(a)'
    BY <2>2 DEF HandleFits
  <2>4. CASE Grant(RequestOf(a)) /\ Accepts(RequestOf(a)) /\
             \E s \in {"ok", "created"} :
                reply' = [reply EXCEPT ![a] = [status |-> s, grant |-> Len(grants) + 1]]
    <3> DEFINE n == Len(grants) + 1
    <3>1. /\ GrantsKept /\ Len(grants') = n /\ grants'[n].key = mem[a].key
          /\ mem[a].rat # Null => grants'[n].client = mem[a].uri
      BY <2>4, RequestType, GrantKeeps DEF RequestOf
    <3>2. mem[a].rat # Null => /\ mem[a].uri = mem[a].client
                               /\ mem[a].rat \in 1 .. Len(grants)
      BY DEF CredentialsWhole, IsOnboarded, Whole
    <3>3. n \in 1 .. n /\ n > mem[a].rat
      BY <3>2, LenProperties DEF TypeOK, Null
    <3>4. reply'[a].grant = n /\ reply'[a].status \in {"ok", "created"}
      BY <2>4 DEF TypeOK
    <3>5. AnswerFits(a)'
      BY <2>2, <3>1, <3>2, <3>3, <3>4 DEF AnswerFits, IsOnboarded
    <3>. QED BY <2>1, <2>3, <3>1, <3>5, OthersFit DEF Fits
  <2>5. CASE UNCHANGED service /\
             reply' = [reply EXCEPT ![a] = [status |-> "error", grant |-> Null]]
    <3>1. GrantsKept
      BY <2>5, UnchangedKeeps DEF service
    <3>2. AnswerFits(a)'
      BY <2>2, <2>5 DEF AnswerFits, TypeOK
    <3>. QED BY <2>1, <2>3, <3>1, <3>2, OthersFit DEF Fits
  <2>. QED BY <1>2, <2>4, <2>5 DEF ServiceRegisters
<1>3. ASSUME NEW r \in late, ServiceRegistersLate(r) PROVE Fits' /\ GrantsKept
  <2>1. \A b \in Agents : SameRow(b)
    BY <1>3 DEF ServiceRegistersLate, SameRow, local
  <2>2. r \in Request
    BY DEF TypeOK
  <2>3. GrantsKept
    BY <1>3, <2>2, GrantKeeps, UnchangedKeeps DEF ServiceRegistersLate, service
  <2>. QED BY <2>1, <2>3, OthersFit DEF Fits
<1>4. ASSUME NEW a \in Agents, ServiceAuthenticates(a) PROVE Fits' /\ GrantsKept
  <2>1. \A b \in Agents \ {a} : SameRow(b)
    BY <1>4 DEF ServiceAuthenticates, SameRow, TypeOK
  <2>2. GrantsKept
    BY <1>4, UnchangedKeeps DEF ServiceAuthenticates, service
  <2>3. /\ pc' = pc /\ call' = call /\ mem' = mem /\ grants' = grants
        /\ AnswerFits(a) /\ HandleFits(a) /\ pc[a] = "sent" /\ call[a] = "token"
    BY <1>4 DEF ServiceAuthenticates, Fits, service
  <2>4. HandleFits(a)'
    BY <2>3 DEF HandleFits
  <2>5. AnswerFits(a)'
    <3>1. CASE reply' = [reply EXCEPT ![a] = [status |-> "error", grant |-> Null]]
      BY <2>3, <3>1 DEF AnswerFits, IsOnboarded, TypeOK
    <3>2. ASSUME NEW n \in 1 .. Len(grants), grants[n].client = mem[a].client,
                 reply' = [reply EXCEPT ![a] = [status |-> "ok", grant |-> n]]
          PROVE  AnswerFits(a)'
      BY <2>3, <3>2 DEF AnswerFits, IsOnboarded, TypeOK
    <3>. QED BY <1>4, <3>1, <3>2 DEF ServiceAuthenticates
  <2>. QED BY <2>1, <2>2, <2>4, <2>5, OthersFit DEF Fits
<1>5. CASE UNCHANGED vars
  <2>1. \A b \in Agents : SameRow(b)
    BY <1>5 DEF vars, SameRow
  <2>2. GrantsKept
    BY <1>5, UnchangedKeeps DEF vars
  <2>. QED BY <2>1, <2>2, OthersFit DEF Fits
<1>. QED
  BY <1>1, <1>2, <1>3, <1>4, <1>5 DEF Next, ServiceStep

-----------------------------------------------------------------------------
(* Handles and storage hold whole registrations.                           *)

\* A registration stays whole when others follow it.
LEMMA WholeKept ==
    ASSUME TypeOK, GrantsKept, NEW c, Whole(c)
    PROVE  /\ c.rat \in 1 .. Len(grants')
           /\ c.client = grants'[c.rat].client
           /\ grants'[c.rat] = grants[c.rat]
BY LenProperties DEF Whole, GrantsKept, TypeOK

\* What CredentialsWhole says of one handle.
HandleWhole(a) ==
    IF IsOnboarded(a) THEN Whole(mem[a])
    ELSE mem[a] = [NoCredentials EXCEPT !.key = mem[a].key]

LEMMA HandleWholeKept ==
    ASSUME TypeOK, GrantsKept, NEW b \in Agents, mem'[b] = mem[b], HandleWhole(b)
    PROVE  HandleWhole(b)'
<1>1. CASE IsOnboarded(b)
  BY <1>1, WholeKept DEF HandleWhole, IsOnboarded, Whole
<1>2. CASE ~IsOnboarded(b)
  BY <1>2 DEF HandleWhole, IsOnboarded
<1>. QED BY <1>1, <1>2

LEMMA OwnHandleWhole ==
    ASSUME TypeOK, Fits, CredentialsWhole, NEW a \in Agents, AgentStep(a)
    PROVE  HandleWhole(a)'
<1>1. UNCHANGED grants
  BY StepFrame
<1>2. Handle(a)
  BY StepShape
<1>3. HandleWhole(a)
  BY DEF CredentialsWhole, HandleWhole
<1>4. CASE mem'[a] = mem[a]
  BY <1>1, <1>3, <1>4 DEF HandleWhole, IsOnboarded, Whole
<1>5. CASE mem'[a] = NoCredentials
  BY <1>5 DEF HandleWhole, IsOnboarded, NoCredentials
<1>6. CASE storage # NoCredentials /\ mem'[a] = storage
  <2>1. Whole(storage)
    BY <1>6 DEF CredentialsWhole
  <2>2. storage.rat # Null
    BY <2>1, LenProperties DEF Whole, Null, TypeOK
  <2>. QED BY <1>1, <1>6, <2>1, <2>2 DEF HandleWhole, IsOnboarded, Whole
<1>7. ASSUME NEW k \in Nat, mem'[a] = [NoCredentials EXCEPT !.key = k]
      PROVE  HandleWhole(a)'
  BY <1>7 DEF HandleWhole, IsOnboarded, NoCredentials
<1>8. ASSUME NEW k \in Nat, mem'[a] = [mem[a] EXCEPT !.key = k]
      PROVE  HandleWhole(a)'
  <2>1. /\ mem'[a].client = mem[a].client /\ mem'[a].secret = mem[a].secret
        /\ mem'[a].rat = mem[a].rat /\ mem'[a].uri = mem[a].uri
    BY <1>8 DEF TypeOK, Credentials
  <2>2. CASE IsOnboarded(a)
    BY <1>1, <1>3, <2>1, <2>2 DEF HandleWhole, IsOnboarded, Whole
  <2>3. CASE ~IsOnboarded(a)
    <3>1. mem[a] = [NoCredentials EXCEPT !.key = mem[a].key]
      BY <1>3, <2>3 DEF HandleWhole
    <3>2. mem'[a] = [NoCredentials EXCEPT !.key = k]
      BY <1>8, <3>1 DEF NoCredentials
    <3>. QED BY <1>7, <3>2
  <2>. QED BY <2>2, <2>3
<1>9. CASE /\ IsOnboarded(a) /\ storage # NoCredentials
           /\ storage.client = mem[a].client
           /\ mem'[a] = [storage EXCEPT !.client = mem[a].client,
                                        !.uri = mem[a].uri]
  <2>1. Whole(storage) /\ Whole(mem[a])
    BY <1>9 DEF CredentialsWhole
  <2>2. /\ mem'[a].client = mem[a].client /\ mem'[a].secret = storage.secret
        /\ mem'[a].rat = storage.rat /\ mem'[a].uri = mem[a].uri
    BY <1>9 DEF TypeOK, Credentials
  <2>3. storage.rat # Null
    BY <2>1, LenProperties DEF Whole, Null, TypeOK
  <2>. QED BY <1>1, <1>9, <2>1, <2>2, <2>3 DEF HandleWhole, IsOnboarded, Whole
<1>10. CASE ProcessRegistrationResponse(a)
  <2> DEFINE g == reply[a].grant
  <2>1. g \in 1 .. Len(grants)
    BY <1>10 DEF ProcessRegistrationResponse, IsSuccess, Fits, AnswerFits
  <2>2. /\ mem'[a].client = grants[g].client /\ mem'[a].rat = g
        /\ mem'[a].uri = grants[g].client
        /\ mem'[a].secret = IF Rsa THEN Null ELSE g
    BY <1>10 DEF ProcessRegistrationResponse, TypeOK
  <2>3. g # Null
    BY <2>1, LenProperties DEF Null, TypeOK
  <2>. QED BY <1>1, <2>1, <2>2, <2>3 DEF HandleWhole, IsOnboarded, Whole
<1>. QED
  BY <1>2, <1>4, <1>5, <1>6, <1>7, <1>8, <1>9, <1>10 DEF Handle,
     LoadInitialCredentials

\* The storage changes only while it is saved.
LEMMA StorageSteps ==
    ASSUME TypeOK, [Next]_vars
    PROVE  \/ UNCHANGED <<storage, savedUpTo>>
           \/ \E a \in Agents : SaveOpens(a) \/ SaveWrites(a)
BY DEF Next, AgentStep, ServiceStep, Initialize, Destroy, Crash, Begin,
       EnterFails, Onboard, RotateKey, UpdateCredentials, SendFails,
       RejectResponse, ProcessRegistrationResponse, SaveFails, GetAccessToken,
       TokenRequestFails, ReceiveToken, ServiceRegisters, ServiceRegistersLate,
       ServiceAuthenticates, vars

LEMMA WholeStep ==
    ASSUME TypeOK, Fits, CredentialsWhole, [Next]_vars
    PROVE  CredentialsWhole'
<1>1. GrantsKept
  BY FitsStep
<1>2. \A b \in Agents : HandleWhole(b)
  BY DEF CredentialsWhole, HandleWhole
<1>3. \A b \in Agents : HandleWhole(b)'
  <2>1. ASSUME NEW a \in Agents, AgentStep(a)
        PROVE  \A b \in Agents : HandleWhole(b)'
    BY <1>1, <1>2, <2>1, StepFrame, HandleWholeKept, OwnHandleWhole DEF SameRow
  <2>2. CASE mem' = mem
    BY <1>1, <1>2, <2>2, HandleWholeKept
  <2>. QED
    BY <2>1, <2>2 DEF Next, ServiceStep, ServiceRegisters, ServiceRegistersLate,
                      ServiceAuthenticates, vars, local
<1>4. storage' # NoCredentials =>
         Whole(storage)' /\ storage'.key = grants'[storage'.rat].key
  <2>1. CASE storage' = storage
    BY <1>1, <2>1, WholeKept DEF CredentialsWhole, Whole
  <2>2. ASSUME NEW a \in Agents, SaveWrites(a), storage' = mem[a]
        PROVE  Whole(storage)' /\ storage'.key = grants'[storage'.rat].key
    <3>1. Whole(mem[a]) /\ mem[a].key = grants[mem[a].rat].key
      BY <2>2 DEF SaveWrites, Fits, HandleFits, CredentialsWhole
    <3>. QED BY <1>1, <2>2, <3>1, WholeKept DEF Whole
  <2>. QED BY <2>1, <2>2, StorageSteps DEF SaveOpens, SaveWrites
<1>. QED BY <1>3, <1>4 DEF CredentialsWhole, HandleWhole

-----------------------------------------------------------------------------
(* Access tokens belong to the client of the handle.                       *)

\* What TokenBelongsToClient says of one handle.
TokenFits(a) ==
    token[a] # Null =>
        /\ IsOnboarded(a)
        /\ token[a] \in 1 .. Len(grants)
        /\ grants[token[a]].client = mem[a].client

\* A step changes the token by dropping it or by receiving one.
LEMMA TokenSteps ==
    ASSUME TypeOK, Fits, NEW a \in Agents, AgentStep(a)
    PROVE  \/ token'[a] \in {token[a], Null}
           \/ /\ IsOnboarded(a) /\ mem' = mem
              /\ token'[a] \in 1 .. Len(grants)
              /\ grants[token'[a]].client = mem[a].client
<1>1. ASSUME NEW h \in BOOLEAN, NEW p \in BOOLEAN, ReceiveToken(a, h, p)
      PROVE  \/ token'[a] \in {token[a], Null}
             \/ /\ IsOnboarded(a) /\ mem' = mem
                /\ token'[a] \in 1 .. Len(grants)
                /\ grants[token'[a]].client = mem[a].client
  <2>1. token'[a] = Null \/ /\ token'[a] = reply[a].grant
                            /\ reply[a].status = "ok"
    BY <1>1 DEF ReceiveToken, TypeOK
  <2>. QED BY <1>1, <2>1 DEF ReceiveToken, Fits, AnswerFits
<1>2. ASSUME NEW p, Gone(a, p) PROVE token'[a] = Null
  BY <1>2 DEF Gone, TypeOK
<1>3. UpdateCredentials(a) \/ GetAccessToken(a) => token'[a] \in {token[a], Null}
  BY <1>2 DEF UpdateCredentials, GetAccessToken, TypeOK
<1>4. ASSUME NEW c \in Calls, Begin(a, c) PROVE token' = token
  BY <1>4 DEF Begin
<1>. QED
  BY <1>1, <1>2, <1>3, <1>4
     DEF AgentStep, Initialize, Destroy, Crash, EnterFails, Onboard, RotateKey,
         SendFails, RejectResponse, ProcessRegistrationResponse, SaveFails,
         SaveOpens, SaveWrites, TokenRequestFails, TypeOK

\* A step leaves an onboarded handle with its client, or without anything.
LEMMA ClientSteps ==
    ASSUME TypeOK, Fits, CredentialsWhole, NEW a \in Agents, AgentStep(a),
           IsOnboarded(a)
    PROVE  \/ token'[a] = Null /\ pc'[a] \in {"down", "aborted"}
           \/ mem'[a].client = mem[a].client /\ mem'[a].rat # Null
<1>1. Handle(a)
  BY StepShape
<1>2. pc[a] \notin {"down", "aborted"}
  BY DEF Fits, HandleFits, IsOnboarded, NoCredentials
<1>3. CASE \E k \in Nat : mem'[a] = [mem[a] EXCEPT !.key = k]
  BY <1>3 DEF TypeOK, Credentials, IsOnboarded
<1>4. CASE /\ storage # NoCredentials /\ storage.client = mem[a].client
           /\ mem'[a] = [storage EXCEPT !.client = mem[a].client,
                                        !.uri = mem[a].uri]
  <2>1. storage.rat # Null
    BY <1>4, LenProperties DEF CredentialsWhole, Whole, Null, TypeOK
  <2>. QED BY <1>4, <2>1 DEF TypeOK, Credentials
<1>5. CASE ProcessRegistrationResponse(a)
  <2>1. /\ reply[a].grant \in 1 .. Len(grants)
        /\ grants[reply[a].grant].client = mem[a].client
    BY <1>5 DEF ProcessRegistrationResponse, IsSuccess, Fits, AnswerFits
  <2>2. /\ mem'[a].client = grants[reply[a].grant].client
        /\ mem'[a].rat = reply[a].grant
    BY <1>5 DEF ProcessRegistrationResponse, TypeOK
  <2>. QED BY <2>1, <2>2, LenProperties DEF Null, TypeOK
<1>6. CASE mem'[a] = mem[a]
  BY <1>6 DEF IsOnboarded
<1>7. CASE token'[a] = Null /\ pc'[a] \in {"down", "aborted"}
  BY <1>7
<1>. QED BY <1>1, <1>2, <1>3, <1>4, <1>5, <1>6, <1>7 DEF Handle

LEMMA TokenStep ==
    ASSUME TypeOK, Fits, CredentialsWhole, TokenBelongsToClient, [Next]_vars
    PROVE  TokenBelongsToClient'
<1>1. GrantsKept
  BY FitsStep
<1>2. \A b \in Agents : TokenFits(b)
  BY DEF TokenBelongsToClient, TokenFits
<1>3. ASSUME NEW b \in Agents, token'[b] = token[b], mem'[b] = mem[b]
      PROVE  TokenFits(b)'
  BY <1>1, <1>2, <1>3, LenProperties
     DEF TokenFits, IsOnboarded, GrantsKept, TypeOK
<1>4. ASSUME NEW a \in Agents, AgentStep(a) PROVE TokenBelongsToClient'
  <2>1. UNCHANGED grants /\ \A b \in Agents \ {a} : SameRow(b)
    BY <1>4, StepFrame
  <2>2. TokenFits(a)'
    <3>1. TokenFits(a)
      BY <1>2
    <3>2. CASE token'[a] = Null
      BY <3>2 DEF TokenFits
    <3>3. CASE token'[a] = token[a] /\ token[a] # Null
      BY <1>4, <2>1, <3>1, <3>3, ClientSteps DEF TokenFits, IsOnboarded
    <3>4. CASE /\ IsOnboarded(a) /\ mem' = mem
               /\ token'[a] \in 1 .. Len(grants)
               /\ grants[token'[a]].client = mem[a].client
      BY <2>1, <3>4 DEF TokenFits, IsOnboarded
    <3>. QED BY <1>4, <3>2, <3>3, <3>4, TokenSteps
  <2>. QED BY <1>3, <2>1, <2>2 DEF TokenBelongsToClient, TokenFits, SameRow
<1>5. CASE token' = token /\ mem' = mem
  BY <1>3, <1>5 DEF TokenBelongsToClient, TokenFits
<1>. QED
  BY <1>4, <1>5 DEF Next, ServiceStep, ServiceRegisters, ServiceRegistersLate,
                    ServiceAuthenticates, vars, local

-----------------------------------------------------------------------------
(* The critical section.                                                   *)

\* Who is in the section after its step was in it before, or found it free.
LEMMA SectionEntry ==
    ASSUME TypeOK, Fits, NEW a \in Agents, AgentStep(a), InSection(a)'
    PROVE  InSection(a) \/ CanEnter(a)
<1>1. Move(a)
  BY StepShape
<1>2. ASSUME NEW r, Return(a, r) PROVE FALSE
  BY <1>2 DEF Return, InSection, TypeOK
<1>3. ASSUME NEW p \in {"down", "aborted"}, Gone(a, p) PROVE FALSE
  BY <1>3 DEF Gone, InSection, TypeOK
<1>4. CASE Send(a, "token")
  BY <1>4 DEF Send, InSection, TypeOK
<1>5. CASE ProcessRegistrationResponse(a)
  BY <1>5 DEF ProcessRegistrationResponse, Fits, AnswerFits, InSection
<1>6. CASE SaveOpens(a)
  BY <1>6 DEF SaveOpens, InSection
<1>7. CASE pc'[a] \in {"idle", "entering"}
  BY <1>7 DEF InSection
<1>. QED BY <1>1, <1>2, <1>3, <1>4, <1>5, <1>6, <1>7 DEF Move

LEMMA ExclusionStep ==
    ASSUME TypeOK, Fits, MutualExclusion, [Next]_vars
    PROVE  MutualExclusion'
<1>1. ASSUME NEW a \in Agents, AgentStep(a) PROVE MutualExclusion'
  <2> SUFFICES ASSUME UseLock, NEW b \in Agents, NEW c \in Agents,
                      InSection(b)', InSection(c)'
               PROVE  b = c
    BY DEF MutualExclusion
  <2>1. \A d \in Agents \ {a} : InSection(d)' => InSection(d)
    BY <1>1, StepFrame DEF SameRow, InSection
  <2>2. InSection(a)' => InSection(a) \/ \A d \in Agents : ~InSection(d)
    BY <1>1, SectionEntry DEF CanEnter
  <2>. QED BY <2>1, <2>2 DEF MutualExclusion
<1>2. CASE pc' = pc /\ call' = call
  BY <1>2 DEF MutualExclusion, InSection
<1>. QED
  BY <1>1, <1>2 DEF Next, ServiceStep, ServiceRegisters, ServiceRegistersLate,
                    ServiceAuthenticates, vars, local

\* What UnsavedIsNewer says of one agent.
Unsaved(a) ==
    /\ /\ pc[a] = "sent" /\ call[a] # "token"
       /\ reply[a].status \in {"ok", "created"}
       => reply[a].grant > savedUpTo
    /\ pc[a] \in {"saving", "writing"} => mem[a].rat > savedUpTo

\* Whoever has something to save is in the section.
LEMMA UnsavedInSection ==
    ASSUME Fits, NEW a \in Agents,
           \/ pc[a] = "sent" /\ call[a] # "token"
           \/ pc[a] \in {"saving", "writing"}
    PROVE  InSection(a)
BY DEF Fits, AnswerFits, InSection

\* A step that saves nothing leaves what is unsaved newer than the storage.
LEMMA UnsavedKept ==
    ASSUME TypeOK, Fits, CredentialsWhole, UseLock, UnsavedIsNewer, [Next]_vars,
           savedUpTo' = savedUpTo
    PROVE  UnsavedIsNewer'
<1>1. GrantsKept /\ Fits'
  BY FitsStep
<1>2. savedUpTo <= Len(grants) /\ \A b \in Agents : Unsaved(b)
  BY DEF UnsavedIsNewer, Unsaved
<1>3. savedUpTo' <= Len(grants')
  BY <1>1, <1>2, LenProperties DEF GrantsKept, TypeOK
<1>4. ASSUME NEW b \in Agents, pc'[b] = pc[b], call'[b] = call[b],
             reply'[b] = reply[b], mem'[b] = mem[b]
      PROVE  Unsaved(b)'
  BY <1>2, <1>4 DEF Unsaved
<1>5. ASSUME NEW a \in Agents, AgentStep(a) PROVE \A b \in Agents : Unsaved(b)'
  <2>1. \A b \in Agents \ {a} : Unsaved(b)'
    BY <1>4, <1>5, StepFrame DEF SameRow
  <2>2. Unsaved(a)'
    <3>1. Move(a)
      BY <1>5, StepShape
    <3>2. ASSUME NEW r, Return(a, r) PROVE Unsaved(a)'
      BY <3>2 DEF Return, Unsaved, TypeOK
    <3>3. ASSUME NEW p \in {"down", "aborted"}, Gone(a, p) PROVE Unsaved(a)'
      BY <3>3 DEF Gone, Unsaved, TypeOK
    <3>4. ASSUME NEW c, Send(a, c) PROVE Unsaved(a)'
      BY <3>4 DEF Send, Unsaved, TypeOK, NoReply
    <3>5. CASE pc'[a] \in {"idle", "entering"}
      BY <3>5 DEF Unsaved
    <3>6. CASE ProcessRegistrationResponse(a) /\ pc'[a] = "saving"
      <4>1. reply[a].grant > savedUpTo
        BY <1>2, <3>6 DEF ProcessRegistrationResponse, IsSuccess, Unsaved
      <4>2. mem'[a].rat = reply[a].grant
        BY <3>6 DEF ProcessRegistrationResponse, TypeOK
      <4>. QED BY <3>6, <4>1, <4>2 DEF Unsaved
    <3>7. CASE SaveOpens(a)
      BY <1>2, <3>7 DEF SaveOpens, Unsaved, TypeOK
    <3>. QED BY <3>1, <3>2, <3>3, <3>4, <3>5, <3>6, <3>7 DEF Move
  <2>. QED BY <2>1, <2>2
<1>6. ASSUME NEW a \in Agents, ServiceRegisters(a)
      PROVE  \A b \in Agents : Unsaved(b)'
  <2>1. UNCHANGED <<pc, call, mem>> /\ \A b \in Agents \ {a} : reply'[b] = reply[b]
    BY <1>6 DEF ServiceRegisters, TypeOK
  <2>2. \A b \in Agents \ {a} : Unsaved(b)'
    BY <1>4, <2>1
  <2>3. pc'[a] = "sent"
    BY <1>6 DEF ServiceRegisters
  <2>4. \/ reply'[a].grant = Len(grants) + 1
        \/ reply'[a].status = "error"
    BY <1>6 DEF ServiceRegisters, TypeOK
  <2>5. Len(grants) + 1 > savedUpTo
    BY <1>2, LenProperties DEF TypeOK
  <2>6. Unsaved(a)'
    BY <2>3, <2>4, <2>5 DEF Unsaved
  <2>. QED BY <2>2, <2>6
<1>7. ASSUME NEW a \in Agents, ServiceAuthenticates(a)
      PROVE  \A b \in Agents : Unsaved(b)'
  <2>1. UNCHANGED <<pc, call, mem>> /\ \A b \in Agents \ {a} : reply'[b] = reply[b]
    BY <1>7 DEF ServiceAuthenticates, TypeOK
  <2>2. pc'[a] = "sent" /\ call'[a] = "token"
    BY <1>7 DEF ServiceAuthenticates
  <2>. QED BY <1>4, <2>1, <2>2 DEF Unsaved
<1>8. ASSUME UNCHANGED <<pc, call, reply, mem>>
      PROVE  \A b \in Agents : Unsaved(b)'
  BY <1>4, <1>8
<1>9. \A b \in Agents : Unsaved(b)'
  <2>1. ASSUME NEW r \in late, ServiceRegistersLate(r)
        PROVE  UNCHANGED <<pc, call, reply, mem>>
    BY <2>1 DEF ServiceRegistersLate, local
  <2>2. CASE UNCHANGED vars
    BY <1>8, <2>2 DEF vars
  <2>. QED BY <1>5, <1>6, <1>7, <1>8, <2>1, <2>2 DEF Next, ServiceStep
<1>. QED BY <1>3, <1>9 DEF UnsavedIsNewer, Unsaved

LEMMA NewestStep ==
    ASSUME TypeOK, Fits, CredentialsWhole, MutualExclusion, UnsavedIsNewer,
           StorageIsNewestSaved, [Next]_vars
    PROVE  UnsavedIsNewer' /\ StorageIsNewestSaved'
<1> SUFFICES ASSUME UseLock PROVE UnsavedIsNewer' /\ StorageIsNewestSaved'
  BY DEF UnsavedIsNewer, StorageIsNewestSaved
<1>1. CASE savedUpTo' = savedUpTo /\ storage' \in {storage, NoCredentials}
  BY <1>1, UnsavedKept DEF StorageIsNewestSaved
<1>2. ASSUME NEW a \in Agents, SaveWrites(a), storage' = mem[a],
             savedUpTo' = IF mem[a].rat > savedUpTo THEN mem[a].rat ELSE savedUpTo
      PROVE  UnsavedIsNewer' /\ StorageIsNewestSaved'
  <2>1. /\ pc[a] = "writing" /\ mem[a].rat > savedUpTo
        /\ mem' = mem /\ grants' = grants
    BY <1>2 DEF SaveWrites, UnsavedIsNewer, service
  <2>2. savedUpTo' = mem[a].rat
    BY <1>2, <2>1
  <2>3. savedUpTo' <= Len(grants')
    BY <2>1, <2>2, LenProperties
       DEF CredentialsWhole, Whole, Fits, HandleFits, TypeOK
  <2>4. pc'[a] = "idle"
    BY <1>2 DEF SaveWrites, Return, TypeOK
  <2>5. ASSUME NEW b \in Agents \ {a} PROVE Unsaved(b)'
    <3>1. SameRow(b)
      BY <1>2, StepFrame DEF AgentStep
    <3>2. ~InSection(b)
      BY <2>1 DEF MutualExclusion, InSection
    <3>3. /\ ~(pc[b] = "sent" /\ call[b] # "token")
          /\ pc[b] \notin {"saving", "writing"}
      BY <3>2, UnsavedInSection
    <3>. QED BY <3>1, <3>3 DEF Unsaved, SameRow
  <2>6. UnsavedIsNewer'
    BY <2>3, <2>4, <2>5 DEF UnsavedIsNewer, Unsaved
  <2>. QED BY <1>2, <2>2, <2>6 DEF StorageIsNewestSaved
<1>. QED BY <1>1, <1>2, StorageSteps DEF SaveOpens, SaveWrites

-----------------------------------------------------------------------------
(* The theorems.                                                           *)

\* The inductive invariant.
THEOREM Invariance == Spec => []IInv
<1>1. Init => IInv
  <2> SUFFICES ASSUME Init PROVE IInv
    OBVIOUS
  <2>1. TypeOK
    BY NoCredentialsType, NoReplyType
       DEF Init, TypeOK, Null, Places, ApiFunctions, Results
  <2>2. Fits
    BY DEF Init, Fits, AnswerFits, HandleFits, NoReply
  <2>3. CredentialsWhole
    BY DEF Init, CredentialsWhole, IsOnboarded, NoCredentials
  <2>4. TokenBelongsToClient
    BY DEF Init, TokenBelongsToClient
  <2>5. MutualExclusion /\ UnsavedIsNewer /\ StorageIsNewestSaved
    BY DEF Init, MutualExclusion, InSection, UnsavedIsNewer, StorageIsNewestSaved
  <2>. QED BY <2>1, <2>2, <2>3, <2>4, <2>5 DEF IInv
<1>2. IInv /\ [Next]_vars => IInv'
  BY TypeStep, FitsStep, WholeStep, TokenStep, ExclusionStep, NewestStep DEF IInv
<1>. QED BY <1>1, <1>2, PTL DEF Spec

\* Whatever steps agents and service take in whatever order, every field of a
\* handle, the storage and an answer has a value its reader in the code expects.
THEOREM TypeCorrect == Spec => []TypeOK
BY Invariance, PTL DEF IInv

\* No interleaving of onboardings, rotations, updates, saves and restarts leaves
\* a mixture of two registrations in a handle or in the storage.
THEOREM CredentialsAreWhole == Spec => []CredentialsWhole
BY Invariance, PTL DEF IInv

\* The critical section callbacks keep a completely saved registration from
\* being overwritten with an older one.
THEOREM NewestSavedIsKept == Spec => []StorageIsNewestSaved
BY Invariance, PTL DEF IInv

\* mcl_core_get_last_access_token and mcl_core_get_client_id always speak of the
\* same client.
THEOREM TokensBelong == Spec => []TokenBelongsToClient
BY Invariance, PTL DEF IInv

\* No call changes the client id of an onboarded handle.
THEOREM ClientStays == Spec => ClientNeverChanges
<1> DEFINE A == \A a \in Agents :
                   IsOnboarded(a) /\ pc'[a] \notin {"down", "aborted"}
                   => mem'[a].client = mem[a].client
<1>1. IInv /\ IInv' /\ [Next]_vars => [A]_vars
  <2> SUFFICES ASSUME IInv, IInv', Next,
                      NEW a \in Agents, IsOnboarded(a),
                      pc'[a] \notin {"down", "aborted"}
               PROVE  mem'[a].client = mem[a].client
    OBVIOUS
  <2>1. CASE AgentStep(a)
    BY <2>1, ClientSteps DEF IInv
  <2>2. ASSUME NEW b \in Agents \ {a}, AgentStep(b)
        PROVE  mem'[a].client = mem[a].client
    BY <2>2, StepFrame DEF IInv, SameRow
  <2>3. CASE ServiceStep
    BY <2>3 DEF ServiceStep, ServiceRegisters, ServiceRegistersLate,
                ServiceAuthenticates, local
  <2>. QED BY <2>1, <2>2, <2>3 DEF Next
<1>. QED BY <1>1, Invariance, PTL DEF Spec, ClientNeverChanges

\* With a save callback that notices incomplete writes, MCL_OK of an onboarding
\* or a rotation means that the storage holds the new credentials.
THEOREM SuccessIsStored ==
    ASSUME SaveReportsErrors
    PROVE  Spec => ReportedSuccessIsStored
<1> DEFINE A == \A a \in Persistent :
                   /\ call[a] \in {"onboard", "rotate"}
                   /\ call'[a] = "none" /\ ret'[a] = "ok"
                   => storage' = mem'[a]
<1>1. IInv /\ [Next]_vars => [A]_vars
  <2> SUFFICES ASSUME TypeOK, Next,
                      NEW a \in Persistent, call[a] \in {"onboard", "rotate"},
                      call'[a] = "none", ret'[a] = "ok"
               PROVE  storage' = mem'[a]
    BY DEF IInv
  <2>1. a \in Agents
    BY ConfigAssumption
  <2>2. \A r \in Results : Return(a, r) => r = "ok"
    BY <2>1 DEF Return, TypeOK
  <2>3. AgentStep(a)
    <3>1. ASSUME NEW b \in Agents \ {a}, AgentStep(b) PROVE FALSE
      BY <2>1, <3>1, StepFrame DEF SameRow
    <3>2. ~ServiceStep
      BY DEF ServiceStep, ServiceRegisters, ServiceRegistersLate,
             ServiceAuthenticates, local
    <3>. QED BY <3>1, <3>2 DEF Next
  <2>4. \A p : ~Gone(a, p)
    BY <2>1 DEF Gone, TypeOK
  <2>5. \A c \in Calls : ~Begin(a, c)
    BY <2>1, ConfigAssumption DEF Begin, TypeOK
  <2>6. ~(Initialize(a) \/ Destroy(a) \/ Crash(a) \/ EnterFails(a))
    BY <2>1, <2>2, <2>4
       DEF Initialize, Destroy, Crash, EnterFails, Results, TypeOK
  <2>7. ~(Onboard(a) \/ RotateKey(a) \/ UpdateCredentials(a))
    <3>1. ~Onboard(a)
      BY <2>1, <2>2 DEF Onboard, Results, Send, TypeOK
    <3>2. ~RotateKey(a)
      BY <2>1, <2>2 DEF RotateKey, Results, Send, TypeOK
    <3>. QED BY <3>1, <3>2 DEF UpdateCredentials
  <2>8. ~(SendFails(a) \/ RejectResponse(a) \/ SaveFails(a))
    BY <2>2 DEF SendFails, RejectResponse, SaveFails, Results
  <2>9. ~SaveOpens(a)
    BY DEF SaveOpens
  <2>10. ~ProcessRegistrationResponse(a)
    BY DEF ProcessRegistrationResponse
  <2>11. ~(GetAccessToken(a) \/ TokenRequestFails(a))
    <3>1. ~GetAccessToken(a)
      BY <2>1, <2>2, <2>4 DEF GetAccessToken, Results, Send, TypeOK
    <3>. QED BY <3>1 DEF TokenRequestFails
  <2>12. \A h, p \in BOOLEAN : ~ReceiveToken(a, h, p)
    BY DEF ReceiveToken
  <2>13. SaveWrites(a)
    BY <2>3, <2>5, <2>6, <2>7, <2>8, <2>9, <2>10, <2>11, <2>12 DEF AgentStep
  <2>. QED BY <2>2, <2>13 DEF SaveWrites, Results
<1>. QED BY <1>1, Invariance, PTL DEF Spec, ReportedSuccessIsStored

-----------------------------------------------------------------------------
(* The keys of RSA agents.                                                 *)

\* Nobody else has the key pair in the handle of a.
Unshared(a) ==
    /\ mem[a].key # Null /\ storage.key # mem[a].key
    /\ \A b \in Agents \ {a} : mem[b].key # mem[a].key

\* Agent a is yet to be onboarded, or has asked for a registration.
IsRegistering(a) ==
    /\ pc[a] \notin {"down", "aborted"}
    /\ ~IsOnboarded(a) \/ (pc[a] = "sent" /\ call[a] # "token")

\* Whoever has the same key pair, another agent or the storage, has the same registration
\* token: a key pair is passed on with the token alone, and is new when it is registered.
KeysAreOwned ==
    Rsa =>
        /\ storage.key <= keys
        /\ storage # NoCredentials => storage.key # Null
        /\ \A a \in Agents :
              /\ mem[a].key <= keys
              /\ mem[a].key # Null /\ mem[a].key = storage.key => mem[a].rat = storage.rat
              /\ \A b \in Agents : mem[a].key # Null /\ mem[a].key = mem[b].key => mem[a].rat = mem[b].rat
              /\ IsRegistering(a) => Unshared(a)
              /\ pc[a] \in {"saving", "writing"} => mem[a].key # Null

\* A step that changes neither handles nor the storage.
LEMMA KeysKept ==
    ASSUME KeysAreOwned, NEW a \in Agents, UNCHANGED <<mem, storage, keys>>,
           \A b \in Agents \ {a} : pc'[b] = pc[b] /\ call'[b] = call[b],
           IsRegistering(a)' => IsRegistering(a),
           pc'[a] \in {"saving", "writing"} => pc[a] \in {"saving", "writing"}
    PROVE  KeysAreOwned'
BY DEF KeysAreOwned, IsRegistering, Unshared, IsOnboarded

\* An agent loses its key pair, makes a new one, takes over the one that is stored, or
\* gets the answer to its registration.
LEMMA KeyChanged ==
    ASSUME TypeOK, KeysAreOwned, NEW a \in Agents, storage' = storage, keys' \in Nat, keys <= keys',
           mem' \in [Agents -> Credentials], \A b \in Agents \ {a} : SameRow(b),
           pc'[a] \in {"saving", "writing"} => mem'[a].key # Null,
           \/ mem'[a].key = Null /\ ~IsRegistering(a)'
           \/ mem'[a].key = keys + 1 /\ keys' = keys + 1
           \/ mem'[a].key = storage.key /\ mem'[a].rat = storage.rat /\ ~IsRegistering(a)'
           \/ mem'[a].key = mem[a].key /\ Unshared(a)
    PROVE  KeysAreOwned'
<1> SUFFICES ASSUME Rsa
             PROVE  KeysAreOwned'
  BY DEF KeysAreOwned
<1>1. /\ storage.key \in Nat /\ keys \in Nat /\ storage.key <= keys
      /\ \A b \in Agents : mem[b].key \in Nat /\ mem[b].key <= keys /\ mem'[b].key \in Nat
      /\ \A b \in Agents \ {a} : mem'[b] = mem[b] /\ pc'[b] = pc[b] /\ call'[b] = call[b]
  BY DEF TypeOK, Credentials, KeysAreOwned, SameRow
<1>2. mem'[a].key <= keys'
  BY <1>1 DEF Null
<1>3. ASSUME NEW b \in Agents \ {a}, mem'[a].key # Null, mem'[a].key = mem[b].key
      PROVE  mem'[a].key = storage.key /\ mem'[a].rat = storage.rat /\ mem[b].rat = storage.rat
  BY <1>1, <1>3 DEF KeysAreOwned, Unshared
<1>4. mem'[a].key # Null /\ mem'[a].key = storage.key => mem'[a].rat = storage.rat
  BY <1>1 DEF KeysAreOwned, Unshared
<1>5. IsRegistering(a)' => Unshared(a)'
  BY <1>1 DEF KeysAreOwned, Unshared, Null
<1>6. ASSUME NEW b \in Agents \ {a}, IsRegistering(b)'
      PROVE  Unshared(b)'
  <2>1. Unshared(b)
    BY <1>1, <1>6 DEF IsRegistering, IsOnboarded, KeysAreOwned
  <2>2. mem'[a].key # mem[b].key
    BY <1>1, <2>1 DEF Unshared
  <2>. QED BY <1>1, <2>1, <2>2 DEF Unshared
<1>7. \A b \in Agents : mem'[b].key <= keys'
  BY <1>1, <1>2
<1>8. storage'.key <= keys' /\ (storage' # NoCredentials => storage'.key # Null)
  BY <1>1 DEF KeysAreOwned
<1>9. ASSUME NEW b \in Agents
      PROVE  /\ mem'[b].key # Null /\ mem'[b].key = storage'.key => mem'[b].rat = storage'.rat
             /\ pc'[b] \in {"saving", "writing"} => mem'[b].key # Null
             /\ IsRegistering(b)' => Unshared(b)'
  BY <1>1, <1>4, <1>5, <1>6 DEF KeysAreOwned
<1>10. ASSUME NEW b \in Agents, NEW c \in Agents, mem'[b].key # Null, mem'[b].key = mem'[c].key
       PROVE  mem'[b].rat = mem'[c].rat
  BY <1>1, <1>3, <1>10 DEF KeysAreOwned
<1>. QED BY <1>7, <1>8, <1>9, <1>10 DEF KeysAreOwned

\* A process ends.
LEMMA KeysGone ==
    ASSUME TypeOK, TypeOK', KeysAreOwned, NEW a \in Agents, NEW where \in {"down", "aborted"}, Gone(a, where),
           UNCHANGED <<storage, keys>>
    PROVE  KeysAreOwned'
<1>1. mem'[a].key = Null /\ pc'[a] = where /\ \A b \in Agents \ {a} : SameRow(b)
  BY DEF Gone, TypeOK, NoCredentials, SameRow
<1>2. /\ keys' \in Nat /\ keys <= keys' /\ storage' = storage /\ mem' \in [Agents -> Credentials]
      /\ ~IsRegistering(a)' /\ pc'[a] \notin {"saving", "writing"}
  BY <1>1 DEF TypeOK, IsRegistering
<1>. QED BY <1>1, <1>2, KeyChanged

\* A rotation makes a new key pair before it asks for it to be registered, or loses the old one.
LEMMA KeysRotated ==
    ASSUME TypeOK, TypeOK', KeysAreOwned, NEW a \in Agents, RotateKey(a), Rsa
    PROVE  KeysAreOwned'
<1>1. /\ pc[a] = "entering" /\ UNCHANGED <<token, storage>>
      /\ pc'[a] \in {"idle", "sent"} /\ \A b \in Agents \ {a} : SameRow(b)
  BY StepFrame DEF RotateKey, CanEnter, Return, Send, TypeOK, AgentStep
<1>2. CASE ~IsOnboarded(a) /\ Return(a, "refused") /\ UNCHANGED <<mem, keys>>
  BY <1>1, <1>2, KeysKept DEF IsRegistering, IsOnboarded, SameRow, Return, TypeOK
<1>3. CASE IsOnboarded(a) /\ LoseKeyPair(a) /\ Return(a, "fail")
  <2>1. mem[a] \in Credentials
    BY DEF TypeOK
  <2>2. mem'[a] = [mem[a] EXCEPT !.key = Null] /\ pc'[a] = "idle"
    BY <1>3 DEF LoseKeyPair, Return, TypeOK
  <2>3. mem'[a].key = Null /\ mem'[a].rat = mem[a].rat
    BY <2>1, <2>2 DEF Credentials
  <2>4. ~IsRegistering(a)'
    BY <1>3, <2>2, <2>3 DEF IsRegistering, IsOnboarded
  <2>5. keys' \in Nat /\ keys <= keys' /\ storage' = storage /\ mem' \in [Agents -> Credentials]
    BY <1>1, <1>3 DEF TypeOK, LoseKeyPair
  <2>. QED BY <1>1, <2>2, <2>3, <2>4, <2>5, KeyChanged
<1>4. CASE ReplaceKeyPair(a)
  <2>1. mem[a] \in Credentials
    BY DEF TypeOK
  <2>2. mem'[a] = [mem[a] EXCEPT !.key = keys + 1] /\ keys' = keys + 1
    BY <1>4 DEF ReplaceKeyPair, TypeOK
  <2>3. mem'[a].key = keys + 1
    BY <2>1, <2>2 DEF Credentials
  <2>4. /\ keys' \in Nat /\ keys <= keys' /\ storage' = storage /\ mem' \in [Agents -> Credentials]
        /\ pc'[a] \notin {"saving", "writing"}
    BY <1>1, <2>2 DEF TypeOK
  <2>. QED BY <1>1, <2>2, <2>3, <2>4, KeyChanged
<1>. QED BY <1>2, <1>3, <1>4 DEF RotateKey

\* An update takes over the key pair and the token that are stored.
LEMMA KeysUpdated ==
    ASSUME TypeOK, TypeOK', CredentialsWhole, KeysAreOwned, NEW a \in Agents, UpdateCredentials(a)
    PROVE  KeysAreOwned'
<1>1. /\ pc[a] = "entering" /\ storage' = storage /\ keys' = keys /\ keys \in Nat
      /\ \A b \in Agents \ {a} : SameRow(b)
  BY StepFrame DEF UpdateCredentials, CanEnter, TypeOK, AgentStep
<1>2. CASE Gone(a, "aborted")
  BY <1>1, <1>2, KeysGone
<1>3. CASE mem' = mem /\ \E r : Return(a, r)
  <2>1. pc'[a] = "idle" /\ \A b \in Agents \ {a} : pc'[b] = pc[b] /\ call'[b] = call[b]
    BY <1>1, <1>3 DEF Return, SameRow, TypeOK
  <2>. QED BY <1>1, <1>3, <2>1, KeysKept DEF IsRegistering, IsOnboarded
<1>4. CASE IsOnboarded(a) /\ storage # NoCredentials /\ Return(a, "ok") /\ TakeOver(a)
  <2>1. mem[a] \in Credentials /\ storage \in Credentials
    BY DEF TypeOK
  <2>2. mem'[a] = [storage EXCEPT !.client = mem[a].client, !.uri = mem[a].uri] /\ pc'[a] = "idle"
    BY <1>4 DEF TakeOver, Return, TypeOK
  <2>3. mem'[a].key = storage.key /\ mem'[a].rat = storage.rat
    BY <2>1, <2>2 DEF Credentials
  <2>4. storage.rat # Null
    BY <1>4 DEF CredentialsWhole, Whole, Null
  <2>5. ~IsRegistering(a)'
    BY <2>2, <2>3, <2>4 DEF IsRegistering, IsOnboarded
  <2>6. keys' \in Nat /\ keys <= keys' /\ mem' \in [Agents -> Credentials] /\ pc'[a] \notin {"saving", "writing"}
    BY <1>1, <2>2 DEF TypeOK
  <2>. QED BY <1>1, <2>3, <2>5, <2>6, KeyChanged
<1>. QED BY <1>2, <1>3, <1>4 DEF UpdateCredentials

\* A handle is loaded from the storage, or has a new key pair.
LEMMA KeysInitialized ==
    ASSUME TypeOK, TypeOK', CredentialsWhole, KeysAreOwned, NEW a \in Agents, Initialize(a), Rsa
    PROVE  KeysAreOwned'
<1>1. /\ pc'[a] = "idle" /\ storage' = storage /\ keys \in Nat /\ keys' \in Nat
      /\ mem' \in [Agents -> Credentials] /\ \A b \in Agents \ {a} : SameRow(b)
  BY StepFrame DEF Initialize, TypeOK, AgentStep
<1>2. CASE storage # NoCredentials /\ mem' = [mem EXCEPT ![a] = storage] /\ UNCHANGED keys
  <2>1. mem'[a] = storage
    BY <1>2 DEF TypeOK
  <2>2. storage.rat # Null
    BY <1>2 DEF CredentialsWhole, Whole, Null
  <2>3. ~IsRegistering(a)' /\ keys <= keys'
    BY <1>1, <1>2, <2>1, <2>2 DEF IsRegistering, IsOnboarded
  <2>. QED BY <1>1, <2>1, <2>3, KeyChanged
<1>3. CASE keys' = keys + 1 /\ mem' = [mem EXCEPT ![a] = [NoCredentials EXCEPT !.key = keys + 1]]
  <2>1. mem'[a].key = keys + 1 /\ keys <= keys'
    BY <1>1, <1>3 DEF TypeOK, NoCredentials
  <2>. QED BY <1>1, <1>3, <2>1, KeyChanged
<1>. QED BY <1>2, <1>3 DEF Initialize, LoadInitialCredentials

\* The answer is for the key pair of the handle, which nobody else has yet.
LEMMA KeysRegistered ==
    ASSUME TypeOK, TypeOK', KeysAreOwned, NEW a \in Agents, ProcessRegistrationResponse(a), Rsa
    PROVE  KeysAreOwned'
<1>1. /\ storage' = storage /\ keys' = keys /\ keys \in Nat /\ pc[a] = "sent" /\ call[a] # "token"
      /\ \A b \in Agents \ {a} : SameRow(b) /\ mem' \in [Agents -> Credentials]
  BY StepFrame DEF ProcessRegistrationResponse, TypeOK, AgentStep
<1>2. Unshared(a) /\ mem[a].key # Null
  BY <1>1 DEF KeysAreOwned, IsRegistering, Unshared
<1>3. mem'[a].key = mem[a].key
  BY DEF ProcessRegistrationResponse, TypeOK
<1>4. keys' \in Nat /\ keys <= keys' /\ mem' \in [Agents -> Credentials]
  BY <1>1 DEF TypeOK
<1>. QED BY <1>1, <1>2, <1>3, <1>4, KeyChanged

\* The storage gets the key pair of a handle together with its token.
LEMMA KeysSaved ==
    ASSUME TypeOK, Fits, KeysAreOwned, NEW a \in Agents, SaveOpens(a) \/ SaveWrites(a)
    PROVE  KeysAreOwned'
<1>1. /\ mem' = mem /\ keys' = keys /\ pc[a] \in {"saving", "writing"}
      /\ pc'[a] \in {"writing", "idle"} /\ call'[a] \in {call[a], "none"}
      /\ \A b \in Agents \ {a} : pc'[b] = pc[b] /\ call'[b] = call[b]
      /\ storage' \in {storage, NoCredentials, mem[a]}
  BY DEF SaveOpens, SaveWrites, Return, TypeOK
<1>2. \A b \in Agents : IsRegistering(b)' => IsRegistering(b)
  BY <1>1 DEF IsRegistering, IsOnboarded
<1>3. NoCredentials.key = Null /\ keys \in Nat
  BY DEF NoCredentials, TypeOK
<1> SUFFICES ASSUME Rsa
             PROVE  KeysAreOwned'
  BY DEF KeysAreOwned
<1>4. mem[a].key # Null
  BY <1>1 DEF KeysAreOwned
<1>5. /\ storage'.key <= keys'
      /\ storage' # NoCredentials => storage'.key # Null
      /\ \A b \in Agents : mem[b].key # Null /\ mem[b].key = storage'.key => mem[b].rat = storage'.rat
  BY <1>1, <1>3, <1>4 DEF KeysAreOwned, Null
<1>6. ~IsRegistering(a)'
  BY <1>1 DEF Fits, HandleFits, IsRegistering, IsOnboarded
<1>7. ASSUME NEW b \in Agents, IsRegistering(b)'
      PROVE  Unshared(b)'
  <2>1. Unshared(b) /\ mem[b].key # Null
    BY <1>2, <1>7 DEF KeysAreOwned, Unshared
  <2>2. b # a
    BY <1>6, <1>7
  <2>. QED BY <1>1, <1>3, <2>1, <2>2 DEF Unshared
<1>8. \A b \in Agents : pc'[b] \in {"saving", "writing"} => mem[b].key # Null
  BY <1>1, <1>4 DEF KeysAreOwned
<1>. QED BY <1>1, <1>5, <1>7, <1>8 DEF KeysAreOwned

\* Every step keeps it.
LEMMA KeysStep ==
    ASSUME IInv, IInv', KeysAreOwned, [Next]_vars
    PROVE  KeysAreOwned'
<1> SUFFICES ASSUME Rsa
             PROVE  KeysAreOwned'
  BY DEF KeysAreOwned
<1>0. TypeOK /\ TypeOK' /\ CredentialsWhole
  BY DEF IInv
<1>1. ASSUME NEW a \in Agents, AgentStep(a)
      PROVE  KeysAreOwned'
  <2>1. \A b \in Agents \ {a} : pc'[b] = pc[b] /\ call'[b] = call[b]
    BY <1>0, <1>1, StepFrame DEF SameRow
  <2>2. CASE Initialize(a)
    BY <1>0, <2>2, KeysInitialized
  <2>3. CASE Destroy(a) \/ Crash(a)
    BY <1>0, <2>3, KeysGone DEF Destroy, Crash
  <2>4. CASE RotateKey(a)
    BY <1>0, <2>4, KeysRotated
  <2>5. CASE UpdateCredentials(a)
    BY <1>0, <2>5, KeysUpdated
  <2>6. CASE ProcessRegistrationResponse(a)
    BY <1>0, <2>6, KeysRegistered
  <2>7. CASE SaveOpens(a) \/ SaveWrites(a)
    BY <1>0, <2>7, KeysSaved DEF IInv
  <2>8. CASE GetAccessToken(a) /\ Gone(a, "aborted")
    BY <1>0, <2>8, KeysGone DEF GetAccessToken
  <2>9. ASSUME UNCHANGED <<mem, storage, keys>>, pc[a] \notin {"down", "aborted"},
               pc'[a] \notin {"saving", "writing"},
               pc'[a] = "sent" /\ call'[a] # "token" => ~IsOnboarded(a)
        PROVE  KeysAreOwned'
    <3>1. IsRegistering(a)' => IsRegistering(a)
      BY <2>9 DEF IsRegistering, IsOnboarded
    <3>. QED BY <2>1, <2>9, <3>1, KeysKept
  <2>10. ASSUME UNCHANGED <<mem, storage, keys>>, pc[a] \notin {"down", "aborted"},
                \E r : Return(a, r)
         PROVE  KeysAreOwned'
    <3>1. pc'[a] = "idle"
      BY <1>0, <2>10 DEF Return, TypeOK
    <3>. QED BY <2>9, <2>10, <3>1
  <2>11. CASE \E c \in Calls : Begin(a, c)
    <3>1. UNCHANGED <<mem, storage, keys>> /\ pc[a] = "idle" /\ pc'[a] = "entering"
      BY <1>0, <2>11 DEF Begin, TypeOK
    <3>. QED BY <2>9, <3>1
  <2>12. CASE EnterFails(a) \/ SendFails(a) \/ RejectResponse(a) \/ SaveFails(a) \/ TokenRequestFails(a)
    BY <2>10, <2>12 DEF EnterFails, SendFails, RejectResponse, SaveFails, TokenRequestFails
  <2>13. CASE \E header, parsed \in BOOLEAN : ReceiveToken(a, header, parsed)
    BY <2>10, <2>13 DEF ReceiveToken
  <2>14. CASE Onboard(a)
    <3>1. UNCHANGED <<mem, storage, keys>> /\ pc[a] = "entering"
          /\ ((\E r : Return(a, r)) \/ (~IsOnboarded(a) /\ Send(a, "onboard")))
      BY <2>14 DEF Onboard, CanEnter
    <3>2. CASE ~IsOnboarded(a) /\ Send(a, "onboard")
      BY <1>0, <2>9, <3>1, <3>2 DEF Send, TypeOK
    <3>. QED BY <2>10, <3>1, <3>2
  <2>15. CASE GetAccessToken(a) /\ ~Gone(a, "aborted")
    <3>1. UNCHANGED <<mem, storage, keys>> /\ pc[a] = "idle"
          /\ ((\E r : Return(a, r)) \/ Send(a, "token"))
      BY <2>15 DEF GetAccessToken
    <3>2. CASE Send(a, "token")
      BY <1>0, <2>9, <3>1, <3>2 DEF Send, TypeOK
    <3>. QED BY <2>10, <3>1, <3>2
  <2>. QED
    BY <1>1, <2>2, <2>3, <2>4, <2>5, <2>6, <2>7, <2>8, <2>11, <2>12, <2>13, <2>14, <2>15 DEF AgentStep
<1>2. CASE UNCHANGED <<pc, call, mem, storage, keys>>
  BY <1>2 DEF KeysAreOwned, IsRegistering, Unshared, IsOnboarded
<1>. QED
  BY <1>1, <1>2 DEF Next, vars, ServiceStep, ServiceRegisters, ServiceRegistersLate, ServiceAuthenticates, local

\* An agent need not compare registration tokens when it looks for newer credentials: the
\* key pair of an RSA agent tells (_check_rsa_private_key, core_processor_update_credentials).
THEOREM KeysTellTokens == Spec => []EqualKeysMeanEqualTokens
<1>1. Init => KeysAreOwned
  BY DEF Init, KeysAreOwned, IsRegistering, NoCredentials, Null
<1>2. IInv /\ IInv' /\ KeysAreOwned /\ [Next]_vars => KeysAreOwned'
  BY KeysStep
<1>3. KeysAreOwned => EqualKeysMeanEqualTokens
  BY DEF KeysAreOwned, EqualKeysMeanEqualTokens
<1>. QED BY <1>1, <1>2, <1>3, Invariance, PTL DEF Spec

-----------------------------------------------------------------------------
(* AgentCredentials implements CredentialSync: what is left of the calls     *)
(* when the network, the critical section and the access tokens are          *)
(* forgotten.                                                                *)

\* The handles of all agents, as CredentialSync sees them.
AllHeld == [a \in Agents |-> Held(a)]

LEMMA HeldChanges ==
    ASSUME NEW a \in Agents, \A b \in Agents \ {a} : mem'[b] = mem[b]
    PROVE  AllHeld' = [AllHeld EXCEPT ![a] = Held(a)']
BY DEF AllHeld, Held

LEMMA HeldStays ==
    ASSUME \A b \in Agents : Held(b)' = Held(b)
    PROVE  AllHeld' = AllHeld
BY DEF AllHeld

\* A handle that is not onboarded is empty for CredentialSync.
LEMMA HeldNothing ==
    ASSUME TypeOK, CredentialsWhole, NEW a \in Agents
    PROVE  /\ ~IsOnboarded(a) => Held(a) = Sync!Nothing
           /\ IsOnboarded(a) => Held(a) # Sync!Nothing
           /\ Sync!NothingStored = NoCredentials
BY DEF Held, CredentialsWhole, IsOnboarded, NoCredentials, Null, Sync!Nothing,
       Sync!NothingStored

\* What a handle or the storage holds is the registration of its number.
LEMMA HeldRegistration ==
    ASSUME TypeOK, CredentialsWhole
    PROVE  /\ \A a \in Agents : IsOnboarded(a) => /\ mem[a].rat \in 1 .. Len(grants)
                                                  /\ Held(a) = Sync!Registration(mem[a].rat)
           /\ storage # NoCredentials =>
                 /\ storage.rat \in 1 .. Len(grants)
                 /\ storage = Sync!StoredRegistration(storage.rat)
                 /\ Sync!WithoutKey(storage) = Sync!Registration(storage.rat)
<1>1. ASSUME NEW a \in Agents, IsOnboarded(a)
      PROVE  /\ mem[a].rat \in 1 .. Len(grants)
             /\ Held(a) = Sync!Registration(mem[a].rat)
  BY <1>1 DEF CredentialsWhole, Whole, Held, Sync!Registration, Null
<1>2. ASSUME storage # NoCredentials
      PROVE  /\ storage.rat \in 1 .. Len(grants)
             /\ storage = Sync!StoredRegistration(storage.rat)
             /\ Sync!WithoutKey(storage) = Sync!Registration(storage.rat)
  <2>1. Whole(storage) /\ storage.key = grants[storage.rat].key
    BY <1>2 DEF CredentialsWhole
  <2>2. storage = [client |-> storage.client, secret |-> storage.secret,
                   rat |-> storage.rat, uri |-> storage.uri, key |-> storage.key]
    BY DEF TypeOK, Credentials
  <2>. QED BY <2>1, <2>2 DEF Whole, Sync!StoredRegistration, Sync!Registration,
                             Sync!WithoutKey, Null
<1>. QED BY <1>1, <1>2

\* A step that only changes handles, by its shape.
LEMMA HandleImplements ==
    ASSUME TypeOK, Fits, CredentialsWhole, CredentialsWhole', TypeOK',
           NEW a \in Agents, AgentStep(a), storage' = storage
    PROVE  [Sync!Next]_(Sync!vars)
<1>1. grants' = grants /\ \A b \in Agents \ {a} : mem'[b] = mem[b]
  BY StepFrame DEF SameRow
<1>2. Handle(a)
  BY StepShape
<1>3. AllHeld' = [AllHeld EXCEPT ![a] = Held(a)']
  BY <1>1, HeldChanges
<1>4. ASSUME Held(a)' = Held(a) PROVE [Sync!Next]_(Sync!vars)
  <2>1. AllHeld' = AllHeld
    BY <1>1, <1>4, HeldStays DEF Held
  <2>. QED BY <1>1, <2>1 DEF Sync!vars, AllHeld
<1>5. CASE mem'[a] = NoCredentials
  <2>1. Held(a)' = Sync!Nothing
    BY <1>5 DEF Held, NoCredentials, Sync!Nothing, Null
  <2>2. Sync!Drop(a)
    BY <1>1, <1>3, <2>1 DEF Sync!Drop, AllHeld
  <2>. QED BY <2>2 DEF Sync!Next
<1>6. ASSUME storage # NoCredentials, mem'[a].client = storage.client,
             mem'[a].secret = storage.secret, mem'[a].rat = storage.rat,
             mem'[a].uri = storage.uri,
             Held(a) = Sync!Nothing \/ mem[a].client = storage.client
      PROVE  [Sync!Next]_(Sync!vars)
  <2>1. Held(a)' = Sync!WithoutKey(storage)
    BY <1>6 DEF Held, Sync!WithoutKey
  <2>2. Sync!MayTake(a, storage.client)
    BY <1>6 DEF Sync!MayTake, Held
  <2>3. Sync!Load(a)
    BY <1>1, <1>3, <1>6, <2>1, <2>2, HeldNothing DEF Sync!Load, AllHeld
  <2>. QED BY <2>3 DEF Sync!Next
<1>7. CASE mem'[a] = mem[a] \/ \E k \in Nat : mem'[a] = [mem[a] EXCEPT !.key = k]
  <2>1. mem[a] \in Credentials
    BY DEF TypeOK
  <2>2. ASSUME NEW k \in Nat, mem'[a] = [mem[a] EXCEPT !.key = k]
        PROVE  Held(a)' = Held(a)
    <3>1. /\ mem'[a].client = mem[a].client /\ mem'[a].secret = mem[a].secret
          /\ mem'[a].rat = mem[a].rat /\ mem'[a].uri = mem[a].uri
      BY <2>1, <2>2 DEF Credentials
    <3>. QED BY <3>1 DEF Held
  <2>3. CASE mem'[a] = mem[a]
    BY <1>4, <2>3 DEF Held
  <2>. QED BY <1>4, <1>7, <2>2, <2>3
<1>8. CASE pc[a] \in {"down", "aborted"}
  <2>1. mem[a] = NoCredentials /\ Held(a) = Sync!Nothing
    BY <1>8, HeldNothing DEF Fits, HandleFits, IsOnboarded, NoCredentials
  <2>2. CASE storage # NoCredentials /\ mem'[a] = storage
    BY <1>6, <2>1, <2>2
  <2>3. CASE \E k \in Nat : mem'[a] = [NoCredentials EXCEPT !.key = k]
    BY <1>7, <2>1, <2>3
  <2>4. ~ProcessRegistrationResponse(a)
    BY <1>8 DEF ProcessRegistrationResponse
  <2>. QED BY <1>2, <1>5, <1>7, <1>8, <2>2, <2>3, <2>4 DEF Handle
<1>9. CASE /\ IsOnboarded(a) /\ storage # NoCredentials
           /\ storage.client = mem[a].client
           /\ mem'[a] = [storage EXCEPT !.client = mem[a].client,
                                        !.uri = mem[a].uri]
  <2>1. mem[a].uri = mem[a].client /\ storage.uri = storage.client
    BY <1>9 DEF CredentialsWhole, Whole
  <2>. QED BY <1>6, <1>9, <2>1 DEF TypeOK, Credentials
<1>10. CASE ProcessRegistrationResponse(a)
  <2> DEFINE g == reply[a].grant
  <2>1. /\ g \in 1 .. Len(grants) /\ g > mem[a].rat
        /\ IsOnboarded(a) => grants[g].client = mem[a].client
    BY <1>10 DEF ProcessRegistrationResponse, IsSuccess, Fits, AnswerFits
  <2>2. /\ mem'[a].client = grants[g].client /\ mem'[a].rat = g
        /\ mem'[a].uri = grants[g].client
        /\ mem'[a].secret = IF Rsa THEN 0 ELSE g
    BY <1>10 DEF ProcessRegistrationResponse, TypeOK, Null
  <2>3. Held(a)' = Sync!Registration(g)
    BY <2>2 DEF Held, Sync!Registration
  <2>4. Sync!MayTake(a, grants[g].client)
    BY <2>1, HeldNothing DEF Sync!MayTake, Held
  <2>5. Sync!Take(a)
    BY <1>1, <1>3, <2>1, <2>3, <2>4 DEF Sync!Take, AllHeld, Held
  <2>. QED BY <2>5 DEF Sync!Next
<1>. QED
  BY <1>2, <1>5, <1>7, <1>8, <1>9, <1>10 DEF Handle

\* Every step is a step of CredentialSync or changes nothing it sees.
LEMMA StepImplements ==
    ASSUME IInv, IInv', [Next]_vars
    PROVE  [Sync!Next]_(Sync!vars)
<1>1. GrantsKept
  BY FitsStep DEF IInv
<1>2. ASSUME mem' = mem, storage' = storage, NEW r \in Request, Grant(r)
      PROVE  [Sync!Next]_(Sync!vars)
  <2>1. Sync!Issue
    BY <1>1, <1>2, GrantKeeps DEF IInv, GrantsKept, Sync!Issue, Held
  <2>. QED BY <2>1 DEF Sync!Next
<1>3. ASSUME mem' = mem, storage' = storage, grants' = grants
      PROVE  [Sync!Next]_(Sync!vars)
  BY <1>3 DEF Sync!vars, Held
<1>4. ASSUME NEW a \in Agents, AgentStep(a), storage' = storage
      PROVE  [Sync!Next]_(Sync!vars)
  BY <1>4, HandleImplements DEF IInv
<1>5. ASSUME NEW a \in Agents, SaveOpens(a) PROVE [Sync!Next]_(Sync!vars)
  <2>1. Sync!Erase
    BY <1>5, HeldNothing DEF SaveOpens, service, IInv, Sync!Erase, Held
  <2>. QED BY <2>1 DEF Sync!Next
<1>6. ASSUME NEW a \in Agents, SaveWrites(a), storage' = mem[a]
      PROVE  [Sync!Next]_(Sync!vars)
  <2>1. /\ IsOnboarded(a) /\ mem[a].key = grants[mem[a].rat].key
        /\ mem' = mem /\ grants' = grants
    BY <1>6 DEF SaveWrites, service, IInv, Fits, HandleFits
  <2>2. storage' = Sync!StoredRegistration(mem[a].rat)
    <3>1. mem[a] = [client |-> mem[a].client, secret |-> mem[a].secret,
                    rat |-> mem[a].rat, uri |-> mem[a].uri, key |-> mem[a].key]
      BY DEF IInv, TypeOK, Credentials
    <3>2. Whole(mem[a])
      BY <2>1 DEF IInv, CredentialsWhole
    <3>. QED BY <1>6, <2>1, <3>1, <3>2 DEF Whole, Sync!StoredRegistration, Null
  <2>3. Held(a) # Sync!Nothing
    BY <2>1, HeldNothing DEF IInv
  <2>4. Sync!Store(a)
    BY <2>1, <2>2, <2>3 DEF Sync!Store, Held
  <2>. QED BY <2>4 DEF Sync!Next
<1>7. ASSUME NEW a \in Agents, ServiceRegisters(a) PROVE [Sync!Next]_(Sync!vars)
  <2>1. mem' = mem /\ storage' = storage
    BY <1>7 DEF ServiceRegisters
  <2>. QED BY <1>2, <1>3, <1>7, <2>1, RequestType DEF ServiceRegisters, service, IInv
<1>8. ASSUME NEW r \in late, ServiceRegistersLate(r) PROVE [Sync!Next]_(Sync!vars)
  <2>1. mem' = mem /\ storage' = storage /\ r \in Request
    BY <1>8 DEF ServiceRegistersLate, local, IInv, TypeOK
  <2>. QED BY <1>2, <1>3, <1>8, <2>1 DEF ServiceRegistersLate, service
<1>9. ASSUME NEW a \in Agents, ServiceAuthenticates(a) PROVE [Sync!Next]_(Sync!vars)
  BY <1>3, <1>9 DEF ServiceAuthenticates, service
<1>10. CASE UNCHANGED vars
  BY <1>3, <1>10 DEF vars
<1>11. ASSUME NEW a \in Agents, AgentStep(a) PROVE [Sync!Next]_(Sync!vars)
  BY <1>4, <1>5, <1>6, <1>11, StorageSteps DEF IInv, Next, SaveOpens, SaveWrites
<1>. QED BY <1>7, <1>8, <1>9, <1>10, <1>11 DEF Next, ServiceStep

\* The calls of mcl_core.h, in any interleaving with other processes and the
\* service, do nothing to handles and storage but what CredentialSync says.
THEOREM Implements == Spec => RefinesSync
<1>1. Init => Sync!Init
  BY DEF Init, NoCredentials, Null, Sync!Init, Sync!Nothing, Sync!NothingStored,
         Held
<1>2. IInv /\ IInv' /\ [Next]_vars => [Sync!Next]_(Sync!vars)
  BY StepImplements
<1>. QED BY <1>1, <1>2, Invariance, PTL DEF Spec, RefinesSync, Sync!Spec
=============================================================================
