--------------------------- MODULE CredentialSync ---------------------------
(***************************************************************************)
(* What the credential functions of mcl_core.h promise, whatever the       *)
(* network, the storage and the other processes do: a handle and the       *)
(* storage hold nothing, or one registration of the service as a whole;    *)
(* a handle stays with its client for its lifetime and takes registrations *)
(* from the service in the order they were granted, or from the storage.   *)
(* AgentCredentials implements this specification.                         *)
(***************************************************************************)
EXTENDS Naturals, Sequences

CONSTANTS Agents, Rsa

VARIABLES
    held,    \* per agent: client id, secret, token and URI of its handle
    stored,  \* what is stored, with the RSA key pair
    issued   \* registrations of the service: client and public key

vars == <<held, stored, issued>>

Nothing == [client |-> 0, secret |-> 0, rat |-> 0, uri |-> 0]

NothingStored == [client |-> 0, secret |-> 0, rat |-> 0, uri |-> 0, key |-> 0]

\* Registration n as a handle holds it, and as the storage does.
Registration(n) ==
    [client |-> issued[n].client, secret |-> IF Rsa THEN 0 ELSE n,
     rat |-> n, uri |-> issued[n].client]

StoredRegistration(n) ==
    [client |-> issued[n].client, secret |-> IF Rsa THEN 0 ELSE n,
     rat |-> n, uri |-> issued[n].client, key |-> issued[n].key]

WithoutKey(c) ==
    [client |-> c.client, secret |-> c.secret, rat |-> c.rat, uri |-> c.uri]

\* A handle that holds credentials only ever takes others of the same client.
MayTake(a, client) == held[a] = Nothing \/ held[a].client = client

Init ==
    /\ held = [a \in Agents |-> Nothing]
    /\ stored = NothingStored
    /\ issued = <<>>

\* The service grants a registration; nobody may ever learn of it.
Issue ==
    /\ Len(issued') = Len(issued) + 1
    /\ \A n \in 1 .. Len(issued) : issued'[n] = issued[n]
    /\ UNCHANGED <<held, stored>>

\* A handle takes a registration newer than its own.
Take(a) ==
    /\ \E n \in 1 .. Len(issued) :
          /\ n > held[a].rat
          /\ MayTake(a, issued[n].client)
          /\ held' = [held EXCEPT ![a] = Registration(n)]
    /\ UNCHANGED <<stored, issued>>

\* A handle takes what is stored, which may be older than its own.
Load(a) ==
    /\ stored # NothingStored
    /\ MayTake(a, stored.client)
    /\ held' = [held EXCEPT ![a] = WithoutKey(stored)]
    /\ UNCHANGED <<stored, issued>>

\* What a handle holds is stored, with the key pair that was registered.
Store(a) ==
    /\ held[a] # Nothing
    /\ stored' = StoredRegistration(held[a].rat)
    /\ UNCHANGED <<held, issued>>

Erase ==
    /\ stored' = NothingStored
    /\ UNCHANGED <<held, issued>>

Drop(a) ==
    /\ held' = [held EXCEPT ![a] = Nothing]
    /\ UNCHANGED <<stored, issued>>

Next ==
    \/ Issue \/ Erase
    \/ \E a \in Agents : Take(a) \/ Load(a) \/ Store(a) \/ Drop(a)

Spec == Init /\ [][Next]_vars

=============================================================================
