------------------------------- MODULE Outbox -------------------------------
(***************************************************************************)
(* What mcl_connectivity_exchange promises for a store: an item stays in   *)
(* the store until the service has it.  An answer may be lost, so that the *)
(* service may be given an item again, but never for nothing: an item      *)
(* leaves only by being delivered or with its store.                       *)
(* StoreExchange implements this specification.                            *)
(***************************************************************************)
CONSTANT Items

VARIABLES
    pending,   \* items in the store
    delivered  \* items of this store the service has taken

vars == <<pending, delivered>>

Init == pending = {} /\ delivered = {}

Put(i) ==
    /\ i \notin pending \cup delivered
    /\ pending' = pending \cup {i}
    /\ UNCHANGED delivered

\* The service takes items of one request.
Deliver ==
    /\ \E batch \in SUBSET pending : delivered' = delivered \cup batch
    /\ UNCHANGED pending

\* The answer tells the store that it may forget some of them.
Forget ==
    /\ pending' \subseteq pending
    /\ pending \ pending' \subseteq delivered
    /\ UNCHANGED delivered

\* The application destroys the store and begins another.
Destroy == pending' = {} /\ delivered' = {}

Next == Deliver \/ Forget \/ Destroy \/ \E i \in Items : Put(i)

Spec == Init /\ [][Next]_vars

=============================================================================
