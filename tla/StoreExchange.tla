---------------------------- MODULE StoreExchange ----------------------------
(***************************************************************************)
(* Uploading a store: mcl_connectivity/src/store.c, the store part of      *)
(* connectivity_processor.c and mcl_connectivity_exchange.                 *)
(*                                                                         *)
(* One call uploads the store in rounds, each with one HTTP request that   *)
(* carries as many items as fit in max_http_payload_size.  A round selects *)
(* items by their size, adds them to the body one by one, any of which may *)
(* fail, sends the body, and removes from the store what was added.        *)
(*                                                                         *)
(* Items are the ids store.c gives them.  They are appended with growing   *)
(* ids, so the list is the set of ids in it, in order.  The loops over the *)
(* list are cut at every item.                                             *)
(***************************************************************************)
EXTENDS Naturals

CONSTANTS
    Items,     \* ids of the items the application adds to a store
    Files,     \* those that are files
    Sizes,     \* sizes of an item within a multipart body
    Overhead,  \* multipart_get_overhead_size
    MaxSize    \* max_http_payload_size

ASSUME SizeAssumption ==
    /\ Items \subseteq Nat \ {0}
    /\ Files \subseteq Items
    /\ Sizes \subseteq Nat \ {0}
    /\ Overhead \in Nat \ {0}
    /\ MaxSize \in Nat

VARIABLES
    lastItemId, \* last_item_id of the store
    listed,    \* ids in item_list
    status,    \* status of every item
    size,      \* the size of the item as it is now
    itemSize,  \* the size in its store_item_t
    pc,        \* where the exchange is
    cursor,    \* the item the loop over the list has reached
    body,      \* items written to the body
    buffer,    \* bytes allocated for the body
    remaining, \* bytes left in the loop of pc
    answer,    \* answer of the service on its way
    ret,       \* result of the last exchange
    delivered, \* history: items the service has taken
    now,       \* history: items it has taken during this exchange
    damaged    \* history: files read only in part into the body

store == <<lastItemId, listed, size>>
history == <<delivered, now, damaged>>
vars == <<lastItemId, listed, status, size, itemSize, pc, cursor, body, buffer,
          remaining, answer, ret, delivered, now, damaged>>

Statuses == {"ready", "selected", "processed", "ignored"}

Results == {"none", "ok", "no_token", "empty", "too_large", "fail"}

TypeOK ==
    /\ lastItemId \in Nat
    /\ listed \in SUBSET Items
    /\ status \in [Items -> Statuses]
    /\ size \in [Items -> Nat]
    /\ itemSize \in [Items -> Nat]
    /\ pc \in {"idle", "select", "fill", "sent"}
    /\ cursor \in Nat
    /\ body \in SUBSET Items
    /\ buffer \in Nat
    /\ remaining \in Nat
    /\ answer \in {"none", "ok", "error"}
    /\ ret \in Results
    /\ delivered \in SUBSET Items
    /\ now \in SUBSET Items
    /\ damaged \in SUBSET Items

Init ==
    /\ lastItemId = 0
    /\ listed = {}
    /\ status = [i \in Items |-> "ready"]
    /\ size = [i \in Items |-> 0]
    /\ itemSize = [i \in Items |-> 0]
    /\ pc = "idle"
    /\ cursor = 0
    /\ body = {}
    /\ buffer = 0
    /\ remaining = 0
    /\ answer = "none"
    /\ ret = "none"
    /\ delivered = {}
    /\ now = {}
    /\ damaged = {}

-----------------------------------------------------------------------------
(* Helpers.                                                                *)

With(s) == {i \in listed : status[i] = s}

TooLarge(i) == MaxSize < Overhead + itemSize[i]

\* mcl_list_next: i is the next item of S, or there is none.
IsNext(i, S) == i \in S /\ i > cursor /\ \A j \in S : j > cursor => i <= j

AtEnd(S) == \A i \in S : i <= cursor

\* Variant: the call ends without the revert.
FinishAsIs(result) ==
    /\ pc' = "idle"
    /\ ret' = result
    /\ cursor' = 0
    /\ body' = {}
    /\ buffer' = 0
    /\ remaining' = 0
    /\ answer' = "none"
    /\ UNCHANGED status

\* The call ends; _revert_store_item_status is on every path that leaves items.
Finish(result) ==
    /\ pc' = "idle"
    /\ ret' = result
    /\ status' = [i \in Items |-> "ready"]
    /\ cursor' = 0
    /\ body' = {}
    /\ buffer' = 0
    /\ remaining' = 0
    /\ answer' = "none"

\* Another round begins; the boundary may fail to be generated.
BeginRound ==
    /\ pc' = "select"
    /\ cursor' = 0
    /\ body' = {}
    /\ buffer' = 0
    /\ remaining' = MaxSize - Overhead
    /\ answer' = "none"

-----------------------------------------------------------------------------
(* The store: mcl_store_add, mcl_store_destroy.                            *)

\* An item that passed its validation is appended.  item_size of the new
\* store_item_t is whatever the memory holds.
AddToStore(i, s, garbage) ==
    /\ pc = "idle"
    /\ i = lastItemId + 1
    /\ lastItemId' = i
    /\ listed' = listed \cup {i}
    /\ status' = [status EXCEPT ![i] = "ready"]
    /\ size' = [size EXCEPT ![i] = s]
    /\ itemSize' = [itemSize EXCEPT ![i] = garbage]
    /\ UNCHANGED <<pc, cursor, body, buffer, remaining, answer, ret, history>>

\* The application still has the items it added: it may set more values.
ChangeItem(i, s) ==
    /\ pc = "idle"
    /\ i \in listed
    /\ size' = [size EXCEPT ![i] = s]
    /\ UNCHANGED <<lastItemId, listed, status, itemSize, pc, cursor, body, buffer,
                   remaining, answer, ret, history>>

\* Destroyed with its items, and initialized again.
DestroyStore ==
    /\ pc = "idle"
    /\ lastItemId # 0
    /\ lastItemId' = 0
    /\ listed' = {}
    /\ status' = [i \in Items |-> "ready"]
    /\ size' = [i \in Items |-> 0]
    /\ itemSize' = [i \in Items |-> 0]
    /\ ret' = "none"
    /\ delivered' = {}
    /\ now' = {}
    /\ damaged' = {}
    /\ UNCHANGED <<pc, cursor, body, buffer, remaining, answer>>

-----------------------------------------------------------------------------
(* mcl_connectivity_exchange and the start of connectivity_processor_exchange. *)

\* mcl_core_get_last_access_token has none: the store is not looked at.
NoToken ==
    /\ pc = "idle"
    /\ ret' = "no_token"
    /\ UNCHANGED <<lastItemId, listed, status, size, itemSize, pc, cursor, body, buffer,
                   remaining, answer, history>>

\* _check_store_size: sizes are taken anew, items that can never fit are marked.
Exchange ==
    /\ pc = "idle"
    /\ now' = {}
    /\ damaged' = damaged \ listed
    /\ itemSize' = [i \in Items |-> IF i \in listed THEN size[i] ELSE itemSize[i]]
    /\ IF listed = {} THEN Finish("empty")
       ELSE IF \A i \in listed : TooLarge(i)' THEN Finish("too_large")
       ELSE \/ Finish("fail")
            \/ /\ BeginRound
               /\ status' = [i \in Items |-> IF i \in listed /\ TooLarge(i)'
                                             THEN "ignored" ELSE status[i]]
               /\ ret' = "none"
    /\ UNCHANGED <<store, delivered>>

-----------------------------------------------------------------------------
(* A round.                                                                *)

\* What is left of the limit suffices for the item.
FitsInRequest(i) == remaining >= itemSize[i]

\* _select_store_items_to_exchange looks at the size and not at the status.
SelectItem ==
    /\ pc = "select"
    /\ \E i \in listed :
          /\ IsNext(i, listed)
          /\ cursor' = i
          /\ IF FitsInRequest(i)
             THEN /\ status' = [status EXCEPT ![i] = "selected"]
                  /\ remaining' = remaining - itemSize[i]
             ELSE UNCHANGED <<status, remaining>>
    /\ UNCHANGED <<store, itemSize, pc, body, buffer, answer, ret, history>>

\* Variant: the overhead is added a second time.
BufferBesideOverhead == MaxSize - remaining + Overhead

\* The size needed for the overhead and the selected items.
NeededBufferSize == MaxSize - remaining

\* The body is allocated; the memory may not suffice.
AllocateBody ==
    /\ pc = "select"
    /\ AtEnd(listed)
    /\ \/ Finish("fail")
       \/ /\ pc' = "fill"
          /\ cursor' = 0
          /\ buffer' = NeededBufferSize
          /\ remaining' = NeededBufferSize
          /\ UNCHANGED <<status, body, answer, ret>>
    /\ UNCHANGED <<store, itemSize, history>>

\* _add_item_to_buffer.  What is written need not have the size that was
\* measured: a file is read to its end, and strings are escaped.  A read error
\* ends a file early and goes unnoticed.
AddItem(written, short) ==
    /\ pc = "fill"
    /\ \E i \in With("selected") :
          /\ IsNext(i, With("selected"))
          /\ cursor' = i
          /\ \/ /\ written <= remaining
                /\ short => i \in Files
                /\ remaining' = remaining - written
                /\ body' = body \cup {i}
                /\ status' = [status EXCEPT ![i] = "processed"]
                /\ damaged' = IF short THEN damaged \cup {i} ELSE damaged
             \/ UNCHANGED <<remaining, body, status, damaged>>
    /\ UNCHANGED <<store, itemSize, pc, buffer, answer, ret, delivered, now>>

\* Variant: a body without items is closed and sent as well.
CanCloseEmpty == remaining >= Overhead

\* multipart_close needs an item in the body, and its own room.
CanClose == buffer # remaining /\ remaining >= Overhead

\* The rest of the composition of the request may fail as well.
SendBody ==
    /\ pc = "fill"
    /\ AtEnd(With("selected"))
    /\ \/ Finish("fail")
       \/ /\ CanClose
          /\ pc' = "sent"
          /\ remaining' = remaining - Overhead
          /\ UNCHANGED <<status, cursor, body, buffer, answer, ret>>
    /\ UNCHANGED <<store, itemSize, history>>

\* The network fails or the time is over, before or after the service took
\* the items.
SendFails ==
    /\ pc = "sent"
    /\ Finish("fail")
    /\ \/ UNCHANGED <<delivered, now>>
       \/ /\ answer = "none"
          /\ delivered' = delivered \cup body
          /\ now' = now \cup body
    /\ UNCHANGED <<store, itemSize, damaged>>

\* A status other than 200.
RejectResponse ==
    /\ pc = "sent"
    /\ answer = "error"
    /\ Finish("fail")
    /\ UNCHANGED <<store, itemSize, history>>

\* Variant: nothing is removed.
NoneUploaded == {}

\* _remove_uploaded_store_items: what was added is removed, what was selected
\* and could not be added has another chance.
Uploaded == With("processed")

\* Variant: items that could not be added are forgotten.
FullyUnlessSelected == listed = listed \ With("ready")

\* Only items too large are left of what was there.
FullyProcessed == listed = With("processed") \cup With("ignored")

ScanStore ==
    /\ pc = "sent"
    /\ answer = "ok"
    /\ listed' = listed \ Uploaded
    /\ IF FullyProcessed
       THEN Finish(IF listed' = {} THEN "ok" ELSE "too_large")
       ELSE \/ Finish("fail")
            \/ /\ BeginRound
               /\ status' = [i \in Items |-> IF status[i] = "ignored"
                                             THEN "ignored" ELSE "ready"]
               /\ UNCHANGED ret
    /\ UNCHANGED <<lastItemId, size, itemSize, history>>

-----------------------------------------------------------------------------
(* The service (external): it takes all items of a request, or none.       *)

ServiceTakes ==
    /\ pc = "sent"
    /\ answer = "none"
    /\ answer' = "ok"
    /\ delivered' = delivered \cup body
    /\ now' = now \cup body
    /\ UNCHANGED <<store, status, itemSize, pc, cursor, body, buffer, remaining,
                   ret, damaged>>

ServiceRejects ==
    /\ pc = "sent"
    /\ answer = "none"
    /\ answer' = "error"
    /\ UNCHANGED <<store, status, itemSize, pc, cursor, body, buffer, remaining,
                   ret, history>>

-----------------------------------------------------------------------------

Round ==
    \/ SelectItem \/ AllocateBody
    \/ \E w \in Sizes, short \in BOOLEAN : AddItem(w, short)
    \/ SendBody \/ SendFails \/ RejectResponse \/ ScanStore

Next ==
    \/ \E i \in Items, s, garbage \in Sizes : AddToStore(i, s, garbage)
    \/ \E i \in Items, s \in Sizes : ChangeItem(i, s)
    \/ DestroyStore \/ NoToken \/ Exchange
    \/ Round
    \/ ServiceTakes \/ ServiceRejects

Spec == Init /\ [][Next]_vars

\* A call runs on, and the HTTP client gives up on a request in the end.
FairSpec == Spec /\ WF_vars(Round)

-----------------------------------------------------------------------------
(* Properties.                                                             *)

\* An item leaves the store only when the service has taken it: an item that
\* was selected but not added, or added to a body that was never sent, stays.
NothingIsLost == \A i \in Items : i <= lastItemId => i \in listed \cup delivered

\* The body is within the buffer and the limit of the service, although items
\* need not have the size they were selected with.
BodyFits == pc = "sent" => buffer <= MaxSize /\ remaining < buffer

\* Rounds of one call never carry an item again that the service has already
\* taken in this call.
OncePerExchange == pc = "sent" /\ answer = "none" => body \cap now = {}

\* MCL_ITEM_EXCEEDS_MAX_HTTP_REQUEST_SIZE leaves exactly the items that do not
\* fit in any request; all others have been delivered.
RefusedAreTooLarge ==
    [][pc' = "idle" /\ ret' = "too_large" /\ ret # "too_large" =>
          listed' # {} /\ \A i \in listed' : MaxSize < Overhead + size[i]]_vars

\* Handles and service together behave as Outbox says.
Box == INSTANCE Outbox WITH pending <- listed

RefinesOutbox == Box!Spec

\* The loop of connectivity_processor_exchange ends, whatever the service and
\* the items do: every round that is followed by another one removes an item.
ExchangeReturns == pc # "idle" ~> pc = "idle"

=============================================================================
