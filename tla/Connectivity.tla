---------------------------- MODULE Connectivity ----------------------------
(***************************************************************************)
(* mcl_connectivity put together: the configuration and the handle, which   *)
(* copies pointers of the core and of the configuration; the items of the   *)
(* application and the store that takes them over; and the three calls.  An *)
(* exchange estimates a body, allocates it and writes it (multipart.c); how *)
(* the rounds of a store end is StoreExchange's subject, here a store has   *)
(* one round, in which the items of the application meet.                   *)
(***************************************************************************)
EXTENDS ItemSizes, DataSourceParser, FiniteSets

CONSTANTS Catalogue,     \* the items the application makes, by the name it has for them
          MaxPayload,    \* max_http_payload_size
          MaxEntriesOfStore, MaxSets, MaxRotations, MaxChanges   \* bounds

Names == DOMAIN Catalogue

\* The five structs.  lacks: mandatory fields that are null, their lengths are 0 then;
\* drift: what a text or a file is longer than it was sized; stale: the descriptor is closed.
AnyEvent ==
    [kind : {"event"}, version : Nat, type : Nat, eventVersion : Nat, correlationId : AnyLength,
     description : AnyLength, details : AnyLength, contentType : Nat,
     lacks : SUBSET {"type", "timestamp"}, drift : Int, stale : {FALSE}]
AnyTimeseries ==
    [kind : {"timeseries"}, configurationId : Nat, lists : Seq(Seq(AnyValue)), contentType : Nat,
     lacks : SUBSET {"configurationId", "timestamp"}, drift : Int, stale : {FALSE}]
AnyFile ==
    [kind : {"file"}, remoteName : Nat, type : AnyLength, size : Nat, contentType : Nat,
     lacks : SUBSET {"remoteName", "path"}, drift : Int, stale : BOOLEAN]
AnyCustom ==
    [kind : {"custom"}, type : Nat, version : Nat, details : AnyLength, size : Nat, contentType : Nat,
     lacks : SUBSET {"type", "contentType"}, drift : Int, stale : {FALSE}]
AnyConfiguration ==
    [kind : {"configuration"}, configurationId : Nat, sources : Seq(AnySource), contentType : Nat,
     lacks : SUBSET {"configurationId"}, drift : Int, stale : {FALSE}]
AnyItem == AnyEvent \cup AnyTimeseries \cup AnyFile \cup AnyCustom \cup AnyConfiguration

ASSUME ConnectivityAssumption ==
    /\ MaxPayload \in Nat /\ {MaxEntriesOfStore, MaxSets, MaxRotations, MaxChanges} \subseteq Nat
    /\ Nothing \notin Nat /\ Nothing \notin AnyItem

\* A file that has just been set was opened.
ASSUME CatalogueAssumption ==
    /\ Names \cap {"none", "store"} = {}
    /\ \A i \in Names : \A item \in Catalogue[i] : item \in AnyItem /\ ~item.stale

VARIABLES client,        \* the client id the core has; the ones before are freed
          configuration, \* core set or not, and its URLs (Nothing: null)
          sets,          \* how often its core has been set
          handle,        \* mcl_connectivity_t: what it has copied, or Nothing
          items,         \* the application's items; lacks: mandatory fields that are null
          changes,
          store,         \* entries: an item and its status
          careless,      \* what the application or the system has done to pointers in use
          pc, op, target,
          body,          \* buffer, space left, space left before the item, step, items to add, items in it
          answer,        \* the status of the last answer
          cause,         \* why the program has crashed
          result

appVars == <<client, configuration, sets, handle, items, changes, store, careless>>
callVars == <<pc, op, target, body, answer, cause, result>>
vars == <<appVars, callVars, parserVars>>

NoBody == [buffer |-> 0, left |-> 0, before |-> 0, step |-> 1, queue |-> <<>>, added |-> <<>>, short |-> FALSE]

Init ==
    /\ client = 1
    /\ configuration = [core |-> FALSE, url |-> Nothing] /\ sets = 0
    /\ handle = Nothing
    /\ items = [i \in Names |-> Nothing] /\ changes = 0 /\ store = <<>>
    /\ careless = {}
    /\ pc = "idle" /\ op = "none" /\ target = "none" /\ body = NoBody /\ answer = "none"
    /\ cause = "none" /\ result = "none"
    /\ ParserInit

-----------------------------------------------------------------------------
(* The configuration, the handle and the core.                             *)

Idle == pc = "idle" /\ UNCHANGED callVars /\ UNCHANGED parserVars

Careless(what, condition) == careless' = careless \cup (IF condition THEN {what} ELSE {})

\* _set_connectivity_configuration_core_parameter frees both URLs first; a core that was
\* there stays when the new one has no host name or memory is short.
SetCore ==
    /\ Idle /\ sets < MaxSets /\ sets' = sets + 1
    /\ \/ configuration' = [core |-> TRUE, url |-> sets + 1]
       \/ configuration' = [configuration EXCEPT !.url = Nothing]
    /\ Careless("url", handle # Nothing)
    /\ UNCHANGED <<client, handle, items, changes, store>>

\* mcl_connectivity_initialize
InitializeHandle ==
    /\ Idle /\ handle = Nothing /\ configuration.core
    /\ handle' = [agent |-> client, url |-> configuration.url]
    /\ careless' = careless \ {"agent", "url"}
    /\ UNCHANGED <<client, configuration, sets, items, changes, store>>

DestroyHandle ==
    /\ Idle /\ handle # Nothing
    /\ handle' = Nothing
    /\ UNCHANGED <<client, configuration, sets, items, changes, store, careless>>

\* The handle refers to the configuration: it goes first.
DestroyConfiguration ==
    /\ Idle /\ handle = Nothing /\ configuration.core
    /\ configuration' = [core |-> FALSE, url |-> Nothing]
    /\ UNCHANGED <<client, sets, handle, items, changes, store, careless>>

\* core_processor.c: a registration or a rotation replaces the client id.
Rotate ==
    /\ Idle /\ client <= MaxRotations
    /\ client' = client + 1
    /\ Careless("agent", handle # Nothing)
    /\ UNCHANGED <<configuration, sets, handle, items, changes, store>>

-----------------------------------------------------------------------------
(* Items and the store.                                                    *)

CreateItem(i) ==
    /\ Idle /\ items[i] = Nothing /\ \A e \in DOMAIN store : store[e].item # i
    /\ \E item \in Catalogue[i] : items' = [items EXCEPT ![i] = item]
    /\ UNCHANGED <<client, configuration, sets, handle, changes, store, careless>>

ItemIs(i, item) ==
    /\ items' = [items EXCEPT ![i] = item] /\ changes' = changes + 1
    /\ UNCHANGED <<client, configuration, sets, handle, store>>

\* The mandatory fields of text, the path of a file aside.
TextFields(kind) ==
    CASE kind = "event" -> {"type"}
      [] kind = "timeseries" -> {"configurationId"}
      [] kind = "configuration" -> {"configurationId"}
      [] kind = "file" -> {"remoteName"}
      [] kind = "custom" -> {"type", "contentType"}

\* mcl_string_util_reset frees what was there before it copies the new text.
SetText(i) ==
    /\ Idle /\ items[i] # Nothing /\ changes < MaxChanges
    /\ \E field \in TextFields(items[i].kind) :
          \/ ItemIs(i, [items[i] EXCEPT !.lacks = @ \ {field}, ![field] = 1])
          \/ ItemIs(i, [items[i] EXCEPT !.lacks = @ \cup {field}, ![field] = 0])   \* No memory.
    /\ UNCHANGED careless

\* mcl_event_set_parameter and mcl_timeseries_value_list_set_parameter
SetTimestamp(i) ==
    /\ Idle /\ items[i] # Nothing /\ changes < MaxChanges
    /\ items[i].kind \in {"event", "timeseries"}
    /\ ItemIs(i, [items[i] EXCEPT !.lacks = @ \ {"timestamp"}])
    /\ UNCHANGED careless

\* Variant: the descriptor of the file before is not reset.
NotOpenedStale(item) == [item EXCEPT !.lacks = @ \cup {"path"}, !.size = 0, !.drift = 0, !.stale = TRUE]

\* The new file cannot be opened: all is cleared.
NotOpened(item) == [item EXCEPT !.lacks = @ \cup {"path"}, !.size = 0, !.drift = 0]

\* _set_file_local_path closes the file before; when closing fails the pointer to what is
\* closed stays.
SetPath(i) ==
    /\ Idle /\ items[i] # Nothing /\ items[i].kind = "file" /\ changes < MaxChanges
    /\ \/ /\ ~items[i].stale
          /\ \/ ItemIs(i, [items[i] EXCEPT !.lacks = @ \ {"path"}])
             \/ ItemIs(i, NotOpened(items[i]))
          /\ UNCHANGED careless
       \/ /\ "path" \notin items[i].lacks
          /\ ItemIs(i, [items[i] EXCEPT !.stale = TRUE])
          /\ Careless("descriptor", TRUE)

\* The application keeps its hands off the items of its store, but for their parameters.
DestroyItem(i) ==
    /\ Idle /\ items[i] # Nothing /\ \A e \in DOMAIN store : store[e].item # i
    /\ items' = [items EXCEPT ![i] = Nothing]
    /\ UNCHANGED <<client, configuration, sets, handle, changes, store, careless>>

\* timeseries_value_validate, timeseries_value_list_validate
ValueValid(v) == Nothing \notin {v.id, v.value, v.quality}
ValuesValid(list) == list # <<>> /\ \A k \in DOMAIN list : ValueValid(list[k])

\* data_point_validate, data_source_validate
PointValid(p) == Nothing \notin {p.id, p.name, p.type, p.unit}
SourceValid(s) == s.name # Nothing /\ s.points # <<>> /\ \A k \in DOMAIN s.points : PointValid(s.points[k])

\* The rest of timeseries_validate and of data_source_configuration_validate.
ContentsValid(item) ==
    CASE item.kind = "timeseries" -> item.lists # <<>> /\ \A k \in DOMAIN item.lists : ValuesValid(item.lists[k])
      [] item.kind = "configuration" -> item.sources # <<>> /\ \A k \in DOMAIN item.sources : SourceValid(item.sources[k])
      [] OTHER -> TRUE

\* event_validate, file_validate, custom_data_validate and the fields of the two above; a
\* timestamp that was never set is what was in the memory before.
IsValid(item, leftover) ==
    item.lacks \subseteq (IF leftover THEN {"timestamp"} ELSE {}) /\ ContentsValid(item)

\* mcl_store_add does not ask whether the item is there already.
AddToStore(i) ==
    /\ Idle /\ items[i] # Nothing /\ Len(store) < MaxEntriesOfStore
    /\ \E leftover \in BOOLEAN : IsValid(items[i], leftover)
    /\ store' = Append(store, [item |-> i, status |-> "ready"])
    /\ Careless("twice", \E e \in DOMAIN store : store[e].item = i)
    /\ UNCHANGED <<client, configuration, sets, handle, items, changes>>

-----------------------------------------------------------------------------
(* The calls up to the body.                                               *)

Close == 24   \* MULTIPART_CLOSE_LENGTH

\* multipart_get_tuple_size: MULTIPART_BASE_SIZE, the item and the type of its content.
TupleSize(item) == 247 + ItemSize(item) + item.contentType

Sizes == [e \in DOMAIN store |-> TupleSize(items[store[e].item])]

Keep == UNCHANGED <<client, configuration, sets, handle, changes, careless, op, target>>

\* _revert_store_item_status
Reverted == [e \in DOMAIN store |-> [store[e] EXCEPT !.status = "ready"]]

Done(code) ==
    /\ pc' = "done" /\ result' = code /\ store' = Reverted
    /\ UNCHANGED <<items, body, answer, cause, parserVars>>

Crash(why) ==
    /\ pc' = "crashed" /\ cause' = why
    /\ UNCHANGED <<items, store, body, answer, result, parserVars>>

GoTo(label) == pc' = label /\ UNCHANGED <<items, store, body, answer, cause, result, parserVars>>

\* mcl_connectivity_exchange, _create_mapping and _get_data_source_configuration.  The last
\* touches no item: it is explored, as a bound, while the application has none.
Begin ==
    /\ pc = "idle" /\ handle # Nothing
    /\ pc' = "token" /\ op' \in {"exchange", "mapping", "source"}
    /\ op' = "source" => store = <<>> /\ \A i \in Names : items[i] = Nothing
    /\ target' \in IF op' = "exchange" THEN {"store"} \cup {i \in Names : items[i] # Nothing} ELSE {"none"}
    /\ UNCHANGED <<appVars, body, answer, cause, result, parserVars>>

GetToken ==
    /\ pc = "token"
    /\ \/ \E code \in {"OUT_OF_MEMORY", "NO_ACCESS_TOKEN_EXISTS"} : Done(code)
       \/ GoTo("validate")
    /\ Keep

\* An item of the store that another entry has had destroyed.
Dangling == \E e \in DOMAIN store : items[store[e].item] = Nothing

\* Whether the limit leaves room for an entry after those chosen before it.
HasRoom(e, chosen) == Close + Sizes[e] + SumFunctionOnSet(Sizes, {f \in chosen : f < e}) <= MaxPayload

\* _select_store_items_to_exchange: in order, each that what is left of the limit suffices for.
Selected ==
    CHOOSE chosen \in SUBSET DOMAIN store :
        \A e \in DOMAIN store : e \in chosen <=> HasRoom(e, chosen)

\* The entries of a set one after the other.
Ascending(S) ==
    CHOOSE s \in [1..Cardinality(S) -> S] : \A i, j \in 1..Cardinality(S) : i < j => s[i] < s[j]

\* _check_store_size
Ignored(item) == MaxPayload < Close + TupleSize(item)

Validate ==
    /\ pc = "validate"
    /\ \/ op = "mapping" /\ (Done("INVALID_PARAMETER") \/ GoTo("request"))
       \/ op = "source" /\ GoTo("request")
       \/ /\ op = "exchange" /\ target # "store"
          /\ \E leftover \in BOOLEAN :
                IF IsValid(items[target], leftover) THEN GoTo("prepare") ELSE Done("INVALID_PARAMETER")
       \/ /\ target = "store"
          /\ IF store = <<>> THEN Done("STORE_IS_EMPTY")
             ELSE IF \A e \in DOMAIN store : Ignored(items[store[e].item])
             THEN Done("ITEM_EXCEEDS_MAX_HTTP_REQUEST_SIZE")
             ELSE GoTo("prepare")
    /\ Keep

Buffer ==
    Close + (IF target = "store" THEN SumFunctionOnSet(Sizes, Selected) ELSE TupleSize(items[target]))

\* _prepare_body, _prepare_body_for_store; entry 0 stands for an item alone.
AllocateBody ==
    /\ pc = "prepare"
    /\ IF target = "store" /\ Dangling THEN Crash("twice")
       ELSE \/ Done("OUT_OF_MEMORY")
            \/ Buffer > MaxPayload /\ Done("ITEM_EXCEEDS_MAX_HTTP_REQUEST_SIZE")
            \/ /\ Buffer <= MaxPayload
               /\ body' = [NoBody EXCEPT !.buffer = Buffer, !.left = Buffer, !.before = Buffer,
                                         !.queue = IF target = "store" THEN Ascending(Selected) ELSE <<0>>]
               /\ store' = IF target # "store" THEN store
                           ELSE [e \in DOMAIN store |->
                                    IF e \in Selected THEN [store[e] EXCEPT !.status = "selected"] ELSE store[e]]
               /\ pc' = "compose"
               /\ UNCHANGED <<items, answer, cause, result, parserVars>>
    /\ Keep

-----------------------------------------------------------------------------
(* multipart_add_tuple_with_callback: one item is written in nineteen steps. *)

\* _space_needed_for_state; zero where the length varies.
Spaces == <<24, 14, 17, 10, 20, 4, 24, 14, 44, 4, 0, 2, 24, 14, 0, 4, 0, 2, 26>>

MetaStep == 11
ContentTypeStep == 15
PayloadStep == 17

ItemOf(entry) == IF entry = 0 THEN items[target] ELSE items[store[entry].item]
Current == ItemOf(Head(body.queue))
IsText(item) == item.kind \notin {"file", "custom"}

\* Variant: a member of the payload that is null is left out.
NullAtMeta(step, item) ==
    /\ step = MetaStep
    /\ item.lacks \cap {"configurationId", "type", "remoteName", "path"} # {}
    /\ item.kind # "event"

\* Fields that are null where their text is needed; custom data without a type of its
\* content is sent as JSON.
NullAt(step, item) ==
    \/ step = MetaStep /\ item.lacks \cap (IF item.kind = "timeseries" THEN {"configurationId"}
                                           ELSE IF item.kind = "custom" THEN {"type"}
                                           ELSE {"remoteName", "path"}) # {}
    \/ step = PayloadStep /\ item.kind \in {"event", "configuration"} /\ item.lacks \ {"timestamp"} # {}

\* drift: what escaping adds to the text, or what the file has grown by since its path was set.
Written(step, item) ==
    CASE step = MetaStep -> WrittenMeta(item)
      [] step = ContentTypeStep -> IF "contentType" \in item.lacks THEN 16 ELSE item.contentType
      [] step = PayloadStep -> WrittenPayload(item) + item.drift
      [] OTHER -> Spaces[step]

\* A callback that fills all that is left has failed.
Fits(step, item) ==
    /\ body.left > 0
    /\ Written(step, item) <= body.left
    /\ step = PayloadStep /\ ~IsText(item) /\ item.size # 0 => Written(step, item) < body.left

\* The item is left out: what was written of it is written over.
TupleFails(code, short) ==
    IF target = "store"
    THEN /\ body' = [body EXCEPT !.left = body.before, !.step = 1, !.queue = Tail(@), !.short = @ \/ short]
         /\ UNCHANGED <<pc, items, store, answer, cause, result, parserVars>>
    ELSE /\ body' = [body EXCEPT !.short = short]
         /\ pc' = "done" /\ result' = code
         /\ UNCHANGED <<items, store, answer, cause, parserVars>>

Composing == pc = "compose" /\ body.queue # <<>>

\* A file whose closing failed is rewound.
Rewind ==
    /\ Composing /\ body.step = 1 /\ Current.stale
    /\ Crash("descriptor") /\ Keep

WriteTuple ==
    /\ Composing /\ ~(body.step = 1 /\ Current.stale)
    /\ \/ /\ body.step \in {1, MetaStep} \/ (body.step = PayloadStep /\ IsText(Current))
          /\ TupleFails("OUT_OF_MEMORY", FALSE)
       \/ NullAt(body.step, Current) /\ TupleFails("TRIGGERED_WITH_NULL", FALSE)
       \/ /\ ~NullAt(body.step, Current) /\ ~Fits(body.step, Current)
          /\ TupleFails("FAIL", TRUE)
       \/ /\ ~NullAt(body.step, Current) /\ Fits(body.step, Current) /\ body.step < Len(Spaces)
          /\ body' = [body EXCEPT !.left = @ - Written(body.step, Current), !.step = @ + 1]
          /\ UNCHANGED <<pc, items, store, answer, cause, result, parserVars>>
       \/ /\ Fits(body.step, Current) /\ body.step = Len(Spaces)
          /\ LET left == body.left - Written(body.step, Current)
             IN body' = [body EXCEPT !.left = left, !.before = left, !.step = 1,
                                     !.queue = Tail(@), !.added = Append(@, Head(body.queue))]
          /\ store' = IF target = "store" THEN [store EXCEPT ![Head(body.queue)].status = "processed"] ELSE store
          /\ UNCHANGED <<pc, items, answer, cause, result, parserVars>>
    /\ Keep

\* multipart_close, with what it writes at the end of a body that has an item.
CloseBody ==
    /\ pc = "compose" /\ body.queue = <<>>
    /\ IF body.added = <<>> \/ body.left < Close THEN Done("FAIL")
       ELSE /\ body' = [body EXCEPT !.left = @ - Close] /\ pc' = "request"
            /\ UNCHANGED <<items, store, answer, cause, result, parserVars>>
    /\ Keep

-----------------------------------------------------------------------------
(* The request and its answer.                                             *)

\* The URLs and the identifier of the agent are read where the handle points.
PrepareRequest ==
    /\ pc = "request"
    /\ IF op # "exchange" /\ handle.agent # client THEN Crash("agent")
       ELSE \/ Done("OUT_OF_MEMORY")
            \/ op # "source" /\ handle.url = Nothing /\ Done("TRIGGERED_WITH_NULL")
            \/ op # "source" /\ handle.url \notin {Nothing, configuration.url} /\ Crash("url")
            \/ (op = "source" \/ handle.url \in {configuration.url} \ {Nothing}) /\ GoTo("send")
    /\ Keep

Send ==
    /\ pc = "send"
    /\ \/ \E code \in {"NETWORK_SEND_FAIL", "NETWORK_RECEIVE_FAIL"} : Done(code)
       \/ /\ answer' \in {"success", "created", "other"} /\ pc' = "answer"
          /\ UNCHANGED <<items, store, body, cause, result, parserVars>>
    /\ Keep

\* _evaluate_response_for_exchange, connectivity_processor_create_mapping
Expected(o) == IF o = "mapping" THEN "created" ELSE "success"

Processed == {e \in DOMAIN store : store[e].status = "processed"}
Twice == \E e, f \in Processed : e # f /\ store[e].item = store[f].item

\* The entries that are left, those of an item that has just been destroyed included.
Left == [k \in 1..Cardinality(DOMAIN store \ Processed) |->
            Reverted[Ascending(DOMAIN store \ Processed)[k]]]

\* _scan_store_after_exchange, _remove_uploaded_store_items
ScanStore ==
    IF Twice THEN Crash("twice")
    ELSE /\ store' = Left
         /\ items' = [i \in Names |-> IF \E e \in Processed : store[e].item = i THEN Nothing ELSE items[i]]
         /\ IF Left = <<>> THEN pc' = "done" /\ result' = "OK"
            ELSE IF \A e \in DOMAIN Left : items[Left[e].item] # Nothing /\ Ignored(items[Left[e].item])
            THEN pc' = "done" /\ result' = "ITEM_EXCEEDS_MAX_HTTP_REQUEST_SIZE"
            ELSE pc' = "prepare" /\ UNCHANGED result
         /\ body' = NoBody
         /\ UNCHANGED <<answer, cause, parserVars>>

Evaluate ==
    /\ pc = "answer"
    /\ IF answer # Expected(op) THEN Done("UNEXPECTED_RESULT_CODE")
       ELSE \/ op = "exchange" /\ target = "store" /\ ScanStore
            \/ op # "source" /\ target # "store" /\ Done("OK")
            \/ op = "source" /\ GoTo("parse")
    /\ Keep

Parsing == pc = "parse" /\ Keep /\ UNCHANGED <<items, store, pc, body, answer, cause, result>>

Parse == stack = <<>> /\ parsed = "none" /\ Parsing /\ StartParser

ParseOn == Parsing /\ ParserStep

Corrupted == pc = "parse" /\ Corrupts /\ Crash("parser") /\ Keep

Parsed == pc = "parse" /\ parsed # "none" /\ Done(parsed) /\ Keep

\* The caller takes what it got, and destroys it.
Finish ==
    /\ pc = "done"
    /\ pc' = "idle" /\ op' = "none" /\ target' = "none" /\ body' = NoBody /\ answer' = "none"
    /\ cause' = "none" /\ result' = "none"
    /\ stack' = <<>> /\ raised' = "OK" /\ live' = 0 /\ lost' = 0 /\ parsed' = "none" /\ delivered' = 0
    /\ UNCHANGED appVars

Restart ==
    /\ pc = "crashed"
    /\ client' = 1 /\ configuration' = [core |-> FALSE, url |-> Nothing] /\ sets' = 0 /\ handle' = Nothing
    /\ items' = [i \in Names |-> Nothing] /\ changes' = 0 /\ store' = <<>> /\ careless' = {}
    /\ pc' = "idle" /\ op' = "none" /\ target' = "none" /\ body' = NoBody /\ answer' = "none"
    /\ cause' = "none" /\ result' = "none"
    /\ stack' = <<>> /\ raised' = "OK" /\ live' = 0 /\ lost' = 0 /\ parsed' = "none" /\ delivered' = 0

Next ==
    \/ SetCore \/ InitializeHandle \/ DestroyHandle \/ DestroyConfiguration \/ Rotate
    \/ \E i \in Names :
          CreateItem(i) \/ SetText(i) \/ SetTimestamp(i) \/ SetPath(i) \/ DestroyItem(i) \/ AddToStore(i)
    \/ Begin \/ GetToken \/ Validate \/ AllocateBody
    \/ Rewind \/ WriteTuple \/ CloseBody
    \/ PrepareRequest \/ Send \/ Evaluate
    \/ Parse \/ ParseOn \/ Corrupted \/ Parsed
    \/ Finish \/ Restart

Spec == Init /\ [][Next]_vars

-----------------------------------------------------------------------------
(* Properties.                                                             *)

AnyEntry == [item : Names, status : {"ready", "selected", "processed"}]
AnyBody ==
    [buffer : Nat, left : Int, before : Int, step : DOMAIN Spaces, queue : Seq(Nat), added : Seq(Nat), short : BOOLEAN]

TypeOK ==
    /\ client \in 1..(MaxRotations + 1) /\ sets \in 0..MaxSets
    /\ configuration \in [core : BOOLEAN, url : 1..MaxSets \cup {Nothing}]
    /\ handle \in [agent : 1..(MaxRotations + 1), url : 1..MaxSets \cup {Nothing}] \cup {Nothing}
    /\ items \in [Names -> AnyItem \cup {Nothing}] /\ changes \in 0..MaxChanges
    /\ store \in Seq(AnyEntry) /\ Len(store) <= MaxEntriesOfStore
    /\ careless \subseteq {"agent", "url", "descriptor", "twice"}
    /\ pc \in {"idle", "token", "validate", "prepare", "compose", "request", "send", "answer", "parse", "done",
              "crashed"}
    /\ op \in {"none", "exchange", "mapping", "source"} /\ target \in Names \cup {"none", "store"}
    /\ body \in AnyBody
    /\ answer \in {"none", "success", "created", "other"}
    /\ cause \in {"none", "agent", "url", "descriptor", "twice", "parser"}
    /\ ParserTypeOK

\* The items of the body at hand.
Concerned ==
    IF target = "store" THEN {store[e].item : e \in {f \in DOMAIN store : store[f].status # "ready"}} ELSE {target}

\* An item did not fit, or what closes the body would not.
TooShort ==
    \/ body.short /\ (target = "store" => pc \in {"compose", "request", "send"})
    \/ pc = "compose" /\ body.queue = <<>> /\ body.added # <<>> /\ body.left < Close

\* The sizes that are estimated suffice for what is written, kind by kind and field by
\* field: an item is refused for space only when some item of the body is larger than it
\* was when its size was taken; and whatever a file or an escaped text has grown to since,
\* nothing is written past the body (json_get_item_size against json_from_item_*,
\* multipart_add_tuple_with_callback).
EstimateFits ==
    /\ body.left >= 0
    /\ TooShort => \E i \in Concerned : items[i].drift > 0 \/ "contentType" \in items[i].lacks

\* An item whose mandatory text or file is gone does not leave, even from a store that
\* took it when it was complete; the exceptions are a timestamp that was never set and
\* the type of the content of custom data (event_validate, _add_item_payload_content_type).
SentComplete ==
    \A k \in DOMAIN body.added :
        /\ ItemOf(body.added[k]).lacks \subseteq {"timestamp", "contentType"}
        /\ ContentsValid(ItemOf(body.added[k]))

\* The program crashes only over a pointer that was in use when the application replaced
\* the core or the client id, added an item twice, or over a file that could not be
\* closed; or over an answer for which memory runs out (mcl_connectivity_initialize,
\* mcl_store_add, _set_file_local_path).
CrashExplained == pc = "crashed" => cause \in careless \cup {"parser"}

\* Wherever parsing breaks off, all of the configuration is freed, or it is the caller's
\* (the destroy functions; what mcl_list_add refuses apart).
ParserClean == pc = "done" => live = delivered + lost
=============================================================================
