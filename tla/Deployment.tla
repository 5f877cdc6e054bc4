----------------------------- MODULE Deployment -----------------------------
(***************************************************************************)
(* mcl_deployment: the configuration and the handle, the three calls on     *)
(* deployment workflows, and the parser of what the service answers.  The   *)
(* answer is drawn while it is parsed: at each field the parser finds what  *)
(* it expects, finds nothing, finds something else, or runs out of memory.  *)
(***************************************************************************)
EXTENDS Integers, Sequences, SequencesExt

CONSTANTS Nothing,
          MaxUrls,       \* bound: URLs a configuration is given
          MaxItems,      \* bound: entries of an array, by the kind of its entries
          Filters,       \* records of the query parameters: two flags, four lengths
          States         \* workflow states of an update: what is set

Kinds == {"workflow", "state", "model", "modelState", "transition", "stateGroup", "string"}
FilterRecord == [model : BOOLEAN, history : BOOLEAN, currentState : Nat, deviceId : Nat,
                 group : Nat, modelKey : Nat]

ASSUME DeploymentAssumption ==
    /\ MaxUrls \in Nat /\ Nothing \notin Nat
    /\ MaxItems \in [Kinds -> Nat]
    /\ Filters \subseteq FilterRecord /\ Nothing \notin FilterRecord
    /\ States \subseteq SUBSET {"state", "message"}

VARIABLES configuration, \* core set or not, and its URL
          handle,        \* mcl_deployment_t: its copy of the URL, or Nothing
          urls,          \* URLs that are allocated
          nextUrl,
          pc, op, filter, state,   \* the call and its arguments
          parts,         \* what the request still lacks
          heap,          \* allocations of the call outside the parser
          applied,       \* the service has applied this update
          stack,         \* the parsers that are active, the innermost last
          raised,        \* an error code on its way up
          live,          \* allocations the parser has made and not freed
          delivered,     \* what the caller gets
          result

confVars == <<configuration, handle, urls, nextUrl>>
callVars == <<op, filter, state>>
parseVars == <<stack, raised, live, delivered>>
vars == <<confVars, pc, callVars, parts, heap, applied, parseVars, result>>

NoConfiguration == [core |-> FALSE, url |-> Nothing]

Init ==
    /\ configuration = NoConfiguration /\ handle = Nothing /\ urls = {} /\ nextUrl = 1
    /\ pc = "idle" /\ op = "none" /\ filter = Nothing /\ state = {}
    /\ parts = <<>> /\ heap = {} /\ applied = FALSE
    /\ stack = <<>> /\ raised = "OK" /\ live = 0 /\ delivered = Nothing /\ result = "none"

-----------------------------------------------------------------------------
(* deployment_configuration.c and the handle.                              *)

Call(op_, parts_, pc_) == /\ op' = op_ /\ parts' = parts_ /\ pc' = pc_

\* Variant: the URL of the core before is freed.
ReplaceUrlFreeing(url) == urls' = (urls \ {configuration.url}) \cup ({url} \ {Nothing})

\* The URL of the core before is forgotten, and stays valid for the handles that have it.
ReplaceUrl(url) == urls' = urls \cup ({url} \ {Nothing})

\* _set_deployment_configuration_core_parameter: the core is kept when memory is short.
SetCore ==
    /\ pc = "idle" /\ nextUrl <= MaxUrls
    /\ \E url \in {nextUrl, Nothing} :
       /\ ReplaceUrl(url)
       /\ configuration' = [core |-> TRUE, url |-> url]
    /\ nextUrl' = nextUrl + 1
    /\ UNCHANGED <<handle, pc, callVars, parts, heap, applied, parseVars, result>>

\* mcl_deployment_initialize, deployment_configuration_validate
Initialize ==
    /\ pc = "idle" /\ handle = Nothing /\ configuration.core
    /\ handle' = [url |-> configuration.url]
    /\ UNCHANGED <<configuration, urls, nextUrl, pc, callVars, parts, heap, applied, parseVars, result>>

Destroy ==
    /\ pc = "idle" /\ handle # Nothing
    /\ handle' = Nothing /\ heap' = {}
    /\ UNCHANGED <<configuration, urls, nextUrl, pc, callVars, parts, applied, parseVars, result>>

\* The handle refers to the configuration: it goes first.
DestroyConfiguration ==
    /\ pc = "idle" /\ handle = Nothing /\ configuration.core
    /\ configuration' = NoConfiguration
    /\ urls' = urls \ {configuration.url}
    /\ UNCHANGED <<handle, nextUrl, pc, callVars, parts, heap, applied, parseVars, result>>

-----------------------------------------------------------------------------
(* The query string.                                                       *)

\* _add_query_parameter: key, equals sign, value, ampersand; nothing without a value.
Written(key, value) == IF value = 0 THEN 0 ELSE key + 1 + value + 1

\* The parameters in the order they are written: length of the key, length of the value.
Parameters(f) ==
    Written(5, IF f.model THEN 4 ELSE 0) + Written(7, IF f.history THEN 4 ELSE 0)
    + Written(12, f.currentState) + Written(8, f.deviceId) + Written(5, f.group) + Written(8, f.modelKey)

QueryWritten(f) == 1 + Parameters(f)

\* Variant: the overhead of a key forgets the ampersand.
OverheadsShort == <<11, 13, 13, 9, 6, 9>>

\* _calculate_query_string_length, _get_query_string_for_single_workflow
Overheads == <<11, 13, 14, 10, 7, 10>>

Counted(overhead, value) == IF value = 0 THEN 0 ELSE value + overhead

QueryLength(f) ==
    (IF f.model THEN Overheads[1] ELSE 0) + (IF f.history THEN Overheads[2] ELSE 0)
    + Counted(Overheads[3], f.currentState) + Counted(Overheads[4], f.deviceId)
    + Counted(Overheads[5], f.group) + Counted(Overheads[6], f.modelKey)

\* A single workflow is asked for with the flags alone.
Query == IF op = "list" THEN filter
         ELSE [filter EXCEPT !.currentState = 0, !.deviceId = 0, !.group = 0, !.modelKey = 0]

-----------------------------------------------------------------------------
(* deployment_processor.c: composing and sending a request.                *)

Parts(o) ==
    <<"request", "query", "url", "set url">>
    \o (IF o = "update" THEN <<"state", "body", "content type">> ELSE <<>>)
    \o <<"authorization", "accept", "send">>

\* mcl_deployment_list_workflows, mcl_deployment_get_workflow, mcl_deployment_update_workflow
Begin ==
    /\ pc = "idle" /\ handle # Nothing
    /\ \E o \in {"list", "get", "update"} :
       /\ Call(o, Parts(o), "token")
       /\ state' \in IF o = "update" THEN States ELSE {{}}
    /\ filter' \in Filters \cup {Nothing}
    /\ heap' = {}
    /\ UNCHANGED <<confVars, applied, parseVars, result>>

Finished(code) ==
    /\ pc' = "done" /\ result' = code
    /\ heap' = heap \cap {"token"}
    /\ UNCHANGED <<confVars, callVars, parts, applied, parseVars>>

GetToken ==
    /\ pc = "token"
    /\ \/ \E code \in {"OUT_OF_MEMORY", "NO_ACCESS_TOKEN_EXISTS"} : Finished(code)
       \/ /\ pc' = "compose" /\ heap' = {"token"}
          /\ UNCHANGED <<confVars, callVars, parts, applied, parseVars, result>>

\* What a part leaves allocated; the text of the URL and of the query are temporary.
Allocated(part) ==
    CASE part = "query" -> IF filter = Nothing \/ QueryLength(Query) = 0 THEN heap ELSE heap \cup {"query"}
      [] part = "url"     -> (heap \ {"query"}) \cup {"url"}
      [] part = "set url" -> heap \ {"url"}
      [] part \in {"request", "body"} -> heap \cup {part}
      [] OTHER -> heap

\* deployment_workflow_state_validate
IsValid(s) == {"state", "message"} \subseteq s

\* Without a URL the path of a list is read through a null pointer.
Compose ==
    /\ pc = "compose" /\ Head(parts) # "send"
    /\ \/ Finished("OUT_OF_MEMORY")
       \/ /\ Head(parts) = "state" /\ ~IsValid(state)
          /\ Finished("INVALID_PARAMETER")
       \/ /\ Head(parts) = "state" => IsValid(state)
          /\ parts' = Tail(parts) /\ heap' = Allocated(Head(parts))
          /\ pc' = IF Head(parts) = "url" /\ op = "list" /\ handle.url = Nothing THEN "crashed" ELSE "compose"
          /\ UNCHANGED <<confVars, callVars, applied, parseVars, result>>

\* MCL_HTTP_STATUS_CODE_SUCCESS alone leads to the parser, the rest to get_status.
IsSuccess(status) == status = "success"

\* mcl_http_client_send fails before or after the service has the request.
Send ==
    /\ pc = "compose" /\ Head(parts) = "send"
    /\ \/ applied' = FALSE /\ result' = "NETWORK_SEND_FAIL" /\ pc' = "done"
       \/ /\ applied' \in {FALSE, op = "update"}
          /\ result' = "NETWORK_RECEIVE_FAIL" /\ pc' = "done"
       \/ \E status \in {"success", "created", "other"} :
          /\ applied' \in IF status = "success" THEN {op = "update"} ELSE {FALSE, op = "update"}
          /\ IF IsSuccess(status) THEN pc' = "answer" /\ result' = "none"
             ELSE pc' = "done" /\ result' = "UNEXPECTED_RESULT_CODE"
    /\ heap' = IF pc' = "answer" THEN {"token", "response"} ELSE {"token"}
    /\ filter' = Nothing /\ state' = {}   \* The request is destroyed.
    /\ UNCHANGED <<confVars, op, parts, parseVars>>

-----------------------------------------------------------------------------
(* deployment_json.c.                                                      *)

\* The fields of each object, in the order the parser looks for them.
WorkflowFields == <<"id", "deviceId", "createdAt", "currentState", "history", "model", "data">>
StateFields == <<"state", "progress", "entered", "updated", "message", "details">>
ModelFields == <<"key", "states", "transitions", "stateGroups">>
ModelStateFields == <<"name", "description", "initial", "final", "cancel">>
TransitionFields == <<"from", "to", "type", "details">>
StateGroupFields == <<"name", "members">>

Fields(kind) ==
    CASE kind = "workflow"   -> WorkflowFields
      [] kind = "state"      -> StateFields
      [] kind = "model"      -> ModelFields
      [] kind = "modelState" -> ModelStateFields
      [] kind = "transition" -> TransitionFields
      [] kind = "stateGroup" -> StateGroupFields

\* The kind of what a field holds; the entries of a list have the kind after the colon.
Nested == [currentState |-> "state", model |-> "model"]
Lists == [history |-> "state", states |-> "modelState", transitions |-> "transition",
          stateGroups |-> "stateGroup", members |-> "string"]
Numbers == {"progress", "initial", "final", "cancel"}

\* A parser at work: what it parses, the field or entry that is next, what it has so far,
\* and the allocations it would free.
Object(kind) == [kind |-> kind, of |-> "fields", next |-> 1, size |-> Len(Fields(kind)), has |-> {},
                 whole |-> TRUE, cells |-> 1]
List(kind, size) == [kind |-> "list", of |-> kind, next |-> 1, size |-> size, has |-> {},
                     whole |-> TRUE, cells |-> 1]

\* The names of the fields; a parser at work.
FieldNames == UNION {ToSet(Fields(kind)) : kind \in Kinds \ {"string"}}

Frame == [kind : Kinds \cup {"list"}, of : Kinds \cup {"fields"}, next : Nat, size : Nat,
          has : SUBSET FieldNames, whole : BOOLEAN, cells : Nat]

ASSUME FrameAssumption == Nothing \notin Frame

Top == Last(stack)
IsList(frame) == frame.kind = "list"
Field(frame) == Fields(frame.kind)[frame.next]
AtField == pc = "parse" /\ raised = "OK" /\ ~IsList(Top) /\ Top.next <= Top.size
AtItem == pc = "parse" /\ raised = "OK" /\ IsList(Top) /\ Top.next <= Top.size

Raise(code) ==
    /\ raised' = code
    /\ UNCHANGED <<confVars, pc, callVars, parts, heap, applied, stack, live, delivered, result>>

SetTop(frame, more) ==
    /\ stack' = Append(Front(stack), frame) /\ live' = live + more
    /\ UNCHANGED <<confVars, pc, callVars, parts, heap, applied, raised, delivered, result>>

Push(frame) ==
    /\ stack' = Append(stack, frame) /\ live' = live + 1
    /\ UNCHANGED <<confVars, pc, callVars, parts, heap, applied, raised, delivered, result>>

\* mcl_json_util_parse of the whole answer, and the array of a list of workflows.
Parse ==
    /\ pc = "answer"
    /\ \/ \E code \in {"TRIGGERED_WITH_NULL", "FAIL", "OUT_OF_MEMORY"} : Finished(code)
       \/ \E code \in {"NON_EXISTING_CHILD", "TYPE_MISMATCH"} : op = "list" /\ Finished(code)
       \/ /\ pc' = "parse" /\ live' = 1
          /\ \/ op = "list" /\ \E n \in 0..MaxItems["workflow"] : stack' = <<List("workflow", n)>>
             \/ op # "list" /\ stack' = <<Object("workflow")>>
          /\ heap' = heap \cup {"json"}
          /\ UNCHANGED <<confVars, callVars, parts, applied, raised, delivered, result>>

\* _parse_string_value and its like: a null string is a value without memory.
ParseScalar ==
    /\ AtField
    /\ LET field == Field(Top)
           With(n) == [Top EXCEPT !.next = @ + 1, !.has = @ \cup {field}, !.cells = @ + n]
       IN  /\ field \notin DOMAIN Nested \cup DOMAIN Lists
           /\ \/ Raise("NON_EXISTING_CHILD")
              \/ field \notin {"details", "data"} /\ Raise("TYPE_MISMATCH")
              \/ field \notin Numbers /\ Raise("OUT_OF_MEMORY")
              \/ field \notin {"details", "data"} /\ SetTop(With(0), 0)
              \/ field \notin Numbers /\ SetTop(With(1), 1)

\* _get_current_state, _parse_workflow_history, _parse_workflow_model and its lists
EnterField ==
    /\ AtField
    /\ LET field == Field(Top) IN
       /\ field \in DOMAIN Nested \cup DOMAIN Lists
       /\ \/ \E code \in {"NON_EXISTING_CHILD", "OUT_OF_MEMORY"} : Raise(code)
          \/ field \in DOMAIN Lists /\ Raise("TYPE_MISMATCH")
          \/ field \in DOMAIN Nested /\ Push(Object(Nested[field]))
          \/ /\ field \in DOMAIN Lists
             /\ \E n \in 0..MaxItems[Lists[field]] : Push(List(Lists[field], n))

EnterItem ==
    /\ AtItem
    /\ \/ Raise("OUT_OF_MEMORY")
       \/ /\ Top.of = "string"
          /\ \E code \in {"TYPE_MISMATCH", "TRIGGERED_WITH_NULL"} : Raise(code)
       \/ Top.of = "string" /\ SetTop([Top EXCEPT !.next = @ + 1, !.cells = @ + 2], 2)
       \/ Top.of # "string" /\ Push(Object(Top.of))

\* Variant: a list is freed without what it holds.
FreedList(frame) == IF IsList(frame) THEN 1 ELSE frame.cells

\* What the destroy function of a kind frees: the object and all it holds.
Freed(frame) == frame.cells

IsWhole(frame) == frame.whole /\ (frame.kind = "state" => frame.has = ToSet(Fields("state")))

\* The object is complete: it goes into the one that asked for it.
Leave ==
    /\ pc = "parse" /\ raised = "OK" /\ Top.next > Top.size /\ Len(stack) > 1
    /\ LET parent == stack[Len(stack) - 1]
           rest   == SubSeq(stack, 1, Len(stack) - 2)
           whole  == parent.whole /\ IsWhole(Top)
       IN \/ /\ IsList(parent)   \* mcl_list_add
             /\ stack' = Append(rest, [parent EXCEPT !.next = @ + 1, !.whole = whole, !.cells = @ + Top.cells + 1])
             /\ live' = live + 1
             /\ UNCHANGED raised
          \/ /\ IsList(parent)
             /\ stack' = Front(stack) /\ live' = live - Freed(Top)
             /\ raised' = "OUT_OF_MEMORY"
          \/ /\ ~IsList(parent)
             /\ stack' = Append(rest, [parent EXCEPT !.next = @ + 1, !.whole = whole, !.cells = @ + Top.cells,
                                                     !.has = @ \cup {Field(parent)}])
             /\ UNCHANGED <<live, raised>>
    /\ UNCHANGED <<confVars, pc, callVars, parts, heap, applied, delivered, result>>

\* A workflow goes on without the history and the model that are missing.
Skips(frame) == frame.kind = "workflow" /\ Field(frame) \in {"history", "model"}

\* Variant: a state, too, ends with the first field that is missing.
EndsEarlyToo(frame) == frame.kind \in {"state", "model", "modelState", "transition", "stateGroup"}

\* The rest of these ends with the first field that is missing.
EndsEarly(frame) == frame.kind \in {"model", "modelState", "transition", "stateGroup"}

Unwind ==
    /\ pc = "parse" /\ raised # "OK"
    /\ LET missing == raised = "NON_EXISTING_CHILD" IN
       \/ /\ missing /\ EndsEarly(Top)
          /\ stack' = Append(Front(stack), [Top EXCEPT !.size = Top.next - 1])
          /\ raised' = "OK"
          /\ UNCHANGED <<pc, heap, live, delivered, result>>
       \/ /\ missing /\ ~IsList(Top) /\ Skips(Top)
          /\ stack' = Append(Front(stack), [Top EXCEPT !.next = @ + 1])
          /\ raised' = "OK"
          /\ UNCHANGED <<pc, heap, live, delivered, result>>
       \/ /\ ~(missing /\ (EndsEarly(Top) \/ (~IsList(Top) /\ Skips(Top))))
          /\ live' = live - Freed(Top)
          /\ IF Len(stack) > 1
             THEN stack' = Front(stack) /\ UNCHANGED <<pc, heap, raised, delivered, result>>
             ELSE /\ stack' = <<>> /\ raised' = "OK"
                  /\ pc' = "done" /\ result' = raised /\ heap' = {"token"}
                  /\ UNCHANGED delivered
    /\ UNCHANGED <<confVars, callVars, parts, applied>>

Deliver ==
    /\ pc = "parse" /\ raised = "OK" /\ Len(stack) = 1 /\ Top.next > Top.size
    /\ delivered' = Top /\ stack' = <<>>
    /\ pc' = "done" /\ result' = "OK" /\ heap' = {"token"}
    /\ UNCHANGED <<confVars, callVars, parts, applied, raised, live>>

\* mcl_deployment_workflow_destroy, or the list with its content, by the caller.
Finish ==
    /\ pc = "done"
    /\ pc' = "idle" /\ op' = "none" /\ filter' = Nothing /\ state' = {} /\ parts' = <<>>
    /\ applied' = FALSE /\ delivered' = Nothing /\ result' = "none"
    /\ live' = live - (IF delivered = Nothing THEN 0 ELSE Freed(delivered))
    /\ UNCHANGED <<confVars, heap, stack, raised>>

Restart ==
    /\ pc = "crashed"
    /\ configuration' = NoConfiguration /\ handle' = Nothing /\ urls' = {} /\ nextUrl' = 1
    /\ pc' = "idle" /\ op' = "none" /\ filter' = Nothing /\ state' = {}
    /\ parts' = <<>> /\ heap' = {} /\ applied' = FALSE
    /\ stack' = <<>> /\ raised' = "OK" /\ live' = 0 /\ delivered' = Nothing /\ result' = "none"

Next ==
    \/ SetCore \/ Initialize \/ Destroy \/ DestroyConfiguration
    \/ Begin \/ GetToken \/ Compose \/ Send
    \/ Parse \/ ParseScalar \/ EnterField \/ EnterItem \/ Leave \/ Unwind \/ Deliver
    \/ Finish \/ Restart

Spec == Init /\ [][Next]_vars

-----------------------------------------------------------------------------
(* Properties.                                                             *)

TypeOK ==
    /\ configuration \in [core : BOOLEAN, url : 1..MaxUrls \cup {Nothing}]
    /\ handle \in [url : 1..MaxUrls \cup {Nothing}] \cup {Nothing}
    /\ urls \subseteq 1..MaxUrls /\ nextUrl \in 1..(MaxUrls + 1)
    /\ pc \in {"idle", "token", "compose", "answer", "parse", "done", "crashed"}
    /\ op \in {"none", "list", "get", "update"} /\ filter \in Filters \cup {Nothing}
    /\ state \subseteq {"state", "message"}
    /\ heap \subseteq {"token", "request", "query", "url", "body", "response", "json"}
    /\ applied \in BOOLEAN /\ live \in Nat
    /\ stack \in Seq(Frame) /\ delivered \in Frame \cup {Nothing}
    /\ raised \in {"OK", "TRIGGERED_WITH_NULL", "NON_EXISTING_CHILD", "OUT_OF_MEMORY", "TYPE_MISMATCH"}
    /\ result \in {"none", "OK", "FAIL", "TRIGGERED_WITH_NULL", "OUT_OF_MEMORY", "NON_EXISTING_CHILD", "TYPE_MISMATCH",
                   "NO_ACCESS_TOKEN_EXISTS", "INVALID_PARAMETER", "NETWORK_SEND_FAIL",
                   "NETWORK_RECEIVE_FAIL", "UNEXPECTED_RESULT_CODE"}

\* Wherever parsing breaks off, all that was allocated is freed, and once: what is left
\* after a call is what the caller got, or nothing (the destroy functions).
NothingLost ==
    /\ pc = "done" => live = (IF delivered = Nothing THEN 0 ELSE delivered.cells) /\ heap \subseteq {"token"}
    /\ pc = "idle" => live = 0

Required == {"id", "deviceId", "createdAt", "currentState", "data"}

\* A workflow that is delivered has every field its users rely on, each of its states
\* is complete, and its history is there as a whole or not at all: the tolerance for
\* optional fields does not reach the others (MCL_JSON_NON_EXISTING_CHILD in _parse_workflow).
Complete ==
    delivered # Nothing =>
        /\ delivered.whole
        /\ ~IsList(delivered) => Required \subseteq delivered.has

\* An update that reports success was applied by the service, and one that fails before
\* it was sent was not (deployment_processor_update_workflow).
UpdateTruth ==
    pc = "done" /\ op = "update" =>
        /\ result = "OK" => applied
        /\ result \in {"NO_ACCESS_TOKEN_EXISTS", "INVALID_PARAMETER"} => ~applied

\* What a call reports with success is so.
SuccessIsTrue == Complete /\ UpdateTruth

\* The buffer that is allocated holds what is written, with the last ampersand where
\* the terminating null goes (_calculate_query_string_length, _add_query_parameter).
QueryFits ==
    pc = "compose" /\ filter # Nothing /\ QueryLength(Query) # 0 =>
        QueryWritten(Query) = QueryLength(Query) + 1

\* The handle's copy of the URL stays valid, whatever becomes of the configuration's
\* core (mcl_deployment_configuration_set_parameter).
UrlAlive == handle # Nothing => handle.url \in urls \cup {Nothing}
=============================================================================
