------------------------------ MODULE LinkedList ------------------------------
(***************************************************************************)
(* The doubly linked list of mcl_core/src/list.c with its cursor, pointer  *)
(* by pointer, and the two kinds of loop the library runs over it: the one *)
(* of _remove_uploaded_store_items, which removes nodes while the cursor   *)
(* is under way, and the one of _data_lake_object_list_to_array, which     *)
(* does not reset the cursor first.                                        *)
(*                                                                         *)
(* StoreExchange takes a list as the set of its items in order; that such  *)
(* a loop meets every item once is shown here.                             *)
(***************************************************************************)
EXTENDS Naturals, Sequences

CONSTANTS
    Nodes,  \* addresses that MCL_NEW may return
    Null    \* MCL_NULL

ASSUME NullAssumption == Null \notin Nodes

VARIABLES
    head, last, current, count,  \* the fields of mcl_list_t
    next, prev,                  \* the fields of every mcl_list_node_t
    order,     \* history: the nodes in the list, as they were added
    loop,      \* the loop that runs
    index,     \* its counter
    limit,     \* count when it began
    doomed,    \* nodes whose item is PROCESSED
    visited,   \* history: nodes the loop has met, in this order
    present    \* history: order when the loop began

list == <<head, last, current, count, next, prev, order>>
scan == <<loop, index, limit, doomed, visited, present>>
listVars == <<list, scan>>

Pointers == Nodes \cup {Null}

InList(n) == \E k \in 1 .. Len(order) : order[k] = n

ListTypeOK ==
    /\ {head, last, current} \subseteq Pointers
    /\ count \in Nat
    /\ next \in [Nodes -> Pointers]
    /\ prev \in [Nodes -> Pointers]
    /\ order \in Seq(Nodes)
    /\ loop \in {"none", "scan", "array", "failed"}
    /\ index \in Nat
    /\ limit \in Nat
    /\ doomed \in SUBSET Nodes
    /\ visited \in Seq(Nodes)
    /\ present \in Seq(Nodes)

ListInit ==
    /\ head = Null /\ last = Null /\ current = Null
    /\ count = 0
    /\ next = [n \in Nodes |-> Null]
    /\ prev = [n \in Nodes |-> Null]
    /\ order = <<>>
    /\ loop = "none"
    /\ index = 0
    /\ limit = 0
    /\ doomed = {}
    /\ visited = <<>>
    /\ present = <<>>

-----------------------------------------------------------------------------
(* list.c.                                                                 *)

\* mcl_list_add: a node fresh from the allocator.  The cursor of a list that is
\* not empty stays, even where it is past the end.
Link(n) ==
    /\ ~InList(n)
    /\ next' = [m \in Nodes |-> IF m = n THEN Null
                                ELSE IF count # 0 /\ m = last THEN n ELSE next[m]]
    /\ prev' = [prev EXCEPT ![n] = last]
    /\ head' = IF count = 0 THEN n ELSE head
    /\ last' = n
    /\ current' = IF count = 0 THEN n ELSE current
    /\ count' = count + 1
    /\ order' = Append(order, n)

\* mcl_list_next returns the node at the cursor; past the end, that is MCL_NULL,
\* and the cursor returns to the head.
Advanced == IF current = Null THEN head ELSE next[current]

Without(s, n) ==
    LET k == CHOOSE i \in 1 .. Len(s) : s[i] = n
    IN  SubSeq(s, 1, k - 1) \o SubSeq(s, k + 1, Len(s))

\* Variant of Slid: the cursor stays at the removed node.
StaysBehind(n, cursor) == cursor

\* The cursor slides on if it stands at the node to be removed.
Slid(n, cursor) == IF cursor = n THEN next[n] ELSE cursor

\* mcl_list_remove of node n, with the cursor standing where it is said.
Unlink(n, cursor) ==
    /\ next' = [m \in Nodes |-> IF m = prev[n] THEN next[n] ELSE next[m]]
    /\ prev' = [m \in Nodes |-> IF m = next[n] THEN prev[n] ELSE prev[m]]
    /\ head' = IF head = n THEN next[n] ELSE head
    /\ last' = IF last = n THEN prev[n] ELSE last
    /\ current' = Slid(n, cursor)
    /\ count' = count - 1
    /\ order' = Without(order, n)

-----------------------------------------------------------------------------
(* The owner of the list between loops.                                    *)

Add ==
    /\ loop = "none"
    /\ \E n \in Nodes : Link(n)
    /\ UNCHANGED scan

TakeNext ==
    /\ loop = "none"
    /\ current' = Advanced
    /\ UNCHANGED <<head, last, count, next, prev, order, scan>>

Reset ==
    /\ loop = "none"
    /\ current' = head
    /\ UNCHANGED <<head, last, count, next, prev, order, scan>>

Remove ==
    /\ loop = "none"
    /\ \E n \in Nodes : InList(n) /\ Unlink(n, current)
    /\ UNCHANGED scan

-----------------------------------------------------------------------------
(* The loops.                                                              *)

\* Variant of Start: one turn is missing.
StartOneShort(l, d) ==
    /\ loop = "none"
    /\ loop' = l
    /\ index' = 0
    /\ limit' = IF count = 0 THEN 0 ELSE count - 1
    /\ doomed' = d
    /\ visited' = <<>>
    /\ present' = order

\* The owner's number of turns is the count of now.
Start(l, d) ==
    /\ loop = "none"
    /\ loop' = l
    /\ index' = 0
    /\ limit' = count
    /\ doomed' = d
    /\ visited' = <<>>
    /\ present' = order

\* Variant of StartScan: the cursor is left where it is.
StartScanAnywhere ==
    /\ \E d \in SUBSET {n \in Nodes : InList(n)} : Start("scan", d)
    /\ UNCHANGED list

\* _remove_uploaded_store_items begins: the cursor is reset.
StartScan ==
    /\ \E d \in SUBSET {n \in Nodes : InList(n)} : Start("scan", d)
    /\ current' = head
    /\ UNCHANGED <<head, last, count, next, prev, order>>

\* _data_lake_object_list_to_array begins.
StartArray ==
    /\ Start("array", {})
    /\ UNCHANGED list

\* One turn of the loop: the node is asked for and its data read, which fails
\* for MCL_NULL; a doomed node is removed with the cursor already past it.
Visit ==
    /\ loop \in {"scan", "array"}
    /\ index < limit
    /\ current # Null
    /\ index' = index + 1
    /\ visited' = Append(visited, current)
    /\ IF current \in doomed
       THEN Unlink(current, Advanced)
       ELSE /\ current' = Advanced
            /\ UNCHANGED <<head, last, count, next, prev, order>>
    /\ UNCHANGED <<loop, limit, doomed, present>>

ReadNull ==
    /\ loop \in {"scan", "array"}
    /\ index < limit
    /\ current = Null
    /\ loop' = "failed"
    /\ UNCHANGED <<list, index, limit, doomed, visited, present>>

End ==
    /\ loop \in {"scan", "array"}
    /\ index = limit
    /\ loop' = "none"
    /\ index' = 0 /\ limit' = 0
    /\ doomed' = {}
    /\ visited' = <<>> /\ present' = <<>>
    /\ UNCHANGED list

ListNext ==
    \/ Add \/ TakeNext \/ Reset \/ Remove
    \/ StartScan \/ StartArray \/ Visit \/ ReadNull \/ End

ListSpec == ListInit /\ [][ListNext]_listVars

-----------------------------------------------------------------------------
(* Properties.                                                             *)

At(k) == IF k \in 1 .. Len(order) THEN order[k] ELSE Null

\* The pointers of the list spell out its nodes in the order of their addition,
\* forwards and backwards, and no pointer in use leads to a node that was freed.
Linked ==
    /\ count = Len(order)
    /\ head = At(1)
    /\ last = At(Len(order))
    /\ current # Null => InList(current)
    /\ \A k \in 1 .. Len(order) : /\ next[order[k]] = At(k + 1)
                                  /\ prev[order[k]] = At(k - 1)
    /\ \A j, k \in 1 .. Len(order) : order[j] = order[k] => j = k

\* A loop that removes as it goes meets the nodes that were in the list when it
\* began, all of them, once each and in order, and never MCL_NULL.
ScanMeetsAll ==
    loop = "scan" =>
        /\ visited = SubSeq(present, 1, index)
        /\ limit = Len(present)
        /\ index < limit => current = present[index + 1]

\* What such a loop leaves behind is what it was not to remove, in the order it was in.
ScanRemovesDoomed ==
    loop = "scan" /\ index = limit =>
        /\ \A n \in Nodes :
              InList(n) <=> n \notin doomed /\ \E i \in 1 .. Len(present) : present[i] = n
        /\ \A j, k \in 1 .. Len(order), i, l \in 1 .. Len(present) :
              order[j] = present[i] /\ order[k] = present[l] /\ j < k => i < l

\* data_lake_processor.c on _data_lake_object_list_to_array: "Get next data lake
\* object.": every turn of the loop has one.
ArrayHasObjects == loop # "failed"

=============================================================================
