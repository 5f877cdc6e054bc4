------------------------------- MODULE JsonTree -------------------------------
(***************************************************************************)
(* mcl_core/src/json_util.c over cJSON: trees of nodes, and the roots the    *)
(* program holds.  Values and the order of members are left out; names and   *)
(* kinds are what the calls look at.  cJSON keeps silent to its caller       *)
(* json_util when memory runs out as a member is added to an object.         *)
(***************************************************************************)
EXTENDS Integers, Sequences, FiniteSets, FiniteSetsExt

CONSTANTS MaxNodes,     \* bound
          Fold,         \* the names, each with itself in lower case
          Names,        \* those the program at hand uses
          NoName

ASSUME JsonTreeAssumption == MaxNodes \in Nat /\ NoName \notin DOMAIN Fold /\ Names \subseteq DOMAIN Fold

VARIABLES nodes,   \* the nodes that are allocated
          roots,   \* those the program has to destroy
          lost,    \* those nobody can destroy any more
          silent,  \* memory has run out and no call has said so
          parsed,  \* those that came from a text, or were copied from such
          answer   \* the code of the last call

treeVars == <<nodes, roots, lost, silent, parsed, answer>>

Kinds == {"object", "array", "string", "null"}
Containers == {"object", "array"}

TreeInit ==
    /\ nodes = << >> /\ roots = {} /\ lost = {} /\ silent = FALSE /\ parsed = {} /\ answer = "OK"

Live == DOMAIN nodes
Unused == 1..MaxNodes \ Live
Fresh(k) == {i \in Unused : Cardinality({j \in Unused : j <= i}) <= k}
CanMake(k) == Cardinality(Live) + k <= MaxNodes
NewNode == Max(Fresh(1))
Node(kind, name) == [kind |-> kind, name |-> name, children |-> {}]

\* A node with all that is below it.
Below(n) ==
    LET reached[k \in 0..Cardinality(Live)] ==
            IF k = 0 THEN {n}
            ELSE LET before == reached[k - 1] IN before \cup UNION {nodes[m].children : m \in before}
    IN reached[Cardinality(Live)]

-----------------------------------------------------------------------------
(* What the calls do to the tree.                                          *)

Fails(code) == answer' = code /\ UNCHANGED <<nodes, roots, lost, silent, parsed>>

\* cJSON_GetObjectItem ignores the case; members without a name are passed over.
HasName(object, name) ==
    \E c \in nodes[object].children : nodes[c].name # NoName /\ Fold[nodes[c].name] = Fold[name]

WithNode(n, node) == [m \in Live \cup {n} |-> IF m = n THEN node ELSE nodes[m]]
Attached(parent, n, node) ==
    [m \in Live \cup {n} |->
        IF m = n THEN node
        ELSE IF m = parent THEN [nodes[m] EXCEPT !.children = @ \cup {n}] ELSE nodes[m]]

\* json_util_initialize
NewRoot(kind) ==
    /\ nodes' = WithNode(NewNode, Node(kind, NoName)) /\ roots' = roots \cup {NewNode}
    /\ answer' = "OK" /\ UNCHANGED <<lost, silent, parsed>>

\* A new child of an object or an array.
NewChild(parent, kind, name) ==
    /\ nodes' = Attached(parent, NewNode, Node(kind, name))
    /\ answer' = "OK" /\ UNCHANGED <<roots, lost, silent, parsed>>

\* cJSON_AddStringToObject and the like free what they cannot add.
NotAdded == silent' = TRUE /\ answer' = "OK" /\ UNCHANGED <<nodes, roots, lost, parsed>>

\* What cJSON_AddItemToObject cannot add, json_util_start_object has given to its caller as
\* a part of the tree.
NotAttached(kind) ==
    /\ nodes' = WithNode(NewNode, Node(kind, NoName)) /\ lost' = lost \cup {NewNode}
    /\ silent' = TRUE /\ answer' = "OK" /\ UNCHANGED <<roots, parsed>>

\* json_util_start_array, json_util_start_object
StartIn(parent, kind, name) ==
    IF HasName(parent, name) THEN Fails("NAME_DUPLICATION")
    ELSE \/ Fails("OUT_OF_MEMORY")
         \/ CanMake(1) /\ NewChild(parent, kind, name)
         \/ CanMake(1) /\ NotAttached(kind)

\* json_util_add_string, _add_number, json_util_add_bool; json_util_add_null.
AddTo(parent, kind, name) ==
    IF nodes[parent].kind = "array" /\ name = NoName
    THEN \/ IF kind = "null" THEN NotAdded ELSE Fails("OUT_OF_MEMORY")
         \/ CanMake(1) /\ NewChild(parent, kind, NoName)
    ELSE IF nodes[parent].kind = "object" /\ name # NoName
    THEN IF HasName(parent, name) THEN Fails("NAME_DUPLICATION")
         ELSE NotAdded \/ (CanMake(1) /\ NewChild(parent, kind, name))
    ELSE Fails("INVALID_PARAMETER")

-----------------------------------------------------------------------------
(* The calls of a program that hands over only what it holds.              *)

Initialize(kind) == Fails("OUT_OF_MEMORY") \/ (CanMake(1) /\ NewRoot(kind))

Start(parent, kind, name) == StartIn(parent, kind, name)

Add(parent, kind, name) == AddTo(parent, kind, name)

Holders == Live \ UNION {Below(n) : n \in lost}

Moved(parent, child, name) ==
    /\ nodes' = Attached(parent, child, [nodes[child] EXCEPT !.name = name])
    /\ roots' = roots \ {child} /\ answer' = "OK" /\ UNCHANGED <<lost, silent, parsed>>

\* json_util_add_object: the object belongs to the tree then, or to nobody.
AddObject(parent, name, child) ==
    /\ child \in roots /\ parent \notin Below(child)
    /\ IF HasName(parent, name) THEN Fails("NAME_DUPLICATION")
       ELSE \/ Moved(parent, child, name)
            \/ /\ roots' = roots \ {child} /\ lost' = lost \cup {child} /\ silent' = TRUE
               /\ answer' = "OK" /\ UNCHANGED <<nodes, parsed>>

\* json_util_add_item_to_array
AddItemToArray(array, child) ==
    /\ child \in roots /\ array \notin Below(child) /\ nodes[array].kind = "array"
    /\ Moved(array, child, nodes[child].name)

\* json_util_duplicate
Duplicate(n) ==
    \/ Fails("OUT_OF_MEMORY")
    \/ LET k == Cardinality(Below(n))
       IN /\ CanMake(k)
          /\ \E copy \in [Below(n) -> Fresh(k)] :
                /\ \A i, j \in Below(n) : i < j => copy[i] < copy[j]
                /\ nodes' = [m \in Live \cup Fresh(k) |->
                                IF m \in Live THEN nodes[m]
                                ELSE LET i == CHOOSE i \in Below(n) : copy[i] = m
                                     IN [nodes[i] EXCEPT !.children = {copy[c] : c \in nodes[i].children}]]
                /\ roots' = roots \cup {copy[n]}
                /\ parsed' = parsed \cup {copy[i] : i \in Below(n) \cap parsed}
                /\ answer' = "OK" /\ UNCHANGED <<lost, silent>>

\* json_util_parse: a text may have a member twice.
Parse ==
    \/ Fails("FAIL")
    \/ /\ CanMake(3)
       /\ \E first, second \in Names :
             LET ids == Fresh(3)
                 top == Min(ids)
             IN /\ nodes' = [m \in Live \cup ids |->
                                IF m \in Live THEN nodes[m]
                                ELSE IF m = top THEN [Node("object", NoName) EXCEPT !.children = ids \ {top}]
                                ELSE Node("string", IF m = Max(ids) THEN first ELSE second)]
                /\ roots' = roots \cup {top} /\ parsed' = parsed \cup ids
       /\ answer' = "OK" /\ UNCHANGED <<lost, silent>>

\* Variant: the members of the root stay.
ReleasedTop(n) == {n}

\* cJSON_Delete
Released(n) == Below(n)

\* json_util_destroy
Destroy(n) ==
    /\ n \in roots
    /\ nodes' = [m \in Live \ Released(n) |-> nodes[m]]
    /\ roots' = roots \ {n} /\ parsed' = parsed \ Released(n)
    /\ UNCHANGED <<lost, silent, answer>>

\* The calls that only read.
Answers(codes) == answer' \in codes /\ UNCHANGED <<nodes, roots, lost, silent, parsed>>

\* json_util_get_object_item
GetObjectItem(n, name) == Answers({IF HasName(n, name) THEN "OK" ELSE "NON_EXISTING_CHILD"})

\* json_util_get_array_item, of the first; json_util_get_array_size succeeds for every array.
GetArrayItem(n) ==
    Answers({IF nodes[n].kind # "array" THEN "TYPE_MISMATCH"
             ELSE IF nodes[n].children = {} THEN "INVALID_PARAMETER" ELSE "OK"})

\* json_util_get_string copies; json_util_get_number_value and the like do not.
GetString(n) ==
    Answers(CASE nodes[n].kind = "string" -> {"OK", "OUT_OF_MEMORY"}
              [] nodes[n].kind = "null" -> {"OK"}
              [] OTHER -> {"TYPE_MISMATCH"})

\* json_util_to_string
TreeToString(n) == Answers({"OK", "FAIL"})

TreeStep ==
    \/ \E kind \in Containers : Initialize(kind)
    \/ Parse
    \/ \E n \in Holders :
          \/ /\ nodes[n].kind \in Containers
             /\ \E name \in Names :
                   \/ \E kind \in Containers : Start(n, kind, name)
                   \/ \E child \in roots : AddObject(n, name, child)
          \/ \E name \in Names : GetObjectItem(n, name)
          \/ GetArrayItem(n) \/ GetString(n) \/ TreeToString(n)
          \/ \E kind \in Kinds \ Containers, name \in Names \cup {NoName} : Add(n, kind, name)
          \/ \E child \in roots : AddItemToArray(n, child)
          \/ Duplicate(n)
          \/ Destroy(n)

-----------------------------------------------------------------------------
(* Properties.                                                             *)

\* What frees a node: the program, its parent, or nobody when it was lost.
Parents(n) == {m \in Live : n \in nodes[m].children}
Owners(n) == Cardinality(Parents(n)) + (IF n \in roots THEN 1 ELSE 0) + (IF n \in lost THEN 1 ELSE 0)

\* A tree is freed once and whole: every node has exactly one owner, the program or a
\* parent that is there, whatever is attached, copied, parsed and destroyed (json_util.c).
OneOwner == \A n \in Live : Owners(n) = 1 /\ nodes[n].children \subseteq Live

\* A node is lost only when memory ran out as it was to be attached.
LostSilently == lost # {} => silent

\* An object that was built has no two members that are found under one name
\* (json_util_start_array, _start_object, _add_string, _add_object).
NamesDistinct ==
    \A n \in Live \ parsed :
        nodes[n].kind = "object" =>
            \A c, d \in nodes[n].children :
                c # d /\ NoName \notin {nodes[c].name, nodes[d].name} => Fold[nodes[c].name] # Fold[nodes[d].name]

\* What holds of the trees of a program between its calls, and within the composition of a
\* token: no sequence of calls frees a node twice, loses one unless memory ran out, or
\* hides a member behind another (json_util.c).
TreesAreSound == OneOwner /\ LostSilently /\ NamesDistinct
=============================================================================
