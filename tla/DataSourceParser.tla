--------------------------- MODULE DataSourceParser ---------------------------
(***************************************************************************)
(* The parsing half of mcl_connectivity/src/json.c: the answer of the       *)
(* service becomes a data source configuration, its data sources and their  *)
(* data points.  The answer is drawn while it is parsed.                    *)
(***************************************************************************)
EXTENDS Integers, Sequences, SequencesExt

CONSTANT MaxEntries   \* bound: entries of an array, by the kind of its entries

ASSUME MaxEntriesAssumption == MaxEntries \in [{"source", "point"} -> Nat]

VARIABLES stack,      \* the parse functions that are active, the innermost last
          raised,     \* an error code on its way up
          live,       \* allocations the parser has made and not freed
          lost,       \* of these, what nobody can free any more
          parsed,     \* what json_parse_item returns, or "none"
          delivered   \* the cells of the configuration the caller gets, 0: none

parserVars == <<stack, raised, live, lost, parsed, delivered>>

ParserInit ==
    stack = <<>> /\ raised = "OK" /\ live = 0 /\ lost = 0 /\ parsed = "none" /\ delivered = 0

-----------------------------------------------------------------------------
(* _parse_data_source_configuration, _parse_data_source, _parse_data_point. *)

Fields(kind) ==
    CASE kind = "configuration" -> <<"configurationId", "dataSources">>
      [] kind = "source" -> <<"name", "description", "customData", "dataPoints">>
      [] kind = "point" -> <<"id", "name", "type", "unit", "description", "customData">>

Optional == {"description", "customData"}
Lists == [dataSources |-> "source", dataPoints |-> "point"]

\* What the initialize function of a kind allocates: the struct, its payload and its list.
Cells(kind) == CASE kind = "configuration" -> 3 [] kind = "source" -> 2 [] kind = "point" -> 1

\* first: the first member of the struct, a string, is null.
AnyFrame ==
    [kind : {"configuration", "source", "point"}, next : Nat \ {0}, left : Nat,
     array : BOOLEAN, first : BOOLEAN, cells : Nat]

Frame(kind) == [kind |-> kind, next |-> 1, left |-> 0, array |-> FALSE, first |-> TRUE, cells |-> Cells(kind)]

Top == Last(stack)
Active == stack # <<>> /\ raised = "OK"
AtField == Active /\ ~Top.array /\ Top.next <= Len(Fields(Top.kind))
Field == Fields(Top.kind)[Top.next]

Raise(code) == raised' = code /\ UNCHANGED <<stack, live, lost, parsed, delivered>>

SetTop(frame, more) ==
    /\ stack' = Append(Front(stack), frame) /\ live' = live + more
    /\ UNCHANGED <<raised, lost, parsed, delivered>>

Enter(kind) ==
    /\ stack' = Append(stack, Frame(kind)) /\ live' = live + Cells(kind)
    /\ UNCHANGED <<raised, lost, parsed, delivered>>

\* json_parse_item: mcl_json_util_parse, and the configuration is initialized.
StartParser ==
    \/ \E code \in {"TRIGGERED_WITH_NULL", "FAIL", "OUT_OF_MEMORY"} :
          parsed' = code /\ UNCHANGED <<stack, raised, live, lost, delivered>>
    \/ stack = <<>> /\ Enter("configuration")

\* A description or custom data that is not there is no error.
MaySkip(field) == field \in Optional

\* _parse_and_get_string_value, and the custom data that is duplicated.
ParseValue ==
    /\ AtField /\ Field \notin DOMAIN Lists
    /\ LET next == [Top EXCEPT !.next = @ + 1]
           string == Field # "customData"
       IN  \/ /\ MaySkip(Field) /\ SetTop(next, 0)
           \/ ~MaySkip(Field) /\ Raise("NON_EXISTING_CHILD")
           \/ string /\ Raise("TYPE_MISMATCH")
           \/ Raise("OUT_OF_MEMORY")
           \/ string /\ SetTop(next, 0)     \* A null string.
           \/ SetTop([next EXCEPT !.cells = @ + 1, !.first = @ /\ Top.next # 1], 1)

\* _fill_list_using_json_array, with the array of the field.
EnterArray ==
    /\ AtField /\ Field \in DOMAIN Lists
    /\ \/ \E code \in {"NON_EXISTING_CHILD", "TYPE_MISMATCH", "OUT_OF_MEMORY"} : Raise(code)
       \/ \E n \in 0..MaxEntries[Lists[Field]] :
             SetTop([Top EXCEPT !.array = TRUE, !.left = n], 0)

EnterEntry ==
    /\ Active /\ Top.array /\ Top.left > 0
    /\ \/ Raise("OUT_OF_MEMORY")
       \/ Enter(Lists[Field])

LeaveArray ==
    /\ Active /\ Top.array /\ Top.left = 0
    /\ SetTop([Top EXCEPT !.array = FALSE, !.next = @ + 1], 0)

Complete == Active /\ Top.next > Len(Fields(Top.kind))

\* mcl_list_add: the list belongs to the object that asked for the entry.
AddEntry ==
    /\ Complete /\ Len(stack) > 1
    /\ LET parent == stack[Len(stack) - 1]
       IN stack' = Append(SubSeq(stack, 1, Len(stack) - 2),
                          [parent EXCEPT !.left = @ - 1, !.cells = @ + Top.cells + 1])
    /\ live' = live + 1
    /\ UNCHANGED <<raised, lost, parsed, delivered>>

\* mcl_list_add has no memory.  The destroy function gets the entry, where it expects the
\* address of a pointer to it: when the first member of the entry is null nothing is
\* freed, otherwise that string is taken for an entry.
EntryLost ==
    /\ Complete /\ Len(stack) > 1 /\ Top.first
    /\ stack' = Front(stack) /\ raised' = "OUT_OF_MEMORY" /\ lost' = lost + Top.cells
    /\ UNCHANGED <<live, parsed, delivered>>

Corrupts == Complete /\ Len(stack) > 1 /\ ~Top.first

\* Variant: what is in the lists is left alone.
FreedAlone(frame) == Cells(frame.kind)

\* The destroy function of the object frees all it holds.
Freed(frame) == frame.cells

Unwind ==
    /\ stack # <<>> /\ raised # "OK"
    /\ live' = live - Freed(Top)
    /\ stack' = Front(stack)
    /\ IF Len(stack) > 1 THEN UNCHANGED <<raised, parsed>>
       ELSE parsed' = raised /\ raised' = "OK"
    /\ UNCHANGED <<lost, delivered>>

Deliver ==
    /\ Complete /\ Len(stack) = 1
    /\ parsed' = "OK" /\ delivered' = Top.cells /\ stack' = <<>>
    /\ UNCHANGED <<raised, live, lost>>

ParserStep ==
    \/ ParseValue \/ EnterArray \/ EnterEntry \/ LeaveArray
    \/ AddEntry \/ EntryLost \/ Unwind \/ Deliver

ParserTypeOK ==
    /\ stack \in Seq(AnyFrame)
    /\ raised \in {"OK", "NON_EXISTING_CHILD", "TYPE_MISMATCH", "OUT_OF_MEMORY"}
    /\ live \in Nat /\ lost \in Nat /\ delivered \in Nat
    /\ parsed \in {"none", "OK", "FAIL", "TRIGGERED_WITH_NULL", "NON_EXISTING_CHILD", "TYPE_MISMATCH",
                   "OUT_OF_MEMORY"}
=============================================================================
