------------------------------ MODULE ItemSizes ------------------------------
(***************************************************************************)
(* mcl_connectivity/src/json.c: how long an item is said to be before its   *)
(* body is allocated, and how long the text is that is written then.  The   *)
(* two are computed apart: the first from constants for the text around the *)
(* fields, the second member by member.  A field is its length, or Nothing; *)
(* a JSON object of the application is its length.                          *)
(***************************************************************************)
EXTENDS Integers, Sequences, SequencesExt

CONSTANT Nothing

Length(field) == IF field = Nothing THEN 0 ELSE field
Characters(text) == Len(text)
If(condition, n) == IF condition THEN n ELSE 0
Total(values) == SumFunction(values)
Each(f(_), s) == [i \in DOMAIN s |-> f(s[i])]

\* MCL_TIMESTAMP_LENGTH without its null, a GUID, and the versions, all of the form 1.0.
Timestamp == 24
Guid == 36
Version == 3

\* The entries of a time series and of a data source configuration.
AnyLength == Nat \cup {Nothing}
AnyValue == [id : AnyLength, value : AnyLength, quality : AnyLength]
AnyPoint == [id : AnyLength, name : AnyLength, type : AnyLength, unit : AnyLength,
             description : AnyLength, customData : AnyLength]
AnySource == [name : AnyLength, description : AnyLength, customData : AnyLength, points : Seq(AnyPoint)]

-----------------------------------------------------------------------------
(* What is written, without blanks; <<name, value>> is a member.           *)

Str(n) == n + 2
Commas(s) == If(s # <<>>, Len(s) - 1)
Array(values) == 2 + Total(values) + Commas(values)
Object(members) == 2 + Total([i \in DOMAIN members |-> Str(members[i][1]) + 1 + members[i][2]]) + Commas(members)

Text(name, n) == << <<Characters(name), Str(n)>> >>
Json(name, n) == << <<Characters(name), n>> >>
TextIf(condition, name, field) == IF condition THEN Text(name, field) ELSE <<>>
JsonIf(condition, name, field) == IF condition THEN Json(name, field) ELSE <<>>
Set(field) == field # Nothing
SetAndNotEmpty(field) == Set(field) /\ field # 0

\* _add_item_meta_payload_timeseries_details, _add_item_meta_payload_file_details, and custom data
MetaDetails(item) ==
    CASE item.kind = "timeseries" -> Json("details", Object(Text("configurationId", item.configurationId)))
      [] item.kind = "file" ->
            Json("details", Object(Text("fileName", item.remoteName) \o Text("creationDate", Timestamp)
                                   \o TextIf(Set(item.type), "fileType", item.type)))
      [] item.kind = "custom" -> JsonIf(Set(item.details), "details", item.details)
      [] OTHER -> <<>>

\* meta_field_values
PayloadType(item) ==
    CASE item.kind = "timeseries" -> Characters("standardTimeSeries")
      [] item.kind = "event" -> Characters("businessEvent")
      [] item.kind = "file" -> Characters("file")
      [] item.kind = "configuration" -> Characters("dataSourceConfiguration")
      [] item.kind = "custom" -> Length(item.type)

\* json_from_item_meta, _add_item_meta_payload
WrittenMeta(item) ==
    Object(Text("type", Characters("item")) \o Text("version", Version)
           \o Json("payload", Object(Text("type", PayloadType(item))
                                     \o Text("version", IF item.kind = "custom" THEN item.version ELSE Version)
                                     \o MetaDetails(item))))

\* _json_from_timeseries_value, _json_from_timeseries_value_list
WrittenValue(v) == Object(Text("dataPointId", v.id) \o Text("value", v.value) \o Text("qualityCode", v.quality))
WrittenValues(list) ==
    Object(Text("timestamp", Timestamp) \o Json("values", Array(Each(WrittenValue, list))))

\* _json_from_data_point, _json_from_data_source
WrittenPoint(p) ==
    Object(Text("id", p.id) \o Text("name", p.name) \o TextIf(Set(p.description), "description", p.description)
           \o Text("type", p.type) \o Text("unit", p.unit) \o JsonIf(Set(p.customData), "customData", p.customData))
WrittenSource(s) ==
    Object(Text("name", s.name) \o TextIf(Set(s.description), "description", s.description)
           \o Json("dataPoints", Array(Each(WrittenPoint, s.points)))
           \o JsonIf(Set(s.customData), "customData", s.customData))

\* _add_event_to_payload_array: the details are there even when there are none.
WrittenEvent(e) ==
    Object(Text("id", Guid) \o TextIf(SetAndNotEmpty(e.correlationId), "correlationId", e.correlationId)
           \o Text("timestamp", Timestamp) \o Json("severity", IF e.version = 1 THEN 1 ELSE 2)
           \o TextIf(SetAndNotEmpty(e.description), "description", e.description)
           \o Text("type", e.type) \o Text("version", e.eventVersion)
           \o Json("details", IF Set(e.details) THEN e.details ELSE Object(<<>>)))

\* json_from_item_payload; files and custom data are copied by a callback.
WrittenPayload(item) ==
    CASE item.kind = "event" -> Array(<<WrittenEvent(item)>>)
      [] item.kind = "timeseries" -> Array(Each(WrittenValues, item.lists))
      [] item.kind = "configuration" ->
            Object(Text("configurationId", item.configurationId)
                   \o Json("dataSources", Array(Each(WrittenSource, item.sources))))
      [] OTHER -> item.size

-----------------------------------------------------------------------------
(* The estimate; single quotes stand for double quotes.                    *)

ItemMetaBase        == Characters("{'type':'item','version':'1.0','payload':}")
TimeseriesMetaBase  == Characters("{'type':'standardTimeSeries','version':'','details':{'configurationId':''}}")
ValueBase           == Characters("{'dataPointId':'','value':'','qualityCode':''}")
ValueListBase       == Characters("{'timestamp':'','values':[]}") + Timestamp
EventMetaBase       == Characters("{'type':'businessEvent','version':''}")
EventBase           == Characters("{'id':'','timestamp':'','severity':,'type':'','version':'','details':}") + Timestamp
CorrelationIdSize   == Characters(",'correlationId':''")
DescriptionSize     == Characters(",'description':''")
FileMetaBase        == Characters("{'type':'file','version':'','details':{'fileName':'','creationDate':''}}") + Timestamp
FileTypeSize        == Characters(",'fileType':''")
CustomMetaBase      == Characters("{'type':'','version':''}")
DetailsSize         == Characters(",'details':")
ConfigurationMetaBase == Characters("{'type':'dataSourceConfiguration','version':''}")
ConfigurationBase   == Characters("{'configurationId':'','dataSources':[]}")
SourceBase          == Characters("{'name':'','description':'','dataPoints':[]}")
PointBase           == Characters("{'id':'','name':'','description':'','type':'','unit':''}")
CustomDataSize      == Characters(",'customData':")

\* _item_meta_size, _custom_data_meta_size
MetaSize(item) ==
    ItemMetaBase +
    CASE item.kind = "timeseries" -> TimeseriesMetaBase + item.configurationId + Version
      [] item.kind = "event" -> EventMetaBase + Version
      [] item.kind = "file" ->
            FileMetaBase + item.remoteName + Version + If(Set(item.type), FileTypeSize + Length(item.type))
      [] item.kind = "custom" ->
            CustomMetaBase + item.type + item.version + If(Set(item.details), DetailsSize + Length(item.details))
      [] item.kind = "configuration" -> ConfigurationMetaBase + Version

\* Delimiters: one less than there are entries, unsigned, so that an empty list takes one off.
Delimiters(s) == Len(s) - 1

\* _item_payload_size_for_timeseries_value, _item_payload_size_for_timeseries_value_list
ValueSize(v) == ValueBase + v.id + v.quality + v.value
ValuesSize(list) == ValueListBase + Total(Each(ValueSize, list)) + Delimiters(list)

\* _item_payload_size_for_data_point, _item_payload_size_for_data_source
PointSize(p) ==
    PointBase + p.id + p.name + Length(p.description) + p.type + p.unit
    + If(Set(p.customData), CustomDataSize + Length(p.customData))
SourceSize(s) ==
    SourceBase + s.name + Length(s.description) + Total(Each(PointSize, s.points)) + Delimiters(s.points)
    + If(Set(s.customData), CustomDataSize + Length(s.customData))

\* Variant: every severity has one digit.
EventSizeOneDigit(e) ==
    EventBase + 2 + Guid + e.type + e.eventVersion + 1
    + If(Set(e.correlationId), CorrelationIdSize + Length(e.correlationId))
    + If(Set(e.description), DescriptionSize + Length(e.description))
    + (IF Set(e.details) THEN e.details ELSE 2)

\* _item_payload_size_for_event: the severity of version 2.0 has two digits.
EventSize(e) ==
    EventBase + 2 + Guid + e.type + e.eventVersion + (IF e.version = 1 THEN 1 ELSE 2)
    + If(Set(e.correlationId), CorrelationIdSize + Length(e.correlationId))
    + If(Set(e.description), DescriptionSize + Length(e.description))
    + (IF Set(e.details) THEN e.details ELSE 2)

\* json_get_item_size
ItemSize(item) ==
    MetaSize(item) +
    CASE item.kind = "timeseries" -> 2 + Total(Each(ValuesSize, item.lists)) + Delimiters(item.lists)
      [] item.kind = "event" -> EventSize(item)
      [] item.kind = "configuration" ->
            ConfigurationBase + item.configurationId + Total(Each(SourceSize, item.sources)) + Delimiters(item.sources)
      [] OTHER -> item.size
-----------------------------------------------------------------------------
(* What the texts above come to: a proof can count no characters.          *)

ASSUME NamesAssumption ==
    /\ Characters("type") = 4 /\ Characters("version") = 7 /\ Characters("payload") = 7
    /\ Characters("details") = 7 /\ Characters("configurationId") = 15 /\ Characters("fileName") = 8
    /\ Characters("creationDate") = 12 /\ Characters("fileType") = 8 /\ Characters("dataPointId") = 11
    /\ Characters("value") = 5 /\ Characters("qualityCode") = 11 /\ Characters("timestamp") = 9
    /\ Characters("values") = 6 /\ Characters("id") = 2 /\ Characters("name") = 4
    /\ Characters("description") = 11 /\ Characters("unit") = 4 /\ Characters("customData") = 10
    /\ Characters("dataPoints") = 10 /\ Characters("correlationId") = 13 /\ Characters("severity") = 8
    /\ Characters("dataSources") = 11 /\ Characters("item") = 4 /\ Characters("standardTimeSeries") = 18
    /\ Characters("businessEvent") = 13 /\ Characters("file") = 4
    /\ Characters("dataSourceConfiguration") = 23

ASSUME BasesAssumption ==
    /\ ItemMetaBase = 42 /\ TimeseriesMetaBase = 75 /\ ValueBase = 46 /\ ValueListBase = 52
    /\ EventMetaBase = 37 /\ EventBase = 94 /\ CorrelationIdSize = 19 /\ DescriptionSize = 17
    /\ FileMetaBase = 96 /\ FileTypeSize = 14 /\ CustomMetaBase = 24 /\ DetailsSize = 11
    /\ ConfigurationMetaBase = 47 /\ ConfigurationBase = 39 /\ SourceBase = 44 /\ PointBase = 56
    /\ CustomDataSize = 14
=============================================================================
