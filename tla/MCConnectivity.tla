---------------------------- MODULE MCConnectivity ----------------------------
(* One item of every kind, and a small one to share a store with it.         *)
EXTENDS Connectivity

CONSTANT NoValue

Complete0 == [lacks |-> {}, drift |-> 0, stale |-> FALSE]
Event(version, correlationId, description, details) ==
    [kind |-> "event", version |-> version, type |-> 3, eventVersion |-> 3, correlationId |-> correlationId,
     description |-> description, details |-> details, contentType |-> 16] @@ Complete0
Timeseries(lists) ==
    [kind |-> "timeseries", configurationId |-> 4, lists |-> lists, contentType |-> 16] @@ Complete0
File(type, size) ==
    [kind |-> "file", remoteName |-> 5, type |-> type, size |-> size, contentType |-> 24] @@ Complete0
Custom(details, size) ==
    [kind |-> "custom", type |-> 2, version |-> 3, details |-> details, size |-> size,
     contentType |-> 10] @@ Complete0
Configuration(sources) ==
    [kind |-> "configuration", configurationId |-> 4, sources |-> sources, contentType |-> 16] @@ Complete0

Value == [id |-> 2, value |-> 3, quality |-> 1]
Point(description, customData) ==
    [id |-> 1, name |-> 2, type |-> 3, unit |-> 0, description |-> description, customData |-> customData]
Source(description, customData, points) ==
    [name |-> 2, description |-> description, customData |-> customData, points |-> points]

Big ==
    {Event(1, NoValue, NoValue, NoValue), [Event(2, 5, 7, 9) EXCEPT !.lacks = {"timestamp"}],
     [Event(2, 0, 0, 9) EXCEPT !.drift = 1],
     Timeseries(<< <<Value, Value>>, <<Value>> >>),
     Timeseries(<< <<[Value EXCEPT !.quality = NoValue]>> >>), Timeseries(<< <<>> >>),
     File(NoValue, 10), File(4, 600), [File(4, 20) EXCEPT !.drift = -5], [File(4, 20) EXCEPT !.drift = 3],
     [File(4, 20) EXCEPT !.drift = 300],
     Custom(NoValue, 8), Custom(12, 8), [Custom(2, 8) EXCEPT !.lacks = {"type"}, !.type = 0],
     Configuration(<<Source(NoValue, NoValue, <<Point(4, NoValue), Point(NoValue, 6)>>),
                     Source(3, 2, <<Point(4, 5)>>)>>),
     Configuration(<<Source(NoValue, NoValue, <<[Point(4, 6) EXCEPT !.id = NoValue]>>)>>)}

MCCatalogue == [big |-> Big, small |-> {File(NoValue, 1)}]
MCMaxEntries == [source |-> 1, point |-> 2]
=============================================================================
