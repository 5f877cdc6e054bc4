---------------------------- MODULE DataLakeUpload ----------------------------
(***************************************************************************)
(* Uploading objects to the data lake: data_lake.c, data_lake_processor.c, *)
(* data_lake_json.c and data_lake_object.c of mcl_data_lake/src.           *)
(*                                                                         *)
(* The application asks for signed URLs for one object or for a list of    *)
(* them, and uploads each object to its URL.  The service answers with     *)
(* entries in any order, which are matched to the objects by their paths.  *)
(* The loop over the entries is cut at every entry, and an entry is chosen *)
(* when the loop reaches it.                                               *)
(***************************************************************************)
EXTENDS Naturals, Sequences, FiniteSets

CONSTANTS
    Objects,     \* handles of the objects
    Paths,       \* paths the application sets, as sequences of characters
    NoPath,      \* MCL_NULL of a path
    NoUrl,       \* MCL_NULL of a signed URL
    Nothing,     \* there is nothing under a path
    MaxObjects,  \* bound: longest list of objects
    MaxCalls,    \* bound: requests for URLs the application makes
    MaxEntries   \* bound: entries of an answer

ASSUME PathAssumption == Paths \subseteq Seq(Nat) /\ NoPath \notin Paths

\* The service signs a URL for a path, at a request.
Urls == [path : {p \in Paths : Len(p) > 0}, call : Nat]

ASSUME NullAssumption == NoUrl \notin Urls /\ Nothing \notin Objects

VARIABLES
    path,     \* path of every object
    url,      \* its signed_url
    ready,    \* objects that have a callback and a size
    pc,       \* where the call is
    array,    \* object_array of the call
    index,    \* entries the loop has passed
    ret,      \* result of the last call
    stored,   \* the service: object last uploaded under a path
    answer,   \* answer of the service to an upload
    call,     \* history: requests for URLs so far
    asked,    \* history: the last one that took in the object
    moved,    \* history: objects whose path was set after that
    signed    \* history: entries of this answer with a URL, by path

object == <<path, url, ready>>
history == <<asked, moved, signed>>
vars == <<path, url, ready, pc, array, index, ret, stored, answer,
          call, asked, moved, signed>>

Results == {"none", "ok", "no_token", "invalid", "fail", "no_url"}

NoEntries == [p \in Paths |-> 0]

TypeOK ==
    /\ path \in [Objects -> Paths \cup {NoPath}]
    /\ url \in [Objects -> Urls \cup {NoUrl}]
    /\ ready \in SUBSET Objects
    /\ pc \in {"idle", "sent", "matching", "uploading"}
    /\ array \in Seq(Objects)
    /\ index \in Nat
    /\ ret \in Results
    /\ stored \in [Paths -> Objects \cup {Nothing}]
    /\ answer \in {"none", "ok", "error"}
    /\ call \in Nat
    /\ asked \in [Objects -> Nat]
    /\ moved \in SUBSET Objects
    /\ signed \in [Paths -> Nat]

Init ==
    /\ path = [o \in Objects |-> NoPath]
    /\ url = [o \in Objects |-> NoUrl]
    /\ ready = {}
    /\ pc = "idle"
    /\ array = <<>>
    /\ index = 0
    /\ ret = "none"
    /\ stored = [p \in Paths |-> Nothing]
    /\ answer = "none"
    /\ call = 0
    /\ asked = [o \in Objects |-> 0]
    /\ moved = {}
    /\ signed = NoEntries

-----------------------------------------------------------------------------
(* Helpers.                                                                *)

Taken == {array[i] : i \in DOMAIN array}

Finish(result) ==
    /\ pc' = "idle"
    /\ ret' = result
    /\ array' = <<>>
    /\ index' = 0
    /\ answer' = "none"
    /\ signed' = NoEntries

-----------------------------------------------------------------------------
(* mcl_data_lake_object_set_parameter, _initialize and _destroy.           *)

\* mcl_string_util_reset frees the old path before it copies the new one, for
\* which the memory may not suffice.  signed_url stays.
SetPath(o, p) ==
    /\ pc = "idle"
    /\ path' = [path EXCEPT ![o] = p]
    /\ moved' = moved \cup {o}
    /\ UNCHANGED <<url, ready, pc, array, index, ret, stored, answer, call, asked, signed>>

\* Callback and size are set, or the size is set to 0.
SetContent(o) ==
    /\ pc = "idle"
    /\ \/ ready' = ready \cup {o}
       \/ ready' = ready \ {o}
    /\ UNCHANGED <<path, url, pc, array, index, ret, stored, answer, call, history>>

\* An object is destroyed, and another one initialized at its address.
DestroyObject(o) ==
    /\ pc = "idle"
    /\ path' = [path EXCEPT ![o] = NoPath]
    /\ url' = [url EXCEPT ![o] = NoUrl]
    /\ ready' = ready \ {o}
    /\ asked' = [asked EXCEPT ![o] = 0]
    /\ moved' = moved \ {o}
    /\ UNCHANGED <<pc, array, index, ret, stored, answer, call, signed>>

-----------------------------------------------------------------------------
(* mcl_data_lake_generate_upload_url(s)(_for_subtenant).                   *)

\* There is no access token, or no memory for the array: the objects are not
\* looked at and keep their URLs.
NoToken ==
    /\ pc = "idle"
    /\ ret' \in {"no_token", "fail"}
    /\ UNCHANGED <<object, pc, array, index, stored, answer, call, history>>

\* Variant: URLs are kept.
NotCleared(S) == url

\* _clear_signed_urls
Cleared(S) == [o \in Objects |-> IF o \in S THEN NoUrl ELSE url[o]]

\* Lists of objects the application asks URLs for: each object once.
Arrays == {s \in UNION {[1 .. n -> Objects] : n \in 0 .. MaxObjects} :
             \A i, j \in DOMAIN s : s[i] = s[j] => i = j}

\* _calculate_total_path_size counts the objects with a path.
HasPath(s) == \E i \in DOMAIN s : path[s[i]] # NoPath

\* Up to the request.  If there is a path at all, the composition of the request
\* may still fail.
GenerateUrls(s) ==
    /\ pc = "idle"
    /\ call < MaxCalls
    /\ call' = call + 1
    /\ url' = Cleared({s[i] : i \in DOMAIN s})
    /\ asked' = [o \in Objects |-> IF o \in {s[i] : i \in DOMAIN s} THEN call' ELSE asked[o]]
    /\ moved' = moved \ {s[i] : i \in DOMAIN s}
    /\ IF ~ HasPath(s) THEN Finish("invalid")
       ELSE \/ Finish("fail")
            \/ /\ pc' = "sent"
               /\ array' = s
               /\ ret' = "none"
               /\ UNCHANGED <<index, answer, signed>>
    /\ UNCHANGED <<path, ready, stored>>

\* No answer, an answer other than 201, or one that cannot be parsed.  A status
\* of 200 is turned into MCL_OK by mcl_http_response_get_status.
NoUrls ==
    /\ pc = "sent"
    /\ Finish("fail") \/ Finish("ok")
    /\ UNCHANGED <<object, stored, call, asked, moved>>

\* 201: data_lake_json_match_signed_urls_with_objects begins.
UrlsCreated ==
    /\ pc = "sent"
    /\ pc' = "matching"
    /\ UNCHANGED <<object, array, index, ret, stored, answer, call, history>>

\* Variant: the comparison stops before the null character.
StartsWith(p, own) == own # NoPath /\ Len(p) <= Len(own) /\ SubSeq(own, 1, Len(p)) = p

\* strncmp over the path of the entry with its null character; MCL_NULL is no match.
SamePath(p, own) == own = p

\* Variant: an object that has a URL takes another one.
MatchesAnyway(p, o) == SamePath(p, path[o])

Matches(p, o) == url[o] = NoUrl /\ SamePath(p, path[o])

\* _find_matching_object: the first object of the array, if there is one.
IsFirstMatch(p, i) ==
    /\ i \in DOMAIN array
    /\ Matches(p, array[i])
    /\ \A j \in 1 .. i - 1 : ~ Matches(p, array[j])

\* The path of the entry goes on after the client id and the slash.
HasName(p) == Len(p) > 0

\* An entry with a path and a URL.
MatchEntry(p) ==
    /\ pc = "matching"
    /\ index < MaxEntries
    /\ index' = index + 1
    /\ signed' = [signed EXCEPT ![p] = @ + 1]
    /\ \/ /\ HasName(p)
          /\ \E i \in DOMAIN array :
                /\ IsFirstMatch(p, i)
                /\ url' = [url EXCEPT ![array[i]] = [path |-> p, call |-> call]]
       \/ /\ HasName(p) => \A i \in DOMAIN array : ~ Matches(p, array[i])
          /\ UNCHANGED url
    /\ UNCHANGED <<path, ready, pc, array, ret, stored, answer, call, asked, moved>>

\* An entry with a path but without a URL, or no memory for it: the result of
\* _find_matching_object is dropped.
SkipEntry ==
    /\ pc = "matching"
    /\ index < MaxEntries
    /\ index' = index + 1
    /\ UNCHANGED <<object, pc, array, ret, stored, answer, call, history>>

\* An entry without a path ends the loop, and the URLs are not checked.
EntryFails ==
    /\ pc = "matching"
    /\ index < MaxEntries
    /\ Finish("fail")
    /\ UNCHANGED <<object, stored, call, asked, moved>>

\* Variant: the result is that of the last object.
LastHasUrl == url[array[Len(array)]] # NoUrl

AllHaveUrls == \A o \in Taken : path[o] # NoPath => url[o] # NoUrl

\* _check_signed_urls
CheckUrls ==
    /\ pc = "matching"
    /\ Finish(IF AllHaveUrls THEN "ok" ELSE "no_url")
    /\ UNCHANGED <<object, stored, call, asked, moved>>

-----------------------------------------------------------------------------
(* mcl_data_lake_upload.                                                   *)

\* data_lake_object_validate
IsValid(o) == path[o] # NoPath /\ url[o] # NoUrl /\ o \in ready

Upload(o) ==
    /\ pc = "idle"
    /\ IF ~ IsValid(o) THEN Finish("invalid")
       ELSE \/ Finish("fail")
            \/ /\ pc' = "uploading"
               /\ array' = <<o>>
               /\ ret' = "none"
               /\ UNCHANGED <<index, answer, signed>>
    /\ UNCHANGED <<object, stored, call, asked, moved>>

\* No answer is read: the service may have stored the object.
UploadLost ==
    /\ pc = "uploading"
    /\ Finish("fail")
    /\ UNCHANGED <<object, stored, call, asked, moved>>

\* Variant: the status is not looked at.
AnyAnswer == {"ok", "error"}

\* 200 and 201.
SuccessAnswer == {"ok"}

ReceiveUpload ==
    /\ pc = "uploading"
    /\ answer # "none"
    /\ Finish(IF answer \in SuccessAnswer THEN "ok" ELSE "fail")
    /\ UNCHANGED <<object, stored, call, asked, moved>>

-----------------------------------------------------------------------------
(* The service (external): it keeps what is put to a URL it has signed, or *)
(* refuses it, for instance because the URL has expired.                   *)

ServiceStores ==
    /\ pc = "uploading"
    /\ answer = "none"
    /\ answer' = "ok"
    /\ stored' = [stored EXCEPT ![url[array[1]].path] = array[1]]
    /\ UNCHANGED <<object, pc, array, index, ret, call, history>>

ServiceRefuses ==
    /\ pc = "uploading"
    /\ answer = "none"
    /\ answer' = "error"
    /\ UNCHANGED <<object, pc, array, index, ret, stored, call, history>>

-----------------------------------------------------------------------------

Next ==
    \/ \E o \in Objects, p \in Paths \cup {NoPath} : SetPath(o, p)
    \/ \E o \in Objects : SetContent(o) \/ DestroyObject(o) \/ Upload(o)
    \/ NoToken
    \/ \E s \in Arrays : GenerateUrls(s)
    \/ NoUrls \/ UrlsCreated
    \/ \E p \in Paths : MatchEntry(p)
    \/ SkipEntry \/ EntryFails \/ CheckUrls
    \/ UploadLost \/ ReceiveUpload
    \/ ServiceStores \/ ServiceRefuses

Spec == Init /\ [][Next]_vars

-----------------------------------------------------------------------------
(* Properties.                                                             *)

\* A URL is one of the last request that took in its object, whatever became of
\* that request: it is never left over from an earlier one.
UrlsAreFresh == \A o \in Objects : url[o] # NoUrl => url[o].call = asked[o]

\* A URL was signed for the path of the object that has it, unless the
\* application has set another path since.
UrlOfItsPath ==
    \A o \in Objects \ moved : url[o] # NoUrl => url[o].path = path[o]

HasNewUrl(o) == url[o] # NoUrl /\ url[o].call = call

\* A request that was answered with 201 ends with MCL_OK only if all objects with
\* a path have a URL of this very request, even if entries were missing, repeated
\* or not usable.
MatchedMeansUrls ==
    [][pc = "matching" /\ ret' = "ok" =>
          \A o \in Taken : path[o] # NoPath => HasNewUrl(o)]_vars

\* An answer with as many URLs for a path as there are objects with it suffices,
\* in whatever order they come and whatever else is in between; only the empty
\* path never gets one.
EnoughUrlsSuffice ==
    [][pc = "matching" /\ ret' = "no_url" =>
          \E o \in Taken :
             /\ path[o] # NoPath
             /\ HasName(path[o]) => signed[path[o]] < Cardinality({q \in Taken : path[q] = path[o]})]_vars

\* MCL_OK from an upload means that the object is at the service, under its path
\* if no other one was set since its URL was signed.
UploadedUnderItsPath ==
    [][pc = "uploading" /\ ret' = "ok" =>
          \A o \in Taken \ moved : stored[path[o]] = o]_vars

=============================================================================
