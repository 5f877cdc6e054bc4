---------------------------- MODULE DataLakeProofs ----------------------------
(* Theorems about DataLakeUpload: URLs are fresh and of their paths, and the  *)
(* results of the calls are true, for any objects, paths and bounds.          *)
EXTENDS DataLakeUpload, FiniteSetTheorems, TLAPS

\* The objects of a request in progress were asked for by it, and the application
\* has not come back to change them.
TakenByCall ==
    pc \in {"sent", "matching"} => \A o \in Taken : asked[o] = call /\ o \notin moved

\* What an upload in progress has found valid is still so.
UploadIsValid ==
    pc = "uploading" => \E o \in Objects :
        array = <<o>> /\ path[o] # NoPath /\ url[o] # NoUrl

\* An answer is there only during an upload, and one of success is true.
AnswerIsTrue ==
    /\ pc # "uploading" => answer = "none"
    /\ answer = "ok" => stored[url[array[1]].path] = array[1]

\* A result is there only between calls, entries are counted only in the loop.
CountersAreReset ==
    /\ pc # "idle" => ret = "none"
    /\ pc # "matching" => signed = NoEntries

With(p) == {o \in Taken : path[o] = p /\ url[o] # NoUrl}

\* As long as an object with the path has no URL, every entry so far has given
\* one to another object.
EntriesAreUsed ==
    \A p \in Paths : HasName(p) =>
        \/ \A o \in Taken : path[o] = p => url[o] # NoUrl
        \/ signed[p] <= Cardinality(With(p))

IInv ==
    /\ TypeOK /\ UrlsAreFresh /\ UrlOfItsPath
    /\ TakenByCall /\ UploadIsValid /\ AnswerIsTrue
    /\ CountersAreReset /\ EntriesAreUsed

-----------------------------------------------------------------------------
(* Lemmas.                                                                 *)

\* The objects of an array are finitely many.
LEMMA RangeFinite ==
    ASSUME NEW s \in Seq(Objects)
    PROVE  /\ {s[i] : i \in DOMAIN s} \in SUBSET Objects
           /\ IsFiniteSet({s[i] : i \in DOMAIN s})
<1> DEFINE R == {s[i] : i \in DOMAIN s}
<1>1. DOMAIN s = 1 .. Len(s) /\ Len(s) \in Nat /\ R \in SUBSET Objects
  OBVIOUS
<1>2. s \in Surjection(1 .. Len(s), R)
  BY <1>1 DEF Surjection
<1>3. IsFiniteSet(1 .. Len(s))
  BY <1>1, FS_Interval
<1> QED
  BY <1>1, <1>2, <1>3, FS_Surjection

\* A list the application gives is a sequence of objects.
LEMMA ArraysAreSequences == Arrays \subseteq Seq(Objects)
BY DEF Arrays

\* The empty list has no objects.
LEMMA NoneTaken == {(<< >>)[i] : i \in DOMAIN << >>} = {}
OBVIOUS

\* Some objects of an array: their number is not negative.
LEMMA CardOfSome ==
    ASSUME NEW s \in Seq(Objects), NEW W \in SUBSET {s[i] : i \in DOMAIN s}
    PROVE  IsFiniteSet(W) /\ Cardinality(W) \in Nat
<1>1. IsFiniteSet(W)
  BY RangeFinite, FS_Subset
<1> QED
  BY <1>1, FS_CardinalityType

\* Between two calls all that is left to show are the types and the URLs.
LEMMA BackToIdle ==
    ASSUME TypeOK', UrlsAreFresh', UrlOfItsPath',
           pc' = "idle", answer' = "none", signed' = NoEntries
    PROVE  IInv'
<1>1. TakenByCall' /\ UploadIsValid' /\ AnswerIsTrue' /\ CountersAreReset'
  BY DEF TakenByCall, UploadIsValid, AnswerIsTrue, CountersAreReset, NoEntries
<1>2. EntriesAreUsed'
  <2> SUFFICES ASSUME NEW p \in Paths
               PROVE  signed'[p] <= Cardinality(With(p)')
    BY DEF EntriesAreUsed, HasName
  <2>1. signed'[p] = 0
    BY DEF NoEntries
  <2>2. array' \in Seq(Objects)
    BY DEF TypeOK
  <2>3. With(p)' \in SUBSET {array'[i] : i \in DOMAIN array'}
    BY DEF With, Taken
  <2>4. Cardinality(With(p)') \in Nat
    BY <2>2, <2>3, CardOfSome
  <2> QED
    BY <2>1, <2>4
<1> QED
  BY <1>1, <1>2 DEF IInv

\* A call that ends without touching an object.
LEMMA FinishKeepsInv ==
    ASSUME IInv, NEW r \in Results, Finish(r), stored' = stored,
           UNCHANGED <<object, call, asked, moved>>
    PROVE  IInv'
<1> USE DEF IInv, object
<1>1. TypeOK'
  BY DEF TypeOK, Finish, NoEntries
<1>2. UrlsAreFresh' /\ UrlOfItsPath'
  BY DEF UrlsAreFresh, UrlOfItsPath
<1> QED
  BY <1>1, <1>2, BackToIdle DEF Finish

-----------------------------------------------------------------------------
(* The application between calls.                                          *)

LEMMA InitInv == Init => IInv
<1> SUFFICES ASSUME Init PROVE IInv
  OBVIOUS
<1>1. TypeOK /\ UrlsAreFresh /\ UrlOfItsPath
  BY DEF Init, TypeOK, UrlsAreFresh, UrlOfItsPath, Results, NoEntries
<1>2. TakenByCall /\ UploadIsValid /\ AnswerIsTrue /\ CountersAreReset
  BY DEF Init, TakenByCall, UploadIsValid, AnswerIsTrue, CountersAreReset
<1>3. EntriesAreUsed
  <2>1. Taken = {}
    BY NoneTaken DEF Init, Taken
  <2> QED
    BY <2>1 DEF EntriesAreUsed
<1> QED
  BY <1>1, <1>2, <1>3 DEF IInv

LEMMA SetPathInv ==
    ASSUME IInv, NEW o \in Objects, NEW p \in Paths \cup {NoPath}, SetPath(o, p)
    PROVE  IInv'
<1> USE DEF IInv, SetPath
<1>1. TypeOK'
  BY DEF TypeOK
<1>2. UrlsAreFresh' /\ UrlOfItsPath'
  BY DEF TypeOK, UrlsAreFresh, UrlOfItsPath
<1>3. answer' = "none" /\ signed' = NoEntries
  BY DEF AnswerIsTrue, CountersAreReset
<1> QED
  BY <1>1, <1>2, <1>3, BackToIdle DEF NoEntries

LEMMA SetContentInv ==
    ASSUME IInv, NEW o \in Objects, SetContent(o)
    PROVE  IInv'
<1> USE DEF IInv, SetContent, history
<1>1. TypeOK'
  BY DEF TypeOK
<1>2. UrlsAreFresh' /\ UrlOfItsPath'
  BY DEF TypeOK, UrlsAreFresh, UrlOfItsPath
<1>3. answer' = "none" /\ signed' = NoEntries
  BY DEF AnswerIsTrue, CountersAreReset
<1> QED
  BY <1>1, <1>2, <1>3, BackToIdle DEF NoEntries

LEMMA DestroyObjectInv ==
    ASSUME IInv, NEW o \in Objects, DestroyObject(o)
    PROVE  IInv'
<1> USE DEF IInv, DestroyObject
<1>1. TypeOK'
  BY DEF TypeOK
<1>2. UrlsAreFresh' /\ UrlOfItsPath'
  BY DEF TypeOK, UrlsAreFresh, UrlOfItsPath
<1>3. answer' = "none" /\ signed' = NoEntries
  BY DEF AnswerIsTrue, CountersAreReset
<1> QED
  BY <1>1, <1>2, <1>3, BackToIdle DEF NoEntries

LEMMA NoTokenInv ==
    ASSUME IInv, NoToken
    PROVE  IInv'
<1> USE DEF IInv, NoToken, object, history
<1>1. TypeOK'
  BY DEF TypeOK, Results
<1>2. UrlsAreFresh' /\ UrlOfItsPath'
  BY DEF TypeOK, UrlsAreFresh, UrlOfItsPath
<1>3. answer' = "none" /\ signed' = NoEntries
  BY DEF AnswerIsTrue, CountersAreReset
<1> QED
  BY <1>1, <1>2, <1>3, BackToIdle DEF NoEntries

-----------------------------------------------------------------------------
(* The request for URLs.                                                   *)

LEMMA GenerateUrlsInv ==
    ASSUME IInv, NEW s \in Arrays, GenerateUrls(s)
    PROVE  IInv'
<1> DEFINE S == {s[i] : i \in DOMAIN s}
<1> USE DEF IInv
<1>1. s \in Seq(Objects) /\ S \in SUBSET Objects
  BY ArraysAreSequences, RangeFinite
<1>2. /\ pc = "idle" /\ call' = call + 1 /\ url' = Cleared(S) /\ moved' = moved \ S
      /\ asked' = [o \in Objects |-> IF o \in S THEN call' ELSE asked[o]]
      /\ path' = path /\ ready' = ready /\ stored' = stored
  BY DEF GenerateUrls
<1>3. /\ path' \in [Objects -> Paths \cup {NoPath}] /\ url' \in [Objects -> Urls \cup {NoUrl}]
      /\ ready' \in SUBSET Objects /\ stored' \in [Paths -> Objects \cup {Nothing}]
      /\ call' \in Nat /\ asked' \in [Objects -> Nat] /\ moved' \in SUBSET Objects
  BY <1>2 DEF TypeOK, Cleared
<1>4. UrlsAreFresh'
  BY <1>2, <1>3 DEF TypeOK, UrlsAreFresh, Cleared
<1>5. UrlOfItsPath'
  BY <1>2, <1>3 DEF TypeOK, UrlOfItsPath, Cleared
<1>6. \/ Finish("invalid") \/ Finish("fail")
      \/ /\ pc' = "sent" /\ array' = s /\ ret' = "none"
         /\ UNCHANGED <<index, answer, signed>>
  BY DEF GenerateUrls
<1>7. CASE Finish("invalid") \/ Finish("fail")
  <2>0. PICK r \in Results : Finish(r)
    BY <1>7 DEF Results
  <2>1. TypeOK'
    BY <1>3, <2>0 DEF TypeOK, Finish, NoEntries
  <2> QED
    BY <2>0, <2>1, <1>4, <1>5, BackToIdle DEF Finish
<1>8. CASE /\ pc' = "sent" /\ array' = s /\ ret' = "none"
           /\ UNCHANGED <<index, answer, signed>>
  <2>1. TypeOK'
    BY <1>1, <1>3, <1>8 DEF TypeOK, Results
  <2>2. Taken' = S
    BY <1>8 DEF Taken
  <2>3. TakenByCall'
    BY <1>1, <1>2, <2>2 DEF TakenByCall
  <2>4. signed' = NoEntries /\ answer' = "none"
    BY <1>2, <1>8 DEF CountersAreReset, AnswerIsTrue
  <2>5. UploadIsValid' /\ AnswerIsTrue' /\ CountersAreReset'
    BY <1>8, <2>4 DEF UploadIsValid, AnswerIsTrue, CountersAreReset, NoEntries
  <2>6. EntriesAreUsed'
    <3> SUFFICES ASSUME NEW p \in Paths PROVE signed'[p] <= Cardinality(With(p)')
      BY DEF EntriesAreUsed, HasName
    <3>1. With(p)' \in SUBSET {s[i] : i \in DOMAIN s}
      BY <2>2 DEF With
    <3>2. Cardinality(With(p)') \in Nat
      BY <1>1, <3>1, CardOfSome
    <3> QED
      BY <2>4, <3>2 DEF NoEntries
  <2> QED
    BY <2>1, <2>3, <2>5, <2>6, <1>4, <1>5
<1> QED
  BY <1>6, <1>7, <1>8

LEMMA UrlsCreatedInv ==
    ASSUME IInv, UrlsCreated
    PROVE  IInv'
<1> USE DEF IInv, UrlsCreated, object, history
<1>1. TypeOK'
  BY DEF TypeOK
<1>2. Taken' = Taken /\ \A p \in Paths : With(p)' = With(p)
  BY DEF Taken, With
<1>3. UrlsAreFresh' /\ UrlOfItsPath' /\ TakenByCall' /\ UploadIsValid'
  BY <1>2 DEF UrlsAreFresh, UrlOfItsPath, TakenByCall, UploadIsValid
<1>4. AnswerIsTrue' /\ CountersAreReset'
  BY DEF AnswerIsTrue, CountersAreReset
<1>5. EntriesAreUsed'
  BY <1>2 DEF EntriesAreUsed
<1> QED
  BY <1>1, <1>3, <1>4, <1>5

\* The entry gives its URL to the first object of its path without one.
LEMMA MatchInv ==
    ASSUME IInv, NEW p \in Paths, MatchEntry(p), HasName(p),
           NEW i \in DOMAIN array, IsFirstMatch(p, i),
           url' = [url EXCEPT ![array[i]] = [path |-> p, call |-> call]]
    PROVE  IInv'
<1> DEFINE o == array[i]
           u == [path |-> p, call |-> call]
<1> USE DEF IInv
<1>1. /\ pc = "matching" /\ pc' = pc /\ array' = array /\ ret' = ret /\ path' = path
      /\ answer' = answer /\ stored' = stored /\ call' = call /\ asked' = asked
      /\ moved' = moved /\ ready' = ready /\ index' = index + 1
      /\ signed' = [signed EXCEPT ![p] = @ + 1]
  BY DEF MatchEntry
<1>2. o \in Taken /\ o \in Objects /\ Taken' = Taken /\ Taken \in SUBSET Objects
  BY <1>1, RangeFinite DEF Taken, TypeOK
<1>3. url[o] = NoUrl /\ path[o] = p
  BY DEF IsFirstMatch, Matches, SamePath
<1>4. u \in Urls /\ u # NoUrl /\ u.path = p /\ u.call = call
  BY NullAssumption DEF TypeOK, Urls, HasName
<1>5. url' = [url EXCEPT ![o] = u]
  OBVIOUS
<1> HIDE DEF o, u
<1>6. url' \in [Objects -> Urls \cup {NoUrl}]
  BY <1>2, <1>4, <1>5 DEF TypeOK
<1>7. TypeOK'
  BY <1>1, <1>6 DEF TypeOK
<1>8. asked[o] = call
  BY <1>1, <1>2 DEF TakenByCall
<1>9. UrlsAreFresh' /\ UrlOfItsPath'
  BY <1>1, <1>2, <1>3, <1>4, <1>5, <1>8 DEF TypeOK, UrlsAreFresh, UrlOfItsPath
<1>10. TakenByCall' /\ UploadIsValid' /\ AnswerIsTrue' /\ CountersAreReset'
  BY <1>1, <1>2 DEF TakenByCall, UploadIsValid, AnswerIsTrue, CountersAreReset
<1>11. EntriesAreUsed'
  <2> SUFFICES ASSUME NEW q \in Paths, HasName(q),
                      NEW w \in Taken, path[w] = q, url'[w] = NoUrl
               PROVE  signed'[q] <= Cardinality(With(q)')
    BY <1>1, <1>2 DEF EntriesAreUsed, HasName
  <2>1. w # o /\ url[w] = NoUrl
    BY <1>2, <1>4, <1>5 DEF TypeOK
  <2>2. signed[q] <= Cardinality(With(q))
    BY <2>1 DEF EntriesAreUsed
  <2>3. CASE q = p
    <3>1. With(p)' = With(p) \cup {o} /\ o \notin With(p)
      BY <1>1, <1>2, <1>3, <1>4, <1>5 DEF With, TypeOK
    <3>2. IsFiniteSet(With(p)) /\ Cardinality(With(p)) \in Nat
      <4>1. With(p) \in SUBSET {array[j] : j \in DOMAIN array} /\ array \in Seq(Objects)
        BY DEF With, Taken, TypeOK
      <4> QED
        BY <4>1, CardOfSome
    <3>3. Cardinality(With(p) \cup {o}) = Cardinality(With(p)) + 1
      BY <3>1, <3>2, FS_AddElement
    <3>4. signed'[p] = signed[p] + 1 /\ signed[p] \in Nat
      BY <1>1 DEF TypeOK
    <3> QED
      BY <2>2, <2>3, <3>1, <3>2, <3>3, <3>4
  <2>4. CASE q # p
    <3>1. With(q)' = With(q)
      BY <1>1, <1>2, <1>3, <1>5, <2>4 DEF With, TypeOK
    <3>2. signed'[q] = signed[q]
      BY <1>1, <2>4 DEF TypeOK
    <3> QED
      BY <2>2, <3>1, <3>2
  <2> QED
    BY <2>3, <2>4
<1> QED
  BY <1>7, <1>9, <1>10, <1>11

\* The entry is of no use to any object.
LEMMA NoMatchInv ==
    ASSUME IInv, NEW p \in Paths, MatchEntry(p), UNCHANGED url,
           HasName(p) => \A i \in DOMAIN array : ~ Matches(p, array[i])
    PROVE  IInv'
<1> USE DEF IInv
<1>1. /\ pc = "matching" /\ pc' = pc /\ array' = array /\ ret' = ret /\ path' = path
      /\ answer' = answer /\ stored' = stored /\ call' = call /\ asked' = asked
      /\ moved' = moved /\ ready' = ready /\ index' = index + 1
      /\ signed' = [signed EXCEPT ![p] = @ + 1]
  BY DEF MatchEntry
<1>2. Taken' = Taken /\ \A q \in Paths : With(q)' = With(q)
  BY <1>1 DEF Taken, With
<1>3. TypeOK'
  BY <1>1 DEF TypeOK
<1>4. UrlsAreFresh' /\ UrlOfItsPath'
  BY <1>1 DEF UrlsAreFresh, UrlOfItsPath
<1>5. TakenByCall' /\ UploadIsValid' /\ AnswerIsTrue' /\ CountersAreReset'
  BY <1>1, <1>2 DEF TakenByCall, UploadIsValid, AnswerIsTrue, CountersAreReset
<1>6. EntriesAreUsed'
  <2> SUFFICES ASSUME NEW q \in Paths, HasName(q),
                      NEW w \in Taken, path[w] = q, url[w] = NoUrl
               PROVE  signed'[q] <= Cardinality(With(q)')
    BY <1>1, <1>2 DEF EntriesAreUsed, HasName
  <2>1. q # p
    BY DEF Taken, Matches, SamePath
  <2>2. signed'[q] = signed[q]
    BY <1>1, <2>1 DEF TypeOK
  <2> QED
    BY <1>2, <2>2 DEF EntriesAreUsed
<1> QED
  BY <1>3, <1>4, <1>5, <1>6

LEMMA SkipEntryInv ==
    ASSUME IInv, SkipEntry
    PROVE  IInv'
<1> USE DEF IInv, SkipEntry, object, history
<1>1. Taken' = Taken /\ \A p \in Paths : With(p)' = With(p)
  BY DEF Taken, With
<1>2. TypeOK' /\ UrlsAreFresh' /\ UrlOfItsPath'
  BY DEF TypeOK, UrlsAreFresh, UrlOfItsPath
<1>3. TakenByCall' /\ UploadIsValid' /\ AnswerIsTrue' /\ CountersAreReset'
  BY <1>1 DEF TakenByCall, UploadIsValid, AnswerIsTrue, CountersAreReset
<1>4. EntriesAreUsed'
  BY <1>1 DEF EntriesAreUsed
<1> QED
  BY <1>2, <1>3, <1>4

-----------------------------------------------------------------------------
(* The upload, and the service.                                            *)

LEMMA UploadInv ==
    ASSUME IInv, NEW o \in Objects, Upload(o)
    PROVE  IInv'
<1> USE DEF IInv
<1>1. pc = "idle" /\ UNCHANGED <<object, stored, call, asked, moved>>
  BY DEF Upload
<1>2. \/ Finish("invalid") \/ Finish("fail")
      \/ /\ IsValid(o) /\ pc' = "uploading" /\ array' = <<o>> /\ ret' = "none"
         /\ UNCHANGED <<index, answer, signed>>
  BY DEF Upload
<1>3. CASE Finish("invalid") \/ Finish("fail")
  <2>1. PICK r \in Results : Finish(r)
    BY <1>3 DEF Results
  <2> QED
    BY <1>1, <2>1, FinishKeepsInv
<1>4. CASE /\ IsValid(o) /\ pc' = "uploading" /\ array' = <<o>> /\ ret' = "none"
           /\ UNCHANGED <<index, answer, signed>>
  <2>1. TypeOK' /\ UrlsAreFresh' /\ UrlOfItsPath'
    BY <1>1, <1>4 DEF TypeOK, UrlsAreFresh, UrlOfItsPath, Results, object
  <2>2. signed' = NoEntries /\ answer' = "none"
    BY <1>1, <1>4 DEF CountersAreReset, AnswerIsTrue
  <2>3. TakenByCall' /\ UploadIsValid' /\ AnswerIsTrue' /\ CountersAreReset'
    BY <1>1, <1>4, <2>2
    DEF TakenByCall, UploadIsValid, AnswerIsTrue, CountersAreReset, NoEntries, IsValid, object
  <2>4. EntriesAreUsed'
    <3>1. \A w \in Taken' : url'[w] # NoUrl
      BY <1>1, <1>4 DEF Taken, IsValid, object
    <3> QED
      BY <3>1 DEF EntriesAreUsed
  <2> QED
    BY <2>1, <2>3, <2>4
<1> QED
  BY <1>2, <1>3, <1>4

LEMMA ServiceInv ==
    ASSUME IInv, ServiceStores \/ ServiceRefuses
    PROVE  IInv'
<1> USE DEF IInv, object, history
<1>1. /\ pc = "uploading"
      /\ UNCHANGED <<object, pc, array, index, ret, call, asked, moved, signed>>
  BY DEF ServiceStores, ServiceRefuses
<1>2. PICK o \in Objects : array = <<o>> /\ path[o] # NoPath /\ url[o] # NoUrl
  BY <1>1 DEF UploadIsValid
<1>3. Taken' = Taken /\ \A p \in Paths : With(p)' = With(p)
  BY <1>1 DEF Taken, With
<1>4. array[1] = o /\ url[o] \in Urls /\ url[o].path \in Paths
  BY <1>2 DEF TypeOK, Urls
<1>5. /\ stored' \in [Paths -> Objects \cup {Nothing}] /\ answer' \in {"ok", "error"}
      /\ answer' = "ok" => stored'[url[o].path] = o
  BY <1>4 DEF TypeOK, ServiceStores, ServiceRefuses
<1>6. TypeOK' /\ UrlsAreFresh' /\ UrlOfItsPath'
  BY <1>1, <1>5 DEF TypeOK, UrlsAreFresh, UrlOfItsPath
<1>7. AnswerIsTrue'
  BY <1>1, <1>4, <1>5 DEF AnswerIsTrue
<1>8. TakenByCall' /\ UploadIsValid' /\ CountersAreReset'
  BY <1>1, <1>3 DEF TakenByCall, UploadIsValid, CountersAreReset
<1>9. EntriesAreUsed'
  BY <1>1, <1>3 DEF EntriesAreUsed
<1> QED
  BY <1>6, <1>7, <1>8, <1>9

-----------------------------------------------------------------------------
(* The theorems.                                                           *)

LEMMA NextInv ==
    ASSUME IInv, [Next]_vars
    PROVE  IInv'
<1>1. ASSUME NEW o \in Objects, NEW p \in Paths \cup {NoPath}, SetPath(o, p) PROVE IInv'
  BY <1>1, SetPathInv
<1>2. ASSUME NEW o \in Objects, SetContent(o) \/ DestroyObject(o) \/ Upload(o) PROVE IInv'
  BY <1>2, SetContentInv, DestroyObjectInv, UploadInv
<1>3. CASE NoToken
  BY <1>3, NoTokenInv
<1>4. ASSUME NEW s \in Arrays, GenerateUrls(s) PROVE IInv'
  BY <1>4, GenerateUrlsInv
<1>5. CASE NoUrls \/ EntryFails \/ CheckUrls \/ UploadLost \/ ReceiveUpload
  <2>1. /\ UNCHANGED <<object, stored, call, asked, moved>>
        /\ \E r \in Results : Finish(r)
    BY <1>5 DEF NoUrls, EntryFails, CheckUrls, UploadLost, ReceiveUpload, Results
  <2> QED
    BY <2>1, FinishKeepsInv
<1>6. CASE UrlsCreated
  BY <1>6, UrlsCreatedInv
<1>7. ASSUME NEW p \in Paths, MatchEntry(p) PROVE IInv'
  <2>1. \/ HasName(p) /\ \E i \in DOMAIN array :
                /\ IsFirstMatch(p, i)
                /\ url' = [url EXCEPT ![array[i]] = [path |-> p, call |-> call]]
        \/ /\ HasName(p) => \A i \in DOMAIN array : ~ Matches(p, array[i])
           /\ UNCHANGED url
    BY <1>7 DEF MatchEntry
  <2> QED
    BY <1>7, <2>1, MatchInv, NoMatchInv
<1>8. CASE SkipEntry
  BY <1>8, SkipEntryInv
<1>9. CASE ServiceStores \/ ServiceRefuses
  BY <1>9, ServiceInv
<1>10. CASE UNCHANGED vars
  <2>1. Taken' = Taken /\ \A p \in Paths : With(p)' = With(p)
    BY <1>10 DEF Taken, With, vars
  <2> QED
    BY <1>10, <2>1 DEF IInv, vars, TypeOK, UrlsAreFresh, UrlOfItsPath, TakenByCall, UploadIsValid,
       AnswerIsTrue, CountersAreReset, EntriesAreUsed
<1> QED
  BY <1>1, <1>2, <1>3, <1>4, <1>5, <1>6, <1>7, <1>8, <1>9, <1>10 DEF Next

\* The inductive invariant of the requests for URLs, the loop over the entries of
\* an answer (data_lake_json_match_signed_urls_with_objects) and the uploads.
THEOREM Invariance == Spec => []IInv
<1>1. IInv /\ [Next]_vars => IInv'
  BY NextInv
<1> QED
  BY InitInv, <1>1, PTL DEF Spec

\* Every variable keeps its type; no object gets a URL by the empty path.
THEOREM TypeCorrect == Spec => []TypeOK
<1>1. IInv => TypeOK
  BY DEF IInv
<1> QED
  BY Invariance, <1>1, PTL

\* No URL is left over from an earlier request (_clear_signed_urls).
THEOREM UrlsFresh == Spec => []UrlsAreFresh
<1>1. IInv => UrlsAreFresh
  BY DEF IInv
<1> QED
  BY Invariance, <1>1, PTL

\* _find_matching_object gives a URL only to an object of its path.
THEOREM UrlsMatch == Spec => []UrlOfItsPath
<1>1. IInv => UrlOfItsPath
  BY DEF IInv
<1> QED
  BY Invariance, <1>1, PTL

\* Which steps end the loop with a result other than MCL_FAIL, or an upload.
LEMMA EndOfCall ==
    ASSUME IInv, Next
    PROVE  /\ pc = "matching" /\ ret' \in {"ok", "no_url"} =>
                 CheckUrls /\ ret' = (IF AllHaveUrls THEN "ok" ELSE "no_url")
           /\ pc = "uploading" /\ ret' = "ok" =>
                 answer = "ok" /\ stored' = stored
<1>1. pc # "idle" => ret = "none"
  BY DEF IInv, CountersAreReset
<1>2. CASE pc = "matching"
  BY <1>1, <1>2 DEF Next, SetPath, SetContent, DestroyObject, Upload, NoToken, GenerateUrls,
     NoUrls, UrlsCreated, MatchEntry, SkipEntry, EntryFails, CheckUrls, UploadLost,
     ReceiveUpload, ServiceStores, ServiceRefuses, Finish
<1>3. CASE pc = "uploading"
  BY <1>1, <1>3 DEF Next, SetPath, SetContent, DestroyObject, Upload, NoToken, GenerateUrls,
     NoUrls, UrlsCreated, MatchEntry, SkipEntry, EntryFails, CheckUrls, UploadLost,
     ReceiveUpload, SuccessAnswer, ServiceStores, ServiceRefuses, Finish
<1> QED
  BY <1>2, <1>3

\* _check_signed_urls: with an answer of 201, MCL_OK means a new URL for every path.
THEOREM MatchingIsTrue == Spec => MatchedMeansUrls
<1>1. ASSUME IInv, Next, pc = "matching", ret' = "ok", NEW o \in Taken, path[o] # NoPath
      PROVE  HasNewUrl(o)
  <2>1. o \in Objects
    BY <1>1, RangeFinite DEF IInv, Taken, TypeOK
  <2>2. url[o] # NoUrl
    BY <1>1, EndOfCall DEF AllHaveUrls
  <2>3. url[o].call = asked[o] /\ asked[o] = call
    BY <1>1, <2>1, <2>2 DEF IInv, UrlsAreFresh, TakenByCall
  <2> QED
    BY <2>2, <2>3 DEF HasNewUrl
<1>2. IInv /\ [Next]_vars =>
        [pc = "matching" /\ ret' = "ok" => \A o \in Taken : path[o] # NoPath => HasNewUrl(o)]_vars
  BY <1>1
<1> QED
  BY Invariance, <1>2, PTL DEF Spec, MatchedMeansUrls

\* The loop wastes no URL: MCL_DATA_LAKE_SIGNED_URL_GENERATION_FAIL means that the
\* answer had too few of them for some path.
THEOREM FailureIsJustified == Spec => EnoughUrlsSuffice
<1>1. ASSUME IInv, Next, pc = "matching", ret' = "no_url"
      PROVE  \E o \in Taken :
                /\ path[o] # NoPath
                /\ HasName(path[o]) => signed[path[o]] < Cardinality({q \in Taken : path[q] = path[o]})
  <2>1. PICK o \in Taken : path[o] # NoPath /\ url[o] = NoUrl
    BY <1>1, EndOfCall DEF AllHaveUrls
  <2> DEFINE p == path[o]
             All == {q \in Taken : path[q] = p}
  <2>2. p \in Paths /\ array \in Seq(Objects)
    BY <1>1, <2>1, RangeFinite DEF IInv, Taken, TypeOK
  <2>3. ASSUME HasName(p) PROVE signed[p] < Cardinality(All)
    <3>1. signed[p] <= Cardinality(With(p))
      BY <1>1, <2>1, <2>2, <2>3 DEF IInv, EntriesAreUsed
    <3>2. With(p) \in SUBSET All /\ o \in All /\ o \notin With(p)
      BY <2>1 DEF With
    <3>3. All \in SUBSET {array[i] : i \in DOMAIN array}
      BY DEF Taken
    <3>4. IsFiniteSet(All) /\ Cardinality(All) \in Nat
      BY <2>2, <3>3, CardOfSome
    <3>5. Cardinality(With(p)) <= Cardinality(All) /\ Cardinality(With(p)) # Cardinality(All)
      BY <3>2, <3>4, FS_Subset
    <3>6. Cardinality(With(p)) \in Nat
      BY <3>2, <3>4, FS_Subset, FS_CardinalityType
    <3>7. signed[p] \in Nat
      BY <1>1, <2>2 DEF IInv, TypeOK
    <3> QED
      BY <3>1, <3>4, <3>5, <3>6, <3>7
  <2> QED
    BY <2>1, <2>3
<1>2. IInv /\ [Next]_vars =>
        [pc = "matching" /\ ret' = "no_url" =>
            \E o \in Taken :
               /\ path[o] # NoPath
               /\ HasName(path[o]) => signed[path[o]] < Cardinality({q \in Taken : path[q] = path[o]})]_vars
  BY <1>1
<1> QED
  BY Invariance, <1>2, PTL DEF Spec, EnoughUrlsSuffice

\* mcl_data_lake_upload: MCL_OK means that the object is at the service, by its path.
THEOREM UploadsArrive == Spec => UploadedUnderItsPath
<1>1. ASSUME IInv, Next, pc = "uploading", ret' = "ok", NEW o \in Taken \ moved
      PROVE  stored[path[o]] = o
  <2>1. PICK w \in Objects : array = <<w>> /\ url[w] # NoUrl
    BY <1>1 DEF IInv, UploadIsValid
  <2>2. o = w /\ array[1] = o
    BY <1>1, <2>1 DEF Taken
  <2>3. stored[url[o].path] = o
    BY <1>1, <2>2, EndOfCall DEF IInv, AnswerIsTrue
  <2>4. url[o].path = path[o]
    BY <1>1, <2>1, <2>2 DEF IInv, UrlOfItsPath
  <2> QED
    BY <2>3, <2>4
<1>2. IInv /\ [Next]_vars =>
        [pc = "uploading" /\ ret' = "ok" => \A o \in Taken \ moved : stored[path[o]] = o]_vars
  BY <1>1
<1> QED
  BY Invariance, <1>2, PTL DEF Spec, UploadedUnderItsPath

=============================================================================
