# MindConnect Library: a verification development in TLA+

MindConnect Library (MCL) is a C library that connects agents to MindSphere. This directory
holds TLA+ modules that model its core logic, TLC configurations that check them on small
instances, and theorems about them that TLAPS proves for every value of the constants.

Modules are translated from the code, not from its documentation. Where the two disagree,
section 4 says so.

How to run it:

    tlc -workers 2 -config CredentialsShared.cfg AgentCredentials.tla
    tlapm AgentCredentialsProofs.tla

`PROJECT.json` lists the runs with their modules, the theorems, the lines of code every
definition stands for, and for each property a variant of the model that breaks it.

## 1. The system and its parts

| part | code | state it keeps | operations | here |
|---|---|---|---|---|
| agent credentials | `mcl_core/src/core.c`, `core_processor.c`, `security_handler.c` | client id, client secret or RSA key pair, registration access token, registration URI, access token, time of the last token | initialize, onboard, rotate key, update credentials, get access token, getters, destroy | `AgentCredentials`, `CredentialSync` |
| core configuration | `core_configuration.c`, `core_common.c` | callbacks, initial token, security profile, hosts | setters | constants of `AgentCredentials` |
| store and its exchange | `mcl_connectivity/src/store.c`, `connectivity.c`, `connectivity_processor.c`, `multipart.c` | items with a status and a size, next id, the body of a request | create items, exchange a store, destroy | `StoreExchange`, `Outbox` |
| connectivity handles and calls | `connectivity_configuration.c`, `connectivity.c`, `connectivity_processor.c` | URLs, pointers copied from the core | initialize, exchange an item or a store, create mappings, get data sources | `Connectivity` |
| connectivity items | `event.c`, `file.c`, `custom_data.c`, `timeseries*.c`, `data_source*.c`, `data_point.c`, `mapping.c` | the values set, an open file | initialize, setters, validate, destroy | `Connectivity` |
| connectivity JSON | `mcl_connectivity/src/json.c` | none | sizes and texts of items; parsing of data source configurations | `ItemSizes`, `DataSourceParser` |
| linked list | `mcl_core/src/list.c` | nodes, head, last, cursor, count | add, next, reset, remove, search, destroy | `LinkedList` |
| data lake | `mcl_data_lake/src` | object with path, signed URL, upload callback | generate URLs for an object or a list, upload | `DataLakeUpload`; its loop over a list in `LinkedList` |
| deployment | `mcl_deployment/src` | configuration, handle, workflows | list, get, update | `Deployment` |
| HTTP client on sockets | `http_client/basic`, `http_request.c`, `http_response.c` | certificates, connection, buffers | send a request, receive a response | `HttpClient`, `HttpCall` |
| HTTP client on libcurl | `http_client/curl` | certificates, the options of one easy handle | the same | `HttpClientCurl`, `HttpCall` |
| JSON Web Token | `jwt.c`, parts of `core_processor.c` | header, payload, texts | compose, sign | `JsonWebToken` |
| JSON | `json_util.c` | trees of nodes | build, join, copy, parse, read, destroy | `JsonTree` |
| encodings, searches | `base64.c`, `hmac.c`, `string_util.c`, `http_response.c`, `data_lake_processor.c` | none | functions of their input | `Base64`, `Codecs`, `CorrelationId` |
| key pairs, hashes, random numbers | `random.c`, `crypto/*` | a key pair | make keys, sign, hash | outcomes in `AgentCredentials`, `JsonWebToken`, `Codecs` |
| files, memory, time, log | `file_util/*`, `memory.c`, `time_util.c`, `log_util.c` | none | helpers | outcomes only |
| callbacks of the examples | `mcl_core/examples/callbacks.c` | the credential file | load, save | `AgentCredentials` |
| cJSON, CMock, tests, other examples | `mcl_core/lib`, `test`, `examples` | | | vendored or not the library's own logic |

**Interaction.** The application owns everything and calls the library; no function of the
library runs in a thread of its own. Connectivity, data lake and deployment handles are made
from a core handle and use its HTTP client, its access token and, for some of them, its
client id. The core calls back: to load and save credentials, and to enter and leave a
critical section, which exists because several *processes* of an agent may share one
credential file (`mcl_core.h` on `mcl_core_update_credentials`: credentials "changed by
another process"). Everything else happens over HTTP with services that answer, answer with
an error, do not answer, or act on a request whose answer is never read. Memory may run out
at every allocation, and many calls break off in the middle of a nested structure.

**What is hard here, and what makes each part correct.**

* *Agent credentials.* A registration is four or five values that must belong together; they
  are in the handle, in the storage and at the service, and no two of these change together.
  An answer may be lost after the service has acted; the save may fail after the handle has
  changed, and truncates the file first; another process may do the same at the same time; an
  update takes over some of the values only; an RSA key pair is replaced before the service has
  agreed. Correct: what a handle or the storage holds is one registration as a whole; the
  storage never goes back to an older one; success means stored; a handle keeps its client; a
  token belongs to the client of its handle; whoever enters the critical section leaves it.
* *Store exchange.* A call runs as many rounds as it takes; in each, an item is selected by a
  size measured earlier, written with a size that may be another, and removed by a status set
  between. Items may be too large, may fail to be added, may have their answer lost. Correct:
  no item leaves the store untaken; no item is sent again after the service has confirmed it;
  a body stays within the limit; the items refused are those that are too large; the rounds
  come to an end.
* *Linked list.* It has one cursor, which the loops of the library share with the application,
  and nodes are freed while the cursor is under way. Correct: the pointers spell out one list,
  none leads to a freed node, and a loop meets every node once.
* *Items and calls of connectivity.* The size of an item is computed apart from its text, with
  constants for every brace and quote. An item may be changed after it went into a store, and
  pointers of the core and the configuration are copied by handles and freed by their owners.
  Correct: the estimate suffices; what is incomplete does not leave; and nothing crashes unless
  the application freed what was in use.
* *Data lake.* The answer to a request for many URLs has to be matched to the objects by their
  paths; some may be missing or refused. Correct: success means a URL for every object with a
  path.
* *HTTP clients.* Requests and answers are cut into pieces of any length, by the TLS layer and by
  a buffer of fixed size; bodies come from a callback, and may be chunked. One easy handle of
  libcurl serves all requests of a client and keeps their options. Correct: a call that succeeds
  has given the service the whole request and the caller the whole answer; nothing of an earlier
  request is in a later one; a call comes back.
* *Deployment, JSON, tokens.* Deep structures are built or parsed with a failure possible at every
  step, by functions each of which frees its own part; one error code stands for two
  things. Correct: all is freed once; what is delivered is complete; a token that is delivered is
  signed over what it says.
* *Encodings.* Off-by-one at the last group, at a full block, at the last byte of a buffer that is
  read and written at the same time.

`PROJECT.json` lists the hazards one by one with their lines and the properties about them.

## 2. Modules

    CredentialSync     <---refines---  AgentCredentials (TLC)  <-- AgentCredentialsProofs (TLAPS)
    Outbox             <---refines---  StoreExchange (TLC)  <-- StoreExchangeProofs (TLAPS)
    ItemSizes, DataSourceParser  <---  Connectivity  <-- MCConnectivity (TLC), ConnectivityProofs (TLAPS)
                                       LinkedList  <-- MCLinkedList (TLC), StoreExchangeProofs (TLAPS)
                                       DataLakeUpload  <-- MCDataLakeUpload (TLC), DataLakeProofs (TLAPS)
    HttpCall           <---refines---  HttpClient  <-- MCHttpClient (TLC), HttpClientProofs (TLAPS)
                       <---refines---  HttpClientCurl  <-- MCHttpClientCurl (TLC), HttpClientCurlProofs (TLAPS)
                                       Deployment  <-- MCDeployment (TLC), DeploymentProofs (TLAPS)
    JsonTree           <-------------  JsonWebToken  <-- MCJsonWebToken (TLC), JsonWebTokenProofs (TLAPS)
    Base64, CorrelationId  <---------  Codecs  <-- MCCodecs (TLC), JsonWebTokenProofs (TLAPS)

### AgentCredentials

Any number of agent processes, each with one `mcl_core_t` handle (`mem`, `token`, `time`: the
fields of `security_handler_t`), one `storage` behind the load and save callbacks, and the agent
management service (`grants`, `clients`). A call runs through `pc`:

| `pc` | where the process is |
|---|---|
| `down` | not started, or its handle destroyed, or it died |
| `idle` | between two calls |
| `entering` | before `critical_section_enter_callback` |
| `sent` | inside `mcl_http_client_send` |
| `saving`, `writing` | inside the save callback: before it opens the file, and with the file truncated |
| `aborted` | ended by a `strlen` of `MCL_NULL` |

These are the places where another process, the service or a crash can come between; what
lies between two of them is one action. `mcl_core_update_credentials` loads and compares
within its section without waiting, so it is one action; so is `mcl_core_initialize`, which
loads *outside* any section and may find a file that is being written.

* `Initialize` - `core_processor_initialize` with `_custom_load_register_info` or
  `_load_initial_credentials` (which makes the first RSA key pair); `Destroy`, `Crash`.
* `Begin`, `EnterFails`, `Onboard`, `RotateKey` - the public functions up to the request.
* `ServiceRegisters`, `ServiceRegistersLate`, `ServiceAuthenticates` - the service, as the library
  relies on it: external, and as weak as the code allows. It may refuse anything at any time,
  honours the initial access token `MaxClients` times, gives every rotation a new token and
  secret, and may (`RatSurvivesRotation`) still accept an older token of a client.
* `SendFails`, `RejectResponse`, `ProcessRegistrationResponse` - the end of `core_processor_register`.
  A request whose sender gave up or died may be handled later (`late`).
* `SaveFails`, `SaveOpens`, `SaveWrites` - the callback. `SaveReportsErrors` tells a callback that
  checks its writes from the one in `examples/callbacks.c`, which does not.
* `UpdateCredentials` - with `IsUpToDate` and `TakeOver`, which is where the two security profiles
  differ: a secret and a token are compared, or a private key alone.
* `GetAccessToken`, `ReceiveToken`, `TokenRequestFails` - without a critical section.

Values are numbers: grant `n` of the service carries secret `n` and token `n`; clients and RSA key
pairs are numbered; 0 is `MCL_NULL`; a registration URI is the client it belongs to. Composing
a request can fail at any point and then changes nothing but what the action says.
`savedUpTo` is a history variable.

`CredentialSync` is what this promises to whoever looks only at handles, storage and service: a
handle takes a *newer registration of its own client, as a whole*, or what is stored; what is
stored is what some handle holds. There are no requests, answers, sections or keys in it.

### StoreExchange

One store and the calls of one application. `listed`, `status`, `itemSize` and `lastItemId` are the
fields of `store_t` and `store_item_t`; `size` is what the application's items would measure now.
The state machine `idle -> select -> fill -> sent` is one round of
`connectivity_processor_exchange`, and the loops over the list are cut at every item (`cursor`):

* `Exchange` - `_check_store_size`: sizes are measured, items that cannot fit are marked.
* `SelectItem`, `AllocateBody` - `_select_store_items_to_exchange` looks at the size only.
* `AddItem`, `SendBody` - `_prepare_body_for_store`: what is written need not be what was measured
  (files are read again, JSON is formatted), so that every item may fail to be added.
* `SendFails`, `RejectResponse`, `ScanStore` - with `_scan_store_after_exchange`,
  `_remove_uploaded_store_items` and `_revert_store_item_status` (in `Finish`), and the loop to the
  next round (`BeginRound`).
* `AddToStore`, `ChangeItem`, `DestroyStore`, `NoToken` - the application between calls.

Sizes subtracted from each other are natural numbers here: had one gone below zero, where the
C code wraps around, `TypeOK` would fail. That it does not is among what is proved.

`Outbox` is the promise: an item leaves only after it was delivered, or with its store.

### LinkedList

`list.c` pointer by pointer: `head`, `last`, `current`, `count` and the `next` and `prev` of every
node, with addresses that the allocator may give out again. `Link`, `Advanced`, `Unlink` are
`mcl_list_add`, `mcl_list_next` and `mcl_list_remove`. Two loops of the library run over it: the one of
`_remove_uploaded_store_items` (`StartScan`, `Visit`), which resets the cursor, counts, and
removes nodes behind it, and the one of `_data_lake_object_list_to_array` (`StartArray`), which counts
but does not reset. `order` is the list as a sequence, kept beside the pointers as history.
`StoreExchange` takes a list for the set of its ids in their order; this module justifies that. Its
specification is `ListSpec`, as the proofs about both are in one module.

### DataLakeUpload

The objects of one application with their `path`, `signed_url` and whether they have a callback and a
size (`ready`), the one call in progress, and the service. A call is synchronous: the application sets
paths only when `pc` is `idle`.

* `SetPath`, `SetContent`, `DestroyObject` - the setters. A new path leaves the URL; `moved` remembers
  which objects that concerns.
* `NoToken`, `GenerateUrls` - the four public functions for URLs, for one object or a list, up to the
  request. Without a token nothing is cleared; after that `_clear_signed_urls` comes first, whatever
  becomes of the request.
* `NoUrls`, `UrlsCreated` - the answer. Anything but 201 goes through `mcl_http_response_get_status`.
* `MatchEntry`, `SkipEntry`, `EntryFails`, `CheckUrls` - `data_lake_json_match_signed_urls_with_objects`, cut
  at every entry. An entry is chosen when the loop reaches it. `signed` counts the entries with a URL.
* `Upload`, `UploadLost`, `ReceiveUpload`, `ServiceStores`, `ServiceRefuses` - the upload to the URL.

A URL is the path it was signed for and the number of the request. Paths are sequences of numbers, so
that one may begin with another, and may be empty. An entry is compared from behind the client id
on, which the code skips by its length.

### HttpCall, HttpClient, HttpClientCurl

`HttpCall` is what every caller of `mcl_http_client_send` relies on: the service gets the body in
full or in part, but a call that succeeds has given it all of the request, and its caller all of
the answer to it, with the size it has. Both clients implement it.

`HttpClient` is the basic client on a TLS socket. `pc` names the buffer being sent (`Sending`) or the
line or body being received (`Receiving`); bodies are byte counts, since bytes stay in order and only
their number matters to the code.

* `RenewRequest`, `SetMethod`, `SetUrl`, `SetBody`, `SetCallback`, `SetBodySize`, `AddHeader` - the request object.
* `Begin`, `Reject`, `Start`, `Connect`, `RefuseService`, `ConnectFails` - the checks at the beginning of
  a call, and the connection.
* `SendHead`, `SendPiece`, `CallbackData`, `CallbackChunk`, `CallbackGivesUp`, `SendFails` - the head, the
  body from a buffer or from the callback, with `Content-Length` or in chunks.
* `ReadStatus`, `ReadHeader`, `ReadCutHeader`, `EndHeaders`, `ReadChunkLine`, `ReadLastChunk`, `ReceiveBytes`,
  `ReadCrLf`, `ResizeFails`, `ReceiveFails`, `Deliver` - the answer. `ReadChunkLine` takes the half of `chunk_size`
  that `sscanf` does not set from `Upper`.
* `ServiceCloses`, `ServiceStalls` - what the service may do to the connection at any time.

`HttpClientCurl` is the client on libcurl. `easy` are the options of the easy handle, which survive a
call: a pointer among them is `own`, of this call, or `stale`. `Reset`, `MethodOptions` and
`HeaderOption` are what `_set_request_options` does to them; `SetUnsupported` is its early return for
another method. The transfer itself (`SendFields`, `ReadDefault`, `ReadStream`, `ServiceAnswers`,
`ReceivePayload` ...) is libcurl's, as the options direct it, calling back into the client. A body is the
sequence of the positions of its bytes, so that a byte sent twice shows.

### Deployment

The configuration with its URL, the handle that shares it, and the three calls. `Compose` allocates one
part of the request at a time, `Send` may fail before or after the service has applied an update. The
parser of the answer is a stack of frames, one for each function that is active, with the field it is
at and the `cells` it owns: each field is there, missing, of another type, or there is no memory for
it. `Unwind` is how an error code goes up through the functions, each of which frees its own part,
passes the code on, skips the field (`Skips`) or ends early (`EndsEarly`): `MCL_JSON_NON_EXISTING_CHILD`
means a field that is allowed to be absent in one place and an incomplete entry in another. The lengths
of query strings are computed as in the code (`QueryLength`) beside those that are written (`QueryWritten`).

### Connectivity, ItemSizes, DataSourceParser

`Connectivity` puts together what an application does around an exchange: the configuration whose URLs
are freed when its core is set again (`SetCore`), the handle that has copied them and the client id
(`InitializeHandle`), a rotation that frees the client id (`Rotate`), the items with their setters
(`CreateItem`, `SetText`, `SetTimestamp`, `SetPath`, `DestroyItem`) and the store that takes them over
(`AddToStore`). An exchange validates (`Validate`), allocates a body by the estimate (`AllocateBody`), writes each
tuple of each item piece by piece (`WriteTuple`, the loop of `multipart_add_tuple*`, with `Spaces` the room
each step leaves), closes the body, sends it and evaluates the answer. `careless` remembers what the application has done to
pointers that were in use, and `cause` which of them ended the process.

`ItemSizes` has the two computations of `json.c` side by side: `ItemSize`, from constants for the text
around the fields, and the length of the text `json_from_item_*` writes, member by member.
`DataSourceParser` is the parser of a data source configuration, a stack of frames as in `Deployment`.

Rounds of a store are the subject of `StoreExchange`; here a store has one.

### JsonTree, JsonWebToken

`JsonTree` is `json_util.c` over cJSON: nodes with a kind, a name and children; `roots` are the trees
the program has to destroy. cJSON reports failures that `json_util.c` drops, so a member may be
missing (`NotAdded`) or an object belong to nobody (`NotAttached`, `lost`) with `MCL_OK`; `silent` remembers
that this has happened. `JsonWebToken` composes a token with these calls: one action per claim
(`AddHeaderClaim`, `AddPayloadClaim`) and per text (`TokenSteps`: what a step makes, and what it frees
when it succeeds and when it fails), and the request it goes into (`ComposeRequest`).

### Codecs, Base64, CorrelationId

Functions of their input, called once each with every input of a set: base64 with its two
alphabets, HMAC over blocks with an abstract hash, the searches of `string_util.c`, the lookup of a header, and the
test for an Azure URL with its unsigned subtraction (`Width`). Strings are sequences of characters
here, over `Chars`, since the properties are about places in them. What the callers hand over is in
`InputsAssumption`. `CorrelationId` is a loop over a buffer, one byte
an action: the random bytes stand in the upper half of the buffer that takes their digits.

## 3. Runs

With two TLC workers; all but the last are expected to pass.

| run | instance | distinct states | shows |
|---|---|---|---|
| `CredentialsShared` | 2 processes, shared secret, one storage under a critical section, 2 clients, 4 grants, 1 late request, fairness | 312 266 | credentials are whole, the storage never goes back, success is stored, clients stay, `CredentialSync` is implemented, the section is left |
| `CredentialsRsa` | 2 processes (one provisioned), RSA, 3 key pairs, 3 grants, tokens; no critical section, a callback that does not notice incomplete writes, a service that drops older tokens | 3 564 379 | comparing private keys is enough for an update; a token belongs to the client of its handle |
| `StoreRounds` | 3 items (one a file), sizes 1, 2, 4, overhead 1, limit 4, fairness | 89 345 | bodies fit, no repetition, refusals are justified, `Outbox` is implemented (nothing is lost), a call comes to an end |
| `ConnectivityCalls` | one item of each kind and shape, a small file, at most 2 in the store; the core set twice, 1 rotation, 1 change of an item; answers with a data source of 2 points | 1 915 857 | the estimate suffices, what is incomplete does not leave, a crash is the application's doing, the parser frees what it made |
| `DataLakeUrls` | 2 objects up to symmetry; paths empty, `1`, `12`; 2 requests, 3 entries per answer | 182 176 | URLs are new and of their paths, no URL is wasted, success is true for requests and uploads |
| `DeploymentCalls` | 5 filters, lists of one element, histories of 2 states, the configuration set twice | 897 740 | nothing is lost wherever a call breaks off, success is true, query strings fit, the handle's URL is alive |
| `HttpRequests` | bodies of up to 2 bytes, a callback buffer of 2, 1 header, 6 answers of every framing, fairness | 14 894 | `HttpCall` is implemented, nothing leaks but what the code forgets, calls return |
| `HttpCurl` | the same bodies, 2 of 4 certificates, 2 answers, requests one after the other, fairness | 358 641 | no request uses what an earlier one left, `HttpCall` is implemented, calls return |
| `JsonTokens` | 14 nodes, 3 of them in trees of the program, two spellings of a name, all claims of a token | 132 833 | trees have one owner, a token that breaks off leaves nothing behind, one that is delivered is signed over what it says |
| `Codecs` | strings of up to 4 characters, blocks of 3 bytes, an id of 16 bytes | 10 511 | base64, HMAC, searches and the test for Azure agree with their definitions; the id is the digits of its bytes |
| `ListLoops` | 4 addresses up to symmetry | 4 299 | the list stays linked; a loop that removes meets all nodes and removes the right ones |
| `ListArrayTwice` | 2 addresses | *violated* | a loop that does not reset the cursor reads `MCL_NULL` when it runs over the list again (section 4) |

**Why these bounds.** Two processes are needed for anything to come between the answer and the save
of one of them. Two clients are the least with which "another client" means something; four grants
allow two onboardings and a rotation after each, or one client with three rotations, so that a token
can be older than an older one. One late request suffices for the service to act
after its sender gave up. An RSA rotation may lose a pair or leave one unregistered, and then register
another, hence three pairs. Processes without callbacks are not in these runs; the theorems cover
them, as they hold for every value of the constants.

Sizes 1, 2 and 4 with an overhead of 1 and a limit of 4 give items that
fit two at a time, alone, exactly (2 + 1 + 1 = 4), and never (4 + 1 > 4); three items give two
rounds with an item left between. Four nodes have a first, a last and two in the middle, next to
each other. Two objects may share a path or have one begin with the other; three entries leave one that is
repeated or of no use; two requests let a URL be left over. For what is proved, the bounds do not matter.

A body of two bytes is sent in one piece or in two, and fills the buffer of the callback or does not.
One header is there or is not. The answers are those the code tells apart: by `Content-Length` (a body, none),
chunked, neither, a line too long to be a header, a status line that is none. `Upper` has the two cases for the half
of `chunk_size` that is not set: zero, and not. On libcurl every request meets the options the one before
has left, in every combination; two certificates may be a file and a text in either order, or one that is refused.

An answer about deployments has one element in each list and two in a history, so that
a failure meets a list that is empty and one that is begun; deeper or longer trees repeat the same functions.
The filters set and leave out every parameter.

The items have every optional field present and absent, lists with none, one and two elements,
and contents that turn out longer or shorter than announced. `MaxPayload` is far above all of them except
one file of 600 bytes, and the drift of 300 that goes with it. Answers with data sources are only explored while the
application has no items (`Begin`): the two share nothing but the handle.

A token has two trees with all its claims (14 nodes with their copies); trees the program builds freely are explored
on their own, with three nodes, two of which may have names that differ only in case. Blocks of three bytes and a
hash of two let a key be shorter than a block, fill it, and be longer. Texts of four characters are one group of base64, and the
longer ones two, with padding in every place.

**Constraints and symmetry.** All bounds are in guards: `MaxGrants` is a service that refuses from
then on, `MaxKeys` a key generation that fails, `MaxLate` a network that loses; `MaxSets`, `MaxRotations`, `MaxChanges`
and `MaxUrls` bound how often the application does something. Nodes and objects are interchangeable; these
symmetries are used in `ListLoops` and `DataLakeUrls`, which check no liveness.

**Deadlock** is checked in `CredentialsShared`, `StoreRounds` and `DataLakeUrls`. Elsewhere the system may stop: a process
without key pairs left (`MaxKeys`) cannot start again, a process that has dereferenced `MCL_NULL` is gone, the
functions of `Codecs` have returned, and the applications of the other runs have used up their bounds.

**Fairness.** `CredentialsShared` assumes that a request ends (`SendFails`: the HTTP client has a
timeout; a request that is answered ends otherwise and that disables it), and that the save callback
goes on (`SaveFails` or `SaveOpens`, then `SaveWrites`). It assumes nothing of the application's next
call, of the service, or of the order in which a lock admits those who wait, and so says only that
the section is *left*, not that everyone gets in. `StoreRounds` assumes weak fairness of `Round`:
the thread of the call runs on, and the client gives up on a request in the end. Nothing is assumed
of the service. `HttpRequests` assumes that the client runs on (`ClientStep`) and that a service that stays silent
closes the connection in the end (`ServiceCloses`), since the socket client does not limit the time of a read; what
a service that stalls for ever does to a call is left out of `CallReturns`. `HttpCurl` assumes that libcurl goes on with
a transfer and that the timeout, where one is set, strikes (`TimeOut`).

**That the properties can fail.** For each property of each passing run a variant of one definition
is kept beside it in the module (marked as *mutant* or *variant*): a take-over that forgets
the token, a critical section that lets everyone in, a revert that is
missing, an overhead counted as room, a cursor that stays at a freed node, a part of a workflow that is not
freed, an option that survives its request, a signature over the payload alone. With the variant in
place of the definition TLC reports the property violated. `PROJECT.json` names them.

## 4. Findings

One run is expected to end with a violation of what the documentation states:

* `ListArrayTwice`: `_data_lake_object_list_to_array` does not reset the cursor. When upload URLs
  are generated twice for one list, or for a list the application has iterated over, the loop meets
  the `MCL_NULL` at the end of the list and dereferences it.

Modelling met other places where code and documentation disagree, or where the code does what nobody
wants. The models contain this behaviour as it is; the properties are stated so that they hold with it.

*Agent credentials.*

* `mcl_core_get_last_token_time` is documented as the time of the last *received token*
  (`mcl_core.h:175`); the header is taken from any answer, also from one that refuses the token
  (`core_processor.c:695-704`).
* `_compose_rsa_key_rotation_json` frees the key pair before it makes a new one (`core_processor.c:973`).
  If that fails the call returns an error, but the handle stays onboarded without a private key, and
  the next update or token request computes `strlen(MCL_NULL)` (`pc = "aborted"`).
* The save callback of the examples drops the results of its writes (`callbacks.c:82`) and reports
  success, so that a rotation may succeed and leave a truncated file (`SaveReportsErrors = FALSE`).
* If `security_initialize` fails, `core_processor` is left uninitialised and destroyed (`core_processor.c:139`,
  `core.c:43`). `AgentCredentials` starts behind that.

*Connectivity.*

* `_file_payload_callback` drops the result of `mcl_file_util_fread` (`connectivity_processor.c:634`), so
  that a read error looks like the end of the file; the part is sent, and the item removed as exchanged.
* `mcl_connectivity_exchange` returns `MCL_STORE_IS_EMPTY` and `MCL_ITEM_EXCEEDS_MAX_HTTP_REQUEST_SIZE`, which
  `mcl_connectivity.h:70-93` does not list.
* The estimates of `json.c` do not count the escapes of JSON, so that an item with quotes in its texts may
  be refused for its size (`drift`).
* The timestamp of an event is read uninitialised when it was never set (`event.c:158`), and custom data
  that lost its content type is sent as `application/json`.
* When a descriptor cannot be closed, `_set_file_local_path` leaves the old one in place.
* An entry that cannot be added to a list is handed to the destroy function as itself, where the address of a
  pointer to it is expected (`EntryLost`, `Corrupts` in `DataSourceParser`).
* `mcl_connectivity_initialize` and `mcl_deployment_initialize` destroy the handle the caller's variable
  holds when the configuration is not valid.

*Data lake.*

* A request for URLs that is answered with 200 instead of 201 ends with `MCL_OK`, but its body is not looked
  at and all URLs have been cleared (`data_lake_processor.c:281` against `mcl_data_lake.h:89`).
* A URL shorter than the name of the Azure storage is compared outside (`data_lake_processor.c:354`).

*HTTP.*

* The socket client has no timeout for receiving (`tls_socket_mbedtls.c`): its call returns only if the
  service closes the connection, which is what `FairSpec` of `HttpClient` assumes.
* A header line that is cut by the connection is copied and forgotten (`http_client_basic.c:552`), and so
  is a body that cannot grow (`:661`, and `http_client_libcurl.c:503`); `sscanf` sets half of `chunk_size` (`:642`); a
  rejected request destroys a socket handle that was never set (`:232`).
* `Content-Length` is looked for in one spelling; the socket client knows no PATCH.
* The libcurl client performs a request with a method it does not support, with the header list of the
  request before, which is freed (`http_client_libcurl.c:669`), and loses header lines when memory is
  short (`:678`).
* A header is found by its name anywhere in a line (`http_response.c`).

*Deployment, JSON, strings.*

* The URL of an earlier core is leaked when the core of a configuration is set again.
* cJSON's failure to add a member is dropped, and `MCL_OK` returned where `mcl_json_util.h:62` and `:109`
  promise `MCL_OUT_OF_MEMORY` (`JsonTree`: `silent`).
* `mcl_string_util_find` promises the first occurrence (`mcl_string_util.h:126`) and misses one that begins
  inside a partial match: "ab" in "aab".

## 5. Proofs

All theorems hold for every value of the constants, under the assumptions the modules state, and TLC
evaluates each of them on the runs' instances:

* types, and that a null (`Nothing`, `NoUrl`, `NoPath`, `Null`) is none of the values it stands
  beside: `ConfigAssumption`, `SizeAssumption` (ids, sizes and the overhead are above zero),
  `PathAssumption`, the two `NullAssumption`s, `ByteLengthAssumption`, `MaxEntriesAssumption`,
  `DeploymentAssumption`, `FrameAssumption`, `ConnectivityAssumption`, `CurlAssumption`,
  `JsonTreeAssumption`;
* `CatalogueAssumption`: every item the application may make is a record of one of the five kinds,
  and a file that has just been set was opened;
* `ClientAssumption`: what the half of `chunk_size` that `sscanf` leaves alone may hold is zero or
  more than any answer has (2^32 bytes at least);
* `ClaimsAssumption`: the names of the claims of a token are among the names and are their own lower
  case. It is true of the literals of `jwt.c`, and needed: two claims that cJSON took for one would
  be refused, without a word;
* `CodecsAssumption` and `InputsAssumption`: a hash fits a block, the name of the Azure storage is
  not empty; inputs are bytes and characters, a name of a header is not empty and has no colon, as
  no field name of HTTP has (the library looks for the server's time only); the length of a URL is a
  `mcl_size_t`. Without the condition on the name, the colon that is found may lie inside it;
* `NamesAssumption` and `BasesAssumption`: how many characters the names of the JSON members have,
  and what the `sizeof` constants of `json.c` come to. Both are evaluations of definitions of
  `ItemSizes`; they are assumptions because the prover counts no characters.

**`AgentCredentialsProofs`.** `Invariance` proves `IInv`: `TypeOK`, `CredentialsWhole`,
`TokenBelongsToClient`, `StorageIsNewestSaved`, and what these need to be inductive:

* `Fits` - an answer on its way fits the handle that waits for it: it is newer than what the handle
  holds, of the same client, for the key pair in the handle; a handle being saved is onboarded with
  a registered key; a process that is down has an empty handle. Without it nothing relates the
  answer to the moment the request was sent.
* `MutualExclusion` - the critical section works, if there is one.
* `UnsavedIsNewer` - a registration that is on its way to the storage is newer than all that ever
  were there. This is where the request, its answer and the save being *one* section is used.

From it follow `CredentialsAreWhole`, `NewestSavedIsKept` (only with `UseLock`), `TokensBelong`
(with or without a section), `ClientStays`, and `SuccessIsStored`, which assumes
`SaveReportsErrors`: with the example's callback it is false, as a run of `CredentialsShared` with
`SaveReportsErrors = FALSE` shows. The proof goes by conjunct, and each by action; `StepFrame` and
`StepShape` state once what an action leaves alone.

`KeysTellTokens` is `EqualKeysMeanEqualTokens`: `update_credentials` compares private keys to learn
whether the storage is newer. It needs a second invariant, `KeysAreOwned`: whoever has the key pair
of another, or of the storage, has its registration token too, which is so because a key pair that
is about to be registered is in one process only (`Unshared`), from its making to the answer.

`Implements`: `AgentCredentials` implements `CredentialSync`. Each action is a step of it or a
stutter: receiving an answer is `Take`, an update or initialization from storage `Load`, a completed
save `Store`, a truncation `Erase`, the end of a process `Drop`.

**`StoreExchangeProofs`.** `IInv` adds to `NothingIsLost`: ids are given once (`IdsAreFresh`);
between calls every status is `ready` (`StatusIsReverted`); what is marked processed is what the
body holds (`BodyIsProcessed`); items are ignored exactly when they are too large by sizes that are
still true (`IgnoredAreTooLarge`); the room in the loops (`RoomIsLeft`), which is also why no
subtraction wraps around; and of the listed items the service has taken in this call just those of
an answered body (`NowIsAnswered`). One lemma per action. `ItemsAreKept`, `BodiesFit`,
`RoundsDoNotRepeat`, `RefusalIsJustified` and `Implements` (of `Outbox`) follow.

The second half of the module is about `LinkedList`. `ListInv` is `ListTypeOK`, `Linked` and two
parts about the loop that removes: `ScanTail` - the nodes the loop has still to meet are the last
ones of the list, in the order of the beginning, with the cursor at the first of them - and
`ScanKept`, which says of the nodes it has met which are still there, and in which order.
`ScanMeetsAll` alone is not inductive, as it does not say where in the *changed* list the rest is;
nor is `ScanRemovesDoomed`, which is about the end only. `ListStaysLinked`, `ScanIsComplete` and
`ScanLeavesTheOthers` follow, for lists of any length.

**`DataLakeProofs`.** `IInv` adds to `TypeOK`, `UrlsAreFresh` and `UrlOfItsPath`: the objects of a
request were asked for by it and have not been changed since (`TakenByCall`), which is what makes a
URL that is given new and of the right path; an upload in progress is of a valid object, and an
answer of success is true (`UploadIsValid`, `AnswerIsTrue`); and as long as an object with a path
lacks a URL, there are as many objects of that path with one as the answer had URLs for it so far
(`EntriesAreUsed`). `FailureIsJustified` is that last fact at the end of the loop, with the theorems
on cardinalities; `MatchingIsTrue`, `UploadsArrive`, `UrlsFresh` and `UrlsMatch` are the other
results. All properties of the run are proved.

**`HttpClientProofs`.** `IInv` says, place by place of a call, what is still to come. While sending:
the queue of the head ends with the framing of the body and the blank line (`HeadIsLeft`); what was
sent, what is in the callback's buffer and what its source still has are the body, and with a
declared size `remaining_size` is what is left of *that* (`BufferIsLeft`, `CallbackIsLeft`). Once
the client waits, the service has the whole request (`RequestIsSent`). While receiving: stored
bytes, bytes of the chunk at hand and bytes after it are the answer (`BytesAreLeft`), where a
receive that asks for more than the chunk has, after `sscanf` set half of the size, is one that
cannot end with success. `HeapIsKnown` lists what is allocated at each place. From it
`FreesItsMemory` (`NothingLost`, for the two leaks the ghost names) and `ImplementsCall`: the client
implements `HttpCall`, for bodies and answers of any length, cut anywhere, and any size of the
callback's buffer.

**`HttpClientCurlProofs`.** One easy handle serves any number of requests, so the invariant relates
each of its options to the request of *this* call: `OptionsFit` says, from the end of
`_set_request_options` on, that the verb, the body, its size and the callback are those of the
request and no pointer is `stale` - or, for a method the client does not know, that the handle has
no body at all, which is why such a call ends as it does. `BodyIsLeft` says where the next byte
comes from, and that what is on the wire is a prefix of the body, by position, so that none comes
twice; `ServedInFull` and `AnswerIsLeft` are about the end of the request and about the answer.
`EveryRequestIsOwn` (`OwnRequest`) and `ImplementsCall` follow: this client implements `HttpCall`
too, for bodies and answers of any length. `PointersStayAlive` is a second invariant: what an option
points to is allocated, and once a call is over no option is taken for its own.

**`DeploymentProofs`.** The parser is a stack of frames, one per active function, and `live` counts
allocations. `LiveIsCounted` relates the two: `live` is the sum of the cells of the frames, and
after parsing what was delivered; the sum is written with partial sums (`IsTotal`: there is a
sequence of them that grows by one frame's cells at each place), so that pushing, popping and
changing the top are facts about one place of a sequence. `StackFits`: every frame has gone through
its fields in their order, a workflow has all it has passed but the history and the model, a state
all, and whoever has called another parser, or has failed, is at a field or an entry; that is what
makes a delivered workflow complete (`DeliveredFits`). `ResultIsKnown` and `UrlsAlive` are about the
other calls and the handle. Results: `FreesItsMemory` (`NothingLost`), `SuccessTellsTheTruth`
(`SuccessIsTrue`), `QueryIsInBounds` (`QueryFits`), `UrlStaysAlive` (`UrlAlive`): all invariants of
its run.

**`ConnectivityProofs`.** First, two theories the library does not have. Sums over finite sets and
over sequences (as the community modules define them, by a recursive function behind a CHOOSE): they
exist, unfold at any element, and are monotone. Induction is by least counterexample (`Least`,
`Smallest`). Then the texts of JSON: what one member, or one entry of an array, adds to the length
of what is written. `EstimateSuffices` follows kind by kind: for an item with fields of any length
and any number of values, data points and data sources, what `json_from_item_meta` and
`json_from_item_payload` write is at most what `json_get_item_size` says.

The invariant `IInv` of the module has ten parts: `TypeOK`; `HandleFits`, `ItemsFit` and `StoreFits`
(what was copied is what the owner has, what is listed is complete and listed once, *unless* the
application was careless in a way the ghost `careless` records: this is what explains a crash);
`CallFits` (where a call may be with which target); `BodyFits` (what is queued or added is an entry
that exists, and what is added is complete, which holds because an item whose mandatory text is gone
stops at the step that would write it: `NullAt`); `ParserFits` and `StackFits` (`live` is `lost` and
the cells of the frames, a frame below the top is in an array with entries to come); `QueueFits`
(the queue ascends through the store, and what waits is selected); and `SpaceFits`: unless an item
has grown since it was measured (`Exact`), what is left of the buffer holds the rest of the current
item, step by step (`Needed`), all that waits behind it, and the closing boundary; and what was left
before the current item holds it whole, so that taking back an item that fails leaves enough for the
others. `Needed` sums the room `_space_needed_for_state` asks for (`Spaces`) from the current step
on, as the code asks at each step for that step alone. Results: `CrashIsExplained`,
`OnlyCompleteItems`, `ParserFrees` and `EstimateIsEnough`, all invariants of `ConnectivityCalls`;
`TypeCorrect`. TLC checked every part of `IInv` on that run's instance (1.9 million states) before
it was proved.

To be reasoned about, the model has its sums in `ItemSizes.Total` and `Characters` (the one place a
text is counted), the items as record sets (`AnyItem`), and the selection of
`_select_store_items_to_exchange` as the set that the order and the room determine (`Selected`,
`HasRoom`, `Ascending`).

**`JsonWebTokenProofs`, the trees and the token.** `Below`, the nodes under a node, is computed by
levels; the first lemmas show that it is the least set that is closed under children, whatever the
trees are, which needs that levels stop growing within as many steps as there are nodes. The
invariant has three parts. `TreeInv`: the nodes are a forest (`Forest`: children exist, roots are
nobody's children, no node has two parents, every node is below a root) whose roots are the trees
the program has to destroy or those that are lost; one lemma for each way trees change - a new node,
a node put under another, a copy, a tree moved, a tree destroyed. `JwtInv`: the program's roots are
the header and the payload, and each holds the claims that are due at this step, or some of them if
memory ran out unnoticed. `TextInv`: which texts are held at which step, and what they are made
from. TLC checked it on `JsonTokens` before it was proved. `TreesStaySound`, `TokenEndsClean` and
`TokenIsSigned` are the three invariants of that run, for trees of any size and names of any number.

**`JsonWebTokenProofs`, the encodings and searches.** `GroupRoundTrip`: three bytes become four
characters and these the three bytes again, for both alphabets; with the padding of the last group,
where the missing bytes are zero and their characters are cut, this gives `WholeRoundTrip`, for
sequences of bytes of any length. `DecodedFillsBuffer`: for every text the decoder accepts, also one
nobody encoded, it writes just the cells it has allocated. `ResultsStayRight` is `ResultsAreRight`,
the property of the run that compares each result with a definition by other means: bits for base64,
the place found for a search (the automaton's states exist as a function, by least counterexample,
and a state of `k` means that the last `k` characters match), the first line with the name and the
text behind its colon for a header, blocks of full size for HMAC, and the subtraction modulo `Width`
for the URL. `IdStaysRight`: for every number of bytes the text printed over them is their digits.
Its invariant `IdInv` says which bytes have not been read yet (`Unread`): the text grows by two
cells a step and the bytes begin at half the buffer, so that the null that ends the text reaches at
most the byte just read.

**Only model-checked.** Liveness: `SectionIsLeft`, `ExchangeReturns` and the two `CallReturns`. It
is out of the prover's reach, as is ENABLED, on which fairness rests. `ArrayHasObjects` is violated
and has nothing to prove. Every other property of every run is proved. Where a proof needs induction
over data - levels of a tree, states of a search, sums - it goes by least counterexample over a
recursive function, since the library's induction theorems take an operator. No module with a
theorem uses a RECURSIVE operator.

The type invariant of each module is `TypeOK` (`ListTypeOK` of `LinkedList`); where there are proofs it is part of the inductive
invariant.

## 6. What is not modelled

The setters of the core configuration and of the data lake configuration (they check and copy, and
nothing happens between them); `file_util`, `memory.c`, `log_util.c` and `time_util.c` (the outcomes
of their calls are in the models of their callers; the conversion of times is left out); the calls
into OpenSSL and mbed TLS, libcurl and cJSON themselves, which are modelled as far as the code
depends on them; proxies; getters and the copies they return; the wording of logs and errors (error
codes are distinguished where the control depends on them); the texts of JSON members, except for
their lengths and names; the vendored cJSON and CMock; tests and examples other than the callbacks.

`_print_formatted_string` accepts a text that is as long as its buffer, the validation of timestamps
accepts the 31st of February, and `string_util_reset` frees the old text before it has the new one:
these were read and not modelled, as no state of another part depends on them.

## 7. Plan

Done, in this order: `AgentCredentials` with its abstraction and proofs; `StoreExchange` with its
own; `LinkedList`; `DataLakeUpload`; the HTTP clients and `HttpCall`; `Deployment`; `Connectivity`
with `ItemSizes` and `DataSourceParser`; `Codecs`; `JsonTree` and `JsonWebToken`; and the proofs of
all invariants, action properties and refinements the runs check. Open:

1. That the list of `LinkedList` implements, step by step, the ordered set `StoreExchange` uses.
   `Linked` and `ScanLeavesTheOthers` are what such a refinement would rest on.
2. The setters of the configurations, and their copies of texts, if they come to do more than check
   and copy.
3. The conversion of times, and the other direction of `string_util`: comparing and joining texts.
