# Flink Admin: a TLA+ model of its streams, requests and metadata parser

Flink Admin shows the FlinkDeployments of a Kubernetes cluster in a browser. A
Go backend watches the API server, keeps every deployment in memory and streams
changes to the browsers as server-sent events (SSE); for the details of one
deployment it asks Flink's REST API, Kubernetes and S3. A package of the backend
parses the `_metadata` file of a Flink checkpoint. The specifications in this
directory follow that code at the level of goroutines, critical sections,
channel operations and JavaScript tasks, and the parser field by field.
`PROJECT.json` lists for every definition the lines it stands for.

Paths below are relative to the repository.

## 1. Inventory

| Component | Source | State it keeps | Operations |
|---|---|---|---|
| Deployment watcher | `backend/internal/deployment_watcher.go` | one watch connection, one event in its hands | connect, receive, convert, hand over, reconnect, give up |
| Deployment watcher module | `backend/internal/module_deployment_watcher.go` | the cache `deployments`, the registered `channels`, the lock | `streamEvents`, `applyEvent`, `closeChannels`, `Watch`, removal, `GetDeployment`, `GetFlinkEndpoint` |
| Deployment stream handler | `backend/internal/handler_deployments.go` | per request: the snapshot still to send, the channel | `sendInitialDeployments`, `streamDeploymentUpdates` |
| Browser stream hook | `frontend/src/hooks/useDeploymentStream.ts` | abort controller, two timers, activity time, connected/error flags, `deploymentsMap` | connect, schedule, retry, time out, read events, clean up |
| Context, single deployment hook | `DeploymentStreamContext.tsx`, `useDeployment.ts` | none | lookup by namespace and name |
| Data hooks, API client | `useCheckpoints`, `useEvents`, `useExceptions`, `useStorageCheckpoints`, `api/client.ts` | data, loading, error, a refetch counter; one `cancelled` flag per effect | fetch, refetch, ignore cancelled answers |
| Flink proxy handlers | `handler_checkpoints.go`, `handler_exceptions.go`, `flink_client.go` | none | cache lookup, then one request |
| Storage handler, S3 service | `handler_storage_checkpoints.go`, `s3_service.go` | none | paginated listings, `_metadata` lookups, partial failures |
| Events handler, Kubernetes service | `handler_events.go`, `k8s_service.go` | none | list events, open a watch |
| Metadata parser | `backend/internal/checkpoint/` | the place in the file and the bytes read so far; not called by the server, only by its test `metadata_test.go` | `Parse`, `ParseSummary` |
| Pages | `frontend/src/routes/` | sort order, filters | navigation, rendering: which hooks are mounted |

How they interact:

    API server --watch--> watcher --resultChan--> streamer --channels--> handlers --SSE--> browsers
                          goroutine  (unbuffered)  goroutine  (16 each)   one per client    one fetch each
                                                      |
                                                    cache <--lock-- Watch, GetDeployment (all handlers)

* The watcher and the streamer are two goroutines under one context (`Run`); an
  error of one cancels the other.
* A handler calls `Watch`: under the module's lock it gets a copy of the cache
  and a fresh channel. A third goroutine per client waits on its stop channel
  and deregisters it.
* `applyEvent` stores an event and offers it to every channel under the same
  lock; a full channel is skipped.
* The browser opens one fetch, rebuilds its map from it, and replaces the fetch
  when it ends, fails or is silent for too long.
* The page of a deployment looks it up in that map by its name and mounts the
  tab's data hook only while it is there; the hook's request is answered from the
  server's cache and the deployment's Flink cluster, or from S3.

What is hard about it: three kinds of goroutines and a lock meet at each
channel; watch connections end at any time and lose what was on its way; a
client may be slow, leave, or come back while the old handler is still blocked
in a write; the application may stop at any moment; and in the browser timers,
user actions and the results of aborted requests interleave. The parser has two
modes that must pass over the same bytes with different functions, and an error
in either shows only as a wrong field much later. `PROJECT.json` lists the
hazards at their lines.

What makes each component correct:

* watcher and module: the cache catches up with the cluster after every lost
  connection; it never goes back; channels are never sent to or closed after
  they were closed; no subscription is leaked; a shutdown ends the streams.
* handler: snapshot and updates join without a gap and without going back.
* browser hook: one stream at a time, never stranded, nothing left behind, and
  "connected" is true, unless an error is shown with it and the user has retried.
* backend and browser together: once nothing is under way, the page has every
  deployment that exists, in its latest version, and none of which it was told
  that it is deleted.
* data hooks and proxies: a page never goes back to older data, is loading
  exactly while an answer is to come, and once its effect has run shows data of
  its own deployment.
* storage: a response names what was there, names it once, and misses only what
  a failed call was needed for.
* parser: both modes read the same fields; what the file announces is built;
  strings of the basic plane come out as they were written, and a string that
  is cut comes out shorter or not at all.

## 2. The modules

| Module | Models | Kind |
|---|---|---|
| `K8sWatch` | the API server and one watch connection (external) | component |
| `DeploymentWatcher` | the watcher goroutine | component |
| `DeploymentWatcherModule` | streamer, cache, channels | component |
| `HandlerDeployments` | the handlers; composes the four into the backend | component, composition |
| `VersionedFeed` | what the backend's stream promises | abstract specification |
| `DeploymentStream` | the browser's stream hook | component |
| `DeploymentsMap` | its map of deployments, and the lookup by name | operators |
| `EndToEnd` | the backend, and the map at each client | composition |
| `DataHook` | a data hook, and the handler that answers it | component |
| `DeploymentDetails` | the page of a deployment with its hooks | component, composition |
| `S3Service` | the listing loop over pages, and the bucket (external) | component |
| `HandlerStorageCheckpoints` | a request for checkpoints and savepoints | component, composition |
| `MetadataFormat` | what each function of the parser reads, in order | operators |
| `MetadataReader` | the parser over an unknown file | component |
| `MetadataModes` | the two modes side by side | refinement |
| `MetadataStrings` | strings and the scan of the summary, byte by byte | component |
| `MCBackend`, `MCStream`, `MCStorage`, `MCStrings` | constants and symmetry for TLC | model checking |
| `HandlerDeployments_proofs` | the backend: types, channels, cache, delivery, refinement | proofs |
| `DeploymentStream_proofs` | the browser's hook | proofs |
| `DeploymentsMap_proofs` | lemmas about the map | proofs |
| `EndToEnd_proofs` | from the cluster to the page | proofs |
| `DeploymentDetails_proofs` | the data hooks | proofs |
| `HandlerStorageCheckpoints_proofs` | the storage request | proofs |
| `MetadataModes_proofs` | the parser and its two modes | proofs |
| `MetadataStrings_proofs` | the strings of the parser and their scan | proofs |

A definition marked `MUTANT` is a deliberately wrong variant of the definition
that follows it. No specification uses it: replacing the definition by its
mutant shows that the property named for it in `PROJECT.json` can fail.

### K8sWatch (external)

Nothing of the API server is in the repository. The module contains what the
watcher relies on: `WatchDeployments` passes empty `ListOptions`
(`k8s_service.go:90`), so each connection starts with one synthetic ADDED event
per existing object and then carries every change in revision order. A
connection ends with any prefix of the pending events delivered, or breaks with
an ERROR event whose object is a `Status`. An object is a record of its key
(namespace and name), its uid (the revision that created it) and its resource
version.

### DeploymentWatcher

`wpc` is the place of the goroutine: `connect` (the loop of `Watch`), `receive`
(the select of `processEvents`), `send` (the send on `resultChan`), `returned`.
The send has no second case, so no action of the watcher leaves `send`; only the
streamer's `ReceiveEvent` does, which is the rendezvous of the unbuffered
channel. Each early return is an action: `WatchRequestFails`, `ConversionFails`
(the `Status` of an ERROR event is no `Unstructured`, and the content of any
other object may not marshal or unmarshal), `ChannelClosed`,
`ContextDone`. An error return cancels the context that both goroutines share.

### DeploymentWatcherModule

`spc` is the place of the streamer. `applyEvent`, `Watch`, the removal,
`closeChannels` and `GetDeployment` hold `m.lck` from their first to their last
statement and block on nothing while they hold it (the channel sends have a
`default`), so each is one action. `chan[s]` is the channel of a subscription,
preceded by the event its handler has already received and is still writing
(`s \in taken`); the buffer is the rest, and `applyEvent` compares the buffer
with the capacity. `missed` is a history variable: the keys whose latest event
found the channel full.

### HandlerDeployments

A handler is `idle`, `open` or `returned`. While `open` it first writes its
snapshot in any order (Go's map order), one write per action, then alternates
between the select (`Streaming`) and a write (`Writing`). A write succeeds or
fails; a handler that is blocked in a write notices nothing else. `RemoveChannel` is
the goroutine that `close(stop)` wakes. A subscription slot is used again after
`RemoveChannel`, with a new channel: in the code it is a new uuid.

### VersionedFeed

A source, a cache and observers with version numbers that only grow. The
backend implements it under the mapping of `ImplementsFeed`: `latest` is the
cluster's revision, `cached` the resource version of each cache entry, `seen`
what each client was last sent.

### DeploymentStream

JavaScript runs one task at a time, and the continuations of a settled promise
before the next task. So "the response arrives", "a chunk arrives", "the fetch
or a read fails", "a timer fires", "the user clicks" and "the component
unmounts" are the actions, each with all the code it runs. An abort ends the
attempt at once: what its rejection still runs (`useDeploymentStream.ts:273`)
only logs. `quiet` stands for `Date.now() - lastActivityRef` being over the
timeout. `Retry` needs an error on display because the page only shows the
button then (`routes/index.tsx`). Mounting starts from the initial values of
the `useState` hooks.

### DeploymentsMap and EndToEnd

The map keeps its keys in insertion order, so it is a sequence of deployments.
`Reduce` is what `setDeploymentsMap` does with an event, `FindByName` what
`useDeployment` finds. `EndToEnd` adds a map to every subscription of
`HandlerDeployments`: what a handler writes arrives in order and is reduced at
once, and a new stream starts with an empty map. A delay on the wire would only
postpone the moment at which `Drained` holds. `toldDeleted` is a history variable:
the deployments of which a stream has sent a DELETED event since it opened. The
namespace and name of a deployment are its key; two incarnations under one name
differ in their uid.

### DataHook and DeploymentDetails

The four data hooks have the same code around different API calls: an effect
with a local flag `cancelled`, which its cleanup sets, and a counter that makes
`refetch` run the effect again. React commits a component first (`Commit`) and
runs its effect in a task of its own (`RunEffect`, or `RunCleanup` for a component
that is gone); `due` says that the effect of the last commit is still to come, and
all effects are run before the next commit. So there is a frame for another
deployment that is not loading and has the data of the one before, or none, and
answers for the one before are still taken in it, as in the code
(`useCheckpoints.ts:17-26`). `spinning` is `isLoading` as it was committed: the
button of `Refetch` is dead while it is set. `refetched` stands for the counter: it
has changed since the last commit, whose effect is therefore due.

A request goes from the effect that sends it to the handler, which looks the
deployment up in the cache (`GetCheckpoints`), to the cluster, and back
(`Succeeds`); it may fail anywhere on the way (`Fails`). Nothing aborts it. Answers
of different requests come in any order. An answer is reduced to the deployment it
is about and the cached version it was asked with. Data of the deployment shown
before stays until the next answer, as `setData` is not called by the effect.
`useEvents` is answered from Kubernetes and not from the cache, so versions say
nothing about it; everything else does.

`DeploymentDetails` says when components with hooks are mounted. The layout
always has hooks (`useExceptions`, `useEvents`), which do not meet each other; a tab
has one only on some URLs and is rendered only while `useDeployment` finds the
deployment, so a stream that starts over unmounts it. `found` is what the stream
makes of the map, and changes freely. `Render` is React's commit of all that has
changed, `Effect` the effect of one hook after it. Everything else may happen
before either. `StrictMode` runs each effect twice in development builds only, and
is left out.

### MetadataFormat, MetadataReader and MetadataModes

The parser is a set of functions that call each other, one for each kind of
record. A function is modelled by the fields it still has to read: a `Symbol` is
a field together with the function that goes on with its value, or a call of a
function that starts with another call. So `readOperatorState(version, full)` is
the sequence of what it reads, and a stack of symbols, `todo`, takes the place of
the call stack. Each operator of `MetadataFormat` has the name of the function
whose reads it lists, in order, with its conditions on versions, kinds and
`parseFull`.

`MetadataReader` reads a file about which nothing is known: `Consume` reads the
top field with any value that the function distinguishes (`Values`: every type it
knows and one it does not, counts with -1 and -2 where they mean something, every
index). `ReadFails` is the end of the file or a failed read at any field,
`Refuse` a value that is refused. A payload is read by a reader of its own in the
code (`readPayload`), which cannot read beyond the payload; its three fields are
read like any others here. `announced` and `built` count operators, and the
subtasks of the current one; `index` is the index of the last subtask, in integers
that wrap at `IntMax`.

`MetadataModes` runs the reader with `ParseFull` TRUE (or FALSE) and requires that
the same steps are steps of the full parser (`Full`), whose stack is the stack of
the other with each `skip...` function replaced by the `read...` or `populate...`
function that reads what it skips. Values that are only stored are left out, so
the mapping of the variables is otherwise the identity.

### MetadataStrings

The strings of the same file, byte by byte. The writer is Java's
`DataOutputStream.writeUTF`. A file of some string fields is cut at any byte, or has
a length in front that is too small; `ReadUTF` reads field by field, and
`ParseSummary` then scans the bytes that were read, which the code collects with a
`TeeReader`. Code points are numbers, and `string(rune(...))` of half a surrogate
pair is U+FFFD. A text is any sequence of units whose bytes a length of two bytes
can count; `writeUTF` throws for others. The loops of the code are recursive
functions, from which `Scan` and `decodeModifiedUTF8` take the value at the end, or
at the begin.

`Returned(text)` is what Go makes of a text: `string(out)` has no rune for half of a
surrogate pair. `StringsAreWritten` does not compare with it but with the text that
was written, and speaks of the texts without surrogates (`Basic`); `CutsAreNoticed`
is about what is made of a part of a text and compares with it.

`LongRuns` says what the scan should find without saying how: the maximal runs of
printable bytes, as a set. `PathsAreListed` is exact: the paths are the runs of
`Seen(text)`, the text with the lower byte of its length in front, that have a
prefix of a path. It is stated for strings of less than 8192 bytes. The higher byte
of a longer one can be printable too, and the runs of two fields could meet there.

### S3Service and HandlerStorageCheckpoints

A bucket is a set of objects with keys `<base>/<job>/<name>/<file>`. A base
stands for a configured `s3://` URI; `parseS3URI` and the path building of
`ListValidCheckpoints` and `buildSavepointPath` make sure that there is exactly
one slash between two segments, so a path is the list of its segments. Segments
are numbers in listing order. A job id of a status is turned into its segment by
`Dashless`.

`listCommonPrefixNames` is a loop: `ReadPage` reads a page that goes up to any
place (a page may hold no directory, since S3 counts other keys as well),
`Listed` is what the last page completes. `token` and `names` are its local
variables. Each page and each `HeadObject` sees the bucket of its own moment;
`BucketChanges` writes or deletes any object in between, in any order.

The handler's `phase` names the loop it is in: `jobs` (ListJobDirectories),
`nextJob` (the loop of `populateCheckpoints`), `checkpoints`
(ListStorageCheckpoints for a job), `heads` (the loop of `ListValidCheckpoints`),
`savepoints`, `respond`. Every S3 call has an action for its error: the listing
of the jobs loses all checkpoints, that of a job loses the job, a failed
`HeadObject` loses one checkpoint, and in each case the request goes on. A
`s3://` URI that does not parse fails like the listing. `ListValidCheckpoints`
cannot fail after its listing, so its result is appended to the response as it
grows. `flinkConfiguration` being nil is the case of no configured directory.
When the response is written the handler's variables are gone (`Respond`).

`present` and `seen` are history variables: the objects that existed all through
the request, and those that existed at some moment of it. `lost` and
`savepointsLost` record what the failed calls were needed for.

## 3. The runs

| Run | Instance | Checks | States |
|---|---|---|---|
| `backend_slots` | 1 key, 2 revisions, 2 connections, 2 clients, capacity 1, symmetric clients | `TypeOK`, `NoClosedRegistered` | 293,536 |
| `backend_order` | 2 keys, 3 revisions, 2 connections, 1 client, capacity 1; with the client's map | `CacheIsCurrent`, `NoSilentGap`, `PageIsCurrent`, `ImplementsFeed` | 1,307,034 |
| `backend_live` | 1 key, 3 revisions, 2 connections, 1 client | `EveryVersionIsCached`, `CachedVersionsAreShown`, `LeftClientsAreRemoved`, `ShutdownEndsStreams` | 89,304 |
| `backend_cancel` | 1 key, 1 revision, 1 connection | `CancelledWatcherReturns` is violated | |
| `backend_deleted` | 1 key, 2 revisions, 1 connection, capacity 2 | `InitialEventsAreCurrent` is violated | |
| `stream` | 2 attempts, 6 events | the seven properties of the hook | 296 |
| `details` | 2 deployments, 1 hook in a tab, 2 requests under way, 2 cached versions | `HookTypeOK`, `LoadingIsHonest`, `DataIsOfThePage`, `DataGoesForward`, `PageIsServed` | 260,160 |
| `metadata` | versions 2 to 6, at most 2 items per list, changelogs nested once, integers of 2 bits | `TypeOK`, `NothingUncounted`, `IndexIsNatural`, `ReadsTheSameFile` | 1,173,448 |
| `strings` | 2 fields of 78 texts, every cut and every smaller length | `StringsAreWritten`, `CutsAreNoticed`, `RunsAreListed`, `PathsAreListed` | 345,072 |
| `storage` | 5 objects of 2 jobs in 2 bases, any initial bucket, 2 changes | `TypeOK`, `NothingInvented`, `FailuresStayLocal`, `RowsAreDistinct`, `RequestIsAnswered` | 548,394 |
| `storage_savepoints` | the same | `SavepointsAreValidated` is violated | |
| `storage_jobs` | the same | `FilteredByCurrentJob` is violated | |

Bounds. `MaxRev` bounds the changes of the cluster and `MaxOpens` the
connections. With three revisions and two connections a deployment is created,
changed, deleted and created again on either side of, and inside, a gap. One
client suffices for order and delivery because `applyEvent` treats the channels
one by one; two are used where they meet, at the set of channels. Capacity 1
makes the channel full after one event; the code's 16 changes nothing but the
number of steps until then. A connection that could not be replaced within the
bound does not end, so that the bound never looks like a cluster that refuses
connections. In the browser two attempts suffice: a third fetch needs two to be
alive already, which `OneStream` excludes. In the storage runs two changes
suffice to delete a directory behind the scan and create one ahead of it, or to
delete and restore the same one; pages have any length, so three segments are
spread over one to four pages; and since a request may name either base for
either purpose, the savepoint's directory is also met among the checkpoints,
where it is skipped. Requests are independent of each other (the service keeps
nothing), so one at a time is enough. Symmetry is used for invariants only.

In `details` one hook is enough to meet its own earlier requests, and two
requests are one of an earlier visit and the current one; an effect that finds no
slot waits until a request has ended. The layout's hook is the same module without
the condition on `found`. A third request would only be another one that is
cancelled. In `metadata` the lists that are nested are those
of operators, subtasks and handles, so two items each show what an item leaves
behind for the next one; versions 2 to 6 are all that the code tells apart and
one below all of them; one changelog within another shows that the recursion
returns to its caller; with `IntMax` 1 the integers are -2 to 1, so the smallest
one is met, whose negation overflows. In `strings` the units of the short texts
lie on both sides of each boundary of the encoding (0, 127, 128, 2047, 2048, the
two kinds of surrogates, 65535), and the paths have lengths on both sides of 32,
the first printable byte; one text has two runs with a character of two bytes
between them; two fields show where the second one begins.

Deadlock is not checked in the backend's runs, since the application may stop,
and in `metadata` and `strings`, since a file is read once. It is checked in
`stream`, `details` and `storage`.

Fairness. The Go scheduler runs every goroutine that can go on: the watcher, the
streamer, each handler and each removal have weak fairness. For a handler that
includes "the write fails": the server's write timeout
(`backend/config.dist.yml`) ends a write to a client that does not read. The
cluster, clients, connection losses and the shutdown have none. In the browser
timers fire (weak fairness), and a fetch that is tried again and again is
answered in the end (strong fairness): without it no hook could promise a
connection. In `details` React renders what changed and runs the effects, and a
request ends: the server's client of the clusters gives up after 30 seconds
(`flink_client.go:20`), and the browser notices a lost connection; navigation, the
stream and the cache have no fairness. In `storage` the handler takes its steps (weak fairness of all of
them together; every call returns or fails); the bucket has no fairness.

### What the violated runs show

* `backend_cancel`: the watcher takes an event and goes to its send; the context
  is cancelled; the streamer sees that and returns. Nobody receives, and the
  send (`deployment_watcher.go:73`) has no case for the context. The goroutine
  and `cfn.Wait()` in `Run` wait forever. The comment above `processEvents`
  says it reads "until the channel closes or the context is cancelled".
* `backend_deleted`: a deployment is created and deleted; `applyEvent` stores
  the DELETED event's object in the cache (`module_deployment_watcher.go:149`)
  and nothing removes it. A client that connects later gets it as ADDED. The
  browser relies on the opposite: "the server will send fresh ADDED events for
  all current deployments" (`useDeploymentStream.ts:190`).

* `storage_savepoints`: a savepoint directory holds data and no `_metadata`, as
  it does while the savepoint is written and after it failed.
  `populateSavepoints` returns what the listing returns. The README says that
  the storage browser "Lists checkpoints and savepoints in S3, validates them by
  checking for `_metadata` files" (`README.md:12`).
* `storage_jobs`: a deployment has no job, and its checkpoint directory holds
  the checkpoints of an earlier one. They are listed, since `populateCheckpoints`
  scans all job directories. The view's own text is "Storage checkpoints are
  filtered by the current job ID." (`deployments.$namespace.$name.storage.tsx:197`).

`CacheIsCurrent`, `NoSilentGap` and `PageIsCurrent` are worded with this in mind:
they speak of deployments that exist, and of what the cache holds.

### What else the runs brought to light

* Under the name of a deployment that was deleted and created again the page may
  show the older one, although it has both: the map is keyed by uid, and `find`
  (`useDeployment.ts:13`) returns the older entry until the stream starts over.
  There are three ways to get there. The deletion falls between two watch
  connections, and no event tells of it. The DELETED event is in the cache
  (`module_deployment_watcher.go:149`) when a client connects, who gets it as ADDED
  (`handler_deployments.go:47`). Or the DELETED event finds the client's channel full.
  `PageIsCurrent` says that it happens in no other way: never to a deployment of
  which the stream has sent a DELETED event.
* The first frame of a page, or of another deployment on it, is committed before
  the effect runs: it is not loading, and has no data or those of the deployment
  before (`useCheckpoints.ts:17-26`). So `DataIsOfThePage` and the last part of
  `LoadingIsHonest` hold from the effect on, and not before.
* After an error in the stream the page says "connected", shows the error and offers
  a retry. `retry` (`useDeploymentStream.ts:292`) aborts the stream, and nothing sets
  `isConnected` to false before the new fetch is answered or fails. `ConnectedIsLive`
  says that this is the only time at which "connected" is not true, and that an
  error is on display then.
* A character outside the basic plane is stored by Java as two surrogates of three
  bytes each, and `decodeModifiedUTF8` (`reader.go:116`, "decodes Java's modified
  UTF-8 encoding") turns each of them into U+FFFD. So `StringsAreWritten` holds for
  texts of the basic plane only. The paths, ids and names in a `_metadata` file are
  hardly ever others.
* `PathsAreListed` speaks of `Seen(text)` and not of the text: a path is preceded by
  its length in two bytes, and if the lower one is printable (a length of 32 to 126
  bytes) the scan takes it for the first character of the path, which then has no
  known prefix and is missing in `StateFilePaths`. No comment or document promises
  that it is there.
* The API client throws an `ApiError` that is no `Error` (`client.ts:58`), so the
  hooks show their generic message instead of the server's.

## 4. The proofs

The theorems hold for every finite set of keys, every set of clients, every
capacity and every bound on revisions and connections. The only assumptions are
those of the modules: the keys are finite, capacity and bounds are numbers (the
capacity at least 1), `NoDep` is no deployment, `NoAttempt` no attempt, and a text is
one that Java can store.

**Backend, types and channels.** `TypeCorrect` is inductive as it stands: the
buffer of a channel stays within its capacity because the handler's event leaves
the buffer before it is written. `ChannelsClosedOnce` needs `FreeSlots`, that a
free slot has no channel, since a registration must not bring a closed channel
back.

**Backend, order and delivery.** `PipelineInv` follows an event from the API
server into the cache. Its parts: the queue of a connection is `Ordered` (per
key, revisions grow); nothing carries a revision the cluster has not reached
(`Revisions`); per key, cache, then the event in the streamer's hands, then the
one in the watcher's, then the queue, then the cluster's object are in this
order (`Upstream`); and on an open connection the last of them that mentions a
key is the object itself (`NothingLost`). When a connection ends, `NothingLost`
is given up; when the next one opens, the listing brings it back: that is why
`CacheCatchesUp` holds whatever was lost. `StreamInv` does the same for a
client: `Downstream` orders what was shown, the snapshot, the channel and the
cache, and `Delivery` says that the cached version is among them unless it was
dropped at a full channel. `SnapshotFirst` records that an update is only taken
out of the channel when the snapshot is sent, and `OpenRegistered` that an open
handler is without a registration only once the streamer has returned. `NothingSkipped` and
`StreamImplementsFeed` follow.

**From the cluster to the page.** `PageCatchesUp` adds to the two invariants above
what identifies an incarnation. `Knows(d)` says that state `d` of a deployment is
anywhere in the backend or on a page, `Tells(e)` that event `e` is under way, and
`Deletes(d)` that a DELETED event of `d` is under way or was sent. `Incarnations`: a
uid belongs to one name, nothing known of a name is younger than the incarnation
that exists, what is deleted is the last state of an incarnation that has ended
(`IsLast`), and it is told of in no other way. Only a change of the cluster adds a
known state (`CommitKnows`); every other step passes on what is known
(`NothingNew`). `MapShows`: what a client was last told of as existing is in its
map; no event of another deployment can take it out, because of the uids.
`MapForgets`: after a client was told of a deletion, nothing of that incarnation is
in its map, its snapshot is sent, and what it was last shown under the name is not
older than the deletion.
This is where `Downstream` of `StreamInv` is used again: what is still in the channel
is younger than what was shown, so no older state of the deleted incarnation can
come in after its deletion. When everything has arrived, `Delivery` says that the
client was last told of the object itself; so it is in the map, whatever else the
map has under that name is older, and by `MapForgets` was never told of as deleted.
The lemmas about `Reduce` and `FindByName` are in `DeploymentsMap_proofs`,
`LeastNumber` among them: there is a first entry to be found.

**Browser.** The four control properties are inductive together with `Watched`:
the heartbeat interval is set exactly while the abort controller has a running
fetch; and `Scheduled`: while the reconnect timer is set, nothing runs and the page
does not say "connected", so a connection that the timer starts is never taken for
the one before. From it follows that the code after an await never clears another
attempt's timers. `TypeCorrect` includes that the map has one entry per uid,
which rests on the lemma `ReduceKeepsOnePerUid` about `setDeploymentsMap`.

**Storage.** `Inv` relates the response to the place the scan has reached.
`Ahead` says of a checkpoint that stayed: it is in the response, excused by a
failed call, or still ahead, among the jobs, names or entries not yet visited or
beyond the token. It is kept because a page holds everything between two tokens
that exists at that moment (`PageFacts`, `ListedFacts`). `Order` and
`EntriesBefore` say that the response lies before all that is still ahead, in
listing order, which is why nothing is listed twice. `Observed` says that the
bucket lies between `present` and `seen`, so that an answer of S3 is evidence.
Assumed are finitely many segments, numbered from 1, and objects with keys made
of them.

**Data hooks.** `HInv` strengthens the types by facts about each hook: at most one
request is wanted, it is there exactly while the hook is loading, and once the
effect has run it asks for the deployment shown; and (`AnswersInOrder`) the version
of a wanted request's answer is not below that of the data shown if both are of one
deployment. Between a commit and its effect the wanted request may be that of the
deployment before and its answer may be taken (`SettleKeeps`); `EffectKeeps` says that
the effect leaves no request wanted but its own. A commit after which no effect is
due keeps the deployment (`CommitKeeps`), which is why `DataIsOfThePage` survives it.
`AnswersInOrder` rests on the first fact: an answer that is wanted was looked up in
the cache after the data shown was, because all earlier requests were cancelled or
answered when it was sent, and the cache only grows. The theorems hold for any
hooks, deployments, numbers of requests and versions.

**Parser.** `StackInv` says that the stack consists of symbols and that the
symbol `readProperties` lies at its bottom until it is read.
`BothModesReadTheSameFile` is a refinement: `Unskipped(todo)` of every step is a
step of the full parser. `RestBecomes` is its core, production by production:
unskipping what a symbol leads to gives what the unskipped symbol leads to. Its
leaves are the comparisons of each `skip...` with its `read...` function.
`IndexStaysNatural` needs no bound on the integers: the complement of a negative
number of any width is in 0..`IntMax`, since the code adds one before it turns
the sign. `NothingStaysUncounted` needs an invariant of its own, `CountInv`: below
a symbol of an operator no subtask is left (`Ordered`), the operators are announced
once (`Once`), and nothing lies below `readProperties` (`LastOnly`). Without the
first, a new count of subtasks would be taken for those of the operator before.
`RestAdds` gives for each production how many operators and subtasks it puts on
the stack; `CountPush` adds them up.

**Strings.** The theorems about `MetadataStrings` are about loops over data: what
the decoder and the scan compute for every sequence of bytes. A property of all
sequences is stated as a set, and `SequenceInduction` says that a set which has the
empty sequence, and with a sequence also every one that is longer by an element, has
all sequences; it rests on the least number of a nonempty set (`LeastNumber`,
`Induction`). `Recursion` says that the functions of the module exist and `SameRecursion` that
they are unique, so that each loop can be unrolled by one round: `ScanAppend`,
`UniqueAppend`, `FlattenAppend`.

* *Decoding.* `UnitDecodes` is the arithmetic: each of the three forms of
  `EncodeUnit` is read back by `FirstChar`, and a buffer that ends within the unit
  has no character. `End(q, k)` is the place where the first k units end (`Parts`),
  and the decoder, whose function is defined from the end of the buffer, is followed
  backwards over these places. The result is `DecodeText`: the first n bytes of
  a text give the units that end at n, or nothing if n lies within a unit.
* *Reading.* `IInv` is the invariant of the specification. In an undamaged file the
  offset is where as many fields end as strings were read (`UndamagedInv`), so
  `FieldAt` says what the next two bytes and the bytes behind them are; the first
  string is also known when its length is wrong (`CutInv`). From these
  parts follow `WrittenTextsAreRead`, by `BasicText` (Go returns a text of the basic
  plane as it is), and `CutTextsAreNoticed`. `IInv` was also
  checked with TLC on the instance of the run.
* *Scanning.* `ScanInv` says what the scan holds after any bytes: the long runs that
  have ended (`ClosedRun`), and the one that has not (`IsTail`). So the scan finds
  `LongRuns` of any file (`FoundRuns`), and `InlineStringsAreRuns` follows.
* *Paths.* `ScanEncoded`: the bytes of a text are scanned as its units are, since a
  unit of several bytes is unprintable and so is each of its bytes, and a run that
  has ended does not end twice. `FieldsRuns`: an unprintable byte, here the higher
  one of a length, separates the runs on both sides. `ImageRuns` adds up the fields
  of a file, `KeptPaths` is the filter, and `StatePathsAreOfFields` follows.

Only model-checked, and why:

* the liveness properties (`backend_live`, `PageIsServed`, `SilenceIsNoticed`,
  `Reconnects`, `RequestIsAnswered`): the prover has no liveness under fairness;
* the violations, which are counterexamples.

Every invariant, action property and refinement that a passing run checks is a theorem.

## 5. What is not modelled

* Logging, metrics and formatting. The bytes of SSE events and the parsing of
  event blocks: a chunk is one event, one heartbeat or one error. The lengths of
  timeouts and of the backoff: a timer may fire at any time. Go panics other than
  those `NoClosedRegistered` excludes. The kernel's own stages.
* The events handler and the event list of the Kubernetes service: one stateless
  request whose items are copied. The start of the application: wiring.
* Of the proxies, the contents of Flink's answers; of the API client, which of its
  four errors it is.
* Of the parser, the values that are only stored, `buildOperatorID` and
  `distributionModeFromOrdinal`, which compute such values, and `ParseFile` and
  `ParseFileSummary`, which open and close a file around it.
* Memory: the parser allocates by counts of the file before it reads the elements
  (`keyed_state.go:47`, and in the full mode only `operator_state.go:162`). A damaged
  count that exhausts the memory is no outcome of the model.
* A store whose pages do not advance: `ReadPage` assumes that every page but the last
  ends beyond the one before, as S3 promises. The code has no bound of its own
  (`s3_service.go:117`), so `RequestIsAnswered` says nothing about such a store.
* Of the pages, sorting, filters and layout, which keep no state beyond the hooks.

## 6. What could come next

* The wire between a handler and its browser as a queue of its own, with the
  attempts of `DeploymentStream` as the clients of `HandlerDeployments`: what a
  page shows across a restart of the backend.
* A watch that is told of a deletion it missed (a listing compared with the cache).
  The code does not do it; `PageIsCurrent` without its second alternative would be
  its specification, once the cache forgets deleted deployments as well.
