# Aggregator: TLA+ models, checks and proofs

Aggregator is a Mochi microservice (C, on Margo, Mercury and Argobots) that
keeps *performance streams*. An application registers a provider in its
process, creates named streams in it, records samples in them from its
user-level threads (ULTs), and dumps them to files. Monitoring clients in other
processes list the streams of a provider and fetch the latest samples of one.
This directory models that code in TLA+, checks the models with TLC on small
instances, and proves the central properties with TLAPS for all instances.
Paths below are relative to the repository (`src/src/client.c` in
`PROJECT.json`); line numbers are of the commit modelled.

## 1. The system

| Component | Where | State | Operations |
|---|---|---|---|
| stream | `src/client.c` 98-202, `src/provider.c` 209-216, `src/types.h` 77-88 | `type`, `buffer`, `buffer_index`, `stream_mutex` | `aggregator_stream_update`, `..._update_gauge_by_fixed_amount`, the copy of a fetch, `..._dump_raw_data`, `..._dump_histogram` |
| stream id | `include/aggregator/aggregator-common.h` 69-101 | none | `aggregator_hash` (djb2), XOR of the hashes of namespace, name and tags |
| provider | `src/provider.c`, `src/provider.h` | hash `streams`, `num_streams`, the streams' memory | register, finalize, destroy; create, destroy, destroy all streams; handlers of fetch and list |
| client | `src/client.c` 13-46, 206-358 | `num_stream_handles`, `refcount` of each handle | init, finalize, handle create / ref_incr / release, remote fetch, remote list |
| wire format | `src/types.h` 23-75 | none | Mercury encoders and decoders |
| tag list | `src/client.c` 49-81 | array of strings | create, destroy |
| uthash | `src/uthash.h` | vendored hash table: list in order of insertion, buckets, chains | add, find, delete, iterate, expansion |
| admin | `src/admin.c` | a Margo instance | init, finalize (nothing else) |
| bedrock module | `src/bedrock-module.c` | none | adapters to register, destroy, client init |
| dummy backend | `src/dummy/dummy-backend.c` | a template | never called: `aggregator_provider_register_backend` does nothing |
| programs, tests | `bin/*.c`, `tests/*.c` | | how the library is driven |

How they interact:

- The application calls the stream and provider functions directly; they share
  the `aggregator_stream` structures with the RPC handlers of the same process.
- A client sends an RPC through Mercury; Margo makes a ULT for it in the
  provider's pool; the ULT finds the provider by `margo_registered_data`, the
  stream by its id in the hash, copies samples, pushes them with
  `margo_bulk_transfer` and answers with `margo_respond`. The last two suspend
  the ULT, and other ULTs of the execution stream run meanwhile.
- A call of a client waits in `margo_provider_forward` and may fail there while
  its request is on the way or being served; its bulk region is then left
  registered, and the provider may still write to it.
- Creator and client agree on a stream by computing its id from the same
  strings, each on its own.
- A provider is finalized by the application or by the callback it pushed with
  Margo, which `margo_finalize` runs; destroy pops the callback.

What is hard:

- *Concurrency inside a stream.* Writers exclude each other with
  `stream_mutex`, but the check of a counter's new value is made before it is
  taken, and all readers (fetch, dump, histogram) go without it. On one Argobots
  execution stream ULTs switch only where they block; on several, everywhere.
- *Concurrency around the hash.* There is no lock: only a single execution
  stream for application and handlers keeps it intact (`margo_init(..., 0, 0)`
  in `bin/server.c`). Even then a handler is suspended while it has a request
  half answered, and streams or the provider are destroyed meanwhile.
- *Two lives.* A stream handle keeps a bare pointer to its client, and the client
  is freed whether or not handles are left; a request outlives its call, and its
  provider may be destroyed before it is served.
- *Errors that are not looked at.* `add_stream` fails and its caller succeeds;
  the error exits of the handlers use variables never set.
- *Limits.* Nothing compares `buffer_index` with `STREAM_BUFFER_SIZE`.

`PROJECT.json` lists these one by one under `hazards`, with the line and the
properties aimed at each.

What makes each component correct:

- *stream*: it behaves as an append-only log: no update lost, none published
  twice, samples never change, deltas applied to the latest value, times sorted,
  counters never decrease, reads are runs of consecutive published samples and
  no longer than requested, every call returns.
- *stream id*: it depends on the words and not on the order of the tags; it
  identifies the stream.
- *provider*: the hash holds live streams, one per id, and `num_streams` counts
  them; what the application holds can be found by clients; an answer is about
  the id asked for, also after a destroy in mid-request; every request is
  answered.
- *client*: a handle lives exactly as long as it has references; the count of
  the client is the number of live handles; every exit of a call gives back what
  it took.
- *life cycle*: a provider is finalized exactly once, by the application or by
  Margo.
- *uthash*: it is a sequence with one element to a key, whatever its buckets go
  through; no pointer in it leads to a freed element.
- *all together*: a call that succeeds returns what was right at one moment
  between its beginning and its end, and every call returns.

## 2. Modules

| Module | What it is |
|---|---|
| `SampleLog` | abstract: what a stream promises, an append-only log with atomic reads |
| `Stream` | one stream and its ULTs, one step per shared access; implements `SampleLog` on one execution stream |
| `StreamProofs` | theorems about `Stream` for every placement of the ULTs |
| `StreamLogProofs` | theorems about the order of the samples and about one execution stream, with the refinement of `SampleLog` |
| `MCStream` | instances of `Stream` for TLC |
| `StreamId` | the computation of an id, by two callers, over any hash; also djb2 itself |
| `StreamIdProofs` | theorems about `StreamId` |
| `MCStreamId` | instance of `StreamId`: three words with their real hashes |
| `Registry` | abstract: a sequence of streams with one stream to a key |
| `UtHash` | the hash table, pointer by pointer, which implements `Registry` |
| `UtHashProofs` | theorems about `UtHash`, with the refinement of `Registry` |
| `MCUtHash` | instance of `UtHash`: seven elements and two hash functions that collide |
| `Provider` | life cycle, hash, heap, application calls and the two RPC handlers; implements `Registry` |
| `ProviderProofs` | theorems about `Provider` |
| `MCProvider` | instances of `Provider` |
| `Client` | a client, its stream handles and its two remote calls, against any server |
| `ClientProofs` | theorems about `Client` |
| `MCClient` | instance of `Client` |
| `Aggregator` | composes `Provider` and `Client`: the calls of the one are the requests of the other |
| `AggregatorProofs` | theorems about `Aggregator`, which carry those of its parts over |
| `MCAggregator` | instance of `Aggregator` |
| `Histogram` | the two scans of a histogram dump against updates |
| `HistogramProofs` | theorems about `Histogram` |
| `MCHistogram` | instance of `Histogram` |

### Stream

A ULT `u` is at `pc[u]`; `call[u]` is the call it makes. Each action is one
access to the shared structure, in the order of the source, and accesses are
sequentially consistent:

| Action | Code |
|---|---|
| `StreamUpdate`, `Refuse` | the `switch` of `aggregator_stream_update` (98-111): refuse, or go on to the lock |
| `UpdateGaugeByFixedAmount` | the `switch` of the delta update (128-134) |
| `MutexLock`, `MutexWait` | `ABT_mutex_lock` free, or taken: the ULT is suspended and leaves its execution stream |
| `StoreSample`, `StoreOverrun` | the three assignments to `buffer[buffer_index]`, in or past the end |
| `AdvanceIndex`, `MutexUnlock` | `buffer_index++`; unlock and return `AGGREGATOR_SUCCESS` |
| `FetchTest`, `CopyAll`, `CopyLast` | the comparison of `buffer_index` with `in.count`, then the second read of it and the copy |
| `DumpRawData`, `DumpSample`, `DumpClose` | the loop of the dump, `buffer_index` read at every turn |

`Home[u]` is the execution stream of `u` and `running[e]` the ULT that occupies
`e`: a ULT keeps its execution stream until it blocks or returns. With one
execution stream the calls are then atomic except for a wait on the mutex; with
one each, all interleavings occur. Both placements are instances of one module.
`corrupt` stands for a write out of bounds, after which nothing is modelled.
`stored[u]` is a history variable: the updates of `u` that succeeded. The
identity of a ULT in `sample_id` is the one the code stores.

Abstractions: doubles are integers; the comparison of a counter with its last
sample (two reads in C) is one step, which loses nothing because the index only
grows and a published sample never changes (`PublishedImmutable`); a compiler
that merges the two reads of `buffer_index` in the fetch produces a special case
of the behaviours here.

### StreamId

A `uint32_t` is the set of its one bits, XOR the symmetric difference. A caller
hashes the namespace, the name, then one tag after the other. `Hash` is any
function; `MCStreamId` takes `Djb2`, the function of the code with its signed
`char` and its wrap-around, kept to the low 16 bits (they depend on the low 16
bits only). Reading from a null name is refused by both callers before the hash
and not modelled.

### Provider

`streams` is the hash as the sequence of addresses in insertion order, which is
the order `HASH_ITER` gives; `heap[a]` is the structure at `a`, or `Free`, and
an address is reused after a free, as `calloc` does. `handle[h]` is an
`aggregator_stream_t` variable of the application. The sample buffer is reduced
to how many samples it has, and a reply to which samples of which stream it
holds.

| Action | Code |
|---|---|
| `StreamCreate` (with `AddStream`) | 133-161, 323-336: `AGGREGATOR_SUCCESS` also when the hash refused the stream |
| `Record` | an update of `src/client.c`, on one execution stream, perhaps of a structure that was freed |
| `StreamDestroy` (with `Reached`, `RemoveStream`) | 238-254, 338-351: finds by id, unlinks, frees, then reads the freed structure; the id itself may be read from freed memory |
| `DestroyAllStreams` (with `RemoveAllStreams`) | 256-262, 353-362 |
| `SendFetch`, `SendList` | a request reaches a registered RPC and is queued |
| `HandlerWithoutProvider` | it is handled after the RPC was deregistered |
| `FetchCopy`, `FetchReply`, `FetchTransferFailed` | the handler up to `margo_bulk_transfer`; after it |
| `FetchUnknown`, `FetchFault` | the early exits to `finish:` |
| `ListReply`, `ListFault` | 264-305 |

The life of the provider is part of the module; it starts unregistered:

| Action | Code |
|---|---|
| `RegisterByDefault`, `RegisterByBedrock` (`ProviderRegister`) | 42-106, with the arguments of `aggregator-server.h` 32-38 and of `bedrock-module.c` 14-30: with and without `push_finalize_callback` |
| `FinalizeProvider` | 108-118: deregister, remove all streams, free, then log through the freed provider |
| `ProviderDestroy` | 120-131: pop the callback, finalize |
| `MargoFinalize` | what Margo does with the callback of line 99 |

One registration per process is a bound. A registration that is refused changes
nothing and is no step.

A handler is cut only where it waits for Mercury, since everything shares one
execution stream. Memory read after it was freed, or used without being set, is
undefined behaviour: the step may set `crashed`, or go on. `Uses` says what the
environment does in an instance: destroy one stream, all, or the provider; create
two live streams with one id; ask for an id nobody created; let Mercury calls
fail. The application is taken to be correct otherwise: it uses a handle only
while it holds it, and gives all handles up when all streams are destroyed. What a
handle leads to may be gone all the same: destroying a stream that the hash refused
frees the one registered under its id, and the holder of that one goes on to record
in it and to destroy it. Either step may end the process (`stream used after free`,
`stream read after free`); if it does not, a record is lost or goes to the stream
that has the address now, and a destroy takes any stream or none, since it looks up
what it finds for an id in the freed structure.

### Histogram

`aggregator_stream_dump_histogram` reads the buffer without the mutex: one scan
for the bounds, one that counts. `Publish` is an update of another thread between
any two of its steps. The stream is reduced to the values published so far, of
which the properties of `Stream` proved in `StreamProofs` say that they only grow
and never change. The values are integers, or not a number. The code divides doubles
before it multiplies and truncates, and rounding may move a sample over the border of
its bucket: `BucketIndexes` is the set of the indices that may come out, the exact one
and its neighbours. It leaves out only what rounding cannot do: as it keeps the order,
and the quotients 0 and 1 of the bounds are exact, no sample between the bounds gets
an index below 0 or above `num_buckets`, none from the largest on one below
`num_buckets`, and none under the smallest one above 0. The conversion of what is not
a number to `int` is undefined: any index.

| Action | Code |
|---|---|
| `DumpHistogram` | 164-171: `max` starts at 0, `min` at 9999999999999, the buckets at zero |
| `ScanBounds`, `EndBounds` | the first loop (172-177) and its end, `buffer_index` read at every turn |
| `CountSample` (`BucketIndexes`) | 179-183: an index outside the array sets `corrupt` |
| `WriteHistogram` | 185-192 |

`OverrunCause` lists when the array is overrun: the sample is in the last bucket
(the largest has the quotient 1 and the index `num_buckets`; one just below it may be
rounded up), all samples are equal to `max` so that the quotient is undefined, it is
not a number, it was published between the scans, or there are no buckets. As `max`
starts at 0, a stream with a sample that is not negative always has one of the first
two: only streams of negative values get a histogram without an overrun.
`OverrunCause` says that there is no further cause: the bounds cover everything the
first scan has seen, whatever was published behind it, and no sample from another
bucket than the last gets out of the array.

### UtHash

`hh[e]` is the `UT_hash_handle` of an element, for each element that is
allocated, so that a link to a freed element is seen as one; `tbl` is the
`UT_hash_table`, with its buckets. `el` and `tmp` are the cursors of `HASH_ITER`
in `remove_all_streams`. Elements are linked in the order of insertion (`prev`,
`next`) and along the chain of a bucket (`hh_prev`, `hh_next`).

| Operator or action | Code |
|---|---|
| `Find`, `FindInBkt` | `HASH_FIND`: the bucket of the hash value, then its chain from the head |
| `Add` (`MakeTable`, `AppendList`, `AddToTable`, `AddToBkt`) | `add_stream` with `HASH_FIND` and `HASH_ADD`: the element goes last in the list and first in its chain |
| `ExpandBuckets` (`NewChain`, `ExpandMult`, `Rechain`) | `HASH_EXPAND_BUCKETS`: twice the buckets, chains dealt out anew, `expand_mult`, `ineff_expands` and `noexpand` |
| `RemoveKey`, `Delete` (`Without`, `DelInBkt`) | `remove_stream` with `HASH_DELETE`, which frees the table with its last element |
| `RemoveAll`, `RemoveNext` | the loop of `remove_all_streams`, one element a step |

The hash function is a constant: its value plays no part in what the table
promises, only how keys collide. `HASH_BLOOM`, sorting, selection, replacement and
`HASH_ADD_INORDER` are not used by the code and left out. `MaxBuckets` is a bound:
nothing is added to a table of more buckets, as elements that are deleted and added
again may double the table without limit.

### Client

`remote[a]` is the `aggregator_stream_handle` at address `a`, with its `refcount`;
`refs[a]` is a history variable, the references the application has been given and
has not released. `rpc[r]` is a call: its arguments, its Mercury handle `hg`, its bulk
`region` and what it returns. ULTs share one execution stream, so a call is cut
where it waits, in `margo_provider_forward`, and nowhere else. What the server
answers is any answer; after an error the count of a fetch is any number that an
`int64_t` nobody has set may hold (`Decoded`). `fault` names the first use of memory
that was freed or never set, after which nothing is modelled; the step may also go on
without harm. `Faults` says which Mercury calls may fail. The result of
`margo_bulk_create` is not looked at (line 235), so when it fails the call goes on with
a region that is `"unset"`: it is encoded, waited with, and freed (`NewRegions`).

| Action | Code (`src/client.c`) |
|---|---|
| `ClientInit`, `ClientFinalize` | 13-46: finalize warns of handles that are left, and frees |
| `HandleCreate`, `RefIncr`, `Release` | 269-321: the last release counts and frees through the client |
| `FetchBegin` (`Clamp`, `NewRegions`) | the remote fetch up to its wait: the count is clamped, the id copied, a region made or not |
| `ListBegin` | the remote list up to its wait |
| `Start` | `margo_create`, which may fail |
| `ForwardFails`, `OutputFails` | the error exits of the wait and of `margo_get_output` |
| `FetchEnd`, `ListEnd` | from the answer to the return |
| `ProviderHandleCreate`, `ProviderHandleDestroy` | `bedrock-module.c` 58-79: the handle's `mid` is never set |

### Aggregator

`Aggregator` EXTENDS `Provider` and INSTANCEs `Client` with `Rpc <- Request`: call
and request `r` are the two ends of one RPC.

| Action | What it is |
|---|---|
| `Deliver` | Mercury delivers the request of a call, also of one that has given up |
| `Return` | the call takes the answer (`FetchEnd`, `ListEnd`, `OutputFails`), or learns that nobody will give one |
| `GiveUp` | Mercury fails the call, whatever becomes of its request |
| `HandlerStep` | a step of the provider's handler |

The network is external: it is modelled by what the code expects of it, delivery at
most once, an error, or an answer. Where `margo_bulk_create` may fail the provider's
Mercury calls may fail too (`AggregatorAssumption`), as they are given a region that
was never set. `Observe` is part of every step and keeps
`seen[r]`, a history variable: the answers that have been right since the call `r` began.

## 3. Runs

TLC stops without error on every run of kind *pass*; it finds the property
violated on every run of kind *violation*.

| Run | Kind | Properties | Instance |
|---|---|---|---|
| `StreamOneES` | pass | `TypeOK`, `CounterMonotone`, `FetchWithinRequest`, `OverrunOnlyWhenFull`, `LogSpec` | 2 ULTs on one execution stream, all three types, capacity 3, up to 4 updates |
| `StreamManyES` | pass | `NoLostUpdate`, `DeltaOnLatest`, `TimesSorted`, `WindowIsRun`, `PublishedImmutable`, `CallsReturn` | 3 ULTs on two execution streams, so that two share one; one delta update each, any number of reads |
| `StreamCounterRace` | violation | `CounterMonotone` | 2 ULTs, two execution streams |
| `StreamFetchRace` | violation | `FetchWithinRequest` | 2 ULTs, two execution streams |
| `StreamId` | pass | `TypeOK`, `IdIsParity`, `OrderIndependent` | two callers, three words, up to two tags, 16 bits of the real hash |
| `UtHash` | pass | `TypeOK`, `Fsck`, `PointersLive`, `FindsExactly`, `ChainsBounded`, `RegistrySpec` | 7 elements, 6 keys, two hash functions, 1 bucket at first and up to 8, chains of 2 |
| `ProviderCollide` | pass | `TypeOK`, `RegistryConsistent`, `ListWithinMax`, `LeavesWithItsId`, `FinalizedOnce`, `RegistrySpec` | 3 handles, 3 addresses, 3 keys of which two have one id, lists of up to 1 and 2 ids, one sample, everything in `Uses` |
| `ProviderCreateTwice` | violation | `HandlesRegistered` | an id used twice |
| `ProviderUnknownId` | violation | `UnknownIdRefused` | a fetch of an unknown id |
| `Client` | pass | `TypeOK`, `HandleWhileHeld`, `WarnedBeforeStaleUse`, `CallsGiveBack` | 2 handle addresses, 2 ids, 2 calls, counts -1, 1 and 3, every Mercury call may fail, `margo_bulk_create` included |
| `Aggregator` | pass | `HandlesLive`, `HandlesRegistered`, `TransferTargetLive`, `FetchAnswersItsId`, `AnswersOfTheCall`, `Answered`, `CallsAnswered` | one call against a provider with 2 streams, the whole life of both, calls that give up, regions that were not made, failing calls of the provider |
| `Histogram` | pass | `TypeOK`, `OverrunCause`, `EverySampleCounted` | five values of both signs and not a number, up to 5 samples published before and during dumps, 0, 2 or 3 buckets |

What they show:

- On one execution stream, the set-up of `bin/server.c`, the stream *implements*
  `SampleLog`: only admissible samples enter and a read is an atomic snapshot.
- On several execution streams the mutex still protects the writers from each
  other and, as the index is advanced after the sample is stored, readers without
  the mutex see only published samples. Two things are lost: a counter may
  decrease (`StreamCounterRace`: two ULTs pass the comparison, then store 2 and 1)
  and a fetch may copy more samples than the transfer buffer holds
  (`StreamFetchRace`: an update between the two reads of `buffer_index`).
- Every call returns, waiters of the mutex included.
- The id does not depend on the order of the tags. Being a parity (`IdIsParity`), it
  does not identify a stream: exchanging namespace and name, or repeating a word,
  gives the id of another. `ProviderCollide` shows what a provider makes of that.
- With colliding ids the hash and its count stay consistent, and a list holds the ids
  of registered streams, each once, and all of them if they fit (`ListWithinMax`). But a refused
  stream is handed out as a success, and destroying it frees the stream registered under
  its id. What protects the other streams is that the one taken has that id, unless the
  id is read from a structure already freed (`LeavesWithItsId`): the abstract registry
  alone would allow any stream to leave. With ids that differ, a stream the application
  holds is registered and is never freed by a call on another.
- The hash table implements the registry that `Provider` reasons with, and so does
  `Provider`'s own: through expansions, ineffective ones included, deletions at each
  place of list and chain, and the loop that frees all. Its links never lead to a
  freed element, its counts are those `HASH_FSCK` checks, and a key is found iff it is
  there.
- The chains of the hash table are bounded, but not by the threshold alone. The
  comment at `uthash.h` 1086-1088 has it that a bucket without multiplier is held to
  `HASH_BKT_CAPACITY_THRESH`. An expansion that finds more elements than that for every
  bucket does not keep it: a chain as long as the ideal gets no multiplier, although it
  may be at the threshold or above. `ChainsBounded` states the bound that holds.
- A stream handle lives exactly as long as it has references, and the client counts
  those that live; a client is used after it was freed only by a handle its finalize
  has warned of. Each exit of a call gives back the Mercury handle; the bulk region
  stays registered only where the wait or the decoding failed.
- A fetch hands out the latest samples of the stream that had the id when they were
  copied, as many as asked for or all there are (`FetchAnswersItsId`). This and
  `ListWithinMax` are properties of the step that copies or answers, as the stream may
  be gone afterwards.
- A call that succeeds returns what was right at one moment of its wait, although
  streams are recorded in, destroyed and created again meanwhile. The provider
  writes only to regions that are registered, also for a call that has given up:
  the region leaked by the error exit is what makes that so (the mutant
  `ForwardFailsFreesRegion` frees it and the transfer has no target). Where
  `margo_bulk_create` fails unnoticed nothing is promised: the provider may be given a
  region that was never made, and a fetch that succeeds may have filled nothing.
- The provider is finalized once, by whoever comes first of the application and
  Margo, if it was registered with the callback.
- Every accepted request is answered, and every call returns, while the processes
  live.
- A histogram counts every sample once, until it indexes outside its array for
  one of the reasons of `OverrunCause`.

Each violation is a finding of `PROJECT.json`, with the comment or documentation
it contradicts.

### Bounds

- *ULTs*: two suffice for a race of two accesses; three put two waiters on the
  mutex, or a reader next to two writers.
- *Capacity* (`STREAM_BUFFER_SIZE`, 3 or 4 for 160,000,000) and `MaxUpdates`:
  the buffer is empty, part filled, as long as a request, longer, full and
  overrun. Nothing in the code depends on the capacity otherwise.
- `MaxTime` 1: samples of equal and of different times.
- *Counts* of a request below, at and above the number of samples. A client never
  asks for more than the capacity.
- *Words* and two tags: equal and different words, tags in both orders.
- *StreamManyES* has delta updates only. Plain updates take the same path from the
  lock on; `StreamOneES` and `StreamCounterRace` have them.
- *UtHash*: with the first hash function two chains share all elements, and the
  table gives up on expansion; with the second they stay in
  one chain until there are 8 buckets, which take a part of it to another. Two elements share a key, so that one of them is refused. There is 1 bucket
  at first for the 32 of the code, and chains of 2 are long for its 10.
- *Provider*: two streams with one id and a third; an address is reused as soon as
  its stream is destroyed, also during a transfer. One request, as requests only read
  what they share (lemma `RequestsAreQuiet`).
  Lists of two ids, cut and not cut. One sample is enough for what the registry does;
  fetches that are cut are left to `Aggregator`.
- *Client*: two references to each of two handles, an address reused after its last
  release, counts below zero, below and above the capacity, two calls at once.
  A count that was never set is -1 or 3: negative, or more than any fetch asks for.
- *Aggregator*: one call, since calls do not change handles nor requests the
  registry; two streams, of which either may be the one asked for or none; fetches of one sample from none, one
  and two. Ids that collide, the destruction of all streams at once, and a registration
  without the finalize callback are left to `ProviderCollide`: the properties of the
  whole need ids that differ.
- *Histogram*: values below, at and above 0, two of each sign, so that bounds,
  inner values and late values beyond both bounds occur; `Huge` is any number
  above them. With an index one off in each direction rounding is stronger than that of
  doubles, where it matters next to a border only.
- *Symmetry* over handles, addresses, ids, calls and requests, in the runs without
  liveness; in `ProviderCollide` also over the two keys with one id; in `UtHash` over the elements whose keys the two hash functions do not
  tell from each other.

Deadlock is not checked where the process may die or corrupt its memory, or where
the bounds end the computation; `CallsReturn`, `Answered` and `CallsAnswered`
say what must not get stuck.

### Fairness

`Stream!FairSpec` is strong fairness of the steps of each call that has begun.
Argobots serves the ready ULTs of a pool first come first served, ULTs are not
preempted and none of them spins, and `ABT_mutex_unlock` makes the waiters ready
again: a ULT that is able to run again and again runs. Weak fairness is not
enough, since a mutex or an execution stream may be free and taken by turns. No
fairness is assumed of new calls.

`Provider!FairSpec` is weak fairness of the progress of each handler
(`HandlerProceeds`): Margo runs every ULT it has made, and Mercury ends every
transfer. A failure of Mercury inside a handler (`HandlerFails`) may happen but is
never forced, so that fairness is not used up by it: a handler whose next step
proceeds takes it or fails. `AggregatorFairSpec` has that too, and weak fairness of the delivery of each request, and of the
return of each call (Mercury delivers every answer, and refuses a request nobody
takes). `GiveUp`, the failure of a call in its wait, is never forced, and neither
is anything the applications do: a provider may be registered late or never.

## 4. Proofs

TLAPS checks the theorems below for every value of the constants that the
assumption of the module allows (`StreamAssumption`, `ClientAssumption`,
`AggregatorAssumption` ..., which TLC evaluates in every run). Each rests on an
inductive invariant, named `...Inv` in the module of the proofs.

### One stream

For every set of ULTs, every placement on execution streams and every capacity:

- `TypeCorrect`, `PublishedStays`, `UpdatesKept`, `DeltaApplied`, `ReadsAreRuns`
  (`StreamProofs`): the properties `TypeOK`, `PublishedImmutable`,
  `NoLostUpdate`, `DeltaOnLatest`, `WindowIsRun`.
- `SamplesInTime` (`StreamLogProofs`): `TimesSorted`.

The invariant is `IInv`:

- `MutexInv`: a ULT is between lock and unlock iff it owns the mutex. Even the
  type of `buffer_index` needs it: two ULTs past the capacity check could both
  increment the index.
- `SlotInv`: while a ULT is about to advance the index, the next slot is inside
  the buffer and carries its identity.
- `ReadInv`: a fetch that found at least `count` samples still has them when it
  copies, because the index only grows. It is what keeps the start of the window,
  `buffer_index - actual_count`, inside the buffer.

On top of it `UpdatesKept` follows the number of slots of each ULT by cardinality
lemmas, `ReadsAreRuns` shows that a window, once copied, remains a run
because published slots never change (`PublishedStays`), and `TimeInv` says that
the sample about to be published is no older than the ones before and none is of the
future: the clock is read when the sample is stored, under the mutex.

With all ULTs on one execution stream (the hypothesis `OneES`, which is the
set-up of `bin/server.c`):

- `CountersNeverDecrease`, `FetchFitsItsBuffer`, `OverrunsWhenFull`:
  `CounterMonotone`, `FetchWithinRequest`, `OverrunOnlyWhenFull`.
- `StreamIsALog`: `LogSpec`, each step of a stream is one of `SampleLog` or none.

`StreamCounterRace` and `StreamFetchRace` show that the first two need the
hypothesis. The invariant is `SeqInv`: whoever is inside a call occupies the
execution stream (`SerialInv`), so at most one is, and what it has checked before it
took the mutex still holds when it stores (`ThreadInv`).

### The stream id

For every set of words, hash function and number of tags:

- `ParityCorrect`, `AnyOrderOfTags`, `TypeCorrect` (`StreamIdProofs`): `IdIsParity`,
  `OrderIndependent`, `TypeOK`. The loop keeps the parity, bit by bit, of the number of
  words that have the bit (`ParityNext`), and a permutation keeps that number
  (`SameHolders`).

### The provider

For every set of handles, addresses, keys, ids and requests, and everything the
environment may do (`ProviderProofs`):

- `TypeCorrect`, `RegistryStays`, `FetchAnswersRight`, `ListsRight`,
  `StreamsLeaveRightly`: the properties `TypeOK`, `RegistryConsistent`,
  `FetchAnswersItsId`, `ListWithinMax`, `LeavesWithItsId`. The inductive invariant (`Invariance`) is
  `MemoryInv /\ KeyInv /\ RequestInv`: the hash lists live streams with one id
  each, a stream keeps the id of its words, and a request carries the id, the
  count and the window it was given. The window is fixed when it is copied, so
  it stays right when the stream is destroyed and its address used again.
- `ProviderFinalizedOnce`: `FinalizedOnce`. Its invariant (`LifeInv`) is that Margo
  holds the callback exactly while a provider registered with it is.
- `HashIsARegistry`: `RegistrySpec`, from `MemoryInv` and `KeyInv`: each step adds an
  element under an id not in use, removes one by its id, clears or stutters.
- `CrashesNeedACause`: each use of freed or unset memory that ends the process
  has the cause that `CrashCause` names. A request served late meets a provider that
  is gone only if the application destroys it itself: `margo_finalize` waits for the
  handlers before it does. A stream is used through its handle after it was freed only
  if ids collide and streams are destroyed one by one. The invariant `CrashInv` needs `KnownInv`, that without
  destruction an id
  asked for is still in the hash when its handler starts, and `DestroyedInv`, that
  with Margo running only the application takes the provider away.
- `HandlesFound`, `HandlesKept`: `HandlesRegistered` and `HandlesLive`, from the
  hypothesis that the application never has two live streams with one id
  (`"same_id" \notin Uses`). `ProviderCreateTwice` shows that it is needed. The
  invariant is `OwnInv`: held streams have different ids and are exactly those of
  the hash, so that the lookup by id in destroy finds the stream it was given.

### The client

For every set of handles and calls, every answer of the server and every set of
Mercury calls that fail (`ClientProofs`):

- `TypeCorrect`, `HandlesWhileHeld`, `WarnedFirst`, `CallsReturnAll`: `TypeOK`,
  `HandleWhileHeld`, `WarnedBeforeStaleUse`, `CallsGiveBack`; the last also where
  `margo_bulk_create` fails and its result is not looked at. `HandleInv` counts: the
  reference count of a handle is the number of references given and not released, and
  the count of the client is the number of handles somebody holds (`HeldHandles`),
  as long as it lives. `CallInv` gives the state of the Mercury handle and of the bulk
  region at each phase of a call.

### The whole

For the composition (`AggregatorProofs`):

- `ProviderWithin`, `ClientWithin`: every behaviour of the whole is one of `Provider`
  and one of `Client`, so that what is proved of the parts holds in it
  (`ProviderKeepsItsWord`, `HandlesKeptInSystem`, `ClientKeepsItsWord`). `Client` answers
  to any server; that this one is such a server, whichever Mercury calls fail here, is
  what `ClientWithin` shows. A request that finds no provider or gets no answer is to
  the client a call that failed, so the client is instantiated (`CP`) with every call
  allowed to fail, and any number for what was never set. `CallsGiveBack` speaks of the
  regions `margo_bulk_create` may leave; that none is unset here unless it may fail here
  (`GoodCall`) carries it over.
- `QuietUseSucceeds`, under the hypothesis `QuietUse`: the application destroys no stream
  and no provider and does not end Margo, clients ask for ids that exist, and no Mercury
  call fails. Then nothing freed or never set is used, but by a handle that
  `client_finalize` has warned of, and each call ends with success, unless there was no
  provider when it was made. So each use of bad memory found in the code needs
  destruction or failure; ids that collide and a missing callback are not enough. It
  rests on `CrashInv` of the provider, on `AnsweredWell` (every answer is a success) and
  on `ReturnedWell` (a call ends with the answer of its request or without one).
- `TransfersReachTheirTarget`, `AnswersRightInTime`: `TransferTargetLive` and
  `AnswersOfTheCall`. `PairInv` relates the two ends of a call: a request that is
  queued or served belongs to a call that waits or has failed in its wait, carries its
  id and count (`Matches`), and what the handler has for a call was right at some
  moment since the call began (`Observed`). Both theorems except the region that
  `margo_bulk_create` did not make, where it may fail.

### The histogram

For all values, numbers of buckets and of samples (`HistogramProofs`):

- `OverrunExplained`, `TypeCorrect`: `OverrunCause` and `TypeOK`. `BoundsInv`
  keeps the samples seen within the bounds; `QuotientInRange` is the arithmetic:
  a value from `min` on that is not in the last bucket has an exact index of at most
  `num_buckets - 2`, so that one more, which rounding may add, is still in the array.
- `SamplesCounted`: `EverySampleCounted`, with the counters as a set of
  increments (`Counted`), whose cardinality grows by one with each sample (`CountInv`).

### The hash table

For every set of elements, hash function, number of buckets to begin with and chain
threshold (`UtHashProofs`):

- `FindsRight`, `FsckPasses`, `PointersStayLive`, `ChainsStayBounded`,
  `TypeCorrect`: `FindsExactly`, `Fsck`, `PointersLive`, `ChainsBounded` and `TypeOK`.
- `TableIsARegistry`: `RegistrySpec`. `remove_all_streams` empties the registry when its
  loop begins, and the steps of the loop leave it alone.

`Invariance` shows the invariant `IInv`, which none of the five properties is strong
enough to be:

- `OrderHolds`: there is a sequence without repetition, `AppOrder`, of all
  elements allocated, which `next` links from `head` and `prev` links back (`IsList`);
  `tail` is its last element and `num_items` its length. `Fsck` counts and compares
  pointers but does not say that an element is in the list at all.
- `Chained`: the chain of bucket `b` is such a sequence of the elements whose hash
  value falls to `b`, no others and none missing (`IsShare`), and its count is its
  length. `FindsExactly` rests on this: the search looks in one bucket only.
- `Bounded`: what `ChainsBounded` says.
- `CursorsRight`: the cursors of `HASH_ITER` are the head and its successor, so that the
  element freed is never the one `tmp` points to.

TLC checked `IInv` on the instance of the run `UtHash` before it was proved.

The lists are sequences only in the proof; the code has pointers. `AppOrder` and
`Chain` walk along pointers (`Walk`), and `WalkOfList` says that where the pointers link
a sequence the walk returns it. The library's theorems about functions defined along the
numbers take an operator as a parameter and cannot be used; `NatMin`, `Counting` and
`StepByStep` give induction for a *set* of numbers instead, from the library's `WFMin`. Then
comes what each macro does to a list: `HASH_APPEND_LIST` (`ListAppend`), `HASH_ADD_TO_BKT`
(`ListPush`) and the patching out of `HASH_DELETE_HH` and `HASH_DEL_IN_BKT`
(`ListRemove`). Expansion is the hard part (`Expanded`): the bucket of an element among
`2n` tells its bucket among `n` (`ModTwice`), so each new chain comes out of one old chain,
reversed (`RehashDeals`, `NewChainHolds`); the handles then link the new chains and keep
the order of insertion (`RechainLinks`); and the `expand_mult` of the code, counted up
in the loop, is enough for the length the chain has got (`MultCovers`).

TLC checked `CrashCause` and its invariant on a small provider for 28 subsets of what the
environment may do, and `QuietRight` and its invariant on the whole with two calls,
before they were proved. These checks are not runs: the theorems cover them.

### Only model-checked

- liveness (`CallsReturn`, `Answered`, `CallsAnswered`), which is out of TLAPS's reach;
- the value of `Djb2`, which needs a recursive operator;
- the four claims of documents and comments that the code does not keep.

## 5. Not modelled

- Several execution streams on one provider or one client: the hash, `refcount` and
  `num_stream_handles` have no lock, and uthash under a race is undefined behaviour
  throughout.
- The value of the hash function of uthash, its parts the code does not use, and its
  exits when memory runs out. Failing `calloc` of a sample or reply buffer, overlong names
  in `strcpy`.
- Samples that are infinite and bounds whose difference overflows a double; histograms
  of more than 2^31 buckets.
- The wire format: fixed layouts; `Client` and `Provider` model what is encoded without
  having been set.
- Several providers, and a provider registered again, in one process.
- The tag list (an array of strings), admin (a Margo instance and nothing else), the
  dummy backend (never called), the command line of the programs and the tests: no
  state or no operations of their own.

One divergence has no run: `aggregator-server.h` 41-43 says that a provider
registered with `AGGREGATOR_PROVIDER_IGNORE` is destroyed by `margo_finalize`; the
code (`provider.c` 99) looks at `push_finalize_callback` instead, and `FinalizedOnce`
is stated for the latter.

## 6. Plan

Done: every component with state of its own (`Stream` with `SampleLog`, `StreamId`,
`Provider` and `UtHash` with `Registry`, `Client`, `Histogram`), their composition
(`Aggregator`), and the proofs of every safety property and refinement that a passing
run checks.
