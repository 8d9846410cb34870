# SpecForge in TLA+

SpecForge reads an OpenAPI document, resolves it into an intermediate
representation (IR), and writes client SDKs in TypeScript, Rust and Go; around
the pipeline stand tools that compare, lint, analyse, mock and verify documents.
The generator itself is mostly sequential. The code it *emits* is not: every SDK
carries a runtime with retries, idempotency keys, request deduplication, a
response cache, a concurrency gate and rate limiters, shared by all calls of a
client, and this runtime is written three times, once per language, with three
concurrency models (one event loop, async tasks over tokio, goroutines over
shared memory). A unit test of a generator checks the emitted text; it hardly
reaches what two calls do to each other. The project models the runtimes first,
then the pipeline and its tools, then what the emitters make of names, unions,
calls and files.

## 1. Inventory

Sources are under `src/crates`. `R` is `specforge-rust/src/lib.rs`, `G` is
`specforge-go/src/lib.rs`, `T` is `specforge-ts/src/runtime.rs`: the emitters
whose string literals are the runtimes of the generated SDKs. Files of
`specforge-core/src` are given by their name.

| Component | State it keeps | Operations | What makes it correct |
|---|---|---|---|
| Concurrency gate (T 472-506, G 1530-1572 and 920-928, R 683-708) | TS: `active`, queue of resolve functions. Go: a buffered channel behind the pointer `c.sem`, made by an option or lazily. Rust: a tokio Semaphore | acquire, release, cancellation | never more than `maxConcurrent` in flight, no lost wake-up, FIFO, no leaked slot |
| Sliding window limiter (R 1260-1307, G 2045-2108, T 1441-1477) | list of request times, a lock (Rust, Go), timers | acquire, prune/evict, sleep | at most `maxRequests` in any rolling window, progress |
| Token bucket limiter (R 1205-1258, G 2000-2047, T 1398-1440) | tokens, last refill | acquire, refill | at most capacity plus rate times elapsed |
| Request deduplication (R 711-791, G 1574-1638, T 524-584) | map from key to flight | join, lead, finish, remove | N callers, one upstream call, N shared results; nobody waits forever |
| Retry loop and idempotency key (R 1967-2124, G 1098-1229, T 1826-1927) | attempt counter, key, backoff, telemetry counters | send, classify, back off, give up, cancel/abort | no duplicate side effects, honest success, bounded attempts, termination |
| Response cache (R 1116-1196 and 1750-1870, G 1896-1977 and 940-1054, T 1282-1342 and 1759-1823) | entries with ETag and TTL; in Go also the shared header map | look up, revalidate, store, expire | the body of the resource asked for, never empty, never stale |
| A call through the client (R 1697-2124, G 900-1229, T 1752-1927) | stage of each call, free slots, flights, hooks fired | start, gate, limiter, lead or follow, authenticate, send, answer, back off, cancel, drop, abort | slots come back exactly once, telemetry balanced, calls end |
| Event streams and pagination (R 918-1114, G 1444-1528 and 1764-1892, T 398-447 and 706-800) | text or line buffer; cursor, offset, page | read a chunk, cut a block or a line, end; next page | every event once whatever the chunking; every item once, termination |
| Validation (R 2441-2770, G 2333-2600, T 843-1273) | none | validate a model, find the route, check request and response | no false alarm, nothing sent without a required field |
| Loading (`spec.rs`) | raw JSON tree, webhooks | extract webhooks, downgrade 3.1 to 3.0, parse; find a version | nothing of 3.1 left, nothing lost |
| Resolver (`resolve.rs`) | registry of the schemas resolved so far | resolve schemas, merge allOf, resolve operations, security, webhooks | references, required flags and inherited properties survive |
| Analysis (`analyzer.rs`, `graph.rs`, `lint.rs`, `lint_config.rs`, `security.rs`) | rule table | reference graph, unused schemas, depths, rules, security views | the tools agree with each other; severities obey the configuration |
| Mock server and verifier (`mock.rs`, `verify.rs`, `validate.rs`) | routes with examples | answer a connection; call every operation and judge the answer | the mock satisfies the verifier |
| Comparison (`diff.rs`, `changelog.rs`, `deprecation.rs`, `evolution.rs`) | snapshots of a history | diff, classify, bump, guide, track | breaks are reported, by every report that is about them |
| Emitters (R, G, `specforge-ts/src/{name,models,operations,lib}.rs`) | identifiers used, members emitted, files | name, emit fields, variants, unions, methods; write in parallel | usable distinct identifiers, every wire name once, the right arm, the same request from three SDKs, whole files |
| Command line (`specforge-cli/src/main.rs`) | files, exit code | some forty commands | what is printed is what was computed |

How the runtime parts interact: a call passes the gate and the limiter, consults
the cache for an ETag, enters the deduper, and the leader runs the retry loop
against the server; the answer comes back to everybody aboard, and the cache is
filled. The parts share the client object: one map of flights, one cache, one
gate, in Go one header map. The hard behaviours are therefore: calls
interleaving at every await, unlock or channel operation; a value read before
such a point and used after it; an answer, timeout, cancellation or dropped
future racing the normal path; an attempt that reaches the server after its
successor; the clock advancing between two readings. In the pipeline the hard
behaviours are of another kind: a registry consulted while it grows, rewriting
rules that feed each other, several walks over the same references that must
agree, hash orders, calendar arithmetic, names that fall together, and files
written in parallel.

`PROJECT.json` lists each hazard at its line with the property that would catch
it.

## 2. Modules

Abstract specifications, what a component promises:

* `BoundedSlots`: callers ask, enter, leave or give up; at most `Max` are in.
* `RollingWindow`: admissions by age; at most `MaxRequests` younger than `Window`.
* `SingleFlight`: lead, join, land, retire, leave; everybody aboard gets the
  outcome the flight lands with.
* `AtOnce` (in `SdkPayloads`): a parser of lines that has the whole body from the
  start.

Environment (external to the repository, modelled from how the runtimes use it):

* `ApiServer`: attempts travel, are run, refused or lost, possibly long after
  the client gave up; a key that was seen is not run again.
* `OriginServer`: versioned resources, ETags that name versions, 200 and 304.
* the list that is paginated, the clocks, and what openapiv3, serde and
  encoding/json do.

Runtimes. One action is one stretch of code that nothing interleaves with: in
TypeScript the code between two awaits, in Rust between two awaits or lock
operations, in Go between two operations on shared memory.

| Module | Code | State and actions |
|---|---|---|
| `TsSemaphore` | T 472-506, 1778 | `active`, `waiters`, a program counter per call; Acquire, Resume (the continuation), Release with its wake-up loop |
| `GoSemaphore` | G 1530-1572, 920-928, 1075 | `c.sem`, elements per channel, the semaphore each goroutine acquires and the one its deferred Release frees; CheckSem, CreateSem, LoadSem, Acquire, AcquireCancelled, DeferRelease, Release |
| `RustSlidingWindow`, `GoSlidingWindow`, `TsSlidingWindow` | R 1260-1307, G 2045-2108, T 1441-1477 | request times as ages, locks, timers, `recent` as history; lock/prune, admit, wait, wake, Tick (the clock) |
| `TokenBuckets` | R 1205-1258, G 2000-2047, T 1398-1440 | parts of a token, age of the last refill, `credit` as history; Take with the SDK's nap, Wake, Cancel (Go), Tick |
| `RustDedup`, `GoDedup`, `TsDedup` | R 711-791, G 1574-1638, T 524-584 | the map, channels / call objects / promises, per caller its key, flight and result; Rust includes Drop, a future dropped at an await |
| `RustRetry`, `GoRetry`, `TsRetry` | R 1967-2124, G 1098-1229, T 1826-1927 | method, options, key, attempt, phase, outcome, telemetry counters; Start, Send, one action per way an attempt ends, NextAttempt, Cancel / Abort; composed with `ApiServer` |
| `RustCache`, `GoCache`, `TsCache` | R 1750-1870, G 940-1054, T 1759-1823 | entries, flights, per call the entry it looked up, the answer, the result; composed with `OriginServer`; `GoCache` has the shared `If-None-Match` header and the two locks of `Get` |
| `ClientState` with `RustClient`, `GoClient`, `TsClient` | R 1478-2352, G 900-1229, T 1752-1927 | the composition: per call its stage, attempt, hooks and result, and what all calls share (free slots, the flight); one action per stage and per way of leaving it, streaming calls included |
| `SdkPayloads`, event streams | R 918-1043, G 1784-1874, T 719-800 | the bytes still to come, the buffer, the fields of the current event, the events delivered; a chunk of any length, drain or take a line, end, break |
| `SdkPayloads`, pagination | R 1048-1112, G 1450-1524, T 410-447 | the list, the position, the items seen; Fetch, one action per way a page is handled; others append and delete |
| `SdkPayloads`, validation | R 2441-2770, G 2333-2600, T 843-1273 | one call and the route found for it; CheckRequest, Respond, CheckResponse over the three generated validators |

Documents and tools.

| Module | Code | State and actions |
|---|---|---|
| `SpecLoad`, loading | `spec.rs` | the tree; Read, ExtractWebhooks, Downgrade (both passes, as recursive operators), ParseOpenApi; ScanVersions and ResolveSpecPath over a directory whose entries, and those of its subdirectories, `read_dir` may list in any order (`Listings`) |
| `SpecLoad`, resolving | `resolve.rs` | `registry`, position, operations, security, webhooks; ResolveSchema (one per schema, in the order of the document), ResolveOperation, ResolveSecurity, ResolveWebhook |
| `SpecTools`, analysis | `analyzer.rs`, `graph.rs`, `lint.rs`, `lint_config.rs`, `security.rs` | operators over the resolved document |
| `SpecTools`, mock server | `mock.rs`, `verify.rs`, `validate.rs` | operators: routes and examples, one connection, the verifier's verdict and the validator's |
| `SpecCompare` | `diff.rs`, `changelog.rs`, `deprecation.rs`, `evolution.rs`, and the four commands of `main.rs` | findings, entries, guide as sets; the walk goes through a history commit by commit and then runs one of the commands |

Emitters.

| Module | Code | State and actions |
|---|---|---|
| `SdkSources`, names | R 235-431, G 223-341 and 2875-2899, `name.rs` | operators: pascal, snake, camel, reserved words, unique names, over an alphabet that keeps what makes names collide |
| `SdkSources`, models | R 2821-3071, G 390-567, `models.rs` | identifiers used and members emitted; one action per member: base, inherited property, field, additional properties, variant, parameter, method |
| `SdkSources`, unions | R 2893-3171, G 461-523 and 3030-3156, `models.rs` | the arm being tried; PickArm, NextArm, NoArm with the acceptance test of each language |
| `SdkSources`, methods | R 3189-3490, G 2635-3014, `operations.rs`, T 1971-1990 | the request being built; PathSegment, RustQuery, GoQuery, TsOptions, what the method refuses before sending (TypeScript's `validateRequest`) and makes of what the API answers (`Answer`, the environment) |
| `SdkSources`, files | the three `generate` functions | files collected, open and on disk; Collect, OpenFile, FillFile, WriteFails, interleaved as rayon does |

The MC modules put what asks one question into one model each: the initial state
chooses the SDK or the part that runs and the others stay where they start, so
the state space is the sum and not the product. `MCDocuments` extends
`MCCompare`, which has the histories and the properties of the comparing
commands. `MCCaches` gives resources a path and a query. Operators named as a mutant or as faulty are deliberate
deviations used to show that a property can fail; no specification uses them.

Data is abstract: a body is named by resource and version, a key or an error is
a model value, a status is `ok`, `busy` (one of 408, 429, 502, 503, 504) or
`bad`, a type a record of its variant, a name a sequence of at most four
characters. Times are ages in ticks, so no clock grows. Local variables that are
dead are reset to keep the state small.

## 3. Runs

Passing:

| Run | Bounds | Shows |
|---|---|---|
| `admission` | gates: 5 TypeScript calls or 3 goroutines, 2 slots, both ways of making the Go semaphore; windows: 3 callers, 2 requests per 3 ticks; buckets: 3 callers, 2 tokens, two thirds of a token per tick | `GatesExact`, `NoIdleSlot`, `NoStarvation`, `GatesImplementSlots`, `LimitersExact`, `LimitersAdmit`, `WindowsKept` |
| `dedup` | 3 callers, Rust one key, Go and TypeScript two; a response, an error, a 204 | `MapsExact`, `NoForeignResult`, `EarlyFollowersServed`, `NobodyWaitsForever`, `SharesFlights` |
| `retry` | 2 retries, five methods, all options | `AtMostOnce`, `NoReplayAfterAnswer`, `HonestSuccess`, `EveryCallEnds` |
| `caches` | 2 calls, 2 URLs, 2 versions, with and without deduplication | `OwnBody`, `NeverOlder`, `EntriesCoherent`, `FreshResults` |
| `clients` | 3 calls, 2 slots, 1 retry, with and without deduplication, JSON and streaming | `SlotsReturned`, `HooksBalanced`, `CallsEnd` |
| `payloads` | 6 bodies of up to 15 tokens in chunks of every length; a list of 4 to 6 items in pages of 0 to 3; 5 routes, one of which has the base URL in its path, 12 values, 2 base URLs | `EventsExact`, `ChunksDoNotShow`, `PagesComplete`, `WalksEnd`, `ValidationSound` |
| `documents` | 3 schemas of 20 forms that refer to each other in every way, 5 sets of operations, webhooks; 3.1 trees two levels deep; 4 directories in every order of listing; histories of up to 3 commits over 8 operations' worth of parameters, bodies and responses, 10 schemas and 3 IR versions; 8 days, among them the ends of February 1970, 1972 and 2100 | `AllOfComplete`, `ToolsAgree`, `VerifyAcceptsMock`, `LoadingIsExact`, `SchemaBreaksAreSeen`, `RollbackBreaks`, `DatesAreCivil`, `ReportsAreBacked` |
| `emit` | up to 3 of 10 names that collide in some language, 2 bases; 2 arms; one call, validated or not; 3 operations, 5 tags | `FieldsSound`, `ArmsRight`, `CallsAgree`, `FilesWhole` |

The types of the runtimes' variables are conjuncts of `GatesExact`,
`LimitersExact`, `MapsExact`, `HonestSuccess` and `EntriesCoherent`. The bounds
are the smallest in which the cases meet: two slots and three waiters for a
release that wakes somebody while others stay queued; two admissions of
different age, so that pruning takes one and leaves one; three callers for a
leader, a follower and the leader of the next flight; two retries for a late
attempt that overtakes two others; two URLs for a header that reaches the wrong
request, two versions for a stale entry; a third call that needs the slot a
failed one held; bodies that put a chunk's end inside a character, a CRLF and a
blank line; a page size of zero and a list that shrinks below the offset; three
schemas for a chain and a cycle with a side branch; three names for a suffix
that collides with a third. The proofs of section 5 cover every bound where they
exist.

What some of these say, and do not say:

* `HooksBalanced` and the telemetry part of `HonestSuccess`. A started Go call
  reports one end or error, as its last hook. So does a started TypeScript call,
  retried or not, except in four cases, where the loop reports neither: the
  caller aborted it; the auth provider failed on a retry (T 1838, before the
  `try`); its body could not be serialised (T 1864, after the start hook and
  before the `try`); or a middleware threw an ApiError, which the `catch` passes
  on (T 1904). A Rust call reports at most one end, last, and only for an answer
  that was a success, and at most one error per attempt.
* `FreshResults`. In TypeScript and, for calls that nothing overlaps, in Go a
  result is no older than the start of its call. A TypeScript call answered 304
  has no result: it rejects, which the finding `ts_cache_304` is about. Of Rust
  it says only that without deduplication no call returns the empty body of a
  304; with it, a rider may.
* `EventsExact` judges for Rust the bodies of one-byte characters with one style
  of line ends and an event in every block.
* `ValidationSound`. A refused body does not conform to its schema; in
  TypeScript this holds if every property is a string, a number other than a
  64-bit integer, a boolean or an enum, in arrays or not, because other types are
  described as strings. An object that was sent to a URL that a route matches,
  base URL included, has the required properties. TypeScript does not look at
  bodies that are strings or null.
* `AllOfComplete`. In any order of declaration the model of an allOf has at least
  the properties of the members that are objects and none that no member has;
  it requires those of its properties that these objects require, and none that
  no member requires. It has all of them if no allOf is written inside another or
  refers to one declared after it; even then a name that an allOf member requires
  without having it as a property is not required of the model
  (`resolve.rs:283-291`).
* `LoadingIsExact`. A file that has the wanted version is taken before one that
  is called so. The same file is found in every order of listing, unless two
  files that were found have the same version, or a subdirectory has several
  usable files and none called `openapi` (`Decided`).
* `ReportsAreBacked`. The guide's entries for what was removed, newly required or
  new are exactly the findings of these kinds; a reported change of type has an
  entry. Deprecations, and the changes of type that the guide sees because it
  compares descriptions too, are not constrained.
* `FieldsSound`. Names are usable; fields, variants and literals, and in
  TypeScript parameters, are distinct. Go constants, base and
  AdditionalProperties fields and the parameters of Rust and Go methods may clash,
  and a Go parameter may start with a digit.
* `CallsAgree`. Path and query of plain arguments, and no failure on the body of
  an answer where no success of the operation has one.

The larger runs, in distinct states: `retry` 80,486, `clients` 312,941,
`documents` 219,788, `payloads` 42,256, `emit` 1,316,690.

Runs whose parts come to an end (`clients`, `payloads`, `documents`,
`emit`) do not check for deadlock; where an end must be reached, `CallsEnd`,
`WalksEnd` or the property's own final state says so. In the other four a call
may always be made, and deadlock is checked.

Violations, where a comment or document of the repository promises what the code
does not do (the quotations are in `PROJECT.json`):

| Run | Property | What TLC finds |
|---|---|---|
| `go_sliding_window_cancel` | `NoFatalError` | a context cancelled during the wait returns with the mutex unlocked and its deferred Unlock pending |
| `ts_retry_key` | `AtMostOnce` | only the first attempt carries the idempotency key, so a retried request may run twice |
| `rust_cache_query` | `OwnBody` | the cache key has no query, and a 304 for one query returns the body of another |
| `ts_cache_304` | `CachedBodyOn304` | a GET that revalidates its entry rejects on a 304, because the dispatcher throws every response that is not ok before the branch that serves the entry |

### Seen while modelling

These are in the models and appear as exceptions or premises of the properties;
they have no run of their own.

Runtimes:

* Go makes the semaphore lazily without synchronisation (G 921-923) when only
  the exported field `MaxConcurrent` is set; two first calls can make two, and
  the bound fails. The Go gate's properties say `BuiltWithOption`.
* The TypeScript sliding window does not look again after its await (T 1461):
  calls that waited for the same oldest request are all admitted. `WindowsKept`
  is about Rust and Go.
* A cancelled wait in Go's token bucket unlocks an unlocked mutex as well
  (G 2028-2032): `broken` in `TokenBuckets`.
* The Rust sliding window subtracts Durations read at two times (R 1297) and can
  panic when the oldest request leaves the window in between; the model has the
  pc `panicked`, and `KeepsAdmitting` says so.
* A Rust leader whose future is dropped leaves its entry in the map (R 772-780)
  and later callers of the key wait forever: `OnlyDropsOrphan`, `CallsEnd`.
* A Rust caller that subscribes between the leader's send and its removal of the
  entry (R 777) gets "dedupe channel closed"; one that subscribed early gets an
  error as text (R 764, 775): `NoForeignResult` admits both.
* A deduplicated TypeScript request answered with 204 rejects, because a
  Response with a null body status cannot have a body (T 564): `Rebuild`.
* Go's `isRetriable` matches the error text against "timeout" (G 1393), and the
  text has the URL and the body: `NoReplayAfterAnswer` excludes such texts.
* A TypeScript call aborted between two attempts sends the next one (T 1854,
  1896); some calls that failed report neither end nor error (see above). Rust transport errors, 304s and followers
  report no end (R 2091). `HooksBalanced` names these.
* A Rust rider that found no entry may share its leader's 304 and return an
  empty body (R 1835); Go returns nil without data when a request picks up
  another URL's ETag from the shared header (G 955, 1026-1037).
* The limiter is asked once per call, not per attempt; `rateLimiter` of the
  TypeScript options is never read; Go's `DoStream` gives its slot back when the
  headers arrive; the middleware chain of a Rust stream is run and its result
  dropped (R 1936-1946).
* A block of comments at the start of a Rust stream sends `next_event` back to
  reading, so the events already in the buffer wait for the next chunk, and at
  the end of the body several blocks are parsed as one event (R 957-1009):
  `EventsExact` excludes such bodies for Rust.
* The validation middlewares compare the whole URL with the paths of the
  document, so that a path matches only under an empty base URL or if it begins
  with the base; the Rust and Go
  validators look at required properties and enumerations of one level; a
  TypeScript validation error on a GET is retried as a network error.

Documents:

* An allOf that refers to an allOf declared after it takes only what the raw
  schema shows (`resolve.rs:245`), and a name that a nested allOf requires is lost
  (`resolve.rs:283`): conditions of `AllOfComplete`.
* Which of several files of a version is found depends on the order in which
  `read_dir` lists them (`spec.rs:411`): the condition `Decided` of
  `LoadingIsExact`.
* Path-level parameters win over an operation's, though a comment says the
  opposite (`resolve.rs`, near 652); the ids made up for `/a/{id}` and `/a/id`
  collide.
* The mock server recurses without end on a recursive schema (`mock.rs:222`) and
  answers literal paths only; verifier and mock disagree on 202, 204, HEAD and
  default responses: premises of `VerifyAcceptsMock`.
* The linter reports schemas as unused that only arrays, maps or webhooks use;
  its rule for missing operation ids cannot fire, because the resolver makes ids
  up; the security rule for writes compares upper-case methods with lower-case
  ones; the depth of a schema on a cycle depends on the order of a hash set.
* The downgrade renames properties that happen to be called `const`,
  `prefixItems` or `dependentRequired`, and leaves lists of several types.
* A migration guide without entries says that nothing broke
  (`deprecation.rs:459`) although it does not look at, for instance, changed
  property types.

Emitters:

* Rust and TypeScript references use `pascal(name)` where definitions use
  `safe_model_name`; Go's embedded base and `AdditionalProperties`, Rust's base
  field, Go's enum constants and the parameters of methods are not kept apart
  from other names; a Go parameter may begin with a digit; a required Go property
  called "-" is never on the wire: the exceptions of `FieldsSound`.
* A Rust union takes the first arm that parses even where a discriminator says
  otherwise, and Go's `New...FromJSON` the first arm: premises of `ArmsRight`.
* Rust and Go drop header parameters; TypeScript does not encode path parameters;
  Go omits optional zeros and always sends optional references; arrays are
  encoded in three ways: premises of `CallsAgree`. The option to validate is read
  by the methods of TypeScript alone; those of Rust and Go do not look at their
  `validation` and `Validation` flags.
* The writers ignore errors and report the file as written; two tags with one
  stem are written to one path at the same time: premises of `FilesWhole`. The
  TypeScript barrels leave out operations without a tag.

## 4. Fairness

Every fairness condition is one of these: the scheduler (event loop, tokio, Go
runtime) runs what can run (WF); time passes (WF of `Tick`); a request ends
because each attempt has a timeout and retries are bounded (WF of the steps that
end it, `Progress` in `MCClients`, `WalkStep` in `SdkPayloads`); a fair lock or a
channel queue serves whoever waits (SF of `Prune`, `Lock` and the Go `Acquire`:
tokio's Mutex is FIFO, a Go Mutex enters starvation mode, blocked channel senders
are queued). Nothing is assumed of the server, of callers (they need not call,
cancel, abort or leave) or of the origin. `WalksEnd` assumes in addition what its
statement says of the list.

## 5. Proofs

TLAPS checks eight modules from nothing. Each is about a model of section 3, with
its constants left open: the sets of callers, tasks, calls and keys are any
(finite where something is counted), the limits, windows, rates, numbers of
retries and versions any that the code accepts, and so are bodies, lists, routes,
JSON values, histories of documents, operations and tags. Each inductive
invariant was an invariant of a TLC run before it was proved.

| Module | Theorems about properties of the runs | Other theorems |
|---|---|---|
| `AdmissionProofs` | `GatesAreExact`, `NoLostWakeup`, `GatesAreSlots`, `LimitersAreExact`, `WindowsAreKept` | `TypeCorrect`, `MutualBound`, `Refinement`, `FirstComeFirstServed`, `OnlyCancelIsFatal` |
| `DedupProofs` | `DedupersKeepTheirMaps`, `OwnResults`, `EarlyFollowers`, `FlightsAreShared` | `OrphansComeFromDrops` |
| `RetryProofs` | `RetriesAreSafe`, `AnswerIsFinal`, `SuccessIsHonest` | `OkIsHonest` |
| `CacheProofs` | `NothingGoesBack`, `EntriesStayCoherent`, `ResultsAreFresh`, `OwnBodyWithoutQueries` | |
| `ClientProofs` | `SlotsAreReturned`, `HooksAreBalanced` | |
| `PayloadProofs` | `ChunksHidden`, `PagesAreComplete`, `BodiesAreValidated` | |
| `CompareProofs` | `BreaksAreSeen`, `RollbacksBreak`, `ReportsBacked` | |
| `EmitProofs` | `FilesAreWhole`, `ReadersAreRight`, `CallsDoAgree` | |

### What a call passes: `AdmissionProofs`

* TypeScript gate, `TsSemaphore!Inv`. `AtMostMax` alone is not inductive: the
  guard of `acquire` tests the counter, so the counter must be known to count
  (`CountExact`), and a release that wakes waiters raises it by the number of
  *different* calls it takes off the queue, so the queue must hold exactly the
  waiting calls, each once (`QueueExact`). `NoIdleSlot` is needed for the case
  of a new call that finds a free slot: nobody waits then. Every step is a step
  of `BoundedSlots` or a stutter, under the mapping `Phase`; the woken calls are
  the `next` of its Leave. `FirstComeFirstServed` is the action property `Fifo`.
* Go gate, `GateIInv`. A goroutine past the nil test of G 921 finds `c.sem` set.
  On a client built with the option nobody is about to make a semaphore, so
  whoever acquires or holds uses `OptionSem`, its deferred Release frees the
  same one, and the channel holds as many elements as calls are in flight. The
  refinement of `BoundedSlots` follows with the mapping `Phase` of `GoSemaphore`.
* Windows, `RustIInv`, `GoIInv`, `TsIInv`. The list of request times is ordered
  oldest first, and what it has of the current window is all that was admitted
  in it (`recent`). The order is what makes the pruning right: Go and TypeScript
  drop a prefix and stop at the first young entry, Rust filters, and on an
  ordered list both are the same cut. In Go the mutex is locked exactly while one
  goroutine is between its Lock and Unlock; this fails after a cancelled wait,
  which is the finding `NoFatalError`, so `OnlyCancelIsFatal` and the rest are
  about behaviours without one, as in the run.
* Buckets, `BucketIInv`. What the tokens and the time since the last refill
  amount to (`Refilled`) is the `credit` of a bucket refilled at every tick. The
  case that needs arithmetic is a bucket that was full before it was asked.

### Request deduplication: `DedupProofs`

The three models give finished flights' names back, so that what a caller waits
on must be told apart from a later flight of the same key.

* Rust: a task inside `dedupe` has a key and an end of a channel
  (`HoldsChannel`), a key has at most one leader (`OneLeader`), no two keys share
  a channel (`OwnChannels`), nobody has seen anything of a channel before its
  leader sends (`LeaderFirst`), what is in a follower's inbox is what its own
  flight sent (`InboxHonest`), and who subscribed in time has it once it was sent
  and a live sender until then (`InTime`). A dropped leader breaks none of these; it leaves an entry without a leader, and `OrphansComeFromDrops` says
  that no other step does.
* Go and TypeScript: the map lists the flights in the air and nothing else, who
  waits on an open flight asked for its key (`GoAboard`, `TsAboard`), and what is
  published is there before anybody is woken (`GoPublished`). With these every
  step is one of `SingleFlight` (`FlightsAreShared`). A name for a new
  flight is always free because there are as many names as callers and the one
  that starts holds none (`FreeIndex`).

### Retry loops: `RetryProofs`

* `Traffic`, for all three: the server knows only keys it ran, and an `ok` reply
  exists only if the request was run.
* `OneKey`: every attempt on the wire, however old, carries the call's one key,
  and then `Once`: the server ran it once if it knows the key, else never.
  `AtMostOnce` is not inductive without it: an old attempt still on the wire
  could run again. TypeScript sends the key with the first attempt only, has no
  such invariant, and its violation is a finding.
* `TsCounts`: the start, end and error hooks a TypeScript call has fired follow
  from its phase and from how it ended, `Unreported` being the four ways that
  report nothing.
* `Load <= Sent`: runs plus attempts on the wire never exceed the attempts sent,
  which bounds the runs by `MaxRetries + 1` whatever is lost, late or reordered.

### Response caches: `CacheProofs`

* Rust: an entry pairs ETag and body of one version no newer than the resource
  (`Sound`) and belongs to its path; a full answer is no older than the entry the
  call found, and the result follows from what it found and what it was told
  (`CallOK`). The entry may have been replaced in between: the call keeps its own.
* TypeScript: a full answer is at least as new as the resource was when the call
  started, also for a call that rides on an earlier flight (`TsCall`).
* Go: whoever left an ETag in the shared `If-None-Match` header is still to
  delete it (`GoHeader`), so the header is clean when no call is active; a call
  that nothing overlapped met no ETag but its own (`GoAlone`), and its result is
  fresh. `NeverOlder` holds for Go with and without deduplication.
* `OwnBodyWithoutQueries` proves `OwnBody` from the assumption that no two
  resources share a path. Without that assumption it is false, which is the
  finding of `rust_cache_query`.

### Calls through a client: `ClientProofs`

* `SlotsInv`: the free slots and the calls in a stage that owns a slot add up to
  `Slots`. Every step keeps both, takes one (the gate) or gives one back; the
  lemma `SlotSteps` says so once for all actions.
* `Told`: per stage of each SDK, how many start, end, error and retry hooks a
  call has fired and which came last. `HooksBalanced` is about calls that are
  done, and only this account of the stages before leads there. A TypeScript call
  that ends without a report has the mark `unreported` in the same sequence.

### Bodies and pages: `PayloadProofs`

* `ChunksHidden` is a refinement: Go and TypeScript parse a body as `AtOnce`
  does, which has it from the start. The mapping puts what has not arrived behind
  the buffer, so that a chunk is a stutter; what has to be shown is that the
  first line of the buffer is the first line of the whole (`TextsInv` says
  that both are texts). It does not hold for Rust, which decodes every chunk by
  itself.
* `PagesAreComplete` rests on `PagesInv`. The list is increasing, and so is what
  was handed over with the fetched page behind it. For offsets (`OffsetInv`), what lies
  beyond the position is later than all that was taken, which a deletion keeps;
  and if nothing was deleted, all up to the position was taken. For cursors
  (`CursorInv`), all up to the cursor that is still there was taken, whatever is
  deleted. A page that is the last has the rest of the first items.
* `BodiesAreValidated` rests on `ValidInv`: the route was found among those that
  match, and the verdicts are those of its models. That a verdict is no false
  alarm is shown value by value; for TypeScript it is a claim about types in any
  number of arrays, by a least counterexample over the nesting. The two recursive
  functions are shown to satisfy their equations first
  (a recursion over the natural numbers, unfolded by hand).

### Comparing documents: `CompareProofs`

`CompareInv` says that only documents of the history are kept and that a report
is what its command computes of them (`Kept`, `Reported`). The rest is about any
documents:

* `BreaksAreSeen`. That no finding about schemas is breaking is a relation between
  two documents: every schema and property is still there, with a type that was
  not changed, and nothing became required. This relation is transitive as long
  as schemas keep their kind, so that it holds from first to last if it holds
  between neighbours, which is the theorem turned round. A change counts only if
  the findings are finite, which follows from finite documents.
* `RollbacksBreak`. Each kind of informational finding (an operation, a schema or an
  optional property added, a property no longer required) is a breaking one the
  other way round.
* `ReportsBacked`. The changelog and the guide go their own way from the documents to
  their entries; each entry of the guide that stands for a finding is traced back
  to it (`ListedIsFound`), each finding of these kinds to its entry
  (`FoundIsListed`), and each change of type to its own (`ChangeIsListed`).

### Emitters: `EmitProofs`

* `FilesAreWhole` rests on `FilesInv`: a file whose path no other has is empty
  from the moment it was opened until it is filled, and has its content once
  reported, unless its write failed. On a path that two files share nothing is
  known but that what is there is one of the two contents or torn, which is the
  exception of the property.
* `ReadersAreRight` rests on `ArmsInv`: the arms before the one that is tried do
  not accept the value. Unions have two arms, as in the run.
* `CallsDoAgree` rests on `CallsInv`: along a call with plain arguments, the
  part of the path that is filled and the query are those the operation
  describes.

### Assumptions

All are named, stated in the module that declares the constants, and evaluated
by TLC in the runs. Gates and windows have a positive limit
(`MaxConcurrentAssumption`, `MaxRequestsAssumption`, `WindowAssumption`) and a
bucket a positive rate (`BucketAssumption`), there is a first version
(`MaxVersionAssumption`), slots and retries are natural numbers
(`ClientAssumption`, `MaxRetriesAssumption`), callers, calls and keys are finite
(`CallersAssumption`, `GoroutinesAssumption`, `ClientAssumption`), and the values that stand for "none" are different from
real ones (`KeyAssumption`, `SemsAssumption`, `ValuesAssumption`,
`TsValuesAssumption`, `NothingAssumption`, `EntriesAssumption`,
`GoEntriesAssumption`). Bodies are texts (`BodiesAssumption`), lengths and page
sizes natural numbers and the default page is not empty (`PagesAssumption`),
routes have models whose types are of the kinds the IR has (`RoutesAssumption`),
and the parts of a JSON value are JSON values (`PartsAssumption`). What a commit
shows is a finite document or cannot be read (`HistoriesAssumption`). Names and
tags are texts (`NamesAssumption`, `TagsAssumption`), a model has so many members
(`MembersAssumption`), and the mark of a torn file is no operation
(`OpsAssumption`).

### Only model-checked

* Liveness under fairness: `NoStarvation` (but for `Fifo`), `LimitersAdmit`,
  `NobodyWaitsForever` (but for the orphans), `EveryCallEnds`, `CallsEnd`,
  `WalksEnd`. The prover does not do it.
* `AllOfComplete`, `ToolsAgree`, `VerifyAcceptsMock`, `LoadingIsExact`: they are
  about what recursive operators compute over trees of any depth (`SpecLoad`,
  `SpecTools`, and the reference definitions of `MCDocuments`), and the prover has
  no induction over such data.
* `EventsExact` compares the events with a parse of the whole body, and
  `FieldsSound` the emitted names with names folded over their characters: both
  would need an induction over a sequence. Of event streams, `ChunksHidden` proves
  that the chunking makes no difference in Go and TypeScript, so that what is left to TLC
  is the parse of a body that is there at once, and Rust.
* `DatesAreCivil`: an induction over the days since 1970.

## 6. Not modelled

* `merge.rs`, `workspace.rs`, `schema31.rs`, `swagger_export.rs`,
  `versioning.rs`: one pass over a document without interleaving, failure in the
  middle or feedback; a model would repeat the code.
* `infer.rs`, `profiler.rs`, `testgen.rs`: heuristics whose result is text or a
  score.
* `docs.rs`, `dashboard.rs`, `demo.rs`, `i18n.rs`, `marketplace.rs`, the
  renderings of types, comments and manifests in the emitters: text layout.
* The command line beyond diff, changelog, migrate and evolution: argument
  parsing, calls of the above and printing.
* Plugin and WebAssembly bindings, editor extension, web UI: thin I/O layers.
* Parsing of JSON and YAML, deserialisation by openapiv3, sockets and git:
  external.
