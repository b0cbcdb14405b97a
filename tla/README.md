# SPARQLModel in TLA+

`sparqlmodel` maps Pydantic-style classes to RDF and keeps them in a triple
store: in memory, or behind a SPARQL endpoint over HTTP. This directory holds
TLA+ models of its stateful core, TLC configurations that check them on small
instances, and TLAPS proofs of what holds for every instance. Source paths below
are relative to the package, `src/src/sparqlmodel/`.

## 1. Inventory

| Component | Source | State | Operations | What makes it correct |
|---|---|---|---|---|
| Models and RDF mapping | `model.py`, `fields.py`, `rdf_bridge.py`, `hydration.py` | the fields of live instances, and which were ever set | construct, assign, export to triples, hydrate at depth 0–2 | what is written is what the instance says; a load yields one instance per resource or raises |
| Persistence policy | `graph.py` | none | which subjects a put or delete rewrites, and which triples of them | a put is an upsert; orphan cleanup spares what others link |
| Session state | `session_state.py` | identity map, hydration cache, pending queue, the mirror generation last seen | register, expire, expunge, queue, clear | the caches agree with each other and with the store; nothing queued is lost |
| Session | `session.py`, `session_core.py` | `_closed` and the session state | put, add, delete, get, refresh, merge, query, execute, flush, rollback, close, leaving a context manager | deferred writes are accounted for; one instance per resource; remote reads are fresh; a closed session owes nothing |
| Async session | `async_session.py`, `async_query.py` | as above | the same with awaits | the same, for one task |
| HTTP stores | `stores/http.py`, `stores/async_http.py`, `stores/http_common.py` | the local mirror, `mirror_generation`, `_closed` | update in chunks, pull a subject, synchronise, close | an update that returns is in effect; the mirror says what the endpoint says; every request ends |
| Memory stores | `stores/memory.py`, `stores/async_memory.py` | one graph | update, query | an update is in effect at once |
| Query builder and compiler | `query.py`, `async_query.py`, `query_common.py`, `compiler.py`, `expressions.py` | the settings and expressions of a builder; while it compiles, the join cache | filter, order, limit, toggle, compile, run, count | the SELECT means what the expressions say; all, first and count agree |
| Results, terms, serializers, registry | `stores/sparql_json.py`, `rdf_n3.py`, `sparql_escape.py`, `serializers.py`, `schema_registry.py` | none | parse, format, look up | conversions |
| FastAPI integration | `fastapi/deps.py` | one store per application, or per request | one session per request, flush or rollback at its end, closing stores | a request's writes are stored or reported as failed; a store is open as long as it is needed |

How they interact. The application calls a session. Before many of its calls a
session *autoflushes* (`_maybe_autoflush`): it writes the pending queue, one
`put_impl` per model, and may stop at the first that fails. A write computes the
subjects to rewrite from the instance **and** from `store.graph`, calls
`store.update_graph(removed, added)`, then expires and refills the caches. A read
pulls the subject if the store is an HTTP store (`pull_subjects_into_mirror`), which replaces
what the mirror knows of it and bumps `mirror_generation`; the next access sees
the new generation and clears the caches. The mirror is shared by every session
of the process and the endpoint by every process, so either may change between two
calls, and the mirror between the request of a pull and its answer.

What is hard in it:

* *Two caches over a heap.* The identity map and the per-depth hydration cache are
  changed by put, add, delete, get, refresh, merge, expire and expunge, each in
  its own way; embedded objects are filed in passing; instances are mutated in
  place.
* *Cascades against the graph.* What a put deletes depends on what the graph says
  of each object of the composition tree and on who else links it.
* *Partial failure.* A flush is several puts, a put up to several requests; each
  may fail before, between or after taking effect.
* *Leaving.* `close()` refuses while writes are pending, `__exit__` flushes or
  rolls back depending on two options and on whether the block raised.
* *Interleaving over a shared mirror*, chunks, retries, lost and late requests,
  restarts; requests of an application that read, wait and write around each other.
* *Negation, optional links and shared joins in one SELECT.* Whether a pattern is
  `OPTIONAL`, and which variable it uses, depends on what was compiled before it.

`PROJECT.json` lists under `hazards` where each of these bites, with the
properties that would notice. Hazards without a property say what is missing.

## 2. Modules

```
Documents ── Cascade ── SessionState ── Session ── SessionProperties ──┬─ MCSession
                                                    │                  └─ SessionProofs ── SessionWriteProofs
                                     DeferredWrites ┘ (abstract specification)
RecursionTheorems ──┬─ SessionProofs
                    └─ Folding
HttpStore ──┬─ MCHttpStore
            └─ HttpStoreProofs
Requests ──┬─ MCRequests
           └─ RequestsProofs
Expressions ┐
Sparql ─────┴ Compiler ── Query ── QueryMeaning ──┬─ MCQuery
                                                  └─ QueryProofs ── QueryMeaningProofs
```

(The left extends into the right; `SessionProperties` instantiates
`DeferredWrites` with a refinement mapping; `SessionState` and `DeferredWrites` extend
`Queues`; `QueryProofs` and `QueryMeaningProofs` instantiate `Folding` once for each fold
of the compiler. `QueryMeaning`
is the reference definition that `Query` is compared with.)

**Documents** — instances and triples. `heap` maps an address (`Obj`) to a record
of a resource (`iri`), one scalar field (`name`) and one relationship field
(`rel`, annotated `Related | IRI | None`), so `rel` is an address (embedded
object), an IRI, `None`, or `Unset` (`None`, and absent from `model_fields_set`).
With one relationship per class the embedded objects form a chain (`Chain`),
along which everything that the code computes recursively is defined with one
recursive function, so that it can be reasoned about: the composition tree (`NestedModels`), the depth test of
`_relationship_depth_satisfied` (`DepthSatisfied`), the cycle check. `Loads` is
the set of results hydration may have: of several values of one property the
mapper takes an arbitrary one, and without a value for the required `name`
validation raises. The predicate `"note"` stands for any predicate the class does
not declare.

**Cascade** — `orphaned_embedded_targets`, `_object_referenced_from_outside`,
`cascade_subjects_for_removal` (with and without orphans: a put, a delete) and
`owned_triples_for_subjects` of `graph.py`.

**SessionState** — the caches as a record of two functions with `None` for no
entry, and each helper that changes them (`SetIdentity`, `ExpireKeys`,
`RegisterEmbedded`, …); the queue operators `AddPending`, `RemovePending`,
`Requeued`. **Queues** has the one operator they and `DeferredWrites` share, `Kept`:
the elements of a sequence at given positions.

**Session** — one session over its store. A call that has to flush first is
`BeginFlush`, then one `FlushPut` per model of the snapshot (`todo`), ended by
`FlushRaises` or `FlushDone`, and then its body; any other call is its body alone.
A body is one action with everything the code does in it: `Put`, `Queue`
(`put(flush=False)`), `Add`, `Delete`, `Get`, `Refresh`, `Merge`, `Expire`,
`Expunge`, `ExpungeAll`, `FlushCall`, `Rollback`, `Close`, `Exit` and `ExitError`
(`__exit__` without and with an exception), `Execute` (raw SPARQL), and `Select`,
`HydrateRow`, `RowsDone` for `query().all()`, whose rows are read one by one and
each of which may pull. Around it `New` and `Edit` are the application
constructing and mutating instances, `SyncMirror` its call to the store,
`ForeignWrite` another client of the endpoint, and `Restart` the process dying at
any moment (HTTP) or a new session after a closed one. The correspondence of the
variables:

| Variable | Code |
|---|---|
| `graph` | `store.graph` (for HTTP: the mirror) |
| `remote` | the dataset at the endpoint |
| `moved` | `store.mirror_generation != state.store_generation` |
| `heap`, `mine` | the live Python objects; the one the application holds |
| `cache` | `state._identity`, `state._hydration` |
| `pending`, `todo` | `state._pending`; the rest of `flush`'s snapshot |
| `pc`, `call` | the point a call has reached, and its arguments |
| `closed` | `session._closed` |

`Collect` ends every step that changes the heap: what neither the caches, the
queue nor the application reaches is freed and its address may be given out again.
This keeps the state space finite and is what makes a stale cache entry visible: an
entry that names a freed address would name another object later.

**DeferredWrites** — the abstract specification of `put(..., flush=False)`: a
queue of resources without duplicates, taken from its head by a flush, left whole
by a flush that stops, closed only when empty. Outside a flush a call discards the
write of one resource or those that a put or a delete is about (`Discard`), or the
application gives up the whole queue (`Clear`). What a put and a delete of the held
instance are about is an input (`scopes`, mapped to `PutSubjects` and
`DeleteSubjects`).

**SessionProperties** — the properties below and the refinement mapping.

**HttpStore** — an HTTP store and its endpoint for several tasks. A call is
divided where the code waits: `Send`, `Serve` (at the endpoint), `Answered` (the
code after the response: the next chunk, or the mirror's update), `Lost` (timeout,
connection error, 502–504: retried up to `max_retries` times) and `Refused`
(anything else, a broken response included). `UpdateChunks` cuts removed and added
triples into chunks of `max_triples_per_update`, in any order since a graph has
none, all DELETE before all INSERT. An update given up after a timeout may still be
applied at any later time (`LateUpdate`), up to `MaxLate` of them at once. `Close`
and `Restart` happen at any moment. Two history variables: `doubtful` has the
subjects of which failures may have left the mirror and the endpoint different,
until they are pulled; a call is `disturbed` when a late update hit what it is about.

**Requests** — requests of a FastAPI application, each with a session of its own,
over the application's store or one of its own (`Policy`, from every combination of
`init_app`, `store`, `store_factory` and `close_on_exit`). Here the session is
coarse and the interleaving fine: a write is `WriteStarts` (what `put_impl_async`
reads and forgets before its wait) and `WriteDone` or `WriteFails`, and anything
another request does may come in between. A resource is the set of values its one
field has, so that what two crossing upserts leave is visible; the identity map is
`cache`, a mirror that pulls bumps `generation`. `Leave`, `Finish` are `__aexit__`
and `close`. A synchronous session in a thread differs in where it may be
interrupted, not in the order of its steps. A store made for one
request is an HTTP store with an empty mirror over the same endpoint, as
`store_factory` would make it; the `MemoryStore` that the dependency falls back to,
whose content goes with the request, is not told apart from it.

**Sparql**, **Expressions**, **Compiler**, **Query**, **QueryMeaning** — from the
expression operators (`Conjoin`, `Disjoin`, `Invert`, which raise for the
combinations Python refuses) over the compile functions, one operator each, to the
group and filters of a SELECT, and to its solutions. `Compiler` carries
`join_counter` and `join_cache` (`next`, `joins`) through all of them as the code
does, and abstracts text to the elements of `Sparql`, which defines only the part of
SPARQL's algebra that compiled queries use; it is external, from the standard that
the engines implement. `Query` is the builder, one object that is changed in place
and can be run, changed and run again, with the calls `all`, `first` and `count`;
an answer is the list of roots, any list that `ORDER BY`, `DISTINCT`, `OFFSET` and
`LIMIT` allow. What becomes of each root is `HydrateRow` in `Session`.
`QueryMeaning` says what the filters mean without variables, joins or `OPTIONAL`:
each relationship path is given a resource, or `None` where a nullable link is
missing, such that every comparison holds there. Comparisons of one path speak of the
same resource, the comparisons of an IRI's string (`iri_str`) with them, since the
compiler takes one variable for all; the disjuncts of a disjunction each choose their own.

`StoreApplies`/`StoreRaises` in Session are the abstraction of HttpStore: an
update takes effect, or raises with the endpoint in the state before, between or
after DELETE and INSERT. This takes each of the two to be one chunk. `WriteDone`
and `WriteFails` in Requests are coarser: an update is one step.

## 3. What is checked

Every property has a mutant in `PROJECT.json`: a plausible slip in one definition
(kept beside it under a comment that starts with *Slip*) with which TLC finds that
property violated.

| Run | Question | Properties |
|---|---|---|
| `SessionCache` | Do the caches stay coherent while a person with an embedded employer is read at two depths, merged, refreshed and put? | `CachesKeyed`: an entry holds an instance of its key. `HydrationIsIdentity`: a hydration entry never outlives its identity. `InstanceKept`: a resource keeps its one instance |
| `SessionCoherence` | Do writes leave the caches and the graph agreeing? | `CachedValuesStored`: the identity map says nothing the graph does not. `PutIsUpsert`: after a put the graph says of each object of the tree what the object holds, and no older value |
| `SessionDeferred` | Is a deferred write ever lost, over an endpoint that fails, with `autoflush` on and `rollback_on_error` off? Does a call that must flush first return? | `DeferredSpec`: the queue implements `DeferredWrites`. `DeferredWritesAccounted`: a write leaves the queue into the store, by a call about its own resource, or when the whole queue is given up. `ClosedIsClean`. `CallsReturn` (liveness). `TypeOK` |
| `SessionStaff` | Does orphan cleanup spare what others use, and does a call cost another resource its deferred write? Resources manage each other and are edited, queued, put, merged and deleted, without `autoflush` | `OutsideReferencesSurvive`. `DeferredWritesAccounted`, with queued writes of what a put's tree covers, links or drops |
| `SessionEndpoint` | Is a `remote_authoritative` read what the endpoint says, when this session and another client both write there? | `ReadsFresh`: type, name and link of what a read hands out are the endpoint's at the pull |
| `HttpAlone` | Is an update in several chunks in effect when it returns, and the mirror right, over an endpoint that loses, refuses and belatedly applies requests, with closing and restarts? | `UpdateInEffect`, `MirrorCurrent`, `CallsReturn` (liveness), `TypeOK` (with the bound on attempts) |
| `QueryAnswers` | Do queries mean what their filters say, whatever the order of builder calls, the toggles and what the graph lacks or has twice? | `AnswersMean`: the answer is that of the meaning, for roots whose links along the query's paths exist or are only asked about with one `!=` each. `JoinsLead`: in each row the variables that filters and sort keys share through the join cache stand on one way along their paths. `AnswersSorted`: by the sort keys, through shared paths, offset and limit. `CallsAgree`: count, first and all |
| `Requests` | What may requests that run at the same time rely on, under every way to set up the dependency, over a store that fails? | `ReadsOfItsTime`: no answer from before the request or of a failed write it cached. `SuccessStored`, `FailureLeavesNothing`: what success and failure of a request mean. `UpsertExact`. `StoreLifetimes`. `RequestsEnd` (liveness) |

Four runs end in a violation, because the code does something else than its
documents say (`findings`):

| Run | Property | What TLC shows |
|---|---|---|
| `StaffReferences` | `ReferencesSurvive` | A put of `q` with `p` embedded deletes `o`, which `p` refers to by IRI, when the graph still links `q` to `o`. The documents promise that an IRI value never deletes its target. `orphaned_embedded_targets` looks at the IRIs of one object of the tree at a time |
| `RefreshEndpoint` | `RefreshInPlace` | In `remote_authoritative` mode `refresh` evicts the instance before looking for it, and hands out another one instead of updating it in place |
| `HttpShared` | `MirrorCurrent` | One writer and one reader on a shared store: the reader's answer, taken before the writer's update and applied after it, reverts the mirror. The documents name "single-writer discipline" as sufficient |
| `QueryMissingLinks` | `MissingLinksMean` | A person without an employer is answered by a filter on the employer's name as soon as anything has that name: the `OPTIONAL` block of the missing link leaves its variable unbound, and the pattern behind it binds the variable to any resource. `AnswersMean` excludes such roots by its premise `LinksSuffice` |

`DeferredWritesAccounted` names for each call the resources whose deferred writes it
may end (`EndsWriteOf`). That `expunge` and `merge` end the one of their resource is
what the code does (`remove_pending_for`); the guide says so of `expire` only
(`docs/guides/sessions.md:63-67`).

Two more divergences are stated without a run of their own. With the default
`autoflush`, calls that look read-only write what was deferred, while the guides say
that only `flush()` or leaving the context manager does (`docs/guides/sessions.md:52`,
`docs/troubleshooting.md:109`); `SessionDeferred` runs with autoflush. And
`docs/SPECS.md:120` says that leaving a context manager always closes, but `close()`
refuses when the exit's flush has failed, so a store made for one request stays open
then; `StoreLifetimes` states it as it is.

### Bounds, and why they are enough

* *Resources.* Two for most session runs (a person and an organisation: a tree and
  its orphan), three in `SessionStaff`, where a cleanup needs an owner, the resource
  it drops and a third that links.
* *Objects.* Two to six live at a time. A load needs as many free objects as
  its rows, and one resource has to be able to have two instances at once
  (merge, the application's copy against the session's). When no address is free a
  call that would construct cannot happen; `SessionCache` has six, so that two full
  trees and a load fit. Without loads fewer do: `SessionDeferred` has two (a queued
  tree, a queue of two, or two versions of one resource), and so has `SessionStaff`:
  trees of three objects are left to `OutsideReferencesKept`, which has all.
* *Values.* One name where only identity matters, two where old and new must be
  told apart (`SessionCoherence`). In `SessionEndpoint` staleness shows in the link and
  the type that the other client changes.
* *Depths.* 0 and 1 where the caches of several depths meet, 1 alone in
  `SessionCoherence` and `SessionEndpoint`; depth 2 differs only by repeating the step
  from 0 to 1, and the proofs cover it.
* *Calls.* Each run allows the calls its question is about (`Ops`); every call
  occurs in some run, and the calls that load and file instances
  are together in `SessionCache`, those that queue, drop or write the queue together in
  `SessionDeferred`, but for `merge`, which is in `SessionStaff`. There is no bound on the
  number of calls, failures, pulls or restarts: the state spaces are finite without.
* *HTTP.* `HttpAlone` has one subject with three values and chunks of two triples,
  so that updates have up to four chunks, full and partial; one retry reaches both
  "retried" and "given up", and one late update at a time can hit any later chunk.
  The theorems cover every other size. Two tasks suffice for the race of an update
  and a pull (`HttpShared`).
* *Queries.* Persons `a` and `b`, organizations `x` and `y`, a place: nullable and
  required links, also a required one behind a nullable one (`seat`), links to nothing,
  to one and to two, names that are missing, single and double and coincide across
  resources; eight graphs. Up to two `where`, one
  sort key and three settings in all (`MaxSettings`), which reaches each pair of
  features. A filter list of two meets the join cache, a third filter repeats it.
* *Requests.* Two requests, one of which makes two calls: a queued write and a flush,
  or a read around another's write. One resource: what a request does to two
  resources is independent but for the order of the queue, which is
  `SessionDeferred`'s. `generation` grows only with pulls of an empty mirror.

Deadlock is checked in every run but `Requests`: a session can always be restarted
or read, a builder always be changed; an application that has shut down stops.

### Fairness

Safety needs no fairness (a run that also checks liveness has it in its
specification, which excludes no finite behaviour). The liveness properties use:

* `WF_vars(pc # "idle" /\ CallStep)` in Session: a call is synchronous and every
  request has a timeout, so a call that has begun takes its next step. Nothing is
  assumed of success: a flush may fail for ever.
* `WF_vars(TaskStep(t))` for each task in HttpStore: the event loop or the thread
  scheduler runs each task, and `httpx` ends each request with an answer or a
  timeout. No request is assumed ever to succeed.
* `WF_vars(Step(r))` for each request in Requests: handlers return, and what they
  wait for ends with an answer or an error, of which none need ever be a success.

## 4. What is proved

### A session

The theorems about a session hold for every set of resources, objects and names,
every shape of classes (`Children`, `Cascading`), every store mode, initial graph,
foreign client, session option and set of calls, under the assumptions stated with
the constants: `ItemAssumption` (addresses, IRIs and the two kinds of `None` are
different things), `ShapeAssumption` (types; finitely many objects; depths 0–2 as
`hydration.py` accepts) and `OptionAssumption` (types of the options). Where a theorem
needs more, its statement says so.

| Theorem | Module | Says |
|---|---|---|
| `NeverClosedOverWrites` | `SessionProofs` | `Spec => []ClosedIsClean` |
| `OutsideReferencesKept` | `SessionProofs` | `Spec => OutsideReferencesSurvive` |
| `CoreTypeCorrect`, `TypesCorrect` | `SessionProofs`, `SessionWriteProofs` | `Spec => []CoreTypeOK`: heap, caches, the held instance, the call; `Spec => []TypeOK`: these, the graphs and the queue |
| `CachesAlwaysKeyed` | `SessionProofs` | `Spec => []CachesKeyed` |
| `HydrationAlwaysIdentity` | `SessionProofs` | `Spec => []HydrationIsIdentity` |
| `InstancesKept` | `SessionProofs` | `Spec => InstanceKept` over a store in memory |
| `RemoteReadsFresh` | `SessionProofs` | `Spec => ReadsFresh` in `remote_authoritative` mode |
| `PutAlwaysUpserts` | `SessionWriteProofs` | `Spec => PutIsUpsert` |
| `DeferredWritesNeverLost` | `SessionWriteProofs` | `Spec => DeferredWritesAccounted` |
| `PendingListIsTheQueue` | `SessionWriteProofs` | `Spec => DeferredSpec`, the refinement |
| `IdentityMapIsStored` | `SessionWriteProofs` | `Spec => []CachedValuesStored` over a store in memory, for relationships that cascade, without edits and merges |
| `ChainWalks` | `SessionProofs` | the chain of an object starts at it, follows the relationship and goes to the end |

*Recursion.* The library's theorems about recursive functions and induction have an
operator as a parameter, which the provers cannot instantiate. `RecursionTheorems`
states them of sets and functions instead (`NatSet`: a set with 0 and all successors
has all numbers; `RecursiveFunction`: a function defined by recursion exists), from
which SMT can work. With them `SessionProofs` shows what `Chain` is (`ChainWalks`),
that a heap that agrees along a chain has the same chain, and that what a set of
references keeps alive is closed under embedding; `SessionWriteProofs` shows what
`Kept` is: the elements in their order, each once. This is why the queue is filtered
with `Kept` and not with `SelectSeq`, which is recursive in a way that nothing can be
proved about.

*Closing.* `ClosedIsClean` is not inductive: `Exit` sets `closed` without looking
at the queue. `QueueInv` adds that a body after a flush finds the queue empty and
that only a flush has a snapshot in hand.

*Cascades.* No invariant is needed; a resource whose type a put removes must be an
orphan of the put (`RemovedOrphan`), an orphan has no link from outside the tree,
and a put adds links only to resources of its tree's objects (`PutSparesReferenced`).

*Caches.* That an entry names an instance of its key is not inductive: a step may
free the instance and reuse the address. `HeapInv` therefore says that the heap is
typed, that every entry names a live, correctly keyed object, and that the object
the application holds has a resource; `ControlInv` types the call in progress and
says which calls have an instance to work on. Together they are `CoreInv`. The proof
follows the structure of the model: lemmas say what each cache helper, each load
(`LoadedOK`), each attachment to the caches (`AttachOK`) and garbage collection
(`CollectOK`) preserve, and the steps combine them.

*One instance.* `HydrationIsIdentity` is inductive on top of `CoreInv` (`Agree`), one
lemma per cache helper: each forgets or files both caches together, and what
`RegisterEmbedded` files on its way down the chain has its other depths forgotten.
`InstanceKept` then says of a load that the object attached is the identity that was
there. It is proved, as it is checked, over a store in memory, which never moves to another
generation (`Settled`); a store with a mirror does, the caches are cleared, and the
next read answers with a new instance. That is what the code means to do.

*Fresh reads.* `Says` follows a load row by row: each row has a name and a link of its
resource in the graph it is read from, and is about the resource the row before it
links (`LoadSays`, for depths 0, 1 and 2). In `remote_authoritative` mode every read
pulls first and leaves no entry of the resource to answer from, so the rows are those
of the endpoint. In the other modes an answer may be as old as the mirror, which is
what those modes are for.

*Live objects.* The types of the graphs and of the queue need more than the caches do:
a put writes what the objects of its tree hold, so those must be complete (`HeapLive`:
an object with a resource has its required name and embeds only such objects), and
the queue must hold live objects of different resources (`Queued`). `LiveInv` says
both. Each kind of step is shown to leave the heap `Sound`, that is right before what
is unreachable is freed, and freeing to keep it (`CollectLive`): what a live root
embeds is reachable and stays.

*Upserts.* From `CoreInv` and `LiveInv`: no two objects of a composition tree are of
the same resource (`NestedDistinct`), the put removes all declared triples of each,
and the triples that it adds are those of the tree's objects, so afterwards the graph
holds exactly these.

*Deferred writes.* The refinement maps the queue to the resources of its objects
(`IrisOf`), which are different because of `Queued`. Each step is a step of the abstract
queue or leaves it alone: `AddPending` is `Defer`, `RemovePending` is `Discard` with
the set of resources that the call is about (`DiscardStep`), `clear_pending` is
`Clear`, a `FlushPut` is `Write`, `FlushRaises` and `FlushDone` are `EndFlush`. The
proof needs that garbage collection frees nothing in the queue. `DeferredWritesNeverLost`
follows the same cases over objects: what is at a kept position stays in the queue
(`KeptHas`, `RemoveKeeps`, `AddKeeps`), so what leaves it in a call is of a resource
that the call is about (`RemovalLeaves`, `QueueLeaves`), and what leaves it in a flush
is written as the object has it (`FlushStores`, from `PutStores`).

*What the identity map says.* `CoherenceInv` adds two things to `CoreInv` and `LiveInv`:
what each identity holds is in the graph (`Stated`), and only objects of classes with a
relationship embed (`Shaped`). A load files a line of objects (`Files`) each of which
says what its row says (`LineSaid`); a put writes every object of the tree and forgets
every entry of a subject it rewrites, embedded and orphaned ones included; a delete
forgets what it removes. The hypotheses are those of the claim: an edit or a merge
makes an instance say what is not yet stored, and an object embedded in a relationship
that does not cascade (`AllCascade`) is put into the identity map but not into the
graph, which the hazard at `session_core.py:207` records.

### An HTTP store

`HttpStoreProofs` holds proofs for every set of tasks, subjects and values, both
mirror modes, every `max_retries`, every `max_triples_per_update` and every bound
on late updates, under `StoreAssumption` (types; finitely many triples, since a
`Store` is a finite graph).

| Theorem | Says |
|---|---|
| `TypeCorrect` | `Spec => []TypeOK`, with the bound on attempts |
| `UpdatesTakeEffect` | `Spec => UpdateInEffect` if no two tasks write the same subject (`OwnSubjects`) |
| `MirrorIsCurrent` | `Spec => []MirrorCurrent` if there is one task (`OneTask`; `HttpShared` shows that two are too many) |

*Chunks.* `ChunksCover` says of every set and every chunk size that the chunks
consist of the set's triples and leave none out, the last, partial one included
(`LastChunk` is its arithmetic); `UpdateChunksCover` the same of a whole update, with
all removals before all additions.

*Effect.* `UpdateInEffect` speaks of the last response. `EffectInv` says in addition,
of an update in progress that no late update disturbed, that what it still has to send
and what the endpoint has add up: a triple to be added is there or in a chunk to come,
and one to be removed alone is gone or in a DELETE chunk to come. A request that is
sent again after it was served finds this unchanged, since a chunk's effect is
idempotent.

*Mirror.* `MirrorInv` says that mirror and endpoint agree on every triple that is not
doubtful and not in hand of the update in progress, and that an answer under way is
what the endpoint still says, unless the read was disturbed.

### Requests

`RequestsProofs` holds proofs for every number of requests and resources, every set
of dependencies, both values of `autoflush` and `rollback_on_error`, and every bound
on the calls of a handler, under `RequestsAssumption` (`Old`, `None` and the values
that requests write are different things).

| Theorem | Says |
|---|---|
| `TypeCorrect` | `Spec => [](TypeOK /\ ControlOK)`: types, and which call a request is in |
| `UpsertsAreExact` | `Spec => UpsertExact` |
| `StoresLive` | `Spec => []StoreLifetimes` |
| `FailuresLeaveNothing` | `Spec => []FailureLeavesNothing` |
| `ReadsAreOfTheirTime` | `Spec => []ReadsOfItsTime` |
| `SuccessesAreStored` | `Spec => []SuccessStored` |

None of the properties is inductive, and each has a strengthening of its own on top of
`TypeOK` and `ControlOK`.

*Upserts.* `ExactOK`: while an exact write waits, the endpoint holds no more of its
resource than the write removes, and nobody else is writing it. `WriteStarts` of
another request ends the exactness of both; every other step leaves the resource alone.

*Lifetimes.* `LifetimesOK`: a shared store that exits close was given with
`close_on_exit=True`, and a store made for a request is open until its exit.

*Failures.* `DroppedOK`: a dropped value was never tried and its request is at its
end; `StoredOK`: what is stored was tried. A value belongs to one request (`OwnApart`),
so no other request can try it.

*Reads.* `SeenOK` and `CachedOK`: what the mirror and the identity map hold for a
request under way, it has seen. The mirror changes only with the endpoint or by a pull,
and the cache only by a read or a write that the store has answered.

*Success.* `SuccessOK`: a value that is due was written, or is in the part of the list
that a flush under way has still to write, or in the pending list when no flush is
under way. A failing flush puts the rest of its list back; since a call flushes first,
nothing is pending when its own write starts, and a failed one loses nothing else.

### Queries

`QueryProofs` and `QueryMeaningProofs` hold proofs for every schema, every set of graphs,
filters and sort keys and every bound on a builder, under `SchemaAssumption`
(relationships lead to classes), `GraphAssumption` (a graph is a finite set of triples
without the mark for an unbound variable, and `None` is neither a subject nor an object)
and `QueryAssumption` (filters are what the operators of `Expressions` build, paths are
tuples of names, `None` is no number, and values of a field that is sorted by are numbers,
which stands for an order of the values).

| Theorem | Module | Says |
|---|---|---|
| `AnswersAlwaysMean` | `QueryMeaningProofs` | `Spec => []AnswersMean` |
| `CallsAlwaysAgree` | `QueryMeaningProofs` | `Spec => []CallsAgree` |
| `AnswersAlwaysSorted` | `QueryProofs` | `Spec => []AnswersSorted` |
| `JoinsAlwaysLead` | `QueryProofs` | `Spec => []JoinsLead` |

*Folds.* The compiler is loops over filters, hops, patterns and keys, and the model says
each as a `FoldLeft`, which the community modules define by recursion over sets of
positions. `Folding` has the lemma, for any step, that folding a longer sequence is one more
step; each fold is an instance of it, and an invariant of its steps becomes one of its
result by `SeqSet`: a set with `<<>>` and every extension of its members has all
sequences.

*Solutions.* `Extends`: the solutions of a longer group extend those of the shorter one.
What the patterns of a hop bind is said of one solution (`Arrives`), for nullable and
required hops and for embedded and IRI targets alike.

*What is compiled.* `AnswersSorted` says nothing of variables, so the proof needs an
invariant of the compiler's state. `Good` says that the state has its shape (`Shape`:
the join cache is closed under prefixes and hands out variables that were numbered
already, the root's for the empty path) and that it is sound (`Sound`: every solution of
the group behind the rows of `values()` has a root, and `Leads` along every path in
the cache: if no link on the path is missing for that root, there is a way along the
path whose stops are what the variables of its prefixes are bound to). The premise is
necessary: an `OPTIONAL` hop without a link leaves its variable unbound, and a later
pattern may bind it to anything, which is the finding of `QueryMissingLinks`. Each
compile function keeps `Good` (`Grows`), blocks of `EXISTS` because all they take from the
group is numbers.

*Sort keys.* `Keyed` adds, for the keys compiled so far, that the variable of a key is
bound to the key's value wherever the root has one value of it (`HasKey`): its path
leads on from every way along its first links, and the pattern of the value, or its
`OPTIONAL` block when the path had to be followed for the key, binds that way's one value.
Then all rows of such a root have the same sort values (`RootKeyIs`), its place in the answer is decided by
them, and a page is a contiguous part of a sorted list (`PageOf`). The invariant of the
builder itself (`BuilderOK`) is the types of its settings.

*What filters mean.* `JoinsLead` says that rows stand on ways; that an answer is what the
filters mean also needs that every way has its row, and that filters hold of rows exactly
when the comparisons hold of ways. `Model(T, free, r, R, c, E)` is the invariant of the
compiler's state `c` that says so, for one root `r` and the parts `E` compiled so far: the
variables of each solution of root `r` stand on one way along all paths followed, and are
unbound where a link is missing (`Stands`); where all filters of `c` hold, the parts in `E`
hold of that way; and every way of which they hold has a solution of which the filters
hold. A filter is evaluated over complete rows only, but is compiled in the middle. So
`Model` also says that each filter is `Settled`: binding fresh variables changes nothing
of it, and binding an old one, which an `OPTIONAL` hop left unbound, never makes it true.
`LinksSuffice` is needed for `Stands`: without it a later pattern may bind a variable that
a missing link left unbound to any resource, the finding of `QueryMissingLinks`.

*One step.* `AddsAll` says of the elements and filters that one compile step adds what
`Model` says of all of them, and `ModelStep` that `Model` is kept by such a step. Each
compile function is shown to be one: a hop (`HopsOn`: a solution goes on to every linked
resource, or stays as it is when there is none and the link may be missing), a path
(`FollowModel`), each comparison with each toggle (`ComparesModel`), a property path, the
string of an IRI. A disjunct is compiled to an `EXISTS` block with variables of its own,
which is evaluated from one solution: it is the same invariant with that solution alone as
`T` and the numbers of its block as `free` (`BlockMeans`), hence a disjunction or its
negation holds of a solution exactly if it is meant of its root. The
first patterns choose the typed roots that `values()` leaves (`Chosen`), and folding over
the parts of the filters gives `FiltersModel`.

*Sort keys and calls.* A path that is followed for a sort key keeps `Model`, and since the
path goes on from everywhere (`WaysGo`), it drops no row of a root that has the key
(`SortedModel`). A path may drop the rows of other roots, but adds none (`Beyond`). `RowsMean`
concludes for the SELECT of `count()` and for that of `all()` that a root has a row exactly
if it is meant, and `SortedRootsWithin` that the roots of the latter are among those of the
former. An answer lists each root of its rows once (`OrdersAre`), and stays the answer of the
query as it is until the builder is changed, which forgets it (`AnswerInv`, the inductive
invariant of both theorems).

## 5. What is only model-checked

* `CachedValuesStored` for relationships that do not cascade and for edits and merges
  is false, `InstanceKept` over a mirror and `ReadsFresh` outside `remote_authoritative`
  are no promise of the code (section 4); the theorems cover the rest.
* `AnswersMean` claims nothing of roots whose links do not suffice, where the code departs
  from its guides (`QueryMissingLinks`), nor of roots without one value of every sort key:
  `all()` may leave such a root out, when a required link on the key's path is missing, or
  list it where any one of its values puts it.
* Liveness (`CallsReturn` of both components, `RequestsEnd`): fairness is outside
  the prover.
* The violations: a counterexample is a run, not a theorem.

## 6. What is not modelled

* In the session, a class with several scalar or relationship fields, list-valued
  relationships, language tags, datatypes and subclasses. A composition tree is
  a chain; sibling fields and their order are not represented. (Queries are over
  classes with several fields of each kind.)
* Text: escaping, prefixes, literal forms, result formats, serializers. A comparison
  in a SELECT is a comparison of values.
* In queries, `lower()` and `upper()`, inverse and repeated property paths
  (`compiler.py:535-542`), `==` and `in_()` of collections and `None` among the items
  of `in_()` (`compiler.py:244`, `380-382`), `values()` of variables other than the
  root and its error for rows with unlike keys (`compiler.py:715`).
* In the HTTP store, a client that is passed in (`stores/async_http.py:178`), which lets a
  request in flight go on after `close()`; a pull of several resources at once
  (`stores/async_http.py:228-271`); an update about several subjects, or one that removes
  some of a subject's triples only.
* Schema registry: a polymorphic SELECT takes the set of subtypes as given;
  polymorphic hydration is left out.
* Two tasks inside one session: the class forbids it and does not detect it.
* Updates of more than one chunk failing under a session (see `StoreApplies` above),
  and in `Requests` the race of a pull and an update: a pull is one step there
  (`HttpShared` divides it).
* Exceptions other than those of the store: a handler that fails does so between its
  calls.

## 7. Plan

Done: the document model, cascades, session state, session, its deferred-write
abstraction, the HTTP store and requests over a shared store with their theorems, the
meaning of queries with the soundness of its joins, the order of its answers and the
answers themselves proved.
In order:

1. *HTTP store under a session.* Refinement: an update of `HttpStore` implements
   `StoreApplies`/`StoreRaises`, generalised to any subset of chunks, and
   `WriteDone`/`WriteFails` of `Requests`.
2. *Several relationship fields.* Replace the chain by a tree, to bring sibling
   orphans and shared embedded objects in.
3. *Collections in queries.* `in_()` over list-valued fields; several rows per root.
4. *Proofs.* The refinement of item 1, and the lemmas of the chain for a tree (item 2).
