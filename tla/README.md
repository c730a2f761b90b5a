# ragorc in TLA+

Models, checks and proofs of `ragorc`. Two kinds of correctness are in them:
the one that rests on order (what may happen between two awaits, what a crash
leaves behind, what a retry finds), modelled as state machines; and the one of
the pure algorithms between a file and an answer, modelled as operators and
checked on bounded inputs. Each module is translated from the Python source,
and `PROJECT.json` maps every definition to the lines it stands for.

Paths below are relative to `src/ragorc/`.

## The system

ragorc is one asyncio library with a CLI and an HTTP server in front of it. It
indexes documents into Qdrant (vectors), Postgres (documents and chunks) and,
optionally, Neo4j (an entity graph), and answers questions by routing,
retrieving, grading and generating over them with an LLM behind OpenRouter.

| Component | State it keeps | Operations | Talks to |
|---|---|---|---|
| `core/concurrency.py` | a breaker per store, token buckets | `CircuitBreaker.check/record_*`, `retry_async`, `bounded_gather`, `RateLimiter.acquire` | everything that does I/O |
| `core/telemetry.py` | a `CostLedger` per request | `check`, `reserve`, `record` | the LLM client |
| `llm/` | two semaphores, `_no_strict`, a response cache | `complete`, `structured`, `stream`, batches | OpenRouter, the ledger |
| `cache/` | keyed tiers, the semantic answer cache | `get`, `set`, `invalidate` | Redis, Qdrant |
| `index/loaders.py`, `index/split/` | none | load, walk, split | the ingest pipeline, the server |
| `index/pipeline.py` | documents that wait for confirmation | `ingest` | both stores, the answer cache |
| `index/graph/` | none of its own | extract, resolve, detect, summarize, `GraphBuilder.build` | Qdrant, Neo4j, the LLM client |
| `index/raptor.py`, `index/multirep/`, `embed/` | embedding caches | representations and vectors | the LLM client, embedding models |
| `stores/` | points, rows, nodes; pools and breakers | upserts, deletes, searches, `bulk_load_mode` | the three servers |
| `pipeline/builder.py` | the built stores, lazily | `query`, `stream`, `ingest`, `delete` | all of the above |
| `pipeline/graphs/`, `pipeline/nodes.py` | the state of one question | corrective, self-reflective, multi-hop and agentic loops | retrieval, generation |
| `route/`, `translate/`, `construct/` | cached hints and embeddings of routes | routing, rewriting, text to SQL and Cypher | the LLM client |
| `retrieve/` | a breaker per store of the fan-out, a lexical index | the legs, `MultiStoreRetriever`, fusion, reranking, CRAG, graph search | the stores |
| `generate/`, `context/`, `validate/` | none | answer, cite, pack, verify, repair, filter a stream | the LLM client |
| `security/` | sliding windows per caller | rate limit, tenancy, guards, detectors | the server, the stores |
| `server/` | counters, staged uploads | the HTTP routes around the pipeline | the pipeline, the answer cache |
| `eval/` | none | runs, metrics, comparisons, generated datasets | the pipeline |
| `cli.py`, `adapters/` | none beyond the pipeline | surfaces | the pipeline |

What is hard in it, and which property each component stands or falls with:

- **The breaker** is read and written by every request at once, and hears of
  calls late or never. It must admit one probe per cooldown, trip only when the
  store is unreachable, and never stay shut for good.
- **The limiters** serve callers that wait, and callers that are turned down.
  Neither may ever let more through than its rate, in any stretch of time.
- **The ledger** is checked before a round trip and written after it. A fan-out
  must not overspend it, and no way out of a call may keep a reservation.
- **The ingest** writes two stores without a transaction, accepts vectors before
  they are applied, and marks a document as done with a checksum that makes the
  next run skip it. The marker must never lie: not after a crash, not after a
  failed document, not when the source changes under the run.
- **The delete** goes over four stores, past failures, and reads the only handle
  on one of them from another that it empties. Its report must be true, and it
  must not take anything from a document that stays.
- **The answer cache** holds statements about the index at one moment, written
  by two engines. Invalidation races the questions that are still being
  answered, and the tenant of an entry must be the tenant of its reader.
- **The service** runs each request under a deadline that may pass at any await,
  with a second engine to fall back to. A request must end, be counted once, and
  leave nothing behind.
- **The query graphs** loop until a grader is content; every loop has a budget.
- **The fan-outs** (`MultiStoreRetriever`, `bounded_gather`) must not lose a
  probe, a failure or a sibling's write.
- **The algorithms** take what models and files give them: missing grades,
  repeated ids, empty parts, names that almost agree. What one bad item costs
  must be that item, and what is promised of the whole (a budget, a filter, a
  partition, an order) must hold for every input.

`PROJECT.json` lists these at their lines under `hazards`, with the properties
that watch them, and every component with what is modelled of it.

## Modules

State machines:

| Module | Models |
|---|---|
| `Breaker` | `CircuitBreaker` as operators on a record |
| `StoreGuard` | concurrent callers of one store: `QdrantStore._guard` with `retry_async` and the breaker |
| `Gate` | the abstract breaker: what `CircuitBreaker` promises its callers; `StoreGuard` implements it |
| `MultiStore` | queries that fan out to several stores, each behind a breaker of the fan-out |
| `Pace`, `Quota` | `RateLimiter` toward the provider, `KeyedRateLimiter` toward each caller |
| `Server` | requests to the routes of `server/app.py`: tenants, deadlines, two engines, the answer cache, uploads, counting |
| `LLMClient` | the calls of one request under one `CostLedger`: `complete`, `structured`, `stream` |
| `Ingest` | `IngestPipeline.ingest`: windows, purge, writes, read-back, checksums; crashes, edits, answers |
| `Removal` | `RAGPipeline.delete` over the four stores, with `Neo4jStore.delete_chunks` and the writes of `GraphBuilder` |
| `GraphShapes` | the seven graphs of `pipeline/graphs/`: edges, branches, recursion limits |
| `QueryGraph` | `RAGPipeline.query` and `stream` over them: the nodes of `pipeline/nodes.py`, in supersteps, under the call ceiling |

Algorithms, as operators (all over `Lists`, helpers on sequences):

| Module | Models |
|---|---|
| `Loading` | the loader of each format, the walk over a directory, and how ingest and uploads get there |
| `Splitting`, `Structure` | the six splitters and the base class they share |
| `Representations` | late chunking, RAPTOR trees, propositions, summaries, children, contextual prefixes |
| `KnowledgeGraph`, `Entities` | extraction, communities and reports; entity resolution |
| `Asking` | translators and routers |
| `Searching` | one leg of a retrieval: vectors, BM25, SQL, the web, other libraries |
| `GraphSearch` | local, global and DRIFT search over the graph; paths and hops |
| `Fusion`, `Ranking`, `Packing` | merging and filtering; reranking and corrective grading; compression and the token budget |
| `Guards`, `Filters` | the SQL and Cypher guards and their constructors; self-querying, filters, the plan of a search by several vectors, detectors |
| `Citations`, `Answering` | citations, leaks and streams; groundedness, consensus, abstention, the answer loops |
| `Metrics`, `Evaluation` | the metrics; runs, series, the paired bootstrap, generated datasets |

`MCServices`, `MCIngest`, `MCRemovals` and `MCQueryGraph` are instances for
TLC. `MCAlgorithms` picks an area and an input of it; the inputs,
and what is asked of each, are in `MCInputs` and `MCKnowledge`.
`MultiStoreProofs`, `ServerProofs`, `LLMClientProofs`, `IngestProofs`,
`RemovalProofs` and `QueryGraphProofs` hold the theorems of one component each.
`ServicesProofs` has those of the breaker, of its refinement and of the two
limiters, and composes them with the fan-out's and the service's into theorems
of `MCServices`; `RemovalsProofs` does so for the instances of `MCRemovals`.

Conventions. An action is the code one coroutine runs between two awaits, for
every coroutine of the instance; TLC and the proofs interleave them freely. A
loop or a call of which every step is local is one action. Data is what the
properties can tell apart: a checksum is the version of the source it was
computed from, a chunk is a document, a version and a part (`chunk_id` folds the
content in), an answer is the version or the chunk it was built from. In the
algorithms a text is a sequence of letters or words that stand for their class,
and scores are small integers. Mutated forms of an operation stand before it,
marked `Mutation:`; nothing in a specification uses them.

Several runs of TLC hold more than one instance side by side (`which` says the one that
moves, and the others keep their initial state). They share a run and nothing
else: no variable is written by two of them in one behaviour.

### StoreGuard, Breaker and Gate

`breaker` is the dataclass, with ages instead of time stamps: the code only
compares an age with the cooldown, so both are capped at `Reset`, and the
failure count, compared only with the threshold, at `Threshold + 1`. `Start`
and `Refuse` are `check()`, whose reading of `is_open` also writes; `Retry` and
`Resume` are a backoff; `Succeed`, `Fail`, `Reject` and `Cancel` are the four
ways an attempt ends, of which only two report to the breaker. The server goes
away and comes back as it likes, and `Tick` is the clock.

`Gate` has none of this: a gate that is closed, open or probing, the callers
inside, and the ticks since it opened or let a probe through. The refinement
mapping (`GateOf`, `SinceOf`) reads the gate off the breaker's record, and
`ContractKept` says that every step of the guarded store is a step of the gate
or invisible to it. That the cooldown an open gate counts is the time since the
*opening* while no probe is out, and since the *probe* while one is, is the part
the code spreads over two stamps and one flag.

### MultiStore, Pace, Quota

A query of `MultiStore` plans its legs (`_plan`, where the breakers are read and
a probe is taken), runs them, and fuses what came back; a leg succeeds, finds
its store away, is rejected, or is cancelled with the query. The vector store's
retriever is itself a fan-out (`HybridRetriever`) and reports lost legs instead
of raising. `Nested` and `Flat` are two instances: one store that is a fan-out,
and two that are not.

`Pace` is the token bucket with its lock: the head of the queue sleeps with the
lock held. `Quota` is the sliding window per credential, with its pruning.

### Server

`request[r]` holds what one request has come to: the route, the tenant it asks
for and is given, the engine it is at, its answer, its status and the outcomes
counted. A query is looked up in the answer cache by the service, then by the
engine, answered by the engine or, when that fails with anything but an error of
ragorc's own, by the linear one; both cache. `Deadline` is `asyncio.timeout` at
any await, `Unstaged` the removal of an upload's directory on every way out.
Tenants come from a credential's binding, a header or a default
(`security/tenancy.py`). `Readable` is what an answer may be built from: the
tenant's own documents under isolation, any document without it, because a leg
in generated SQL or Cypher, over the graph or of another library carries no
tenant, and `require_generated_query_isolation` and its two siblings refuse such
a leg only under isolation (`docs/security.md` says so). `Http` is the instance of the passing run, with
isolation on and off (`Isolations`) and with a bound and a free credential;
`Open`, of `ServerStale`, is a query and a delete of a service that has no
tenants.

Left out: the body of responses, metrics other than the outcome counters, and
the embedding similarity of questions (an entry matches or does not). Isolation
is the mode "reject": in the others the operator vouches for the scope of
unscoped legs, and the code takes the setting at its word. The
invalidation of a delete is applied at once here; `Removal` has it applied later.

### LLMClient

`recorded`, `cached` and `reserved` are the ledger; `free` and `streamFree` the
two semaphores; a call's `tries`, `round` and `spent` its locals. `Post` is
`reserve`, check and claim in one step; the answers of a request are `Complete`,
`Validated`, `Invalid`, `Unsupported`, `Transient` and `Rejected`; `Cancel` may
come at any await. The ledger's ceilings on cost and tokens go through the same
lines as the one on calls, which stands for the three.

### Ingest

`row` is the document row with its checksum (`Unstamped` while the checksum is
NULL), `chunkRows` the rows under it, `accepted` and `points` what Qdrant has
taken and what it has applied. `run[r]` holds the locals of one `ingest()`, and
its `pc` the place of the code: `Load` and `SelectChanged` are one window of
`_document_windows` and `_select_changed`; `Process`, `PurgeVectors`,
`PurgeRows`, `Invalidate` and `WriteDocuments` one group of `_process_window`;
`NextBatch`, `SendVectors` and `SendRows` a gathered batch; `FlushDeferred`,
`Flush`, `Count` and `Stamp` the way to the commit marker. `awaiting` belongs to
the pipeline and not to the run, as in the code. `Fail` is a store or provider
that raises at any await, `Crash` the process, `Refused` the foreign key of
`chunks`, `Apply` Qdrant's update queue. What the environment may do beyond
this is named in `Allowed`: start with `--force`, edit a source at any time,
let the read-back fail, ask questions, cache answers late, keep an invalidation
from the answer cache.

The answer cache accepts a delete without waiting for it (`wait=False`).
`cached` is what it may serve, `leaving` what it has been asked to delete and
serves until `Expire`, and `missed` a history: the answers that were computed and
not yet cached when it was asked, and those of an invalidation that did not
reach it. What `AnswersAreCurrent` and, in `Removal`, `DeletedIsForgotten` say
is of the rest (`standing`); that the others really are served, until the
deletion is applied or their time to live is over, is what the code does.

Left out: tenants, the time to live as a number (`Expire` may come at any time),
validation and conversion of documents, and the order of Qdrant's queue beyond
one delete that follows the upserts before it.

### Removal

One action is one statement to one store. `LookUp` is `_chunk_ids_for`;
`DeleteVectors`, `DeleteRows`, `AskGraph`, the three statements of
`delete_chunks` and `InvalidateAnswers` follow in the order of the code, and
`LookUpFails` (which keeps the ids the scroll had yielded), `StatementFails`,
`RowsFail`, `AnswersFail` are what becomes of failures: all are recorded but the
last, which `SemanticCache.invalidate` swallows before `_try` sees it. A
pipeline `holds` a relational store or does not: an ingest opens one for itself
and does not leave it to the pipeline, so that in library use a delete may find
none, says nothing of the rows, and reports complete with the rows left
(`rowless`). The service behind the HTTP routes and the CLI opens it first. `Uncache` and
`Overlook` are an invalidation that reaches the answer cache and one that does
not, with `leaving` and `missed` as in `Ingest`. `report` is what the last `DeleteReport` said of each
document: "failed" is `complete = False`, "skipped" a skipped graph, "deleted"
is `deleted = True`. A graph build is its five upserts and its prune, over some
of the indexed chunks (`graph build --limit`), with the `MERGE` of end points
that makes nodes with a name and nothing else.

Left out: relation edges between entities, hierarchies of communities (here
detection finds none, or one of all that was extracted), more than one window of
chunks per build, and an ingest of a document while it is being deleted. Ingest
is one step here; module `Ingest` has its inside.

### QueryGraph and GraphShapes

`ch` is `RAGState`, `due` the nodes of the superstep, and `partials` what those
that have returned changed. There is one action per node (`Retrieve`, `Grade`,
`Hop`, `Generate`, `VerifyUtility`, ...), which returns every partial state the
node's code can return, failures included; `Continue` applies them through the
reducers and asks `Successors` for the next nodes. `Raise` is LangGraph refusing
two values for one channel, or one superstep more than the limit; `Stream` is
the interrupt before `generate`; `Finish` is `_finish` with `_cache_set`. A node
whose calls the ceiling no longer pays for ends the query: `BudgetExceeded`
escapes every handler. `Room` and `Allowance` are the two places that look
ahead, `budget_available` and `_call_allowance`.

A list of chunks is the set of the kinds it may hold: kept by the grader,
rejected, never graded, added by a hop. Ghosts: `lost` (a leg of some retrieval
failed), `uncounted` (an attempt left `generate_iterations` alone), `fresh`
(grades written since the answer). LangGraph is not in the repository: `step`,
`due` and `partials` follow how the graphs are used, and `Sentinels` leaves open
whether the start and end count as supersteps. The passing run takes the
stricter reading (two), the violations the milder (none).

Settings fixed: `check_groundedness` on, the corrective stage and both graders
configured, RRR off, the default reranker and compressor, which make no calls,
CRAG's own web leg off as in the graphs. What a node may spend of the ceiling:
translation a call for each strategy, which are four in the agentic graph
(`_FULL_TRANSLATORS`), and it swallows `BudgetExceeded` with every other failure;
a retrieval, a hop or a leg two for each store of the route that is asked in a
language a model writes (`Generated`, `LegCalls`: the statement and its repair);
a global search one for each report, up to `MapCap`; grading as many as its
allowance; synthesis and its check one each; any other node one. A failure may
have spent what it would. A call is a structured request: what its own repairs
of invalid output add is not counted here (`LLMClient` has them). The lookup in
the answer cache (see `Server`), the call a stream makes after the interrupt,
and usage records are left out.

### The algorithm modules

Each has its definitions in the order of the code and ends with what the code
promises of one input; `MCInputs` and `MCKnowledge` list inputs and name the
promise. The promises are about the whole function, not
about a line of it: that fusing never turns the agreement of two lists around;
that a splitter's chunks are slices that lose no character; that what a stream
sends, however it is cut, is what filtering the whole text would leave; that
resolution joins no two names that disagree, in any order of the pairs; that a
budget-starved grader decides nothing about what it did not see.

Where the data is abstracted, and how:

- Scores, weights and similarities are integers in units of `1/Unit`. `Weight`
  in `Searching` stands for the inverse document frequency without its logarithm
  and BM25 has no document length; community ranks have no logarithms; the
  decay of a hop is a half.
- The bootstrap of `Evaluation` is exhaustive over its draws instead of random.
- What a model, a parser or a partition algorithm returns is an input: all of
  it, including nothing and nonsense.
- `Entities` leaves descriptions out, `KnowledgeGraph` types of relations,
  `Loading` titles, the stat metadata of files and YAML lists in one line.
- Patterns of `Citations` are no longer than the tail that the stream filter
  holds back, as the code requires of them.
- The compressor of the corrective stage in `Ranking` keeps the first strip.
- `Citations`: the 120 characters by which a verifier's evidence is located are
  `NeedleLength` words. `Answering` takes whether a quote is in its passage as
  part of the reply, and looks at it only where there are citations.

## Runs

`tlc -config X.cfg M` for each, as `PROJECT.json` lists them. All bounds are in
the `.cfg` or in the instances of the MC module.

| Run | Shows | Bounds, and why they are enough |
|---|---|---|
| `Services` | the guarded store implements its gate: one call per cooldown, opened by an outage only; a fan-out accounts for every store and cuts off none that answers; every store of a fan-out rejoins; neither limiter exceeds its rate; no bound credential is given an answer computed for another tenant, and under isolation no answer crosses tenants, nor does what it or a cached one is built from; requests end in time, once counted, with nothing staged | three callers of a store: one probe, one late report, one that wants in; threshold, cooldown and attempts of 2, so that each has a first, a last and one before it; two queries and two stores of a fan-out; a window and a half of the limiters; any request beside a question, of two tenants, with isolation and without |
| `LLMClient` | nothing leaks; completions stay in the ceiling; completions and structured calls end | three calls of all mixes under a ceiling of 2, one permit of each kind; 2 tries, 2 rounds |
| `Ingest` | skipped documents are indexed, and only as they are now; retried, the ingest converges | two documents, two leaves and a parent of each, two faults (a crash in the retry of a crash); through windows and batches of one, and (`Wide`) both documents in one window and their chunks in batches of three |
| `Removal` | reports are true of the stores that were asked; nothing of another document is stripped; the graph is tidied; no answer of a deleted document or of an older version stands but what the cache has accepted to delete or was not reached for; what runs that meet over one document leave behind is skipped only when it is whole | five instances: two documents that share an entity, one of which names another, with two faults (a failed delete, then a failed retry or build), with and without a relational store; one delete beside questions answered at any moment and cached late, with one fault and a cache that fails or lags; two concurrent deletes without faults; forced and plain re-ingests over sources edited under them, with questions at every step; a run over both documents next to a run over one |
| `QueryGraph` | no fan-out races on a channel; loops end by their counters or the budget, before the net; BudgetExceeded ends an agentic query only where a model writes the queries of its stores; bad verdicts on documents and answers are heeded; outages are not cached, by the graphs that report them | every graph with one retry, correction and hop, so that each loop is taken, exhausted and left; none and three where a guard tells them apart; a ceiling of 10, what comes before the loops and the reserve take, which runs out in each of the agentic loops, over a store that is searched and over one whose queries a model writes |
| `Algorithms` | what each algorithm promises of its input | some 400,000 inputs: texts, lists and graphs of two to six items with ties, repeats, blanks and failures among them, because the code's guards compare an item with its neighbour, with a repeat of itself and with a bound |

Two actors and two documents are what the code's guards distinguish: they
compare a document with itself and with "another one", and a run with itself and
"another one". Two versions are an old and a current one; no guard compares
more. `IngestMeets` needs a third document, which the refused run does not index and
the other still has to. Deadlock is checked in `Ingest`, `Removal` and their violations; in the
others requests end, or an input has been looked at.

The other runs expect a violation: each takes a sentence of the documentation, a
comment or a docstring, and TLC finds the behaviour in which the code does
otherwise. `PROJECT.json` quotes the sentences under `findings`.

| Run | What happens |
|---|---|
| `IngestMeets` | of two concurrent runs with two edited documents in common, the first confirms one of them; the second purges it, writes its leaves, is refused by the foreign key over the other document and never writes the parents it has deferred; the first stamps the checksum, and the document is skipped without its parent rows |
| `RemovalRetry` | the delete that should be retried has taken the chunk ids the retry needs |
| `QueryNet` | answer attempts that fail, or that need no retrieval, are not counted: a grading graph repeats them until `GraphRecursionError` |
| `QueryDegraded` | `grade` drops the errors of its retrieval, and the degraded answer is cached |
| `ServerStale` | the service caches answers without their documents, so that no delete finds them |
| `Uploads` | the same file uploaded twice is two documents: the loader options that make its label stable are dropped for a list of targets |

### Behind the assumptions

The passing runs and the proofs leave some behaviours out (the sets `Allowed`
of the `.cfg` files, `Kinds` of `LLMClient`). Each was tried, and TLC finds the property
violated when it is let in:

| Let in | Property | What happens |
|---|---|---|
| `Ingest`: two runs, over documents of their own | `SkippedIsIndexed` | they share `_awaiting_confirmation`: the first to stamp takes the other's document too, whose points were sent after its own read-back counted |
| `Ingest`: "force" | `SkippedIsIndexed` | a forced run dies inside a purge and leaves a valid marker over missing vectors |
| `Ingest`: "editDirty" | `SkippedIsCurrent` | a source edited after a failed first ingest keeps the chunks of both versions |
| `Ingest`: "unflushed" | `SkippedIsIndexed` | a read-back that times out is a warning, and the checksums are stamped |
| `Ingest`: a run that dies between `PurgeRows` and `Invalidate`, with "answers" | `AnswersAreCurrent` | the next run finds no row, takes the document for new, purges nothing and invalidates nothing |
| `Removal`: "graphOff" | `CompleteIsGone` | a delete without a graph takes the chunk ids that the delete with one needs |
| `Removal`: two `Contents` | `DeletedIsGone` | the old version's Chunk nodes survive an edit and every later delete |
| `Removal`: "overlap" | `NothingStripped` | the orphan rule takes entities a build has written and not linked yet |
| `Removal`: a fault, without `faults = 0` | `RowsAreRetrievable` | a delete that loses the row statement leaves rows and checksum over missing vectors, and ingest skips them |
| `Removal`: "noRows", without `rowless` | `DeletedIsGone`, `RowsAreRetrievable` | a delete that holds no relational store reports deleted with the rows left, and the next ingest skips the document |
| `Removal`: `cached` for `standing` | `DeletedIsForgotten` | an answer is served until the cache applies the delete it accepted; one that was cached after it, or whose invalidation failed, until its time to live is over |
| `QueryGraph`: a model that writes the queries of the stores | `outcome # "budget"` | the legs of a hop spend what the budget gate had counted on for the answer |
| `QueryGraph`: three hops and no retry (`ManyHops`) | `NetIsANet` | a hop of the agentic graph is three supersteps and its limit counts two |
| `LLMClient`: streams and repairs under the ceiling | `CompletionsWithinCeiling`, asked of all kinds | neither claims anything while it runs, and the usage of a repair loop is lost when a later round raises |

### Fairness

- `Services`: the two clocks tick, so that `StoresRejoin` holds whatever becomes
  of a probe; no caller has to call, answer or return. A deadline that has been
  set passes (`asyncio.timeout` is a timer of the loop), so that `EndsInTime`
  holds of an engine that never answers; nothing else of a request is fair.
- `LLMClient`: weak fairness on each call's own steps but not on the end of a
  stream or a cancellation. The event loop runs ready tasks, sleeps end, and the
  client's timeout answers for a provider that does not.
- `Ingest` (`EitherSpec`, which is `FairSpec` with either windows): a run that can go on does, Qdrant applies what it
  has accepted, and the operator starts the run again as long as it would find
  work. Failures are bounded by `MaxFaults`: convergence is claimed once they
  stop.

## Proofs

`tlapm M.tla` for the proof modules. They hold for every value of the
constants that satisfies the `ASSUME` of the module, and the extra assumptions
named here.

- **StoreGuard** (in `ServicesProofs`). `TypeCorrect`; `ProbeWindow`
  (`ProbeKeepsWindow`), which is inductive on its own: every operation on the
  breaker keeps it; from it `OneProbePerWindow` (`ProbesApart`). `TripsOnlyOnOutage` needs that a caller is
  in `hit` only after an outage, and that a breaker without an outage has counted
  no failure. `Implements` is the refinement of `Gate`: four lemmas say what each
  operation of the breaker does to the gate it stands for (`GateOfGate`,
  `GateOfSuccess`, `GateOfFailure`, `GateOfAged`), and each action of the guarded
  store follows from one of them. It needs the invariant: a half-open gate whose
  cooldown had not passed would close again without a report.
- **Pace and Quota** (in `ServicesProofs`; `RatesAreKept` is `RatesHold`, for any
  ceilings, windows, calls and callers). Of the token bucket, `Potential` says that
  what was granted since any moment and what is left in the bucket fit in a full
  bucket and what came in since; a grant moves its tokens from one to the other, a
  tick adds as much room as it can add tokens, and a moment later the stretch is
  past (`Past`). Tokens granted are a sum over a set, so the section before it proves,
  with the least-number principle, that a sum over a finite set grows by the
  weight of the element that joins it. Of the keyed limiter, `CallerInv` says that
  what is remembered of a caller is its admissions without some that are too old
  to count (`Suffix`), through trims and prunes, and that the admission `PerMinute`
  places after another is more than a window later (`Spaced`), which is the rate.
- **Services.** `PartsInv` is the conjunction of the invariants of the parts, each
  kept by the steps of its own part and untouched by the others'. From it follow
  the properties of the run as theorems of the composition: `PartsTyped`,
  `FanOutsHonest`, `RatesAreKept`, `TenantsKeptApart`, `RequestsSettle` and
  `GuardPromises`, the refinement of `Gate` included. The two fan-outs and the service
  are instances of the lemmas of `MultiStoreProofs` and `ServerProofs`. Supposed is
  `Settings`, that each part is well configured.
- **LLMClient.** `NoLeak` counts: a step moves one call in or out of `InPost`,
  `Sent` or `Streaming` and changes one counter, so cardinalities of finite sets
  with one element more or less are all it takes. `CeilingHolds` rests on the
  check being in the same step as the claim, and on `NoLeak` for the exchange of
  a reservation for a record.
- **Ingest.** For one run, without `--force` and with a read-back that holds
  (`Alone`). The inductive invariant says of every place of the run what has
  been written of each document in each of its sets: a document that has left
  `ready` has its leaves in `pending`, in the batch, in `accepted` or in
  `points`; one that waits has them in the last two; and a stamped row is never
  over less than `points`. `SkipIsSound` and `AwaitingHolds` are parts of it.
  The assumptions are necessary: the table above drops one at a time.
  `SkipIsCurrent` (`SkippedIsCurrent`) adds that the stores hold of a document only
  the version of its stamp, or of its source while it has none (`Indexed`); that
  what a run holds is what the sources are; and that a document with a stamped row
  is purged, vectors first, before its row is written again (`Purged`). It supposes
  `Clean`, that a source keeps still until it has been indexed, which "editDirty"
  drops. `AnswersStayCurrent` (`AnswersAreCurrent`) adds the answers that stand:
  they are of the version the stores hold, but while a purge is between the vectors
  and the answers (`BeingPurged`). It supposes that nothing fails (`NoFaults`): a
  purge that dies halfway leaves the old answers behind. Answers may be cached as
  late as they like, and invalidations fail to reach the cache.
  `ReplacedWhole` lets in forced runs and edits at any moment, and gives up failures
  instead (`Unfailing`): every document is at each moment missing, stamped, landed or
  waiting (`Staged`), what there is of it is of one version (`AllOf`), and the row
  tells which, so that a purge always clears what an edit left.
  `MeetingIsSafe` (`RestartIsSafe`) is for any number of unforced runs that have at
  most one document in common, without failures (`Meeting`). What is confirmed, or
  has landed in some run, is there in full, or some run owes it: it is about to
  purge the document and write all of it, or has landed it and holds every chunk
  that is not there (`Kept`). A purge makes its run the debtor. A run whose rows
  are purged under it fails at the foreign key, but only over the shared document,
  which the run that purged it still owes (`Orphaned`). With two
  documents in common the debtor of one may be the run that is refused over the
  other, and nobody pays: trying to prove it for any targets led to `IngestMeets`.
- **Removal.** For any number of concurrent deletes and any failures, with no
  graph build during a delete (`Alone`). `NothingIsStripped` strengthens with
  what a build has described before it links. `DeleteIsHonest`, for documents
  that are not edited (`OneVersion`), follows from what each delete that has
  recorded no failure has swept so far (`Swept`), which no other call undoes.
  `DeleteForgets` adds the answers that stand (`standing`), under the same
  assumptions: an answer that is computed after the vectors went is not built from
  what is deleted, and an invalidation leaves none of its documents standing.
  `RowsStayRetrievable` (`RowsAreRetrievable`) needs no assumption; the property
  itself says until when: a row statement that fails alone keeps the rows of a
  document whose vectors are gone, and the next ingest skips it. The invariant
  follows a delete through the stores (`Through`): it lets go of its documents
  with their rows gone. `TidiesAlone` (`GraphIsTidy`) is for one delete at a time
  (`OneDelete`) with any failures: nothing touches the graph between its last two
  statements (`Pruned`). Two deletes can each leave what the other has orphaned.
- **Removals.** The properties of the run `Removal` as theorems of `MCRemovals`, for
  any documents, entities and runs: each of the five instances keeps its invariant
  in the behaviours that are its own, and its types in all of them (`TypesInv`).
  `MetRowsRetrievable`, `MetDeletesForget` and `FaultyTidies` are the deletes';
  `MetDeletesForget` (`ForgetInv`) supposes what `DeleteForgets` does.
  `ReplacesEverywhere` takes the staged documents of `ReplacedWhole`, and
  `RestartsStaySafe` the debts of `MeetingIsSafe`: the runs of `Beside` have only the
  first document in common. Supposed is `Finitely`, that there are documents and
  finitely many.
- **QueryGraph.** For every setting of the seven graphs (`Configurations`), any
  number of retries, corrections and hops, and any outcome of every node. The
  base of the invariant is where a query can be: its types, which nodes may be
  due in one superstep (`Front`: only the probes of a fan-out share one), and
  that what a node has returned and has not been applied `Fits` that node. From
  the base alone `FanOuts` (`FanOutsReduce`), since each pair of nodes that may be
  due together writes only channels that reduce. `Told` (an outage a node met is
  recorded or still to be applied) gives `Outages`, `Vetted` and `Judged` (what the
  graders said and what was done about it) give `Verdicts` and `Acceptance`, and
  `Bounded` gives `Loops`. `Budget` (`BudgetAnticipated`) needs `Reserve`: what
  has to be left for the nodes to come, through the `Prologue` (validation,
  translation, construction, routing) whatever the route, and after it as long as
  no store of the route is `Writing`. It supposes `EveryProvided`, a ceiling that
  holds the calls of the prologue and the reserve. Of a route with such a store
  nothing is claimed: neither `budget_available` nor `_call_allowance` knows the
  calls of its legs. `Net` (`NetIsANet`) needs
  `Paced`, a bound on the supersteps taken by the progress of the counters: three
  for each rewrite of CRAG, six for each attempt of Self-RAG, two for each hop of
  multi-hop, which is tight, and ten for each attempt of the agentic graph with
  three for each paid round, of which its limit counts two and the term for
  retries pays the third. It supposes `EverySpacious`, that an agentic graph with
  a loop has a retry: `ManyHops` does not and overruns (the table above). The
  `ASSUME` of `MCQueryGraph` shows that the settings of the runs satisfy both.
- **MultiStore.** For any number of stores and of concurrent queries, any limit,
  fan-outs nested or not. Of a query the invariant says its types, that its legs
  in flight are within the limit, and that every leg is in flight, to be
  launched, a success or reported (`Accounted`), from which `Accounts`
  (`StoresAccountedFor`). The breakers are shared by the queries, and
  what holds of them holds by their operations alone (`BreakersInv`): an answer,
  if only a partial one, closes a breaker, a refusal or a cancelled leg leaves it
  alone, and only a leg of a store that is away, or that lost all its own legs, is
  counted. That is `Silences` (`SilenceTripsOnly`); it
  and `Accounts` are the halves of `FanOutIsHonest`. Supposed is `WellConfigured`,
  that a retriever is one of a store and the limit a number.
- **Server.** For any requests, documents, credentials and tenants, with or
  without isolation. `TenantsApart` (`KeptToTenant`) is not inductive: an answer
  may come from the cache, what is cached was computed for somebody else's
  request, and the tenant of a request is settled in a step before. The
  invariant says where a request of each kind can be and what is known there
  (`Placed`), that its tenant is one its credential may have (`Rightful`) once it
  is resolved (`Resolved`), that an answer is the one of its tenant and, under isolation, built
  from its documents (`Scoped`), and that under isolation every cached entry is
  built from documents of the tenant in its key. `Ends` (`EndsAreSettled`) adds `Settled`,
  and `Staged`, that a directory is there only for a request between its staging
  and its end.
  Both suppose `WellConfigured`, that a credential is bound to a tenant with a name:
  the settings accept an empty one, which `require_tenant` refuses under isolation
  and `scope_filter` takes for no tenant without it. The `ASSUME` of `MCServices`
  shows that the instances of the run satisfy it.

Model-checked only: liveness (`StoresRejoin`, `EndsInTime`, `CallsEnd`,
`Converges`), which is out of the prover's reach; and the properties of
`Algorithms`, whose definitions are recursive over their data: induction over it
needs theorems with an operator as a parameter, which the installed provers
cannot apply, and some of the modules declare RECURSIVE operators. Where one number
or one finite set is enough, as for the sums of `Pace`, the least-number principle
stands in for induction. Each safety invariant and action property of the other
passing runs is a theorem, under the assumptions named above.

## What the code does otherwise

Met while modelling, and not among the findings: no run is about them, or the
models only leave them open.

- *Uploads and paths over HTTP.* `recursive` and the metadata of a request are
  dropped like the source root (`server/app.py:1480`, `index/pipeline.py:756`).
  Files are indexed under the tenant of the settings; the caller's reaches only
  inline text. Of two uploaded parts with one name the last overwrites the
  first, and both are counted. A checksum covers the content only: an edit of
  metadata or front matter is never indexed again.
- *Loading.* The row mode of CSV labels by `str(path)` instead of the relative
  label, and rows with one value in different id columns share an id. An empty
  `<main>` makes a page that has text load as empty. `page_breaks` is written
  and read by nobody.
- *Corrective retrieval.* When the budget cuts the graded head short, "they join
  the ungraded tail below and are still assembled into the result"
  (`retrieve/crag.py`), except when the one graded passage is irrelevant:
  the tail of an INCORRECT verdict is dropped.
- *BM25.* An `add` while the index is being built makes the build fail, or marks
  the index as built without what was added.
- *Shared queries.* `retrieve/graph.py` writes `query.dense` on the query that
  the other legs of the fan-out hold; `adapters/langchain.py` changes the
  caller's query; `self.usage` of the SQL, Cypher and iterative retrievers is on
  an object that concurrent questions share.
- *Routing.* The logical router keeps its fallback for good after one failure of
  the provider, adds the vector store even where it is not allowed, and its
  rules ignore `allowed`. The semantic router raises when every similarity is -1.
- *Search.* `QdrantStore.search` gives a search by one vector the
  `score_threshold` because it "returns cosine similarity, which is the only
  scale score_threshold is calibrated for" (`stores/qdrant/store.py:750`), also
  when that one vector is the sparse one, whose scores `search_sparse` calls
  "unbounded and corpus-dependent" (line 890) and gives no threshold.
  `PlanServes` therefore asks only that no fused or late-interaction score meets
  a threshold.
- *Filters and guards.* Two conditions of one operator on one field are an AND
  of which the second replaces the first (`construct/self_query.py`). Any LIMIT
  in a Cypher statement keeps the guard from adding its own.
- *Splitting.* A token window that starts at the character the previous one
  started at is dropped (`index/split/token.py:135`).
- *Graph.* The placeholder of a community whose report failed enters its
  parent's prompt as a summary. The budget's exception is swallowed per
  community (`summarize.py`) and per chunk (`contextual.py`); enriching twice
  prefixes twice. RAPTOR can exceed `per_level_max`, and its second level names
  synthetic ids as sources. Spreading over the graph depends on the order in
  which a set is walked (`_propagate`), and of parallel edges the first counts.
- *Answers.* Self-consistency and HyDE drop the usage of samples that fail.
  Groundedness is checked on the text before redaction; an answer of less than
  24 characters counts as evasive.
- *Citations.* `_attach_verified_quotes` (`generate/answer.py:441`) replaces the
  quote of a citation by the evidence of the first supported claim of its passage
  and keeps the offsets of the sentence found before: quote and offsets may be of
  different sentences, and every citation of the passage gets the same quote,
  whatever its claim. Evidence is located by its first 120 characters, and what
  follows them need not be in the passage; the validator ran before. `Citations`
  therefore asks for a quote and offsets of the same text only of a citation as
  it is extracted.
- *Evaluation.* Cases that share an id are one in a paired comparison; a
  generated question that comes twice keeps the label of its first chunk.
- *Deletes.* A pipeline that never opened a relational store deletes no rows and
  reports complete (`pipeline/builder.py:1258`); the next ingest finds the rows
  and skips the document. `DeleteReport.deleted` compares distinct documents found with ids
  as given: an id given twice reads as not deleted (`pipeline/builder.py`).
- *Bulk loads.* Two that overlap, or one that dies, leave the collection with an
  indexing threshold of 0, because the second reads the first's as the value to
  restore (`stores/qdrant/collections.py`).

## Not modelled

Prompts and their wording; embeddings, clustering and partitions, which are
inputs where a model needs their results; parsers of formats and languages;
serialisation and the wire formats of the services; bulk loading, the pools,
schemas and introspection of the stores; the keyed cache tiers; most commands of
the CLI; and the assembly of a pipeline from its settings. `PROJECT.json` says
so component by component.

## Plan

1. *Composition*: bulk loads around the ingest; the keyed tiers of `cache/`, with
   their fills and invalidations; lazily built stores.
2. *Refinement*: `MultiStore`'s breakers as gates, on top of `ContractKept`; an
   abstract "answers, abstains or fails within its budget" that `QueryGraph`
   implements.
3. *Proofs*: forced runs that fail, up to the purge that loses them; the
   operators of `Algorithms` that are not recursive, as lemmas of their modules.
