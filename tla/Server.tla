------------------------------- MODULE Server -------------------------------
(***************************************************************************)
(* ragorc.server.app: the HTTP service over the query engine.  A request   *)
(* passes the body ceiling, the credential and the quota, then runs under  *)
(* the deadline and the tenant its route gives it, and the metrics count   *)
(* how it ended.                                                           *)
(*                                                                         *)
(* The engine is RAGPipeline when the orchestration layer was built and    *)
(* _LinearEngine otherwise, or when the first fails; here each answers or  *)
(* fails in any way its callers tell apart.  Both sides cache answers in   *)
(* one collection, under a key of tenant and pipeline: the engine names    *)
(* the graph it chose and the documents, the service names what it was     *)
(* asked and no documents.                                                 *)
(***************************************************************************)
EXTENDS Naturals, Sequences, FiniteSets

CONSTANTS Requests,
          Docs,       \* what an answer may be built from
          Owner,      \* [Docs -> Tenants]
          Keys,       \* server.api_keys; with none, everybody is anonymous
          Bindings,   \* server.api_key_tenants: a function from keys to tenants
          Tenants,
          Isolations, \* what security.enforce_tenant_isolation may be
          Kinds       \* [Requests -> the routes it may call]

\* The routes of the service.
Routes == {"query", "stream", "upload", "ingest", "documents", "delete", "eval", "health"}

None == "none"

\* A request calls routes that there are, a credential is bound to the name of a
\* tenant, and no tenant has the name that stands for none.
WellConfigured ==
    /\ \A r \in Requests : Kinds[r] \subseteq Routes
    /\ \A k \in DOMAIN Bindings : Bindings[k] \in Tenants
    /\ None \notin Tenants /\ Isolations \subseteq BOOLEAN

AutoPipeline == "auto"
Graph == "crag"     \* the graph select_graph picks for "auto"
Counted == {"query", "stream"}                 \* routes the metrics count
Limited == {"query", "documents", "delete"}    \* routes under the deadline
Waits == {"lookup", "engine", "linear", "caching", "documents", "delete"}

\* _STATUS_BY_ERROR and its neighbours, an error of each kind the service
\* handles in its own way: a RagOrcError, a TimeoutError, anything else.
StatusOf == [BudgetExceeded |-> 429, StoreUnavailable |-> 503,
             TimeoutError |-> 504, Exception |-> 500]
Own == {"BudgetExceeded", "StoreUnavailable"}
OutcomeOf(error) == IF error = "TimeoutError" THEN "timeout" ELSE "failed"

VARIABLES phase,        \* of the service: "building", "ready", "failed", "closed"
          orchestrated, \* the engine is the orchestration layer
          isolation,    \* security.enforce_tenant_isolation, as it was set
          indexed,      \* documents in the stores
          cached,       \* answers in the semantic cache
          deleted,      \* documents a delete reported deleted, and not back since
          staging,      \* requests whose upload directory is on disk
          request       \* the local state of each request

service == <<phase, orchestrated, isolation>>
world == <<indexed, cached, deleted>>
vars == <<service, world, staging, request>>

Idle == [pc |-> "idle", kind |-> "query", asks |-> None, pipeline |-> AutoPipeline,
         principal |-> None, entered |-> FALSE, tenant |-> None,
         answer |-> [from |-> "nobody", built |-> {}, verdict |-> None],
         status |-> 0, outcomes |-> <<>>]

Init ==
    /\ phase = "building" /\ orchestrated = FALSE /\ isolation \in Isolations
    /\ indexed = Docs /\ cached = {} /\ deleted = {} /\ staging = {}
    /\ request = [r \in Requests |-> Idle]

At(r, pc) == request[r].pc = pc
Kind(r) == request[r].kind
Move(r, p) == request' = [request EXCEPT ![r] = p] /\ UNCHANGED staging
Goto(r, pc) == Move(r, [request[r] EXCEPT !.pc = pc])

\* Mutation: the directory is removed where the route returns.
KeptOnError(r, status) == IF status = 200 THEN staging \ {r} ELSE staging

\* _staged_uploads removes the directory on every way out of it.
Unstaged(r, status) == staging \ {r}

\* The request ends: its directory goes, and the metrics of /query and
\* /query/stream count an outcome where the code reaches them.  What it asked
\* for is forgotten with it, and so is who asked unless an answer was given.
End(r, p, status, outcome) ==
    LET known == IF status = 200 /\ p.answer.from # "nobody" THEN p ELSE Idle
    IN /\ staging' = Unstaged(r, status)
       /\ request' = [request EXCEPT ![r] =
            [pc |-> "ended", kind |-> p.kind, asks |-> None, pipeline |-> AutoPipeline,
             principal |-> known.principal, entered |-> p.entered, tenant |-> known.tenant,
             answer |-> [from |-> known.answer.from, built |-> {}, verdict |-> None],
             status |-> status,
             outcomes |-> IF p.kind \in Counted /\ outcome # None
                          THEN Append(p.outcomes, outcome) ELSE p.outcomes]]

-----------------------------------------------------------------------------
(* The service.                                                            *)

\* The lifespan builds the service before any request is served.  A build
\* that raises closes what it had opened; without an orchestration layer that
\* builds and has a query method, the linear engine answers.
Build ==
    /\ phase = "building"
    /\ \/ phase' = "ready" /\ orchestrated' \in BOOLEAN
       \/ phase' = "failed" /\ UNCHANGED orchestrated
    /\ UNCHANGED <<isolation, world, staging, request>>

\* aclose, when the server has let go of its requests.
Close ==
    /\ phase = "ready" /\ \A r \in Requests : request[r].pc \in {"idle", "ended"}
    /\ phase' = "closed"
    /\ UNCHANGED <<orchestrated, isolation, world, staging, request>>

-----------------------------------------------------------------------------
(* The gates, in the order of the middleware and the dependencies.         *)

\* resolve_tenant: a bound credential has its own tenant, named or not, and is
\* refused any other; under isolation there is no request without a tenant.
ResolveTenant(asks, principal) ==
    LET bound == IF principal \in DOMAIN Bindings THEN Bindings[principal] ELSE None
        tenant == IF bound = None THEN asks ELSE bound
    IN IF (bound # None /\ asks \notin {None, bound}) \/ (isolation /\ tenant = None)
       THEN "refused" ELSE tenant

\* A request comes in, to a route whose body the framework reads or to one of
\* the others.
Arrive(r) ==
    /\ phase = "ready" /\ At(r, "idle")
    /\ \E kind \in Kinds[r] \ {"health"}, asks \in Tenants \cup {None},
          pipeline \in {AutoPipeline, Graph} :
         /\ pipeline = Graph => kind = "query"
         /\ Move(r, [Idle EXCEPT
                !.pc = IF kind \in {"upload", "ingest", "documents"} THEN "guard" ELSE "body",
                !.kind = kind, !.asks = asks, !.pipeline = pipeline])
    /\ UNCHANGED <<service, world>>

\* /health needs no credential, and reports a store that is slow or down
\* instead of waiting for it or failing with it.
Health(r) ==
    /\ phase = "ready" /\ At(r, "idle") /\ "health" \in Kinds[r]
    /\ End(r, [Idle EXCEPT !.kind = "health"], 200, None)
    /\ UNCHANGED <<service, world>>

\* The body is above the ceiling, as declared or as it comes, or no JSON.  The
\* framework reads a body that the route declares before the dependencies run;
\* the ingest route reads its own, after them.
Refused(r) ==
    /\ request[r].pc \in {"body", "guard", "stage", "copy"}
    /\ \E status \in {413, 422} :
         /\ At(r, "guard") => status = 413
         /\ End(r, request[r], status, None)
    /\ UNCHANGED <<service, world>>

Read(r) ==
    /\ At(r, "body")
    /\ Goto(r, "guard")
    /\ UNCHANGED <<service, world>>

\* require_api_key, then the limiter, then the fields of the body.
Guard(r) ==
    /\ At(r, "guard")
    /\ \E key \in Keys \cup {None} :
         LET p == [request[r] EXCEPT !.principal = key]
             next == CASE p.kind \in {"upload", "ingest"} -> "stage"
                       [] p.kind = "eval" -> "cases"
                       [] OTHER -> "tenant"
         IN IF Keys # {} /\ key = None THEN End(r, p, 401, None)
            ELSE \/ \E status \in {429, 422} : End(r, p, status, None)
                 \/ Move(r, [p EXCEPT !.pc = next, !.entered = TRUE])
    /\ UNCHANGED <<service, world>>

\* The ingest route has its body: an upload gets a directory of its own, which
\* its parts are copied to.
Stage(r) ==
    /\ At(r, "stage")
    /\ IF Kind(r) = "upload"
       THEN /\ staging' = staging \cup {r}
            /\ request' = [request EXCEPT ![r].pc = "copy"]
       ELSE Goto(r, "tenant")
    /\ UNCHANGED <<service, world>>

Copy(r) ==
    /\ At(r, "copy")
    /\ Goto(r, "tenant")
    /\ UNCHANGED <<service, world>>

\* prepare for a question, which is validated first, and the head of ingest,
\* documents and delete for the others.  A stream is prepared before its
\* response starts, so that a refusal has a status; it is not counted there.
Prepare(r) ==
    /\ At(r, "tenant")
    /\ LET p == request[r]
           tenant == ResolveTenant(p.asks, p.principal)
           next == CASE p.kind = "query" -> "lookup"
                     [] p.kind = "stream" -> "deltas"
                     [] p.kind \in {"upload", "ingest"} -> "ingest"
                     [] OTHER -> p.kind
           outcome == IF p.kind = "query" THEN "failed" ELSE None
       IN \/ tenant = "refused" /\ End(r, p, 400, outcome)
          \/ p.kind \in Counted /\ End(r, p, 422, outcome)
          \/ tenant # "refused" /\ Move(r, [p EXCEPT !.pc = next, !.asks = None,
                                                   !.tenant = tenant])
    /\ UNCHANGED <<service, world>>

-----------------------------------------------------------------------------
(* POST /query.                                                            *)

Entry(tenant, pipeline, shape, built) ==
    [tenant |-> tenant, pipeline |-> pipeline, shape |-> shape, built |-> built]

\* Mutation: a lookup is not scoped to the tenant.
MatchesAny(e, tenant, pipeline) == e.pipeline = pipeline

\* SemanticCache.get: the tenant is a condition when there is one.
Matches(e, tenant, pipeline) ==
    e.pipeline = pipeline /\ (tenant # None => e.tenant = tenant)

\* SemanticCache.set: the point of the question under this key is replaced.
Store(e) == {f \in cached : <<f.tenant, f.pipeline>> # <<e.tenant, e.pipeline>>} \cup {e}

\* SemanticCache.invalidate: only an engine's entries name their documents.
Invalidated(docs, tenant) ==
    {e \in cached : ~ /\ e.shape = "engine" /\ e.built \cap docs # {}
                      /\ tenant # None => e.tenant = tenant}

\* What a filter scoped by scope_filter lets through.
Visible(tenant) == {d \in indexed : tenant = None \/ Owner[d] = tenant}

\* What an answer may be built from.  The vector and the full-text legs are scoped
\* to a tenant in any case; generated SQL and Cypher, the graph and a foreign
\* retriever cannot be, and read whatever there is.  Under isolation those legs
\* are refused, or the operator has vouched that their stores are of one tenant
\* (the modes other than "reject", taken at their word).
Readable(tenant) == IF isolation THEN Visible(tenant) ELSE indexed

\* _cache_get: an entry of the other shape, an error and no entry are a miss.
Lookup(r) ==
    /\ At(r, "lookup")
    /\ LET p == request[r]
       IN \/ \E e \in cached :
               /\ Matches(e, p.tenant, p.pipeline) /\ e.shape = "service"
               /\ End(r, [p EXCEPT !.answer = [from |-> e.tenant, built |-> e.built,
                                               verdict |-> "whole"]],
                      200, "cached")
          \/ Goto(r, IF orchestrated THEN "engine" ELSE "linear")
    /\ UNCHANGED <<service, world>>

\* What an engine may answer: from what its legs can read, losing a store, or
\* abstaining.
Answers(p) ==
    [from : {p.tenant}, built : SUBSET Readable(p.tenant), verdict : {"whole", "degraded"}]
        \cup {[from |-> p.tenant, built |-> {}, verdict |-> "abstained"]}

\* RAGPipeline.query answers from its cache or runs the graph, and caches what
\* is whole; an error of ragorc's own is the answer, any other falls back.
Engine(r) ==
    /\ At(r, "engine")
    /\ LET p == request[r]
       IN \/ \E e \in cached :
               /\ Matches(e, p.tenant, Graph)
               /\ Move(r, [p EXCEPT !.pc = "caching",
                      !.answer = [from |-> e.tenant, built |-> e.built, verdict |-> "whole"]])
               /\ UNCHANGED world
          \/ \E a \in Answers(p) :
               /\ Move(r, [p EXCEPT !.pc = "caching", !.answer = a])
               /\ cached' = IF a.verdict = "whole"
                            THEN Store(Entry(p.tenant, Graph, "engine", a.built))
                            ELSE cached
               /\ UNCHANGED <<indexed, deleted>>
          \/ \E error \in Own :
               End(r, p, StatusOf[error], "failed") /\ UNCHANGED world
          \/ Goto(r, "linear") /\ UNCHANGED world
    /\ UNCHANGED service

\* _LinearEngine.query, first choice or fallback, in the context of the request.
Linear(r) ==
    /\ At(r, "linear")
    /\ LET p == request[r]
       IN \/ \E a \in Answers(p) : Move(r, [p EXCEPT !.pc = "caching", !.answer = a])
          \/ \E error \in DOMAIN StatusOf :
               End(r, p, StatusOf[error], OutcomeOf(error))
    /\ UNCHANGED <<service, world>>

\* _cache_set refuses what a lost store or an abstention made unrepeatable, a
\* failed write is passed over, and the answer is returned.
Caching(r) ==
    /\ At(r, "caching")
    /\ LET p == request[r]
       IN /\ End(r, p, 200, IF p.answer.verdict = "abstained" THEN "abstained"
                            ELSE "answered")
          /\ \/ /\ p.answer.verdict = "whole"
                /\ cached' = Store(Entry(p.tenant, p.pipeline, "service", p.answer.built))
             \/ UNCHANGED cached
    /\ UNCHANGED <<service, indexed, deleted>>

\* Mutation: the deadline is around the first engine.
BeforeFallback(r) == Kind(r) \in Limited /\ request[r].pc \in Waits \ {"linear"}

\* asyncio.timeout around the whole call of the service.
UnderDeadline(r) == Kind(r) \in Limited /\ request[r].pc \in Waits

\* The deadline passes at one of the awaits.
Deadline(r) ==
    /\ UnderDeadline(r)
    /\ End(r, request[r], StatusOf["TimeoutError"], "timeout")
    /\ UNCHANGED <<service, world>>

-----------------------------------------------------------------------------
(* The other routes.                                                       *)

\* events(): the frames end in "done" or "error", or with the client.  One that
\* hangs up while a frame is being sent is counted as streamed.
Stream(r) ==
    /\ At(r, "deltas")
    /\ \E outcome \in {"streamed", "failed", "cancelled"} : End(r, request[r], 200, outcome)
    /\ UNCHANGED <<service, world>>

\* service.ingest: inline text is of the tenant of the request, a file of the one
\* of the settings, whoever asks.  The purge of RAGPipeline invalidates what was
\* answered from the old text to the tenant of the document; the pipeline of the
\* linear engine has no answer cache to ask.
Ingest(r) ==
    /\ At(r, "ingest")
    /\ LET p == request[r]
       IN \/ \E docs \in SUBSET Docs :
               /\ indexed' = indexed \cup docs
               /\ deleted' = deleted \ docs
               /\ cached' = IF ~orchestrated THEN cached
                            ELSE {e \in cached : \A d \in docs : e \in Invalidated({d}, Owner[d])}
               /\ End(r, p, 200, None)
          \/ \E error \in DOMAIN StatusOf :
               End(r, p, StatusOf[error], None) /\ UNCHANGED world
    /\ UNCHANGED service

\* The linear engine has no documents and no delete: both are a 500 there.
Documents(r) ==
    /\ At(r, "documents")
    /\ \/ orchestrated /\ End(r, request[r], 200, None)
       \/ \E error \in Own : orchestrated /\ End(r, request[r], StatusOf[error], None)
       \/ ~orchestrated /\ End(r, request[r], 500, None)
    /\ UNCHANGED <<service, world>>

\* RAGPipeline.delete (module Removal has its inside) reports the documents
\* deleted, or a store that failed.
Delete(r) ==
    /\ At(r, "delete")
    /\ LET p == request[r]
       IN IF orchestrated
          THEN \/ \E docs \in SUBSET Visible(p.tenant) :
                    /\ indexed' = indexed \ docs
                    /\ deleted' = deleted \cup docs
                    /\ cached' = Invalidated(docs, p.tenant)
                    /\ End(r, p, 200, None)
               \/ End(r, p, 503, None) /\ UNCHANGED world
          ELSE End(r, p, 500, None) /\ UNCHANGED world
    /\ UNCHANGED service

\* evaluate: the dataset is refused, or every case is prepared and dispatched
\* in a context of its own, a case that fails being a line of the report.
Evaluate(r) ==
    /\ At(r, "cases")
    /\ \E status \in {200, 422} : End(r, request[r], status, None)
    /\ UNCHANGED <<service, world>>

\* The server stops waiting for a request at shutdown.  A cancelled call is no
\* Exception: POST /query does not count it, a stream does.
Cancel(r) ==
    /\ request[r].entered /\ ~At(r, "ended")
    /\ End(r, request[r], IF At(r, "deltas") THEN 200 ELSE 0,
           IF At(r, "deltas") THEN "cancelled" ELSE None)
    /\ UNCHANGED <<service, world>>

Step(r) ==
    \/ Arrive(r) \/ Health(r) \/ Refused(r) \/ Read(r) \/ Guard(r) \/ Stage(r) \/ Copy(r)
    \/ Prepare(r) \/ Lookup(r) \/ Engine(r) \/ Linear(r) \/ Caching(r)
    \/ Deadline(r) \/ Stream(r) \/ Ingest(r) \/ Documents(r) \/ Delete(r)
    \/ Evaluate(r) \/ Cancel(r)

Next == Build \/ Close \/ \E r \in Requests : Step(r)

Spec == Init /\ [][Next]_vars

\* A deadline that has passed is acted upon; nothing else is sure to happen.
Fairness == \A r \in Requests : WF_vars(Deadline(r))

-----------------------------------------------------------------------------
(* Properties.                                                             *)

Pipelines == {AutoPipeline, Graph}
EntryType == [tenant : Tenants \cup {None}, pipeline : Pipelines,
              shape : {"engine", "service"}, built : SUBSET Docs]

TypeOK ==
    /\ phase \in {"building", "ready", "failed", "closed"} /\ orchestrated \in BOOLEAN
    /\ indexed \subseteq Docs /\ deleted \subseteq Docs /\ cached \subseteq EntryType
    /\ staging \subseteq Requests
    /\ \A r \in Requests :
         LET p == request[r]
         IN /\ p.kind \in Kinds[r] \cup {"query"} /\ p.principal \in Keys \cup {None}
            /\ {p.asks, p.tenant} \subseteq Tenants \cup {None}
            /\ p.pipeline \in Pipelines /\ p.answer.built \subseteq Docs

\* Every document behind an answer of tenant is its own.
OwnDocs(built, tenant) == tenant # None => \A d \in built : Owner[d] = tenant

\* A credential bound to a tenant is never given an answer computed for
\* another, whatever it asked for, whoever asked before it, and whichever
\* engine or cache the answer came from; nor is anyone under isolation.  Under
\* isolation, besides, what is answered to a tenant and what is cached under one
\* is built from its own documents, whatever the two sides of the cache have
\* passed to each other.  Without it that is not so: an unscoped leg reads the
\* documents of every tenant (docs/security.md says as much).
KeptToTenant ==
    /\ \A r \in Requests :
         LET p == request[r]
         IN /\ p.answer.from # "nobody" =>
                 /\ p.principal \in DOMAIN Bindings => p.answer.from = Bindings[p.principal]
                 /\ isolation => p.answer.from = p.tenant
            /\ isolation => OwnDocs(p.answer.built, p.tenant)
    /\ isolation => \A e \in cached : OwnDocs(e.built, e.tenant)

\* However a request ends, its upload directory is gone, and not before the
\* ingest has read it; a query that entered its route and was not cancelled,
\* and a stream that started, are counted exactly once ("the query counter
\* simply went flat", says _record_outcome of what it prevents).
EndsAreSettled ==
    \A r \in Requests :
        LET p == request[r]
        IN /\ At(r, "ended") => r \notin staging
           /\ At(r, "ingest") /\ p.kind = "upload" => r \in staging
           /\ At(r, "ended") =>
                /\ p.kind = "query" =>
                     Len(p.outcomes) = IF p.entered /\ p.status # 0 THEN 1 ELSE 0
                /\ p.kind = "stream" => Len(p.outcomes) = IF p.status = 200 THEN 1 ELSE 0

\* A query, a listing and a delete that their route let in end, though the
\* engine never answers: server.request_timeout_s is over all of it.
EndsInTime == \A r \in Requests : (request[r].pc \in Waits) ~> At(r, "ended")

\* The delete that reports a document deleted leaves no cached answer built from
\* it, whoever asked for it and by whichever route (docs/operations.md: "the
\* graph nodes and the cached answers built from them").
DeleteUncaches == [][\A e \in cached' : e.built \cap (deleted' \ deleted) = {}]_vars
=============================================================================
