------------------------------ MODULE Searching ------------------------------
(***************************************************************************)
(* One leg of a retrieval: what it is allowed to see (security/tenancy.py),*)
(* the vectors it searches by and the variants it merges                   *)
(* (retrieve/vector.py, sparse.py, hybrid.py), the lexical index in memory *)
(* (bm25.py), generated SQL (sql.py), the web (web.py), and retrievers of  *)
(* another library (adapters/langchain.py).  A text stands for its vector; *)
(* a hit is [id, score, tenant, fields].  What a search comes to is a      *)
(* record [kind, hits], whose kind is "found", or what was raised instead. *)
(***************************************************************************)
EXTENDS Lists

CONSTANTS RrfK, Unit    \* as in Fusion

None == "none"
Hits(list) == [kind |-> "found", hits |-> list]
Refused == [kind |-> "refused", hits |-> <<>>]    \* a guardrail or a spent budget
Outage == [kind |-> "outage", hits |-> <<>>]      \* anything else that a search raises
IsList(result) == result.kind = "found"

Never(a, b) == FALSE
Nought(a) == 0
Nothing(a, b) == 0
F == INSTANCE Fusion WITH Alike <- Never, Relevance <- Nought, Redundancy <- Nothing

FirstGiven(a, b, c) == IF a # None THEN a ELSE IF b # None THEN b ELSE c

----------------------------------------------------------------------------
(* security/tenancy.py.  `security` is [enforced, graph, generated, foreign]; *)
(* a filter maps its keys to the values they must have.                       *)

\* require_tenant and scope_filter: the filter to search with, if any.
ScopeFilter(filters, tenant, security) ==
    IF tenant = None THEN IF security.enforced THEN {} ELSE {filters}
    ELSE IF "tenant_id" \in DOMAIN filters /\ filters["tenant_id"] # tenant THEN {}
    ELSE {("tenant_id" :> tenant) @@ filters}

\* require_graph_tenant_isolation, require_generated_query_isolation and
\* require_foreign_retriever_isolation: legs that cannot show their tenant.
LegRefused(leg, security) ==
    /\ security.enforced
    /\ \/ leg = "graph" /\ security.graph = "reject"
       \/ leg = "generated" /\ security.generated = "reject"
       \/ leg = "foreign" /\ security.foreign = "reject"

\* resolve_filters: the caller's filters over those of the query.
ResolveFilters(query, kw, settings) ==
    ScopeFilter(kw.filters @@ query.filters,
                FirstGiven(kw.tenant, query.tenant, settings.tenant), settings.security)

Passes(hit, filter) ==
    \A key \in DOMAIN filter :
        IF key = "tenant_id" THEN hit.tenant = filter[key]
        ELSE key \in DOMAIN hit.fields /\ hit.fields[key] = filter[key]

----------------------------------------------------------------------------
(* Vectors and variants. *)

\* VectorRetriever.embed_texts: the vector a query came with is that of its
\* first text; so is one made of the hypothetical document of the query.
FirstVector(query, embedder) ==
    IF query.dense # None THEN query.dense
    ELSE IF embedder THEN IF query.hypothetical # None THEN query.hypothetical ELSE query.text
    ELSE None
EmbedTexts(query, texts, embedder) ==
    [i \in DOMAIN texts |-> IF i = 1 THEN FirstVector(query, embedder)
                            ELSE IF embedder THEN texts[i] ELSE None]

\* Query.all_texts.
AllTexts(query) == Greedy(LAMBDA kept, t : t \notin ToSet(kept), <<query.text>> \o query.variants)

\* reciprocal_rank_fusion, of hits: the first copy of a hit stands for all.
HitOf(lists, id) == CHOOSE h \in UNION {ToSet(lists[l]) : l \in DOMAIN lists} : h.id = id
HitsOf(lists, ids) == [i \in DOMAIN ids |-> HitOf(lists, ids[i])]
Fused(lists) == HitsOf(lists, F!Fused("rrf", lists, [l \in DOMAIN lists |-> 1]))

\* One list is kept as it is; more are fused by rank.
Merged(lists, k) ==
    IF lists = <<>> THEN <<>> ELSE IF Len(lists) = 1 THEN Top(lists[1], k) ELSE Top(Fused(lists), k)

HitLists(results) == [i \in DOMAIN results |-> results[i].hits]

\* run_variants: decisions are raised, an outage of some variants is not.
RunVariants(results, came, k) ==
    IF Refused \in ToSet(results) THEN Refused
    ELSE IF results # <<>> /\ came = <<>> THEN Outage
    ELSE Hits(Merged(HitLists(came), k))

\* store.search_dense, for what the store finds by each vector.
Found(result, filter, k) ==
    [result EXCEPT !.hits = Top(SelectSeq(@, LAMBDA h : Passes(h, filter)), k)]

Searched(results, k) == RunVariants(results, SelectSeq(results, IsList), k)

\* VectorRetriever.retrieve: without any vector there is nothing to search by;
\* without an embedder the variants are skipped.
SearchedFor(query, vectors, filter, store, k) ==
    IF vectors[1] = None THEN Outage
    ELSE Searched([i \in DOMAIN vectors |-> Found(store[vectors[i]], filter, k)], k)
WithFilters(query, filters, embedder, store, k) ==
    IF filters = {} THEN Refused
    ELSE SearchedFor(query, SelectSeq(EmbedTexts(query, AllTexts(query), embedder), LAMBDA v : v # None),
                     CHOOSE f \in filters : TRUE, store, k)
Retrieve(query, kw, settings, embedder, store) ==
    WithFilters(query, ResolveFilters(query, kw, settings), embedder, store, kw.topK)

\* What is returned is of the tenant that was resolved and passes every filter.
ResultIsScoped(query, kw, settings, out) ==
    LET asks == {t \in {<<kw.tenant, query.tenant, settings.tenant>>[i] : i \in 1 .. 3} : t # None}
        named == {f["tenant_id"] : f \in {f \in {kw.filters, query.filters} : "tenant_id" \in DOMAIN f}}
    IN  /\ settings.security.enforced /\ asks = {} => out = Refused
        /\ \A h \in ToSet(out.hits) :
             /\ asks # {} => h.tenant \in asks
             /\ Cardinality(named) = 1 => h.tenant \in named
             /\ \A key \in DOMAIN kw.filters \ {"tenant_id"} :
                   key \in DOMAIN h.fields /\ h.fields[key] = kw.filters[key]

\* A variant that is down costs only what it alone would have found; nothing is
\* an empty result but a search that found nothing; nothing comes twice.
ResultDegrades(texts, out, without, store) ==
    /\ \A i, j \in DOMAIN out.hits : out.hits[i].id = out.hits[j].id => i = j
    /\ out = Hits(<<>>) => \E t \in texts : IsList(store[t])
    /\ out = Outage => \A t \in texts : store[t] = Outage
    /\ without # Outage => out = without

WithoutDown(query, store) ==
    [query EXCEPT !.variants = SelectSeq(@, LAMBDA t : store[t] # Outage)]

TextsOf(query) == {FirstVector(query, TRUE)} \cup (ToSet(query.variants) \ {query.text})

\* Whatever the variants, the store and the tenant given at three places: a
\* search is scoped, degrades by the variant, and reports an outage as one.
SearchIsSound(query, kw, settings, store) ==
    /\ ResultIsScoped(query, kw, settings, Retrieve(query, kw, settings, TRUE, store))
    /\ ResolveFilters(query, kw, settings) # {} =>
         ResultDegrades(TextsOf(query), Retrieve(query, kw, settings, TRUE, store),
                        Retrieve(WithoutDown(query, store), kw, settings, TRUE, store), store)

----------------------------------------------------------------------------
(* HybridRetriever._collect and sql.py. *)

\* _collect: the legs that failed, what the others found, and its fusion.
Collected(legs) ==
    [errors |-> {i \in DOMAIN legs : ~IsList(legs[i])},
     candidates |-> Sum([i \in DOMAIN legs |-> Len(legs[i].hits)]),
     fused |-> Merged(HitLists(SelectSeq(legs, LAMBDA l : l.hits # <<>>)), 99)]

\* SQLRetriever.retrieve and label_and_rank: a question that makes no statement,
\* or none that the guard lets through, has no rows; a store that is down is
\* raised.  Every row has the one score that all rows have.
SqlRetrieve(outcome, rows, confidence) ==
    IF outcome = "down" THEN Outage
    ELSE IF outcome # "ran" THEN Hits(<<>>)
    ELSE Hits([i \in DOMAIN rows |-> [rows[i] EXCEPT !.score = confidence]])

LegsAreKept(legs, collected) ==
    /\ UNION {F!Ids(legs[i].hits) : i \in DOMAIN legs} = F!Ids(collected.fused)
    /\ Len(collected.fused) <= collected.candidates
    /\ F!FollowsAgreement([i \in DOMAIN collected.fused |-> collected.fused[i].id],
                          HitLists(SelectSeq(legs, IsList)))

\* A leg that fails, or finds nothing it may show, takes nothing from what the
\* other legs found; and what every leg has before another comes before it, with
\* the rows of a statement, which all score the same, in the order they came.
HybridIsSound(legs, outcome, rows) ==
    LegsAreKept(Append(legs, SqlRetrieve(outcome, rows, 1)),
                Collected(Append(legs, SqlRetrieve(outcome, rows, 1))))

----------------------------------------------------------------------------
(* bm25.py.  A chunk is [id, words, tenant, fields], `words` a bag as a      *)
(* function to counts; scores are whole hundredths.                          *)

DocumentFrequency(chunks, word) == Cardinality({i \in DOMAIN chunks : word \in DOMAIN chunks[i].words})

\* A stand-in for ln(1 + (n - df + 0.5) / (df + 0.5)): it falls with df too.
Idf(n, df) == (100 * (2 * n + 2)) \div (2 * df + 1)

\* _score_matrix, of one variant, with the length of a chunk left out.
Bm25Score(chunks, i, words) ==
    Sum([w \in words \cap DOMAIN chunks[i].words |->
            (Idf(Len(chunks), DocumentFrequency(chunks, w)) * chunks[i].words[w] * 5)
                \div (2 * chunks[i].words[w] + 3)])

\* _mask and _top: among equals at the cut any may be kept.
Masked(chunks, score, filter) == {i \in DOMAIN chunks : score[i] > 0 /\ Passes(chunks[i], filter)}
Tops(score, among, k) ==
    {S \in SUBSET among : /\ Cardinality(S) = Min({k, Cardinality(among)})
                          /\ \A i \in S, j \in among \ S : score[i] >= score[j]}
Bm25(chunks, words, filter, k) ==
    {Ordered(S, LAMBDA i, j : Bm25Score(chunks, i, words) > Bm25Score(chunks, j, words)
                              \/ (Bm25Score(chunks, i, words) = Bm25Score(chunks, j, words) /\ i < j)) :
        S \in Tops([i \in DOMAIN chunks |-> Bm25Score(chunks, i, words)],
                   Masked(chunks, [i \in DOMAIN chunks |-> Bm25Score(chunks, i, words)], filter), k)}

\* add, ensure_index and _build, which reads the list of chunks that it was
\* given and not a copy: chunks that come during a build make it fail, or are in
\* the corpus of an index that does not have them.
IndexStep(s, event) ==
    CASE event = "add" -> [s EXCEPT !.chunks = @ + 1, !.built = FALSE]
      [] event = "ask" -> IF s.built \/ s.building # 0 - 1 THEN s ELSE [s EXCEPT !.building = s.chunks]
      [] event = "done" -> IF s.building = 0 - 1 THEN s
                           ELSE [s EXCEPT !.building = 0 - 1, !.built = TRUE, !.indexed = s.building]
      [] event = "crash" -> IF s.building = s.chunks THEN s ELSE [s EXCEPT !.building = 0 - 1]
Indexed(events) ==
    FoldLeft(IndexStep, [chunks |-> 0, built |-> FALSE, building |-> 0 - 1, indexed |-> 0], events)

Overlapped(events) ==
    \E i, j \in DOMAIN events : i < j /\ events[j] = "add" /\ Indexed(SubSeq(events, 1, j - 1)).building # 0 - 1

IndexIsCurrent(s, overlapped) ==
    /\ s.indexed <= s.chunks
    /\ s.built /\ ~overlapped => s.indexed = s.chunks
    /\ s.building # 0 - 1 => ~s.built

\* An index that was built with no chunk coming meanwhile has them all.
IndexKeeps(events) == IndexIsCurrent(Indexed(events), Overlapped(events))

Often(chunk, word) == IF word \in DOMAIN chunk.words THEN chunk.words[word] ELSE 0
HasMore(c, d, words) == /\ \A w \in words : Often(c, w) >= Often(d, w)
                        /\ \E w \in words : Often(c, w) > Often(d, w)

BestAreFound(chunks, words, filter, k, out) ==
    /\ Len(out) <= k
    /\ \A i \in DOMAIN out : /\ Passes(chunks[out[i]], filter)
                             /\ words \cap DOMAIN chunks[out[i]].words # {}
                             /\ \A j \in 1 .. i - 1 : ~HasMore(chunks[out[i]], chunks[out[j]], words)
    /\ \A c \in DOMAIN chunks \ ToSet(out) : Passes(chunks[c], filter) =>
         /\ \A i \in DOMAIN out : ~HasMore(chunks[c], chunks[out[i]], words)
         /\ Len(out) = k \/ words \cap DOMAIN chunks[c].words = {}

\* A lexical search returns nothing that is filtered out or shares no word with
\* the question, and no chunk before, or in place of, one that has all of its
\* words as often and some of them more often.
LexicalIsSound(chunks, words, filter, k) ==
    \A out \in Bm25(chunks, words, filter, k) : BestAreFound(chunks, words, filter, k, out)

----------------------------------------------------------------------------
(* web.py.  A result is [url, body, title, score], `body` and `title` "text", *)
(* "blank", or "blocked" by the scanner; scores are percentages.               *)

NoScore == 0 - 1000
MinRankScore == 50

\* _to_chunks: no page without an address, without text, or that is blocked.
Shown(results) == SelectSeq(results, LAMBDA r : r.url = "http" /\ r.body = "text")

\* _scores: the provider's, where every result has one, or by rank.
Clipped(score) == Min({Max({score, 0}), 100})
RankScore(n, i) == IF n = 1 THEN 100 ELSE 100 - ((100 - MinRankScore) * (i - 1)) \div (n - 1)
WebScores(kept) ==
    IF kept # <<>> /\ \A i \in DOMAIN kept : kept[i].score # NoScore
    THEN [i \in DOMAIN kept |-> Clipped(kept[i].score)]
    ELSE [i \in DOMAIN kept |-> RankScore(Len(kept), i)]

ToChunks(kept, tenant) ==
    [i \in DOMAIN kept |-> [id |-> kept[i].id, rank |-> i - 1, score |-> WebScores(kept)[i],
                            titled |-> kept[i].title = "text", tenant |-> tenant]]

\* WebSearchRetriever.retrieve: a provider may bring more than was asked for.
WebRetrieve(blank, limit, results, tenant) ==
    IF limit <= 0 \/ blank THEN <<>> ELSE ToChunks(Shown(Top(results, limit)), tenant)

WebResultIsSound(results, limit, tenant, out) ==
    LET given == [id \in {r.id : r \in ToSet(results)} |-> CHOOSE r \in ToSet(results) : r.id = id]
    IN  /\ \A r \in ToSet(Top(results, limit)) :
             r.url = "http" /\ r.body = "text" => \E c \in ToSet(out) : c.id = r.id
        /\ \A c \in ToSet(out) : /\ c.score \in 0 .. 100 /\ c.tenant = tenant
                                  /\ given[c.id].body = "text"
        /\ \A i, j \in DOMAIN out : i < j => out[i].rank < out[j].rank
        /\ (\E c \in ToSet(out) : given[c.id].score = NoScore) =>
             \A i, j \in DOMAIN out : /\ i < j => out[i].score > out[j].score
                                      /\ out[i].score >= MinRankScore

\* A blocked or nameless page takes only itself out of the results, which keep
\* their order; and scores made up from ranks never claim what nobody measured.
WebIsSound(results, limit, tenant) ==
    WebResultIsSound(results, limit, tenant, WebRetrieve(FALSE, limit, results, tenant))

----------------------------------------------------------------------------
(* adapters/langchain.py.  A document is [id, tenant, score, distance, at].    *)

Missing == 0 - 1000

\* _resolve_scores: a score, a distance turned round, or the rank; percentages.
ResolveScore(document, i, n) ==
    IF document.score # Missing THEN document.score
    ELSE IF document.distance # Missing THEN 100 \div (1 + Max({document.distance, 0}))
    ELSE 100 - (100 * (i - 1)) \div n

\* from_langchain_documents.
FromDocuments(documents) ==
    [i \in DOMAIN documents |->
        [id |-> documents[i].id, tenant |-> documents[i].tenant, at |-> documents[i].at,
         score |-> ResolveScore(documents[i], i, Len(documents)), rank |-> i - 1]]

\* to_langchain_documents.
ToDocuments(chunks) ==
    [i \in DOMAIN chunks |-> [id |-> chunks[i].id, tenant |-> chunks[i].tenant, at |-> chunks[i].at,
                              score |-> chunks[i].score, distance |-> Missing]]

\* _scoped: only under "filter", and only for a query that has a tenant.
Scoped(chunks, tenant, security) ==
    IF security.foreign # "filter" \/ tenant = None THEN chunks
    ELSE SelectSeq(chunks, LAMBDA c : c.tenant = tenant)

\* LangChainRetriever.retrieve.
ForeignRetrieve(documents, tenant, security, limit) ==
    IF LegRefused("foreign", security) THEN Refused
    ELSE Hits(Top(Scoped(FromDocuments(documents), tenant, security), limit))

\* _as_query: what was bound when the chain was built gives way to the query's
\* own tenant, and adds to its filters.
AsQuery(query, bound) ==
    [query EXCEPT !.topK = IF bound.topK > 0 THEN bound.topK ELSE @,
                  !.filters = bound.filters @@ @,
                  !.tenant = IF @ = None THEN bound.tenant ELSE @]

\* _retrieve_as_documents: what the wrapped retriever is called with.
Bridged(query, bound) ==
    [query |-> AsQuery(query, bound), filters |-> bound.filters,
     tenant |-> AsQuery(query, bound).tenant]

BridgedSearch(bridged, settings, store) ==
    Retrieve(bridged.query, [filters |-> bridged.filters, tenant |-> bridged.tenant, topK |-> bridged.query.topK],
             settings, TRUE, store)

BridgeIsScoped(query, bound, settings, out) ==
    \A h \in ToSet(out.hits) :
        /\ query.tenant # None => h.tenant = query.tenant
        /\ query.tenant = None /\ bound.tenant # None => h.tenant = bound.tenant
        /\ \A key \in DOMAIN bound.filters \cap {"f"} : key \in DOMAIN h.fields /\ h.fields[key] = bound.filters[key]

\* What a chain was built with narrows what a query may see and never widens it:
\* the tenant of the query outranks the one that was bound, and no filter is lost.
BridgeIsSound(query, bound, settings, store) ==
    BridgeIsScoped(query, bound, settings, BridgedSearch(Bridged(query, bound), settings, store))

ForeignIsScoped(documents, tenant, security, limit, out) ==
    /\ security.enforced /\ security.foreign = "reject" => out = Refused
    /\ IsList(out) =>
         /\ Len(out.hits) <= limit
         /\ security.foreign = "filter" /\ tenant # None =>
              /\ \A h \in ToSet(out.hits) : h.tenant = tenant
              /\ Len(out.hits) = Min({limit, Cardinality({i \in DOMAIN documents : documents[i].tenant = tenant})})
         /\ \A i, j \in DOMAIN out.hits : i < j => out.hits[i].rank < out.hits[j].rank

NearerIsHigher(documents, chunks) ==
    \A i, j \in DOMAIN documents :
        /\ documents[i].score = Missing /\ documents[j].score = Missing =>
             /\ documents[i].distance # Missing /\ documents[j].distance # Missing
                  /\ documents[i].distance < documents[j].distance => chunks[i].score >= chunks[j].score
             /\ documents[i].distance = Missing /\ documents[j].distance = Missing /\ i < j =>
                  chunks[i].score >= chunks[j].score

\* A leg of another library shows a tenant only what is declared as that
\* tenant's, however many other documents come before it; its distances order
\* its hits as a score would; and what goes through it and back is unchanged.
ForeignIsSound(documents, tenant, security, limit) ==
    /\ ForeignIsScoped(documents, tenant, security, limit,
                       ForeignRetrieve(documents, tenant, security, limit))
    /\ NearerIsHigher(documents, FromDocuments(documents))
    /\ FromDocuments(ToDocuments(FromDocuments(documents))) = FromDocuments(documents)
=============================================================================
