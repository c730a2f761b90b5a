----------------------------- MODULE GraphSearch -----------------------------
(***************************************************************************)
(* Search over the entity graph: retrieve/graph.py reads the neighbourhood *)
(* of what a question names (local), the summaries of communities (global), *)
(* or both halves of a vector search (DRIFT); retrieve/multihop.py follows  *)
(* paths between the entities of a question, or asks on, hop by hop.        *)
(*                                                                         *)
(* Weights and scores are integers in units of 1/Unit; the decay of a hop  *)
(* is a half.  What the stores and the model answer are inputs.             *)
(***************************************************************************)
EXTENDS Lists

CONSTANTS Unit,        \* a multiple of every denominator that occurs
          Faint,       \* the least weight of a seed
          Oversample,  \* _CHUNK_OVERSAMPLE
          BeamWidth,   \* multihop_beam_width
          MaxHops,     \* multihop_max_iterations
          PerHop,      \* _PATH_EVIDENCE_MULTIPLIER
          Norm(_)      \* a text without its case and spacing

Largest(S) == IF S = {} THEN 0 ELSE Max(S)

\* `max_scale`: the largest becomes one, and ratios stay.
Scaled(values, v) == IF Largest(values) > 0 THEN (Unit * v) \div Largest(values) ELSE 0

Has(f, x) == IF x \in DOMAIN f THEN f[x] ELSE 0
Put(f, x, v) == [y \in DOMAIN f \cup {x} |-> IF y = x THEN v ELSE f[y]]

SeedWeights(seeds) ==
    LET scores == {seeds[i].score : i \in DOMAIN seeds}
        Latest(n) == Max({i \in DOMAIN seeds : seeds[i].name = n})
    IN  [n \in {seeds[i].name : i \in DOMAIN seeds} |->
            Max({Faint, Scaled(scores, seeds[Latest(n)].score)})]

Neighbours(relations, n) ==
    {relations[i].target : i \in {j \in DOMAIN relations : relations[j].source = n}}
    \cup {relations[i].source : i \in {j \in DOMAIN relations : relations[j].target = n}}

Orders(S) == {f \in [1 .. Cardinality(S) -> S] : \A i, j \in DOMAIN f : f[i] = f[j] => i = j}

\* One node of the frontier hands half of its weight to neighbours with less.
Spread(relations, at, node) ==
    LET half == Has(at.weights, node) \div 2
        gains == {n \in Neighbours(relations, node) : half > Has(at.weights, n)}
    IN  [weights |-> [n \in DOMAIN at.weights \cup gains |-> IF n \in gains THEN half ELSE at.weights[n]],
         next |-> at.next \cup gains]

\* `_propagate`: the frontier is a set and the weights change under the walk, so
\* each of its orders is an outcome.
Propagations(seedWeights, relations, hops) ==
    LET Round(at) == {FoldLeft(LAMBDA a, n : Spread(relations, a, n),
                               [weights |-> at.weights, next |-> {}], order) : order \in Orders(at.next)}
        outcomes == FoldLeft(LAMBDA all, hop : UNION {Round(at) : at \in all},
                             {[weights |-> seedWeights, next |-> DOMAIN seedWeights]},
                             [h \in 1 .. hops |-> h])
    IN  {at.weights : at \in outcomes}

\* The entities by name: a seed's own record before its neighbour's.
ByName(seeds, neighbours) ==
    LET all == seeds \o neighbours
    IN  [n \in {all[i].name : i \in DOMAIN all} |->
            all[Min({i \in DOMAIN all : all[i].name = n})].chunks]

Endpoint(weights, r) == Max({Has(weights, r.source), Has(weights, r.target)})

\* The best entity of a chunk; without one, the first edge that names it.
EntitySignal(entities, relations, weights, cid) ==
    LET named == {n \in DOMAIN entities : cid \in entities[n] /\ Has(weights, n) > 0}
        edges == {i \in DOMAIN relations : cid \in relations[i].chunks /\ Endpoint(weights, relations[i]) > 0}
    IN  IF named # {} THEN Max({weights[n] : n \in named})
        ELSE IF edges # {} THEN Endpoint(weights, relations[Min(edges)]) \div 2 ELSE 0

RelationSignal(relations, weights, cid) ==
    Sum([i \in DOMAIN relations |->
            IF cid \in relations[i].chunks THEN relations[i].weight * Endpoint(weights, relations[i]) ELSE 0])

\* `_candidates`, in the order of their signals and no more than can be ranked.
Candidates(entities, relations, weights, limit) ==
    LET ids == UNION {entities[n] : n \in DOMAIN entities}
               \cup UNION {relations[i].chunks : i \in DOMAIN relations}
        signalled == [c \in ids |-> [id |-> c, entity |-> EntitySignal(entities, relations, weights, c),
                                     relation |-> RelationSignal(relations, weights, c)]]
        Before(c, d) == \/ c.entity > d.entity
                        \/ c.entity = d.entity /\ c.relation > d.relation
                        \/ c.entity = d.entity /\ c.relation = d.relation /\ c.id < d.id
    IN  Top(Ordered({signalled[c] : c \in {x \in ids : signalled[x].entity > 0}}, Before),
            Max({limit, 1}) * Oversample)

\* `_rank`: similarity takes part when every body has its vector and the query
\* has one; the weights 8, 5 and 7 are then divided by what takes part.
LocalRank(candidates, bodies, queryVector, limit) ==
    LET found == SelectSeq(candidates, LAMBDA c : c.id \in DOMAIN bodies)
        all == ToSet(found)
        similar == queryVector /\ \A c \in all : bodies[c.id].vector
        Blend(c) == 8 * Scaled({x.entity : x \in all}, c.entity) + 5 * Scaled({x.relation : x \in all}, c.relation)
                    + (IF similar THEN 7 * Scaled({bodies[x.id].similarity : x \in all}, bodies[c.id].similarity)
                       ELSE 0)
        ranked == ByKey(found, Blend)
    IN  Top([i \in DOMAIN ranked |->
                [id |-> ranked[i].id, score |-> (260 * Blend(ranked[i])) \div (IF similar THEN 20 ELSE 13)]],
            limit)

\* What the graph gives; a store that is down gives nothing.
Related(store) == IF store.graph = "down" THEN <<>> ELSE store.relations
Around(seeds, store) == ByName(seeds, IF store.graph = "down" THEN <<>> ELSE store.entities)

Bodies(store) == IF store.chunks \in {"down", "none"} THEN <<>> ELSE store.bodies

Degraded(store, candidates) ==
    {p \in {"neighbors", "chunk_store", "no_chunk_store", "query_embedding", "no_query_embedder"} :
        \/ p = "neighbors" /\ store.graph = "down"
        \/ p = "chunk_store" /\ store.chunks = "down" /\ candidates # <<>>
        \/ p = "no_chunk_store" /\ store.chunks = "none" /\ candidates # <<>>
        \/ p = "query_embedding" /\ store.query = "fails"
        \/ p = "no_query_embedder" /\ store.query = "none" /\ Bodies(store) # <<>>}

\* `expand`: the passages, under the picture of the neighbourhood, which is worth
\* as much as the best of them.
Pictured(scored) ==
    LET worth == IF scored = <<>> THEN 260 * Unit ELSE Max({scored[i].score : i \in DOMAIN scored})
    IN  <<[id |-> 0, score |-> worth]>> \o scored
Expanded(store, entities, candidates, limit) ==
    LET scored == LocalRank(candidates, Bodies(store), store.query \in {"given", "embedded"}, limit)
    IN  [chunks |-> IF DOMAIN entities = {} /\ Related(store) = <<>> THEN scored ELSE Pictured(scored),
         candidates |-> candidates, degraded |-> Degraded(store, candidates)]
LocalSearch(seeds, store, weights, limit) ==
    LET entities == Around(seeds, store)
    IN  Expanded(store, entities, Candidates(entities, Related(store), weights, limit), limit)

Weights(seeds, store, hops) ==
    Propagations(SeedWeights(seeds), Related(store), hops)

\* The weight of a walk of so many steps from the best seed, as if all of a round
\* happened at once.
Within(seedWeights, relations, hops) ==
    FoldLeft(LAMBDA w, h :
                [n \in DOMAIN w \cup UNION {Neighbours(relations, m) : m \in DOMAIN w} |->
                    Max({Has(w, n)} \cup {Has(w, m) \div 2 : m \in Neighbours(relations, n)})],
             seedWeights, [h \in 1 .. hops |-> h])

WalkIsBounded(weights, least, most) ==
    \A n \in DOMAIN most : Has(weights, n) >= Has(least, n) /\ Has(weights, n) <= most[n]

Signals(candidates, id) == CHOOSE c \in ToSet(candidates) : c.id = id
NoneBehind(store, candidates, ids, entities, weights) ==
    \A better \in DOMAIN store.bodies : \A worse \in ids :
        (/\ EntitySignal(entities, Related(store), weights, better) > Signals(candidates, worse).entity
         /\ RelationSignal(Related(store), weights, better) > Signals(candidates, worse).relation
         /\ store.bodies[better].similarity > store.bodies[worse].similarity) => better \in ids

FoundIsSound(seeds, store, weights, limit, search, ids) ==
    /\ \A i, j \in DOMAIN search.chunks : i < j => search.chunks[i].score >= search.chunks[j].score
    /\ Len(search.chunks) <= limit + 1
    /\ ids \subseteq DOMAIN store.bodies
    /\ store.chunks = "up" => NoneBehind(store, search.candidates, ids, Around(seeds, store), weights)
    /\ store.graph = "up" /\ store.chunks = "up" /\ store.query = "given" => search.degraded = {}
    /\ store.graph = "down" => \A id \in ids : \E i \in DOMAIN seeds : id \in seeds[i].chunks

SearchIsSound(seeds, store, weights, limit, search) ==
    FoundIsSound(seeds, store, weights, limit, search,
                 {search.chunks[i].id : i \in DOMAIN search.chunks} \ {0})

\* In every order of the walk a weight is at least that of the best path within
\* the hops and at most that of the best path of any length; no passage is left
\* out for one that is behind it in every signal; and what was down takes only
\* its own part away.
LocalSearchIsSound(seeds, store, hops, limit) ==
    \A weights \in Weights(seeds, store, hops) :
       /\ WalkIsBounded(weights, Within(SeedWeights(seeds), Related(store), hops),
                                 Within(SeedWeights(seeds), Related(store), 6))
       /\ SearchIsSound(seeds, store, weights, limit, LocalSearch(seeds, store, weights, limit))

\* Global search: every community that has a summary is asked, up to the cap; an
\* answer without substance is dropped but paid for.
Asked(communities, cap) == Top(SelectSeq(Top(communities, cap), LAMBDA c : c.summary), cap)
Partials(communities, cap, limit) ==
    Top(ByKey(SelectSeq(Asked(communities, cap), LAMBDA c : c.answer = "text" /\ c.score > 0),
              LAMBDA c : c.score), limit)
MapSpent(communities, cap) == Len(SelectSeq(Asked(communities, cap), LAMBDA c : c.answer # "fails"))

\* DRIFT: the entities whose chunks the vector search found, or the best matches
\* at a discount; a graph that is down has none.
SeedEntities(hits, seeds, keep) ==
    LET ids == {seeds[i].id : i \in DOMAIN seeds}
        confirmed == SelectSeq(hits, LAMBDA h : h.chunks \cap ids # {})
    IN  IF confirmed # <<>> THEN confirmed
        ELSE LET best == Top(hits, Max({1, keep}))
             IN  [i \in DOMAIN best |-> [best[i] EXCEPT !.score = (@ * 3) \div 5]]

\* `_merge`: 9 and 11 parts of 20 of each half's own scale; found by both adds up.
DriftMerge(seeds, hits, limit) ==
    LET Half(list, parts, id) ==
            LET at == {i \in DOMAIN list : list[i].id = id}
            IN  IF at = {} THEN 0
                ELSE parts * Scaled({list[i].score : i \in DOMAIN list}, list[Max(at)].score)
        ids == Greedy(LAMBDA kept, id : id \notin ToSet(kept),
                      [i \in DOMAIN seeds |-> seeds[i].id] \o [i \in DOMAIN hits |-> hits[i].id])
        merged == [i \in DOMAIN ids |-> [id |-> ids[i], score |-> Half(seeds, 9, ids[i]) + Half(hits, 11, ids[i])]]
    IN  Top(ByKey(merged, LAMBDA c : c.score), limit)

Place(list, id) == CHOOSE i \in DOMAIN list : list[i].id = id
IdsOf(list) == {list[i].id : i \in DOMAIN list}

MergeIsSound(seeds, graphHits, merged) ==
    /\ graphHits = <<>> => [i \in DOMAIN merged |-> merged[i].id]
                            = [i \in DOMAIN merged |-> ByKey(seeds, LAMBDA s : s.score)[i].id]
    /\ \A id, other \in IdsOf(seeds) \cap IdsOf(graphHits) :
          (/\ seeds[Place(seeds, id)].score > seeds[Place(seeds, other)].score
           /\ graphHits[Place(graphHits, id)].score > graphHits[Place(graphHits, other)].score
           /\ other \in IdsOf(merged)) =>
             id \in IdsOf(merged) /\ Place(merged, id) < Place(merged, other)
    /\ \A id \in IdsOf(seeds) \ IdsOf(graphHits), both \in IdsOf(seeds) \cap IdsOf(graphHits) :
          seeds[Place(seeds, both)].score >= seeds[Place(seeds, id)].score /\ id \in IdsOf(merged)
            => both \in IdsOf(merged)

ConfirmedOrNot(hits, seeds, entities) ==
    /\ (hits # <<>>) => (entities # <<>>)
    /\ \A e \in ToSet(entities) : \/ e \in ToSet(hits) /\ e.chunks \cap IdsOf(seeds) # {}
                                  \/ \A h \in ToSet(hits) : h.chunks \cap IdsOf(seeds) = {}

PartialsAreBest(communities, cap, partials) ==
    /\ Len(partials) <= MapSpent(communities, cap)
    /\ partials # <<>> => \A c \in ToSet(Asked(communities, cap)) :
          c.answer = "text" => partials[1].score >= c.score

\* A half that is empty leaves the order of the other; agreement is never turned
\* around; the entities are all confirmed or all discounted; the map's bill is
\* that of every answer, and its best answer is first.
WideSearchIsSound(communities, cap, limit, hits, seeds, graphHits) ==
    /\ MergeIsSound(seeds, graphHits, DriftMerge(seeds, graphHits, limit))
    /\ ConfirmedOrNot(hits, seeds, SeedEntities(hits, seeds, 1))
    /\ PartialsAreBest(communities, cap, Partials(communities, cap, limit))

\* `_absorb`: a chunk keeps the hop that found it first, and its best score.
Absorb(gathered, hits, hop) ==
    FoldLeft(LAMBDA g, hit :
                IF hit.id \in DOMAIN g
                THEN Put(g, hit.id, [g[hit.id] EXCEPT !.score = Max({@, hit.score})])
                ELSE Put(g, hit.id, [id |-> hit.id, score |-> hit.score, hop |-> hop]),
             gathered, hits)

\* One hop of the iteration: search, and ask whether that is enough.
Check(at, hop, turn, found) ==
    LET asked == [at EXCEPT !.history = Append(@, at.current), !.gathered = found]
        Stop(reason, paid) == [asked EXCEPT !.stopped = reason, !.usage = @ + paid]
    IN  CASE hop = MaxHops -> Stop("max_iterations", 0)
          [] turn.check = "fails" -> Stop("check_failed", 0)
          [] turn.check = "enough" -> Stop("sufficient", 1)
          [] turn.check = "nothing" -> Stop("no_follow_up", 1)
          [] turn.check = "more" /\ \E old \in ToSet(asked.history) : Norm(old) = Norm(turn.follow)
                -> Stop("repeat_query", 1)
          [] OTHER -> [asked EXCEPT !.gathered = Absorb(found, turn.expanded, hop),
                                    !.current = turn.follow, !.usage = @ + 1]
Hop(at, hop, turn) ==
    IF at.stopped # "no" THEN at ELSE Check(at, hop, turn, Absorb(at.gathered, turn.hits, hop))

Iterate(question, turns) ==
    FoldLeft(LAMBDA at, hop : Hop(at, hop, turns[hop]),
             [gathered |-> <<>>, history |-> <<>>, current |-> question, usage |-> 0, stopped |-> "no"],
             [h \in 1 .. MaxHops |-> h])

\* `_select`: one chunk of every hop in turn, and the whole by score.
Select(gathered, limit) ==
    LET hops == {gathered[id].hop : id \in DOMAIN gathered}
        Bucket(h) == Ordered({gathered[id] : id \in {x \in DOMAIN gathered : gathered[x].hop = h}},
                             LAMBDA c, d : c.score > d.score \/ (c.score = d.score /\ c.id < d.id))
        Turn(c) == CHOOSE i \in DOMAIN Bucket(c.hop) : Bucket(c.hop)[i] = c
        dealt == Ordered({gathered[id] : id \in DOMAIN gathered},
                         LAMBDA c, d : Turn(c) < Turn(d) \/ (Turn(c) = Turn(d) /\ c.hop < d.hop))
    IN  ByKey(Top(dealt, limit), LAMBDA c : c.score)

PickedIsSound(gathered, limit, picked, hops) ==
    /\ Len(picked) = Min({limit, Cardinality(DOMAIN gathered)})
    /\ Cardinality(hops) <= limit => \A h \in hops : \E c \in ToSet(picked) : c.hop = h
    /\ \A id \in DOMAIN gathered : picked # <<>> => picked[1].score >= gathered[id].score

EndIsSound(limit, end) ==
    /\ end.stopped # "no"
    /\ \A i, j \in DOMAIN end.history : Norm(end.history[i]) = Norm(end.history[j]) => i = j
    /\ end.usage \in {Len(end.history) - 1, Len(end.history)}
    /\ PickedIsSound(end.gathered, limit, Select(end.gathered, limit),
                     {end.gathered[id].hop : id \in DOMAIN end.gathered})

\* No question is asked twice; each hop but the last was paid for unless its
\* check failed; and every hop that found something new is heard before any hop
\* is heard twice.
IterationIsSound(question, turns, limit) == EndIsSound(limit, Iterate(question, turns))

\* `question_entities`: the matches near the best, one of each name.
QuestionEntities(hits) ==
    LET floor == (35 * Largest({hits[i].score : i \in DOMAIN hits})) \div 100
    IN  Top(Greedy(LAMBDA kept, h : /\ h.name # 0 /\ h.score >= floor
                                    /\ \A k \in ToSet(kept) : k.name # h.name, hits),
            Max({2, BeamWidth}))

PathScore(path) == (Unit * path.weight) \div Max({path.hops, 1})

Cited(p) == Top(p.chunks, PerHop * Max({p.hops, 1}))
Share(best, p) == IF best > 0 THEN (Unit * PathScore(p)) \div best ELSE 0

\* A passage is worth the best path that cites it, if that is worth anything.
Evidence(ranked, best) ==
    LET worth == {j \in DOMAIN ranked : Share(best, ranked[j]) > 0}
    IN  [id \in UNION {ToSet(Cited(ranked[i])) : i \in worth} |->
            Max({Share(best, ranked[i]) : i \in {j \in worth : id \in ToSet(Cited(ranked[j]))}})]

\* The paths of the beam, and the passages that their edges cite.
BridgesOf(ranked, best, evidence, bodies, limit) ==
    LET wanted == Top(Ordered(DOMAIN evidence, LAMBDA a, b : evidence[a] > evidence[b] \/ (evidence[a] = evidence[b] /\ a < b)),
                      Max({limit, 1}))
        read == SelectSeq(wanted, LAMBDA id : id \in bodies)
        out == [i \in DOMAIN ranked |-> [path |-> TRUE, score |-> Share(best, ranked[i]), id |-> i]]
               \o [i \in DOMAIN read |-> [path |-> FALSE, score |-> evidence[read[i]], id |-> read[i]]]
    IN  Top(out, Max({limit, Len(ranked)}))
BridgesRanked(ranked, best, bodies, limit) == BridgesOf(ranked, best, Evidence(ranked, best), bodies, limit)
BridgeSearch(paths, bodies, limit) ==
    BridgesRanked(Top(ByKey(paths, PathScore), Max({1, BeamWidth})),
                  Largest({PathScore(paths[i]) : i \in DOMAIN paths}), bodies, limit)

\* `MultiHopRetriever`: two named entities are a bridge; without a path, or with
\* fewer, the question is walked.
Route(lookup, hits, paths) ==
    LET seeds == IF lookup = "down" THEN <<>> ELSE QuestionEntities(hits)
    IN  IF Len(seeds) < 2 THEN "iterative" ELSE IF paths = <<>> THEN "iterative_after_no_path" ELSE "bridge"

FoundBridges(paths, bodies, out) ==
    /\ paths # <<>> => Len(SelectSeq(out, LAMBDA c : c.path)) = Min({Len(paths), Max({1, BeamWidth})})
    /\ \A c \in ToSet(out) : ~c.path =>
          /\ c.id \in bodies
          /\ \E p \in DOMAIN paths : c.id \in ToSet(paths[p].chunks)
          /\ c.score <= Unit
ShorterFirst(ranked) ==
    \A i, j \in DOMAIN ranked : i < j =>
       ~(ranked[j].weight >= ranked[i].weight /\ ranked[j].hops < ranked[i].hops /\ ranked[j].weight > 0)
RouteIsSound(lookup, hits, route) ==
    /\ route = "bridge" =>
          \E h, k \in DOMAIN hits : hits[h].name # hits[k].name /\ hits[h].name # 0 /\ hits[k].name # 0
    /\ lookup = "down" => route = "iterative"
\* A shorter path of the same weight is never behind; every path of the beam is
\* returned whatever the limit; a passage is as good as the best path that cites
\* it; and a bridge is sought only between two entities that match well.
BridgesAreSound(lookup, hits, paths, bodies, limit) ==
    /\ ShorterFirst(ByKey(paths, PathScore))
    /\ FoundBridges(paths, bodies, BridgeSearch(paths, bodies, limit))
    /\ RouteIsSound(lookup, hits, Route(lookup, hits, paths))
=============================================================================
