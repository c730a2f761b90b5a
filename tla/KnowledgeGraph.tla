--------------------------- MODULE KnowledgeGraph ---------------------------
(***************************************************************************)
(* How the entity graph comes about: what is extracted from each chunk     *)
(* (index/graph/extract.py), the hierarchy of communities over what was    *)
(* resolved (community.py), and the reports written about them, from the   *)
(* deepest level up (summarize.py).  A name is a value with a Key that     *)
(* folds its case and a Length; a description is a set of statements.      *)
(***************************************************************************)
EXTENDS Lists

CONSTANTS NoName,
          Key(_), Length(_),    \* of a name
          Types, FallbackType,  \* entity_types and the type of an unknown one
          PartsOf(_),           \* the parts an algorithm finds of a set of nodes
          MaxLevels, MinSize    \* max_community_levels, min_community_size

----------------------------------------------------------------------------
(* extract.py.  The answer of a pass is [fails, entities, relations], its    *)
(* entities [name, type, says] and its relations [source, target, weight].   *)

Nothing == [entities |-> <<>>, relations |-> <<>>, unknown |-> 0]

CoerceType(type) == IF type \in Types \/ Types = {} THEN type ELSE FallbackType

\* _absorb: of two spellings the longer is shown, and the first type stays.
AddEntity(found, e) ==
    IF e.name = NoName THEN found
    ELSE IF Key(e.name) \in DOMAIN found.entities
    THEN [found EXCEPT !.unknown = @ + (IF CoerceType(e.type) = e.type THEN 0 ELSE 1),
                       !.entities[Key(e.name)].name = IF Length(e.name) > Length(@) THEN e.name ELSE @,
                       !.entities[Key(e.name)].says = @ \cup e.says]
    ELSE [found EXCEPT !.unknown = @ + (IF CoerceType(e.type) = e.type THEN 0 ELSE 1),
                       !.entities = (Key(e.name) :> [name |-> e.name, type |-> CoerceType(e.type), says |-> e.says]) @@ @]

\* A relation of a name to itself, or to none, is not one; the heaviest counts.
AddRelation(found, r) ==
    IF r.source = NoName \/ r.target = NoName \/ Key(r.source) = Key(r.target) THEN found
    ELSE IF <<Key(r.source), Key(r.target)>> \in DOMAIN found.relations
    THEN [found EXCEPT !.relations[<<Key(r.source), Key(r.target)>>] = Max({@, r.weight})]
    ELSE [found EXCEPT !.relations = (<<Key(r.source), Key(r.target)>> :> r.weight) @@ @]

Absorb(found, answer) ==
    FoldLeft(AddRelation, FoldLeft(AddEntity, found, answer.entities), answer.relations)

Size(found) == Cardinality(DOMAIN found.entities) + Cardinality(DOMAIN found.relations)

\* A gleaning pass: one that fails, or finds nothing new, is the last.
Gleaned(s, answer) ==
    IF s.over THEN s
    ELSE IF answer.fails THEN [s EXCEPT !.over = TRUE, !.failures = @ + 1]
    ELSE [s EXCEPT !.found = Absorb(@, answer), !.calls = @ + 1,
                   !.over = Size(Absorb(s.found, answer)) = Size(s.found)]

\* _prune_dangling: both ends are entities of the chunk, by the names shown.
Pruned(found) ==
    [ends \in {e \in DOMAIN found.relations : {e[1], e[2]} \subseteq DOMAIN found.entities} |->
        [source |-> found.entities[ends[1]].name, target |-> found.entities[ends[2]].name,
         weight |-> found.relations[ends]]]

\* _extract_chunk, of one answer and of those to so many gleanings.
Passes(answers, maxGleanings) ==
    FoldLeft(Gleaned, [found |-> Absorb(Nothing, answers[1]), calls |-> 1, failures |-> 0, over |-> FALSE],
             Top(Tail(answers), maxGleanings))
Outcome(s) == [failed |-> FALSE, entities |-> s.found.entities, relations |-> Pruned(s.found),
               dangling |-> Cardinality(DOMAIN s.found.relations) - Cardinality(DOMAIN Pruned(s.found)),
               calls |-> s.calls, gleaningFailures |-> s.failures]
ExtractChunk(answers, maxGleanings) ==
    IF answers[1].fails
    THEN [failed |-> TRUE, entities |-> <<>>, relations |-> <<>>, dangling |-> 0, calls |-> 0, gleaningFailures |-> 0]
    ELSE Outcome(Passes(answers, maxGleanings))

\* EntityExtractor.extract: a chunk that fails is counted and passed over.
Counted(outcomes) ==
    [failed |-> Cardinality({c \in DOMAIN outcomes : outcomes[c].failed}),
     mentions |-> SelectSeq(outcomes, LAMBDA o : ~o.failed)]
Extract(chunks, maxGleanings) ==
    Counted([c \in DOMAIN chunks |-> ExtractChunk(chunks[c], maxGleanings)])

Mentioned(answers) == {e \in UNION {ToSet(answers[i].entities) : i \in DOMAIN answers} : e.name # NoName}

NothingDangles(answers, heard, out) ==
    /\ DOMAIN out.entities = {Key(e.name) : e \in Mentioned(heard)}
    /\ \A k \in DOMAIN out.entities :
         LET same == {e \in Mentioned(heard) : Key(e.name) = k}
         IN  /\ out.entities[k].says = UNION {e.says : e \in same}
             /\ \A e \in same : Length(out.entities[k].name) >= Length(e.name)
             /\ Types # {} => out.entities[k].type \in Types \cup {FallbackType}
    /\ \A ends \in DOMAIN out.relations :
         /\ \E k \in DOMAIN out.entities : out.relations[ends].source = out.entities[k].name
         /\ \E k \in DOMAIN out.entities : out.relations[ends].target = out.entities[k].name
         /\ out.relations[ends].source # out.relations[ends].target

ChunkIsHeard(answers, maxGleanings, out) ==
    /\ out.calls <= 1 + maxGleanings /\ out.gleaningFailures <= 1
    /\ NothingDangles(answers, SubSeq(answers, 1, out.calls), out)

MentionsAreKept(chunks, whole, without) ==
    whole.failed + Len(whole.mentions) = Len(chunks) /\ whole.mentions = without.mentions

\* What was extracted by any pass stays: its entities are there under their
\* longest name with all that was said of them, no relation points at a name that
\* is not there, a pass that fails takes nothing with it, and a chunk that fails
\* takes only its own.
ExtractionIsSound(chunks, maxGleanings) ==
    /\ MentionsAreKept(chunks, Extract(chunks, maxGleanings),
                       Extract(SelectSeq(chunks, LAMBDA c : ~c[1].fails), maxGleanings))
    /\ \A c \in DOMAIN chunks :
         chunks[c][1].fails \/ ChunkIsHeard(chunks[c], maxGleanings, ExtractChunk(chunks[c], maxGleanings))

----------------------------------------------------------------------------
(* community.py.  A node is a number; a relation [source, target, weight],   *)
(* its ends 0 where no node has that name; a community                       *)
(* [level, members, parent, keys, weight, rank] with <<level, members>> as   *)
(* its identity, which is what community_id hashes.                          *)

Id(community) == <<community.level, community.members>>
Root == <<>>

\* _WeightedGraph: an edge has every relation between its ends, either way; one
\* with an unknown end, or of a node with itself, is no edge.
IsEdge(r) == r.source # 0 /\ r.target # 0 /\ r.source # r.target
Within(relations, members) ==
    {k \in DOMAIN relations : IsEdge(relations[k]) /\ {relations[k].source, relations[k].target} \subseteq members}
Weight(relations, keys) == Sum([k \in keys |-> Max({relations[k].weight, 0})])

Found(relations, part, level, parent) ==
    [level |-> level, members |-> part, parent |-> parent, keys |-> Within(relations, part),
     weight |-> Weight(relations, Within(relations, part)), rank |-> 0]

\* One entry of the queue: below the top, one part only divides nothing.
Divided(item, level) == IF level > 0 /\ Len(PartsOf(item.members)) <= 1 THEN <<>> ELSE PartsOf(item.members)
Kept(parts) == SelectSeq(parts, LAMBDA p : Cardinality(p) >= MinSize)
AllFound(relations, parts, level, parent) ==
    [n \in DOMAIN parts |-> Found(relations, parts[n], level, parent)]
FoundIn(relations, item, level) == AllFound(relations, Kept(Divided(item, level)), level, item.id)

Queued(found, level) ==
    IF level + 1 >= MaxLevels THEN <<>>
    ELSE LET worth == SelectSeq(found, LAMBDA c : Cardinality(c.members) >= 2 * MinSize)
         IN  [n \in DOMAIN worth |-> [members |-> worth[n].members, id |-> Id(worth[n])]]

\* One level of the queue, which is first in, first out.
Dropped(parts) == Len(parts) - Len(Kept(parts))
With(s, found, level) ==
    [queue |-> Queued(found, level), communities |-> s.communities \o found,
     dropped |-> s.dropped + Sum([q \in DOMAIN s.queue |-> Dropped(Divided(s.queue[q], level))])]
Divide(s, relations, level) ==
    With(s, FlattenSeq([q \in DOMAIN s.queue |-> FoundIn(relations, s.queue[q], level)]), level)

\* _scale and _assign_ranks, in percent and without the logarithms, which change
\* no order: sizes and inner weights, each from the least to the greatest.
Scale(values, v) ==
    IF Max(values) = Min(values) THEN 100 ELSE (100 * (v - Min(values))) \div (Max(values) - Min(values))
Ranked(communities) ==
    [c \in DOMAIN communities |->
        [communities[c] EXCEPT !.rank =
            (Scale({Cardinality(communities[d].members) : d \in DOMAIN communities}, Cardinality(communities[c].members))
               + Scale({communities[d].weight : d \in DOMAIN communities}, communities[c].weight)) \div 2]]

\* CommunityDetector.detect.
Detected(relations, nodes) ==
    FoldLeft(LAMBDA s, level : Divide(s, relations, level),
             [queue |-> <<[members |-> nodes, id |-> Root]>>, communities |-> <<>>, dropped |-> 0],
             [n \in 1 .. MaxLevels |-> n - 1])
Judged(s) == [communities |-> Ranked(s.communities), dropped |-> s.dropped]
Detect(relations, nodes) ==
    IF nodes = {} \/ \A k \in DOMAIN relations : ~IsEdge(relations[k])
    THEN [communities |-> <<>>, dropped |-> 0]
    ELSE Judged(Detected(relations, nodes))

IsTree(found) ==
    \A c, d \in DOMAIN found :
        /\ found[c].level = found[d].level /\ c # d => found[c].members \cap found[d].members = {}
        /\ found[d].level < found[c].level => (found[c].members \subseteq found[d].members
                                                 \/ found[c].members \cap found[d].members = {})
        /\ found[c].parent = Id(found[d]) => /\ found[c].level = found[d].level + 1
                                             /\ found[c].members \subseteq found[d].members /\ found[c].members # found[d].members
                                             /\ found[c].keys \subseteq found[d].keys
        /\ Cardinality(found[c].members) > Cardinality(found[d].members) /\ found[c].weight >= found[d].weight
             => found[c].rank >= found[d].rank

IsBounded(found) ==
    \A c \in DOMAIN found :
        /\ found[c].level < MaxLevels /\ Cardinality(found[c].members) >= MinSize
        /\ (found[c].parent = Root) = (found[c].level = 0)
        /\ found[c].level > 0 => \E d \in 1 .. c - 1 : Id(found[d]) = found[c].parent
        /\ found[c].rank \in 0 .. 100

Covers(found, dropped, nodes) ==
    found # <<>> /\ dropped = 0 =>
        nodes = UNION {found[c].members : c \in {c \in DOMAIN found : found[c].level = 0}}

IsHierarchy(hierarchy, nodes) ==
    /\ IsTree(hierarchy.communities)
    /\ IsBounded(hierarchy.communities)
    /\ Covers(hierarchy.communities, hierarchy.dropped, nodes)

\* The communities are a tree over the entities: no two of a level share one,
\* each lies in its parent with its relations and is smaller, none is too small
\* or too deep, and an entity is left out only with a part that was too small.
HierarchyIsSound(relations, nodes) == IsHierarchy(Detect(relations, nodes), nodes)

----------------------------------------------------------------------------
(* summarize.py.  Communities now have a summary, "none", "report" or        *)
(* "placeholder"; an entity is [degree, sources, cost], a relation has a     *)
(* weight and a cost, in tokens; a reply is [fails, rating].                 *)

ChildCost == 6    \* what a report of a child takes

\* _fit_lines: the longest prefix within the budget.
Fitting(costs, budget) ==
    Cardinality({n \in DOMAIN costs : Sum([i \in 1 .. n |-> costs[i]]) <= budget})

ByDegree(members, entities) ==
    Ordered(members, LAMBDA a, b :
        \/ entities[a].degree > entities[b].degree
        \/ entities[a].degree = entities[b].degree /\ entities[a].sources > entities[b].sources
        \/ entities[a].degree = entities[b].degree /\ entities[a].sources = entities[b].sources /\ a < b)
ByWeight(keys, relations) ==
    Ordered(keys, LAMBDA a, b : relations[a].weight > relations[b].weight
                                \/ (relations[a].weight = relations[b].weight /\ a < b))

\* _SHARES_WITH_CHILDREN and _SHARES_LEAF, in percent.
ChildBudget(children, budget) == IF children = <<>> THEN 0 ELSE (45 * budget) \div 100
EntityBudget(children, budget) == ((IF children = <<>> THEN 60 ELSE 35) * budget) \div 100
RelationBudget(children, budget) == budget - ChildBudget(children, budget) - EntityBudget(children, budget)

CostsOf(order, table) == [n \in DOMAIN order |-> table[order[n]].cost]
Fitted(order, table, budget) == Top(order, Fitting(CostsOf(order, table), budget))

\* _build_prompt and _render_prompt: the best connected members and the heaviest
\* relations that fit, and the children that have a summary.
Prompt(community, children, entities, relations, budget) ==
    [entities |-> Fitted(ByDegree(community.members, entities), entities, EntityBudget(children, budget)),
     relations |-> Fitted(ByWeight(community.keys, relations), relations, RelationBudget(children, budget)),
     children |-> Top(children, Fitting([n \in DOMAIN children |-> ChildCost], ChildBudget(children, budget)))]

ChildrenOf(communities, c) ==
    SelectSeq([d \in DOMAIN communities |-> d],
              LAMBDA d : communities[d].parent = Id(communities[c]) /\ communities[d].summary # "none")

\* _apply_report and _fallback_report.
Reported(community, reply) ==
    IF reply.fails THEN [community EXCEPT !.summary = "placeholder"]
    ELSE [community EXCEPT !.summary = "report", !.rank = (@ + reply.rating) \div 2]

\* One level of CommunitySummarizer.summarize: its prompts are all written
\* before any of its reports.
Level(s, entities, relations, replies, level, budget) ==
    [prompts |-> [c \in {c \in DOMAIN s.communities : s.communities[c].level = level} |->
                     Prompt(s.communities[c], ChildrenOf(s.communities, c), entities, relations, budget)] @@ s.prompts,
     communities |-> [c \in DOMAIN s.communities |->
                         IF s.communities[c].level = level THEN Reported(s.communities[c], replies[c])
                         ELSE s.communities[c]]]

Unwritten(communities) ==
    [c \in DOMAIN communities |->
        [level |-> communities[c].level, members |-> communities[c].members, parent |-> communities[c].parent,
         keys |-> communities[c].keys, rank |-> communities[c].rank, summary |-> "none"]]

\* summarize: the deepest level first.
Summarize(communities, entities, relations, replies, budget) ==
    FoldLeft(LAMBDA s, n : Level(s, entities, relations, replies, MaxLevels - n, budget),
             [prompts |-> <<>>, communities |-> Unwritten(communities)], [n \in 1 .. MaxLevels |-> n])

Spent(prompt, entities, relations) ==
    Sum([n \in DOMAIN prompt.entities |-> entities[prompt.entities[n]].cost])
      + Sum([n \in DOMAIN prompt.relations |-> relations[prompt.relations[n]].cost])
      + ChildCost * Len(prompt.children)

PromptIsFair(prompt, community, communities, entities, relations, budget) ==
    /\ Spent(prompt, entities, relations) <= budget
    /\ ToSet(prompt.entities) \subseteq community.members /\ ToSet(prompt.relations) \subseteq community.keys
    /\ \A e \in community.members \ ToSet(prompt.entities), g \in ToSet(prompt.entities) :
          entities[e].degree <= entities[g].degree
    /\ \A r \in community.keys \ ToSet(prompt.relations), g \in ToSet(prompt.relations) :
          relations[r].weight <= relations[g].weight
    /\ \A c \in ToSet(prompt.children) : communities[c].parent = Id(community)
    /\ (\E c \in DOMAIN communities : communities[c].parent = Id(community)) /\ ChildCost <= ChildBudget(<<1>>, budget)
         => prompt.children # <<>>

ReportsAreWhole(done, without, entities, relations, replies, budget) ==
    \A c \in DOMAIN done.communities :
        /\ done.communities[c].summary = IF replies[c].fails THEN "placeholder" ELSE "report"
        /\ done.communities[c].rank \in 0 .. 100
        /\ ~replies[c].fails => done.communities[c] = without.communities[c]
        /\ done.prompts[c] = without.prompts[c]
        /\ PromptIsFair(done.prompts[c], done.communities[c], done.communities, entities, relations, budget)

WithoutFailures(replies) == [c \in DOMAIN replies |-> [replies[c] EXCEPT !.fails = FALSE]]

HierarchyIsReported(found, entities, relations, replies, budget) ==
    ReportsAreWhole(Summarize(found, entities, relations, replies, budget),
                    Summarize(found, entities, relations, WithoutFailures(replies), budget),
                    entities, relations, replies, budget)

\* Every community has a report or a placeholder, and one that fails costs no
\* other its own; a prompt keeps its budget whatever it has to say, shows the best
\* connected members and the heaviest relations first, and is written after the
\* reports of its parts and with them.
ReportsAreSound(relations, nodes, entities, replies, budget) ==
    HierarchyIsReported(Detect(relations, nodes).communities, entities, relations, replies, budget)
=============================================================================
