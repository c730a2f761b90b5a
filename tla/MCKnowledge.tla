---------------------------- MODULE MCKnowledge ----------------------------
(***************************************************************************)
(* Inputs for the entity graph, the representations, the searches and the  *)
(* loading of files.                                                       *)
(***************************************************************************)
EXTENDS Integers, SequencesExt

Positive(n) == IF n > 0 THEN n ELSE 0

EN(block) == INSTANCE Entities WITH Articles <- {0}, LegalForms <- {9}, Generic <- {1},
                             DefaultType <- 1, MaxBlock <- block, MaxPrefix <- 2

Name(words, case) == [words |-> words, case |-> case]
Mention(name, type, chunks, aliases) ==
    [name |-> name, type |-> type, chunks |-> chunks, aliases |-> aliases]

\* "X", "x", "the X Inc", "X A", "X B", "Inc", and none.
Written == {Name(<<3>>, 0), Name(<<3>>, 1), Name(<<0, 3, 9>>, 0), Name(<<3, 4>>, 0),
            Name(<<3, 5>>, 0), Name(<<9>>, 0), Name(<<>>, 0)}
Starts == {Name(<<3>>, 0), Name(<<0, 3, 9>>, 0), Name(<<3, 4>>, 0), Name(<<>>, 0)}
Edge(source, target, weight, chunk) ==
    [source |-> source, target |-> target, type |-> 1, weight |-> weight, chunks |-> {chunk}]
Alikes == {<<>>, <<<<1, 2>>, <<2, 3>>>>, <<<<1, 3>>, <<2, 3>>>>, <<<<2, 3>>>>, <<<<1, 3>>, <<1, 2>>>>}
ResolveInputs ==
    {[mentions |-> <<Mention(a, 2, {11}, {}), Mention(b, t, {12}, {al}), Mention(c, 2, {13}, {})>>,
      relations |-> <<Edge(a, b, 1, 11), Edge(b, a, 2, 12), Edge(a, c, 4, 13), Edge(c, b, 8, 13),
                      Edge(Name(<<3>>, 1), b, 16, 12), Edge(a, Name(<<7>>, 0), 32, 11)>>,
      alike |-> k, resolve |-> TRUE, block |-> m] :
        a \in Starts, b \in Written, c \in {Name(<<3, 4>>, 0), Name(<<3, 5>>, 0)}, t \in {0, 2}, al \in {Name(<<3, 4>>, 0), Name(<<8>>, 0)},
        k \in Alikes, m \in {2, 3}}
    \cup {[mentions |-> <<Mention(a, t, {11}, {b}), Mention(b, 1, {12}, {})>>,
           relations |-> <<Edge(a, b, 1, 11), Edge(b, c, 2, 12)>>, alike |-> <<>>, resolve |-> r, block |-> 2] :
            a, b, c \in Written, t \in {0, 1, 2}, r \in BOOLEAN}
ResolveKeeps(x) == EN(x.block)!ResolutionKeeps(x.mentions, x.relations, x.alike, x.resolve)

GS == INSTANCE GraphSearch WITH Unit <- 8, Faint <- 4, Oversample <- 1, BeamWidth <- 2, MaxHops <- 3,
                                PerHop <- 1, Norm <- LAMBDA text : text % 10

Node(name, chunks) == [name |-> name, chunks |-> chunks]
Seed(name, score, chunks) == [name |-> name, score |-> score, chunks |-> chunks]
Rel(s, t, w, chunks) == [source |-> s, target |-> t, weight |-> w, chunks |-> chunks]
Bodies(vector, s) == [id \in 11 .. 14 |-> [vector |-> vector \/ id # 12, similarity |-> s[id - 10]]]
Stores == {[graph |-> g, entities |-> <<Node(2, {12}), Node(3, {13}), Node(1, {14})>>, relations |-> rel,
            chunks |-> c, bodies |-> Bodies(v, s), query |-> q] :
              g \in {"up", "down"}, c \in {"up", "down", "none"}, v \in BOOLEAN, q \in {"given", "fails", "none"},
              s \in {<<1, 2, 4, 2>>, <<4, 1, 2, 0>>},
              rel \in {<<Rel(1, 2, 1, {11}), Rel(2, 3, 2, {12})>>, <<Rel(2, 1, 1, {14}), Rel(3, 1, 2, {14, 13})>>,
                       <<Rel(1, 2, 2, {12}), Rel(2, 3, 1, {13}), Rel(3, 4, 1, {14})>>}}
LocalInputs == [seeds : {<<Seed(1, 4, {11})>>, <<Seed(1, 4, {11}), Seed(2, 1, {12})>>, <<Seed(2, 2, {}), Seed(3, 4, {12})>>},
                store : Stores, hops : {1, 2}, limit : {1, 2}]
LocalKeeps(x) == GS!LocalSearchIsSound(x.seeds, x.store, x.hops, x.limit)

Community(summary, answer, score) == [summary |-> summary, answer |-> answer, score |-> score]
Communities == {Community(FALSE, "text", 0), Community(TRUE, "text", 5), Community(TRUE, "text", 0),
                Community(TRUE, "blank", 7), Community(TRUE, "fails", 0), Community(TRUE, "text", 9)}
Scored(id, score) == [id |-> id, score |-> score]
SeedLists == {<<Scored(11, 4), Scored(12, 2)>>, <<Scored(11, 1), Scored(12, 4), Scored(13, 4)>>, <<Scored(12, 1)>>}
WideInputs == [communities : BoundedSeq(Communities, 2), cap : {2}, limit : {1, 2}, hits : {<<>>},
               seeds : {<<Scored(12, 1)>>}, graphHits : {<<>>}]
              \cup [communities : {<<>>}, cap : {2}, limit : 1 .. 3,
                    hits : {<<>>, <<Seed(1, 5, {11}), Seed(2, 4, {19})>>, <<Seed(1, 5, {18}), Seed(2, 4, {19})>>},
                    seeds : SeedLists, graphHits : SeedLists \cup {<<>>, <<Scored(0, 4), Scored(13, 4), Scored(11, 2)>>}]
WideKeeps(x) == GS!WideSearchIsSound(x.communities, x.cap, x.limit, x.hits, x.seeds, x.graphHits)

Turns == [hits : {<<>>, <<Scored(11, 2), Scored(12, 3)>>, <<Scored(12, 5), Scored(13, 1)>>},
          check : {"more"}, follow : {11, 2, 22}, expanded : {<<>>, <<Scored(14, 4)>>}]
         \cup [hits : {<<>>, <<Scored(11, 2)>>}, check : {"fails", "enough", "nothing"}, follow : {0}, expanded : {<<>>}]
LastTurns == {t \in Turns : t.check = "enough"} \cup {t \in Turns : t.follow = 2 /\ t.expanded = <<>>}
IterateInputs == {[turns |-> <<a, b, c>>, limit |-> n] : a, b \in Turns, c \in LastTurns, n \in {2, 3}}
IterateKeeps(x) == GS!IterationIsSound(1, x.turns, x.limit)

Path(weight, hops, chunks) == [weight |-> weight, hops |-> hops, chunks |-> chunks]
Paths == {Path(3, 1, <<11, 12>>), Path(3, 2, <<12, 13>>), Path(8, 2, <<13>>), Path(0, 1, <<14>>)}
BridgeInputs == [lookup : {"up", "down"}, paths : BoundedSeq(Paths, 3), bodies : {{}, {11, 13}, {12, 13, 14}},
                 hits : {<<>>, <<Seed(1, 9, {})>>, <<Seed(1, 9, {}), Seed(1, 8, {})>>, <<Seed(1, 9, {}), Seed(2, 3, {})>>,
                         <<Seed(0, 9, {}), Seed(2, 8, {}), Seed(3, 4, {})>>}, limit : {1, 3}]
BridgeKeeps(x) == GS!BridgesAreSound(x.lookup, x.hits, x.paths, x.bodies, x.limit)

\* The clusters of so many nodes: two by two, chained, one, or each its own.
Shaped(shape, n) ==
    CASE shape = "pairs" -> [k \in 1 .. (n + 1) \div 2 |-> {2 * k - 1, 2 * k} \cap 1 .. n]
      [] shape = "chain" -> [k \in 1 .. Positive(n - 1) |-> {k, k + 1}]
      [] shape = "one" -> <<1 .. n>>
      [] shape = "each" -> [k \in 1 .. n |-> {k}]
RE(budget, smallest, largest) ==
    INSTANCE Representations WITH Budget <- budget, MinSize <- smallest, MaxSize <- largest, MaxLevels <- 3,
        Threshold <- 3, ClustersOf <- Shaped, MaxUnits <- 2, MinWords <- 2, Terminators <- {".", "!"},
        Fold <- LAMBDA c : IF c = "A" THEN <<"a">> ELSE IF c = "z" THEN <<"s", "s">> ELSE <<c>>

LateInputs == {[tokens |-> [i \in 1 .. n |-> <<(i - 1) * w + g, i * w>>], total |-> n * w + g, span |-> <<a, b>>, budget |-> m] :
                  n \in {1, 3, 5, 8}, w \in {2, 3}, g \in {0, 1}, a \in {0, 1, 3, 4, 6, 9}, b \in {2, 5, 6, 10, 16}, m \in {2, 4}}
LateKeeps(x) == x.span[1] < x.span[2] => RE(x.budget, 2, 3)!PoolingIsWhole(x.tokens, x.total, x.span)

Mixture(p) == [kind |-> "mixture", p |-> p, label |-> <<>>]
Labels(label) == [kind |-> "labels", p |-> <<>>, label |-> label]
Models(n) == {Mixture([row \in 1 .. n |-> p[(row % 2) + 1]]) :
                 p \in [1 .. 2 -> {<<5, 0>>, <<4, 4>>, <<1, 2>>, <<0, 5>>}]}
             \cup {Labels([row \in 1 .. n |-> row % k]) : k \in 1 .. 3}
ClusterInputs == UNION {{[n |-> n, model |-> m, local |-> l, smallest |-> least, largest |-> 3] :
                            m \in Models(n), l \in Models(n), least \in {1, 2}} : n \in {1, 5}}
                 \cup {[n |-> 7, model |-> m, local |-> Labels([row \in 1 .. 7 |-> 0]), smallest |-> 3, largest |-> s] :
                            m \in Models(7), s \in {2, 4}}
ClusterKeeps(x) == RE(4, x.smallest, x.largest)!ClustersCover(x.n, x.model, x.local)

LevelOutcomes == {[k \in 1 .. 8 |-> "text"], [k \in 1 .. 8 |-> IF k % 2 = 0 THEN "blank" ELSE "text"],
             [k \in 1 .. 8 |-> "fails"], [k \in 1 .. 8 |-> IF k = 2 THEN "budget" ELSE "text"],
             [k \in 1 .. 8 |-> IF k = 1 THEN "fails" ELSE "text"]}
LevelTurns == [shape : {"pairs", "chain", "one", "each"}, outcome : LevelOutcomes]
TreeInputs == [leaves : {2, 5, 8}, first : LevelTurns, second : LevelTurns,
               remaining : {<<>>, <<2>>, <<5>>}]
TreeKeeps(x) == RE(4, 2, 3)!TreeIsSound(x.leaves, <<x.first, x.second, x.first>>, x.remaining)

Contents == {<<"A", " ", "b", ".">>, <<"b", " ", " ", "A", " ", "z">>, <<" ", "z", " ", "b", "s", ".">>, <<"a", "b">>}
Propositions == {<<"a", " ", "b">>, <<"b", " ", "a">>, <<"s", " ", "b">>, <<"a", "b">>, <<"A", " ", "b", "!">>,
                 <<"z", " ", "b">>, <<"b", " ", "a", " ", "s", "s">>}
UnitInputs == [content : Contents, reply : [fails : BOOLEAN, propositions : BoundedSeq(Propositions, 3)]]
UnitKeeps(x) == RE(4, 2, 3)!PropositionsPoint(x.content, x.reply)

Child(id, parent, score) == [id |-> id, parent |-> parent, score |-> score, wide |-> 0]
FoundHits == {Child(1, 1, 5), Child(2, 1, 7), Child(3, 2, 6), Child(4, 0, 6), Child(5, 0, 2), Child(6, 1, 7)}
ChildInputs == [hits : {h \in BoundedSeq(FoundHits, 4) : IsInjective(h)}, up : BOOLEAN, rows : SUBSET {1, 2},
                children : {<<>>, <<<<0, 4>>>>, <<<<0, 4>>, <<3, 6>>>>}]
ChildKeeps(x) == RE(4, 2, 3)!ChildrenFollow(
    <<[start |-> 0, length |-> 6, children |-> x.children], [start |-> 5, length |-> 3, children |-> <<>>]>>,
    x.hits, [up |-> x.up, rows |-> x.rows])

Passage(id, tokens, reply) == [id |-> id, tokens |-> tokens, reply |-> reply]
PlaceSpans == BoundedSeq({<<0, 3>>, <<2, 5>>, <<4, 9>>, <<8, 12>>}, 3)
PlaceSources == {<<Passage(1, t, r), Passage(2, 5, s)>> :
                     t \in {1, 3, 5}, r, s \in {"text", "fails", "blank", "budget"}}
PlaceInputs == [chunks : PlaceSpans, size : {3, 5}, total : {12, 14}, sources : {<<Passage(1, 3, "text")>>, <<>>}]
               \cup [chunks : {<<>>, <<<<0, 3>>, <<2, 5>>>>}, size : {3}, total : {12}, sources : PlaceSources]
PlaceKeeps(x) == RE(4, 2, 3)!EachIsPlaced(x.chunks, x.size, x.total, x.sources, 3)

SE == INSTANCE Searching WITH RrfK <- 1, Unit <- 12

HitIn(id, score, tenant, f) == [id |-> id, score |-> score, tenant |-> tenant, fields |-> "f" :> f]
FoundByStore == {SE!Hits(<<HitIn(1, 5, "t", 1), HitIn(2, 4, "u", 1), HitIn(3, 4, "t", 2)>>),
                 SE!Hits(<<HitIn(3, 5, "t", 2), HitIn(1, 2, "t", 1)>>), SE!Hits(<<>>), SE!Outage, SE!Refused}
VectorStores == [{"q", "v", "h"} -> FoundByStore]
FilterMaps == {<<>>, "f" :> 1, "tenant_id" :> "t", "tenant_id" :> "u", ("f" :> 2) @@ ("tenant_id" :> "t")}
Security(e, g) == [enforced |-> e, graph |-> g, generated |-> g, foreign |-> g]
Wanted(variants, filters, tenant, dense, hypothetical) ==
    [text |-> "q", variants |-> variants, filters |-> filters, tenant |-> tenant, topK |-> 3,
     dense |-> dense, hypothetical |-> hypothetical]
SearchInputs ==
    {[query |-> Wanted(v, <<>>, "none", d, h), kw |-> [filters |-> f, tenant |-> t, topK |-> k],
      settings |-> [tenant |-> "none", security |-> Security(TRUE, "reject")], store |-> s] :
        v \in {<<>>, <<"v">>, <<"q", "v", "h">>}, d \in {"none", "h"}, h \in {"none"}, t \in {"t"},
        f \in {<<>>, "f" :> 1}, k \in {2}, s \in VectorStores}
    \cup {[query |-> Wanted(v, q, tq, "none", h), kw |-> [filters |-> f, tenant |-> t, topK |-> 3],
          settings |-> [tenant |-> ts, security |-> Security(e, "filter")],
          store |-> [x \in {"q", "v", "h"} |-> IF x = "v" THEN SE!Outage ELSE SE!Hits(<<HitIn(1, 5, "t", 1), HitIn(2, 4, "u", 1), HitIn(3, 4, "t", 2)>>)]] :
            v \in {<<"v">>}, h \in {"none", "h", "v"}, q, f \in FilterMaps,
            t, tq \in {"none", "t", "u"}, ts \in {"none", "t"}, e \in BOOLEAN}
SearchKeeps(x) == SE!SearchIsSound(x.query, x.kw, x.settings, x.store)

SqlRows == <<[id |-> 5, score |-> 3], [id |-> 2, score |-> 9]>>
LegHits == {SE!Hits(<<>>), SE!Outage, SE!Hits(<<[id |-> 1, score |-> 5], [id |-> 2, score |-> 4], [id |-> 3, score |-> 4]>>),
            SE!Hits(<<[id |-> 3, score |-> 5], [id |-> 1, score |-> 2]>>), SE!Hits(<<[id |-> 5, score |-> 1]>>)}
HybridInputs == [legs : BoundedSeq(LegHits, 3), outcome : {"down", "not_constructed", "guarded", "ran"}]
HybridKeeps(x) == SE!HybridIsSound(x.legs, x.outcome, SqlRows)

IndexInputs == BoundedSeq({"add", "ask", "done", "crash"}, 6)
BuildKeeps(events) == SE!IndexKeeps(events)
Bag(n) == CASE n = 0 -> <<>> [] n = 1 -> "x" :> 1 [] n = 2 -> "x" :> 3 [] n = 3 -> ("x" :> 1) @@ ("y" :> 1)
            [] n = 4 -> "y" :> 2
BagsOf == [words : 0 .. 4, tenant : {"t", "u"}]
LexicalInputs == [bags : BoundedSeq(BagsOf, 3), words : {{"x"}, {"x", "y"}, {"z", "y"}},
                  filter : {"tenant_id" :> "t", "f" :> 1}, k : {1, 2}]
LexicalKeeps(x) ==
    SE!LexicalIsSound([i \in DOMAIN x.bags |-> [words |-> Bag(x.bags[i].words), tenant |-> x.bags[i].tenant,
                                                fields |-> "f" :> (i % 2)]], x.words, x.filter, x.k)

Page(id, url, body, title, score) == [id |-> id, url |-> url, body |-> body, title |-> title, score |-> score]
PageKinds == {<<"http", "text", SE!NoScore>>, <<"http", "text", 40>>, <<"http", "text", 140>>, <<"http", "blocked", 90>>,
              <<"other", "text", 70>>, <<"http", "blank", SE!NoScore>>}
WebInputs == [pages : BoundedSeq(PageKinds, 4), limit : 0 .. 3]
WebKeeps(x) == SE!WebIsSound([i \in DOMAIN x.pages |-> Page(i, x.pages[i][1], x.pages[i][2], "text", x.pages[i][3])], x.limit, "t")

Given3(id, tenant, score, distance) == [id |-> id, tenant |-> tenant, score |-> score, distance |-> distance, at |-> id]
DocKinds == {<<"t", SE!Missing, SE!Missing>>, <<"u", SE!Missing, 1>>, <<"t", SE!Missing, 3>>, <<"none", 60, SE!Missing>>, <<"t", 20, 1>>}
ForeignInputs == [kinds : BoundedSeq(DocKinds, 3), tenant : {"none", "t"}, limit : {1, 2},
                  security : {Security(e, g) : e \in BOOLEAN, g \in {"reject", "filter", "trusted"}}]
ForeignKeeps(x) ==
    SE!ForeignIsSound([i \in DOMAIN x.kinds |-> Given3(i, x.kinds[i][1], x.kinds[i][2], x.kinds[i][3])],
                      x.tenant, x.security, x.limit)

ChainInputs == [query : {Wanted(v, f, t, "none", "none") : v \in {<<>>, <<"v">>}, f \in FilterMaps, t \in {"none", "t", "u"}},
                bound : [filters : FilterMaps, tenant : {"none", "t", "u"}, topK : {2}],
                tenant : {"none", "t"}, enforced : BOOLEAN]
ChainKeeps(x) ==
    SE!BridgeIsSound(x.query, x.bound, [tenant |-> x.tenant, security |-> Security(x.enforced, "filter")],
                     [v \in {"q", "v", "h"} |-> SE!Hits(<<HitIn(1, 5, "t", 1), HitIn(2, 4, "u", 1), HitIn(3, 4, "t", 2)>>)])

\* The parts of a set of nodes: halves, its greatest alone, or all in one.
Halved(Group) ==
    LET low == {x \in Group : 2 * Cardinality({y \in Group : y < x}) < Cardinality(Group)}
    IN  IF Cardinality(Group) < 2 THEN <<Group>> ELSE <<low, Group \ low>>
Beheaded(Group) ==
    LET rest == {x \in Group : \E y \in Group : y > x}
    IN  IF Cardinality(Group) < 2 THEN <<Group>> ELSE <<rest, Group \ rest>>
Divided(shape, Group) ==
    CASE shape = "halves" -> Halved(Group)
      [] shape = "greatest" -> Beheaded(Group)
      [] shape = "one" -> <<Group>>
KG(shape, levels, least) ==
    INSTANCE KnowledgeGraph WITH NoName <- 0, Key <- LAMBDA n : n \div 10, Length <- LAMBDA n : n % 10,
        Types <- {"ORG", "PERSON"}, FallbackType <- "CONCEPT", PartsOf <- LAMBDA Group : Divided(shape, Group),
        MaxLevels <- levels, MinSize <- least

Told(name, type, says) == [name |-> name, type |-> type, says |-> says]
Link(source, target, weight) == [source |-> source, target |-> target, weight |-> weight]
Answer(fails, entities, relations) == [fails |-> fails, entities |-> entities, relations |-> relations]
Answered == {Answer(FALSE, <<Told(11, "ORG", {"a"}), Told(21, "odd", {})>>, <<Link(11, 21, 1), Link(11, 31, 2)>>),
             Answer(FALSE, <<Told(12, "PERSON", {"b"}), Told(0, "ORG", {"c"})>>, <<Link(12, 21, 3), Link(12, 11, 1)>>),
             Answer(FALSE, <<Told(31, "ORG", {"a"})>>, <<>>), Answer(FALSE, <<>>, <<Link(21, 11, 1)>>),
             Answer(FALSE, <<>>, <<>>), Answer(TRUE, <<>>, <<>>)}
ExtractInputs == [chunks : {<<a>> : a \in {<<x, y, z>> : x, y, z \in Answered}}
                           \cup {<<<<x, y>>, <<z>>>> : x, y, z \in Answered}, gleanings : 0 .. 2]
ExtractKeeps(x) == KG("one", 1, 1)!ExtractionIsSound(x.chunks, x.gleanings)

Joined(source, target, weight) == [source |-> source, target |-> target, weight |-> weight, cost |-> 3]
JoinedSets == {<<Joined(1, 2, 3), Joined(2, 1, 2), Joined(3, 4, 1), Joined(5, 5, 9), Joined(0, 1, 4), Joined(2, 5, 1)>>,
               <<Joined(4, 1, 3), Joined(6, 1, 2)>>, <<Joined(3, 3, 3), Joined(0, 3, 1)>>}
HierarchyInputs == [shape : {"halves", "greatest", "one"}, levels : 1 .. 3, least : 1 .. 3, nodes : {{}, 1 .. 2, 1 .. 6, 1 .. 7},
                    relations : JoinedSets]
HierarchyKeeps(x) == KG(x.shape, x.levels, x.least)!HierarchyIsSound(x.relations, x.nodes)

Reporter(degree, cost) == [degree |-> degree, sources |-> 1, cost |-> cost]
ReportInputs == [shape : {"halves", "greatest"}, levels : {1, 3}, least : {1, 2}, relations : JoinedSets, budget : {10, 14, 20, 60},
                 fails : {{}, {1}, {2, 3}, {4}, {1, 5}}, rating : {0, 100}]
ReportKeeps(x) ==
    KG(x.shape, x.levels, x.least)!ReportsAreSound(x.relations, 1 .. 6,
        <<Reporter(3, 2), Reporter(1, 3), Reporter(2, 2), Reporter(2, 9), Reporter(0, 1), Reporter(1, 2)>>,
        [c \in 1 .. 20 |-> [fails |-> c \in x.fails, rating |-> x.rating]], x.budget)

LO == INSTANCE Loading

Told3(kind, key, value) == [kind |-> kind, key |-> key, value |-> value]
FrontInputs == BoundedSeq({Told3("pair", "a", "x"), Told3("pair", "a", " "), Told3("pair", "b", ""),
                           Told3("item", "", "y"), Told3("item", "", "z"), Told3("none", "", "")}, 5)
FrontKeeps(lines) == LO!FrontMatterIsRead(lines)

Asks(tenant) == [tenant |-> tenant, root |-> LO!Unset, meta |-> <<>>, contentKey |-> LO!Unset, idKey |-> LO!Unset,
                 pages |-> FALSE, recursive |-> TRUE, include |-> {}, exclude |-> {}, limit |-> 3]
Obj(fields) == [kind |-> "object", fields |-> fields]
Records == {Obj(("id" :> "1") @@ ("text" :> "x")), Obj(("id" :> "1") @@ ("body" :> "y") @@ ("key" :> "2")),
            Obj(("slug" :> "2") @@ ("text" :> " ")), Obj(("text" :> "x") @@ ("body" :> "y")),
            Obj(("id" :> "") @@ ("content" :> "z")), [kind |-> "text", fields |-> "content" :> "x"],
            [kind |-> "text", fields |-> "content" :> " "], [kind |-> "malformed", fields |-> <<>>], [kind |-> "empty", fields |-> <<>>]}
RecordInputs == [records : BoundedSeq(Records, 3), content : {LO!Unset, "body"}, id : {LO!Unset, "key"}]
RecordKeeps(x) == LO!RecordsAreSound(x.records, [Asks("t") EXCEPT !.contentKey = x.content, !.idKey = x.id])

CsvRows == {("id" :> a) @@ ("url" :> b) @@ ("n" :> c) : a \in {"1", ""}, b \in {"1", "2", ""}, c \in {" ", "x"}}
RowInputs == [rows : BoundedSeq(CsvRows, 3), content : {LO!Unset, "n"}, id : {LO!Unset, "n"}]
RowKeeps(x) == LO!RowsAreSound(x.rows, [Asks("t") EXCEPT !.contentKey = x.content, !.idKey = x.id])

PageTexts == {<<>>, <<LO!Space>>, <<"a">>, <<"b", LO!LineEnd, "c">>, <<LO!LineEnd, "d", LO!Space>>,
              <<"e", LO!LineEnd, LO!LineEnd, LO!LineEnd, "f", LO!LineEnd>>}
PageInputs == BoundedSeq(PageTexts, 4)
PagesKeep(pages) == LO!PagesAreFound(pages)

AFile(parts, suffix, state, content) ==
    [root |-> "here", parts |-> parts, suffix |-> suffix, state |-> state, content |-> content]
Files == <<AFile(<<"a">>, ".txt", "fine", "text"), AFile(<<"b">>, ".md", "fine", [front |-> "k" :> "v", body |-> "text"]),
           AFile(<<"c">>, ".json", "fine", <<Obj("text" :> "x"), Obj("body" :> "y")>>),
           AFile(<<"d">>, ".jsonl", "fine", <<[kind |-> "malformed", fields |-> <<>>], Obj("text" :> "x")>>),
           AFile(<<"e">>, ".csv", "fine", <<("id" :> "1") @@ ("n" :> "x"), ("id" :> "2") @@ ("n" :> "x")>>),
           AFile(<<"f">>, ".html", "fine", <<[tag |-> "nav", within |-> {}, says |-> "x"],
                                             [tag |-> "p", within |-> {"main"}, says |-> "y"], [tag |-> "p", within |-> {}, says |-> "z"]>>),
           AFile(<<"g">>, ".pdf", "fine", <<<<"a">>, <<>>, <<"b">>>>), AFile(<<"h">>, ".docx", "fine", <<<<<<"x">>>>, <<<<"y", "">>, <<" ", "">>>>>>),
           AFile(<<"i", "j">>, ".txt", "fine", "text"), AFile(<<"build", "k">>, ".txt", "fine", "text"),
           AFile(<<"l">>, ".odd", "binary", "text"), AFile(<<"m">>, ".odd", "fine", "text"), AFile(<<"n">>, ".odd", "locked", "text"),
           AFile(<<"o">>, ".json", "corrupt", <<>>), AFile(<<"p">>, ".txt", "gone", "text"), AFile(<<"q">>, ".png", "fine", "text"),
           AFile(<<"r">>, ".txt", "memory", "text"), AFile(<<"s">>, ".txt", "link", "text"), AFile(<<"u">>, ".txt", "large", "text"),
           AFile(<<"v">>, ".json", "fine", <<[kind |-> "malformed", fields |-> <<>>]>>)>>
Picked(numbers) == [n \in DOMAIN numbers |-> Files[numbers[n]]]
Ascending(n) == {s \in BoundedSeq(DOMAIN Files, n) : \A i \in 2 .. Len(s) : s[i - 1] < s[i]}
WalkInputs == [files : Ascending(3), recursive : BOOLEAN, include : {{}, {".txt", ".odd"}}, limit : {2, 3}, window : {1, 2}]
              \cup [files : {s \in Ascending(4) : Len(s) = 4}, recursive : {TRUE}, include : {{}}, limit : {4}, window : {2}]
WalkKept(x) ==
    LO!WalkIsSound(Picked(x.files), [Asks("t") EXCEPT !.recursive = x.recursive, !.include = x.include, !.limit = x.limit], x.window)
MoveInputs == Ascending(3)
MoveKeeps(numbers) == LO!MovesKeepIds(Picked(numbers), Asks("t"), {"here", "there"})

Part(name, size, says) == [name |-> name, size |-> size, says |-> says]
UploadInputs == BoundedSeq({Part(n, k, s) : n \in {"a", "b"}, k \in {1, 2}, s \in {"x", "y"}} \cup {Part("..", 3, "x"), Part("c", 0, " ")}, 3)
UploadsKnown(parts) == LO!UploadsAreKnown(parts, 4, <<"a", "b", "c">>)
UploadKeeps(parts) == LO!UploadsAreWhole(parts, 4, <<"a", "b", "c">>)

Texts == [text : {"", "x", "y"}, label : {LO!Unset, "l", "x"}]
Placed(place, kind, number) == [place |-> place, kind |-> kind, number |-> number]
PathsAsked == {Placed("allowed", "directory", 1), Placed("allowed", "file", 4), Placed("allowed", "file", 14),
               Placed("allowed", "missing", 1), Placed("outside", "file", 1), Placed("allowed", "payload", 3)}
PathOf(p) == [place |-> p.place, kind |-> p.kind, file |-> Files[p.number], files |-> <<Files[p.number], Files[2]>>,
              records |-> Files[p.number].content]
PostInputs == [a : Texts, b : Texts, paths : BoundedSeq(PathsAsked, 2)]
PostOf(t, paths) == [text |-> t.text, label |-> t.label, meta |-> <<>>, recursive |-> TRUE,
                     paths |-> [n \in DOMAIN paths |-> PathOf(paths[n])]]
PostKeeps(x) == LO!PostsAreWhole(PostOf(x.a, x.paths), PostOf(x.b, <<>>))

LinesOf == [kind : {"object", "blank", "comment", "malformed", "invalid"}, question : {1, 2}]
CaseInputs == [lines : BoundedSeq(LinesOf, 3), array : BOOLEAN, limit : 0 .. 2]
CasesKeep(x) == LO!DatasetIsRead(x.lines, x.array, x.limit)
=============================================================================
