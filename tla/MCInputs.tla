------------------------------ MODULE MCInputs ------------------------------
(***************************************************************************)
(* Inputs for the algorithms that rank, filter, pack, split, guard and     *)
(* check passages, and what each promises of one input x.                  *)
(***************************************************************************)
EXTENDS Integers, SequencesExt

\* Two texts are alike when they begin alike.
Alike(h, g) == {h.text, g.text} \subseteq {"x", "xx"} \/ h.text = g.text
Overlap(h, g) == IF Alike(h, g) THEN 2 ELSE 0
Score(h) == h.score

F == INSTANCE Fusion WITH RrfK <- 1, Unit <- 12, Relevance <- Score, Redundancy <- Overlap
P == INSTANCE Packing
R == INSTANCE Ranking

\* Hits of a list: an id, a score; lists are sorted as a store returns them.
Hit(i, s) == [id |-> i, score |-> s]
FusionLists == {l \in BoundedSeq({Hit(i, s) : i \in 1 .. 3, s \in {0 - 1, 1, 2}}, 2) :
                   \A i, j \in DOMAIN l : i < j => l[i].score >= l[j].score}
FusionLegs == {<<l, k>> : l \in FusionLists, k \in {k \in FusionLists : \A i \in DOMAIN k : k[i].score > 0 /\ k[i].id < 3}}
FusionInputs == [method : F!Methods, lists : FusionLegs, weights : {<<1, 2>>}]
                \cup [method : {"max", "weighted"}, lists : FusionLegs, weights : {<<0, 1>>}]
FusionKeeps(x) == F!AgreementKept(x.method, x.lists, x.weights)

NoiseHit(i, s, t, v) == [id |-> i, score |-> s, text |-> t, source |-> v, dense |-> TRUE]
NoiseHits == {NoiseHit(1, 3, "x", "dense"), NoiseHit(2, 3, "x", "dense"), NoiseHit(2, 2, "y", "dense"),
              NoiseHit(3, 1, "z", "dense"), NoiseHit(4, 1, "xx", "fused"), NoiseHit(1, 4, "x", "fused")}
Filters == [dedupe : BOOLEAN, floor : {0 - 100, 2}, cutoff : {0, 50}, mmr : BOOLEAN, k : {1, 3}]
NoiseInputs == {[list |-> l, f |-> f] : l \in BoundedSeq(NoiseHits, 3) \ {<<>>}, f \in Filters}
NoiseKeeps(x) == F!OneOfEach(x.list, x.f)

Passages == {[id |-> 1, body |-> b, frame |-> 1, score |-> s, rank |-> 0, bucket |-> k,
              wide |-> w, parent |-> "p"] :
               b \in {1, 3}, s \in {0 - 1, 2}, k \in {1, 2}, w \in {0}}
            \cup {[id |-> 1, body |-> 3, frame |-> 1, score |-> s, rank |-> 0, bucket |-> 1,
                   wide |-> 4, parent |-> "p"] : s \in {0 - 1, 2}}
PackingInputs == {[list |-> l, budget |-> b, shares |-> s] :
                    l \in {l \in BoundedSeq(Passages, 3) : l # <<>>}, b \in {1, 8},
                    s \in {<<>>, <<1, 2>>}}
PackingKeeps(x) == P!PackingIsFair(x.list, x.budget, x.shares)

\* A passage of sentences, each with its likeness to the question.
Like == [s \in 1 .. 3 |-> s % 2]
Extracts == {[id |-> i, text |-> t, score |-> s, like |-> Like] :
               i \in 1 .. 2, t \in {<<>>, <<1>>, <<3, 1, 2>>}, s \in {1, 2}}
Replies == [failed : {TRUE}, relevant : {FALSE}, excerpt : {<<>>}]
           \cup [failed : {FALSE}, relevant : BOOLEAN, excerpt : {<<1>>, <<1, 3>>}]
CompressInputs == {[list |-> l, model |-> m, ratio |-> r[1], floor |-> r[2], fails |-> b] :
                     l \in {l \in BoundedSeq(Extracts, 2) :
                              \A i, j \in DOMAIN l : i # j => l[i].id # l[j].id},
                     m \in [1 .. 2 -> Replies], r \in {<<50, 0 - 100>>, <<1, 2>>}, b \in BOOLEAN}
Compressed(x) ==
    P!FilteredBySimilarity(x.list, x.ratio, x.floor, x.fails)
    \cup P!FilteredBySentence(x.list, x.ratio, x.fails)
    \cup P!Piped(x.list, x.ratio, x.floor, x.fails, x.model)
CompressKeeps(x) == \A out \in Compressed(x) : P!CompressionIsVerbatim(x.list, out)

RerankInputs == {[n |-> n, wanted |-> w, size |-> z, returned |-> r, fails |-> b] :
                    n \in 0 .. 3, w \in 1 .. 4, z \in 1 .. 2,
                    r \in UNION {[I -> {0 - 1, 2}] : I \in SUBSET (1 .. 3)}, b \in BOOLEAN}
RerankKeeps(x) ==
    LET returned == [i \in DOMAIN x.returned \cap 1 .. x.n |-> x.returned[i]]
        score == R!BatchScores(returned, x.n, x.size)
    IN  /\ \A out \in R!Reranked(x.n, x.wanted, x.fails, score) :
             R!NoCandidateLost(x.n, x.wanted, out)
        /\ R!ScoredComesFirst(returned, x.n, x.size)

MaxSimInputs == [like : [1 .. 2 -> [1 .. 2 -> [1 .. 2 -> {0 - 1, 1}]]], length : [1 .. 2 -> 0 .. 2]]
MaxSimKeeps(x) == R!EmptyComesLast(x.like, x.length, 2)

ListwiseInputs == {[n |-> n, wanted |-> w, window |-> v, step |-> s, raw |-> r, truth |-> t] :
                     n \in 1 .. 4, w \in {1, 3}, v \in 2 .. 3, s \in 1 .. 2,
                     r \in BoundedSeq({0, 1, 3}, 3), t \in {<<4, 3, 2, 1>>, <<2, 4, 1, 3>>}}
ListwiseKeeps(x) ==
    /\ R!NoCandidateLost(x.n, x.wanted, R!RankGpt(x.n, x.wanted, x.window, x.step, [truth |-> <<>>, raw |-> x.raw]))
    /\ R!WindowsCarryTheBest(x.n, x.window, x.step, x.truth)

----------------------------------------------------------------------------
\* Inputs for the splitters, and what each promises of one input x.

S == INSTANCE Structure WITH Abbreviations <- {<<"a", "a">>}

Sizes == {[least |-> 1, target |-> 2, most |-> 3, overlap |-> 1],
          [least |-> 2, target |-> 3, most |-> 3, overlap |-> 2],
          [least |-> 3, target |-> 2, most |-> 5, overlap |-> 3]}
NoSizes == [least |-> 0, target |-> 0, most |-> 0, overlap |-> 0]
Plain == [least |-> 0, target |-> 2, most |-> 3, overlap |-> 0]

Kept(chunks, text, sizes) == /\ S!SplitLosesNothing(chunks, text, sizes.overlap)
                             /\ S!SplitKeepsSizes(chunks, sizes)

ProseInputs == [text : BoundedSeq({"a", "_", "/", "."}, 4) \cup
                         {<<"a", "a", "_", "a", "a", "a", "/", "a">>, <<"a", ".", "_", "a", "/", "/", "a", "a">>},
                sizes : Sizes]
ProseKeeps(x) ==
    LET spans == S!RecursiveSpans(x.text, S!Span(0, Len(x.text)), x.sizes.target)
    IN  Kept(S!Split(spans, x.text, x.sizes), x.text, x.sizes)

SentenceInputs == [text : BoundedSeq({"A", "a", "1", ".", "_"}, 4), sizes : {Plain, NoSizes}]
SentencesKeep(x) == Kept(S!Split(S!Sentences(x.text), x.text, x.sizes), x.text, x.sizes)

\* A stride of at least two tokens of at most two bytes passes every character.
TokenInputs ==
    {x \in {[width |-> w, tokens |-> t, size |-> z[1], overlap |-> z[2]] :
               w \in BoundedSeq({1, 2}, 3) \ {<<>>}, t \in BoundedSeq({1, 2}, 5),
               z \in {<<2, 0>>, <<3, 0>>, <<3, 1>>}} : S!Sum(x.width) = S!Sum(x.tokens)}
TokensKeep(x) ==
    LET text == [i \in DOMAIN x.width |-> "a"]
        spans == S!TokenSpans(x.width, x.tokens, x.size, x.overlap)
    IN  S!SplitLosesNothing(S!Split(spans, text, NoSizes), text, 0 - 1)

SemanticTexts == {<<"a", "a", "a", ".", "_", "A", "a", "a", ".", "_", "A", "a", "a", ".", "_", "A", "a", "a", ".">>,
                  <<"a">>}
SemanticInputs == {[text |-> t, vectors |-> v, distance |-> d, threshold |-> h, sizes |-> z] :
                      t \in SemanticTexts, v \in 3 .. 4, d \in [1 .. 3 -> 0 .. 1], h \in 0 .. 1, z \in Sizes}
SemanticKeeps(x) ==
    LET spans == S!SemanticSpans(x.text, x.vectors, x.distance, x.threshold, x.sizes, 2)
    IN  Kept(S!Split(spans, x.text, x.sizes), x.text, x.sizes)

L(k, t) == [kind |-> k, text |-> t]
Lines == {L("h1", <<"#", "a", "/">>), L("h2", <<"#", "a", "/">>), L("fence", <<"f", "/">>),
          L("language", <<"f", "p", "/">>), L("row", <<"|", "/">>), L("delimiter", <<"|", "-", "/">>),
          L("text", <<"a", "_", "a", "/">>), L("text", <<"/">>)}
MarkdownInputs == [lines : BoundedSeq(Lines, 3) \ {<<>>}, sizes : Sizes]
MarkdownKeeps(x) ==
    LET text == S!TextOf(x.lines)
        chunks == S!Split(S!MarkdownSpans(x.lines, x.sizes), text, x.sizes)
    IN  Kept(chunks, text, x.sizes) /\ S!MarkdownIsWhole(x.lines, chunks)

CodeText == <<"a", "_", "a", "/", "_", "a", "/", "a">>
PartialTo(D, T) == UNION {[E -> T] : E \in SUBSET D}
CodeSizes == {[z EXCEPT !.overlap = 0] : z \in Sizes}
CodeInputs == [known : {TRUE}, definitions : PartialTo({0, 2, 4}, BOOLEAN),
               members : PartialTo({1, 3, 5}, BOOLEAN),
               sizes : CodeSizes]
              \cup [known : {FALSE}, definitions : {<<>>}, members : {<<>>}, sizes : CodeSizes]
CodeKeeps(x) ==
    LET spans == S!CodeSpans(CodeText, x.known, x.definitions, x.members, x.sizes)
        chunks == S!Split(spans, CodeText, x.sizes)
    IN  /\ Kept(chunks, CodeText, x.sizes)
        /\ x.known => S!CodeIsApart(Len(CodeText), x.definitions, chunks)

Grade(o, r, s) == [obtained |-> o, relevant |-> r, score |-> s]
GradeKinds == <<Grade(TRUE, TRUE, 0), Grade(TRUE, TRUE, 1), Grade(TRUE, FALSE, 2), Grade(FALSE, FALSE, 0)>>
Text4(id) == [id |-> id, sentences |-> <<<<0, 2>>, <<2, 3>>, <<3, 6>>, <<6, 7>>>>]
Text2(id) == [id |-> id, sentences |-> <<<<0, 3>>, <<3, 6>>>>]
Text1(id) == [id |-> id, sentences |-> <<<<0, 3>>>>]
Initials == {<<>>, <<Text1(1)>>, <<Text4(1), Text2(2)>>, <<Text2(2), Text1(1), Text4(3)>>}
Web(allowed, enabled, up) == [allowed |-> allowed, enabled |-> enabled, up |-> up, hits |-> <<[id |-> 9, text |-> <<<<0, 1>>>>]>>]
GradeInputs ==
    [initial : Initials, grades : [1 .. 3 -> 1 .. 4], strips : {<<1, 1, 1, 1>>, <<1, 3, 4, 3>>, <<3, 4, 1, 3>>, <<3, 3, 3, 3>>, <<2, 1, 2, 3>>},
     max : {0 - 1, 4, 5, 6, 8}, compressor : {"none"}, refine : {TRUE}, floor : {3}, top : {2}, limit : {3}, web : {Web(TRUE, TRUE, TRUE)}, rewrite : {"text"}]
    \cup [initial : Initials, grades : [1 .. 3 -> 1 .. 3], strips : {<<1, 3, 4, 3>>}, max : {0 - 1, 7}, compressor : {"none", "fails", "shortens"},
          refine : BOOLEAN, floor : {1}, top : {0, 3}, limit : {1, 3}, web : {Web(TRUE, TRUE, FALSE), Web(FALSE, TRUE, TRUE), Web(TRUE, TRUE, TRUE)},
          rewrite : {"text", "fails"}]
Around(x) ==
    [top |-> x.top, limit |-> x.limit, threshold |-> 2, floor |-> x.floor, max |-> x.max, calls |-> 0,
     grades |-> [i \in 1 .. 3 |-> GradeKinds[x.grades[i]]],
     strips |-> [i \in 1 .. 3 |-> [k \in 1 .. 4 |-> GradeKinds[x.strips[((k + i) % 4) + 1]]]],
     refine |-> x.refine, compressor |-> x.compressor, web |-> x.web, rewrite |-> x.rewrite]
GradeKeeps(x) == R!CorrectionIsSound(x.initial, Around(x))

----------------------------------------------------------------------------
\* Inputs for the guards, the constructors and the filters.

G == INSTANCE Guards
Q == INSTANCE Filters

Limit == 2
Table(s, n) == [schema |-> s, name |-> n]
Trees == [kind : {"select", "union", "subquery", "insert"}, outer : {G!Unbounded, 1, 3}, inner : {G!Unbounded, 1, 3},
          nodes : {{}, {"lock"}}, functions : {{}, {"pg_sleep"}, {"own"}},
          tables : SUBSET {Table("public", "a"), Table("public", "b"), Table("pg_catalog", "a")},
          ctes : {{}, {"b"}}, joins : {0, 2}]
SqlRules == [enabled : BOOLEAN, statements : {{"SELECT", "WITH"}}, functions : {{"own"}},
             tables : {{}, {"a"}}, joins : {1}, requireLimit : BOOLEAN]
SqlInputs == [s : [text : {"plain"}, tree : Trees], rules : SqlRules]
             \cup [s : [text : G!Unreadable, tree : {CHOOSE t \in Trees : t.kind = "select"}],
                   rules : SqlRules]
SqlKeeps(x) == G!SqlIsBounded(x.s, x.rules, Limit)

Call(k, n, l, w) == [keyed |-> k, arguments |-> n, expected |-> 4, last |-> l, walks |-> w]
Calls == {Call(1, 2, G!Unbounded, 1), Call(9, 2, G!Unbounded, 9), Call(G!Unbounded, 4, 2, 2),
          Call(G!Unbounded, 3, 2, 99), Call(G!Unbounded, 4, G!Unbounded, 99)}
CypherInputs ==
    [q : [text : {"plain", "several"}, keywords : {{}, {"CREATE"}},
          procedures : {{}, {"apoc.path.expand"}, {"apoc.periodic.commit"}}, nested : BOOLEAN, admin : {FALSE},
          quantified : BOOLEAN, paths : {{}} \cup {{c, d} : c, d \in Calls},
          ranges : SUBSET {[upper |-> G!Unbounded], [upper |-> 2], [upper |-> 9]},
          clauses : {{"MATCH", "RETURN"}, {"MATCH"}, {"CALL", "YIELD"}}, limits : {<<>>, <<1>>, <<9, 1>>}],
     rules : [enabled : {TRUE}, keywords : {{}}, hops : {3}]]
CypherKeeps(x) == G!CypherIsBounded(x.q, x.rules, Limit)

ConstructInputs == [target : {"sql", "cypher"}, replies : [1 .. 2 -> {"fails", "refused", "allowed"}],
                    dryRun : BOOLEAN, plans : BOOLEAN, runs : BOOLEAN, store : BOOLEAN,
                    enforced : BOOLEAN, isolation : {"reject", "rls"}]
ConstructKeeps(x) == G!StatementsAreAudited(x)

Fields == {"f", "g"}
Schema == [f \in Fields |-> IF f = "f" THEN "int" ELSE "str"]
Conditions == [field : {"f"}, op : {"eq", "ne", "gt", "gte", "lt", "lte"}, value : 1 .. 2]
              \cup [field : {"f"}, op : {"in", "nin", "range"}, value : {<<1, 2>>, <<2, 2>>}]
              \cup [field : {"g"}, op : {"eq", "gt"}, value : {1}]
              \cup [field : {"f"}, op : {"eq"}, value : {Q!Invalid}]
              \cup [field : {"h"}, op : {"eq"}, value : {1}]
Points == [fields : [Fields -> 1 .. 3], tenant : {"t", "u"}]
FilterInputs == {[conditions |-> c, combinator |-> b, tenant |-> t] :
                   c \in {c \in BoundedSeq(Conditions, 2) :
                            \A i, j \in DOMAIN c : i # j => Q!SideBySide(c[i], c[j])},
                   b \in {"and", "or"}, t \in {"t", "none"}}
FilterKeeps(x) == Q!FilterMeansAll(Points, x.conditions, x.combinator, Schema, x.tenant)

Matches == {m \in [start : 0 .. 3, end : 1 .. 4] : m.start < m.end}
PiiInputs == [matches : {M \in SUBSET Matches : Cardinality(M) <= 4}]
PiiKeeps(x) == Q!RedactedOnce(<<1, 2, 3, 4>>, x.matches)

InjectionInputs == [signals : SUBSET (1 .. 3), weight : [1 .. 3 -> {3, 5, 8}], threshold : {5, 7},
                    action : {"block", "sanitize", "flag"}]
InjectionKeeps(x) == Q!SignalsAddUp(x.signals, x.weight, x.threshold, x.action)
PointOf(i, t) == [id |-> i, tenant |-> t]
RankedPoints == [dense |-> <<PointOf(1, "u"), PointOf(2, "t"), PointOf(3, "t"), PointOf(4, "u"), PointOf(5, "t")>>,
                 sparse |-> <<PointOf(4, "u"), PointOf(5, "t"), PointOf(1, "u"), PointOf(2, "t"), PointOf(3, "t")>>,
                 colbert |-> <<PointOf(5, "t"), PointOf(1, "u"), PointOf(3, "t"), PointOf(4, "u"), PointOf(2, "t")>>]
PlanInputs ==
    [query : [given : {{}, {"dense"}, {"sparse", "colbert"}}, blank : {{}, {"sparse"}, {"colbert"}}],
     store : [embedders : SUBSET {"dense", "sparse", "colbert"}, configured : SUBSET {"sparse", "colbert"}, known : BOOLEAN,
              live : {{"dense"}, {"dense", "sparse"}, {"dense", "colbert"}}],
     limit : {1, 2},
     s : [dense : BOOLEAN, sparse : BOOLEAN, colbert : {TRUE}, fuse : BOOLEAN, threshold : {TRUE},
          fetch : {1, 3}, rerank : {1}]]
PlanKeeps(x) == Q!PlanIsSound(x.query, x.store, x.limit, x.s, RankedPoints, "t")

----------------------------------------------------------------------------
\* Inputs for the checks of answers.

C == INSTANCE Citations
A == INSTANCE Answering

Word(w, e) == [word |-> w, ends |-> e]
Document == <<Word(1, FALSE), Word(2, TRUE), Word(2, FALSE), Word(3, TRUE), Word(4, TRUE)>>

\* A chunk [first, last] of the document, with its neighbourhood as a window,
\* the whole as a parent, and whichever of them the packer put in the prompt.
Slice(first, last, performed, both) ==
    LET offsets == [x \in {"parent", "window"} |-> IF x = "parent" THEN 0 ELSE 1]
    IN  [id |-> first, modality |-> "text", level |-> 0, verbatim |-> TRUE, start |-> first - 1,
         content |-> CASE performed = "none" -> SubSeq(Document, first, last)
                       [] performed = "parent" -> Document
                       [] OTHER -> SubSeq(Document, 2, 5),
         performed |-> performed,
         offsets |-> IF both THEN offsets ELSE [x \in {performed} \ {"none"} |-> offsets[x]]]
Rewritten(modality, level) ==
    [id |-> 9, modality |-> modality, level |-> level, verbatim |-> FALSE, start |-> 0,
     content |-> <<Word(4, FALSE), Word(3, TRUE)>>, performed |-> "none", offsets |-> <<>>]
CitedPassages == {Slice(2, 3, p, b) : p \in {"none", "parent", "window"}, b \in BOOLEAN}
            \cup {Slice(3, 4, "none", FALSE), Rewritten("summary", 0), Rewritten("text", 1),
                  Rewritten("proposition", 0)}
Answers == {<<[claim |-> c, markers |-> m], [claim |-> d, markers |-> <<2, 1>>]>> :
               c \in {{}, {2}, {3}, {2, 4}}, d \in {{2}, {3, 4}}, m \in {<<>>, <<1>>, <<2, 1>>, <<0, 3>>}}
Evidence(s, first, last) == [supported |-> s, evidence |-> SubSeq(Document, first, last)]
Checks == {<<Evidence(FALSE, 3, 4), Evidence(TRUE, 4, 5), Evidence(TRUE, 3, 4)>>,
           <<[supported |-> TRUE, evidence |-> <<Word(2, FALSE), Word(3, TRUE), Word(9, TRUE)>>]>>}
CitationInputs == {[passages |-> <<p, q>>, answer |-> a, keep |-> k[1], checks |-> k[2]] :
                     p \in CitedPassages, q \in {Slice(3, 4, "none", FALSE), Rewritten("summary", 0), Slice(4, 5, "parent", TRUE)},
                     a \in Answers, k \in ({<<>>, <<1>>} \X {<<>>}) \cup ({<<1, 0>>} \X Checks)}
CitationKeeps(x) == (x.passages[1].id # x.passages[2].id) =>
    C!CitationsPoint(Document, x.passages, x.answer, x.keep, x.checks)

Patterns == {<<"d", "d", "d">>, <<"k", "w">>, <<"d", " ", "w">>}
Cuts(text) == {[i \in 1 .. Cardinality(Breaks) + 1 |->
                  LET at == C!Ordered(Breaks, <)
                  IN  SubSeq(text, IF i = 1 THEN 1 ELSE at[i - 1] + 1, IF i > Len(at) THEN Len(text) ELSE at[i])] :
                Breaks \in SUBSET (1 .. Len(text) - 1)}
StreamInputs == [text : [1 .. 5 -> {"d", "k", "w", " "}]]
StreamKeeps(x) == \A deltas \in Cuts(x.text) : C!StreamIsClean(deltas, Patterns)

Verdicts == BoundedSeq({"supported", "contradicted", "fails"}, 3)
GroundModels == [nli : {"present", "absent"}, best : {<<>>, <<40, 90>>, <<80, 90>>}, verdicts : Verdicts,
           grade : [grounded : BOOLEAN, unsupported : {0, 1}, score : {40, 70}]]
GroundInputs == [method : {"llm", "nli", "both"}, model : GroundModels, empty : {FALSE}, chunks : {0, 2},
                 threshold : {60}]
GroundKeeps(x) == A!GroundedIsSupported(x.method, FALSE, x.model, x.empty, x.chunks, x.threshold)

Numbers == [value : {1, 2}, magnitude : {1}] \cup [value : {10}, magnitude : {2}]
Samples == [lexical : {{"a"}, {"a", "b"}, {"b", "c"}}, numbers : {{}} \cup {{n} : n \in Numbers} \cup {Numbers}]
SampleInputs == [all : BoundedSeq(Samples \cup {A!Failed}, 3), threshold : {60}]
SampleKeeps(x) == A!ConsensusIsFair(x.all, x.threshold)

GenerateSettings == [allow : BOOLEAN, check : BOOLEAN, verify : BOOLEAN, cite : BOOLEAN, minChunks : {1, 2}]
GenerateReplies == [markers : {{}, {1}, {2}, {1, 3}}, misquoted : BOOLEAN, insufficient : BOOLEAN, evasive : BOOLEAN,
            grounds : {A!Grounds(TRUE, 90, 0), A!Grounds(FALSE, 90, 1), A!Grounds(FALSE, 10, 0), A!Unchecked}]
GenerateInputs == [g : GenerateSettings, chunks : {<<>>} \cup {<<[blank |-> b], [blank |-> TRUE]>> : b \in BOOLEAN},
                   packed : {<<>>, <<1>>, <<1, 2>>}, reply : GenerateReplies]
GenerateKeeps(x) == A!GivenIsChecked(x.g, x.chunks, x.packed, x.reply)

Trials == [abstained : BOOLEAN, own : BOOLEAN, ground : {"yes", "no", "fails"}, useful : {"yes", "no", "fails"},
           enough : {FALSE}, rewrite : {"same"}]
          \cup [abstained : {FALSE}, own : {FALSE}, ground : {"no"}, useful : {"yes"},
                enough : BOOLEAN, rewrite : {"fails", "new"}]
LoopInputs == [trials : BoundedSeq(Trials, 2) \ BoundedSeq(Trials, 1), allow : BOOLEAN]
LoopKeeps(x) == \A n \in 0 .. 1 : A!LoopsEnd(x.trials, n, x.allow)

Documents == [id : {"i"}, content : {"text", "blank"}, checksum : {1, 2}, tenant : {"none", "t"}, risky : BOOLEAN]
BatchInputs == [docs : BoundedSeq(Documents, 3), isolated : BOOLEAN, blocks : BOOLEAN]
BatchKeeps(x) == A!BatchIsAccounted(x.docs, x.isolated, x.blocks)

----------------------------------------------------------------------------
\* Inputs for the evaluation.

MT == INSTANCE Metrics
EV == INSTANCE Evaluation

MetricInputs == [row : BoundedSeq(1 .. 3, 3), labels : SUBSET (1 .. 3), k : 1 .. 3,
                 gains : {<<1, 1, 1>>, <<3, 1, 0>>, <<1, 2, 4>>}]
MetricKeeps(x) == MT!MetricsAreSound(x.row, x.labels, x.k, x.gains)

OverlapInputs == [a : BoundedSeq(1 .. 3, 4), b : BoundedSeq(1 .. 2, 3)]
OverlapKeeps(x) == MT!OverlapIsSymmetric(x.a, x.b)

JudgeInputs == [verdicts : BoundedSeq({"used", "unused", "fails"}, 3),
                outcome : [{"faithfulness", "context_recall"} -> {"scored", "fails", "skipped"}]]
JudgeKeeps(x) == MT!JudgesAreApart(x.verdicts, x.outcome)

DocumentOf == <<11, 11, 12>>
Case(id, labels, documents, unanswerable) ==
    [id |-> id, labels |-> labels, documents |-> documents, unanswerable |-> unanswerable]
Shapes == {<<{1}, {11}, FALSE>>, <<{2, 3}, {}, FALSE>>, <<{}, {12}, FALSE>>, <<{}, {}, TRUE>>}
Outcomes == [retrieved : {EV!Failed}, scoring : {0}, latency : {1}, abstained : {FALSE}]
            \cup [retrieved : {<<1, 2>>, <<3>>}, scoring : {0, 7}, latency : {1, 2}, abstained : {TRUE}]
            \cup [retrieved : {<<>>}, scoring : {EV!NaN}, latency : {1}, abstained : {TRUE, FALSE}]
SeriesInputs == {[cases |-> [i \in 1 .. 2 |-> Case(i, s[i][1], s[i][2], s[i][3])], outcome |-> o] :
                    s \in [1 .. 2 -> Shapes], o \in [1 .. 2 -> Outcomes]}
SeriesKeeps(x) == EV!SeriesAreAligned(x.cases, x.outcome, DocumentOf, 2)

Draws == [n \in 0 .. 3 |-> [1 .. n -> 1 .. n]]
Runs == UNION {[Cases -> {EV!NaN, 0, 1, 3}] : Cases \in SUBSET (1 .. 3)}
CompareInputs == [metric : {"latency_ms", "recall"}, baseline : Runs, candidate : [1 .. 3 -> {EV!NaN, 0, 2}]]
CompareKeeps(x) == EV!ComparisonsAreFair(x.metric, x.baseline, x.candidate, Draws, 1)

Questions == [kind : {"good"}, text : {"q", "r"}, paraphrase : {"fails", "same", "p", "r2"}]
             \cup [kind : {"referential"}, text : {"q"}, paraphrase : {"same"}]
Asked(id, failed, questions) == [id |-> id, failed |-> failed, questions |-> questions]
DatasetInputs == {<<Asked(1, f, a), Asked(2, FALSE, b)>> :
                    f \in BOOLEAN, a \in BoundedSeq(Questions, 2), b \in BoundedSeq(Questions, 1)}
DatasetKeeps(x) == EV!DatasetIsAccounted(x)

AS == INSTANCE Asking WITH Blank <- 0, IsShort <- LAMBDA t : t < 10, IsClose <- LAMBDA a, b : a \div 10 = b \div 10,
                           MaxVariants <- 3

\* 10 is the question, 11 a text close to it, 21 one close to 20, 5 a short one.
TextReplies == {<<20, 21, 11>>, <<30, 5, 20>>, <<0, 40>>, <<21>>, <<50, 60, 70, 80>>}
Step(kind, fails, texts) == [kind |-> kind, fails |-> fails, reply |-> [texts |-> texts, decomposable |-> TRUE, fails |-> fails]]
TranslateSteps == {Step(k, FALSE, t) : k \in {"rag_fusion", "step_back", "decomposition", "hyde"}, t \in TextReplies}
                  \cup {Step("multi_query", TRUE, <<20, 30>>), Step("hyde", FALSE, <<0>>)}
TranslateInputs == [variants : {<<>>, <<20>>}, text : {10, 90}, steps : BoundedSeq(TranslateSteps, 2)]
                   \cup [variants : {<<>>}, text : {10},
                         steps : {<<a, b, c>> : a, b, c \in {s \in TranslateSteps : s.reply.texts \in {<<20, 21, 11>>, <<30, 5, 20>>}}}]
Questioned(text, variants) == [text |-> text, original |-> 10, variants |-> variants, documents |-> <<>>, blend |-> 0,
                               subs |-> <<>>, scope |-> "tenant"]
TranslateKeeps(x) == AS!TranslationIsSound(Questioned(x.text, x.variants), x.steps)

ChainSteps == [texts : TextReplies \cup {<<0, 0, 20>>, <<0>>}, decomposable : BOOLEAN, fails : BOOLEAN, steps : 1 .. 3,
               failing : {{}, {1}, {2}}]
StepsKeep(x) == AS!ChainIsSound(Questioned(10, <<>>), x, x.steps, x.failing)

StoreNames == {"vector", "relational", "graph", "none", "unknown"}
RouteInputs == [cues : SUBSET {"talk", "relational", "graph"}, names : {n \in BoundedSeq(StoreNames, 3) : Len(n) < 3 \/ n[1] = n[3]},
                allowed : {{"vector", "relational", "graph", "web", "none"}, {"relational", "none"}, {"graph"}},
                fails : BOOLEAN, similar : {<<>>, <<40, 10>>}]
RouteKeeps(x) == AS!RouteIsSound(x.cues, [fails |-> x.fails, names |-> x.names, prompt |-> "model", confidence |-> 60],
                                 x.allowed, <<[prompt |-> "technical", similar |-> x.similar]>>, 30)

Similarities == BoundedSeq({0 - 100, 20, 40, 60}, 2)
PromptInputs == [first : Similarities, second : Similarities, route : {1, 2}, similarity : {0 - 100, 20, 30, 60},
                 hints : {<<"fails", "given">>, <<"given", "fails", "given">>, <<>>}]
PromptKeeps(x) ==
    AS!PromptIsSteady(<<[prompt |-> "technical", similar |-> x.first], [prompt |-> "default", similar |-> x.second]>>,
                      x.route, x.similarity, 30, x.hints)
=============================================================================
