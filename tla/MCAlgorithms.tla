---------------------------- MODULE MCAlgorithms ----------------------------
(***************************************************************************)
(* The pure algorithms over small inputs: a behaviour picks an area and    *)
(* then one input of it, and the invariants say what each area promises of *)
(* every input.                                                            *)
(***************************************************************************)
EXTENDS MCInputs, MCKnowledge

VARIABLES area, input

Areas == {"fusion", "noise", "packing", "compress", "rerank", "maxsim", "listwise",
          "prose", "sentences", "tokens", "semantic", "markdown", "code",
          "sql", "cypher", "construct", "filter", "pii", "injection",
          "citations", "stream", "ground", "samples", "generate", "loops", "batch",
          "metrics", "overlap", "judges", "series", "compare", "dataset",
          "resolve", "local", "wide", "iterate", "bridge",
          "late", "cluster", "tree", "unit", "child", "place",
          "search", "foreign", "chain",
          "hybrid", "lexical", "web",
          "index",
          "translate", "steps", "route", "prompt",
          "extract", "hierarchy", "report",
          "front", "records", "rows", "pages", "walk", "moves", "uploads", "posts", "cases",
          "corrective",
          "plan"}

Init == area \in Areas /\ input = <<>>

Pick(a, Inputs) == /\ area = a /\ input = <<>>
                   /\ \E x \in Inputs : input' = <<x>>
                   /\ UNCHANGED area

Next == \/ Pick("fusion", FusionInputs)
        \/ Pick("noise", NoiseInputs)
        \/ Pick("packing", PackingInputs)
        \/ Pick("compress", CompressInputs)
        \/ Pick("rerank", RerankInputs)
        \/ Pick("maxsim", MaxSimInputs)
        \/ Pick("listwise", ListwiseInputs)
        \/ Pick("prose", ProseInputs)
        \/ Pick("sentences", SentenceInputs)
        \/ Pick("tokens", TokenInputs)
        \/ Pick("semantic", SemanticInputs)
        \/ Pick("markdown", MarkdownInputs)
        \/ Pick("code", CodeInputs)
        \/ Pick("sql", SqlInputs)
        \/ Pick("cypher", CypherInputs)
        \/ Pick("construct", ConstructInputs)
        \/ Pick("filter", FilterInputs)
        \/ Pick("pii", PiiInputs)
        \/ Pick("injection", InjectionInputs)
        \/ Pick("citations", CitationInputs)
        \/ Pick("stream", StreamInputs)
        \/ Pick("ground", GroundInputs)
        \/ Pick("samples", SampleInputs)
        \/ Pick("generate", GenerateInputs)
        \/ Pick("loops", LoopInputs)
        \/ Pick("batch", BatchInputs)
        \/ Pick("metrics", MetricInputs)
        \/ Pick("overlap", OverlapInputs)
        \/ Pick("judges", JudgeInputs)
        \/ Pick("series", SeriesInputs)
        \/ Pick("compare", CompareInputs)
        \/ Pick("dataset", DatasetInputs)
        \/ Pick("resolve", ResolveInputs)
        \/ Pick("local", LocalInputs)
        \/ Pick("wide", WideInputs)
        \/ Pick("iterate", IterateInputs)
        \/ Pick("bridge", BridgeInputs)
        \/ Pick("late", LateInputs)
        \/ Pick("cluster", ClusterInputs)
        \/ Pick("tree", TreeInputs)
        \/ Pick("unit", UnitInputs)
        \/ Pick("child", ChildInputs)
        \/ Pick("place", PlaceInputs)
        \/ Pick("search", SearchInputs)
        \/ Pick("foreign", ForeignInputs)
        \/ Pick("chain", ChainInputs)
        \/ Pick("hybrid", HybridInputs)
        \/ Pick("lexical", LexicalInputs)
        \/ Pick("web", WebInputs)
        \/ Pick("index", IndexInputs)
        \/ Pick("translate", TranslateInputs)
        \/ Pick("steps", ChainSteps)
        \/ Pick("route", RouteInputs)
        \/ Pick("prompt", PromptInputs)
        \/ Pick("extract", ExtractInputs)
        \/ Pick("hierarchy", HierarchyInputs)
        \/ Pick("report", ReportInputs)
        \/ Pick("front", FrontInputs)
        \/ Pick("records", RecordInputs)
        \/ Pick("rows", RowInputs)
        \/ Pick("pages", PageInputs)
        \/ Pick("walk", WalkInputs)
        \/ Pick("moves", MoveInputs)
        \/ Pick("uploads", UploadInputs)
        \/ Pick("posts", PostInputs)
        \/ Pick("cases", CaseInputs)
        \/ Pick("corrective", GradeInputs)
        \/ Pick("plan", PlanInputs)

Given(a) == area = a /\ input # <<>>

\* From the lists of the legs to the context: fusion never turns agreement
\* around, a duplicate never takes its better copy with it, compression leaves
\* only what the source says, no reranker loses a candidate however its model
\* fails, a grade that was not given decides nothing, a leg that is down takes
\* nothing from the others, and packing keeps the budget and every share of it
\* (retrieve/fusion.py, hybrid.py, bm25.py, web.py, noise.py, compress.py,
\* rerank.py, rankgpt.py, crag.py, context/pack.py).
RankingIsSound ==
    /\ Given("fusion") => FusionKeeps(input[1])
    /\ Given("noise") => NoiseKeeps(input[1])
    /\ Given("packing") => PackingKeeps(input[1])
    /\ Given("compress") => CompressKeeps(input[1])
    /\ Given("rerank") => RerankKeeps(input[1])
    /\ Given("maxsim") => MaxSimKeeps(input[1])
    /\ Given("listwise") => ListwiseKeeps(input[1])
    /\ Given("hybrid") => HybridKeeps(input[1])
    /\ Given("lexical") => LexicalKeeps(input[1])
    /\ Given("web") => WebKeeps(input[1])
    /\ Given("corrective") => GradeKeeps(input[1])

\* From files to chunks nothing is lost in silence: a file, a record, a row or a
\* part that cannot be read costs no document but its own, what is loaded keeps
\* its identity, and every splitter returns chunks that pass the validation of the
\* base class, lose no character, keep to their maximum size and mix no two
\* sections (index/loaders.py, server/app.py, index/split).
ChunksAreWhole ==
    /\ Given("prose") => ProseKeeps(input[1])
    /\ Given("sentences") => SentencesKeep(input[1])
    /\ Given("tokens") => TokensKeep(input[1])
    /\ Given("semantic") => SemanticKeeps(input[1])
    /\ Given("markdown") => MarkdownKeeps(input[1])
    /\ Given("code") => CodeKeeps(input[1])
    /\ Given("front") => FrontKeeps(input[1])
    /\ Given("records") => RecordKeeps(input[1])
    /\ Given("rows") => RowKeeps(input[1])
    /\ Given("pages") => PagesKeep(input[1])
    /\ Given("walk") => WalkKept(input[1])
    /\ Given("moves") => MoveKeeps(input[1])
    /\ Given("uploads") => UploadKeeps(input[1])
    /\ Given("posts") => PostKeeps(input[1])
    /\ Given("cases") => CasesKeep(input[1])
\* From words to what a store runs: a question keeps its scope through every
\* translator and reaches a store by every route; a statement that a model wrote
\* runs only within the bounds of its guard and after one audit of its verdict; a
\* filter that a model understood means all of its conditions and stays with the
\* tenant, as every leg does, on every plan of a search; what detectors find is
\* gone once (translate/, route/, security/, construct/, stores/qdrant/filters.py
\* and its store.py, retrieve/vector.py, adapters/langchain.py).
StatementsAreGuarded ==
    /\ Given("sql") => SqlKeeps(input[1])
    /\ Given("cypher") => CypherKeeps(input[1])
    /\ Given("construct") => ConstructKeeps(input[1])
    /\ Given("filter") => FilterKeeps(input[1])
    /\ Given("pii") => PiiKeeps(input[1])
    /\ Given("injection") => InjectionKeeps(input[1])
    /\ Given("search") => SearchKeeps(input[1])
    /\ Given("foreign") => ForeignKeeps(input[1])
    /\ Given("chain") => ChainKeeps(input[1])
    /\ Given("translate") => TranslateKeeps(input[1])
    /\ Given("steps") => StepsKeep(input[1])
    /\ Given("route") => RouteKeeps(input[1])
    /\ Given("prompt") => PromptKeeps(input[1])
    /\ Given("plan") => PlanKeeps(input[1])
\* An answer that is given was checked: its citations point at a sentence of the
\* document that has to do with the claim, and quote it or what a verifier found
\* in the same passage; what is streamed is as clean as the whole, what is called
\* grounded was supported, and no loop passes off an answer that nothing vouched
\* for (generate/, validate/).
AnswersAreChecked ==
    /\ Given("citations") => CitationKeeps(input[1])
    /\ Given("stream") => StreamKeeps(input[1])
    /\ Given("ground") => GroundKeeps(input[1])
    /\ Given("samples") => SampleKeeps(input[1])
    /\ Given("generate") => GenerateKeeps(input[1])
    /\ Given("loops") => LoopKeeps(input[1])
    /\ Given("batch") => BatchKeeps(input[1])

\* An evaluation says what happened: a metric rises with what it measures and
\* with nothing else, a value stays with its case whichever cases fail, a verdict
\* needs pairs and turns with its sides, and every generated question is
\* accounted for (eval/).
EvaluationIsFair ==
    /\ Given("metrics") => MetricKeeps(input[1])
    /\ Given("overlap") => OverlapKeeps(input[1])
    /\ Given("judges") => JudgeKeeps(input[1])
    /\ Given("series") => SeriesKeeps(input[1])
    /\ Given("compare") => CompareKeeps(input[1])
    /\ Given("dataset") => DatasetKeeps(input[1])
\* What is known of the corpus stays known: extraction and resolution lose no
\* mention, no source and no weight and join no two names that disagree;
\* communities are a tree over the entities and each has its report; what stands
\* for a chunk points back at it; a walk over the graph keeps to its bounds in any
\* order; and no search hides what is ahead in every signal (index/graph,
\* index/raptor.py, index/multirep, embed/late_chunking.py, retrieve/graph.py,
\* retrieve/multihop.py, retrieve/bm25.py).
KnowledgeIsKept ==
    /\ Given("resolve") => ResolveKeeps(input[1])
    /\ Given("local") => LocalKeeps(input[1])
    /\ Given("wide") => WideKeeps(input[1])
    /\ Given("iterate") => IterateKeeps(input[1])
    /\ Given("bridge") => BridgeKeeps(input[1])
    /\ Given("late") => LateKeeps(input[1])
    /\ Given("cluster") => ClusterKeeps(input[1])
    /\ Given("tree") => TreeKeeps(input[1])
    /\ Given("unit") => UnitKeeps(input[1])
    /\ Given("child") => ChildKeeps(input[1])
    /\ Given("place") => PlaceKeeps(input[1])
    /\ Given("index") => BuildKeeps(input[1])
    /\ Given("extract") => ExtractKeeps(input[1])
    /\ Given("hierarchy") => HierarchyKeeps(input[1])
    /\ Given("report") => ReportKeeps(input[1])

\* "re-uploading the same file" is a skip (server/app.py, RagService.ingest): the
\* same files uploaded twice are the same documents.
UploadsAreKnown == Given("uploads") => UploadsKnown(input[1])
=============================================================================
