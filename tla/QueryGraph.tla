----------------------------- MODULE QueryGraph -----------------------------
(***************************************************************************)
(* RAGPipeline.query and stream over the seven graphs: the nodes of        *)
(* pipeline/nodes.py run in supersteps.  The nodes that are due read the   *)
(* channels as the superstep found them and return what they changed; when *)
(* all have returned, the changes are applied together and the edges of    *)
(* GraphShapes say which nodes are due next.                               *)
(*                                                                         *)
(* Chunks are told apart by what graded retrieval did to them: "kept" as   *)
(* relevant, "rejected", never graded ("ungraded"), or added by a "hop".   *)
(* A list of chunks is the set of the kinds that may be in it, empty       *)
(* exactly when the list is.                                               *)
(***************************************************************************)
EXTENDS GraphShapes

CONSTANTS Configurations,  \* settings a query may run under
          Ample,           \* a call ceiling no query of these bounds reaches
          GradeCap,        \* grader calls one grading may take
          MapCap,          \* reports a global search asks the model about
          Sentinels        \* supersteps LangGraph spends on START and END

ASSUME QueryAssumption ==
    /\ \A s \in Configurations :
         /\ s.graph \in DOMAIN Edges
         /\ {s.retries, s.rewrites, s.hops} \subseteq Nat
         /\ {s.stop, s.allow, s.stream} \subseteq BOOLEAN
         /\ s.ceiling \in Nat \cup {Ample}
         /\ s.routes \subseteq SUBSET (Stores \cup {"none"})
    /\ {GradeCap, MapCap, Sentinels} \subseteq Nat

Chunks == {"kept", "rejected", "ungraded", "hop"}
Grades == {"unset", "correct", "ambiguous", "incorrect"}
Reserved == 4   \* _RESERVED_CALLS, in agentic.py and in retrieve/crag.py

VARIABLES settings,  \* graph, retries (self_rag_max_retries), rewrites
                     \* (rrr_max_rewrites), hops (multihop_max_iterations), stop
                     \* (multihop_stop_on_sufficient), allow (allow_abstention),
                     \* stream, ceiling (max_llm_calls_per_query), routes
                     \* (what the router may decide on)
          ch,        \* the channels of RAGState, and two ghosts
          due,       \* nodes of this superstep
          partials,  \* what the nodes that have returned changed
          step,      \* supersteps begun
          calls,     \* calls on the ledger, counted below an ample ceiling only
          outcome,   \* how the query ended
          cached,    \* the answer was put in the semantic cache
          fresh      \* ghost: grades written since the answer they grade

vars == <<settings, ch, due, partials, step, calls, outcome, cached, fresh>>

\* Channels with a reducer; in every other one the last value counts.
Joined == {"legs", "web"}             \* operator.add, merge_store_lists
Flags == {"errors", "lost", "uncounted"}

\* check_sufficiency: follow_up is empty, or it is not and the evidence is
\* sufficient or not.
Reports == {"nothing_to_ask", "sufficient", "insufficient"}

ChannelsOK ==
    /\ ch.route \in settings.routes \cup {{}, {"vector"}}
    /\ ch.retrieval \subseteq Chunks /\ ch.legs \subseteq Chunks
    /\ ch.web \subseteq {"web"}
    /\ ch.grade \in Grades
    /\ {ch.grounded, ch.useful} \subseteq BOOLEAN
    /\ {ch.errors, ch.lost, ch.uncounted} \subseteq BOOLEAN
    /\ ch.report \in Reports
    /\ ch.answer \in {"none", "answer", "abstained"}
    /\ {ch.retrieve_iterations, ch.generate_iterations} \subseteq Nat
    /\ ch.search_mode \in {"", "bridge"} \cup DOMAIN ModeNode

Outcomes == {"running", "answered", "streamed",   \* the caller has an answer
             "refused", "budget", "net", "race"}  \* the caller has an exception

\* Types; a query stays within its supersteps and its calls, and asks no store
\* that the router, or the fallback of a failed router, did not choose.
TypeOK ==
    /\ settings \in Configurations
    /\ ChannelsOK
    /\ DOMAIN partials \subseteq due
    /\ step \in 0 .. RecursionLimit(settings)
    /\ calls \in Nat /\ (settings.ceiling # Ample => calls <= settings.ceiling)
    /\ outcome \in Outcomes
    /\ cached \in BOOLEAN
    /\ fresh \subseteq {"grounded", "useful"}

Nothing == [c \in {} |-> {}]   \* the empty partial state

\* ghosts: lost, a leg of some retrieval failed; uncounted, an answer attempt
\* left generate_iterations alone.
InitialState ==
    [route |-> {}, retrieval |-> {}, legs |-> {}, web |-> {}, grade |-> "unset",
     grounded |-> TRUE, useful |-> TRUE, report |-> "nothing_to_ask",
     errors |-> FALSE, search_mode |-> "", retrieve_iterations |-> 0,
     generate_iterations |-> 0, answer |-> "none", lost |-> FALSE,
     uncounted |-> FALSE]

Init ==
    /\ settings \in Configurations
    /\ ch = InitialState
    /\ due = {"validate"} /\ step = 1
    /\ partials = Nothing
    /\ calls = 0
    /\ outcome = "running" /\ cached = FALSE
    /\ fresh = {}

----------------------------------------------------------------------------
(* The ledger. *)

Counted == settings.ceiling # Ample
Remaining == settings.ceiling - calls

\* CostLedger.check lets a node make n more calls, one after the other.
Affords(n) == Counted => n <= Remaining

\* agentic.budget_available.
Room(spent) == Counted => settings.ceiling - spent > Reserved

\* retrieve/crag._call_allowance when the stage has made some calls already,
\* within the documents and strips there are.
Allowance(made) ==
    LET left == Remaining - made
    IN  IF Counted /\ left < Reserved + GradeCap
        THEN IF left > Reserved THEN left - Reserved ELSE 0
        ELSE GradeCap

\* Strategies of translation, a call each: _FULL_TRANSLATORS for the agentic
\* graph, one for every other.
Strategies == IF settings.graph = "agentic" THEN 4 ELSE 1

\* Stores asked in a language that a model writes (the graph store only while
\* graph.enabled is off); a statement that its guard refuses is written again.
Generated == {"relational", "graph"}
LegCalls == [d \in Stores |-> IF d \in Generated THEN 2 ELSE 0]

\* Calls the stores of the route may take: BudgetExceeded is the one failure of
\* a leg that escapes its fan-out.
RouteCalls ==
    LET of(d) == IF d \in ch.route THEN LegCalls[d] ELSE 0
    IN  of("relational") + of("graph")

----------------------------------------------------------------------------
(* Nodes. *)

\* Node n has made its calls and returned partial state p; or BudgetExceeded,
\* which escapes every node.
Return(n, p, cost) ==
    /\ outcome = "running" /\ n \in due \ DOMAIN partials
    /\ \/ /\ Affords(cost)
          /\ partials' = [m \in DOMAIN partials \cup {n} |->
                            IF m = n THEN p ELSE partials[m]]
          /\ calls' = IF Counted THEN calls + cost ELSE calls
          /\ UNCHANGED outcome
       \/ /\ ~Affords(cost)
          /\ outcome' = "budget"
          /\ UNCHANGED <<partials, calls>>
    /\ UNCHANGED <<settings, ch, due, step, cached, fresh>>

\* state.failure; what failed may have spent a call.
Failure == [errors |-> TRUE]
Fails(n, p) == \E cost \in {0, 1} : Return(n, p, cost)

\* ValidationFailed and GuardrailViolation escape.
Validate ==
    \/ Return("validate", Nothing, 0)
    \/ /\ outcome = "running" /\ "validate" \in due
       /\ outcome' = "refused"
       /\ UNCHANGED <<settings, ch, due, partials, step, calls, cached, fresh>>

\* translate and construct change the query's words and filters only.  The
\* chain of translators goes on past one that fails, even for want of a call.
Translate ==
    \E cost \in 0 .. Strategies :
        Affords(cost) /\ Return("translate", Nothing, cost)

Construct ==
    \/ \E cost \in {0, 1} : Return("construct", Nothing, cost)
    \/ Fails("construct", Failure)

\* Mutation: without a decision every store is asked.
RouteToAll == Stores

\* _route_or_default.
DefaultRoute == {"vector"}

Route ==
    \/ \E r \in settings.routes, cost \in {0, 1} : Return("route", [route |-> r], cost)
    \/ Fails("route", [route |-> DefaultRoute, errors |-> TRUE])

\* What the retriever finds for the route, and whether it loses a leg; a none
\* route asks no store.
Asks == ch.route # {"none"}
Found(kind) == IF Asks THEN {{}, {kind}} ELSE {{}}
Loses == IF Asks THEN BOOLEAN ELSE {FALSE}

\* Legs that fail inside the retriever are on its result, and this node puts
\* them on the state.
Retrieve ==
    \E cost \in 0 .. RouteCalls :
        \/ \E found \in Found("ungraded"), down \in Loses :
             Return("retrieve", [retrieval |-> found, legs |-> found,
                                 errors |-> down, lost |-> down], cost)
        \/ Return("retrieve", [retrieval |-> {}, errors |-> TRUE, lost |-> TRUE],
                  cost)

\* Mutation: the leg writes the authoritative list.
LegWritesRetrieval(found, down) ==
    [legs |-> found, retrieval |-> found, errors |-> down, lost |-> down]

\* What one leg of the fan-out returns, by the reducers alone.
LegResult(found, down) == [legs |-> found, errors |-> down, lost |-> down]

StoreLeg ==
    \E d \in Stores, found \in {{}, {"ungraded"}}, down \in BOOLEAN :
        \E cost \in 0 .. LegCalls[d] :
            Return(StoreNode[d], LegResult(found, down), cost)

\* A global search asks the model about each report, and leaves out those it
\* has no call for.
MapCalls(m) == IF m = "global" THEN MapCap ELSE 0

GraphSearch ==
    \E m \in DOMAIN ModeNode, found \in {{}, {"ungraded"}}, down \in BOOLEAN :
        \E cost \in 0 .. MapCalls(m) :
            /\ down => found = {}
            /\ Affords(cost)
            /\ Return(ModeNode[m], [legs |-> found, errors |-> down, lost |-> down,
                                    search_mode |-> m], cost)

\* The noise filter keeps some of what is fused, or nothing.
Fuse ==
    \E kept \in {{}, ch.legs} : Return("fuse", [retrieval |-> kept], 0)

\* Mutation: the collected list is rebuilt from every leg.
CollectFromLegs == ch.legs

\* What collect fuses: what the pipeline endorses, and the hops.
Endorsed == ch.retrieval \cup (ch.legs \cap {"hop"})

Collect ==
    \E kept \in {{}, Endorsed} : Return("collect", [retrieval |-> kept], 0)

\* The reranker keeps top_k and the compressor at least one chunk, or all: no
\* list is emptied, and any kind of chunk may be left.
Narrow(n) ==
    \/ Return(n, [retrieval |-> ch.retrieval], 0)
    \/ ch.retrieval # {} /\ Return(n, Failure, 0)

Rerank == Narrow("rerank")
Compress == \E n \in {"refine", "compress"} : Narrow(n)

\* CorrectiveRAG.run without its web leg.  No document at all is a verdict
\* (incorrect); no usable grade, or no call left to grade with, is none.
\* A leg that failed is on the result, and this node leaves it there.
NoVerdict(down) ==
    [retrieval |-> {"ungraded"}, legs |-> {"ungraded"}, grade |-> "unset",
     lost |-> down]

NoDocuments(down) ==
    [retrieval |-> {}, legs |-> {}, grade |-> "incorrect", lost |-> down]

\* _label and _assemble: an incorrect head takes the ungraded tail with it.
Graded(verdict, tail, down) ==
    [retrieval |-> IF verdict = "incorrect" THEN {} ELSE {"kept"} \cup tail,
     legs |-> tail \cup (IF verdict = "incorrect" THEN {} ELSE {"kept"})
                   \cup (IF verdict = "correct" THEN {} ELSE {"rejected"}),
     grade |-> verdict, lost |-> down]

Grade ==
    \E made \in 0 .. RouteCalls :
        \/ \E down \in Loses :
             \/ Return("grade", NoDocuments(down), made)
             \/ /\ Asks
                /\ \E more \in 0 .. Allowance(made) :
                     Return("grade", NoVerdict(down), made + more)
             \/ /\ Asks
                /\ \E verdict \in Grades \ {"unset"}, tail \in {{}, {"ungraded"}},
                      more \in 1 .. Allowance(made) :
                     /\ verdict = "ambiguous" => more >= 2
                     /\ Return("grade", Graded(verdict, tail, down), made + more)
        \/ Return("grade", [grade |-> "unset", errors |-> TRUE, lost |-> TRUE], made)

\* Mutation: a failed rewrite is not counted.
FailedRewriteUncounted == Failure

\* A failed or unchanged rewrite is an iteration too.
RewriteFailed ==
    [retrieve_iterations |-> ch.retrieve_iterations + 1, errors |-> TRUE]

Rewrite ==
    \E n \in {"rewrite", "retry"} :
        \/ Return(n, [retrieve_iterations |-> ch.retrieve_iterations + 1], 1)
        \/ Fails(n, RewriteFailed)

WebSearch ==
    \/ \E found \in {{}, {"web"}} : Return("web_search", [web |-> found], 0)
    \/ Return("web_search", Failure, 0)

CheckSufficiency ==
    \/ \E r \in Reports : Return("check_sufficiency", [report |-> r], 1)
    \/ Fails("check_sufficiency", [report |-> "nothing_to_ask", errors |-> TRUE])

\* A leg that failed inside the retriever stays on its result, as in grade.
Hop ==
    \E cost \in 0 .. RouteCalls :
        \/ \E found \in Found("hop"), down \in Loses :
             Return("hop", [legs |-> found, lost |-> down,
                            retrieve_iterations |-> ch.retrieve_iterations + 1],
                    cost)
        \/ Return("hop", [retrieve_iterations |-> ch.retrieve_iterations + 1,
                          errors |-> TRUE, lost |-> TRUE], cost)

Bridge ==
    \/ Return("bridge", Nothing, 0)
    \/ Return("bridge", [retrieval |-> {"ungraded"}, legs |-> {"ungraded"},
                         search_mode |-> "bridge"], 0)
    \/ Return("bridge", [errors |-> TRUE, lost |-> TRUE], 0)

\* seed, gate and reduce change no channel that a decision reads.
PassThrough == \E n \in {"seed", "gate", "reduce"} : Return(n, Nothing, 0)

Classify ==
    \E m \in DOMAIN ModeNode : Return("classify", [search_mode |-> m], 0)

----------------------------------------------------------------------------
(* Answers. *)

\* state.evidence of channels s.
Evidence(s) == s.retrieval \cup s.web

\* A node failure, or a direct answer that failed: neither the grades nor the
\* counter are written.
GenerateFails ==
    Fails("generate", [answer |-> "abstained", errors |-> TRUE, uncounted |-> TRUE])

\* _answer_without_retrieval: grounded is written, the counter is not.
AnswerDirectly ==
    /\ Evidence(ch) = {} /\ "none" \in ch.route
    /\ Return("generate",
              [answer |-> "answer", grounded |-> FALSE, uncounted |-> TRUE], 1)

\* AnswerGenerator.generate: the gate for no evidence, synthesis, the
\* groundedness check, and the gates after it.
Synthesise(kind, grounded, cost) ==
    Return("generate",
           [answer |-> kind, grounded |-> grounded,
            generate_iterations |-> ch.generate_iterations + 1], cost)

Generate ==
    \/ AnswerDirectly
    \/ GenerateFails
    \/ /\ Evidence(ch) = {} /\ "none" \notin ch.route
       /\ Synthesise("abstained", FALSE, 0)
    \/ /\ Evidence(ch) # {}
       /\ \E kind \in {"answer", "abstained"}, grounded \in BOOLEAN, cost \in {1, 2} :
            /\ grounded => cost = 2
            /\ kind = "answer" /\ settings.allow => grounded
            /\ kind = "abstained" => settings.allow
            /\ Synthesise(kind, grounded, cost)

Gradable == ch.answer = "answer"

\* The chunks of the answer are the evidence still, and its own verdict on
\* groundedness is the one generate wrote.
VerifyGroundedness ==
    \/ ~Gradable /\ Return("verify_groundedness", Nothing, 0)
    \/ /\ Gradable /\ Evidence(ch) = {}
       /\ Return("verify_groundedness", [grounded |-> FALSE], 0)
    \/ /\ Gradable /\ Evidence(ch) # {}
       /\ \/ \E g \in BOOLEAN : Return("verify_groundedness", [grounded |-> g], 1)
          \/ Fails("verify_groundedness", [grounded |-> ch.grounded, errors |-> TRUE])

\* Mutation: a failed utility grader leaves the last grade standing.
FailedUtilityWritesNothing == Failure

\* A broken utility grader cannot veto.
UtilityFailed == [useful |-> TRUE, errors |-> TRUE]

VerifyUtility ==
    \/ ~Gradable /\ Return("verify_utility", Nothing, 0)
    \/ /\ Gradable
       /\ \/ \E u \in BOOLEAN : Return("verify_utility", [useful |-> u], 1)
          \/ Fails("verify_utility", UtilityFailed)

\* The judge stamps the verdict on the answer it was handed.
Judge == Return("judge", [answer |-> ch.answer], 0)

\* Without allow_abstention the last answer is kept as it is.
Abstain ==
    Return("abstain",
           IF settings.allow
           THEN [answer |-> "abstained", grounded |-> FALSE]
           ELSE Nothing, 0)

----------------------------------------------------------------------------
(* Supersteps. *)

Writers(c) == {n \in DOMAIN partials : c \in DOMAIN partials[n]}

\* The channels after the superstep.
Applied ==
    [c \in DOMAIN ch |->
       IF Writers(c) = {} THEN ch[c]
       ELSE IF c \in Joined THEN ch[c] \cup UNION {partials[n][c] : n \in Writers(c)}
       ELSE IF c \in Flags THEN ch[c] \/ \E n \in Writers(c) : partials[n][c]
       ELSE partials[CHOOSE n \in Writers(c) : TRUE][c]]

\* InvalidUpdateError.
Raced ==
    \E c \in DOMAIN ch \ (Joined \cup Flags), n, m \in DOMAIN partials :
        n # m /\ {n, m} \subseteq Writers(c)

Following ==
    UNION {Successors(settings, n, Applied, Room(calls)) : n \in due}

Complete == outcome = "running" /\ due # {} /\ DOMAIN partials = due

\* The grades written since the answer, which a retry gives up.
Regraded ==
    LET wrote == {c \in {"grounded", "useful"} : Writers(c) # {}}
    IN  IF "retry" \in due THEN {}
        ELSE IF "generate" \in due THEN wrote ELSE fresh \cup wrote

\* CompiledStateGraph's loop: past the recursion limit it raises.
AtLimit == step + Sentinels >= RecursionLimit(settings)

Continue ==
    /\ Complete /\ ~Raced
    /\ Following # {} /\ ~AtLimit
    /\ ~(settings.stream /\ "generate" \in Following)
    /\ ch' = Applied
    /\ due' = Following /\ partials' = Nothing
    /\ step' = step + 1
    /\ fresh' = Regraded
    /\ UNCHANGED <<settings, calls, outcome, cached>>

Overrun == Following # {} /\ AtLimit

\* GraphRecursionError, or InvalidUpdateError before it: neither is caught.
Raise ==
    /\ Complete
    /\ Raced \/ Overrun
    /\ outcome' = IF Raced THEN "race" ELSE "net"
    /\ UNCHANGED <<settings, ch, due, partials, step, calls, cached, fresh>>

\* _retrieve_for_stream interrupts the graph before generate, and the
\* generator streams from the evidence.
Stream ==
    /\ Complete /\ ~Raced /\ ~AtLimit
    /\ settings.stream /\ "generate" \in Following
    /\ ch' = Applied
    /\ due' = Following /\ partials' = Nothing
    /\ outcome' = "streamed"
    /\ UNCHANGED <<settings, step, calls, cached, fresh>>

\* Mutation: degraded answers are cached.
CacheableAnyway(s) == s.answer = "answer"

\* _cache_set refuses what came with errors, SemanticCache an abstention.
Cacheable(s) == ~s.errors /\ s.answer = "answer"

\* END: _finish and _cache_set.
Finish ==
    /\ Complete /\ ~Raced
    /\ Following = {}
    /\ ch' = Applied
    /\ due' = {} /\ partials' = Nothing
    /\ outcome' = "answered"
    /\ cached' = Cacheable(Applied)
    /\ fresh' = Regraded
    /\ UNCHANGED <<settings, step, calls>>

Next ==
    \/ Validate \/ Translate \/ Construct \/ Route
    \/ Retrieve \/ StoreLeg \/ GraphSearch \/ Fuse \/ Collect
    \/ Rerank \/ Compress \/ Grade \/ Rewrite \/ WebSearch
    \/ CheckSufficiency \/ Hop \/ Bridge \/ PassThrough \/ Classify
    \/ Generate \/ VerifyGroundedness \/ VerifyUtility \/ Judge \/ Abstain
    \/ Continue \/ Raise \/ Stream \/ Finish

Spec == Init /\ [][Next]_vars

----------------------------------------------------------------------------
(* Properties. *)

\* A superstep never has two nodes write a channel that keeps the last value:
\* the reducers of RAGState cover every fan-out of the graphs.
FanOutsReduce == outcome # "race"

\* The recursion limit stays above the counters of the loops: a query reaches
\* it only after an answer attempt that left generate_iterations alone.
NetIsANet == outcome = "net" => ch.uncounted \/ \E n \in DOMAIN partials :
                                    "uncounted" \in DOMAIN partials[n]

\* recursion_limit of every graph: no query ends in GraphRecursionError.
AlwaysAnswers == outcome # "net"

\* What a grader judged irrelevant reaches no generator, and under an
\* "incorrect" verdict nothing of the graded retrieval does: only what was
\* fetched elsewhere, by hops and from the web.
VerdictHeeded ==
    "generate" \in due =>
        /\ "rejected" \notin Evidence(ch)
        /\ ch.grade = "incorrect" => Evidence(ch) \subseteq {"hop", "web"}

\* A graph that grades its answers returns one as an answer only with both
\* grades given to this very answer, and both good.
AcceptedIsJudged ==
    /\ outcome = "answered" /\ settings.graph \in {"self_rag", "agentic"}
    /\ settings.allow /\ ch.answer = "answer"
    => fresh = {"grounded", "useful"} /\ ch.grounded /\ ch.useful

\* Every loop over retrieval ends by its own counter.  In the agentic graph the
\* corrections and the hops share one budget, which the retries of an answer
\* spend too: past it only such a retry retrieves again.
LoopsShareBudget ==
    [][ch'.retrieve_iterations > ch.retrieve_iterations
         /\ settings.graph \in {"crag", "multihop", "agentic"}
         /\ "retry" \notin due
       => ch'.retrieve_iterations <=
            (IF settings.graph = "crag" THEN settings.rewrites
             ELSE IF settings.graph = "multihop" THEN MaxIterations(settings) - 1
             ELSE RetrievalBudget(settings))]_vars

\* Settings whose ceiling leaves the reserve when grading starts: the four
\* translators, construction and routing may take six calls.
Provided(s) ==
    s.graph = "agentic" => s.ceiling = Ample \/ s.ceiling >= Reserved + 6

\* Settings whose limit covers every round that their budgets allow: an agentic
\* query may retry its answer, or has no loop over retrieval.
Spacious(s) ==
    s.graph = "agentic" => s.retries >= 1 \/ RetrievalBudget(s) = 0

\* The agentic graph leaves its loops while the ledger still pays for an answer
\* and its verification: with the reserve left when grading starts,
\* BudgetExceeded takes the answer away only where a model writes the queries of
\* a store on the route, which neither predicate of the loops counts.
BudgetAnticipated ==
    outcome = "budget" /\ settings.graph = "agentic" => ch.route \cap Generated # {}

\* Graphs whose retrieving nodes put their failed legs on the state.
ReportsLegs == {"naive", "adaptive", "self_rag", "graphrag"}

\* An answer that some store did not contribute to is not cached.
OutageNotCached == cached /\ settings.graph \in ReportsLegs => ~ch.lost

\* _cache_set, for every graph: degraded answers are refused.
DegradedNotCached == cached => ~ch.lost
=============================================================================
