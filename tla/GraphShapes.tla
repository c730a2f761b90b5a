---------------------------- MODULE GraphShapes ----------------------------
(***************************************************************************)
(* The shapes of the seven query graphs of pipeline/graphs/: which nodes   *)
(* follow a node, and the recursion limit each graph is run under.  A      *)
(* branch is a function of the settings s, of the channels ch after the    *)
(* superstep, and of room, what budget_available() says of the ledger.     *)
(***************************************************************************)
EXTENDS Naturals, Sequences

Stores == {"vector", "relational", "graph", "web"}

\* STORE_NODES of adaptive.py and MODE_NODES of graphrag.py.
StoreNode == [vector |-> "retrieve_vector", relational |-> "retrieve_relational",
              graph |-> "retrieve_graph", web |-> "retrieve_web"]
ModeNode == [local |-> "graph_local", global |-> "graph_global",
             drift |-> "graph_drift"]

Larger(m, n) == IF m >= n THEN m ELSE n

----------------------------------------------------------------------------
(* Static edges, as pairs. *)

Path(nodes) == {<<nodes[i], nodes[i + 1]>> : i \in 1 .. Len(nodes) - 1}

IntoFuse(nodes) == {<<n, "fuse">> : n \in nodes}

Verification ==
    {"generate"} \X {"verify_groundedness", "verify_utility"}
      \cup {"verify_groundedness", "verify_utility"} \X {"judge"}

Edges ==
    [naive |-> Path(<<"validate", "retrieve", "generate">>),
     adaptive |-> Path(<<"validate", "translate", "route">>)
                    \cup IntoFuse({StoreNode[d] : d \in Stores})
                    \cup Path(<<"fuse", "rerank", "generate">>),
     crag |-> Path(<<"validate", "translate", "route", "grade">>)
                \cup Path(<<"rewrite", "web_search">>)
                \cup Path(<<"refine", "generate">>),
     self_rag |-> Path(<<"validate", "translate", "route", "retrieve">>)
                    \cup Path(<<"retry", "retrieve", "rerank", "generate">>)
                    \cup Verification,
     graphrag |-> Path(<<"validate", "translate", "classify">>)
                    \cup IntoFuse({ModeNode[m] : m \in DOMAIN ModeNode})
                    \cup Path(<<"rerank", "generate">>)
                    \cup Path(<<"reduce", "generate">>),
     multihop |-> Path(<<"validate", "translate", "seed", "bridge">>)
                    \cup Path(<<"fuse", "rerank", "generate">>),
     agentic |-> Path(<<"validate", "translate", "construct", "route", "grade">>)
                   \cup Path(<<"rewrite", "web_search">>)
                   \cup Path(<<"refine", "gate">>)
                   \cup Path(<<"hop", "gate">>)
                   \cup Path(<<"collect", "rerank", "compress", "generate">>)
                   \cup Path(<<"retry", "grade">>)
                   \cup Verification]

----------------------------------------------------------------------------
(* Branches. *)

\* adaptive.select_stores: the stores routed to, or the vector store, or none.
SelectStores(ch) ==
    LET real == ch.route \ {"none"}
    IN  IF real # {} THEN {StoreNode[d] : d \in real}
        ELSE IF "none" \in ch.route THEN {"generate"} ELSE {StoreNode["vector"]}

\* agentic.retrieval_budget, and multihop._max_iterations.
RetrievalBudget(s) == Larger(s.rewrites, s.hops)
MaxIterations(s) == Larger(1, s.hops)

\* crag.decide_after_grade and agentic.decide_after_grade.
CragAfterGrade(s, ch) ==
    CASE ch.grade = "incorrect" ->
           IF ch.retrieve_iterations >= s.rewrites THEN "generate" ELSE "rewrite"
      [] ch.grade = "ambiguous" -> "web_search"
      [] OTHER -> "refine"

AgenticAfterGrade(s, ch, room) ==
    CASE ch.grade = "incorrect" ->
           IF ch.retrieve_iterations >= RetrievalBudget(s) \/ ~room
           THEN "gate" ELSE "rewrite"
      [] ch.grade = "ambiguous" -> "web_search"
      [] OTHER -> "refine"

\* decide_after_web of both graphs; on is where the evidence goes next.
AfterWeb(ch, on) == IF ch.grade = "incorrect" THEN "grade" ELSE on

\* Mutation: gate asks the counter alone.
GateByCounter(s, ch, room) ==
    IF ch.retrieve_iterations >= RetrievalBudget(s)
    THEN "collect" ELSE "check_sufficiency"

\* agentic._decide_gate.
Gate(s, ch, room) ==
    IF ch.retrieve_iterations >= RetrievalBudget(s) \/ ~room
    THEN "collect" ELSE "check_sufficiency"

\* multihop.decide_budget: its first retrieval is counted by no node.

\* Mutation: nor is it by the budget.
HopBudgetUncounted(s, ch) ==
    IF ch.retrieve_iterations >= MaxIterations(s)
    THEN "fuse" ELSE "check_sufficiency"

HopBudget(s, ch) ==
    IF 1 + ch.retrieve_iterations >= MaxIterations(s)
    THEN "fuse" ELSE "check_sufficiency"

\* decide_after_check of both graphs; on is the collecting node.
AfterCheck(s, ch, on) ==
    IF ch.report = "nothing_to_ask" \/ (ch.report = "sufficient" /\ s.stop)
    THEN on ELSE "hop"

\* self_rag.verdict and decide_after_judge of self_rag and agentic.
Accepted(ch) == ch.answer # "abstained" /\ ch.grounded /\ ch.useful

AfterJudge(s, ch, room) ==
    IF Accepted(ch) THEN {}
    ELSE IF ch.generate_iterations > s.retries \/ ~room THEN {"abstain"}
    ELSE {"retry"}

\* add_conditional_edges of every graph.
Branch(s, n, ch, room) ==
    CASE s.graph = "adaptive" /\ n = "route" -> SelectStores(ch)
      [] s.graph = "graphrag" /\ n = "classify" -> {ModeNode[ch.search_mode]}
      [] s.graph = "graphrag" /\ n = "fuse" ->
           {IF ch.search_mode = "global" THEN "reduce" ELSE "rerank"}
      [] s.graph = "crag" /\ n = "grade" -> {CragAfterGrade(s, ch)}
      [] s.graph = "crag" /\ n = "web_search" -> {AfterWeb(ch, "generate")}
      [] s.graph = "multihop" /\ n = "bridge" ->
           {IF ch.search_mode = "bridge" THEN "generate" ELSE "retrieve"}
      [] s.graph = "multihop" /\ n \in {"retrieve", "hop"} -> {HopBudget(s, ch)}
      [] s.graph = "multihop" /\ n = "check_sufficiency" ->
           {AfterCheck(s, ch, "fuse")}
      [] s.graph = "agentic" /\ n = "grade" -> {AgenticAfterGrade(s, ch, room)}
      [] s.graph = "agentic" /\ n = "web_search" -> {AfterWeb(ch, "gate")}
      [] s.graph = "agentic" /\ n = "gate" -> {Gate(s, ch, room)}
      [] s.graph = "agentic" /\ n = "check_sufficiency" ->
           {AfterCheck(s, ch, "collect")}
      [] s.graph = "self_rag" /\ n = "judge" -> AfterJudge(s, ch, TRUE)
      [] s.graph = "agentic" /\ n = "judge" -> AfterJudge(s, ch, room)
      [] OTHER -> {}

\* END is the empty set.
Successors(s, n, ch, room) ==
    {e[2] : e \in {x \in Edges[s.graph] : x[1] = n}} \cup Branch(s, n, ch, room)

----------------------------------------------------------------------------
\* recursion_limit of every graph.
RecursionLimit(s) ==
    CASE s.graph = "crag" -> 8 + 3 * (s.rewrites + 1)
      [] s.graph = "self_rag" -> 6 + 6 * (s.retries + 1)
      [] s.graph = "multihop" -> 9 + 2 * MaxIterations(s)
      [] s.graph = "agentic" -> 6 + (s.retries + 1) * (10 + 2 * RetrievalBudget(s))
      [] s.graph = "naive" -> 8
      [] OTHER -> 12
=============================================================================
