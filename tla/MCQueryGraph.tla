---------------------------- MODULE MCQueryGraph ----------------------------
EXTENDS QueryGraph

Under(graph) ==
    [graph |-> graph, retries |-> 1, rewrites |-> 1, hops |-> 1, stop |-> TRUE,
     allow |-> TRUE, stream |-> FALSE, ceiling |-> Ample,
     routes |-> {{"vector"}, {"none"}}]

EveryRoute == {{"vector"}, {"vector", "graph"}, {"none"}, {"none", "web"},
               {"relational"}}

\* Every graph, and what its loops read: retries spent and not, abstention off,
\* no early exit, a stream, and a ceiling that ends the agentic loops.
EveryGraph ==
    {Under(g) : g \in DOMAIN Edges}
      \cup {[Under("adaptive") EXCEPT !.routes = EveryRoute],
            [Under("crag") EXCEPT !.rewrites = 0],
            [Under("crag") EXCEPT !.stream = TRUE],
            [Under("self_rag") EXCEPT !.retries = 0, !.allow = FALSE],
            [Under("multihop") EXCEPT !.hops = 3, !.stop = FALSE],
            [Under("agentic") EXCEPT !.ceiling = 10, !.routes = {{"vector"}}],
            [Under("agentic") EXCEPT !.ceiling = 10, !.routes = {{"relational"}},
                                     !.stream = TRUE],
            [Under("agentic") EXCEPT !.ceiling = 10, !.routes = {{"relational"}},
                                     !.retries = 0, !.rewrites = 0, !.hops = 0]}

\* What the proofs about NetIsANet and BudgetAnticipated suppose of settings.
ASSUME EveryGraphInScope == \A s \in EveryGraph : Provided(s) /\ Spacious(s)

Defaults == [Under("self_rag") EXCEPT !.retries = 2, !.rewrites = 2, !.hops = 3]
SelfRag == {Defaults}
ManyHops == {[Under("agentic") EXCEPT !.retries = 0, !.hops = 3]}
Corrective == {Under("crag")}
=============================================================================
