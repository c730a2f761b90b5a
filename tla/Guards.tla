------------------------------- MODULE Guards -------------------------------
(***************************************************************************)
(* What stands between a statement that a model wrote and the store that   *)
(* runs it: security/sql_guard.py, security/cypher_guard.py and the        *)
(* constructors of construct/.  A statement is what its guard finds in it. *)
(***************************************************************************)
EXTENDS Lists

Unbounded == 0 - 1    \* no bound, or one that cannot be read
Above(bound, limit) == bound = Unbounded \/ bound > limit

----------------------------------------------------------------------------
(* security/sql_guard.py.  A tree is a select or a union, in parentheses    *)
(* (a subquery) or not, with the bounds of both.                            *)

ReadKinds == {"select", "union", "subquery"}
ForbiddenNodes == {"insert", "command", "into", "lock"}
ForbiddenFunctions == {"pg_sleep", "query_to_xml"}
ForbiddenSchemas == {"pg_catalog"}
SystemTables == {"pg_user"}

\* Empty, with characters that hide text, not to be parsed before or after the
\* rewrite, more than one statement, or with a projection or an operand of a set
\* operation that is not one.
Unreadable == {"empty", "hidden", "unparsed", "several", "malformed", "unwritable"}

\* SQLGuard._row_bound, and _bound_rows: the bound of the query itself, which
\* for one in parentheses is inside them.
RowBound(tree) == IF tree.kind = "subquery" THEN tree.inner ELSE tree.outer
BoundRows(tree, limit) ==
    IF tree.kind = "subquery" THEN [tree EXCEPT !.inner = limit] ELSE [tree EXCEPT !.outer = limit]

\* _check_tables: a name that the statement defines itself is no table.
TablesOf(tree) == {t.name : t \in tree.tables} \ tree.ctes

\* Everything validate() refuses before it looks at the rows.
SqlRefuses(s, tree, rules) ==
    \/ s.text \in Unreadable
    \/ tree.kind \notin ReadKinds
    \/ tree.kind = "select" /\ "SELECT" \notin rules.statements
    \/ tree.nodes \cap ForbiddenNodes # {}
    \/ tree.functions \cap (ForbiddenFunctions \cup rules.functions) # {}
    \/ \E t \in tree.tables : t.schema \in ForbiddenSchemas \/ t.name \in SystemTables
    \/ rules.tables # {} /\ ~(TablesOf(tree) \subseteq rules.tables)
    \/ tree.joins > rules.joins

\* Mutation: only a bound that is there is looked at.
BoundedIfWritten(tree, rules, limit) ==
    IF RowBound(tree) > limit THEN BoundRows(tree, limit) ELSE tree

\* A missing bound is put in where the settings ask for one, and one that is
\* too high comes down.
Bounded(tree, rules, limit) ==
    IF RowBound(tree) = Unbounded
    THEN IF rules.requireLimit THEN BoundRows(tree, limit) ELSE tree
    ELSE IF RowBound(tree) > limit THEN BoundRows(tree, limit) ELSE tree

\* SQLGuard.validate: the trees that may run.
SqlValidated(s, rules, limit) ==
    IF ~rules.enabled THEN {s.tree}
    ELSE IF SqlRefuses(s, s.tree, rules) THEN {}
    ELSE {Bounded(s.tree, rules, limit)}

----------------------------------------------------------------------------
(* security/cypher_guard.py. *)

ReadClauses == {"MATCH", "RETURN", "UNWIND", "WITH", "CALL", "SHOW"}
ResultClauses == {"RETURN", "YIELD"}
ForbiddenKeywords == {"CREATE", "LOAD CSV"}
AllowedProcedures == {"apoc.path.expand", "db.labels"}

\* _path_depth: the level that a call of APOC states, by name or by place.
PathDepth(call) ==
    IF call.keyed # Unbounded THEN call.keyed
    ELSE IF call.arguments = call.expected THEN call.last ELSE Unbounded

\* _check_path_depth and _check_hops: every expansion states a depth, every
\* pattern an upper bound, and none is above max_hops.
HopsRefused(q, maxHops) ==
    \/ q.quantified
    \/ \E c \in q.paths : PathDepth(c) < 0 \/ PathDepth(c) > maxHops
    \/ \E h \in q.ranges : h.upper = Unbounded \/ h.upper > maxHops

\* Everything validate() refuses.
CypherRefuses(q, rules) ==
    \/ q.text \in {"empty", "hidden", "several"}
    \/ q.keywords \cap (ForbiddenKeywords \cup rules.keywords) # {}
    \/ ~(q.procedures \subseteq AllowedProcedures)
    \/ q.nested \/ q.admin
    \/ HopsRefused(q, rules.hops)
    \/ q.clauses \cap ReadClauses = {} \/ q.clauses \cap ResultClauses = {}

\* _clamp_limit, or a limit at the end of a query that has none.
CypherBounded(q, limit) ==
    [q EXCEPT !.limits = IF @ = <<>> THEN <<limit>>
                         ELSE [i \in DOMAIN @ |-> IF @[i] > limit THEN limit ELSE @[i]]]

\* CypherGuard.validate.
CypherValidated(q, rules, limit) ==
    IF ~rules.enabled THEN {q} ELSE IF CypherRefuses(q, rules) THEN {} ELSE {CypherBounded(q, limit)}

----------------------------------------------------------------------------
(* construct/text_to_sql.py and text_to_cypher.py: what a retriever does for *)
(* one question, as the sequence of its effects.  A reply of the model       *)
(* "fails", or is "refused" or "allowed" by the guard.                       *)

Does(what, attempt) == [does |-> what, attempt |-> attempt]

\* construct_and_execute once a statement has passed: a dry run first, for Cypher.
Execute(k, env) ==
    LET dryRun == env.target = "cypher" /\ env.dryRun
    IN  <<Does("audit allowed", k)>>
        \o (IF dryRun THEN <<Does("explain", k)>> ELSE <<>>)
        \o (IF dryRun /\ ~env.plans THEN <<Does("refuse", k)>>
            ELSE <<Does("execute", k), Does(IF env.runs THEN "answer" ELSE "raise", k)>>)

\* construct: one repair, with the rule that was broken.
Construct(env) ==
    LET attempt[k \in 1 .. 3] ==
            IF k = 3 THEN <<Does("refuse", 2)>>
            ELSE <<Does("ask", k)>> \o
                 CASE env.replies[k] = "fails" -> <<Does("raise", k)>>
                   [] env.replies[k] = "allowed" -> Execute(k, env)
                   [] env.replies[k] = "refused" -> <<Does("audit refused", k)>> \o attempt[k + 1]
    IN  attempt[1]

\* SQLRetriever.retrieve and CypherRetriever.retrieve; a refusal of the guard,
\* of the constructor or for want of isolation is no evidence, not an error.
Retrieve(env) ==
    IF ~env.store THEN <<Does("raise", 0)>>
    ELSE IF env.enforced /\ env.isolation = "reject" THEN <<Does("refuse", 0)>>
    ELSE Construct(env)

\* to_chunks: no chunk without rows, nor, for Cypher, without a row that says
\* anything; all rows in one chunk otherwise.
ToChunks(target, rows) ==
    IF rows = <<>> \/ (target = "cypher" /\ \A i \in DOMAIN rows : rows[i] = "blank")
    THEN <<>> ELSE <<rows>>

----------------------------------------------------------------------------
\* A SQL statement that passes reads only tables of the allowlist and those it
\* defines itself, and where a limit is required, no more rows than it, wherever
\* the statement put its own bound (`_bound_rows`: a query in parentheses).
SqlIsBounded(s, rules, limit) ==
    \A tree \in SqlValidated(s, rules, limit) : rules.enabled =>
        LET rows == {b \in {tree.outer} \cup (IF tree.kind = "subquery" THEN {tree.inner} ELSE {}) :
                       b # Unbounded}
        IN  /\ rules.tables # {} => \A t \in tree.tables : t.name \in rules.tables \cup tree.ctes
            /\ rules.requireLimit => \E b \in rows : b <= limit
            /\ tree.kind # "subquery" /\ tree.outer # Unbounded => tree.outer <= limit

\* A Cypher query that passes walks no more hops than max_hops by any of the
\* ways to walk, and every LIMIT in it is within the limit.
CypherIsBounded(q, rules, limit) ==
    \A out \in CypherValidated(q, rules, limit) : rules.enabled =>
        /\ out.limits # <<>> /\ \A i \in DOMAIN out.limits : out.limits[i] <= limit
        /\ \A c \in out.paths : c.walks \in 0 .. rules.hops
        /\ \A h \in out.ranges : h.upper \in 0 .. rules.hops
        /\ ~out.quantified

\* Whatever the model answers: each of its statements is audited exactly once,
\* with the verdict it had, before it is explained or executed; nothing refused
\* is ever executed; the model is asked twice at most, and not at all when
\* isolation forbids it.
StatementsAreAudited(env) ==
    LET log == Retrieve(env)
        at(what, k) == {i \in DOMAIN log : log[i] = Does(what, k)}
        audits(k) == at("audit allowed", k) \cup at("audit refused", k)
    IN  /\ \A k \in 1 .. 2 :
             /\ Cardinality(at("ask", k)) <= 1
             /\ Cardinality(audits(k)) =
                    IF at("ask", k) # {} /\ env.replies[k] # "fails" THEN 1 ELSE 0
             /\ \A i \in at("execute", k) \cup at("explain", k) :
                    \E j \in at("audit allowed", k) : j < i /\ env.replies[k] = "allowed"
        /\ Last(log).does \in {"answer", "refuse", "raise"}
        /\ env.enforced /\ env.isolation = "reject" => at("ask", 1) = {}
        /\ Last(log).does = "refuse" => \A k \in 1 .. 2 : at("execute", k) = {}
=============================================================================
