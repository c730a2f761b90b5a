------------------------------ MODULE Filters ------------------------------
(***************************************************************************)
(* From what a user said to what a store filters by: the self-query        *)
(* constructor of construct/self_query.py, the filter dialect of           *)
(* stores/qdrant/filters.py, the plan of a search that carries the filter  *)
(* (stores/qdrant/store.py), and the scanners of security/injection.py and *)
(* security/pii.py.                                                        *)
(***************************************************************************)
EXTENDS Lists

Ops == {"eq", "ne", "gt", "gte", "lt", "lte", "in", "nin", "range"}
OrderedOnly == {"gt", "gte", "lt", "lte", "range"}
OrderedTypes == {"int", "date"}
RangeOps == {"gt", "gte", "lt", "lte"}
Invalid == 0 - 1     \* a value that is not of the type the schema says

----------------------------------------------------------------------------
(* construct/self_query.py.  A filter is a set of entries, one for a field   *)
(* but for those of the list under $and: each a map from operators to        *)
(* operands, or a plain value.                                               *)

Plain(v) == [plain |-> TRUE, value |-> v, ops |-> <<>>]
Mapped(f) == [plain |-> FALSE, value |-> 0, ops |-> f]

\* SelfQueryConstructor._validate_one and _coerce: an unknown field or operator,
\* an order on what has none, or a value of another type drops the condition.
ValidateOne(c, schema) ==
    LET operands == IF c.op \in {"in", "nin", "range"} THEN ToSet(c.value) ELSE {c.value}
        good == /\ c.field \in DOMAIN schema /\ c.op \in Ops
                /\ c.op \in OrderedOnly => schema[c.field] \in OrderedTypes
                /\ Invalid \notin operands
                /\ c.op = "range" => Len(c.value) = 2
        bounds == [op \in {"gte", "lte"} |-> c.value[IF op = "gte" THEN 1 ELSE 2]]
        entry == IF c.op = "eq" THEN Plain(c.value)
                 ELSE IF c.op = "range" THEN Mapped([op \in {"range"} |-> bounds])
                 ELSE Mapped([op \in {c.op} |-> c.value])
    IN  IF good THEN <<[field |-> c.field, entry |-> entry]>> ELSE <<>>

\* One more condition of a conjunction.  Two maps on a field become one, the
\* second over the first; a plain value beside another entry goes to $and.
Merged(merged, clause) ==
    LET f == clause.field
        old == merged.fields[f]
        entry == IF f \in DOMAIN merged.fields /\ ~old.plain /\ ~clause.entry.plain
                 THEN Mapped([op \in DOMAIN old.ops \cup DOMAIN clause.entry.ops |->
                                IF op \in DOMAIN clause.entry.ops THEN clause.entry.ops[op]
                                ELSE old.ops[op]])
                 ELSE clause.entry
    IN  IF /\ f \in DOMAIN merged.fields /\ old # clause.entry
           /\ old.plain \/ clause.entry.plain
        THEN [merged EXCEPT !.also = Append(@, clause)]
        ELSE [merged EXCEPT !.fields = [g \in DOMAIN @ \cup {f} |-> IF g = f THEN entry ELSE @[g]]]

\* _validate.
SelfQueried(conditions, combinator, schema) ==
    LET clauses == FlattenSeq([i \in DOMAIN conditions |-> ValidateOne(conditions[i], schema)])
        none == [either |-> <<>>, also |-> <<>>, fields |-> <<>>]
    IN  IF combinator = "or" /\ Len(clauses) > 1 THEN [none EXCEPT !.either = clauses]
        ELSE FoldLeft(Merged, none, clauses)

----------------------------------------------------------------------------
(* stores/qdrant/filters.py.  A compiled filter is what it lets through of a *)
(* point, which is a function from fields to values.                         *)

Compares(v, op, w) ==
    CASE op = "gt" -> v > w [] op = "gte" -> v >= w [] op = "lt" -> v < w [] op = "lte" -> v <= w

\* _field_conditions: the bounds of a field make one range, in which a side
\* that `range` names takes the place of one that came before.
FieldConditions(v, ops) ==
    LET within == IF "range" \in DOMAIN ops THEN ops["range"] ELSE <<>>
        single == DOMAIN ops \cap RangeOps
        sides == [op \in single \cup DOMAIN within |->
                    IF op \in DOMAIN within THEN within[op] ELSE ops[op]]
    IN  /\ \A op \in DOMAIN sides : Compares(v, op, sides[op])
        /\ "ne" \in DOMAIN ops => v # ops["ne"]
        /\ "in" \in DOMAIN ops => v \in ToSet(ops["in"])
        /\ "nin" \in DOMAIN ops => v \notin ToSet(ops["nin"])

EntryHolds(v, entry) == IF entry.plain THEN v = entry.value ELSE FieldConditions(v, entry.ops)

\* to_qdrant_filter.
Passes(point, filter) ==
    /\ \A f \in DOMAIN filter.fields : EntryHolds(point[f], filter.fields[f])
    /\ \A i \in DOMAIN filter.also : EntryHolds(point[filter.also[i].field], filter.also[i].entry)
    /\ filter.either # <<>> => \E i \in DOMAIN filter.either :
            EntryHolds(point[filter.either[i].field], filter.either[i].entry)

\* with_tenant: the tenant's condition is one more that must hold, and no
\* tenant at all is refused where isolation is enforced.
WithTenant(points, filter, tenant, enforced) ==
    IF tenant = "none" THEN IF enforced THEN {} ELSE {p \in points : Passes(p.fields, filter)}
    ELSE {p \in points : Passes(p.fields, filter) /\ p.tenant = tenant}

----------------------------------------------------------------------------
(* stores/qdrant/store.py: one request that searches by several vectors.  A  *)
(* query is [given, blank], the vectors it came with and those that embed to *)
(* nothing; the store is [embedders, configured, known, live], what it can   *)
(* embed, means to have, could find out, and really has; the settings are    *)
(* [dense, sparse, colbert, fuse, threshold, fetch, rerank].                 *)

\* _vector_ready: what the probe could not find out counts as there.
VectorReady(name, store) ==
    name \in store.configured /\ (store.known => name \in store.live)

\* The vectors that the settings ask for and the collection can be asked about.
WantedVectors(store, s) ==
    {name \in {"dense", "sparse", "colbert"} :
        CASE name = "dense" -> s.dense
          [] name = "sparse" -> s.sparse /\ VectorReady(name, store)
          [] name = "colbert" -> s.colbert /\ VectorReady(name, store)}

\* _ensure_vectors, and the tests for a vector that came out empty.
Carried(query, wanted, store) ==
    ((query.given \cup (wanted \cap store.embedders)) \cap wanted) \ query.blank

\* A stage of a request: what ranks, how much it returns, whether it filters.
Stage(using, limit, filtered) == [using |-> using, limit |-> limit, filtered |-> filtered]
NoPlan == [branches |-> <<>>, fused |-> <<>>, last |-> Stage("none", 0, FALSE), threshold |-> FALSE]

\* search, once there is something to search by: the branches that find
\* candidates, the stage that fuses them before late interaction ranks what is
\* left, and the ranking that is returned.
PlanOf(branches, colbert, limit, s) ==
    LET last(using) == Stage(using, limit, TRUE)
        plan == [NoPlan EXCEPT !.branches = branches, !.last = last("colbert")]
        several == Len(branches) > 1 /\ s.fuse
    IN  CASE several /\ colbert ->
               [plan EXCEPT !.fused = <<Stage("fusion", IF s.rerank > limit THEN s.rerank ELSE limit, FALSE)>>]
          [] several /\ ~colbert -> [plan EXCEPT !.last = last("fusion")]
          [] ~several /\ colbert -> plan
          [] OTHER -> [plan EXCEPT !.branches = <<>>, !.last = last(branches[1].using),
                                   !.threshold = s.threshold]

\* QdrantStore.search: a branch fetches at least what is to be returned.
Planned(carried, limit, s) ==
    LET fetch == IF s.fetch > limit THEN s.fetch ELSE limit
        indexed == SelectSeq(<<"dense", "sparse">>, LAMBDA name : name \in carried)
    IN  IF carried = {} THEN NoPlan
        ELSE PlanOf([i \in DOMAIN indexed |-> Stage(indexed[i], fetch, TRUE)],
                    "colbert" \in carried, limit, s)
Plan(query, store, limit, s) == Planned(Carried(query, WantedVectors(store, s), store), limit, s)

\* search_dense and search_sparse, and search_colbert with its own window.
SinglePlan(name, limit, s) ==
    [NoPlan EXCEPT !.last = Stage(name, limit, TRUE), !.threshold = s.threshold /\ name = "dense"]
ColbertPlan(query, store, limit, s) ==
    LET dense == "dense" \in query.given \cup store.embedders
        window == IF s.fetch > limit THEN s.fetch ELSE limit
    IN  [NoPlan EXCEPT !.branches = IF dense THEN <<Stage("dense", window, TRUE)>> ELSE <<>>,
                       !.last = Stage("colbert", limit, TRUE)]

----------------------------------------------------------------------------
(* security/pii.py: the matches of the detectors, as intervals. *)

\* PIIRedactor.detect: the longest of those that start together, none that
\* starts inside one that was kept.
Detect(matches) ==
    Greedy(LAMBDA kept, f : kept = <<>> \/ f.start >= Last(kept).end,
           Ordered(matches, LAMBDA a, b : a.start < b.start \/ (a.start = b.start /\ a.end > b.end)))

\* redact: every finding becomes a mark, which is 0 here, and what is between
\* them stays; only a flag leaves the text as it is.
Redact(text, matches, action) ==
    LET found == Detect(matches)
        from(i) == IF i = 1 THEN 0 ELSE found[i - 1].end
        piece(i) == SubSeq(text, from(i) + 1, found[i].start) \o <<0>>
    IN  IF action = "flag" \/ found = <<>> THEN text
        ELSE FlattenSeq([i \in DOMAIN found |-> piece(i)])
             \o SubSeq(text, Last(found).end + 1, Len(text))

----------------------------------------------------------------------------
(* security/injection.py, with weights and risk in tenths of what is left.  *)

\* InjectionScanner.scan: each signal takes its share of what is left of 1; the
\* result is what the text becomes, or that it is blocked.
Risk(signals, weight) == FoldSet(LAMBDA s, left : left * (10 - weight[s]), 1, signals)
Suspicious(signals, weight, threshold) ==
    LET n == Cardinality(signals)
    IN  10 * (10 ^ n - Risk(signals, weight)) >= threshold * 10 ^ n
Scan(signals, weight, threshold, action) ==
    IF ~Suspicious(signals, weight, threshold) THEN "clean"
    ELSE CASE action = "block" -> "blocked"
           [] action = "sanitize" -> "neutralized"
           [] action = "flag" -> "clean"

\* scan_query: a question is refused rather than rewritten.
ScanQuery(signals, weight, threshold, action) ==
    IF Suspicious(signals, weight, threshold) /\ action # "flag" THEN "blocked" ELSE "clean"

----------------------------------------------------------------------------
\* The reference: what conditions say, one by one.
Means(point, c) ==
    CASE c.op = "eq" -> point[c.field] = c.value
      [] c.op = "ne" -> point[c.field] # c.value
      [] c.op = "in" -> point[c.field] \in ToSet(c.value)
      [] c.op = "nin" -> point[c.field] \notin ToSet(c.value)
      [] c.op = "range" -> point[c.field] >= c.value[1] /\ point[c.field] <= c.value[2]
      [] c.op \in RangeOps -> Compares(point[c.field], c.op, c.value)

\* Two conditions that the filter can hold side by side: on different fields,
\* or bounds on different sides, or at most one of each operator.
SideBySide(c, d) ==
    c.field = d.field /\ c # d => /\ c.op # d.op \/ c.op = "eq"
                                  /\ {c.op, d.op} \cap RangeOps = {} \/ "range" \notin {c.op, d.op}

\* A filter built from what the model understood lets through exactly the
\* points that satisfy all of it (or any, for "or"), but for the conditions
\* that were dropped; and never a point of another tenant.
FilterMeansAll(points, conditions, combinator, schema, tenant) ==
    LET used == {i \in DOMAIN conditions : ValidateOne(conditions[i], schema) # <<>>}
        seen == WithTenant(points, SelfQueried(conditions, combinator, schema), tenant, TRUE)
        means(p) == IF combinator = "or" /\ Cardinality(used) > 1
                    THEN \E i \in used : Means(p.fields, conditions[i])
                    ELSE \A i \in used : Means(p.fields, conditions[i])
    IN  seen = {p \in points : p.tenant = tenant /\ tenant # "none" /\ means(p)}

\* The reference: what Qdrant makes of a plan.  `order` ranks the points by each
\* vector; those of several lists are fused by their best rank.
FusedOf(lists) ==
    LET places == [n \in 1 .. 9 |-> FlattenSeq([l \in DOMAIN lists |->
                      IF n \in DOMAIN lists[l] THEN <<lists[l][n]>> ELSE <<>>])]
    IN  Greedy(LAMBDA kept, p : p \notin ToSet(kept), FlattenSeq(places))
Ranked(stage, pool, order, tenant) ==
    LET seen == IF stage.using = "fusion" THEN FusedOf(pool)
                ELSE SelectSeq(order[stage.using], LAMBDA p : \E l \in DOMAIN pool : p \in ToSet(pool[l]))
    IN  Top(SelectSeq(seen, LAMBDA p : stage.filtered => p.tenant = tenant), stage.limit)
Executed(plan, order, tenant) ==
    LET all == <<order["dense"]>>
        branches == [i \in DOMAIN plan.branches |-> Ranked(plan.branches[i], all, order, tenant)]
        found == IF plan.branches = <<>> THEN all ELSE branches
        fused == IF plan.fused = <<>> THEN found ELSE <<Ranked(plan.fused[1], found, order, tenant)>>
    IN  [ranked |-> fused, list |-> Ranked(plan.last, fused, order, tenant)]

\* What every plan of a search owes: points of the tenant only, as many of them
\* as were asked for when there are as many (no stage starves the next), each
\* once, by vectors that the collection was not found to lack; and a threshold,
\* which is a cosine's, on no fused or late-interaction score.
PlanServes(plan, store, limit, order, tenant) ==
    LET list == Executed(plan, order, tenant).list
        mine == {p \in ToSet(order["dense"]) : p.tenant = tenant}
    IN  /\ ToSet(list) \subseteq mine
        /\ Len(list) = Cardinality(ToSet(list))
        /\ Len(list) = IF limit < Cardinality(mine) THEN limit ELSE Cardinality(mine)
        /\ plan.threshold => plan.last.using \in {"dense", "sparse"} /\ plan.branches = <<>>

\* Whatever a query carries and a collection lacks, search makes a plan that
\* serves it; it has none only when nothing was left to search by, and late
\* interaction after fusion ranks no more than it was given to rank.
PlanIsSound(query, store, limit, s, order, tenant) ==
    LET plan == Plan(query, store, limit, s)
        using == {plan.last.using} \cup {plan.branches[i].using : i \in DOMAIN plan.branches}
        carries(name) == name \in (query.given \cup store.embedders) \ query.blank
    IN  /\ plan = NoPlan <=> \A name \in WantedVectors(store, s) : ~carries(name)
        /\ plan # NoPlan =>
             /\ PlanServes(plan, store, limit, order, tenant)
             /\ store.known => using \subseteq store.live \cup {"fusion"}
             /\ plan.fused # <<>> =>
                  Len(Executed(plan, order, tenant).ranked[1]) <= IF s.rerank > limit THEN s.rerank ELSE limit
        /\ \A name \in {"dense", "sparse"} : PlanServes(SinglePlan(name, limit, s), store, limit, order, tenant)
        /\ PlanServes(ColbertPlan(query, store, limit, s), store, limit, order, tenant)

\* Of every match at least the start is gone from a redacted text, nothing
\* else is, and no part of it is put in twice.
RedactedOnce(text, matches) ==
    LET out == Redact(text, matches, "redact")
        found == ToSet(Detect(matches))
        gone == UNION {f.start + 1 .. f.end : f \in found}
    IN  /\ \A f \in matches : f.start + 1 \in gone
        /\ SelectSeq(out, LAMBDA c : c # 0) = At(text, DOMAIN text \ gone)
        /\ Cardinality({i \in DOMAIN out : out[i] = 0}) = Cardinality(found)

\* More signals never make a text less suspicious, one that alone reaches the
\* threshold is enough, and a question is never let through changed.
SignalsAddUp(signals, weight, threshold, action) ==
    /\ \A s \in signals : weight[s] >= threshold => Suspicious(signals, weight, threshold)
    /\ \A fewer \in SUBSET signals :
         Suspicious(fewer, weight, threshold) => Suspicious(signals, weight, threshold)
    /\ Scan(signals, weight, threshold, action) = "blocked"
         => ScanQuery(signals, weight, threshold, action) = "blocked"
    /\ ScanQuery(signals, weight, threshold, action) = "clean" /\ action # "flag"
         => Scan(signals, weight, threshold, action) = "clean"
=============================================================================
