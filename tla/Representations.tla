--------------------------- MODULE Representations ---------------------------
(***************************************************************************)
(* What is indexed in place of a passage, or beside it: the vector of a    *)
(* passage from the tokens of its document (embed/late_chunking.py), the   *)
(* tree of summaries (index/raptor.py), propositions, summaries and        *)
(* children (index/multirep), and the prefix that places a passage in its  *)
(* document (index/contextual.py).  Positions are counted from 0, as in    *)
(* the code; what a model answers is an input.                             *)
(***************************************************************************)
EXTENDS Lists

CONSTANTS Budget,           \* tokens of one window of the token model
          MinSize, MaxSize, \* raptor_min_cluster_size, raptor_max_cluster_size
          MaxLevels,        \* raptor_max_levels
          Threshold,        \* raptor_gmm_threshold
          ClustersOf(_, _), \* the clusters of so many nodes, of some shape
          MaxUnits,         \* _MAX_PROPOSITIONS_PER_CHUNK
          MinWords,         \* _MIN_PROPOSITION_WORDS
          Terminators,      \* _TERMINATORS
          Fold(_)           \* casefold of a character, as a sequence

Positive(n) == Max({n, 0})

(* Late chunking.  A token is a pair of its first character and the one    *)
(* after its last, a window a pair of characters.                          *)

Stride == Max({1, (Budget * 3) \div 4})

\* `_plan_windows`: windows of tokens that overlap by a quarter, the first from
\* the start of the text and the last to its end.
PlanWindows(tokens, total) ==
    LET n == Len(tokens)
        count == IF n <= Budget THEN 1 ELSE 1 + (n - Budget + Stride - 1) \div Stride
        First(w) == (w - 1) * Stride + 1
    IN  [w \in 1 .. count |->
            <<IF w = 1 THEN 0 ELSE tokens[First(w)][1],
              IF w = count THEN total ELSE tokens[First(w) + Budget - 1][2]>>]

Covered(span, window) ==
    Positive((IF span[2] < window[2] THEN span[2] ELSE window[2])
             - (IF span[1] > window[1] THEN span[1] ELSE window[1]))

Apart(span, window) ==
    LET d == span[1] + span[2] - window[1] - window[2] IN IF d < 0 THEN 0 - d ELSE d

\* `_assign_spans`: the window that covers most of a span, and of equals the one
\* in whose middle it is.
WindowOf(span, windows) ==
    LET most == Max({Covered(span, windows[w]) : w \in DOMAIN windows})
        best == {w \in DOMAIN windows : Covered(span, windows[w]) = most}
        Before(v, w) == LET x == Apart(span, windows[v])
                            y == Apart(span, windows[w])
                        IN  x < y \/ (x = y /\ v <= w)
    IN  CHOOSE w \in best : \A v \in best : Before(w, v)

\* `_pool_spans`: the tokens of a window that reach into a span, or the nearest.
Pooled(span, tokens) ==
    LET n == Len(tokens)
        lower == Min({Cardinality({t \in DOMAIN tokens : tokens[t][2] <= span[1]}), n - 1})
        upper == Cardinality({t \in DOMAIN tokens : tokens[t][1] < span[2]})
    IN  IF upper <= lower THEN {tokens[Min({lower + 1, n})]}
        ELSE {tokens[t] : t \in lower + 1 .. upper}

LatePooled(tokens, total, span) ==
    LET windows == PlanWindows(tokens, total)
        window == windows[WindowOf(span, windows)]
    IN  Pooled(span, SelectSeq(tokens, LAMBDA t : t[1] >= window[1] /\ t[2] <= window[2]))

\* Every token of the text is in a window; a passage of up to a quarter of one is
\* inside a single window ("fully interior to at least one window",
\* late_chunking.py:108) and so is pooled from all of its tokens and no other.
PoolingIsWhole(tokens, total, span) ==
    LET windows == PlanWindows(tokens, total)
        own == {t \in ToSet(tokens) : t[1] < span[2] /\ t[2] > span[1]}
        pooled == LatePooled(tokens, total, span)
    IN  /\ \A t \in ToSet(tokens) : \E w \in DOMAIN windows : windows[w][1] <= t[1] /\ t[2] <= windows[w][2]
        /\ own # {} /\ Cardinality(own) <= Budget \div 4 + 1 => pooled = own
        /\ pooled # {} /\ (own # {} => pooled \subseteq own)

(* RAPTOR.  A cluster is a set of the rows of a level.                     *)

\* `_enforce_min_size`: small clusters give their rows to the likeliest others.
EnforceMinSize(clusters, p) ==
    LET keep == {c \in DOMAIN clusters : Cardinality(clusters[c]) >= Max({MinSize, 1})}
        covered == UNION {clusters[c] : c \in keep}
        Winner(row) == CHOOSE c \in keep : \A d \in keep : p[row][c] > p[row][d] \/ (p[row][c] = p[row][d] /\ c <= d)
    IN  IF keep = {} THEN <<DOMAIN p>>
        ELSE LET order == Ordered(keep, <)
             IN  [k \in DOMAIN order |->
                    clusters[order[k]] \cup {row \in DOMAIN p \ covered : Winner(row) = order[k]}]

\* `_memberships`: a row is in every cluster it likely belongs to, and in its
\* likeliest when there is none.
Memberships(p) ==
    LET columns == DOMAIN p[Min(DOMAIN p)]
        Likeliest(row) == CHOOSE c \in columns : \A d \in columns : p[row][c] > p[row][d] \/ (p[row][c] = p[row][d] /\ c <= d)
        In(row, c) == p[row][c] >= Threshold \/ ((\A d \in columns : p[row][d] < Threshold) /\ Likeliest(row) = c)
    IN  EnforceMinSize([c \in columns |-> {row \in DOMAIN p : In(row, c)}], p)

SoftCluster(rows, model) ==
    IF Cardinality(rows) <= Max({MaxSize, 1}) THEN <<rows>>
    ELSE IF model.kind = "mixture" THEN Memberships([row \in rows |-> model.p[row]])
    ELSE LET labels == Ordered({model.label[row] : row \in rows}, <)
         IN  [k \in DOMAIN labels |-> {row \in rows : model.label[row] = labels[k]}]

Chop(members) ==
    LET order == Ordered(members, <)
        size == Max({MaxSize, 1})
    IN  [k \in 1 .. (Len(order) + size - 1) \div size |->
            ToSet(SubSeq(order, (k - 1) * size + 1, Min({k * size, Len(order)})))]

\* `_cluster`: what is too large is clustered again, and then cut.
Cluster(n, model, local) ==
    LET Pieces(members) ==
            IF Cardinality(members) <= Max({MaxSize, 1}) THEN <<members>>
            ELSE LET pieces == SoftCluster(members, local)
                 IN  FlattenSeq([k \in DOMAIN pieces |-> Chop(pieces[k])])
        whole == SoftCluster(1 .. n, model)
        all == FlattenSeq([k \in DOMAIN whole |-> Pieces(whole[k])])
    IN  Greedy(LAMBDA seen, c : c # {} /\ c \notin ToSet(seen), all)

\* No passage is left out of the tree, no prompt is larger than its bound, and no
\* cluster is paid for twice.
ClustersCover(n, model, local) ==
    LET clusters == Cluster(n, model, local)
    IN  /\ UNION ToSet(clusters) = 1 .. n
        /\ \A c \in ToSet(clusters) : c # {} /\ Cardinality(c) <= Max({MaxSize, 1})
        /\ Cardinality(ToSet(clusters)) = Len(clusters)

\* `_walk`: the calls of each level, were all clusters of one size.
Walk(leaves, size) ==
    LET Next(at, level) ==
            IF at.ended \/ at.left <= Max({MinSize, 1}) THEN [at EXCEPT !.ended = TRUE]
            ELSE LET c == Max({1, (at.left + size - 1) \div size})
                 IN  [counts |-> Append(at.counts, c), left |-> c, ended |-> c >= at.left]
    IN  FoldLeft(Next, [counts |-> <<>>, left |-> leaves, ended |-> FALSE], [l \in 1 .. MaxLevels |-> l]).counts
Forecast(leaves) == Sum(Walk(leaves, Max({2, (MinSize + MaxSize) \div 2})))

\* `_summarize_level`: a summary that fails or is blank has no node; a spent
\* budget ends the build.
SummarizeLevel(level, clusters, outcome) ==
    LET made == SelectSeq([k \in DOMAIN clusters |->
                    [level |-> level, ordinal |-> k, children |-> clusters[k], text |-> outcome[k]]],
                    LAMBDA node : node.text = "text")
    IN  [nodes |-> made, calls |-> Len(clusters),
         paid |-> Cardinality({k \in DOMAIN clusters : outcome[k] \in {"text", "blank"}}),
         spent |-> \E k \in DOMAIN clusters : outcome[k] = "budget"]

\* `_build_level`, in the loop of `build`: one level on the nodes of the last.
BuildLevel(at, turn, level) ==
    LET clusters == ClustersOf(turn.shape, at.width)
        embedded == at.embedded \cup {level - 1}
    IN  IF at.ended \/ at.width <= Max({MinSize, 1}) THEN [at EXCEPT !.ended = TRUE]
        ELSE IF Len(clusters) >= at.width THEN [at EXCEPT !.ended = TRUE, !.embedded = embedded]
        ELSE LET built == SummarizeLevel(level, clusters, turn.outcome)
             IN  IF built.spent THEN [at EXCEPT !.ended = TRUE, !.raised = TRUE]
                 ELSE [at EXCEPT !.embedded = embedded, !.calls = @ + built.calls, !.paid = @ + built.paid,
                                 !.levels = IF built.nodes = <<>> THEN @ ELSE Append(@, built.nodes),
                                 !.width = IF built.nodes = <<>> THEN @ ELSE Len(built.nodes),
                                 !.ended = built.nodes = <<>>]

\* `_check_budget`: the expected calls, against what the ledger has left, if it
\* bounds them.
OverBudget(leaves, remaining) == remaining # <<>> /\ Forecast(leaves) > remaining[1]

\* `build`: refused when the forecast is beyond the ledger; the top level is
\* embedded last, for no level above has done it.
Build(leaves, turns, remaining) ==
    LET start == [levels |-> <<>>, width |-> leaves, calls |-> 0, paid |-> 0, embedded |-> {},
                  raised |-> FALSE, ended |-> FALSE]
        end == FoldLeft(LAMBDA at, level : BuildLevel(at, turns[level], level), start, [l \in 1 .. MaxLevels |-> l])
    IN  IF leaves > Max({MinSize, 1}) /\ OverBudget(leaves, remaining)
        THEN [start EXCEPT !.raised = TRUE]
        ELSE IF end.levels = <<>> THEN end ELSE [end EXCEPT !.embedded = @ \cup {Len(end.levels)}]

LevelsAbstract(leaves, tree) ==
    \A l \in DOMAIN tree.levels :
       LET below == IF l = 1 THEN leaves ELSE Len(tree.levels[l - 1])
       IN  /\ 0 < Len(tree.levels[l]) /\ Len(tree.levels[l]) < below
           /\ \A i, j \in DOMAIN tree.levels[l] :
                 /\ tree.levels[l][i].children \subseteq 1 .. below
                 /\ tree.levels[l][i].ordinal = tree.levels[l][j].ordinal => i = j

BuiltIsSound(leaves, tree) ==
    ~tree.raised =>
       /\ LevelsAbstract(leaves, tree)
       /\ tree.levels # <<>> => 0 .. Len(tree.levels) \subseteq tree.embedded
       /\ tree.paid <= tree.calls
       /\ tree.paid >= Sum([l \in DOMAIN tree.levels |-> Len(tree.levels[l])])

\* Each level abstracts the one below it, from nodes that are in the tree; every
\* node of the tree has its vector; and what was paid for is reported whatever
\* became of the summaries.
TreeIsSound(leaves, turns, remaining) == BuiltIsSound(leaves, Build(leaves, turns, remaining))

(* Propositions.  A text is a sequence of characters.                      *)

Folded(text) == FlattenSeq([i \in DOMAIN text |-> Fold(text[i])])

\* `_normalized_index`: the text without case and extra spaces, each character
\* with the place it came from, and the end of the text after the last.
NormalizedIndex(text) ==
    LET Visible(i) == text[i] # " "
        kept == {i \in DOMAIN text : \/ Visible(i)
                                     \/ /\ i > 1 /\ Visible(i - 1)
                                        /\ \E j \in i .. Len(text) : Visible(j)}
        order == Ordered(kept, <)
    IN  [text |-> FlattenSeq([k \in DOMAIN order |-> Fold(text[order[k]])]),
         origin |-> FlattenSeq([k \in DOMAIN order |->
                        [c \in DOMAIN Fold(text[order[k]]) |-> order[k] - 1]]) \o <<Len(text)>>]
Normalize(text) == NormalizedIndex(text).text

Words(text) == Cardinality({i \in DOMAIN text : text[i] # " " /\ (i = 1 \/ text[i - 1] = " ")})

Stripped(text) ==
    At(text, {i \in DOMAIN text : /\ \E a \in 1 .. i : text[a] \notin Terminators
                                  /\ \E b \in i .. Len(text) : text[b] \notin Terminators})

\* `find`: the first place of one text in another, or none.
Places(needle, text) ==
    {i \in 0 .. Len(text) - Len(needle) : SubSeq(text, i + 1, i + Len(needle)) = needle}

\* `_verbatim_span`: where the source says it, once with and once without the
\* punctuation around it.
Slice(content, start, end, needle) ==
    IF end > start /\ Normalize(SubSeq(content, start + 1, end)) = needle THEN <<start, end>> ELSE <<>>
Found(content, index, needle) ==
    IF needle = <<>> \/ Places(needle, index.text) = {} THEN <<>>
    ELSE LET p == Min(Places(needle, index.text))
         IN  Slice(content, index.origin[p + 1], index.origin[p + Len(needle) + 1], needle)
FirstOf(whole, rest) == IF whole # <<>> THEN whole ELSE rest
VerbatimSpan(content, proposition) ==
    LET Span(needle) == Found(content, NormalizedIndex(content), needle)
    IN  FirstOf(Span(Normalize(proposition)), Span(Stripped(Normalize(proposition))))

\* `_clean`: sentences, each once.
Cleaned(raw) ==
    Greedy(LAMBDA kept, t : /\ Words(t) >= MinWords
                            /\ \A k \in ToSet(kept) : Normalize(k) # Normalize(t), raw)

\* `_decompose` and `build`: the units of one passage, or the passage itself.
Unit(content, text, span) ==
    IF span = <<>> THEN [kind |-> "written", content |-> text, span |-> <<0, 0>>]
    ELSE [kind |-> "verbatim", content |-> SubSeq(content, span[1] + 1, span[2]), span |-> span]
Decompose(content, reply) ==
    LET kept == Top(Cleaned(reply.propositions), MaxUnits)
    IN  IF reply.fails \/ kept = <<>>
        THEN <<[kind |-> "source", content |-> content, span |-> <<0, Len(content)>>]>>
        ELSE [k \in DOMAIN kept |-> Unit(content, kept[k], VerbatimSpan(content, kept[k]))]

UnitsPoint(content, reply, units) ==
    /\ units # <<>> /\ Len(units) <= Max({MaxUnits, 1})
    /\ \A u \in ToSet(units) :
          u.kind = "verbatim" =>
             /\ u.content = SubSeq(content, u.span[1] + 1, u.span[2]) /\ u.content # <<>>
             /\ \E t \in ToSet(reply.propositions) :
                   Stripped(Normalize(u.content)) = Stripped(Normalize(t))
    /\ ~reply.fails => \A t \in ToSet(Top(Cleaned(reply.propositions), MaxUnits)) :
          (\E a, b \in 1 .. Len(content) : a <= b /\ SubSeq(content, a, b) = t)
             => \E u \in ToSet(units) : u.kind = "verbatim" /\ Normalize(u.content) \in {Normalize(t), Stripped(Normalize(t))}

\* Every passage is indexed under some unit; one that claims to be verbatim is
\* where it says and says what the model said but for case, spaces and its
\* punctuation; and none that the source does say is left without its place.
PropositionsPoint(content, reply) == UnitsPoint(content, reply, Decompose(content, reply))

(* Children and their parents.                                             *)

\* `_build`: children carry a running index and their place in the document; a
\* parent that yields none is its own child.
Children(parents) ==
    LET Of(p) == IF parents[p].children = <<>> THEN <<<<0, parents[p].length>>>> ELSE parents[p].children
        all == FlattenSeq([p \in DOMAIN parents |->
                  [c \in DOMAIN Of(p) |-> [parent |-> p, start |-> parents[p].start + Of(p)[c][1],
                                           end |-> parents[p].start + Of(p)[c][2]]]])
    IN  all

\* `_dedupe_by_parent`: of the hits under one parent the best, in its own place.
DedupeByParent(hits) ==
    LET KeyOf(h) == IF h.parent = 0 THEN <<"chunk", h.id>> ELSE <<"parent", h.parent>>
        Best(i) == \A j \in DOMAIN hits : KeyOf(hits[j]) = KeyOf(hits[i]) =>
                      hits[i].score > hits[j].score \/ (hits[i].score = hits[j].score /\ i <= j)
    IN  At(hits, {i \in DOMAIN hits : Best(i)})

\* `expand_parents`: the text of a parent where the store has it; a store that
\* fails leaves the children as they are.
ExpandParents(hits, store) ==
    LET survivors == DedupeByParent(hits)
    IN  [i \in DOMAIN survivors |->
            [survivors[i] EXCEPT !.wide = IF @ = 0 /\ store.up /\ survivors[i].parent \in store.rows
                                          THEN survivors[i].parent ELSE @]]

\* A child lies inside its parent and has an index of its own, so the text shown
\* in its place holds it; no parent is shown twice, no better hit is dropped for
\* a worse one, and the order of what is left does not change.
ChildrenFollow(parents, hits, store) ==
    LET out == ExpandParents(hits, store)
        children == Children(parents)
    IN  /\ \A c \in DOMAIN children :
              /\ children[c].start >= parents[children[c].parent].start
              /\ children[c].end <= parents[children[c].parent].start + parents[children[c].parent].length
        /\ \A p \in DOMAIN parents : \E c \in DOMAIN children : children[c].parent = p
        /\ \A i, j \in DOMAIN out : out[i].parent = out[j].parent /\ out[i].parent # 0 => i = j
        /\ \A h \in ToSet(hits) : \E i \in DOMAIN out : /\ h.parent # 0 => out[i].parent = h.parent
                                                       /\ h.parent = 0 => out[i].id = h.id
                                                       /\ out[i].score >= h.score
        /\ hits # <<>> => \E h \in ToSet(hits) : out[1].id = h.id
        /\ \A i \in DOMAIN out : out[i].wide # 0 => out[i].wide = out[i].parent
        /\ ~store.up => \A i \in DOMAIN out : \E h \in ToSet(hits) : h = out[i]

(* Prefixes and summaries.                                                 *)

\* `_plan_windows` of contextual.py: a passage belongs to the region its middle
\* is in, the last taking what is beyond.
RegionOf(chunk, size, count) ==
    LET middle == (chunk[1] + chunk[2]) \div 2 IN Min({Positive(middle \div size), count - 1})
Regions(chunks, size, total) ==
    LET count == Max({(total + size - 1) \div size, 1})
        used == Ordered({RegionOf(c, size, count) : c \in ToSet(chunks)}, <)
    IN  [r \in DOMAIN used |-> [start |-> used[r] * size,
                                chunks |-> SelectSeq(chunks, LAMBDA c : RegionOf(c, size, count) = used[r])]]

\* `_summarize`: short passages and failures stand for themselves.
SummaryUnit(chunk, floor) ==
    IF chunk.tokens < floor \/ chunk.reply \in {"fails", "blank"}
    THEN [source |-> chunk.id, kind |-> "source", parent |-> 0]
    ELSE [source |-> chunk.id, kind |-> "summary", parent |-> chunk.id]
SummaryBuild(chunks, floor) ==
    IF \E i \in DOMAIN chunks : chunks[i].tokens >= floor /\ chunks[i].reply = "budget" THEN <<>>
    ELSE [i \in DOMAIN chunks |-> SummaryUnit(chunks[i], floor)]
StoredSources(units) == {units[i].parent : i \in DOMAIN units} \ {0}

\* Each passage is asked about once, with a region it is in the middle of, and
\* searched through one unit, whose source is stored when it is not the unit.
EachIsPlaced(chunks, size, total, sources, floor) ==
    LET regions == Regions(chunks, size, total)
        units == SummaryBuild(sources, floor)
    IN  /\ Sum([r \in DOMAIN regions |-> Len(regions[r].chunks)]) = Len(chunks)
        /\ \A c \in ToSet(chunks) : \E r \in DOMAIN regions :
              /\ c \in ToSet(regions[r].chunks)
              /\ regions[r].start <= (c[1] + c[2]) \div 2
              /\ (c[1] + c[2]) \div 2 <= regions[r].start + size
        /\ units # <<>> => \A i \in DOMAIN sources :
              /\ units[i].source = sources[i].id
              /\ units[i].kind = "source" \/ sources[i].id \in StoredSources(units)
=============================================================================
