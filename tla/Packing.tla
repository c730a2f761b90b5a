------------------------------ MODULE Packing ------------------------------
(***************************************************************************)
(* What becomes of the ranked passages before the generator sees them:     *)
(* retrieve/compress.py drops what is beside the question, and             *)
(* context/pack.py fits the rest under a token budget.  A passage is a     *)
(* record; lengths, scores and similarities are small integers.            *)
(***************************************************************************)
EXTENDS Lists

----------------------------------------------------------------------------
(* context/pack.py. *)

\* expand_units: a passage with a wider text is replaced by it, once for each
\* parent; one without is kept.
Expanded(list) ==
    LET wider(c) == c.wide > 0
        first == Greedy(LAMBDA kept, c :
                   wider(c) => \A i \in DOMAIN kept : wider(kept[i]) => kept[i].parent # c.parent,
                   list)
    IN  [i \in DOMAIN first |-> IF wider(first[i]) THEN [first[i] EXCEPT !.body = first[i].wide]
                                ELSE first[i]]

\* reorder_lost_in_middle: the best at both ends.
Reordered(list) ==
    IF Len(list) <= 2 THEN list
    ELSE LET odd == {i \in DOMAIN list : i % 2 = 1}
         IN  At(list, odd) \o Reverse(At(list, DOMAIN list \ odd))

\* What a passage takes of the budget: its text, and the frame around it.
Cost(c) == c.body + c.frame

\* _allowances: each bucket that has candidates and a weight gets its share.
Allowances(candidates, shares, left) ==
    LET buckets == {c.bucket : c \in candidates} \cap {b \in DOMAIN shares : shares[b] > 0}
        total == Sum([b \in buckets |-> shares[b]])
    IN  [b \in (IF left > 0 THEN buckets ELSE {}) |-> (left * shares[b]) \div total]

\* By score per token, scores shifted to be no less than zero; then by rank.
Candidates(list) ==
    LET low == Min({list[i].score : i \in DOMAIN list} \cup {0})
        worth(i, j) == (list[i].score - low) * Cost(list[j])
        order == Ordered(2 .. Len(list), LAMBDA i, j :
                    worth(i, j) > worth(j, i) \/ (worth(i, j) = worth(j, i) /\ i < j))
    IN  [k \in DOMAIN order |-> [list[order[k]] EXCEPT !.rank = order[k]]]

\* One pass over the candidates.
Filled(candidates, p, allowance, buckets) ==
    FoldLeft(LAMBDA q, c :
        IF c.bucket \in buckets /\ c \notin q.chosen /\ Cost(c) <= q.left /\ q.spent + Cost(c) <= allowance
        THEN [left |-> q.left - Cost(c), spent |-> q.spent + Cost(c),
              chosen |-> q.chosen \cup {c}]
        ELSE q, [p EXCEPT !.spent = 0], candidates)

\* The best passage is in, clipped to what fits, with its frame or without.
First(list, budget) ==
    LET best == [list[1] EXCEPT !.rank = 1]
        room == Max({budget - best.frame, 0})
        clip == IF room > 0 THEN room ELSE Min({Max({budget, 0}), best.body})
    IN  IF Cost(best) <= budget
        THEN [left |-> budget - Cost(best), spent |-> 0, chosen |-> {best}]
        ELSE IF clip > 0
        THEN [left |-> 0, spent |-> 0, chosen |-> {[best EXCEPT !.body = clip]}]
        ELSE [left |-> budget, spent |-> 0, chosen |-> {}]

\* The buckets in turn, heaviest first, each within its share.
FilledInTurn(candidates, first, allowed, shares) ==
    FoldLeft(LAMBDA p, b : Filled(candidates, p, allowed[b], {b}), first,
        Ordered(DOMAIN allowed, LAMBDA b, c :
            shares[b] > shares[c] \/ (shares[b] = shares[c] /\ b < c)))

SelectedFrom(candidates, first, budget, shares) ==
    Filled(candidates,
           FilledInTurn(candidates, first,
               Allowances(ToSet(candidates), shares, first.left), shares),
           budget, {c.bucket : c \in ToSet(candidates)})

\* _select: the best one, then each bucket within its share, then whatever fits.
Selected(list, budget, shares) ==
    SelectedFrom(Candidates(list), First(list, budget), budget, shares)

Emitted(ranked, reorder) == IF reorder THEN Reordered(ranked) ELSE ranked

\* build, up to the text.
Packed(list, budget, shares, expand, reorder) ==
    IF list = <<>> THEN <<>>
    ELSE Emitted(Ordered(Selected(IF expand THEN Expanded(list) ELSE list, budget, shares).chosen,
                         LAMBDA c, d : c.rank < d.rank),
                 reorder)

SpentOn(chosen, b) ==
    Sum([c \in {d \in chosen : d.bucket = b /\ d.rank > 1} |-> Cost(c)])

SharesAreSpent(out, chosen, allowed) ==
    \A b \in DOMAIN allowed : \A c \in out :
        c.bucket = b => SpentOn(chosen, b) + Cost(c) > allowed[b]

SelectionIsFair(candidates, first, p, budget, shares) ==
    /\ Sum([c \in p.chosen |-> Cost(c)]) <= budget \/ Cardinality(p.chosen) = 1
    /\ budget > 0 => \E c \in p.chosen : c.rank = 1
    /\ \A c \in ToSet(candidates) \ p.chosen : Cost(c) > p.left
    /\ SharesAreSpent(ToSet(candidates) \ p.chosen, p.chosen,
                      Allowances(ToSet(candidates), shares, first.left))

\* The budget is kept, unless the best passage had to go in without its frame;
\* nothing that would still fit is left out; and a bucket that has passages
\* left over has spent its share to within the smallest of them, however
\* greedily the better scored buckets around it fill up (`_select`).
PackingIsFair(list, budget, shares) ==
    SelectionIsFair(Candidates(list), First(list, budget), Selected(list, budget, shares),
                    budget, shares)

----------------------------------------------------------------------------
(* retrieve/compress.py. *)

NoFloor == 0 - 100   \* threshold is None

CeilPercent(n, ratio) == (n * ratio + 99) \div 100

\* argpartition: the wanted number of best ones; of equals, any.
Best(score, wanted) ==
    {S \in SUBSET DOMAIN score :
        /\ Cardinality(S) = Min({wanted, Cardinality(DOMAIN score)})
        /\ \A i \in S : \A j \in DOMAIN score \ S : score[i] >= score[j]}

\* EmbeddingFilterCompressor._select, a ratio in percent or a floor.
Similar(score, ratio, floor) ==
    IF floor = NoFloor THEN Best(score, Max({CeilPercent(Len(score), ratio), 1}))
    ELSE LET over == {i \in DOMAIN score : score[i] >= floor}
         IN  IF over # {} THEN {over}
             ELSE {{Min({i \in DOMAIN score : \A j \in DOMAIN score : score[i] >= score[j]})}}

\* EmbeddingFilterCompressor.compress, as every list it may return.
FilteredBySimilarity(list, ratio, floor, fails) ==
    IF Len(list) < 2 \/ fails THEN {list}
    ELSE {At(list, S) : S \in Similar([i \in DOMAIN list |-> list[i].score], ratio, floor)}

\* SentenceLevelCompressor.compress: of each passage its share of best sentences,
\* in their order; a text of one sentence a passage is left alone.
FilteredBySentence(list, ratio, fails) ==
    LET sentences == Sum([i \in DOMAIN list |-> Len(list[i].text)])
        pick(c) == Best([i \in DOMAIN c.text |-> c.like[c.text[i]]],
                        Max({CeilPercent(Len(c.text), ratio), 1}))
        short(c) == IF c.text = <<>> THEN {c}
                    ELSE {[c EXCEPT !.text = At(c.text, S)] : S \in pick(c)}
    IN  IF sentences <= Len(list) \/ fails THEN {list}
        ELSE {f \in [DOMAIN list -> UNION {short(list[i]) : i \in DOMAIN list}] :
                \A i \in DOMAIN list : f[i] \in short(list[i])}

Within(part, whole) == \E i \in 0 .. Len(whole) - Len(part) :
    SubSeq(whole, i + 1, i + Len(part)) = part

\* verbatim_excerpt: the excerpt if it is a part of its source, else those of
\* its sentences that are.
Verbatim(excerpt, source) ==
    IF excerpt = <<>> \/ Within(excerpt, source) THEN excerpt
    ELSE SelectSeq(excerpt, LAMBDA s : s \in ToSet(source))

\* LLMExtractCompressor._extract: nothing for an irrelevant passage, and the
\* passage as it was for a paraphrase.
Extract(c, reply) ==
    LET true == Verbatim(reply.excerpt, c.text)
    IN  IF ~reply.relevant \/ reply.excerpt = <<>> THEN <<>>
        ELSE IF true = <<>> THEN <<c>> ELSE <<[c EXCEPT !.text = true]>>

\* LLMExtractCompressor.compress: a call that fails keeps its passage, and of
\* passages that are all irrelevant the first is kept.
Extracted(list, replies) ==
    LET kept == FlattenSeq([i \in DOMAIN list |->
                    IF replies[i].failed THEN <<list[i]>> ELSE Extract(list[i], replies[i])])
    IN  IF kept = <<>> THEN Top(list, 1) ELSE kept

\* PipelineCompressor with the two stages of "both".
Piped(list, ratio, floor, fails, reply) ==
    {Extracted(kept, [i \in DOMAIN kept |-> reply[kept[i].id]]) :
        kept \in FilteredBySimilarity(list, ratio, floor, fails)}

\* Whatever the embedder or the model does: something is left, in the order it
\* had, and every sentence of it is one of the source ("a paraphrase ... is
\* rejected"), so that a citation can still be found there.
CompressionIsVerbatim(list, out) ==
    /\ list # <<>> => out # <<>>
    /\ \E f \in [DOMAIN out -> DOMAIN list] :
         /\ \A i, j \in DOMAIN out : i < j => f[i] < f[j]
         /\ \A i \in DOMAIN out : /\ out[i].id = list[f[i]].id
                                  /\ ToSet(out[i].text) \subseteq ToSet(list[f[i]].text)
=============================================================================
