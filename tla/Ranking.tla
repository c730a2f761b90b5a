------------------------------ MODULE Ranking ------------------------------
(***************************************************************************)
(* retrieve/rerank.py, retrieve/rankgpt.py and retrieve/crag.py: the       *)
(* second look at the candidates, by a cross-encoder in batches, by token  *)
(* vectors, by a model that orders windows of passages, or by one that     *)
(* grades them.  For the first three a passage is its index, and they      *)
(* return sequences of indices, best first.                                *)
(***************************************************************************)
EXTENDS Lists

\* _limit, and the same bound in the functions below it.
Limit(wanted, n) == Max({Min({wanted, n}), 1})

\* _top_pairs: all of them stably, or the best `keep` with equals in any order.
TopPairs(score, keep) ==
    LET n == Len(score)
        down(q) == \A i, j \in DOMAIN q : i < j => score[q[i]] >= score[q[j]]
        stable == Ordered(1 .. n, LAMBDA i, j :
                      score[i] > score[j] \/ (score[i] = score[j] /\ i < j))
    IN  IF keep >= n THEN {stable}
        ELSE {q \in [1 .. keep -> 1 .. n] :
                /\ down(q) /\ IsInjective(q)
                /\ \A j \in 1 .. n : j \notin Range(q) => score[q[keep]] >= score[j]}

\* The score of what a batch did not return: below all that it did.
Unscored(returned, batch) ==
    LET scores == {returned[i] : i \in DOMAIN returned \cap batch}
    IN  IF scores = {} THEN 0 ELSE Min(scores) - 1

\* _score_batches: `returned` is what the model says, batch by batch.
BatchScores(returned, n, size) ==
    [i \in 1 .. n |->
        LET first == ((i - 1) \div size) * size + 1
            batch == first .. Min({first + size - 1, n})
        IN  IF i \in DOMAIN returned THEN returned[i] ELSE Unscored(returned, batch)]

\* maxsim: of each token of the question its best match, added up; a passage
\* without a token is at the bottom.
MaxSim(like, length, tokens) ==
    [p \in DOMAIN length |->
        IF length[p] = 0 THEN 0 - tokens
        ELSE Sum([t \in 1 .. tokens |-> Max({like[p][t][u] : u \in 1 .. length[p]})])]

\* IdentityReranker: the order they came in.
Identity(n, keep) == [i \in 1 .. Limit(keep, n) |-> i]

\* rerank_with_usage: a reranker that fails passes the candidates through.
Reranked(n, wanted, fails, score) ==
    IF n = 0 THEN {<<>>}
    ELSE IF fails THEN {Identity(n, wanted)} ELSE TopPairs(score, Limit(wanted, n))

----------------------------------------------------------------------------
(* retrieve/rankgpt.py. *)

\* sliding_windows, from the end to the front, as <<first, last>>.
SlidingWindows(total, window, step) ==
    IF total <= window THEN IF total > 0 THEN <<<<1, total>>>> ELSE <<>>
    ELSE LET end(k) == total - (k - 1) * step
             n == CHOOSE k \in 1 .. total : end(k) <= window /\ \A j \in 1 .. k - 1 : end(j) > window
         IN  [k \in 1 .. n |-> <<Max({end(k) - window, 0}) + 1, end(k)>>]

\* repair_permutation: zero-based when nothing contradicts it; numbers out of
\* range and repetitions are dropped, and what is missing comes last in order.
Repaired(raw, size) ==
    LET offset == IF raw # <<>> /\ Min(Range(raw)) = 0 /\ Max(Range(raw)) < size THEN 1 ELSE 0
        index == SelectSeq([i \in DOMAIN raw |-> raw[i] + offset], LAMBDA v : v \in 1 .. size)
        order == Greedy(LAMBDA seen, v : v \notin ToSet(seen), index)
    IN  order \o Ordered(1 .. size \ ToSet(order), <)

\* What a model says to a window: one that knows the truth orders it by that,
\* another answers anything; a call that fails is like an empty reply.
Reply(model, chosen) ==
    IF model.truth = <<>> THEN model.raw
    ELSE Ordered(DOMAIN chosen, LAMBDA i, j : model.truth[chosen[i]] < model.truth[chosen[j]])

\* _order.
RankGpt(n, wanted, window, step, model) ==
    LET w == Max({Min({window, n}), 2})
        s == Max({Min({step, w}), 1})
        ranked == FoldLeft(LAMBDA order, range :
            LET chosen == SubSeq(order, range[1], range[2])
                permutation == Repaired(Reply(model, chosen), Len(chosen))
            IN  [i \in DOMAIN order |->
                    IF i < range[1] \/ i > range[2] THEN order[i]
                    ELSE chosen[permutation[i - range[1] + 1]]],
            [i \in 1 .. n |-> i], SlidingWindows(n, w, s))
    IN  IF n < 2 THEN Identity(n, Min({wanted, n})) ELSE Top(ranked, Limit(wanted, n))

----------------------------------------------------------------------------
\* Whatever a reranker returns, or however it fails, its candidates come out
\* once each, no fewer than asked for.
NoCandidateLost(n, wanted, out) ==
    /\ Len(out) = IF n = 0 THEN 0 ELSE Limit(wanted, n)
    /\ \A i, j \in DOMAIN out : out[i] \in 1 .. n /\ (i # j => out[i] # out[j])

\* A passage the model gave no score is never above one of its batch that it
\* did ("a floor below every score").
ScoredComesFirst(returned, n, size) ==
    LET score == BatchScores(returned, n, size)
    IN  \A i \in 1 .. n : \A j \in DOMAIN returned :
            (i \notin DOMAIN returned /\ (i - 1) \div size = (j - 1) \div size) => score[i] < score[j]

\* A passage without tokens is never above one with tokens.
EmptyComesLast(like, length, tokens) ==
    LET score == MaxSim(like, length, tokens)
    IN  \A p, q \in DOMAIN length : length[p] = 0 => score[p] <= score[q]

\* With a model that orders each window truly, the first window - step places
\* hold the true best: each window carries them over to the next.
WindowsCarryTheBest(n, window, step, truth) ==
    LET out == RankGpt(n, n, window, step, [truth |-> truth, raw |-> <<>>])
    IN  \A i \in 1 .. Min({window - step, n}) :
            Cardinality({j \in 1 .. n : truth[j] < truth[out[i]]}) = i - 1

----------------------------------------------------------------------------
(* retrieve/crag.py.  A passage is [id, sentences], its sentences their      *)
(* spans, one beginning where the other ends; its text is a sequence of      *)
(* spans, those between which something was left out apart.  A grade is      *)
(* [obtained, relevant, score].  What surrounds a retrieval is the record    *)
(* `c`: [top, limit, threshold, floor, max, calls, grades, strips, refine,   *)
(* compressor, web, rewrite]: `grades` by passage, `strips` by passage and   *)
(* strip, and web [allowed, enabled, up, hits].                              *)

NoLimit == -1
Reserved == 4       \* _RESERVED_CALLS
Certain == 2        \* a relevance of 1, in halves

\* _call_allowance: how many calls are left but for those of the answer.
Allowance(c, calls) == IF c.max = NoLimit THEN NoLimit ELSE Max({c.max - calls - Reserved, 0})
Affords(allowance, n) == allowance = NoLimit \/ n <= allowance

\* _relevance: a score that was left out is no doubt about the verdict.
Relevance(grade) ==
    IF ~grade.relevant THEN 0 ELSE IF grade.score > 0 THEN Min({grade.score, Certain}) ELSE Certain
Verdict(grade, c) ==
    IF ~grade.obtained THEN "ungraded"
    ELSE IF grade.relevant /\ Relevance(grade) >= c.threshold THEN "relevant" ELSE "irrelevant"

\* _strips: neighbouring sentences, together until they are long enough.
IsShort(span, c) == span[2] - span[1] < c.floor
MergeStrip(merged, span, c) ==
    IF merged # <<>> /\ IsShort(Last(merged), c) THEN Append(Front(merged), <<Last(merged)[1], span[2]>>)
    ELSE Append(merged, span)
LastMerged(merged, c) ==
    IF Len(merged) > 1 /\ IsShort(Last(merged), c)
    THEN Append(Front(Front(merged)), <<merged[Len(merged) - 1][1], Last(merged)[2]>>) ELSE merged
Strips(passage, c) ==
    LastMerged(FoldLeft(LAMBDA merged, span : MergeStrip(merged, span, c), <<>>, passage.sentences), c)

\* _refine plans passages in order up to the first that the calls left do not cover.
PlanStep(s, strips, n, allowance) ==
    IF s.stopped \/ Len(strips[n]) < 2 THEN s
    ELSE IF ~Affords(allowance, s.total + Len(strips[n])) THEN [s EXCEPT !.stopped = TRUE]
    ELSE [s EXCEPT !.total = @ + Len(strips[n]), !.planned = @ \cup {n}]
Plan(strips, allowance) ==
    FoldLeft(LAMBDA s, n : PlanStep(s, strips, n, allowance), [stopped |-> FALSE, total |-> 0, planned |-> {}],
             [n \in DOMAIN strips |-> n])

\* _reassemble: neighbours that stay are one slice of the text.
Reassembled(strips, keeps) ==
    FoldLeft(LAMBDA runs, k : IF ~keeps[k] THEN runs
                              ELSE IF runs # <<>> /\ Last(runs)[2] = strips[k][1]
                                   THEN Append(Front(runs), <<Last(runs)[1], strips[k][2]>>)
                                   ELSE Append(runs, strips[k]), <<>>, [k \in DOMAIN strips |-> k])
Whole(passage) == IF passage.sentences = <<>> THEN <<>> ELSE <<<<passage.sentences[1][1], Last(passage.sentences)[2]>>>>
Stripped(passage, strips, c) ==
    LET keeps == [k \in DOMAIN strips |-> Verdict(c.strips[passage.id][k], c) # "irrelevant"]
    IN  IF \A k \in DOMAIN keeps : ~keeps[k] THEN Whole(passage) ELSE Reassembled(strips, keeps)

Shown(passage, text) == [id |-> passage.id, text |-> text]
AsIs(passages) == [n \in DOMAIN passages |-> Shown(passages[n], Whole(passages[n]))]
Obtained(strips, planned, keep, c) ==
    Cardinality({<<n, k>> \in planned \X (1 .. Max({Len(strips[n]) : n \in planned} \cup {0})) :
                    k <= Len(strips[n]) /\ c.strips[keep[n].id][k].obtained})
RefinedBy(keep, strips, plan, c) ==
    [chunks |-> [n \in DOMAIN keep |-> Shown(keep[n], IF n \in plan.planned THEN Stripped(keep[n], strips[n], c)
                                                      ELSE Whole(keep[n]))],
     calls |-> Obtained(strips, plan.planned, keep, c)]
StripsOf(keep, c) == [n \in DOMAIN keep |-> Strips(keep[n], c)]
Refined(keep, calls, c) ==
    CASE ~c.refine \/ keep = <<>> \/ c.compressor = "fails" -> [chunks |-> AsIs(keep), calls |-> 0]
      [] c.compressor = "shortens" ->
            [chunks |-> [n \in DOMAIN keep |-> Shown(keep[n], Top(keep[n].sentences, 1))], calls |-> 0]
      [] OTHER -> RefinedBy(keep, StripsOf(keep, c), Plan(StripsOf(keep, c), Allowance(c, calls)), c)

\* _label, _web_wanted, _rewrite and _web: without a call left, or an answer, the
\* question goes to the web as it is.
Label(relevant, graded) ==
    IF relevant = 0 THEN "incorrect" ELSE IF relevant = graded THEN "correct" ELSE "ambiguous"
WebWanted(action, c) == c.web.allowed /\ action # "correct" /\ c.web.enabled
Rewritten(calls, c) == Affords(Allowance(c, calls), 1) /\ c.rewrite # "fails"
WebChunks(action, c) == IF WebWanted(action, c) /\ c.web.up THEN c.web.hits ELSE <<>>

\* _assemble: by where they are from, and nothing of the store if none of it is
\* relevant, what was not graded included.
Assembled(action, refined, web, tail, c) ==
    Top(IF action = "incorrect" THEN web ELSE refined \o web \o tail, c.limit)

Undecided(initial, calls, c) == [action |-> "undecided", chunks |-> Top(AsIs(initial), c.limit), calls |-> calls]
Acted(action, refined, tail, calls, c) ==
    [action |-> action, chunks |-> Assembled(action, refined.chunks, WebChunks(action, c), AsIs(tail), c),
     calls |-> calls + refined.calls
                 + IF WebWanted(action, c) /\ Rewritten(calls + refined.calls, c) THEN 1 ELSE 0]
Decide(head, tail, verdicts, c) ==
    LET among(v) == {n \in DOMAIN head : verdicts[n] = v}
        graded == Len(head) - Cardinality(among("ungraded"))
        action == Label(Cardinality(among("relevant")), graded)
        keep == IF action = "incorrect" THEN <<>> ELSE At(head, among("relevant"))
    IN  IF head # <<>> /\ graded = 0 THEN Undecided(head \o tail, c.calls, c)
        ELSE Acted(action, Refined(keep, c.calls + graded, c), tail, c.calls + graded, c)

\* run: a store that is down has found nothing.
GradedHead(initial, c) ==
    LET head == Top(initial, c.top)
    IN  IF Affords(Allowance(c, c.calls), Len(head)) THEN head ELSE Top(head, Allowance(c, c.calls))
Corrected(initial, c) ==
    LET head == GradedHead(initial, c)
        verdicts == [n \in DOMAIN head |-> Verdict(c.grades[head[n].id], c)]
    IN  IF head = <<>> /\ Min({c.top, Len(initial)}) > 0 THEN Undecided(initial, c.calls, c)
        ELSE Decide(head, SubSeq(initial, Len(head) + 1, Len(initial)), verdicts, c)

Covers(text, span) == \E k \in DOMAIN text : text[k][1] <= span[1] /\ span[2] <= text[k][2]
TextIsFair(passage, text, c) ==
    LET strips == Strips(passage, c)
        bad == {k \in DOMAIN strips : Verdict(c.strips[passage.id][k], c) = "irrelevant"}
    IN  \/ text = Whole(passage) /\ (c.max # NoLimit \/ ~c.refine \/ bad \in {{}, DOMAIN strips})
        \/ c.compressor # "none"
        \/ /\ {k \in DOMAIN strips : Covers(text, strips[k])} = DOMAIN strips \ bad /\ text # <<>>
           /\ \A k \in DOMAIN text : k > 1 => \E b \in bad : text[k - 1][2] <= strips[b][1] /\ strips[b][2] <= text[k][1]
StripsAreLong(strips, c) ==
    \A k \in DOMAIN strips : /\ Len(strips) > 1 => ~IsShort(strips[k], c)
                             /\ k > 1 => strips[k][1] = strips[k - 1][2]
GradeOf(passage, c) == Verdict(c.grades[passage.id], c)
CorrectionKeeps(initial, c, got) ==
    /\ c.max # NoLimit => got.calls <= Max({c.max - Reserved, c.calls})
    /\ got.action = "undecided" => got.chunks = Top(AsIs(initial), c.limit) /\ got.calls = c.calls
    /\ got.action # "undecided" /\ initial # <<>> /\ c.top > 0 =>
          \E p \in ToSet(GradedHead(initial, c)) : GradeOf(p, c) # "ungraded"
    /\ got.action \in {"correct", "ambiguous"} =>
          LET relevant == SelectSeq(GradedHead(initial, c), LAMBDA p : GradeOf(p, c) = "relevant")
          IN  /\ \A n \in 1 .. Min({Len(relevant), c.limit}) :
                    got.chunks[n].id = relevant[n].id /\ TextIsFair(relevant[n], got.chunks[n].text, c)
              /\ \A p \in ToSet(GradedHead(initial, c)) \ ToSet(relevant) : \A n \in DOMAIN got.chunks : got.chunks[n].id # p.id
    /\ \A p \in ToSet(GradedHead(initial, c)) :
          c.grades[p.id].obtained /\ c.grades[p.id].relevant /\ c.grades[p.id].score = 0 => got.action # "incorrect"
    /\ \A p \in ToSet(initial) : StripsAreLong(Strips(p, c), c)
    /\ got.action = "incorrect" => ToSet(got.chunks) \subseteq ToSet(c.web.hits)
    /\ got.action = "correct" => ToSet(got.chunks) \cap ToSet(c.web.hits) = {}

\* Whatever fails, the verdict is of what was graded and of nothing else: without
\* one the ranking stays as it is and the web is not asked; what was found
\* irrelevant is not shown, and what was relevant is, with every strip but those
\* found beside the question; and the calls of the answer are left to it
\* (retrieve/crag.py).
CorrectionIsSound(initial, c) == CorrectionKeeps(initial, c, Corrected(initial, c))
=============================================================================
