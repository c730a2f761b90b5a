------------------------------- MODULE Fusion -------------------------------
(***************************************************************************)
(* How ranked lists become one: retrieve/fusion.py merges the lists of     *)
(* several legs, and retrieve/noise.py then drops duplicates, the weak and *)
(* the redundant.  A hit is a record with an id, a score, the text it      *)
(* holds and whether its vector came with it; scores and weights are small *)
(* integers, and the fractions of the code are exact in units of 1/Unit.   *)
(***************************************************************************)
EXTENDS Lists

CONSTANTS RrfK,   \* rrf_k
          Unit,   \* a multiple of every denominator that occurs
          Alike(_, _),      \* two chunks are near-duplicates
          Relevance(_),     \* of a chunk to the question
          Redundancy(_, _)  \* of a chunk beside another

Methods == {"rrf", "dbsf", "weighted", "relative", "max"}

Ids(list) == {list[i].id : i \in DOMAIN list}

\* `_align`: the first copy of a chunk is its place in a list.
FirstCopies(list) ==
    Greedy(LAMBDA kept, hit : hit.id \notin Ids(kept), list)

\* The lists that take part, each with its weight; `max` looks at the weights
\* first, for a list without one must not answer for the others.
Legs(lists, weights, method) ==
    {l \in DOMAIN lists : lists[l] # <<>> /\ (method = "max" => weights[l] > 0)}

PlaceOf(list, id) == CHOOSE i \in DOMAIN list : list[i].id = id
Scores(list) == {list[i].score : i \in DOMAIN list}

\* `_minmax_rows`: a list whose scores are all equal has every chunk at 1.
MinMax(list, score) ==
    LET span == Max(Scores(list)) - Min(Scores(list))
    IN  IF span = 0 THEN Unit ELSE (Unit * (score - Min(Scores(list)))) \div span

\* `_zscore_rows`, of a list of at most two: the deviation is half the spread.
ZScore(list, score) ==
    IF Cardinality(Scores(list)) = 1 THEN 0
    ELSE IF score = Max(Scores(list)) THEN Unit ELSE 0 - Unit

\* Mutation: a chunk a list lacks scores as an average one of that list.
MissingIsAverage(list) == 0

\* A chunk that a list lacks is below the worst of that list.
Missing(list) == Min({ZScore(list, s) : s \in Scores(list)}) - Unit

\* One cell of the matrix that each method builds.
Contribution(method, list, id) ==
    IF id \notin Ids(list)
    THEN IF method = "dbsf" THEN Missing(list) ELSE 0
    ELSE LET i == PlaceOf(list, id)
         IN  CASE method = "rrf" -> Unit \div (RrfK + i)
               [] method = "dbsf" -> ZScore(list, list[i].score)
               [] method \in {"weighted", "relative"} -> MinMax(list, list[i].score)
               [] method = "max" -> Unit * list[i].score

\* The columns are added up, or their best cell counts; `max` takes no account
\* of the lists that lack the chunk, `relative` gives it 0 for them.
Total(method, lists, weights, legs, id) ==
    LET cell == [l \in legs |-> weights[l] * Contribution(method, lists[l], id)]
        held == {l \in legs : id \in Ids(lists[l])}
    IN  CASE method \in {"rrf", "dbsf", "weighted"} -> Sum(cell)
          [] method = "relative" -> Max({cell[l] : l \in legs})
          [] method = "max" -> Max({cell[l] : l \in held})

\* `_assemble`: by total, then by the best rank anywhere, then by id.
Assemble(totals, best) ==
    Ordered(DOMAIN totals, LAMBDA a, b :
        \/ totals[a] > totals[b]
        \/ totals[a] = totals[b] /\ best[a] < best[b]
        \/ totals[a] = totals[b] /\ best[a] = best[b] /\ a < b)

\* `max_fusion` refuses to weight negative scores unequally.
Refused(method, lists, weights, legs) ==
    /\ method = "max"
    /\ \E l \in legs : Min(Scores(lists[l])) < 0
    /\ \E l, k \in legs : weights[l] # weights[k]

Fused(method, given, weights) ==
    LET legs == Legs(given, weights, method)
        lists == [l \in legs |-> FirstCopies(given[l])]
        ids == UNION {Ids(lists[l]) : l \in legs}
        totals == [id \in ids |-> Total(method, lists, weights, legs, id)]
        best == [id \in ids |-> Min({PlaceOf(lists[l], id) :
                                       l \in {k \in legs : id \in Ids(lists[k])}})]
    IN  IF legs = {} \/ Refused(method, lists, weights, legs) THEN <<>>
        ELSE Assemble(totals, best)

----------------------------------------------------------------------------
(* NoiseFilter.apply. *)

\* `_dedupe_exact`: by id, and by text whatever the id.
DedupeExact(list) ==
    Greedy(LAMBDA kept, hit :
             \A i \in DOMAIN kept : kept[i].id # hit.id /\ kept[i].text # hit.text, list)

\* `_is_similarity_scale`: a fused rank is no similarity.
SimilarityScale(list) == \A i \in DOMAIN list : list[i].source # "fused"

\* The relative part of `_threshold`, in percent of the best score.
Cutoff(list, cutoff) ==
    IF list # <<>> /\ SimilarityScale(list) /\ list[1].score > 0
    THEN SelectSeq(list, LAMBDA hit : 100 * hit.score >= cutoff * list[1].score)
    ELSE list

\* `_threshold`.
Threshold(list, f) ==
    LET over == SelectSeq(list, LAMBDA hit : hit.score >= f.floor)
    IN  IF f.cutoff = 0 THEN over ELSE Cutoff(over, f.cutoff)

\* `_dedupe_near`: by vectors where every chunk has one, by simhash otherwise;
\* either way against what has been kept, best first.
DedupeNear(list) ==
    Greedy(LAMBDA kept, hit : \A i \in DOMAIN kept : ~Alike(kept[i], hit), list)

\* `mmr_select`, where every chunk has a vector: first the most relevant, then
\* whatever is best worth its overlap with those chosen, the earlier of equals.
Mmr(list, k) ==
    LET worth(chosen, i) ==
            IF chosen = <<>> THEN Relevance(list[i])
            ELSE Relevance(list[i]) - Max({Redundancy(list[i], list[j]) : j \in ToSet(chosen)})
        pick(chosen) ==
            LET left == DOMAIN list \ ToSet(chosen)
                best == Max({worth(chosen, i) : i \in left})
            IN  Min({i \in left : worth(chosen, i) = best})
        chosen[n \in 0 .. k] ==
            IF n = 0 THEN <<>> ELSE Append(chosen[n - 1], pick(chosen[n - 1]))
    IN  [n \in 1 .. k |-> list[chosen[k][n]]]

\* The last cut: by diversity, or the first k.
Narrowed(list, f) ==
    IF f.mmr /\ Len(list) > f.k /\ \A i \in DOMAIN list : list[i].dense
    THEN Mmr(list, f.k)
    ELSE Top(list, f.k)

Distinct(list, f) == IF f.dedupe THEN DedupeExact(list) ELSE list
Apart(list, f) == IF f.dedupe THEN DedupeNear(list) ELSE list

\* apply.
Filtered(list, f) ==
    Narrowed(Apart(Threshold(Distinct(ByKey(list, LAMBDA hit : hit.score), f), f), f), f)

----------------------------------------------------------------------------
(* What these promise. *)

PlacedAbove(lists, a, b) ==
    \A l \in DOMAIN lists :
        b \in Ids(lists[l]) => /\ a \in Ids(lists[l])
                              /\ PlaceOf(lists[l], a) < PlaceOf(lists[l], b)

FollowsAgreement(out, lists) ==
    \A i, j \in DOMAIN out : PlacedAbove(lists, out[i], out[j]) => i <= j

\* A chunk that every list places at least as high as another, and that is in
\* every list the other is in, comes before it, by every method and under any
\* weights: no normalisation, fill for an absent chunk, or tie turns agreement
\* around (`_assemble`, `_zscore_rows`).
AgreementKept(method, lists, weights) == FollowsAgreement(Fused(method, lists, weights), lists)

Stands(o, h, list, f) ==
    /\ o.score >= h.score
    /\ \/ f.dedupe /\ (o.text = h.text \/ o.id = h.id \/ Alike(o, h))
       \/ f.cutoff # 0 /\ SimilarityScale(list) /\ 100 * h.score < f.cutoff * o.score

FilterKeeps(list, f, out) ==
    /\ f.dedupe => \A i, j \in DOMAIN out :
         i # j => out[i].text # out[j].text /\ ~Alike(out[i], out[j])
    /\ Len(out) <= f.k
    /\ list # <<>> /\ f.floor <= Min(Scores(list)) /\ ~f.mmr =>
         ByKey(list, LAMBDA hit : hit.score)[1] \in ToSet(out)
    /\ f.floor <= Min(Scores(list)) /\ ~f.mmr /\ Len(out) < f.k =>
         \A h \in ToSet(list) \ ToSet(out) : \E o \in ToSet(out) : Stands(o, h, list, f)

\* The filter never returns two chunks with one text or one meaning, and each
\* one it drops is the copy, or the paraphrase, of a better one that stays, or
\* weak, or past the cut: a duplicate never takes its better copy with it.
OneOfEach(list, f) == FilterKeeps(list, f, Filtered(list, f))
=============================================================================
