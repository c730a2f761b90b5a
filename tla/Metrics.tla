------------------------------ MODULE Metrics ------------------------------
(***************************************************************************)
(* What a result or an answer is worth: eval/retrieval_metrics.py and      *)
(* eval/answer_metrics.py.  A score is a whole number of Units-th, or NaN; *)
(* a row is the sequence of ids that a query retrieved, its labels the set *)
(* of those that are relevant.                                             *)
(***************************************************************************)
EXTENDS Lists

Unit == 5040
NaN == 0 - 1

----------------------------------------------------------------------------
(* eval/retrieval_metrics.py. *)

\* Mutation: an item retrieved twice is found twice.
HitsRepeated(row, labels, k) == {i \in 1 .. Min({k, Len(row)}) : row[i] \in labels}

\* relevance_matrix: the positions, of the first k, that find a label, each once.
Hits(row, labels, k) ==
    {i \in 1 .. Min({k, Len(row)}) : row[i] \in labels /\ \A j \in 1 .. i - 1 : row[j] # row[i]}

\* Every metric of a query without labels is undefined.
Labelled(labels, value) == IF labels = {} THEN NaN ELSE value

Recall(row, labels, k) ==
    Labelled(labels, (Unit * Cardinality(Hits(row, labels, k))) \div Max({Cardinality(labels), 1}))
Precision(row, labels, k) == Labelled(labels, (Unit * Cardinality(Hits(row, labels, k))) \div k)
HitRate(row, labels, k) == Labelled(labels, IF Hits(row, labels, k) # {} THEN Unit ELSE 0)
ReciprocalRank(row, labels, k) ==
    LET hits == Hits(row, labels, k)
    IN  Labelled(labels, IF hits = {} THEN 0 ELSE Unit \div Min(hits))

AveragePrecision(row, labels, k) ==
    LET hits == Hits(row, labels, k)
        at == [i \in hits |-> (Unit * Cardinality({j \in hits : j <= i})) \div i]
    IN  Labelled(labels, Sum(at) \div Max({Min({Cardinality(labels), k}), 1}))

Discount == <<1000, 631, 500, 431>>      \* 1 / log2(i + 1), in thousandths

\* ndcg_at_k, over the best that the labels allow for.
Ndcg(row, labels, k, gains) ==
    LET dcg == Sum([i \in Hits(row, labels, k) |-> gains[row[i]] * Discount[i]])
        best == Ordered(labels, LAMBDA a, b : gains[a] > gains[b] \/ (gains[a] = gains[b] /\ a < b))
        ideal == Sum([i \in 1 .. Min({k, Len(best)}) |-> gains[best[i]] * Discount[i]])
    IN  Labelled(labels, IF ideal > 0 THEN (Unit * dcg) \div ideal ELSE 0)

\* _aggregate: the mean of what is defined.
Aggregate(values) ==
    LET defined == {i \in DOMAIN values : values[i] # NaN}
    IN  IF defined = {} THEN 0
        ELSE Sum([i \in defined |-> values[i]]) \div Cardinality(defined)

\* evaluate_retrieval: every metric as a vector over the queries.
EvaluateRetrieval(rows, labels, ks, gains) ==
    LET widest == Max({Len(rows[i]) : i \in DOMAIN rows} \cup {1})
    IN  [recall |-> [k \in ks |-> [i \in DOMAIN rows |-> Recall(rows[i], labels[i], k)]],
         precision |-> [k \in ks |-> [i \in DOMAIN rows |-> Precision(rows[i], labels[i], k)]],
         hitRate |-> [k \in ks |-> [i \in DOMAIN rows |-> HitRate(rows[i], labels[i], k)]],
         ndcg |-> [k \in ks |-> [i \in DOMAIN rows |-> Ndcg(rows[i], labels[i], k, gains)]],
         mrr |-> [i \in DOMAIN rows |-> ReciprocalRank(rows[i], labels[i], widest)],
         map |-> [i \in DOMAIN rows |-> AveragePrecision(rows[i], labels[i], widest)]]

Scores(row, labels, k, gains) ==
    <<Recall(row, labels, k), Precision(row, labels, k), HitRate(row, labels, k),
      Ndcg(row, labels, k, gains), ReciprocalRank(row, labels, k), AveragePrecision(row, labels, k)>>

Swapped(row, i) == [row EXCEPT ![i] = row[i + 1], ![i + 1] = row[i]]

NoneBeats(first, second) == \A m \in DOMAIN first : second[m] <= first[m]
IsPerfect(s) == s[1] = Unit /\ s[4] = Unit /\ s[5] = Unit /\ s[6] = Unit

MovesCount(s, row, labels, k, gains) ==
    /\ \A m \in DOMAIN s : IF labels = {} THEN s[m] = NaN ELSE s[m] \in 0 .. Unit
    /\ \A f \in {Swapped(row, i) : i \in {j \in 1 .. Len(row) - 1 :
                    row[j] \in labels /\ row[j + 1] \notin labels}}
                \cup {SubSeq(row, 1, i) \o SubSeq(row, i, Len(row)) : i \in DOMAIN row} :
         NoneBeats(s, Scores(f, labels, k, gains))
    /\ /\ labels # {} /\ k >= Cardinality(labels)
       /\ Hits(row, labels, Max({Len(row), 1})) = 1 .. Cardinality(labels)
       /\ \A a, b \in labels : gains[a] = gains[b] /\ gains[a] > 0
       => IsPerfect(s)

UnlabelledWeighsNothing(one, two, k) ==
    Aggregate(one.recall[k]) = Aggregate(two.recall[k]) /\ Aggregate(one.map) = Aggregate(two.map)

\* No metric is above one or, for a labelled query, undefined; a longer cut-off
\* never loses a find; to bring a relevant result one place up, past one that is
\* not, never lowers a metric; a copy of a result is worth nothing; to have all
\* labels at the top is worth one; and a query without labels weighs nothing.
MetricsAreSound(row, labels, k, gains) ==
    /\ MovesCount(Scores(row, labels, k, gains), row, labels, k, gains)
    /\ Recall(row, labels, k) <= Recall(row, labels, k + 1)
    /\ (HitRate(row, labels, k) = Unit) <=> (Recall(row, labels, k) > 0)
    /\ UnlabelledWeighsNothing(EvaluateRetrieval(<<row>>, <<labels>>, {k}, gains),
                               EvaluateRetrieval(<<row, row>>, <<labels, {}>>, {k}, gains), k)

----------------------------------------------------------------------------
(* eval/answer_metrics.py. *)

\* _lcs_length, row by row.
LcsLength(a, b) ==
    LET row[i \in 0 .. Len(a)] ==
            LET prev == row[i - 1]
                cur[j \in 0 .. Len(b)] ==
                    IF j = 0 THEN 0
                    ELSE IF a[i] = b[j] THEN prev[j - 1] + 1 ELSE Max({cur[j - 1], prev[j]})
            IN  IF i = 0 THEN [j \in 0 .. Len(b) |-> 0] ELSE cur
    IN  row[Len(a)][Len(b)]

\* 2PR / (P + R) with P = common / a and R = common / b.
F1(common, a, b) == IF a = 0 \/ b = 0 THEN 0 ELSE (2 * Unit * common) \div (a + b)

Count(x, seq) == Cardinality({i \in DOMAIN seq : seq[i] = x})

TokenF1(a, b) ==
    F1(Sum([x \in ToSet(a) |-> Min({Count(x, a), Count(x, b)})]), Len(a), Len(b))
RougeL(a, b) == F1(LcsLength(a, b), Len(a), Len(b))
LexicalOverlap(a, b) == IF a = <<>> \/ b = <<>> THEN NaN ELSE (TokenF1(a, b) + RougeL(a, b)) \div 2

\* AnswerMetrics.context_precision: the share of the judged passages that were used.
ContextPrecision(verdicts) ==
    LET of(v) == Cardinality({i \in DOMAIN verdicts : verdicts[i] = v})
        judged == Len(verdicts) - of("fails")
    IN  IF judged <= 0 THEN NaN ELSE (Unit * of("used")) \div judged

\* answer_correctness: three parts of statements to one of similarity.
AnswerCorrectness(tp, fp, fn, similarity) ==
    LET factual == IF 2 * tp + fp + fn = 0 THEN 0 ELSE (Unit * 2 * tp) \div (2 * tp + fp + fn)
    IN  IF similarity = NaN THEN factual ELSE (3 * factual + similarity) \div 4

\* evaluate: the metrics asked for, each on its own; a judge that raises leaves
\* its metric undefined, and one without what it needs is skipped.
Judged(wanted, outcome, embedder) ==
    [m \in wanted |-> IF \/ outcome[m] \in {"fails", "skipped"}
                         \/ m = "answer_relevance" /\ ~embedder
                      THEN NaN ELSE Unit]

\* The overlap of two texts is the same both ways, one for the same words only,
\* and order makes it no larger; a judge that failed neither raises nor lowers
\* what the others found; one failing metric costs no other.
OverlapIsSymmetric(a, b) ==
    /\ LexicalOverlap(a, b) = LexicalOverlap(b, a) /\ RougeL(a, b) <= TokenF1(a, b)
    /\ a # <<>> /\ b # <<>> => /\ (RougeL(a, b) = Unit) <=> (a = b)
                               /\ (TokenF1(a, b) = Unit) <=> \A x \in ToSet(a \o b) : Count(x, a) = Count(x, b)
JudgesAreApart(verdicts, outcome) ==
    /\ ContextPrecision(verdicts) \in {NaN} \cup 0 .. Unit
    /\ ContextPrecision(Append(verdicts, "fails")) = ContextPrecision(verdicts)
    /\ \A m, n \in DOMAIN outcome : m # n =>
         Judged(DOMAIN outcome, [outcome EXCEPT ![m] = "fails"], TRUE)[n] = Judged(DOMAIN outcome, outcome, TRUE)[n]
=============================================================================
