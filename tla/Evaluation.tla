----------------------------- MODULE Evaluation -----------------------------
(***************************************************************************)
(* Runs of an evaluation: eval/runner.py and eval/dataset.py.  A case is   *)
(* [id, labels, documents, unanswerable]; what its run brings is           *)
(* [retrieved, scoring, latency, abstained], `retrieved` Failed when the   *)
(* pipeline raises, `scoring` NaN when a judge does.                       *)
(***************************************************************************)
EXTENDS Lists

M == INSTANCE Metrics

NaN == M!NaN
Failed == <<NaN>>

----------------------------------------------------------------------------
(* eval/runner.py. *)

\* EvalRunner._run_case and _score: a failing pipeline fails the case, a failing
\* judge only leaves it without a score; a question that has no answer is scored
\* by whether the answer abstained.
RunCase(case, outcome) ==
    LET score == IF case.unanswerable THEN [abstention |-> IF outcome.abstained THEN M!Unit ELSE 0]
                 ELSE IF outcome.scoring = NaN THEN <<>>
                 ELSE [overlap |-> outcome.scoring]
    IN  [case |-> case, ok |-> outcome.retrieved # Failed,
         row |-> IF outcome.retrieved = Failed THEN <<>> ELSE outcome.retrieved,
         latency |-> outcome.latency, scores |-> IF outcome.retrieved = Failed THEN <<>> ELSE score]

\* CaseResult.retrieved_documents, each once, in the order of its first chunk.
RetrievedDocuments(row, documentOf) ==
    Greedy(LAMBDA kept, d : \A i \in DOMAIN kept : kept[i] # d, [i \in DOMAIN row |-> documentOf[row[i]]])

Ids(results) == [i \in DOMAIN results |-> results[i].case.id]

\* EvalRunner._aggregate: vectors over the cases that ran, and over those of
\* them that name a document.
AggregateRun(results, documentOf, k) ==
    LET scored == SelectSeq(results, LAMBDA r : r.ok)
        labelled == SelectSeq(scored, LAMBDA r : r.case.documents # {})
        names == UNION {DOMAIN scored[i].scores : i \in DOMAIN scored}
        one == [x \in UNION {ToSet(scored[i].row) \cup scored[i].case.labels : i \in DOMAIN scored} |-> 1]
    IN  [results |-> results, scoredIds |-> Ids(scored), documentIds |-> Ids(labelled),
         retrieval |-> M!EvaluateRetrieval([i \in DOMAIN scored |-> scored[i].row],
                            [i \in DOMAIN scored |-> scored[i].case.labels], {k}, one),
         documentRecall |-> [i \in DOMAIN labelled |->
                            M!Recall(RetrievedDocuments(labelled[i].row, documentOf), labelled[i].case.documents, k)],
         answers |-> [n \in names |-> [i \in DOMAIN scored |->
                            IF n \in DOMAIN scored[i].scores THEN scored[i].scores[n] ELSE NaN]]]

\* dict(zip(ids, values)).
Zipped(ids, values) ==
    [id \in ToSet(ids) |-> values[Max({i \in DOMAIN ids : ids[i] = id})]]

\* RunReport.series: the values of a metric by the id of their case.
Series(report, metric, k) ==
    IF metric = "latency_ms"
    THEN LET ok == SelectSeq(report.results, LAMBDA r : r.ok)
         IN  Zipped(Ids(ok), [i \in DOMAIN ok |-> ok[i].latency])
    ELSE IF metric = "recall" THEN Zipped(report.scoredIds, report.retrieval.recall[k])
    ELSE IF metric = "doc_recall" THEN Zipped(report.documentIds, report.documentRecall)
    ELSE Zipped(report.scoredIds, report.answers[metric])

SeriesNames(report) == {"latency_ms", "recall"} \cup DOMAIN report.answers
                       \cup (IF report.documentIds = <<>> THEN {} ELSE {"doc_recall"})

\* Each series gives a case its own value, whatever became of the cases around
\* it: one that failed has none, shifts no other and lowers no mean.
SeriesAreAligned(cases, outcome, documentOf, k) ==
    LET all == [i \in DOMAIN cases |-> RunCase(cases[i], outcome[i])]
        report == AggregateRun(all, documentOf, k)
        without == AggregateRun(SelectSeq(all, LAMBDA r : r.ok), documentOf, k)
    IN  /\ \A m \in SeriesNames(report) : \A i \in DOMAIN cases :
             LET s == Series(report, m, k)
                 alone == AggregateRun(<<all[i]>>, documentOf, k)
             IN  /\ cases[i].id \in DOMAIN s => all[i].ok
                 /\ all[i].ok /\ m \in SeriesNames(alone) =>
                      s[cases[i].id] = Series(alone, m, k)[cases[i].id]
        /\ SeriesNames(without) = SeriesNames(report)
        /\ \A m \in SeriesNames(report) : Series(without, m, k) = Series(report, m, k)

----------------------------------------------------------------------------
(* Comparisons. *)

LowerIsBetter(metric) == metric \in {"latency_ms", "cost_usd"}

\* paired_bootstrap: over the cases that both runs have a value for, the interval
\* of the mean difference.  A mean is a sum over n draws; `draws` stands for the
\* generator's indices, and tail for how many of the means lie outside each end.
PairedBootstrap(baseline, candidate, draws, tail) ==
    LET shared == {id \in DOMAIN baseline \cap DOMAIN candidate :
                      baseline[id] # NaN /\ candidate[id] # NaN}
        n == Cardinality(shared)
        diff == [i \in 1 .. n |-> LET id == Ordered(shared, <)[i] IN candidate[id] - baseline[id]]
        means == [d \in draws[n] |-> Sum([i \in 1 .. n |-> diff[d[i]]])]
        beyond(v, Side(_, _)) == Cardinality({d \in draws[n] : Side(means[d], v)})
        quantile(Side(_, _)) == CHOOSE v \in {means[d] : d \in draws[n]} :
            /\ beyond(v, Side) <= tail
            /\ beyond(v, LAMBDA a, b : a = b \/ Side(a, b)) > tail
        same == \A i \in 1 .. n : diff[i] = diff[1]
        total == Sum(diff)
    IN  IF n <= 1 THEN [n |-> n, bounded |-> FALSE, low |-> 0, high |-> 0, difference |-> total]
        ELSE IF same THEN [n |-> n, bounded |-> TRUE, low |-> total, high |-> total, difference |-> total]
        ELSE [n |-> n, bounded |-> TRUE, low |-> quantile(<), high |-> quantile(>),
              difference |-> total]

\* BootstrapResult.significant and verdict.
Verdict(metric, r) ==
    IF r.n = 0 THEN "no_pairs"
    ELSE IF ~(r.bounded /\ (r.low > 0 \/ r.high < 0)) THEN "inconclusive"
    ELSE IF (IF LowerIsBetter(metric) THEN r.difference < 0 ELSE r.difference > 0)
    THEN "better" ELSE "worse"

VerdictIsFounded(both, r, verdict) ==
    verdict \in {"better", "worse"} => /\ Cardinality(both) >= 2
                                       /\ r.low <= r.difference /\ r.difference <= r.high

VerdictTurns(metric, baseline, candidate, both, there, back) ==
    /\ (there = "better") <=> (back = "worse")
    /\ (there = "better") /\ LowerIsBetter(metric) => \E id \in both : candidate[id] < baseline[id]

InBoth(baseline, candidate) ==
    {id \in DOMAIN baseline \cap DOMAIN candidate : baseline[id] # NaN /\ candidate[id] # NaN}

\* What is better one way is worse the other; a run is never better than itself,
\* no verdict rests on one case, on cases that one of the runs has no value for,
\* or on a mean on the other side of zero than its interval.
ComparisonsAreFair(metric, baseline, candidate, draws, tail) ==
    LET Result(a, b) == PairedBootstrap(a, b, draws, tail)
        both == InBoth(baseline, candidate)
        Founded(r) == VerdictIsFounded(both, r, Verdict(metric, r))
    IN  /\ VerdictTurns(metric, baseline, candidate, both,
                        Verdict(metric, Result(baseline, candidate)), Verdict(metric, Result(candidate, baseline)))
        /\ Verdict(metric, Result(baseline, baseline)) \in {"no_pairs", "inconclusive"}
        /\ Founded(Result(baseline, candidate))

----------------------------------------------------------------------------
(* eval/dataset.py.  A question's id is the hash of its text, so it is its   *)
(* text; a chunk brings the questions a model wrote, unless the call failed. *)

\* EvalDataset.extend: the cases that were new.
Extend(cases, new) ==
    Greedy(LAMBDA kept, c : \A i \in DOMAIN kept : kept[i].id # c.id, cases \o new)

Good(chunk) == SelectSeq(chunk.questions, LAMBDA q : q.kind = "good")

\* SyntheticQuestionGenerator._from_chunk and _paraphrase_of.
FromChunk(chunk) ==
    LET good == Good(chunk)
        case(q, id, of) == [id |-> id, expected |-> chunk.id, of |-> of]
        originals == [i \in DOMAIN good |-> case(good[i], good[i].text, "none")]
        reworded == SelectSeq(good, LAMBDA q : q.paraphrase \notin {"fails", "same"})
    IN  [cases |-> originals \o [i \in DOMAIN reworded |-> case(reworded[i], reworded[i].paraphrase, reworded[i].text)],
         rejected |-> Len(chunk.questions) - Len(good), failed |-> Len(good) - Len(reworded)]

\* generate, over the chunks long enough to ask about.
GenerateDataset(chunks) ==
    LET step(r, c) ==
            IF c.failed THEN [r EXCEPT !.chunksFailed = @ + 1]
            ELSE LET made == FromChunk(c)
                     all == Extend(r.cases, made.cases)
                     added == SubSeq(all, Len(r.cases) + 1, Len(all))
                     originals == Len(SelectSeq(added, LAMBDA x : x.of = "none"))
                 IN  [r EXCEPT !.cases = all, !.rejected = @ + made.rejected,
                               !.duplicate = @ + Len(made.cases) - Len(added),
                               !.questions = @ + originals,
                               !.paraphrases = @ + Len(added) - originals,
                               !.paraphrasesFailed = @ + made.failed]
    IN  FoldLeft(step, [cases |-> <<>>, chunksFailed |-> 0, rejected |-> 0, duplicate |-> 0,
                        questions |-> 0, paraphrases |-> 0, paraphrasesFailed |-> 0], chunks)

CasesAreAsked(cases, asked) ==
    \A i \in DOMAIN cases :
       /\ \A j \in DOMAIN cases : i # j => cases[i].id # cases[j].id
       /\ cases[i].of # "none" => \E j \in DOMAIN cases : cases[j].id = cases[i].of
       /\ \E k \in DOMAIN asked : /\ asked[k].id = cases[i].expected
                                  /\ \E q \in ToSet(asked[k].questions) : cases[i].id \in {q.text, q.paraphrase}

ReportAdds(r, asked) ==
    /\ r.questions + r.paraphrases = Len(r.cases)
    /\ Sum([i \in DOMAIN asked |-> Len(asked[i].questions)]) + Sum([i \in DOMAIN asked |-> Len(Good(asked[i]))])
          = r.rejected + r.duplicate + Len(r.cases) + r.paraphrasesFailed
    /\ CasesAreAsked(r.cases, asked)

\* No question is in a dataset twice, however often it was generated; every case
\* expects the chunk it was asked of; a paraphrase always has its original there;
\* and the report accounts for every question and every paraphrase asked for.
DatasetIsAccounted(chunks) ==
    ReportAdds(GenerateDataset(chunks), SelectSeq(chunks, LAMBDA c : ~c.failed))
=============================================================================
