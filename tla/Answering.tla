----------------------------- MODULE Answering -----------------------------
(***************************************************************************)
(* Whether an answer may be given: the checks of generate/groundedness.py, *)
(* generate/consistency.py and generate/abstain.py, the generator of       *)
(* generate/answer.py that asks them, the loops of generate/self_rag.py    *)
(* and generate/rrr.py around it, and the documents that validate/schema.py*)
(* lets in.  Scores are percentages; "fails" is a call that raises.        *)
(***************************************************************************)
EXTENDS Lists

----------------------------------------------------------------------------
(* generate/groundedness.py. *)

Grounds(g, s, con) == [grounded |-> g, score |-> s, contradicted |-> con]
Unchecked == Grounds(FALSE, 0 - 1, 0)     \* what stands for a check that raised

\* _check_holistic.
Holistic(grade, threshold) ==
    Grounds(grade.grounded /\ grade.unsupported = 0 /\ grade.score >= threshold, grade.score, 0)

\* _check_claims: a verdict for each claim; a check that failed is no support.
ByClaims(verdicts, threshold) ==
    LET of(v) == Cardinality({i \in DOMAIN verdicts : verdicts[i] = v})
        score == (100 * of("supported")) \div Len(verdicts)
    IN  IF verdicts = <<>> THEN Grounds(TRUE, 100, 0)
        ELSE Grounds(/\ 100 * of("supported") >= threshold * Len(verdicts)
                     /\ of("contradicted") = 0,
                     score, of("contradicted"))

\* _check_nli: the best premise of each sentence; every sentence has to pass.
ByNli(best, threshold) ==
    IF best = <<>> THEN Grounds(TRUE, 100, 0)
    ELSE Grounds(\A i \in DOMAIN best : best[i] >= threshold, Sum(best) \div Len(best), 0)

\* check: what it says of an answer, given what the models would say.
Check(method, decompose, model, empty, chunks, threshold) ==
    IF empty \/ chunks = 0 THEN Grounds(FALSE, 0, 0)
    ELSE IF method = "nli" /\ model.nli # "absent" THEN ByNli(model.best, threshold)
    ELSE IF method # "nli" /\ (method = "both" \/ decompose) THEN ByClaims(model.verdicts, threshold)
    ELSE Holistic(model.grade, threshold)

\* What is called grounded was supported: with no evidence never, by claims with
\* none of them contradicted and enough of them supported, however many of the
\* checks failed, and by sentences with none of them below the threshold.
GroundedIsSupported(method, decompose, model, empty, chunks, threshold) ==
    LET r == Check(method, decompose, model, empty, chunks, threshold)
        some(v) == \E i \in DOMAIN model.verdicts : model.verdicts[i] = v
    IN  r.grounded =>
          /\ ~empty /\ chunks > 0
          /\ method = "both" => ~some("contradicted")
          /\ method = "both" /\ model.verdicts # <<>> /\ threshold > 0 => some("supported")
          /\ method = "nli" /\ model.nli = "absent" => model.grade.unsupported = 0
          /\ r.score >= threshold

----------------------------------------------------------------------------
(* generate/consistency.py.  A sample is [lexical, numbers], or Failed; a    *)
(* number is [value, magnitude]; a similarity is scaled by Unit.            *)

Failed == [lexical |-> {"failed"}, numbers |-> {}]
Unit == 120

Ratio(common, total) == IF total = 0 THEN Unit ELSE (Unit * Cardinality(common)) \div total

\* _agreement_matrix: half the overlap of the words with the shorter sample,
\* half the Jaccard similarity of the numbers.
Similarity(s, t) ==
    Ratio(s.lexical \cap t.lexical, Min({Cardinality(s.lexical), Cardinality(t.lexical)}))
    + Ratio(s.numbers \cap t.numbers, Cardinality(s.numbers \cup t.numbers))

\* _number_conflicts: two samples commit to numbers of one magnitude, and differ.
Conflicts(samples) ==
    LET at(s, m) == {n \in s.numbers : n.magnitude = m}
    IN  {m \in UNION {{n.magnitude : n \in samples[i].numbers} : i \in DOMAIN samples} :
            LET committed == {i \in DOMAIN samples : at(samples[i], m) # {}}
            IN  /\ Cardinality(committed) >= 2
                /\ Cardinality(UNION {at(samples[i], m) : i \in committed}) > 1}

\* The most central sample, the first of equals.
Medoid(row) == Min({i \in DOMAIN row : \A j \in DOMAIN row : row[j] <= row[i]})

\* score, of two samples or more: `total` is twice their pairs, at full scale.
Scored(samples, row, agreement, total, threshold) ==
    [answer |-> samples[Medoid(row)],
     consistent |-> 100 * agreement >= threshold * total /\ Conflicts(samples) = {},
     agreement |-> (100 * agreement) \div total]

Summed(samples, row, threshold) ==
    Scored(samples, row, Sum(row), Len(samples) * (Len(samples) - 1) * 2 * Unit, threshold)

Agreed(samples, threshold) ==
    IF samples = <<>> THEN [answer |-> Failed, consistent |-> FALSE, agreement |-> 0]
    ELSE IF Len(samples) = 1 THEN [answer |-> samples[1], consistent |-> TRUE, agreement |-> 100]
    ELSE Summed(samples, [i \in DOMAIN samples |->
                   Sum([j \in DOMAIN samples \ {i} |-> Similarity(samples[i], samples[j])])], threshold)

CameBack(all) == SelectSeq(all, LAMBDA s : s # Failed)

\* generate and score, over the samples that came back.
Consistency(all, threshold) == Agreed(CameBack(all), threshold)

Outvotes(live, s) == Cardinality({i \in DOMAIN live : live[i] = s}) >= Max({Len(live) - 1, 2})

AgreedFairly(live, r, back) ==
    /\ back.consistent = r.consistent /\ back.agreement = r.agreement
    /\ r.consistent => \A i, j \in DOMAIN live : \A a \in live[i].numbers, b \in live[j].numbers :
            i # j /\ a.magnitude = b.magnitude => a = b
    /\ live # <<>> => \E i \in DOMAIN live : live[i] = r.answer
    /\ \A s, t \in ToSet(live) : Outvotes(live, s) /\ Similarity(s, t) < 2 * Unit => r.answer # t

\* The verdict does not depend on which sample came back first; samples that
\* disagree on a number are never consistent; and a sample that all of two or
\* more equal ones outvote is not the answer.
ConsensusIsFair(all, threshold) ==
    AgreedFairly(CameBack(all), Consistency(all, threshold), Consistency(Reverse(all), threshold))

----------------------------------------------------------------------------
(* generate/abstain.py and generate/answer.py.  Markers are numbers of       *)
(* passages; `length` stands for the words of the answer.                   *)

\* AbstentionPolicy.before_generation, as the gate that closes, or "".
BeforeGeneration(g, chunks) ==
    IF ~g.allow THEN ""
    ELSE IF Len(chunks) < g.minChunks THEN "insufficient_context"
    ELSE IF chunks # <<>> /\ \A i \in DOMAIN chunks : chunks[i].blank THEN "empty_context"
    ELSE ""

\* AbstentionPolicy.after_generation: the first gate that closes.
AfterGeneration(g, a) ==
    IF ~g.allow THEN ""
    ELSE IF a.contradicted > 0 THEN "contradicted"
    ELSE IF a.insufficient THEN "model_reported_insufficient"
    ELSE IF g.check /\ ~a.grounded THEN "ungrounded"
    ELSE IF a.invalid # {} THEN "fabricated_citations"
    ELSE IF a.evasive THEN "self_reported_unknown"
    ELSE ""

Message == "abstained"
Abstained(gate) == [text |-> Message, markers |-> {}, citations |-> {}, grounded |-> FALSE,
                    abstained |-> TRUE, gate |-> gate]

\* A check that raised takes the answer with it: the caller gets the error.
Raised == [text |-> "raised", markers |-> {}, citations |-> {}, grounded |-> FALSE,
           abstained |-> FALSE, gate |-> "raised"]

\* AnswerGenerator.generate, for the passages that were packed and the reply of
\* the model.  Citations that name no passage and, where there are citations to
\* look at, quotes that are in none make the report invalid, which stands in for
\* a groundedness check.
Generate(g, chunks, packed, reply) ==
    LET cited == reply.markers \cap DOMAIN packed
        kept == IF g.cite THEN cited ELSE {}
        invalid == reply.markers \ DOMAIN packed
        valid == invalid = {} /\ ~(g.verify /\ kept # {} /\ reply.misquoted)
        checked == g.check /\ valid
        grounded == IF checked THEN reply.grounds.grounded ELSE valid
        gate == AfterGeneration(g, [contradicted |-> IF checked THEN reply.grounds.contradicted ELSE 0,
                                    insufficient |-> reply.insufficient, grounded |-> grounded,
                                    invalid |-> invalid, evasive |-> reply.evasive])
    IN  IF BeforeGeneration(g, chunks) # "" THEN Abstained(BeforeGeneration(g, chunks))
        ELSE IF packed = <<>> THEN Abstained(BeforeGeneration(g, <<>>))
        ELSE IF checked /\ reply.grounds = Unchecked THEN Raised
        ELSE IF gate # "" THEN [Abstained(gate) EXCEPT !.grounded = grounded]
        ELSE [text |-> "reply", markers |-> cited, citations |-> kept,
              grounded |-> grounded, abstained |-> FALSE, gate |-> ""]

GivenKeeps(g, chunks, packed, reply, a) ==
    /\ a.markers \cup a.citations \subseteq DOMAIN packed
    /\ ~a.abstained /\ g.allow /\ g.check =>
         /\ a.grounded /\ reply.grounds.grounded /\ reply.grounds.contradicted = 0
         /\ reply.markers \subseteq DOMAIN packed
    /\ a.citations # {} /\ g.verify /\ g.check /\ g.allow => ~reply.misquoted
    /\ a.abstained => a.citations = {} /\ (g.allow \/ packed = <<>>)
    /\ ~a.abstained => Len(chunks) >= g.minChunks \/ ~g.allow

\* Every answer that is given has markers of passages that were in the prompt;
\* where abstaining is allowed and the check is on, it also passed the check,
\* contradicts nothing and cites no quote that its passage does not have.  An
\* abstention cites nothing, and never happens after a model was asked when
\* abstaining is off; only a check that was asked for and failed raises.
GivenIsChecked(g, chunks, packed, reply) ==
    LET a == Generate(g, chunks, packed, reply)
    IN  IF a = Raised THEN g.check /\ reply.grounds = Unchecked
        ELSE GivenKeeps(g, chunks, packed, reply, a)

----------------------------------------------------------------------------
(* The loops.  A trial is what one round would bring: of Self-RAG            *)
(* [abstained, own, ground, useful, rewrite], `own` what the generator said  *)
(* of its answer; of RRR [enough, rewrite].                                 *)

\* SelfRAG._grade: a failed check leaves the answer its own verdict, a failed
\* grade of its use says useful.
Grade(t) == [grounded |-> IF t.ground = "fails" THEN t.own ELSE t.ground = "yes",
             useful |-> t.useful # "no"]

\* SelfRAG.run, from a round on: the answer, and how many rounds were asked.
SelfRag(trials, retries, allow) ==
    LET run[k \in 0 .. retries] ==
            LET t == trials[k + 1]
                g == Grade(t)
                ends(how) == [how |-> how, round |-> k,
                              grounded |-> how = "accepted", cited |-> how # "abstained"]
            IN  IF ~t.abstained /\ g.grounded /\ g.useful THEN ends("accepted")
                ELSE IF t.abstained \/ k = retries
                     THEN ends(IF allow THEN "abstained" ELSE "suppressed")
                ELSE run[k + 1]
    IN  run[0]

\* RRR.run: a rewrite before the first retrieval, then one for each that brings
\* too little; a rewrite that fails or says the same keeps the query.
Rewrite(query, reply) == IF reply \in {"fails", "same"} THEN query ELSE Append(query, reply)

Rrr(trials, retries) ==
    LET run[k \in 0 .. retries] ==
            LET before == IF k = 0 THEN <<>> ELSE run[k - 1].query
                going == k = 0 \/ ~run[k - 1].enough
            IN  IF going
                THEN [query |-> Rewrite(before, trials[k + 1].rewrite), enough |-> trials[k + 1].enough,
                      retrieved |-> k + 1]
                ELSE run[k - 1]
    IN  run[retries]

\* Self-RAG accepts only what some check called grounded and nothing called
\* useless, the first such; else it never passes an answer off as grounded, and
\* RRR stops at the first retrieval that is enough and reports that one.
LoopsEnd(trials, retries, allow) ==
    LET s == SelfRag(trials, retries, allow)
        r == Rrr(trials, retries)
        good(k) == Grade(trials[k]).grounded /\ Grade(trials[k]).useful /\ ~trials[k].abstained
    IN  /\ s.round <= retries
        /\ (s.how = "accepted") <=> \E k \in 1 .. retries + 1 :
             good(k) /\ \A j \in 1 .. k - 1 : ~trials[j].abstained
        /\ s.how = "accepted" => /\ \/ trials[s.round + 1].ground = "yes"
                                     \/ (trials[s.round + 1].ground = "fails" /\ trials[s.round + 1].own)
                                  /\ \A j \in 1 .. s.round : ~good(j)
        /\ s.grounded <=> (s.how = "accepted")
        /\ s.how = "abstained" => ~s.cited /\ allow
        /\ r.enough <=> \E k \in 1 .. retries + 1 : trials[k].enough
        /\ r.enough => \A k \in 1 .. r.retrieved - 1 : ~trials[k].enough
        /\ r.retrieved <= retries + 1
        /\ Len(r.query) <= r.retrieved

----------------------------------------------------------------------------
(* validate/schema.py.  A document is [id, content, checksum, tenant, risky]. *)

ContentFaults == {"blank", "oversized", "binary"}

\* DocumentValidator.validate_document and _scan.
Refused(d, isolated, blocks) ==
    \/ d.content \in ContentFaults
    \/ isolated /\ d.tenant = "none"
    \/ d.risky /\ blocks

\* validate_batch.
ValidateBatch(docs, isolated, blocks) ==
    LET step(r, d) ==
            IF Refused(d, isolated, blocks) THEN [r EXCEPT !.rejected = Append(@, d.id)]
            ELSE IF \E i \in DOMAIN r.accepted : r.accepted[i].checksum = d.checksum
                 THEN [r EXCEPT !.skipped = Append(@, d.id)]
            ELSE [r EXCEPT !.accepted = Append(@, d)]
    IN  FoldLeft(step, [accepted |-> <<>>, rejected |-> <<>>, skipped |-> <<>>], docs)

\* Every document of a batch is accounted for once; a content is accepted once,
\* and is accepted whenever some document of that content passes, so a refused
\* copy never takes the good one with it.
BatchIsAccounted(docs, isolated, blocks) ==
    LET r == ValidateBatch(docs, isolated, blocks)
        sums(list) == {list[i].checksum : i \in DOMAIN list}
        good == SelectSeq(docs, LAMBDA d : ~Refused(d, isolated, blocks))
    IN  /\ Len(r.accepted) + Len(r.rejected) + Len(r.skipped) = Len(docs)
        /\ sums(r.accepted) = sums(good) /\ Cardinality(sums(good)) = Len(r.accepted)
        /\ \A i \in DOMAIN r.accepted : ~Refused(r.accepted[i], isolated, blocks)
=============================================================================
