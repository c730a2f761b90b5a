------------------------------- MODULE Asking -------------------------------
(***************************************************************************)
(* What becomes of a question before anything is searched: the translators *)
(* that add variants, sub-questions or a hypothetical document             *)
(* (translate/), and the routers that choose stores and a prompt (route/). *)
(* A text is a number, Blank for one of spaces; a query is                 *)
(* [text, original, variants, documents, blend, subs, scope], its scope    *)
(* whatever no translator may touch: filters, tenant, top_k and vectors.   *)
(***************************************************************************)
EXTENDS Lists

CONSTANTS Blank,
          IsShort(_),       \* fewer than eight characters
          IsClose(_, _),    \* SequenceMatcher's ratio is over 0.88
          MaxVariants       \* what `_extend` and the composite keep

----------------------------------------------------------------------------
(* translate/base.py. *)

\* clean_variants: neither short, nor close to the question or to one kept.
CleanVariants(variants, original, max) ==
    Top(Greedy(LAMBDA kept, t : /\ t # Blank
                                /\ ~IsShort(t)
                                /\ ~IsClose(t, original)
                                /\ \A i \in DOMAIN kept : ~IsClose(t, kept[i]), variants), max)

\* _extend: those the query has come first.
Extend(query, new) ==
    [query EXCEPT !.variants = CleanVariants(@ \o new, query.original, MaxVariants)]

Stripped(texts) == SelectSeq(texts, LAMBDA t : t # Blank)

\* MultiQueryTranslator, RAGFusionTranslator and StepBackTranslator.
Rephrased(query, reply) == Extend(query, reply.texts)
SteppedBack(query, reply) == IF reply.texts[1] = Blank THEN query ELSE Extend(query, <<reply.texts[1]>>)

\* DecompositionTranslator: the sub-questions are all kept, as variants only
\* those that are new.
SubsOf(reply, maxSub) == Stripped(Top(reply.texts, maxSub))
Decomposed(query, reply, maxSub) ==
    IF ~reply.decomposable \/ SubsOf(reply, maxSub) = <<>> THEN query
    ELSE [Extend(query, SubsOf(reply, maxSub)) EXCEPT !.subs = SubsOf(reply, maxSub)]

\* HyDETranslator: of several samples, those that failed are left out.
Imagined(query, reply, blend) ==
    IF Stripped(reply.texts) = <<>> THEN query
    ELSE [query EXCEPT !.documents = Stripped(reply.texts), !.blend = blend]

\* A step is [kind, fails, reply]; one call that fails raises.
Translated(query, step) ==
    CASE step.kind \in {"multi_query", "rag_fusion"} -> Rephrased(query, step.reply)
      [] step.kind = "step_back" -> SteppedBack(query, step.reply)
      [] step.kind = "decomposition" -> Decomposed(query, step.reply, 2)
      [] step.kind = "hyde" -> Imagined(query, step.reply, 30)

\* CompositeTranslator.translate: a translator that raises is passed over.
Composite(query, steps) ==
    FoldLeft(LAMBDA q, step : IF step.fails THEN q ELSE Translated(q, step), query, steps)

\* hyde_search_vector: the mean of the documents with so much of the question, of
\* another dimension at times; without documents, the question.
SearchVector(query, sameShape) ==
    IF query.documents = <<>> THEN [of |-> {query.text}, question |-> 100]
    ELSE [of |-> ToSet(query.documents),
          question |-> IF sameShape THEN Min({Max({query.blend, 0}), 100}) ELSE 0]

IsDistinct(texts) == \A i, j \in DOMAIN texts : i < j => ~IsClose(texts[j], texts[i])

Extends(before, out) ==
    /\ IsPrefix(before.variants, out.variants)
    /\ before.documents # <<>> => out.documents # <<>>
    /\ before.subs # <<>> => out.subs # <<>>

TranslationKeeps(query, steps, out) ==
    /\ out.scope = query.scope /\ out.text = query.text /\ out.original = query.original
    /\ IsDistinct(out.variants) /\ Len(out.variants) <= MaxVariants
    /\ \A i \in DOMAIN out.variants : ~IsClose(out.variants[i], query.original)
    /\ \A n \in 0 .. Len(steps) : Extends(Composite(query, SubSeq(steps, 1, n)), out)

FailuresCost(query, steps, out) ==
    /\ out = Composite(query, SelectSeq(steps, LAMBDA s : ~s.fails))
    /\ \A t \in UNION {ToSet(steps[i].reply.texts) : i \in {i \in DOMAIN steps :
                         ~steps[i].fails /\ steps[i].kind \in {"multi_query", "rag_fusion"}}} :
          t = Blank \/ IsShort(t) \/ IsClose(t, query.original) \/ Len(out.variants) = MaxVariants
            \/ \E i \in DOMAIN out.variants : IsClose(t, out.variants[i])

VectorIsImagined(steps, out, vector) ==
    out.documents # <<>> =>
        /\ vector.question \in 1 .. 99
        /\ \E i \in DOMAIN steps : /\ ~steps[i].fails /\ steps[i].kind = "hyde"
                                   /\ vector.of \subseteq ToSet(steps[i].reply.texts)

NothingIsLost(query, steps, out) ==
    /\ TranslationKeeps(query, steps, out)
    /\ FailuresCost(query, steps, out)
    /\ VectorIsImagined(steps, out, SearchVector(out, TRUE))

\* Whatever translators run, in whatever order and whichever fail: none touches
\* what a query may see, none undoes what one before it found, no two variants
\* ask the same thing, and a vector made of a hypothetical document is still
\* made of it, and of the question, after the others.
TranslationIsSound(query, steps) == NothingIsLost(query, steps, Composite(query, steps))

----------------------------------------------------------------------------
(* RecursiveDecomposer.run: the sub-questions one by one, each with the      *)
(* answers before it; an error of any step is the caller's.                  *)

Questions(query, reply, maxSteps) ==
    IF Decomposed(query, reply, 2).subs = <<>> THEN <<query.text>>
    ELSE Top(Decomposed(query, reply, 2).subs, maxSteps)
Asked(query, question, known) == [text |-> question, scope |-> query.scope, original |-> query.original, known |-> known]
Chain(query, questions, unasked, fails) ==
    [raised |-> unasked \/ fails \cap DOMAIN questions # {},
     answers |-> [n \in DOMAIN questions |-> Asked(query, questions[n], Top(questions, n - 1))]]
Run(query, reply, maxSteps, fails) ==
    Chain(query, Questions(query, reply, maxSteps), reply.fails, fails)

ChainIsWhole(query, reply, run) ==
    run.raised \/
      /\ run.answers # <<>>
      /\ \A n \in DOMAIN run.answers :
           /\ run.answers[n].scope = query.scope /\ run.answers[n].text # Blank
           /\ run.answers[n].known = [k \in 1 .. n - 1 |-> run.answers[k].text]
      /\ {run.answers[n].text : n \in DOMAIN run.answers} \subseteq {query.text} \cup ToSet(reply.texts)
      /\ reply.decomposable /\ ~IsClose(reply.texts[1], query.text) /\ reply.texts[1] # Blank =>
           run.answers[1].text = reply.texts[1]

\* A question is always asked at least once, each step with the scope of the
\* question and with all that the steps before it found, in their order.
ChainIsSound(query, reply, maxSteps, fails) ==
    ChainIsWhole(query, reply, Run(query, reply, maxSteps, fails))

----------------------------------------------------------------------------
(* route/.  A decision is [failed, stores, prompt, confidence, method].      *)

Structured == {"relational", "graph", "web"}
Decision(stores, prompt, confidence) ==
    [failed |-> FALSE, stores |-> stores, prompt |-> prompt, confidence |-> confidence]
FailedLeg == [failed |-> TRUE, stores |-> <<>>, prompt |-> "none", confidence |-> 0]

\* rule_route, by the cues that its expressions find.
RuleRoute(cues) ==
    IF "talk" \in cues THEN Decision(<<"none">>, "none", 95)
    ELSE IF {"relational", "graph"} \subseteq cues
    THEN Decision(<<"relational", "graph", "vector">>, "none", 70)
    ELSE IF "relational" \in cues THEN Decision(<<"relational", "vector">>, "none", 85)
    ELSE IF "graph" \in cues THEN Decision(<<"graph", "vector">>, "none", 85)
    ELSE FailedLeg

\* LogicalRouter._coerce: known, allowed and new; none only by itself; and the
\* vector store beside any other, allowed or not.
Allowed(names, allowed) ==
    Greedy(LAMBDA kept, n : n \in allowed /\ n \notin ToSet(kept), names)
Alone(stores) == IF Len(stores) > 1 THEN SelectSeq(stores, LAMBDA n : n # "none") ELSE stores
Companied(stores) ==
    IF ToSet(stores) \cap Structured # {} /\ "vector" \notin ToSet(stores)
    THEN Append(stores, "vector") ELSE stores
Coerce(names, allowed) ==
    IF Allowed(names, allowed) = <<>> THEN <<"vector">> ELSE Companied(Alone(Allowed(names, allowed)))

\* LogicalRouter.route: an error of the model is an answer, of the vector store.
Logical(reply, allowed) ==
    IF reply.fails THEN Decision(<<"vector">>, "none", 0)
    ELSE Decision(Coerce(reply.names, allowed), reply.prompt, reply.confidence)

\* LogicalRouter._hint, called again and again: what the first call came to.
HintStep(s, outcome) ==
    IF s.cached THEN [s EXCEPT !.used = Append(@, s.hint)]
    ELSE LET hint == IF outcome = "given" THEN "schema" ELSE "default"
         IN  [cached |-> TRUE, hint |-> hint, used |-> Append(s.used, hint), asked |-> s.asked + 1]
Hints(outcomes) ==
    FoldLeft(HintStep, [cached |-> FALSE, hint |-> "default", used |-> <<>>, asked |-> 0], outcomes)

\* SemanticRouter.route, of the percentages of similarity to the exemplars of
\* each route, in order: the best exemplar speaks for its route, the first of
\* equals wins, and a route whose exemplars are all opposite is not there at all.
Lowest == 0 - 100
Reached(routes) == {r \in DOMAIN routes : \E i \in DOMAIN routes[r].similar : routes[r].similar[i] > Lowest}
BestOf(route) == Max(ToSet(route.similar))
Winner(routes, reached) ==
    Min({r \in reached : \A q \in reached : BestOf(routes[q]) <= BestOf(routes[r])})
Nearest(routes, threshold, default, winner) ==
    Decision(<<>>, IF BestOf(routes[winner]) < threshold THEN default ELSE routes[winner].prompt,
             BestOf(routes[winner]))
Semantic(routes, threshold, default) ==
    IF \A r \in DOMAIN routes : routes[r].similar = <<>> THEN Decision(<<>>, default, 0)
    ELSE IF Reached(routes) = {} THEN FailedLeg
    ELSE Nearest(routes, threshold, default, Winner(routes, Reached(routes)))

\* HybridRouter.route.  The model is asked only where no rule speaks, and a
\* conversational question is asked of nobody; the semantic router says only the
\* prompt; a leg that fails, or is not there, says nothing.
StoresOf(rule, logical) ==
    IF ~rule.failed THEN rule.stores ELSE IF ~logical.failed THEN logical.stores ELSE <<"vector">>
ConfidenceOf(rule, logical) ==
    IF ~rule.failed THEN rule.confidence ELSE IF logical.confidence > 0 THEN logical.confidence ELSE 50
Hybrid(rule, logical, semantic) ==
    IF rule.stores = <<"none">> THEN rule
    ELSE Decision(StoresOf(rule, logical), semantic.prompt, ConfidenceOf(rule, logical))

RouteIsUsable(decision) ==
    /\ decision.stores # <<>> /\ IsInjective(decision.stores)
    /\ "none" \in ToSet(decision.stores) => Len(decision.stores) = 1
    /\ ToSet(decision.stores) \cap Structured # {} => "vector" \in ToSet(decision.stores)
    /\ decision.confidence \in 1 .. 100

LegsCost(cues, reply, allowed, semantic, decision) ==
    /\ cues # {} => decision.stores = Hybrid(RuleRoute(cues), FailedLeg, FailedLeg).stores
    /\ cues = {} /\ ~reply.fails => Allowed(reply.names, allowed \ {"none"}) \in
                                      {SelectSeq(decision.stores, LAMBDA n : n # "none"),
                                       SelectSeq(decision.stores, LAMBDA n : n # "vector")} \cup {<<>>}
    /\ decision.prompt # "none" => decision.prompt = semantic.prompt
    /\ "talk" \notin cues => decision.prompt = semantic.prompt
    /\ decision.stores = <<"none">> => "talk" \in cues \/ ToSet(reply.names) \cap allowed = {"none"}

\* Whatever the rules, the model and the embeddings say, and whichever of them
\* fails: some store is searched unless a rule or the model said that none is
\* needed, nothing structured is searched alone, and each router is heard only
\* on what it is asked.
RouteIsSound(cues, reply, allowed, routes, threshold) ==
    /\ RouteIsUsable(Hybrid(RuleRoute(cues), Logical(reply, allowed), Semantic(routes, threshold, "default")))
    /\ LegsCost(cues, reply, allowed, Semantic(routes, threshold, "default"),
                Hybrid(RuleRoute(cues), Logical(reply, allowed), Semantic(routes, threshold, "default")))

WithExemplar(routes, r, similarity) == [routes EXCEPT ![r].similar = Append(@, similarity)]

StaysNearest(before, after, route, similarity, threshold) ==
    /\ before.prompt = route => after.prompt = route \/ after.failed
    /\ similarity < before.confidence /\ ~before.failed /\ ~after.failed => after.prompt = before.prompt
    /\ before.prompt \notin {"default", "none"} => before.confidence >= threshold

IsSettled(s) == s.asked <= 1 /\ \A i, j \in DOMAIN s.used : s.used[i] = s.used[j]

\* One more exemplar of a route takes no question away from it, and where it is
\* not the nearest of all it gives it none, unless the router raises; and the hint that prompts are
\* written with is fetched once and never changes.
PromptIsSteady(routes, r, similarity, threshold, outcomes) ==
    /\ StaysNearest(Semantic(routes, threshold, "default"),
                    Semantic(WithExemplar(routes, r, similarity), threshold, "default"),
                    routes[r].prompt, similarity, threshold)
    /\ IsSettled(Hints(outcomes))
=============================================================================
