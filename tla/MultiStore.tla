----------------------------- MODULE MultiStore -----------------------------
(***************************************************************************)
(* MultiStoreRetriever: one query asks the stores of its route at once,    *)
(* each behind a breaker of the fan-out's own, and fuses what comes back.  *)
(* The legs run under bounded_gather, which waits for all of them; a       *)
(* failed leg is an entry in errors, a guard or a budget ends the query.   *)
(* The vector store's retriever is a fan-out itself (HybridRetriever), and *)
(* reports the legs it lost instead of raising.                            *)
(***************************************************************************)
EXTENDS Breaker, FiniteSets

CONSTANTS Callers,     \* concurrent queries
          Stores,      \* DataStore without NONE
          Configured,  \* stores that have a retriever
          Detailed,    \* stores whose retriever has retrieve_detailed
          Hybrids,     \* settings of a nested fan-out
          Limit        \* max_concurrent_retrievers

\* A retriever is one of a store, and bounded_gather has a limit.
WellConfigured == Configured \subseteq Stores /\ Limit \in Nat

VARIABLES breaker,  \* [Stores -> BreakerState]
          query,    \* [Callers -> what the caller's query has done]
          away,     \* ghost: stores that have ever been unreachable
          dark      \* ghost: stores that once lost every leg asked of them

vars == <<breaker, query, away, dark>>

Idle == [phase |-> "idle", route |-> {}, queued |-> {}, flying |-> {},
         gave |-> {}, errors |-> {}, fatal |-> FALSE]

TypeOK ==
    /\ breaker \in [Stores -> BreakerState]
    /\ \A c \in Callers :
         LET q == query[c]
         IN  /\ q.phase \in {"idle", "fanned"}
             /\ q.route \subseteq Stores \cup {"none"}
             /\ q.queued \cup q.flying \cup q.gave \cup q.errors \subseteq Stores
             /\ Cardinality(q.flying) <= Limit
    /\ away \subseteq Stores /\ dark \subseteq Stores

Init ==
    /\ breaker = [s \in Stores |-> NewBreaker]
    /\ query = [c \in Callers |-> Idle]
    /\ away = {} /\ dark = {}

\* The legs of one HybridRetriever.retrieve_detailed: a leg that is switched on
\* and has what it needs; hybrid_enabled gates the two that are not dense, and
\* with both vector legs the server fuses them in one.
HybridLegs(h) ==
    LET dense == h.dense /\ h.dense_ready
        sparse == h.sparse /\ h.hybrid /\ h.sparse_ready
        fused == h.server_side /\ dense /\ sparse
    IN  (IF fused THEN {"hybrid"} ELSE {})
          \cup (IF dense /\ ~fused THEN {"dense"} ELSE {})
          \cup (IF sparse /\ ~fused THEN {"sparse"} ELSE {})
          \cup (IF h.fulltext /\ h.hybrid /\ h.postgres THEN {"fulltext"} ELSE {})

\* _plan: each store of the route is asked, or it is an error.
Planned(q, closed) ==
    [q EXCEPT !.errors = (q.route \ {"none"}) \ closed, !.queued = closed]

Plan(c) ==
    /\ query[c].phase = "idle"
    /\ \E route \in (SUBSET Stores) \cup {{"none"}} :
         LET asked == route \cap Configured
             closed == {s \in asked : Admits(breaker[s])}
             q == [query[c] EXCEPT !.route = route, !.phase = "fanned"]
         IN  /\ route # {}
             /\ breaker' = [s \in Stores |-> IF s \in asked THEN AfterGate(breaker[s])
                                             ELSE breaker[s]]
             /\ query' = [query EXCEPT ![c] = Planned(q, closed)]
    /\ UNCHANGED <<away, dark>>

\* bounded_gather admits Limit legs at a time.
Launch(c, s) ==
    /\ query[c].phase = "fanned" /\ s \in query[c].queued
    /\ Cardinality(query[c].flying) < Limit
    /\ query' = [query EXCEPT ![c].queued = @ \ {s}, ![c].flying = @ \cup {s}]
    /\ UNCHANGED <<breaker, away, dark>>

\* Leg s of c has ended with q for the query and b for its breaker.
Ends(c, s, q, b) ==
    /\ query[c].phase = "fanned" /\ s \in query[c].flying
    /\ query' = [query EXCEPT ![c] = [q EXCEPT !.flying = @ \ {s}]]
    /\ breaker' = [breaker EXCEPT ![s] = b]

Gave(q, s) == [q EXCEPT !.gave = @ \cup {s}]
Erred(q, s) == [q EXCEPT !.errors = @ \cup {s}]

\* A retriever without legs of its own has answered, with chunks or with none.
Answers(c, s) ==
    /\ s \notin Detailed
    /\ Ends(c, s, Gave(query[c], s), RecordSuccess(breaker[s]))
    /\ UNCHANGED <<away, dark>>

\* _guarded: no leg that was attempted has answered.
Dark(legs, lost) == legs # {} /\ lost = legs

\* A nested fan-out has returned, with the legs it lost among its errors; one
\* with every leg switched off or not ready has nothing to lose and answers.
AnswersDetailed(c, s) ==
    /\ s \in Detailed
    /\ \E h \in Hybrids : \E lost \in SUBSET HybridLegs(h) :
         LET all == lost # {} /\ lost = HybridLegs(h)
             q == IF lost = {} THEN query[c] ELSE Erred(query[c], s)
         IN  /\ Ends(c, s, IF all THEN q ELSE Gave(q, s),
                     IF Dark(HybridLegs(h), lost) THEN RecordFailure(breaker[s])
                     ELSE RecordSuccess(breaker[s]))
             /\ dark' = IF all THEN dark \cup {s} ELSE dark
    /\ UNCHANGED away

\* TimeoutError or StoreUnavailable.
Unreachable(c, s) ==
    /\ s \in away
    /\ Ends(c, s, Erred(query[c], s), RecordFailure(breaker[s]))
    /\ UNCHANGED <<away, dark>>

\* Mutation: every error of a leg is held against its store.
RejectionCounts(c, s) ==
    /\ Ends(c, s, Erred(query[c], s), RecordFailure(breaker[s]))
    /\ UNCHANGED <<away, dark>>

\* Any other error: the breaker hears nothing, and a probe goes unreported.
Rejects(c, s) ==
    /\ Ends(c, s, Erred(query[c], s), breaker[s])
    /\ UNCHANGED <<away, dark>>

\* GuardrailViolation or BudgetExceeded: raised once every leg has ended.
Refuses(c, s) ==
    /\ Ends(c, s, [query[c] EXCEPT !.fatal = TRUE], breaker[s])
    /\ UNCHANGED <<away, dark>>

\* run_legs has every leg: it raises what was fatal, or _record writes the
\* errors down and _fuse merges the lists that hold something.
Return(c) ==
    /\ query[c].phase = "fanned"
    /\ query[c].queued \cup query[c].flying = {}
    /\ query' = [query EXCEPT ![c] = Idle]
    /\ UNCHANGED <<breaker, away, dark>>

\* The caller's deadline or disconnect: every leg is cancelled and waited for,
\* a queued one closed before it began.
Cancel(c) ==
    /\ query[c].phase = "fanned"
    /\ query' = [query EXCEPT ![c] = Idle]
    /\ UNCHANGED <<breaker, away, dark>>

Tick ==
    /\ breaker' = [s \in Stores |-> Aged(breaker[s])]
    /\ UNCHANGED <<query, away, dark>>

GoesAway(s) ==
    /\ away' = away \cup {s}
    /\ UNCHANGED <<breaker, query, dark>>

Next ==
    \/ \E c \in Callers :
         \/ Plan(c) \/ Return(c) \/ Cancel(c)
         \/ \E s \in Configured :
              \/ Launch(c, s) \/ Answers(c, s) \/ AnswersDetailed(c, s)
              \/ Unreachable(c, s) \/ Rejects(c, s) \/ Refuses(c, s)
    \/ Tick
    \/ \E s \in Configured : GoesAway(s)

\* Only the clock is fair.
Spec == Init /\ [][Next]_vars /\ WF_vars(Tick)

----------------------------------------------------------------------------
\* A query has an answer or a named error for every store its route selected,
\* once its legs have ended: a store skipped for its breaker, a missing
\* retriever and a leg lost while others answered all show (`_plan`, `_record`,
\* "every degradation path produces an entry"), unless it raises.
StoresAccountedFor ==
    \A c \in Callers :
        LET q == query[c]
        IN  q.phase = "fanned" /\ ~q.fatal =>
                q.route \ {"none"} \subseteq q.queued \cup q.flying \cup q.gave \cup q.errors

\* A breaker of the fan-out trips only over a store that has been away, or has
\* lost every leg it was asked for, however the legs of several queries
\* interleave: a refused query, and an answer with some legs lost, prove the
\* store alive (`_guarded`).
SilenceTripsOnly == \A s \in Stores : Tripped(breaker[s]) => s \in away \cup dark

\* No store is lost to the fan-out for good: a probe that `_plan` let through
\* and that nobody reported, its query cancelled or its leg rejected, is
\* replaced after a cooldown.
StoresRejoin == \A s \in Stores : []<>Admits(breaker[s])
=============================================================================
