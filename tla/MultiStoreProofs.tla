-------------------------- MODULE MultiStoreProofs --------------------------
(***************************************************************************)
(* Proofs about MultiStore: types, among them that the legs in flight stay *)
(* within the limit of bounded_gather; that a query accounts for every     *)
(* store of its route; and that only a silent store is cut off.  For any   *)
(* stores, concurrent queries, nested fan-outs, thresholds and cooldowns.  *)
(***************************************************************************)
EXTENDS MultiStore, FiniteSetTheorems, TLAPS

\* What one query has done.
QueryStates ==
    [phase : {"idle", "fanned"}, route : SUBSET (Stores \cup {"none"}),
     queued : SUBSET Stores, flying : SUBSET Stores, gave : SUBSET Stores,
     errors : SUBSET Stores, fatal : BOOLEAN]

\* No more legs in flight than bounded_gather admits.
Bounded(q) == IsFiniteSet(q.flying) /\ Cardinality(q.flying) <= Limit

\* Every store of the route is asked, has answered or is an error.
Accounted(q) ==
    q.phase = "fanned" /\ ~q.fatal =>
        q.route \ {"none"} \subseteq q.queued \cup q.flying \cup q.gave \cup q.errors

QueryInv(q) == q \in QueryStates /\ Bounded(q) /\ Accounted(q)

\* A breaker is tripped only over a store that was silent.
BreakersInv ==
    /\ breaker \in [Stores -> BreakerState]
    /\ away \subseteq Stores /\ dark \subseteq Stores
    /\ SilenceTripsOnly

Inv ==
    /\ query \in [Callers -> QueryStates]
    /\ \A c \in Callers : QueryInv(query[c])
    /\ BreakersInv

-----------------------------------------------------------------------------
(* The breakers.                                                           *)

\* A new breaker is not tripped.
LEMMA NewTyped == NewBreaker \in BreakerState /\ ~Tripped(NewBreaker)
  BY BreakerAssumption DEF NewBreaker, BreakerState, Tripped

\* Reading `is_open` trips nothing.
LEMMA GateTyped ==
  ASSUME NEW b \in BreakerState
  PROVE  AfterGate(b) \in BreakerState /\ (Tripped(AfterGate(b)) <=> Tripped(b))
  <1> DEFINE half == IF Tripped(b) THEN ProbeLive(b) \/ AdmitsProbe(b) ELSE b.halfOpen
             ago == IF AdmitsProbe(b) THEN 0 ELSE b.probeAgo
  <1>1. half \in BOOLEAN
    BY DEF BreakerState, ProbeLive, AdmitsProbe
  <1>2. ago \in 0 .. Reset
    BY BreakerAssumption DEF BreakerState
  <1>3. AfterGate(b) = [failures |-> b.failures, halfOpen |-> half,
                        openedAgo |-> b.openedAgo, probeAgo |-> ago]
    BY DEF AfterGate
  <1> HIDE DEF half, ago
  <1> QED
    BY <1>1, <1>2, <1>3 DEF BreakerState, Tripped

\* A success closes the breaker.
LEMMA SuccessTyped ==
  ASSUME NEW b \in BreakerState
  PROVE  RecordSuccess(b) \in BreakerState /\ ~Tripped(RecordSuccess(b))
  BY BreakerAssumption DEF BreakerState, Tripped, RecordSuccess

\* A failure is counted, up to the count that stands for all above it.
LEMMA FailureTyped ==
  ASSUME NEW b \in BreakerState
  PROVE  RecordFailure(b) \in BreakerState
  <1>1. Bump(b.failures) \in 0 .. Threshold + 1
    BY BreakerAssumption DEF BreakerState, Bump
  <1> QED
    BY <1>1, BreakerAssumption DEF BreakerState, RecordFailure

\* Time trips nothing.
LEMMA AgedTyped ==
  ASSUME NEW b \in BreakerState
  PROVE  Aged(b) \in BreakerState /\ (Tripped(Aged(b)) <=> Tripped(b))
  BY BreakerAssumption DEF BreakerState, Tripped, Aged, Older

\* One breaker has changed, to one that is tripped only if its store was silent.
LEMMA OneBreaker ==
  ASSUME BreakersInv, NEW s \in Stores, NEW b \in BreakerState,
         breaker' = [breaker EXCEPT ![s] = b],
         away' = away, dark \subseteq dark', dark' \subseteq Stores,
         Tripped(b) => s \in away \cup dark'
  PROVE  BreakersInv'
  BY DEF BreakersInv, SilenceTripsOnly

-----------------------------------------------------------------------------
(* The queries.                                                            *)

\* One query has moved.
LEMMA OneQuery ==
  ASSUME Inv, BreakersInv', NEW c \in Callers, NEW q, QueryInv(q),
         query' = [query EXCEPT ![c] = q]
  PROVE  Inv'
  BY DEF Inv, QueryInv

\* A caller without a query accounts for nothing.
LEMMA IdleInv == WellConfigured => QueryInv(Idle)
  <1> SUFFICES ASSUME WellConfigured
               PROVE  QueryInv(Idle)
    OBVIOUS
  <1>1. Idle \in QueryStates
    BY DEF Idle, QueryStates
  <1>2. Idle.flying = {} /\ Idle.phase = "idle"
    BY DEF Idle
  <1>3. IsFiniteSet({}) /\ Cardinality({}) = 0
    BY FS_EmptySet
  <1> QED
    BY <1>1, <1>2, <1>3 DEF QueryInv, Bounded, Accounted, WellConfigured

\* A leg has ended, with an answer, with an error, with both or with a refusal.
LEMMA LegEnds ==
  ASSUME Inv, WellConfigured, BreakersInv', NEW c \in Callers, NEW s \in Stores,
         s \in query[c].flying, NEW q \in QueryStates,
         q.phase = query[c].phase, q.route = query[c].route,
         q.queued = query[c].queued, q.flying = query[c].flying,
         query[c].gave \subseteq q.gave, query[c].errors \subseteq q.errors,
         query[c].fatal => q.fatal,
         s \in q.gave \cup q.errors \/ q.fatal,
         query' = [query EXCEPT ![c] = [q EXCEPT !.flying = @ \ {s}]]
  PROVE  Inv'
  <1> DEFINE p == query[c]
             n == [q EXCEPT !.flying = @ \ {s}]
  <1>1. QueryInv(p)
    BY DEF Inv
  <1>2. /\ n \in QueryStates /\ n.flying = q.flying \ {s} /\ n.phase = q.phase
        /\ n.route = q.route /\ n.queued = q.queued /\ n.gave = q.gave
        /\ n.errors = q.errors /\ n.fatal = q.fatal
    BY DEF QueryStates
  <1>3. query' = [query EXCEPT ![c] = n]
    OBVIOUS
  <1> HIDE DEF n
  <1>4. Bounded(n)
    <2>1. IsFiniteSet(p.flying) /\ Cardinality(p.flying) <= Limit
      BY <1>1 DEF QueryInv, Bounded
    <2>2. /\ IsFiniteSet(p.flying \ {s})
          /\ Cardinality(p.flying \ {s}) = Cardinality(p.flying) - 1
      BY <2>1, FS_RemoveElement
    <2>3. Cardinality(p.flying) \in Nat
      BY <2>1, FS_CardinalityType
    <2> QED
      BY <1>2, <2>1, <2>2, <2>3 DEF Bounded, WellConfigured
  <1>5. Accounted(n)
    BY <1>1, <1>2 DEF QueryInv, Accounted
  <1> QED
    BY <1>2, <1>3, <1>4, <1>5, OneQuery DEF QueryInv

\* A query that gains an answer.
LEMMA GaveTyped ==
  ASSUME NEW q \in QueryStates, NEW s \in Stores
  PROVE  /\ Gave(q, s) \in QueryStates
         /\ Gave(q, s).gave = q.gave \cup {s} /\ Gave(q, s).errors = q.errors
         /\ Gave(q, s).phase = q.phase /\ Gave(q, s).route = q.route
         /\ Gave(q, s).queued = q.queued /\ Gave(q, s).flying = q.flying
         /\ Gave(q, s).fatal = q.fatal
  BY DEF Gave, QueryStates

\* The same of an error.
LEMMA ErredTyped ==
  ASSUME NEW q \in QueryStates, NEW s \in Stores
  PROVE  /\ Erred(q, s) \in QueryStates
         /\ Erred(q, s).errors = q.errors \cup {s} /\ Erred(q, s).gave = q.gave
         /\ Erred(q, s).phase = q.phase /\ Erred(q, s).route = q.route
         /\ Erred(q, s).queued = q.queued /\ Erred(q, s).flying = q.flying
         /\ Erred(q, s).fatal = q.fatal
  BY DEF Erred, QueryStates

-----------------------------------------------------------------------------
(* The operations.                                                         *)

\* A query is planned: its route is asked or an error, breaker by breaker.
LEMMA PlanKeeps ==
  ASSUME WellConfigured, Inv, NEW c \in Callers, Plan(c)
  PROVE  Inv'
  <1> DEFINE asked(route) == route \cap Configured
             closed(route) == {s \in asked(route) : Admits(breaker[s])}
             next(route) == Planned([query[c] EXCEPT !.route = route, !.phase = "fanned"],
                                    closed(route))
  <1>1. PICK route \in (SUBSET Stores) \cup {{"none"}} :
          /\ breaker' = [s \in Stores |-> IF s \in asked(route) THEN AfterGate(breaker[s])
                                          ELSE breaker[s]]
          /\ query' = [query EXCEPT ![c] = next(route)]
    BY DEF Plan
  <1>2. UNCHANGED <<away, dark>> /\ query[c].phase = "idle"
    BY DEF Plan
  <1>3. BreakersInv'
    <2>1. \A s \in Stores : /\ breaker'[s] \in BreakerState
                            /\ Tripped(breaker'[s]) <=> Tripped(breaker[s])
      BY <1>1, GateTyped DEF Inv, BreakersInv
    <2>2. breaker' \in [Stores -> BreakerState]
      BY <1>1, <2>1
    <2> QED
      BY <1>2, <2>1, <2>2 DEF Inv, BreakersInv, SilenceTripsOnly
  <1> DEFINE p == query[c]
             open == closed(route)
             errors == (route \ {"none"}) \ open
             n == next(route)
  <1>4. p \in QueryStates /\ Bounded(p)
    BY DEF Inv, QueryInv
  <1>5. /\ open \subseteq Stores /\ route \subseteq Stores \cup {"none"}
        /\ errors \subseteq Stores
    <2>1. open \subseteq Configured
      OBVIOUS
    <2>2. Configured \subseteq Stores
      BY DEF WellConfigured
    <2>3. route \subseteq Stores \cup {"none"}
      OBVIOUS
    <2>4. errors \subseteq Stores
      BY <2>3
    <2> QED
      BY <2>1, <2>2, <2>3, <2>4
  <1> HIDE DEF closed
  <1>6. n = [p EXCEPT !.route = route, !.phase = "fanned", !.errors = errors, !.queued = open]
    <2> DEFINE m == [p EXCEPT !.route = route, !.phase = "fanned"]
    <2>1. m.route = route
      BY <1>4 DEF QueryStates
    <2>2. n = [m EXCEPT !.errors = (m.route \ {"none"}) \ open, !.queued = open]
      BY DEF Planned
    <2>3. n = [m EXCEPT !.errors = errors, !.queued = open]
      BY <2>1, <2>2
    <2> QED
      BY <2>3
  <1>7. route \ {"none"} \subseteq open \cup errors
    OBVIOUS
  <1>8. query' = [query EXCEPT ![c] = n]
    BY <1>1
  <1> HIDE DEF open, errors, n
  <1>9. /\ n \in QueryStates /\ n.flying = p.flying /\ n.route = route
        /\ n.errors = errors /\ n.queued = open
    BY <1>4, <1>5, <1>6 DEF QueryStates
  <1>10. Bounded(n) /\ Accounted(n)
    BY <1>4, <1>7, <1>9 DEF Bounded, Accounted
  <1> QED
    BY <1>3, <1>8, <1>9, <1>10, OneQuery DEF QueryInv

\* A step that leaves the breakers alone.
LEMMA Elsewhere ==
  ASSUME Inv, UNCHANGED <<breaker, away, dark>>
  PROVE  BreakersInv'
  BY DEF Inv, BreakersInv, SilenceTripsOnly

\* A leg is launched below the limit.
LEMMA LaunchKeeps ==
  ASSUME WellConfigured, Inv, NEW c \in Callers, NEW s \in Configured, Launch(c, s)
  PROVE  Inv'
  <1> DEFINE p == query[c]
             n == [p EXCEPT !.queued = p.queued \ {s}, !.flying = p.flying \cup {s}]
  <1>1. p \in QueryStates /\ Bounded(p) /\ Accounted(p)
    BY DEF Inv, QueryInv
  <1>2. s \in Stores
    BY DEF WellConfigured
  <1>3. /\ n \in QueryStates /\ n.flying = p.flying \cup {s} /\ n.queued = p.queued \ {s}
        /\ n.phase = p.phase /\ n.route = p.route /\ n.gave = p.gave
        /\ n.errors = p.errors /\ n.fatal = p.fatal
    BY <1>1, <1>2 DEF QueryStates
  <1>4. query' = [query EXCEPT ![c] = n]
    BY DEF Launch
  <1> HIDE DEF n
  <1>5. Bounded(n)
    <2>1. IsFiniteSet(p.flying) /\ Cardinality(p.flying) \in Nat
      BY <1>1, FS_CardinalityType DEF Bounded
    <2>2. Cardinality(p.flying) < Limit
      BY DEF Launch
    <2>3. /\ IsFiniteSet(p.flying \cup {s})
          /\ \/ Cardinality(p.flying \cup {s}) = Cardinality(p.flying)
             \/ Cardinality(p.flying \cup {s}) = Cardinality(p.flying) + 1
      BY <2>1, FS_AddElement
    <2> QED
      BY <1>3, <2>1, <2>2, <2>3 DEF Bounded, WellConfigured
  <1>6. Accounted(n)
    BY <1>1, <1>3 DEF Accounted
  <1>7. BreakersInv'
    BY Elsewhere DEF Launch
  <1> QED
    BY <1>3, <1>4, <1>5, <1>6, <1>7, OneQuery DEF QueryInv

\* What a leg that ends is known to be.
LEMMA LegOf ==
  ASSUME WellConfigured, Inv, NEW c \in Callers, NEW s \in Configured, NEW q, NEW b,
         Ends(c, s, q, b)
  PROVE  /\ s \in Stores /\ s \in query[c].flying /\ query[c] \in QueryStates
         /\ breaker[s] \in BreakerState
         /\ breaker' = [breaker EXCEPT ![s] = b]
         /\ query' = [query EXCEPT ![c] = [q EXCEPT !.flying = @ \ {s}]]
  BY DEF Ends, Inv, BreakersInv, WellConfigured

\* A leg answers.
LEMMA AnswersKeeps ==
  ASSUME WellConfigured, Inv, NEW c \in Callers, NEW s \in Configured, Answers(c, s)
  PROVE  Inv'
  <1> DEFINE p == query[c]
             q == Gave(p, s)
             b == RecordSuccess(breaker[s])
  <1>1. Ends(c, s, q, b) /\ UNCHANGED <<away, dark>>
    BY DEF Answers
  <1> HIDE DEF q, b
  <1>2. /\ s \in Stores /\ s \in p.flying /\ p \in QueryStates /\ breaker[s] \in BreakerState
        /\ breaker' = [breaker EXCEPT ![s] = b]
        /\ query' = [query EXCEPT ![c] = [q EXCEPT !.flying = @ \ {s}]]
    BY <1>1, LegOf
  <1>3. BreakersInv'
    <2>1. b \in BreakerState /\ ~Tripped(b)
      BY <1>2, SuccessTyped DEF b
    <2> QED
      BY <1>1, <1>2, <2>1, OneBreaker DEF Inv, BreakersInv
  <1>4. /\ q \in QueryStates /\ q.gave = p.gave \cup {s} /\ q.errors = p.errors
        /\ q.phase = p.phase /\ q.route = p.route /\ q.queued = p.queued
        /\ q.flying = p.flying /\ q.fatal = p.fatal
    BY <1>2, GaveTyped DEF q
  <1> QED
    BY <1>2, <1>3, <1>4, LegEnds

\* A nested fan-out answers with the legs it has left, or has lost them all.
LEMMA AnswersDetailedKeeps ==
  ASSUME WellConfigured, Inv, NEW c \in Callers, NEW s \in Configured, AnswersDetailed(c, s)
  PROVE  Inv'
  <1> DEFINE p == query[c]
             every(legs, lost) == lost # {} /\ lost = legs
             noted(lost) == IF lost = {} THEN p ELSE Erred(p, s)
             left(legs, lost) == IF every(legs, lost) THEN noted(lost) ELSE Gave(noted(lost), s)
             health(legs, lost) == IF Dark(legs, lost) THEN RecordFailure(breaker[s])
                                   ELSE RecordSuccess(breaker[s])
  <1>1. PICK legs, lost :
          /\ Ends(c, s, left(legs, lost), health(legs, lost))
          /\ dark' = IF every(legs, lost) THEN dark \cup {s} ELSE dark
    BY DEF AnswersDetailed
  <1>2. UNCHANGED away
    BY DEF AnswersDetailed
  <1> DEFINE q == left(legs, lost)
             b == health(legs, lost)
  <1>3. Ends(c, s, q, b)
    BY <1>1
  <1> HIDE DEF q, b
  <1>4. /\ s \in Stores /\ s \in p.flying /\ p \in QueryStates /\ breaker[s] \in BreakerState
        /\ breaker' = [breaker EXCEPT ![s] = b]
        /\ query' = [query EXCEPT ![c] = [q EXCEPT !.flying = @ \ {s}]]
    BY <1>3, LegOf
  <1>5. BreakersInv'
    <2>1. dark \subseteq dark' /\ dark' \subseteq Stores
      BY <1>1, <1>4 DEF Inv, BreakersInv
    <2>2. b \in BreakerState /\ (Tripped(b) => s \in dark')
      <3>1. CASE Dark(legs, lost)
        <4>1. b = RecordFailure(breaker[s])
          BY <3>1 DEF b
        <4>2. s \in dark'
          BY <1>1, <3>1 DEF Dark
        <4> QED
          BY <1>4, <4>1, <4>2, FailureTyped
      <3>2. CASE ~Dark(legs, lost)
        <4>1. b = RecordSuccess(breaker[s])
          BY <3>2 DEF b
        <4> QED
          BY <1>4, <4>1, SuccessTyped
      <3> QED
        BY <3>1, <3>2
    <2> QED
      BY <1>2, <1>4, <2>1, <2>2, OneBreaker DEF Inv
  <1>6. /\ q \in QueryStates /\ q.phase = p.phase /\ q.route = p.route
        /\ q.queued = p.queued /\ q.flying = p.flying /\ q.fatal = p.fatal
        /\ p.gave \subseteq q.gave /\ p.errors \subseteq q.errors
        /\ s \in q.gave \cup q.errors
    <2> DEFINE m == noted(lost)
    <2>1. /\ m \in QueryStates /\ m.phase = p.phase /\ m.route = p.route
          /\ m.queued = p.queued /\ m.flying = p.flying /\ m.fatal = p.fatal
          /\ m.gave = p.gave /\ p.errors \subseteq m.errors
          /\ lost # {} => s \in m.errors
      BY <1>4, ErredTyped
    <2>2. q = IF every(legs, lost) THEN m ELSE Gave(m, s)
      BY DEF q
    <2> HIDE DEF m
    <2>3. CASE every(legs, lost)
      BY <2>1, <2>2, <2>3
    <2>4. CASE ~every(legs, lost)
      <3>1. q = Gave(m, s)
        BY <2>2, <2>4
      <3> QED
        BY <1>4, <2>1, <3>1, GaveTyped
    <2> QED
      BY <2>3, <2>4
  <1> QED
    BY <1>4, <1>5, <1>6, LegEnds

\* A leg that failed, whatever its breaker is told.
LEMMA ErrKeeps ==
  ASSUME WellConfigured, Inv, NEW c \in Callers, NEW s \in Configured,
         NEW b \in BreakerState, Tripped(b) => s \in away \cup dark,
         Ends(c, s, Erred(query[c], s), b), UNCHANGED <<away, dark>>
  PROVE  Inv'
  <1> DEFINE p == query[c]
             q == Erred(p, s)
  <1>1. Ends(c, s, q, b)
    OBVIOUS
  <1> HIDE DEF q
  <1>2. /\ s \in Stores /\ s \in p.flying /\ p \in QueryStates
        /\ breaker' = [breaker EXCEPT ![s] = b]
        /\ query' = [query EXCEPT ![c] = [q EXCEPT !.flying = @ \ {s}]]
    BY <1>1, LegOf
  <1>3. BreakersInv'
    BY <1>2, OneBreaker DEF Inv, BreakersInv
  <1>4. /\ q \in QueryStates /\ q.errors = p.errors \cup {s} /\ q.gave = p.gave
        /\ q.phase = p.phase /\ q.route = p.route /\ q.queued = p.queued
        /\ q.flying = p.flying /\ q.fatal = p.fatal
    BY <1>2, ErredTyped DEF q
  <1> QED
    BY <1>2, <1>3, <1>4, LegEnds

\* A store that is away fails its leg.
LEMMA UnreachableKeeps ==
  ASSUME WellConfigured, Inv, NEW c \in Callers, NEW s \in Configured, Unreachable(c, s)
  PROVE  Inv'
  <1> DEFINE b == RecordFailure(breaker[s])
  <1>1. /\ s \in away /\ Ends(c, s, Erred(query[c], s), b) /\ UNCHANGED <<away, dark>>
    BY DEF Unreachable
  <1>2. b \in BreakerState
    BY FailureTyped DEF Inv, BreakersInv, WellConfigured
  <1> HIDE DEF b
  <1> QED
    BY <1>1, <1>2, ErrKeeps

\* A leg fails otherwise, and its breaker hears nothing.
LEMMA RejectsKeeps ==
  ASSUME WellConfigured, Inv, NEW c \in Callers, NEW s \in Configured, Rejects(c, s)
  PROVE  Inv'
  <1>1. Ends(c, s, Erred(query[c], s), breaker[s]) /\ UNCHANGED <<away, dark>>
    BY DEF Rejects
  <1>2. breaker[s] \in BreakerState /\ (Tripped(breaker[s]) => s \in away \cup dark)
    BY DEF Inv, BreakersInv, SilenceTripsOnly, WellConfigured
  <1> QED
    BY <1>1, <1>2, ErrKeeps

\* A guard or a budget ends the query.
LEMMA RefusesKeeps ==
  ASSUME WellConfigured, Inv, NEW c \in Callers, NEW s \in Configured, Refuses(c, s)
  PROVE  Inv'
  <1>1. PICK yes \in BOOLEAN : yes = TRUE
    OBVIOUS
  <1> DEFINE p == query[c]
             q == [p EXCEPT !.fatal = yes]
  <1>2. Ends(c, s, q, breaker[s]) /\ UNCHANGED <<away, dark>>
    BY <1>1 DEF Refuses
  <1> HIDE DEF q
  <1>3. /\ s \in Stores /\ s \in p.flying /\ p \in QueryStates
        /\ breaker' = [breaker EXCEPT ![s] = breaker[s]]
        /\ query' = [query EXCEPT ![c] = [q EXCEPT !.flying = @ \ {s}]]
    BY <1>2, LegOf
  <1>4. BreakersInv'
    <2>1. breaker' = breaker
      BY <1>3 DEF Inv, BreakersInv
    <2> QED
      BY <1>2, <2>1, Elsewhere
  <1>5. /\ q \in QueryStates /\ q.errors = p.errors /\ q.gave = p.gave
        /\ q.phase = p.phase /\ q.route = p.route /\ q.queued = p.queued
        /\ q.flying = p.flying /\ q.fatal = yes
    BY <1>3 DEF q, QueryStates
  <1> QED
    BY <1>1, <1>3, <1>4, <1>5, LegEnds

\* A query that has returned or was cancelled is forgotten.
LEMMA ReturnKeeps ==
  ASSUME WellConfigured, Inv, NEW c \in Callers, Return(c) \/ Cancel(c)
  PROVE  Inv'
  <1>1. query' = [query EXCEPT ![c] = Idle] /\ UNCHANGED <<breaker, away, dark>>
    BY DEF Return, Cancel
  <1> QED
    BY <1>1, IdleInv, OneQuery, Elsewhere

\* Time passes.
LEMMA TickKeeps ==
  ASSUME Inv, Tick
  PROVE  Inv'
  <1>1. breaker' = [s \in Stores |-> Aged(breaker[s])] /\ UNCHANGED <<query, away, dark>>
    BY DEF Tick
  <1>2. \A s \in Stores : /\ breaker'[s] \in BreakerState
                          /\ Tripped(breaker'[s]) <=> Tripped(breaker[s])
    BY <1>1, AgedTyped DEF Inv, BreakersInv
  <1>3. breaker' \in [Stores -> BreakerState]
    BY <1>1, <1>2
  <1> QED
    BY <1>1, <1>2, <1>3 DEF Inv, BreakersInv, SilenceTripsOnly

\* A store goes away.
LEMMA GoesAwayKeeps ==
  ASSUME WellConfigured, Inv, NEW s \in Configured, GoesAway(s)
  PROVE  Inv'
  BY DEF GoesAway, Inv, BreakersInv, SilenceTripsOnly, WellConfigured

-----------------------------------------------------------------------------
(* The theorems.                                                           *)

\* The invariant holds before the first query,
LEMMA InitInv == WellConfigured /\ Init => Inv
  <1> SUFFICES ASSUME WellConfigured, Init
               PROVE  Inv
    OBVIOUS
  <1>1. QueryInv(Idle)
    BY IdleInv
  <1>2. query = [c \in Callers |-> Idle] /\ breaker = [s \in Stores |-> NewBreaker]
    BY DEF Init
  <1>3. query \in [Callers -> QueryStates] /\ \A c \in Callers : QueryInv(query[c])
    BY <1>1, <1>2 DEF QueryInv
  <1>4. BreakersInv
    BY <1>2, NewTyped DEF Init, BreakersInv, SilenceTripsOnly
  <1> QED
    BY <1>3, <1>4 DEF Inv

\* and every step keeps it.
LEMMA NextInv == WellConfigured /\ Inv /\ [Next]_vars => Inv'
  <1> SUFFICES ASSUME WellConfigured, Inv, [Next]_vars
               PROVE  Inv'
    OBVIOUS
  <1>1. CASE UNCHANGED vars
    BY <1>1 DEF vars, Inv, BreakersInv, SilenceTripsOnly, QueryInv
  <1>2. ASSUME NEW c \in Callers, NEW s \in Configured,
               \/ Launch(c, s) \/ Answers(c, s) \/ AnswersDetailed(c, s)
               \/ Unreachable(c, s) \/ Rejects(c, s) \/ Refuses(c, s)
        PROVE  Inv'
    BY <1>2, LaunchKeeps, AnswersKeeps, AnswersDetailedKeeps, UnreachableKeeps,
       RejectsKeeps, RefusesKeeps
  <1>3. ASSUME NEW c \in Callers, Plan(c) \/ Return(c) \/ Cancel(c)
        PROVE  Inv'
    BY <1>3, PlanKeeps, ReturnKeeps
  <1>4. ASSUME NEW s \in Configured, GoesAway(s)
        PROVE  Inv'
    BY <1>4, GoesAwayKeeps
  <1> QED
    BY <1>1, <1>2, <1>3, <1>4, TickKeeps DEF Next

\* The invariant is one of every behaviour.
THEOREM Invariant ==
  ASSUME WellConfigured
  PROVE  Spec => []Inv
  <1>1. Init => Inv
    BY InitInv
  <1>2. Inv /\ [Next]_vars => Inv'
    BY NextInv
  <1> QED
    BY <1>1, <1>2, PTL DEF Spec

\* What the invariant says of types,
LEMMA InvTypes == Inv => TypeOK
  <1> SUFFICES ASSUME Inv
               PROVE  TypeOK
    OBVIOUS
  <1>1. ASSUME NEW c \in Callers
        PROVE  LET q == query[c]
               IN /\ q.phase \in {"idle", "fanned"}
                  /\ q.route \subseteq Stores \cup {"none"}
                  /\ q.queued \cup q.flying \cup q.gave \cup q.errors \subseteq Stores
                  /\ Cardinality(q.flying) <= Limit
    BY DEF Inv, QueryInv, QueryStates, Bounded
  <1> QED
    BY <1>1 DEF Inv, BreakersInv, TypeOK

\* of the stores of a query, and of the breakers.
LEMMA InvHonest == Inv => StoresAccountedFor /\ SilenceTripsOnly
  BY DEF Inv, QueryInv, Accounted, StoresAccountedFor, BreakersInv

\* The variables keep their types, and no query has more legs in flight than
\* bounded_gather admits.
THEOREM TypeCorrect ==
  ASSUME WellConfigured
  PROVE  Spec => []TypeOK
  BY InvTypes, Invariant, PTL

\* However its legs end, and however many queries run beside it, a query has an
\* answer or a named error for every store its route selected.
THEOREM Accounts ==
  ASSUME WellConfigured
  PROVE  Spec => []StoresAccountedFor
  BY InvHonest, Invariant, PTL

\* A breaker of the fan-out is tripped only over a store that has been out of
\* reach or has lost every leg asked of it, for any interleaving of the queries.
THEOREM Silences ==
  ASSUME WellConfigured
  PROVE  Spec => []SilenceTripsOnly
  BY InvHonest, Invariant, PTL
=============================================================================
