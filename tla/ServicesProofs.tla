---------------------------- MODULE ServicesProofs ----------------------------
(***************************************************************************)
(* Proofs about the parts of MCServices, for any values of its constants   *)
(* that its ASSUME admits: the breaker of a store and the contract it      *)
(* keeps; the token bucket; the keyed limiter; and the composition, with   *)
(* the invariants of MultiStoreProofs and ServerProofs.                    *)
(***************************************************************************)
EXTENDS MCServices, WellFoundedInduction, FiniteSetTheorems, TLAPS

-----------------------------------------------------------------------------
(* The breaker of a store.                                                 *)


\* What every operation of the breaker keeps.  The last part is the
\* strengthening: a tripped gate that is not half-open was tripped, or
\* re-tripped by a failed probe, after the last probe was let through.
BreakerInv(b) ==
    /\ b \in BreakerState
    /\ b.halfOpen => Tripped(b) /\ b.openedAgo = Reset
    /\ Tripped(b) /\ ~b.halfOpen => b.openedAgo <= b.probeAgo

\* A new breaker satisfies the invariant (`CircuitBreaker.__init__`).
LEMMA NewBreakerInv == BreakerInv(NewBreaker)
BY BreakerAssumption DEF BreakerInv, BreakerState, NewBreaker, Tripped

\* Reading `is_open` keeps the invariant and the failure count, and a probe
\* is let through only a cooldown after the previous one.
LEMMA GateInv ==
    ASSUME NEW b, BreakerInv(b)
    PROVE  /\ BreakerInv(AfterGate(b))
           /\ Tripped(AfterGate(b)) <=> Tripped(b)
           /\ AdmitsProbe(b) => b.probeAgo = Reset
<1> USE BreakerAssumption DEF BreakerInv, BreakerState, Tripped, ProbeLive,
        AdmitsProbe, AfterGate
<1>1. CASE AdmitsProbe(b)
  <2>1. AfterGate(b) = [failures |-> b.failures, halfOpen |-> TRUE,
                        openedAgo |-> Reset, probeAgo |-> 0]
    BY <1>1
  <2>2. b.halfOpen => b.probeAgo = Reset
    BY <1>1
  <2>3. ~b.halfOpen => b.probeAgo = Reset
    BY <1>1
  <2>4. QED
    BY <1>1, <2>1, <2>2, <2>3
<1>2. CASE Tripped(b) /\ ~AdmitsProbe(b)
  BY <1>2
<1>3. CASE ~Tripped(b)
  BY <1>3
<1>4. QED
  BY <1>1, <1>2, <1>3

\* A success closes the breaker (`record_success`).
LEMMA SuccessInv ==
    ASSUME NEW b, BreakerInv(b)
    PROVE  BreakerInv(RecordSuccess(b)) /\ ~Tripped(RecordSuccess(b))
BY BreakerAssumption DEF BreakerInv, BreakerState, Tripped, RecordSuccess

\* A failure keeps the invariant, whether it counts, trips the breaker or
\* reports a failed probe (`record_failure`).
LEMMA FailureInv ==
    ASSUME NEW b, BreakerInv(b)
    PROVE  BreakerInv(RecordFailure(b))
<1> USE BreakerAssumption DEF BreakerInv, BreakerState, Tripped, Bump
<1>1. CASE Bump(b.failures) = Threshold
  BY <1>1 DEF RecordFailure
<1>2. CASE Bump(b.failures) # Threshold /\ b.halfOpen
  <2>1. RecordFailure(b) = [failures |-> Bump(b.failures), halfOpen |-> FALSE,
                            openedAgo |-> 0, probeAgo |-> b.probeAgo]
    BY <1>2 DEF RecordFailure
  <2>2. Bump(b.failures) > Threshold
    BY <1>2
  <2>3. QED
    BY <2>1, <2>2
<1>3. CASE Bump(b.failures) # Threshold /\ ~b.halfOpen
  BY <1>3 DEF RecordFailure
<1>4. QED
  BY <1>1, <1>2, <1>3

\* The clock keeps the invariant: both ages grow together.
LEMMA AgedInv ==
    ASSUME NEW b, BreakerInv(b)
    PROVE  BreakerInv(Aged(b)) /\ (Tripped(Aged(b)) <=> Tripped(b))
BY BreakerAssumption DEF BreakerInv, BreakerState, Tripped, Aged, Older

-----------------------------------------------------------------------------
\* The inductive invariant: the breaker's, a sleeping caller has an attempt
\* left, and only an outage leaves anyone something to report.
IInv ==
    /\ TypeOK
    /\ BreakerInv(breaker)
    /\ \A c \in Callers : pc[c] = "backoff" => attempt[c] < Attempts
    /\ hit # {} \/ ~up => outage
    /\ TripsOnOutageOnly

\* The initial state satisfies the inductive invariant.
LEMMA InitIInv == Init => IInv
<1> SUFFICES ASSUME Init
             PROVE  IInv
  OBVIOUS
<1>1. BreakerInv(breaker)
  BY NewBreakerInv DEF Init
<1>2. ~Tripped(breaker)
  BY BreakerAssumption DEF Init, NewBreaker, Tripped
<1>3. 1 \in 1 .. Attempts
  BY GuardAssumption
<1>4. TypeOK
  BY <1>1, <1>3, Zenon DEF Init, TypeOK, BreakerInv
<1>5. QED
  BY <1>1, <1>2, <1>4 DEF Init, IInv, TripsOnOutageOnly

\* Every step keeps the inductive invariant.
LEMMA NextIInv == IInv /\ [Next]_vars => IInv'
<1> SUFFICES ASSUME IInv, [Next]_vars
             PROVE  IInv'
  OBVIOUS
<1> USE GuardAssumption DEF IInv, TypeOK, TripsOnOutageOnly
<1>1. ASSUME NEW c \in Callers, Start(c)
      PROVE  IInv'
  <2>1. BreakerInv(breaker') /\ (Tripped(breaker') <=> Tripped(breaker))
    BY <1>1, GateInv DEF Start
  <2>2. QED
    BY <1>1, <2>1 DEF Start, Send, BreakerInv
<1>2. ASSUME NEW c \in Callers, Refuse(c)
      PROVE  IInv'
  <2>1. BreakerInv(breaker') /\ (Tripped(breaker') <=> Tripped(breaker))
    BY <1>2, GateInv DEF Refuse
  <2>2. QED
    BY <1>2, <2>1 DEF Refuse, BreakerInv
<1>3. ASSUME NEW c \in Callers, Succeed(c)
      PROVE  IInv'
  <2>1. BreakerInv(breaker') /\ ~Tripped(breaker')
    BY <1>3, SuccessInv DEF Succeed
  <2>2. QED
    BY <1>3, <2>1 DEF Succeed, Return, BreakerInv
<1>4. ASSUME NEW c \in Callers, Retry(c)
      PROVE  IInv'
  BY <1>4 DEF Retry, Tripped, BreakerInv
<1>5. ASSUME NEW c \in Callers, Resume(c)
      PROVE  IInv'
  BY <1>5 DEF Resume, Send, Tripped, BreakerInv
<1>6. ASSUME NEW c \in Callers, Fail(c)
      PROVE  IInv'
  <2>1. BreakerInv(breaker') /\ outage
    BY <1>6, FailureInv DEF Fail
  <2>2. QED
    BY <1>6, <2>1 DEF Fail, Return, BreakerInv
<1>7. ASSUME NEW c \in Callers, Reject(c) \/ Cancel(c)
      PROVE  IInv'
  BY <1>7 DEF Reject, Cancel, Return, Tripped, BreakerInv
<1>8. CASE Tick
  <2>1. BreakerInv(breaker') /\ (Tripped(breaker') <=> Tripped(breaker))
    BY <1>8, AgedInv DEF Tick
  <2>2. QED
    BY <1>8, <2>1 DEF Tick, BreakerInv
<1>9. CASE Toggle
  BY <1>9 DEF Toggle, Tripped, BreakerInv
<1>10. CASE UNCHANGED vars
  BY <1>10 DEF vars, Tripped, BreakerInv
<1>11. QED
  BY <1>1, <1>2, <1>3, <1>4, <1>5, <1>6, <1>7, <1>8, <1>9, <1>10 DEF Next

\* The inductive invariant holds in every reachable state.
LEMMA IInvHolds == Spec => []IInv
BY InitIInv, NextIInv, PTL DEF Spec

\* Every variable keeps its type.
THEOREM TypeCorrect == Spec => []TypeOK
BY IInvHolds, PTL DEF IInv

\* While a probe is out its window has not moved.
THEOREM ProbeWindow == Spec => []ProbeKeepsWindow
<1>1. IInv => ProbeKeepsWindow
  BY DEF IInv, BreakerInv, ProbeKeepsWindow
<1>2. QED
  BY <1>1, IInvHolds, PTL

\* Only an unreachable server trips the breaker.
THEOREM TripsOnlyOnOutage == Spec => []TripsOnOutageOnly
BY IInvHolds, PTL DEF IInv

\* A probe is let through only a cooldown after the one before.
ProbeIsApart ==
    \A c \in Callers :
        (pc[c] = "idle" /\ pc'[c] = "calling" /\ Tripped(breaker)) => breaker.probeAgo = Reset

LEMMA StepsApart == IInv /\ [Next]_vars => [ProbeIsApart]_vars
<1> SUFFICES ASSUME IInv, Next, NEW c \in Callers,
                    pc[c] = "idle", pc'[c] = "calling", Tripped(breaker)
             PROVE  breaker.probeAgo = Reset
  BY DEF ProbeIsApart
<1>1. PICK d \in Callers : Start(d) \/ Resume(d)
  BY DEF Next, Start, Refuse, Succeed, Retry, Resume, Fail, Reject, Cancel,
         Return, Tick, Toggle, IInv, TypeOK
<1>2. Start(d)
  BY <1>1 DEF Resume, Send, IInv, TypeOK
<1>3. AdmitsProbe(breaker)
  BY <1>2 DEF Start, Admits
<1>4. QED
  BY <1>3, GateInv DEF IInv

\* Two probes are a cooldown apart, whatever calls report, and when.
THEOREM OneProbePerWindow == Spec => ProbesApart
BY StepsApart, IInvHolds, PTL DEF Spec, ProbesApart, ProbeIsApart

-----------------------------------------------------------------------------
(* StoreGuard implements Gate: each of its steps is one of the gate's, or  *)
(* one the gate does not see.                                              *)

\* Reading `is_open` lets a probe through, or moves no gate.
LEMMA GateOfGate ==
    ASSUME NEW b, BreakerInv(b)
    PROVE  /\ AdmitsProbe(b) => /\ GateOf(b) # "closed" /\ SinceOf(b) = Reset
                                /\ GateOf(AfterGate(b)) = "probing"
                                /\ SinceOf(AfterGate(b)) = 0
           /\ ~AdmitsProbe(b) => /\ GateOf(AfterGate(b)) = GateOf(b)
                                 /\ SinceOf(AfterGate(b)) = SinceOf(b)
           /\ ~Tripped(b) <=> GateOf(b) = "closed"
<1> USE BreakerAssumption DEF BreakerInv, BreakerState, Tripped, ProbeLive,
        AdmitsProbe, AfterGate, GateOf, SinceOf
<1>1. CASE AdmitsProbe(b)
  <2>1. AfterGate(b) = [failures |-> b.failures, halfOpen |-> TRUE,
                        openedAgo |-> Reset, probeAgo |-> 0]
    BY <1>1
  <2>2. SinceOf(b) = Reset
    BY <1>1
  <2>3. QED
    BY <1>1, <2>1, <2>2
<1>2. CASE ~AdmitsProbe(b)
  <2>1. Tripped(b) => ProbeLive(b) = b.halfOpen
    BY <1>2
  <2>2. AfterGate(b) = b
    BY <1>2, <2>1
  <2>3. QED
    BY <1>2, <2>2
<1>3. QED
  BY <1>1, <1>2

\* A success leaves the gate closed (`record_success`).
LEMMA GateOfSuccess ==
    ASSUME NEW b, BreakerInv(b)
    PROVE  GateOf(RecordSuccess(b)) = "closed" /\ SinceOf(RecordSuccess(b)) = Reset
BY BreakerAssumption DEF GateOf, SinceOf, RecordSuccess, Tripped

\* A failure opens a gate that was not open, or moves none (`record_failure`).
LEMMA GateOfFailure ==
    ASSUME NEW b, BreakerInv(b)
    PROVE  \/ /\ GateOf(b) # "open"
              /\ GateOf(RecordFailure(b)) = "open" /\ SinceOf(RecordFailure(b)) = 0
           \/ /\ GateOf(RecordFailure(b)) = GateOf(b)
              /\ SinceOf(RecordFailure(b)) = SinceOf(b)
<1> USE BreakerAssumption DEF BreakerInv, BreakerState, Tripped, Bump, GateOf, SinceOf
<1>1. CASE Bump(b.failures) = Threshold
  <2>1. RecordFailure(b) = [failures |-> Threshold, halfOpen |-> b.halfOpen,
                            openedAgo |-> 0, probeAgo |-> b.probeAgo]
    BY <1>1 DEF RecordFailure
  <2>2. b.failures < Threshold /\ ~b.halfOpen
    BY <1>1
  <2>3. QED
    BY <2>1, <2>2
<1>2. CASE Bump(b.failures) # Threshold /\ b.halfOpen
  <2>1. RecordFailure(b) = [failures |-> Bump(b.failures), halfOpen |-> FALSE,
                            openedAgo |-> 0, probeAgo |-> b.probeAgo]
    BY <1>2 DEF RecordFailure
  <2>2. Bump(b.failures) > Threshold /\ b.failures >= Threshold
    BY <1>2
  <2>3. QED
    BY <1>2, <2>1, <2>2
<1>3. CASE Bump(b.failures) # Threshold /\ ~b.halfOpen
  <2>1. RecordFailure(b) = [failures |-> Bump(b.failures), halfOpen |-> FALSE,
                            openedAgo |-> b.openedAgo, probeAgo |-> b.probeAgo]
    BY <1>3 DEF RecordFailure
  <2>2. Bump(b.failures) >= Threshold <=> b.failures >= Threshold
    BY <1>3
  <2>3. QED
    BY <1>3, <2>1, <2>2
<1>4. QED
  BY <1>1, <1>2, <1>3

\* The clock moves the time since, if anything (`time.monotonic`).
LEMMA GateOfAged ==
    ASSUME NEW b, BreakerInv(b)
    PROVE  /\ GateOf(Aged(b)) = GateOf(b)
           /\ \/ SinceOf(Aged(b)) = SinceOf(b)
              \/ SinceOf(b) < Reset /\ SinceOf(Aged(b)) = SinceOf(b) + 1
BY BreakerAssumption DEF BreakerInv, BreakerState, Tripped, Aged, Older, GateOf, SinceOf

\* A new breaker is a closed gate.
LEMMA GateOfNew == GateOf(NewBreaker) = "closed" /\ SinceOf(NewBreaker) = Reset
BY BreakerAssumption DEF NewBreaker, Tripped, GateOf, SinceOf

\* The callers at the store, as Gate sees them.
Inside == {c \in Callers : pc[c] # "idle"}

\* A step of StoreGuard is a step of Gate, or leaves its variables alone.
LEMMA StepRefines == IInv /\ [Next]_vars => [Contract!Next]_Contract!vars
<1> SUFFICES ASSUME IInv, [Next]_vars
             PROVE  [Contract!Next]_Contract!vars
  OBVIOUS
<1> DEFINE Same == GateOf(breaker') = GateOf(breaker) /\ SinceOf(breaker') = SinceOf(breaker)
<1>a. BreakerInv(breaker) /\ pc \in [Callers -> {"idle", "calling", "backoff"}]
  BY DEF IInv, TypeOK
<1>1. ASSUME NEW c \in Callers, Start(c)
      PROVE  Contract!Enter(c) \/ Contract!Probe(c)
  <2>1. c \notin Inside /\ Inside' = Inside \cup {c} /\ outage' = outage
    BY <1>1, <1>a DEF Start, Send, Inside
  <2>2. breaker' = AfterGate(breaker) /\ (~Tripped(breaker) \/ AdmitsProbe(breaker))
    BY <1>1 DEF Start, Admits
  <2>3. CASE AdmitsProbe(breaker)
    BY <1>a, <2>1, <2>2, <2>3, GateOfGate DEF Contract!Probe, Inside
  <2>4. CASE ~AdmitsProbe(breaker)
    BY <1>a, <2>1, <2>2, <2>4, GateOfGate DEF Contract!Enter, Inside
  <2>5. QED
    BY <2>3, <2>4
<1>2. ASSUME NEW c \in Callers, Refuse(c)
      PROVE  UNCHANGED Contract!vars
  <2>1. Inside' = Inside /\ outage' = outage
    BY <1>2 DEF Refuse, Inside
  <2>2. Same
    BY <1>2, <1>a, GateOfGate DEF Refuse, Admits
  <2>3. QED
    BY <2>1, <2>2 DEF Contract!vars, Inside
<1>3. ASSUME NEW c \in Callers, Succeed(c)
      PROVE  Contract!Return(c)
  <2>1. c \in Inside /\ Inside' = Inside \ {c} /\ outage' = outage
    BY <1>3, <1>a DEF Succeed, Return, Inside
  <2>2. GateOf(breaker') = "closed" /\ SinceOf(breaker') = Reset
    BY <1>3, <1>a, GateOfSuccess DEF Succeed
  <2>3. QED
    BY <2>1, <2>2 DEF Contract!Return, Inside
<1>4. ASSUME NEW c \in Callers, Retry(c) \/ Resume(c)
      PROVE  UNCHANGED Contract!vars
  <2>1. Inside' = Inside /\ outage' = outage
    BY <1>4, <1>a DEF Retry, Resume, Send, Inside
  <2>2. Same
    BY <1>4 DEF Retry, Resume
  <2>3. QED
    BY <2>1, <2>2 DEF Contract!vars, Inside
<1>5. ASSUME NEW c \in Callers, Fail(c)
      PROVE  Contract!Return(c)
  <2>1. c \in Inside /\ Inside' = Inside \ {c} /\ outage' = outage
    BY <1>5, <1>a DEF Fail, Return, Inside
  <2>2. outage
    BY <1>5 DEF Fail, IInv
  <2>3. breaker' = RecordFailure(breaker)
    BY <1>5 DEF Fail
  <2>4. QED
    BY <1>a, <2>1, <2>2, <2>3, GateOfFailure DEF Contract!Return, Inside
<1>6. ASSUME NEW c \in Callers, Reject(c) \/ Cancel(c)
      PROVE  Contract!Return(c)
  <2>1. c \in Inside /\ Inside' = Inside \ {c} /\ outage' = outage
    BY <1>6, <1>a DEF Reject, Cancel, Return, Inside
  <2>2. Same
    BY <1>6 DEF Reject, Cancel
  <2>3. QED
    BY <2>1, <2>2 DEF Contract!Return, Inside
<1>7. CASE Tick
  <2>1. Inside' = Inside /\ outage' = outage /\ breaker' = Aged(breaker)
    BY <1>7 DEF Tick, Inside
  <2>2. QED
    BY <1>a, <2>1, GateOfAged DEF Contract!Tick, Contract!Next, Contract!vars, Inside
<1>8. CASE Toggle
  <2>1. Inside' = Inside /\ outage' = TRUE
    BY <1>8 DEF Toggle, Inside
  <2>2. Same
    BY <1>8 DEF Toggle
  <2>3. QED
    BY <2>1, <2>2 DEF Contract!Lose, Contract!Next, Inside
<1>9. CASE UNCHANGED vars
  BY <1>9 DEF vars, Contract!vars
<1>10. QED
  BY <1>1, <1>2, <1>3, <1>4, <1>5, <1>6, <1>7, <1>8, <1>9 DEF Next, Contract!Next

\* A new breaker and no calls: the initial state of Gate.
LEMMA InitRefines == Init => Contract!Init
<1> SUFFICES ASSUME Init
             PROVE  Contract!Init
  OBVIOUS
<1>1. GateOf(breaker) = "closed" /\ SinceOf(breaker) = Reset
  BY GateOfNew DEF Init
<1>2. {c \in Callers : pc[c] # "idle"} = {}
  BY DEF Init
<1>3. QED
  BY <1>1, <1>2 DEF Init, Contract!Init

\* The breaker implements its contract, for every threshold, cooldown, number
\* of attempts and set of callers (the docstring of `CircuitBreaker`).
THEOREM Implements == Spec => ContractKept
BY InitRefines, IInvHolds, StepRefines, PTL DEF Spec, ContractKept, Contract!Spec

-----------------------------------------------------------------------------
(* Least numbers and finite sets.                                          *)

\* Every nonempty set of natural numbers has a least one.
LEMMA LeastNat ==
    ASSUME NEW T \in SUBSET Nat, T # {}
    PROVE  \E n \in T : \A m \in T : n <= m
<1> DEFINE R == {ss \in Nat \X Nat : ss[1] < ss[2]}
<1>1. IsWellFoundedOn(R, Nat)
  BY NatLessThanWellFounded DEF OpToRel
<1> HIDE DEF R
<1>2. PICK n \in T : \A m \in T : ~(<<m, n>> \in R)
  BY <1>1, WFMin
<1>3. \A m \in T : ~(m < n)
  BY <1>2 DEF R
<1>4. QED
  BY <1>3


\* A family of subsets of a finite set has all of them, if it has one whenever
\* it has the smaller ones inside it.
LEMMA SubsetsAll ==
    ASSUME NEW S, IsFiniteSet(S), NEW G,
           \A u \in SUBSET S : (\A v \in SUBSET u : v # u => v \in G) => u \in G
    PROVE  SUBSET S \subseteq G
<1> SUFFICES ASSUME ~(SUBSET S \subseteq G)
             PROVE  FALSE
  OBVIOUS
<1> DEFINE T == {n \in Nat : \E u \in SUBSET S : u \notin G /\ Cardinality(u) = n}
<1>1. \A u \in SUBSET S : IsFiniteSet(u) /\ Cardinality(u) \in Nat
  BY FS_Subset, FS_CardinalityType
<1>2. T \in SUBSET Nat /\ T # {}
  BY <1>1
<1> HIDE DEF T
<1>3. PICK n \in T : \A m \in T : n <= m
  BY <1>2, LeastNat
<1>4. PICK u \in SUBSET S : u \notin G /\ Cardinality(u) = n
  BY <1>3 DEF T
<1>5. ASSUME NEW v \in SUBSET u, v # u
      PROVE  v \in G
  <2>1. IsFiniteSet(u) /\ v \in SUBSET S
    BY <1>1, <1>4
  <2>2. Cardinality(v) <= Cardinality(u) /\ Cardinality(v) # Cardinality(u)
    BY <1>5, <2>1, FS_Subset
  <2>3. Cardinality(v) \in Nat /\ n \in Nat
    BY <1>1, <1>2, <2>1
  <2>4. Cardinality(v) \notin T
    BY <1>3, <1>4, <2>2, <2>3
  <2>5. QED
    BY <2>1, <2>3, <2>4 DEF T
<1>6. QED
  BY <1>4, <1>5

-----------------------------------------------------------------------------
(* What the tokens of some grants add up to.                               *)

Taken(s) == CHOOSE x \in s : TRUE

\* f adds up the grants of each subset of S, one taken at a time.
Adds(f, S) ==
    f = [s \in SUBSET S |->
            IF s = {} THEN 0 ELSE ModelNeed[Taken(s)[1]] + f[s \ {Taken(s)}]]

\* The same, for the subsets of up to n grants.
AddsUpTo(f, S, n) ==
    f = [s \in {u \in SUBSET S : Cardinality(u) <= n} |->
            IF s = {} THEN 0 ELSE ModelNeed[Taken(s)[1]] + f[s \ {Taken(s)}]]

\* Asked adds up that way.
LEMMA AskedIs ==
    ASSUME NEW S
    PROVE  Rate!Asked(S) = (CHOOSE f : Adds(f, S))[S]
BY DEF Rate!Asked, Rate!MapThenSumSet, Rate!MapThenFoldSet, Adds, Taken

\* There is a function that adds up the grants of the smaller subsets.
LEMMA AddsUpToSome ==
    ASSUME NEW S, IsFiniteSet(S), NEW n \in Nat
    PROVE  \E f : AddsUpTo(f, S, n)
<1> SUFFICES ASSUME ~\E f : AddsUpTo(f, S, n)
             PROVE  FALSE
  OBVIOUS
<1> DEFINE T == {m \in Nat : ~\E f : AddsUpTo(f, S, m)}
<1>1. \A u \in SUBSET S : IsFiniteSet(u) /\ Cardinality(u) \in Nat
  BY FS_Subset, FS_CardinalityType
<1>2. T \in SUBSET Nat /\ T # {}
  OBVIOUS
<1> HIDE DEF T
<1>3. PICK m \in T : \A k \in T : m <= k
  BY <1>2, LeastNat
<1>4. m \in Nat /\ ~\E f : AddsUpTo(f, S, m)
  BY <1>3 DEF T
<1> DEFINE Small(k) == {u \in SUBSET S : Cardinality(u) <= k}
<1>5. CASE m = 0
  <2> DEFINE f == [s \in Small(m) |-> 0]
  <2>1. \A s \in Small(m) : s = {}
    <3> SUFFICES ASSUME NEW s \in Small(m)
                 PROVE  s = {}
      OBVIOUS
    <3>1. IsFiniteSet(s) /\ Cardinality(s) = 0
      BY <1>1, <1>5
    <3>2. QED
      BY <3>1, FS_EmptySet
  <2>2. AddsUpTo(f, S, m)
    BY <2>1 DEF AddsUpTo
  <2>3. QED
    BY <1>4, <2>2
<1>6. CASE m # 0
  <2>1. m - 1 \in Nat /\ m - 1 \notin T
    BY <1>3, <1>4, <1>6
  <2>2. PICK f : AddsUpTo(f, S, m - 1)
    BY <2>1 DEF T
  <2> DEFINE Next1(s, h) == IF s = {} THEN 0 ELSE ModelNeed[Taken(s)[1]] + h[s \ {Taken(s)}]
             g == [s \in Small(m) |-> Next1(s, f)]
  <2>3. f = [s \in Small(m - 1) |-> Next1(s, f)]
    BY <2>2 DEF AddsUpTo
  <2>4. \A s \in Small(m) : s # {} => s \ {Taken(s)} \in Small(m - 1)
    <3> SUFFICES ASSUME NEW s \in Small(m), s # {}
                 PROVE  s \ {Taken(s)} \in Small(m - 1)
      OBVIOUS
    <3>1. Taken(s) \in s
      BY DEF Taken
    <3>2. IsFiniteSet(s) /\ Cardinality(s) \in Nat /\ Cardinality(s) <= m
      BY <1>1
    <3>3. Cardinality(s \ {Taken(s)}) = Cardinality(s) - 1
      BY <3>1, <3>2, FS_RemoveElement
    <3>4. QED
      BY <1>4, <3>2, <3>3
  <2>5. \A s \in Small(m - 1) : s \in Small(m)
    BY <1>1, <1>4, <2>1
  <2>6. \A s \in Small(m - 1) : g[s] = f[s]
    <3> HIDE DEF Small, Next1
    <3>1. \A s \in Small(m - 1) : f[s] = Next1(s, f)
      BY <2>3
    <3>2. QED
      BY <2>5, <3>1
  <2>7. \A s \in Small(m) : Next1(s, g) = Next1(s, f)
    <3> HIDE DEF g, Small
    <3>1. QED
      BY <2>4, <2>6
  <2>8. g = [s \in Small(m) |-> Next1(s, g)]
    <3> HIDE DEF Small, Next1
    <3>1. QED
      BY <2>7
  <2>9. AddsUpTo(g, S, m)
    BY <2>8 DEF AddsUpTo
  <2>10. QED
    BY <1>4, <2>9
<1>7. QED
  BY <1>5, <1>6

\* There is a function that adds up the grants of every subset.
LEMMA AddsSome ==
    ASSUME NEW S, IsFiniteSet(S)
    PROVE  \E f : Adds(f, S)
<1>1. Cardinality(S) \in Nat
  BY FS_CardinalityType
<1>2. PICK f : AddsUpTo(f, S, Cardinality(S))
  BY <1>1, AddsUpToSome
<1>3. {u \in SUBSET S : Cardinality(u) <= Cardinality(S)} = SUBSET S
  <2>1. \A u \in SUBSET S : Cardinality(u) <= Cardinality(S)
    BY FS_Subset
  <2>2. QED
    BY <2>1
<1>4. Adds(f, S)
  BY <1>2, <1>3 DEF Adds, AddsUpTo
<1>5. QED
  BY <1>4

Grants == ModelCalls \X Nat

\* The constants of the token bucket are numbers.
LEMMA PaceConstants ==
    /\ ModelRequests \in Nat /\ ModelTokens \in Nat /\ ModelShare \in Nat /\ ModelTime \in Nat
    /\ ModelNeed \in [ModelCalls -> Nat]
    /\ \A g \in Grants : ModelNeed[g[1]] \in Nat
BY Settings DEF Rate!WellConfigured, Grants

\* What a sum is of: nothing, or one grant and the rest.
LEMMA AddsOne ==
    ASSUME NEW S, NEW f, Adds(f, S), NEW s \in SUBSET S
    PROVE  /\ s = {} => f[s] = 0
           /\ s # {} => /\ Taken(s) \in s
                       /\ f[s] = ModelNeed[Taken(s)[1]] + f[s \ {Taken(s)}]
<1>1. s # {} => Taken(s) \in s
  BY DEF Taken
<1>2. f[s] = IF s = {} THEN 0 ELSE ModelNeed[Taken(s)[1]] + f[s \ {Taken(s)}]
  BY DEF Adds
<1>3. QED
  BY <1>1, <1>2

\* Sums are numbers.
LEMMA AddsTyped ==
    ASSUME NEW S, IsFiniteSet(S), S \subseteq Grants, NEW f, Adds(f, S)
    PROVE  \A s \in SUBSET S : f[s] \in Nat
<1> DEFINE G == {s \in SUBSET S : f[s] \in Nat}
<1>1. ASSUME NEW u \in SUBSET S, \A v \in SUBSET u : v # u => v \in G
      PROVE  u \in G
  <2>1. CASE u = {}
    <3>1. f[u] = 0
      BY <2>1, AddsOne
    <3>2. QED
      BY <3>1
  <2>2. CASE u # {}
    <3>1. /\ Taken(u) \in u
          /\ f[u] = ModelNeed[Taken(u)[1]] + f[u \ {Taken(u)}]
      BY <2>2, AddsOne
    <3>2. f[u \ {Taken(u)}] \in Nat
      BY <1>1, <3>1
    <3>3. ModelNeed[Taken(u)[1]] \in Nat
      BY <3>1, PaceConstants
    <3>4. QED
      BY <3>1, <3>2, <3>3
  <2>3. QED
    BY <2>1, <2>2
<1> HIDE DEF G
<1>2. SUBSET S \subseteq G
  BY <1>1, SubsetsAll
<1>3. QED
  BY <1>2 DEF G

\* Any grant may be taken first.
LEMMA AddsAny ==
    ASSUME NEW S, IsFiniteSet(S), S \subseteq Grants, NEW f, Adds(f, S)
    PROVE  \A s \in SUBSET S : \A x \in s : f[s] = ModelNeed[x[1]] + f[s \ {x}]
<1> DEFINE G == {s \in SUBSET S : \A x \in s : f[s] = ModelNeed[x[1]] + f[s \ {x}]}
<1>0. \A s \in SUBSET S : f[s] \in Nat
  BY AddsTyped
<1>1. ASSUME NEW u \in SUBSET S, \A v \in SUBSET u : v # u => v \in G
      PROVE  u \in G
  <2> SUFFICES ASSUME NEW x \in u
               PROVE  f[u] = ModelNeed[x[1]] + f[u \ {x}]
    OBVIOUS
  <2> DEFINE y == Taken(u)
  <2>1. y \in u /\ f[u] = ModelNeed[y[1]] + f[u \ {y}]
    BY AddsOne
  <2> HIDE DEF y
  <2>2. CASE x = y
    BY <2>1, <2>2
  <2>3. CASE x # y
    <3>1. u \ {y} \in G /\ x \in u \ {y}
      BY <1>1, <2>1, <2>3
    <3>2. f[u \ {y}] = ModelNeed[x[1]] + f[(u \ {y}) \ {x}]
      BY <3>1
    <3>3. u \ {x} \in G /\ y \in u \ {x}
      BY <1>1, <2>1, <2>3
    <3>4. f[u \ {x}] = ModelNeed[y[1]] + f[(u \ {x}) \ {y}]
      BY <3>3
    <3>5. (u \ {x}) \ {y} = (u \ {y}) \ {x}
      OBVIOUS
    <3>6. f[(u \ {y}) \ {x}] \in Nat
      <4>1. (u \ {y}) \ {x} \in SUBSET S
        OBVIOUS
      <4>2. QED
        BY <1>0, <4>1
    <3>7. ModelNeed[x[1]] \in Nat /\ ModelNeed[y[1]] \in Nat
      BY <2>1, PaceConstants
    <3> DEFINE n == ModelNeed[x[1]]  m == ModelNeed[y[1]]  r == f[(u \ {y}) \ {x}]
    <3>8. f[u] = m + (n + r) /\ f[u \ {x}] = m + r
      BY <2>1, <3>2, <3>4, <3>5
    <3>9. n \in Nat /\ m \in Nat /\ r \in Nat
      BY <3>6, <3>7
    <3> HIDE DEF n, m, r
    <3>10. f[u] = n + f[u \ {x}]
      BY <3>8, <3>9
    <3>11. QED
      BY <3>10 DEF n
  <2>4. QED
    BY <2>2, <2>3
<1> HIDE DEF G
<1>2. SUBSET S \subseteq G
  BY <1>1, SubsetsAll
<1>3. QED
  BY <1>2 DEF G

\* What a set of grants adds up to does not depend on the set it is part of.
LEMMA AddsSame ==
    ASSUME NEW S, NEW T, IsFiniteSet(T), T \subseteq Grants, S \subseteq T,
           NEW f, Adds(f, S), NEW g, Adds(g, T)
    PROVE  \A s \in SUBSET S : f[s] = g[s]
<1> DEFINE G == {s \in SUBSET S : f[s] = g[s]}
<1>1. ASSUME NEW u \in SUBSET S, \A v \in SUBSET u : v # u => v \in G
      PROVE  u \in G
  <2>0. u \in SUBSET T
    OBVIOUS
  <2>1. CASE u = {}
    BY <2>0, <2>1, AddsOne
  <2>2. CASE u # {}
    <3>1. /\ Taken(u) \in u
          /\ f[u] = ModelNeed[Taken(u)[1]] + f[u \ {Taken(u)}]
          /\ g[u] = ModelNeed[Taken(u)[1]] + g[u \ {Taken(u)}]
      <4>1. /\ Taken(u) \in u
            /\ f[u] = ModelNeed[Taken(u)[1]] + f[u \ {Taken(u)}]
        BY <2>2, AddsOne
      <4>2. g[u] = ModelNeed[Taken(u)[1]] + g[u \ {Taken(u)}]
        BY <2>0, <2>2, AddsOne
      <4>3. QED
        BY <4>1, <4>2
    <3>2. f[u \ {Taken(u)}] = g[u \ {Taken(u)}]
      BY <1>1, <3>1
    <3>3. QED
      BY <3>1, <3>2
  <2>3. QED
    BY <2>1, <2>2
<1> HIDE DEF G
<1>2. IsFiniteSet(S)
  BY FS_Subset
<1>3. SUBSET S \subseteq G
  BY <1>1, <1>2, SubsetsAll
<1>4. QED
  BY <1>3 DEF G

\* The function that Asked uses adds up.
LEMMA AskedAdds ==
    ASSUME NEW S, IsFiniteSet(S)
    PROVE  \E f : Adds(f, S) /\ Rate!Asked(S) = f[S]
<1>1. Adds((CHOOSE f : Adds(f, S)), S)
  BY AddsSome
<1>2. QED
  BY <1>1, AskedIs

\* Nothing adds up to nothing, and sums are numbers.
LEMMA AskedNat ==
    ASSUME NEW S, IsFiniteSet(S), S \subseteq Grants
    PROVE  Rate!Asked(S) \in Nat /\ (S = {} => Rate!Asked(S) = 0)
<1>1. PICK f : Adds(f, S) /\ Rate!Asked(S) = f[S]
  BY AskedAdds
<1>2. S \in SUBSET S
  OBVIOUS
<1>3. QED
  BY <1>1, <1>2, AddsTyped, AddsOne

\* A grant more adds what it asked for.
LEMMA AskedMore ==
    ASSUME NEW S, IsFiniteSet(S), S \subseteq Grants, NEW x \in Grants, x \notin S
    PROVE  Rate!Asked(S \cup {x}) = Rate!Asked(S) + ModelNeed[x[1]]
<1> DEFINE T == S \cup {x}
<1>1. IsFiniteSet(T) /\ T \subseteq Grants /\ S \subseteq T /\ T \ {x} = S
  BY FS_AddElement
<1>2. x \in T
  OBVIOUS
<1> HIDE DEF T
<1>3. PICK f : Adds(f, S) /\ Rate!Asked(S) = f[S]
  BY AskedAdds
<1>4. PICK g : Adds(g, T) /\ Rate!Asked(T) = g[T]
  BY <1>1, AskedAdds
<1>5. f[S] = g[S]
  <2>1. S \in SUBSET S
    OBVIOUS
  <2>2. QED
    BY <1>1, <1>3, <1>4, <2>1, AddsSame
<1>6. g[T] = ModelNeed[x[1]] + g[T \ {x}]
  <2>1. T \in SUBSET T
    OBVIOUS
  <2>2. QED
    BY <1>1, <1>2, <1>4, <2>1, AddsAny
<1>7. Rate!Asked(S) \in Nat /\ ModelNeed[x[1]] \in Nat
  BY AskedNat, PaceConstants
<1>8. Rate!Asked(T) = Rate!Asked(S) + ModelNeed[x[1]]
  <2>1. g[T] = ModelNeed[x[1]] + g[S]
    BY <1>1, <1>6
  <2>2. g[T] = ModelNeed[x[1]] + Rate!Asked(S)
    BY <2>1, <1>3, <1>5
  <2>3. QED
    BY <2>2, <1>4, <1>7
<1>9. QED
  BY <1>8 DEF T

-----------------------------------------------------------------------------
(* The token bucket.                                                       *)

\* The requests and the tokens granted from time s to time t.
Number(s, t) == Cardinality(Rate!Between(s, t))
Weight(s, t) == Rate!Asked(Rate!Between(s, t))

\* n shares are no more than a full bucket and what comes in from s to t.
Fits(n, ceiling, s, t) == n <= ceiling * (ModelShare + t - s)

\* What is in a bucket has not been handed out: what was granted since any time
\* and what is left fit together.
Potential ==
    \A s \in 0 .. paceNow :
        /\ Fits(Number(s, paceNow) * ModelShare + reqs, ModelRequests, s, paceNow)
        /\ Fits(Weight(s, paceNow) * ModelShare + toks, ModelTokens, s, paceNow)

\* What was granted in any stretch of time up to now fits.
Past ==
    \A s, t \in 0 .. paceNow : s <= t =>
        /\ Fits(Number(s, t) * ModelShare, ModelRequests, s, t)
        /\ Fits(Weight(s, t) * ModelShare, ModelTokens, s, t)

PaceTyped ==
    /\ paceNow \in 0 .. ModelTime /\ queue \in Seq(ModelCalls)
    /\ reqs \in 0 .. ModelRequests * ModelShare /\ toks \in 0 .. ModelTokens * ModelShare
    /\ granted \subseteq ModelCalls \X (0 .. paceNow) /\ IsFiniteSet(granted)

PaceInv == PaceTyped /\ Potential /\ Past

\* The token bucket counts as this module does.
LEMMA CardinalityHere == \A S : Rate!Cardinality(S) = Cardinality(S)
BY DEF Rate!Cardinality, Cardinality, Rate!IsFiniteSet, IsFiniteSet

\* Grants between two times are grants, and finitely many.
LEMMA BetweenTyped ==
    ASSUME PaceTyped, NEW s, NEW t
    PROVE  /\ Rate!Between(s, t) \subseteq Grants /\ IsFiniteSet(Rate!Between(s, t))
           /\ Number(s, t) \in Nat /\ Weight(s, t) \in Nat
           /\ Rate!Between(s, t) = {} => Number(s, t) = 0 /\ Weight(s, t) = 0
<1>1. Rate!Between(s, t) \subseteq granted
  BY DEF Rate!Between
<1>2. granted \subseteq Grants
  BY PaceConstants DEF PaceTyped, Grants
<1>3. IsFiniteSet(Rate!Between(s, t))
  BY <1>1, FS_Subset DEF PaceTyped
<1>4. QED
  BY <1>1, <1>2, <1>3, FS_CardinalityType, FS_EmptySet, AskedNat DEF Number, Weight

\* A ceiling's worth more fits a tick later.
LEMMA FitsLater ==
    ASSUME NEW ceiling \in Nat, NEW s \in Nat, NEW t \in Nat, s <= t, ModelShare \in Nat
    PROVE  /\ ceiling * (ModelShare + (t + 1) - s) = ceiling * (ModelShare + t - s) + ceiling
           /\ ceiling * (ModelShare + t - s) \in Nat
           /\ ceiling * ModelShare <= ceiling * (ModelShare + t - s)
<1> DEFINE d == t - s
<1>1. d \in Nat /\ ModelShare + t - s = ModelShare + d
      /\ ModelShare + (t + 1) - s = ModelShare + d + 1
  OBVIOUS
<1> HIDE DEF d
<1>2. ceiling * (ModelShare + d + 1) = ceiling * (ModelShare + d) + ceiling
  BY <1>1
<1>3. ceiling * (ModelShare + d) = ceiling * ModelShare + ceiling * d
  BY <1>1
<1>4. ceiling * d \in Nat /\ ceiling * ModelShare \in Nat
  BY <1>1
<1>5. QED
  BY <1>1, <1>2, <1>3, <1>4

\* A tick fills the buckets, and adds no grant.
LEMMA PaceTick ==
    ASSUME PaceInv, Rate!Tick
    PROVE  PaceInv'
<1> DEFINE now == paceNow
<1>1. /\ now' = now + 1 /\ now' <= ModelTime /\ now \in Nat
      /\ reqs' = Rate!Filled(reqs, ModelRequests) /\ toks' = Rate!Filled(toks, ModelTokens)
      /\ queue' = queue /\ granted' = granted
  BY PaceConstants DEF Rate!Tick, PaceInv, PaceTyped
<1>2. ASSUME NEW c \in Nat, NEW a \in 0 .. c * ModelShare
      PROVE  Rate!Filled(a, c) \in 0 .. c * ModelShare /\ Rate!Filled(a, c) <= a + c
  <2>1. c * ModelShare \in Nat
    BY PaceConstants
  <2>2. QED
    BY <2>1, PaceConstants DEF Rate!Filled
<1>3. PaceTyped'
  <2>1. reqs' \in 0 .. ModelRequests * ModelShare /\ toks' \in 0 .. ModelTokens * ModelShare
    BY <1>1, <1>2, PaceConstants DEF PaceInv, PaceTyped
  <2>2. now' \in 0 .. ModelTime
    BY <1>1, PaceConstants
  <2>3. granted \subseteq ModelCalls \X (0 .. now')
    BY <1>1 DEF PaceInv, PaceTyped
  <2>4. QED
    BY <1>1, <2>1, <2>2, <2>3 DEF PaceInv, PaceTyped
<1>4. ASSUME NEW s \in 0 .. now, NEW t \in 0 .. now
      PROVE  Number(s, t)' = Number(s, t) /\ Weight(s, t)' = Weight(s, t)
  BY <1>1 DEF Number, Weight, Rate!Between
<1>5. ASSUME NEW s \in 0 .. now
      PROVE  Number(s, now)' = Number(s, now) /\ Weight(s, now)' = Weight(s, now)
  <2>1. \A g \in granted : g[2] \in 0 .. now
    BY DEF PaceInv, PaceTyped
  <2>2. \A g \in granted : g[2] <= now + 1 <=> g[2] <= now
    BY <1>1, <2>1
  <2>3. {g \in granted : s <= g[2] /\ g[2] <= now + 1} = {g \in granted : s <= g[2] /\ g[2] <= now}
    BY <2>2
  <2>4. Rate!Between(s, now)' = Rate!Between(s, now)
    BY <1>1, <2>3 DEF Rate!Between
  <2>5. QED
    BY <1>1, <2>4 DEF Number, Weight
<1>6. Number(now, now)' = 0 /\ Weight(now, now)' = 0
  <2>1. \A g \in granted : g[2] \in 0 .. now
    BY DEF PaceInv, PaceTyped
  <2>2. {g \in granted : now + 1 <= g[2] /\ g[2] <= now + 1} = {}
    BY <1>1, <2>1
  <2>3. Rate!Between(now, now)' = {}
    BY <1>1, <2>2 DEF Rate!Between
  <2>4. QED
    BY <2>3, FS_EmptySet, AskedNat DEF Number, Weight, Grants
<1>7. Potential'
  <2> SUFFICES ASSUME NEW s \in 0 .. now'
               PROVE  /\ Fits(Number(s, now)' * ModelShare + reqs', ModelRequests, s, now')
                      /\ Fits(Weight(s, now)' * ModelShare + toks', ModelTokens, s, now')
    BY DEF Potential, Fits
  <2>1. CASE s \in 0 .. now
    <3> DEFINE n == Number(s, now) * ModelShare  w == Weight(s, now) * ModelShare
               p == ModelRequests * (ModelShare + now - s)
               q == ModelTokens * (ModelShare + now - s)
    <3>1. n + reqs <= p /\ w + toks <= q
      BY <2>1 DEF PaceInv, Potential, Fits
    <3>2. /\ ModelRequests * (ModelShare + now' - s) = p + ModelRequests
          /\ ModelTokens * (ModelShare + now' - s) = q + ModelTokens
          /\ p \in Nat /\ q \in Nat
      BY <1>1, <2>1, FitsLater, PaceConstants
    <3>3. n \in Nat /\ w \in Nat
      BY BetweenTyped, PaceConstants DEF PaceInv
    <3>4. /\ Number(s, now)' * ModelShare = n /\ Weight(s, now)' * ModelShare = w
      BY <1>5, <2>1
    <3>5. reqs' \in Nat /\ toks' \in Nat /\ reqs \in Nat /\ toks \in Nat
          /\ reqs' <= reqs + ModelRequests /\ toks' <= toks + ModelTokens
      <4>1. ModelRequests * ModelShare \in Nat /\ ModelTokens * ModelShare \in Nat
        BY PaceConstants
      <4>2. QED
        BY <1>1, <1>2, <4>1, PaceConstants DEF PaceInv, PaceTyped
    <3> HIDE DEF n, w, p, q
    <3>6. n + reqs' <= p + ModelRequests /\ w + toks' <= q + ModelTokens
      <4>1. \A a, b, c, d, e \in Nat : a + b <= c /\ d <= b + e => a + d <= c + e
        OBVIOUS
      <4>2. p \in Nat /\ q \in Nat
        BY <3>2
      <4>3. n + reqs' <= p + ModelRequests
        BY <3>1, <3>3, <3>5, <4>1, <4>2, PaceConstants
      <4>4. w + toks' <= q + ModelTokens
        BY <3>1, <3>3, <3>5, <4>1, <4>2, PaceConstants
      <4>5. QED
        BY <4>3, <4>4
    <3>7. QED
      BY <3>2, <3>4, <3>6 DEF Fits
  <2>2. CASE s = now'
    <3>1. Number(s, now)' * ModelShare = 0 /\ Weight(s, now)' * ModelShare = 0
      BY <1>6, <2>2, PaceConstants
    <3>2. ModelShare + now' - s = ModelShare
      BY <1>1, <2>2, PaceConstants
    <3>3. reqs' \in 0 .. ModelRequests * ModelShare /\ toks' \in 0 .. ModelTokens * ModelShare
      BY <1>3 DEF PaceTyped
    <3>4. QED
      BY <3>1, <3>2, <3>3, PaceConstants DEF Fits
  <2>3. QED
    BY <1>1, <2>1, <2>2
<1>8. Past'
  <2> SUFFICES ASSUME NEW s \in 0 .. now', NEW t \in 0 .. now', s <= t
               PROVE  /\ Fits(Number(s, t)' * ModelShare, ModelRequests, s, t)
                      /\ Fits(Weight(s, t)' * ModelShare, ModelTokens, s, t)
    BY DEF Past, Fits
  <2>1. CASE t = now'
    <3>1. /\ Fits(Number(s, now)' * ModelShare + reqs', ModelRequests, s, now')
          /\ Fits(Weight(s, now)' * ModelShare + toks', ModelTokens, s, now')
      BY <1>7 DEF Potential, Fits
    <3>2. Number(s, now)' \in Nat /\ Weight(s, now)' \in Nat
      <4>1. CASE s \in 0 .. now
        BY <1>5, <4>1, BetweenTyped DEF PaceInv
      <4>2. CASE s = now'
        BY <1>6, <4>2
      <4>3. QED
        BY <1>1, <4>1, <4>2
    <3>3. reqs' \in Nat /\ toks' \in Nat
      <4>1. ModelRequests * ModelShare \in Nat /\ ModelTokens * ModelShare \in Nat
        BY PaceConstants
      <4>2. QED
        BY <1>3, <4>1 DEF PaceTyped
    <3> DEFINE n == Number(s, now)' * ModelShare  w == Weight(s, now)' * ModelShare
               p == ModelRequests * (ModelShare + now' - s)
               q == ModelTokens * (ModelShare + now' - s)
    <3>4. n \in Nat /\ w \in Nat /\ p \in Int /\ q \in Int
      BY <1>1, <3>2, PaceConstants
    <3>5. n + reqs' <= p /\ w + toks' <= q
      BY <3>1 DEF Fits
    <3>6. n <= p /\ w <= q
      <4>1. \A a, b \in Nat : \A c \in Int : a + b <= c => a <= c
        OBVIOUS
      <4> HIDE DEF n, w, p, q
      <4>2. n <= p
        BY <3>3, <3>4, <3>5, <4>1
      <4>3. w <= q
        BY <3>3, <3>4, <3>5, <4>1
      <4>4. QED
        BY <4>2, <4>3
    <3> HIDE DEF n, w, p, q
    <3>7. QED
      BY <2>1, <3>6 DEF Fits, n, w, p, q
  <2>2. CASE t # now'
    <3>1. s \in 0 .. now /\ t \in 0 .. now
      BY <1>1, <2>2
    <3>2. QED
      BY <1>4, <3>1 DEF PaceInv, Past
  <2>3. QED
    BY <2>1, <2>2
<1>9. QED
  BY <1>3, <1>7, <1>8 DEF PaceInv

\* A grant takes its share out of both buckets.
LEMMA PaceTake ==
    ASSUME PaceInv, Rate!Take
    PROVE  PaceInv'
<1> DEFINE now == paceNow  c == Head(queue)  x == <<c, now>>
<1>1. /\ queue # <<>> /\ reqs >= ModelShare /\ toks >= ModelNeed[c] * ModelShare
      /\ reqs' = reqs - ModelShare /\ toks' = toks - ModelNeed[c] * ModelShare
      /\ granted' = granted \cup {x} /\ queue' = Tail(queue) /\ now' = now
  BY DEF Rate!Take
<1>2. c \in ModelCalls /\ queue' \in Seq(ModelCalls)
  BY <1>1 DEF PaceInv, PaceTyped
<1>3. now \in Nat /\ x \in Grants /\ ModelNeed[c] \in Nat /\ x[1] = c /\ x[2] = now
  BY <1>2, PaceConstants DEF Grants, PaceInv, PaceTyped
<1>4. /\ reqs \in Nat /\ toks \in Nat /\ ModelNeed[c] * ModelShare \in Nat
      /\ reqs' \in Nat /\ toks' \in Nat /\ reqs' <= reqs /\ toks' <= toks
  <2>1. ModelRequests * ModelShare \in Nat /\ ModelTokens * ModelShare \in Nat
        /\ ModelNeed[c] * ModelShare \in Nat
    BY <1>3, PaceConstants
  <2>2. reqs \in Nat /\ toks \in Nat
    BY <2>1 DEF PaceInv, PaceTyped
  <2> DEFINE m == ModelNeed[c] * ModelShare
  <2>3. m \in Nat /\ toks >= m /\ toks' = toks - m
    BY <1>1, <2>1
  <2> HIDE DEF m
  <2>4. toks' \in Nat /\ toks' <= toks
    BY <2>2, <2>3
  <2>5. reqs' \in Nat /\ reqs' <= reqs
    BY <1>1, <2>2, PaceConstants
  <2>6. QED
    BY <2>1, <2>2, <2>4, <2>5
<1> HIDE DEF c
<1>5. PaceTyped'
  <2>1. IsFiniteSet(granted') /\ granted' \subseteq ModelCalls \X (0 .. now)
    <3>1. IsFiniteSet(granted')
      BY <1>1, FS_AddElement DEF PaceInv, PaceTyped
    <3>2. x \in ModelCalls \X (0 .. now)
      BY <1>2, <1>3
    <3>3. QED
      BY <1>1, <3>1, <3>2 DEF PaceInv, PaceTyped
  <2>2. reqs' \in 0 .. ModelRequests * ModelShare /\ toks' \in 0 .. ModelTokens * ModelShare
    <3> DEFINE r == ModelRequests * ModelShare  k == ModelTokens * ModelShare
    <3>1. r \in Nat /\ k \in Nat
      BY PaceConstants
    <3>2. reqs <= r /\ toks <= k
      BY DEF PaceInv, PaceTyped
    <3> HIDE DEF r, k
    <3>3. reqs' \in 0 .. r /\ toks' \in 0 .. k
      BY <1>4, <3>1, <3>2
    <3>4. QED
      BY <3>3 DEF r, k
  <2>3. QED
    BY <1>1, <1>2, <2>1, <2>2 DEF PaceInv, PaceTyped
<1>6. ASSUME NEW s \in 0 .. now
      PROVE  /\ Number(s, now)' \in Nat /\ Number(s, now)' <= Number(s, now) + 1
             /\ Weight(s, now)' \in Nat /\ Weight(s, now)' <= Weight(s, now) + ModelNeed[c]
  <2> DEFINE B == Rate!Between(s, now)
  <2>1. /\ B \subseteq Grants /\ IsFiniteSet(B)
        /\ Number(s, now) = Cardinality(B) /\ Weight(s, now) = Rate!Asked(B)
        /\ Cardinality(B) \in Nat /\ Rate!Asked(B) \in Nat
    BY BetweenTyped DEF PaceInv, Number, Weight
  <2>2. Rate!Between(s, now)' = B \cup {x}
    <3>1. Rate!Between(s, now)' = {g \in granted \cup {x} : s <= g[2] /\ g[2] <= now}
      BY <1>1 DEF Rate!Between
    <3>2. s <= x[2] /\ x[2] <= now
      BY <1>3
    <3>3. B = {g \in granted : s <= g[2] /\ g[2] <= now}
      BY DEF Rate!Between
    <3> HIDE DEF B, x, now
    <3>4. QED
      BY <3>1, <3>2, <3>3
  <2>3. /\ Number(s, now)' = Cardinality(B \cup {x}) /\ Weight(s, now)' = Rate!Asked(B \cup {x})
    BY <2>2 DEF Number, Weight
  <2> HIDE DEF B, x, now
  <2>4. CASE x \in B
    <3>1. B \cup {x} = B
      BY <2>4
    <3>2. Number(s, now)' = Number(s, now) /\ Weight(s, now)' = Weight(s, now)
      BY <2>1, <2>3, <3>1
    <3>3. QED
      BY <1>3, <2>1, <3>2
  <2>5. CASE x \notin B
    <3>1. Cardinality(B \cup {x}) = Cardinality(B) + 1
      BY <2>1, <2>5, FS_AddElement
    <3>2. Rate!Asked(B \cup {x}) = Rate!Asked(B) + ModelNeed[c]
      BY <1>3, <2>1, <2>5, AskedMore
    <3>3. QED
      BY <1>3, <2>1, <2>3, <3>1, <3>2
  <2>6. QED
    BY <2>4, <2>5
<1>7. ASSUME NEW s \in 0 .. now, NEW t \in 0 .. now, t # now
      PROVE  Number(s, t)' = Number(s, t) /\ Weight(s, t)' = Weight(s, t)
  <2>1. ~(x[2] <= t)
    BY <1>3, <1>7
  <2>2. {g \in granted \cup {x} : s <= g[2] /\ g[2] <= t} = {g \in granted : s <= g[2] /\ g[2] <= t}
    <3> HIDE DEF x, now
    <3>1. QED
      BY <2>1
  <2>3. Rate!Between(s, t)' = Rate!Between(s, t)
    BY <1>1, <2>2 DEF Rate!Between
  <2>4. QED
    BY <2>3 DEF Number, Weight
<1>8. ASSUME NEW s \in 0 .. now
      PROVE  /\ Number(s, now)' * ModelShare \in Nat /\ Weight(s, now)' * ModelShare \in Nat
             /\ Fits(Number(s, now)' * ModelShare + reqs', ModelRequests, s, now)
             /\ Fits(Weight(s, now)' * ModelShare + toks', ModelTokens, s, now)
  <2> DEFINE h == ModelShare  m == ModelNeed[c]
             n == Number(s, now)  n1 == Number(s, now)'
             w == Weight(s, now)  w1 == Weight(s, now)'
             p == ModelRequests * (h + now - s)  q == ModelTokens * (h + now - s)
  <2>1. /\ n \in Nat /\ w \in Nat /\ n1 \in Nat /\ w1 \in Nat /\ n1 <= n + 1 /\ w1 <= w + m
        /\ h \in Nat /\ m \in Nat /\ p \in Int /\ q \in Int
    BY <1>3, <1>6, BetweenTyped, PaceConstants DEF PaceInv
  <2>2. n * h + reqs <= p /\ w * h + toks <= q
    BY DEF PaceInv, Potential, Fits
  <2>3. \A i, j, k, l \in Nat : i <= j + k => i * l \in Nat /\ j * l \in Nat /\ i * l <= j * l + k * l
    <3> SUFFICES ASSUME NEW i \in Nat, NEW j \in Nat, NEW k \in Nat, NEW l \in Nat, i <= j + k
                 PROVE  i * l \in Nat /\ j * l \in Nat /\ i * l <= j * l + k * l
      OBVIOUS
    <3> DEFINE d == (j + k) - i
    <3>1. d \in Nat /\ i + d = j + k
      OBVIOUS
    <3> HIDE DEF d
    <3>2. (i + d) * l = i * l + d * l /\ (j + k) * l = j * l + k * l /\ d * l \in Nat
          /\ i * l \in Nat /\ j * l \in Nat /\ k * l \in Nat
      BY <3>1
    <3>3. i * l + d * l = j * l + k * l
      BY <3>1, <3>2
    <3>4. QED
      BY <3>2, <3>3
  <2>4. reqs' = reqs - h /\ toks' = toks - m * h
    BY <1>1
  <2> HIDE DEF h, m, n, n1, w, w1, p, q
  <2>5. n1 * h \in Nat /\ n * h \in Nat /\ n1 * h <= n * h + 1 * h /\ 1 * h = h
    BY <2>1, <2>3
  <2>6. w1 * h \in Nat /\ w * h \in Nat /\ w1 * h <= w * h + m * h /\ m * h \in Nat
    BY <2>1, <2>3
  <2>7. \A i, j, k, r \in Nat : \A z \in Int : i <= j + k /\ j + r <= z => i + (r - k) <= z
    OBVIOUS
  <2>8. n1 * h + reqs' <= p
    BY <1>4, <2>1, <2>2, <2>4, <2>5, <2>7
  <2>9. w1 * h + toks' <= q
    BY <1>4, <2>1, <2>2, <2>4, <2>6, <2>7
  <2>10. QED
    BY <2>5, <2>6, <2>8, <2>9 DEF Fits, h, n1, w1, p, q
<1>9. Potential'
  <2> HIDE DEF x
  <2>1. QED
    BY <1>1, <1>8 DEF Potential, Fits
<1>10. Past'
  <2> SUFFICES ASSUME NEW s \in 0 .. now, NEW t \in 0 .. now, s <= t
               PROVE  /\ Fits(Number(s, t)' * ModelShare, ModelRequests, s, t)
                      /\ Fits(Weight(s, t)' * ModelShare, ModelTokens, s, t)
    BY <1>1 DEF Past, Fits
  <2>1. CASE t = now
    <3> DEFINE n == Number(s, now)' * ModelShare  w == Weight(s, now)' * ModelShare
               p == ModelRequests * (ModelShare + now - s)
               q == ModelTokens * (ModelShare + now - s)
    <3>1. n \in Nat /\ w \in Nat /\ n + reqs' <= p /\ w + toks' <= q
      BY <1>8 DEF Fits
    <3>2. p \in Int /\ q \in Int
      BY <1>3, PaceConstants
    <3>3. \A a, b \in Nat : \A d \in Int : a + b <= d => a <= d
      OBVIOUS
    <3>4. n <= p /\ w <= q
      <4> HIDE DEF n, w, p, q
      <4>1. QED
        BY <1>4, <3>1, <3>2, <3>3
    <3>5. QED
      <4>1. Fits(n, ModelRequests, s, now) /\ Fits(w, ModelTokens, s, now)
        BY <3>4 DEF Fits
      <4>2. Number(s, t)' = Number(s, now)' /\ Weight(s, t)' = Weight(s, now)'
        BY <1>1, <2>1 DEF Number, Weight, Rate!Between
      <4>3. QED
        BY <2>1, <4>1, <4>2
  <2>2. CASE t # now
    BY <1>7, <2>2 DEF PaceInv, Past
  <2>3. QED
    BY <2>1, <2>2
<1>11. QED
  BY <1>5, <1>9, <1>10 DEF PaceInv

\* The queue of those who wait says nothing of what was granted.
LEMMA PaceQueue ==
    ASSUME PaceInv, queue' \in Seq(ModelCalls), UNCHANGED <<reqs, toks, granted, paceNow>>
    PROVE  PaceInv'
<1>1. PaceTyped'
  BY DEF PaceInv, PaceTyped
<1>2. \A s, t : Number(s, t)' = Number(s, t) /\ Weight(s, t)' = Weight(s, t)
  BY DEF Number, Weight, Rate!Between
<1>3. Potential' /\ Past'
  BY <1>2 DEF PaceInv, Potential, Past, Fits
<1>4. QED
  BY <1>1, <1>3 DEF PaceInv

\* Full buckets and no grants.
LEMMA PaceInit == Rate!Init => PaceInv
<1> SUFFICES ASSUME Rate!Init
             PROVE  PaceInv
  OBVIOUS
<1>1. /\ reqs = ModelRequests * ModelShare /\ toks = ModelTokens * ModelShare
      /\ queue = <<>> /\ granted = {} /\ paceNow = 0
      /\ reqs \in Nat /\ toks \in Nat
  BY PaceConstants DEF Rate!Init
<1>2. PaceTyped
  BY <1>1, PaceConstants, FS_EmptySet DEF PaceTyped
<1>3. \A s, t : Number(s, t) = 0 /\ Weight(s, t) = 0
  BY <1>1, <1>2, BetweenTyped DEF Rate!Between
<1>4. Potential
  BY <1>1, <1>3, PaceConstants DEF Potential, Fits
<1>5. Past
  BY <1>1, <1>3, PaceConstants DEF Past, Fits
<1>6. QED
  BY <1>2, <1>4, <1>5 DEF PaceInv

\* A step keeps the invariant.
LEMMA PaceStep == PaceInv /\ [Rate!Next]_rate => PaceInv'
<1> SUFFICES ASSUME PaceInv, [Rate!Next]_rate
             PROVE  PaceInv'
  OBVIOUS
<1>1. queue \in Seq(ModelCalls)
  BY DEF PaceInv, PaceTyped
<1>2. ASSUME NEW c \in ModelCalls, Rate!Ask(c)
      PROVE  PaceInv'
  <2>1. queue' \in Seq(ModelCalls) /\ UNCHANGED <<reqs, toks, granted, paceNow>>
    BY <1>1, <1>2 DEF Rate!Ask
  <2>2. QED
    BY <2>1, PaceQueue
<1>3. ASSUME NEW c \in ModelCalls, Rate!Abandon(c)
      PROVE  PaceInv'
  <2>1. PICK i \in DOMAIN queue :
           queue' = SubSeq(queue, 1, i - 1) \o SubSeq(queue, i + 1, Len(queue))
    BY <1>3 DEF Rate!Abandon, Rate!RemoveAt
  <2>2. queue' \in Seq(ModelCalls)
    BY <1>1, <2>1
  <2>3. UNCHANGED <<reqs, toks, granted, paceNow>>
    BY <1>3 DEF Rate!Abandon
  <2>4. QED
    BY <2>2, <2>3, PaceQueue
<1>4. CASE UNCHANGED rate
  BY <1>1, <1>4, PaceQueue DEF rate
<1>5. QED
  BY <1>2, <1>3, <1>4, PaceTake, PaceTick DEF Rate!Next

\* The invariant says what NeverFaster says, of times to come as well.
LEMMA PaceHolds == PaceInv => Rate!NeverFaster
<1> SUFFICES ASSUME PaceInv, NEW s \in 0 .. ModelTime, NEW t \in 0 .. ModelTime, s <= t
             PROVE  /\ Fits(Rate!Cardinality(Rate!Between(s, t)) * ModelShare, ModelRequests, s, t)
                    /\ Fits(Rate!Asked(Rate!Between(s, t)) * ModelShare, ModelTokens, s, t)
  BY DEF Rate!NeverFaster, Fits
<1> DEFINE now == paceNow
<1>1. now \in Nat /\ s \in Nat /\ t \in Nat /\ now <= ModelTime
  BY PaceConstants DEF PaceInv, PaceTyped
<1>2. \A g \in granted : g[2] \in 0 .. now
  BY DEF PaceInv, PaceTyped
<1>3. Rate!Cardinality(Rate!Between(s, t)) = Number(s, t)
  BY CardinalityHere DEF Number
<1>4. Fits(Number(s, t) * ModelShare, ModelRequests, s, t)
      /\ Fits(Weight(s, t) * ModelShare, ModelTokens, s, t)
  <2>1. CASE t <= now
    BY <1>1, <2>1 DEF PaceInv, Past
  <2>2. CASE now < s
    <3>1. Rate!Between(s, t) = {}
      BY <1>1, <1>2, <2>2 DEF Rate!Between
    <3>2. Number(s, t) = 0 /\ Weight(s, t) = 0
      BY <3>1, BetweenTyped DEF PaceInv
    <3>3. QED
      BY <1>1, <3>2, FitsLater, PaceConstants DEF Fits
  <2>3. CASE s <= now /\ now < t
    <3>1. \A g \in granted : g[2] <= t <=> g[2] <= now
      BY <1>1, <1>2, <2>3
    <3>2. Rate!Between(s, t) = Rate!Between(s, now)
      BY <3>1 DEF Rate!Between
    <3>3. Number(s, t) = Number(s, now) /\ Weight(s, t) = Weight(s, now)
      BY <3>2 DEF Number, Weight
    <3>4. /\ Fits(Number(s, now) * ModelShare, ModelRequests, s, now)
          /\ Fits(Weight(s, now) * ModelShare, ModelTokens, s, now)
      BY <1>1, <2>3 DEF PaceInv, Past
    <3>5. ASSUME NEW n \in Nat, NEW c \in Nat, n <= c * (ModelShare + now - s)
          PROVE  n <= c * (ModelShare + t - s)
      <4> DEFINE d == t - now  e == ModelShare + now - s
      <4>1. d \in Nat /\ e \in Nat /\ ModelShare + t - s = e + d
        BY <1>1, <2>3, PaceConstants
      <4> HIDE DEF d, e
      <4>2. c * (e + d) = c * e + c * d /\ c * e \in Nat /\ c * d \in Nat
        BY <4>1
      <4>3. QED
        BY <3>5, <4>1, <4>2 DEF e
    <3>6. Number(s, now) * ModelShare \in Nat /\ Weight(s, now) * ModelShare \in Nat
      BY BetweenTyped, PaceConstants DEF PaceInv
    <3>7. QED
      BY <3>3, <3>4, <3>5, <3>6, PaceConstants DEF Fits
  <2>4. QED
    BY <1>1, <2>1, <2>2, <2>3
<1>5. QED
  BY <1>3, <1>4 DEF Weight

-----------------------------------------------------------------------------
(* Times in order.                                                         *)

\* A sequence of times, none before the one that precedes it.
Ordered(w) == w \in Seq(Nat) /\ \A i, j \in DOMAIN w : i <= j => w[i] <= w[j]

\* How many of them are t or later.
Count(w, t) == Cardinality({i \in DOMAIN w : t <= w[i]})

\* h is what is left of a when times before cut are taken off its head.
Suffix(h, a, cut) ==
    /\ h \in Seq(Nat)
    /\ \E d \in 0 .. Len(a) :
         /\ Len(h) = Len(a) - d
         /\ \A i \in 1 .. Len(h) : h[i] = a[d + i]
         /\ \A i \in 1 .. d : a[i] < cut

\* From position n on, the times are t or later.
From(w, t, n) ==
    /\ n \in 1 .. Len(w) + 1
    /\ \A i \in 1 .. n - 1 : w[i] < t
    /\ \A i \in n .. Len(w) : t <= w[i]

\* Times in order are t or later from some position on.
LEMMA FromSome ==
    ASSUME NEW w, Ordered(w), NEW t \in Nat
    PROVE  \E n : From(w, t, n)
<1> DEFINE T == {n \in 1 .. Len(w) + 1 : n <= Len(w) => t <= w[n]}
<1>1. Len(w) \in Nat /\ DOMAIN w = 1 .. Len(w) /\ \A i \in 1 .. Len(w) : w[i] \in Nat
  BY DEF Ordered
<1>2. Len(w) + 1 \in T
  BY <1>1
<1>3. PICK n \in T : \A m \in T : n <= m
  <2>1. T \in SUBSET Nat /\ T # {}
    BY <1>1, <1>2
  <2> HIDE DEF T
  <2>2. QED
    BY <2>1, LeastNat
<1>4. \A i \in 1 .. n - 1 : w[i] < t
  <2> SUFFICES ASSUME NEW i \in 1 .. n - 1
               PROVE  w[i] < t
    OBVIOUS
  <2>1. i \notin T
    BY <1>3, <1>1
  <2>2. QED
    BY <2>1, <1>1, <1>3
<1>5. \A i \in n .. Len(w) : t <= w[i]
  <2> SUFFICES ASSUME NEW i \in n .. Len(w)
               PROVE  t <= w[i]
    OBVIOUS
  <2>1. n \in 1 .. Len(w) /\ i \in 1 .. Len(w) /\ n <= i
    BY <1>1, <1>3
  <2>2. t <= w[n] /\ w[n] <= w[i] /\ w[n] \in Nat /\ w[i] \in Nat
    BY <1>1, <1>3, <2>1 DEF Ordered
  <2>3. QED
    BY <2>2
<1>6. QED
  BY <1>3, <1>4, <1>5 DEF From

\* Where they start says how many there are.
LEMMA CountFrom ==
    ASSUME NEW w, Ordered(w), NEW t \in Nat, NEW n, From(w, t, n)
    PROVE  Count(w, t) = Len(w) + 1 - n
<1>1. Len(w) \in Nat /\ DOMAIN w = 1 .. Len(w) /\ \A i \in 1 .. Len(w) : w[i] \in Nat
  BY DEF Ordered
<1>2. {i \in DOMAIN w : t <= w[i]} = n .. Len(w)
  BY <1>1 DEF From
<1>3. n \in Int /\ Len(w) \in Int /\ n <= Len(w) + 1
  BY <1>1 DEF From
<1>4. Cardinality(n .. Len(w)) = IF n > Len(w) THEN 0 ELSE Len(w) - n + 1
  BY <1>3, FS_Interval
<1>5. Count(w, t) = Cardinality(n .. Len(w))
  BY <1>2 DEF Count
<1>6. QED
  BY <1>3, <1>4, <1>5

\* What is left counts as the whole does, from the cut on.
LEMMA SuffixCount ==
    ASSUME NEW h, NEW a, Ordered(a), NEW cut \in Nat, NEW t \in Nat, cut <= t,
           Suffix(h, a, cut)
    PROVE  Ordered(h) /\ Count(h, t) = Count(a, t)
<1>1. /\ Len(a) \in Nat /\ DOMAIN a = 1 .. Len(a) /\ \A i \in 1 .. Len(a) : a[i] \in Nat
      /\ Len(h) \in Nat /\ DOMAIN h = 1 .. Len(h)
  BY DEF Ordered, Suffix
<1>2. PICK d \in 0 .. Len(a) :
         /\ Len(h) = Len(a) - d
         /\ \A i \in 1 .. Len(h) : h[i] = a[d + i]
         /\ \A i \in 1 .. d : a[i] < cut
  BY DEF Suffix
<1>3. Ordered(h)
  <2> SUFFICES ASSUME NEW i \in DOMAIN h, NEW j \in DOMAIN h, i <= j
               PROVE  h[i] <= h[j]
    BY DEF Ordered, Suffix
  <2>1. d + i \in DOMAIN a /\ d + j \in DOMAIN a /\ d + i <= d + j
    BY <1>1, <1>2
  <2>2. QED
    BY <2>1, <1>1, <1>2 DEF Ordered
<1>4. PICK n : From(a, t, n)
  BY FromSome
<1>5. d < n /\ n \in Nat
  <2>1. n \in 1 .. Len(a) + 1
    BY <1>4 DEF From
  <2>2. ASSUME n <= d
        PROVE  FALSE
    BY <2>1, <2>2, <1>1, <1>2, <1>4 DEF From
  <2>3. QED
    BY <2>1, <2>2, <1>2
<1>6. From(h, t, n - d)
  BY <1>1, <1>2, <1>4, <1>5 DEF From
<1>7. QED
  BY <1>1, <1>2, <1>3, <1>4, <1>5, <1>6, CountFrom

\* Counts are counts.
LEMMA CountNat ==
    ASSUME NEW w, Ordered(w), NEW t \in Nat
    PROVE  Count(w, t) \in Nat
<1>1. PICK n : From(w, t, n)
  BY FromSome
<1>2. Len(w) \in Nat
  BY DEF Ordered
<1>3. Count(w, t) = Len(w) + 1 - n
  BY <1>1, CountFrom
<1>4. n \in 1 .. Len(w) + 1
  BY <1>1 DEF From
<1>5. QED
  BY <1>2, <1>3, <1>4

\* One more time at the end takes nothing off a count.
LEMMA CountAppend ==
    ASSUME NEW w, Ordered(w), NEW t \in Nat, NEW u \in Nat, \A i \in DOMAIN w : w[i] <= u
    PROVE  Ordered(Append(w, u)) /\ Count(w, t) <= Count(Append(w, u), t)
<1> DEFINE v == Append(w, u)
<1>1. /\ w \in Seq(Nat) /\ Len(w) \in Nat /\ DOMAIN w = 1 .. Len(w)
      /\ v \in Seq(Nat) /\ Len(v) = Len(w) + 1 /\ DOMAIN v = 1 .. Len(w) + 1
      /\ v[Len(w) + 1] = u /\ \A i \in 1 .. Len(w) : v[i] = w[i] /\ w[i] \in Nat
  BY DEF Ordered
<1> HIDE DEF v
<1>2. Ordered(v)
  <2> SUFFICES ASSUME NEW i \in DOMAIN v, NEW j \in DOMAIN v, i <= j
               PROVE  v[i] <= v[j]
    BY <1>1 DEF Ordered
  <2>1. CASE j = Len(w) + 1
    BY <1>1, <2>1
  <2>2. CASE j # Len(w) + 1
    <3>1. i \in DOMAIN w /\ j \in DOMAIN w
      BY <1>1, <2>2
    <3>2. w[i] <= w[j]
      BY <3>1 DEF Ordered
    <3>3. QED
      BY <1>1, <3>1, <3>2
  <2>3. QED
    BY <2>1, <2>2
<1>3. {i \in DOMAIN w : t <= w[i]} \subseteq {i \in DOMAIN v : t <= v[i]}
  BY <1>1
<1>4. IsFiniteSet({i \in DOMAIN v : t <= v[i]})
  <2>1. IsFiniteSet(1 .. Len(w) + 1)
    BY <1>1, FS_Interval
  <2>2. {i \in DOMAIN v : t <= v[i]} \in SUBSET (1 .. Len(w) + 1)
    BY <1>1
  <2>3. QED
    BY <2>1, <2>2, FS_Subset
<1>5. Count(w, t) <= Count(v, t)
  BY <1>3, <1>4, FS_Subset DEF Count
<1>6. QED
  BY <1>2, <1>5 DEF v

\* Times in order, any p + 1 of them more than g apart, are p at most in g.
LEMMA ApartCount ==
    ASSUME NEW w, Ordered(w), NEW p \in Nat, NEW g \in Nat, NEW t \in Nat,
           \A i \in DOMAIN w : i + p \in DOMAIN w => w[i] + g < w[i + p]
    PROVE  Cardinality({i \in DOMAIN w : t <= w[i] /\ w[i] <= t + g}) <= p
<1> DEFINE S == {i \in DOMAIN w : t <= w[i] /\ w[i] <= t + g}
<1>1. Len(w) \in Nat /\ DOMAIN w = 1 .. Len(w) /\ \A i \in 1 .. Len(w) : w[i] \in Nat
  BY DEF Ordered
<1>2. CASE S = {}
  BY <1>2, FS_EmptySet
<1>3. CASE S # {}
  <2>1. PICK m \in S : \A i \in S : m <= i
    <3>1. S \in SUBSET Nat
      BY <1>1
    <3> HIDE DEF S
    <3>2. QED
      BY <3>1, <1>3, LeastNat
  <2>2. S \subseteq m .. m + p - 1
    <3> SUFFICES ASSUME NEW i \in S, m + p <= i
                 PROVE  FALSE
      BY <2>1, <1>1
    <3>1. m + p \in DOMAIN w /\ w[m + p] <= w[i]
      BY <1>1 DEF Ordered
    <3>2. w[m] + g < w[m + p]
      BY <3>1, <1>1
    <3>3. QED
      BY <3>1, <3>2, <1>1
  <2>3. m \in Int /\ m + p - 1 \in Int
    BY <1>1
  <2>4. IsFiniteSet(m .. m + p - 1) /\ Cardinality(m .. m + p - 1) = p
    <3>1. IsFiniteSet(m .. m + p - 1) /\ Cardinality(m .. m + p - 1) = IF m > m + p - 1 THEN 0 ELSE m + p - 1 - m + 1
      BY <2>3, FS_Interval
    <3>2. QED
      BY <3>1, <1>1
  <2>5. QED
    BY <2>2, <2>4, FS_Subset
<1>4. QED
  BY <1>2, <1>3

-----------------------------------------------------------------------------
(* The keyed limiter.                                                      *)

\* What the limiter remembers of caller k.
Known(k) == IF k \in DOMAIN hits THEN hits[k] ELSE <<>>

\* No more admissions than the window takes, nor than a second does.
Spaced(w) ==
    /\ \A i \in DOMAIN w : i + PerMinute \in DOMAIN w => w[i] + Window < w[i + PerMinute]
    /\ \A i \in DOMAIN w : i + Burst \in DOMAIN w => w[i] < w[i + Burst]

\* What stood in the way of a caller that was refused.
Used(k) == \/ Count(admitted[k], quotaNow) >= Burst
           \/ Count(admitted[k], Limits!Cutoff) >= PerMinute

\* The inductive invariant: what the limiter remembers of a caller is what is
\* left of its admissions when some too old to count are taken off.
CallerInv(k) ==
    /\ Ordered(admitted[k])
    /\ \A i \in DOMAIN admitted[k] : admitted[k][i] <= quotaNow
    /\ Spaced(admitted[k])
    /\ Suffix(Known(k), admitted[k], Limits!Cutoff)
    /\ k \in refused => Used(k)

QuotaInv ==
    /\ quotaNow \in 0 .. QuotaTime /\ pruned \in 0 .. QuotaTime
    /\ DOMAIN hits \subseteq Clients /\ refused \subseteq Clients
    /\ DOMAIN admitted = Clients
    /\ \A k \in Clients : CallerInv(k)

\* The limiter counts as this module does.
LEMMA CardinalityThere == \A S : Limits!Cardinality(S) = Cardinality(S)
BY DEF Limits!Cardinality, Cardinality, Limits!IsFiniteSet, IsFiniteSet

\* The constants of the limiter are numbers.
LEMMA QuotaConstants ==
    PerMinute \in Nat /\ Burst \in Nat /\ Window \in Nat /\ QuotaTime \in Nat
BY Settings DEF Limits!WellConfigured

\* Where the window begins.
LEMMA CutoffIs ==
    ASSUME quotaNow \in Nat
    PROVE  /\ Limits!Cutoff \in Nat /\ Limits!Cutoff <= quotaNow
           /\ quotaNow <= Limits!Cutoff + Window
           /\ \A t \in Nat : t < Limits!Cutoff <=> t + Window < quotaNow
BY QuotaConstants DEF Limits!Cutoff

\* The head that is too old is taken off, and nothing else.
LEMMA RecentFrom ==
    ASSUME NEW w, Ordered(w), quotaNow \in Nat
    PROVE  \E n : From(w, Limits!Cutoff, n) /\ Limits!Recent(w) = SubSeq(w, n, Len(w))
<1> DEFINE First(n) == /\ \A i \in 1 .. n - 1 : w[i] + Window < quotaNow
                       /\ n <= Len(w) => w[n] + Window >= quotaNow
           N == 1 .. Len(w) + 1
           first == CHOOSE n \in N : First(n)
<1>1. Len(w) \in Nat /\ DOMAIN w = 1 .. Len(w) /\ \A i \in 1 .. Len(w) : w[i] \in Nat
  BY DEF Ordered
<1>2. PICK m : From(w, Limits!Cutoff, m)
  BY CutoffIs, FromSome
<1>3. m \in N /\ First(m)
  <2>1. m \in 1 .. Len(w) + 1 /\ (\A i \in 1 .. m - 1 : w[i] < Limits!Cutoff)
        /\ (m <= Len(w) => Limits!Cutoff <= w[m])
    BY <1>1, <1>2 DEF From
  <2>2. \A i \in 1 .. m - 1 : w[i] + Window < quotaNow
    BY <1>1, <2>1, CutoffIs
  <2>3. ASSUME m <= Len(w)
        PROVE  w[m] + Window >= quotaNow
    <3>1. w[m] \in Nat /\ Limits!Cutoff <= w[m] /\ Limits!Cutoff \in Nat
      BY <1>1, <2>1, <2>3, CutoffIs
    <3>2. quotaNow <= Limits!Cutoff + Window /\ Window \in Nat
      BY CutoffIs, QuotaConstants
    <3>3. QED
      BY <3>1, <3>2
  <2>4. QED
    BY <2>1, <2>2, <2>3
<1>4. first \in N /\ First(first)
  <2> HIDE DEF First, N
  <2>1. \E n \in N : First(n)
    BY <1>3
  <2>2. QED
    BY <2>1
<1>5. Limits!Recent(w) = SubSeq(w, first, Len(w))
  BY DEF Limits!Recent
<1>6. \A i \in 1 .. Len(w) : w[i] < Limits!Cutoff <=> w[i] + Window < quotaNow
  BY <1>1, CutoffIs
<1> HIDE DEF first
<1>7. \A i \in first .. Len(w) : Limits!Cutoff <= w[i]
  <2> SUFFICES ASSUME NEW i \in first .. Len(w)
               PROVE  Limits!Cutoff <= w[i]
    OBVIOUS
  <2>1. first \in 1 .. Len(w) /\ i \in 1 .. Len(w) /\ first <= i
    BY <1>1, <1>4
  <2>2. w[first] <= w[i] /\ w[first] \in Nat /\ w[i] \in Nat
    BY <1>1, <2>1 DEF Ordered
  <2>3. ~(w[first] + Window < quotaNow)
    BY <1>4, <2>1, <2>2, QuotaConstants
  <2>4. QED
    BY <1>6, <2>1, <2>2, <2>3, CutoffIs
<1>8. From(w, Limits!Cutoff, first)
  BY <1>1, <1>4, <1>6, <1>7 DEF From
<1>9. QED
  BY <1>5, <1>8

\* What is kept of a caller's window is what counts, and says whether a burst
\* is over.
LEMMA Trimmed ==
    ASSUME QuotaInv, NEW k \in Clients
    PROVE  LET r == Limits!Recent(Known(k))
           IN  /\ Suffix(r, admitted[k], Limits!Cutoff)
               /\ Len(r) = Count(admitted[k], Limits!Cutoff)
               /\ Limits!Bursting(r) <=> Count(admitted[k], quotaNow) >= Burst
<1> DEFINE a == admitted[k]  h == Known(k)  cut == Limits!Cutoff
           r == Limits!Recent(h)
<1>1. /\ quotaNow \in Nat /\ Ordered(a) /\ Suffix(h, a, cut)
      /\ cut \in Nat /\ cut <= quotaNow
  BY CutoffIs, QuotaConstants DEF QuotaInv, CallerInv
<1> HIDE DEF a, h, cut
<1>2. Ordered(h) /\ Count(h, cut) = Count(a, cut)
  BY <1>1, SuffixCount
<1>3. PICK n : From(h, cut, n) /\ r = SubSeq(h, n, Len(h))
  BY <1>1, <1>2, RecentFrom DEF cut
<1> HIDE DEF r
<1>4. /\ Len(h) \in Nat /\ h \in Seq(Nat) /\ n \in 1 .. Len(h) + 1
      /\ Count(h, cut) = Len(h) + 1 - n
  <2>1. Len(h) \in Nat /\ h \in Seq(Nat)
    BY <1>2 DEF Ordered
  <2>2. n \in 1 .. Len(h) + 1
    BY <1>3 DEF From
  <2>3. Count(h, cut) = Len(h) + 1 - n
    BY <1>1, <1>2, <1>3, CountFrom
  <2>4. QED
    BY <2>1, <2>2, <2>3
<1>5. /\ r \in Seq(Nat) /\ Len(r) = Len(h) + 1 - n
      /\ \A i \in 1 .. Len(r) : r[i] = h[n - 1 + i]
  BY <1>3, <1>4
<1>6. Suffix(r, a, cut)
  <2>1. PICK d \in 0 .. Len(a) :
           /\ Len(h) = Len(a) - d
           /\ \A i \in 1 .. Len(h) : h[i] = a[d + i]
           /\ \A i \in 1 .. d : a[i] < cut
    BY <1>1 DEF Suffix
  <2>2. Len(a) \in Nat /\ d + (n - 1) \in 0 .. Len(a)
    BY <1>1, <1>4, <2>1 DEF Ordered
  <2>3. Len(r) = Len(a) - (d + (n - 1))
    BY <1>4, <1>5, <2>1, <2>2
  <2>4. \A i \in 1 .. Len(r) : r[i] = a[(d + (n - 1)) + i]
    <3> SUFFICES ASSUME NEW i \in 1 .. Len(r)
                 PROVE  r[i] = a[(d + (n - 1)) + i]
      OBVIOUS
    <3>1. n - 1 + i \in 1 .. Len(h) /\ i \in Nat
      <4>1. i \in 1 .. Len(h) + 1 - n
        BY <1>5
      <4>2. QED
        BY <4>1, <1>4
    <3>2. r[i] = a[d + (n - 1 + i)]
      BY <1>5, <2>1, <3>1
    <3>3. d + (n - 1 + i) = (d + (n - 1)) + i
      BY <1>4, <2>2, <3>1
    <3>4. QED
      BY <3>2, <3>3
  <2>5. \A i \in 1 .. d + (n - 1) : a[i] < cut
    <3> SUFFICES ASSUME NEW i \in 1 .. d + (n - 1), d < i
                 PROVE  a[i] < cut
      BY <2>1, <2>2
    <3>1. i - d \in 1 .. n - 1 /\ i - d \in 1 .. Len(h) /\ d + (i - d) = i
      BY <1>4, <2>1, <2>2
    <3>2. h[i - d] < cut
      BY <1>3, <3>1 DEF From
    <3>3. h[i - d] = a[d + (i - d)]
      BY <2>1, <3>1
    <3>4. QED
      BY <3>1, <3>2, <3>3
  <2>6. QED
    BY <1>5, <2>2, <2>3, <2>4, <2>5 DEF Suffix
<1>7. Ordered(r) /\ Count(r, quotaNow) = Count(a, quotaNow)
  BY <1>1, <1>6, SuffixCount
<1>8. Limits!Bursting(r) <=> Count(r, quotaNow) >= Burst
  <2>1. {i \in DOMAIN r : r[i] + 1 > quotaNow} = {i \in DOMAIN r : quotaNow <= r[i]}
    <3>1. \A i \in DOMAIN r : r[i] \in Nat
      BY <1>5
    <3>2. \A i \in DOMAIN r : r[i] + 1 > quotaNow <=> quotaNow <= r[i]
      BY <1>1, <3>1
    <3>3. QED
      BY <3>2
  <2>2. Limits!Bursting(r) <=> Cardinality({i \in DOMAIN r : r[i] + 1 > quotaNow}) >= Burst
    BY CardinalityThere DEF Limits!Bursting
  <2>3. QED
    BY <2>1, <2>2 DEF Count
<1>9. Len(r) = Count(a, cut)
  BY <1>2, <1>4, <1>5
<1>10. QED
  BY <1>6, <1>7, <1>8, <1>9 DEF r, h, a, cut

\* What check() does to what is remembered of each caller.
LEMMA CheckDoes ==
    ASSUME QuotaInv, NEW k \in Clients, Limits!Check(k)
    PROVE  LET r == Limits!Recent(Known(k))
           IN  /\ DOMAIN hits' \subseteq Clients /\ quotaNow' = quotaNow
               /\ \/ /\ Limits!Bursting(r) \/ Len(r) >= PerMinute
                     /\ Known(k)' = r
                     /\ \A q \in Clients \ {k} : Known(q)' = Known(q)
                     /\ refused' = refused \cup {k} /\ UNCHANGED <<pruned, admitted>>
                  \/ /\ ~Limits!Bursting(r) /\ ~(Len(r) >= PerMinute)
                     /\ Known(k)' = Append(r, quotaNow)
                     /\ \A q \in Clients \ {k} :
                          Known(q)' = Known(q) \/ (Known(q)' = <<>> /\ Limits!Stale(Known(q)))
                     /\ pruned' \in {pruned, quotaNow} /\ UNCHANGED refused
                     /\ admitted' = [admitted EXCEPT ![k] = Append(@, quotaNow)]
<1> DEFINE r == Limits!Recent(Known(k))
           known == DOMAIN hits \cup {k}
           old == [q \in known |-> IF q \in DOMAIN hits THEN hits[q] ELSE <<>>]
           trimmed == [old EXCEPT ![k] = Limits!Recent(old[k])]
           full == Limits!Bursting(trimmed[k]) \/ Len(trimmed[k]) >= PerMinute
           counted == [trimmed EXCEPT ![k] = Append(@, quotaNow)]
           due == quotaNow > pruned + Window
           left == {p \in known : due => ~Limits!Stale(counted[p])}
<1>1. /\ quotaNow' = quotaNow
      /\ full => /\ hits' = trimmed /\ refused' = refused \cup {k}
                 /\ UNCHANGED <<pruned, admitted>>
      /\ ~full => /\ hits' = [q \in left |-> counted[q]]
                  /\ pruned' = (IF due THEN quotaNow ELSE pruned)
                  /\ admitted' = [admitted EXCEPT ![k] = Append(@, quotaNow)]
                  /\ UNCHANGED refused
  BY DEF Limits!Check
<1>2. known \subseteq Clients
  BY DEF QuotaInv
<1>3. \A q \in known : old[q] = Known(q)
  BY DEF Known
<1>4. DOMAIN trimmed = known /\ trimmed[k] = r /\ \A q \in known \ {k} : trimmed[q] = Known(q)
  BY <1>3
<1>5. /\ DOMAIN counted = known /\ counted[k] = Append(r, quotaNow)
      /\ \A q \in known \ {k} : counted[q] = Known(q)
  BY <1>4
<1>6. \A q \in Clients \ known : Known(q) = <<>>
  BY DEF Known
<1>7. CASE full
  <2>1. \A q \in Clients : Known(q)' = IF q \in known THEN trimmed[q] ELSE <<>>
    BY <1>1, <1>4, <1>7 DEF Known
  <2> HIDE DEF trimmed, r
  <2>2. Known(k)' = r
    BY <1>4, <2>1
  <2>3. \A q \in Clients \ {k} : Known(q)' = Known(q)
    BY <1>4, <1>6, <2>1
  <2>4. DOMAIN hits' \subseteq Clients
    BY <1>1, <1>2, <1>4, <1>7
  <2>5. QED
    BY <1>1, <1>4, <1>7, <2>2, <2>3, <2>4 DEF r
<1>8. CASE ~full
  <2>1. \A q \in Clients : Known(q)' = IF q \in left THEN counted[q] ELSE <<>>
    BY <1>1, <1>8 DEF Known
  <2>2. r \in Seq(Nat) /\ quotaNow \in Nat /\ Window \in Nat
    BY Trimmed, QuotaConstants DEF QuotaInv, Suffix
  <2>3. left \subseteq Clients
    BY <1>2
  <2>4. \A q \in known \ left : Limits!Stale(counted[q])
    OBVIOUS
  <2> HIDE DEF counted, trimmed, r, left
  <2>5. ~Limits!Stale(Append(r, quotaNow))
    BY <2>2 DEF Limits!Stale
  <2>6. k \in left
    BY <1>5, <2>4, <2>5
  <2>7. Known(k)' = Append(r, quotaNow)
    BY <1>5, <2>1, <2>6
  <2>8. ASSUME NEW q \in Clients \ {k}
        PROVE  Known(q)' = Known(q) \/ (Known(q)' = <<>> /\ Limits!Stale(Known(q)))
    <3>1. CASE q \in left
      BY <1>5, <1>6, <2>1, <2>3, <3>1 DEF left
    <3>2. CASE q \in known /\ q \notin left
      BY <1>5, <2>1, <2>4, <3>2
    <3>3. CASE q \notin known /\ q \notin left
      BY <1>6, <2>1, <3>3
    <3>4. QED
      BY <3>1, <3>2, <3>3
  <2>9. DOMAIN hits' \subseteq Clients
    BY <1>1, <1>8, <2>3
  <2>10. QED
    BY <1>1, <1>4, <1>8, <2>7, <2>8, <2>9 DEF r
<1>9. QED
  BY <1>7, <1>8

\* Taking more off the head, or moving the cut, leaves what is left.
LEMMA SuffixLater ==
    ASSUME NEW h, NEW a, Ordered(a), NEW cut \in Nat, NEW later \in Nat, cut <= later,
           Suffix(h, a, cut)
    PROVE  Suffix(h, a, later)
<1>1. \A i \in DOMAIN a : a[i] \in Nat
  BY DEF Ordered
<1>2. Len(a) \in Nat /\ DOMAIN a = 1 .. Len(a)
  BY DEF Ordered
<1>3. PICK d \in 0 .. Len(a) :
         /\ Len(h) = Len(a) - d
         /\ \A i \in 1 .. Len(h) : h[i] = a[d + i]
         /\ \A i \in 1 .. d : a[i] < cut
  BY DEF Suffix
<1>4. \A i \in 1 .. d : a[i] < later
  BY <1>1, <1>2, <1>3
<1>5. QED
  BY <1>3, <1>4 DEF Suffix

\* Nothing is left where everything is too old to count.
LEMMA StaleSuffix ==
    ASSUME NEW h, NEW a, Ordered(a), quotaNow \in Nat, Limits!Stale(h),
           Suffix(h, a, Limits!Cutoff)
    PROVE  Suffix(<<>>, a, Limits!Cutoff)
<1> DEFINE cut == Limits!Cutoff
<1>1. cut \in Nat /\ Window \in Nat /\ \A t \in Nat : t < cut <=> t + Window < quotaNow
  BY CutoffIs, QuotaConstants
<1>2. h \in Seq(Nat) /\ Len(h) \in Nat /\ Len(a) \in Nat /\ Ordered(h)
      /\ \A i \in 1 .. Len(a) : a[i] \in Nat
  <2>1. Ordered(h)
    BY <1>1, SuffixCount
  <2>2. QED
    BY <2>1 DEF Ordered
<1>3. PICK d \in 0 .. Len(a) :
         /\ Len(h) = Len(a) - d
         /\ \A i \in 1 .. Len(h) : h[i] = a[d + i]
         /\ \A i \in 1 .. d : a[i] < cut
  BY DEF Suffix
<1>4. ASSUME NEW i \in 1 .. Len(a)
      PROVE  a[i] < cut
  <2>1. CASE i <= d
    BY <1>2, <1>3, <2>1
  <2>2. CASE d < i
    <3>1. i - d \in 1 .. Len(h) /\ d + (i - d) = i /\ Len(h) \in 1 .. Len(h)
      BY <1>2, <1>3, <2>2
    <3>2. h # <<>>
      BY <1>2, <3>1
    <3>3. h[Len(h)] + Window < quotaNow
      <4>1. h = <<>> \/ h[Len(h)] + Window < quotaNow
        BY DEF Limits!Stale
      <4>2. QED
        BY <3>2, <4>1
    <3>4. h[Len(h)] < cut /\ h[Len(h)] \in Nat
      <4>1. h[Len(h)] \in Nat
        BY <1>2, <3>1
      <4>2. QED
        BY <1>1, <3>3, <4>1
    <3>5. h[i - d] <= h[Len(h)] /\ h[i - d] \in Nat
      BY <1>2, <3>1 DEF Ordered
    <3>6. a[i] = h[i - d]
      BY <1>3, <3>1
    <3>7. QED
      BY <1>1, <3>4, <3>5, <3>6
  <2>3. QED
    BY <1>2, <1>3, <2>1, <2>2
<1>5. <<>> \in Seq(Nat) /\ Len(<<>>) = 0
  OBVIOUS
<1>6. Len(a) \in 0 .. Len(a) /\ Len(<<>>) = Len(a) - Len(a)
  BY <1>2, <1>5
<1>7. QED
  BY <1>4, <1>5, <1>6 DEF Suffix

\* A call that is let in is one more of what is left, too.
LEMMA SuffixAppend ==
    ASSUME NEW h, NEW a, Ordered(a), NEW cut \in Nat, NEW t \in Nat, Suffix(h, a, cut)
    PROVE  Suffix(Append(h, t), Append(a, t), cut)
<1> DEFINE g == Append(h, t)  b == Append(a, t)
<1>1. /\ Len(a) \in Nat /\ Len(h) \in Nat /\ h \in Seq(Nat) /\ a \in Seq(Nat)
  BY DEF Suffix, Ordered
<1>2. PICK d \in 0 .. Len(a) :
         /\ Len(h) = Len(a) - d
         /\ \A i \in 1 .. Len(h) : h[i] = a[d + i]
         /\ \A i \in 1 .. d : a[i] < cut
  BY DEF Suffix
<1>3. /\ g \in Seq(Nat) /\ Len(g) = Len(h) + 1 /\ g[Len(h) + 1] = t
      /\ \A i \in 1 .. Len(h) : g[i] = h[i]
  BY <1>1
<1>4. /\ Len(b) = Len(a) + 1 /\ b[Len(a) + 1] = t /\ \A i \in 1 .. Len(a) : b[i] = a[i]
  BY <1>1
<1> HIDE DEF g, b
<1>5. d \in 0 .. Len(b) /\ Len(g) = Len(b) - d /\ d \in Nat
  BY <1>1, <1>2, <1>3, <1>4
<1>6. ASSUME NEW i \in 1 .. Len(g)
      PROVE  g[i] = b[d + i]
  <2>1. CASE i = Len(h) + 1
    <3>1. d + i = Len(a) + 1
      BY <1>1, <1>2, <2>1
    <3>2. QED
      BY <1>3, <1>4, <2>1, <3>1
  <2>2. CASE i # Len(h) + 1
    <3>1. i \in 1 .. Len(h) /\ d + i \in 1 .. Len(a)
      BY <1>1, <1>2, <1>3, <2>2
    <3>2. QED
      BY <1>2, <1>3, <1>4, <3>1
  <2>3. QED
    BY <2>1, <2>2
<1>7. \A i \in 1 .. d : b[i] < cut
  <2> SUFFICES ASSUME NEW i \in 1 .. d
               PROVE  b[i] < cut
    OBVIOUS
  <2>1. i \in 1 .. Len(a)
    BY <1>1, <1>5
  <2>2. QED
    BY <1>2, <1>4, <2>1
<1>8. QED
  BY <1>3, <1>5, <1>6, <1>7 DEF Suffix, g, b

\* The first admission of any Burst or PerMinute that end with one let in now
\* does not count any more.
LEMMA SpacedAppend ==
    ASSUME NEW a, Ordered(a), Spaced(a), quotaNow \in Nat,
           \A i \in DOMAIN a : a[i] <= quotaNow,
           ~(Count(a, quotaNow) >= Burst), ~(Count(a, Limits!Cutoff) >= PerMinute)
    PROVE  Spaced(Append(a, quotaNow))
<1> DEFINE b == Append(a, quotaNow)  cut == Limits!Cutoff
<1>1. /\ Len(a) \in Nat /\ DOMAIN a = 1 .. Len(a) /\ a \in Seq(Nat)
      /\ \A i \in 1 .. Len(a) : a[i] \in Nat /\ a[i] <= quotaNow
  BY DEF Ordered
<1>2. /\ DOMAIN b = 1 .. Len(a) + 1 /\ b[Len(a) + 1] = quotaNow
      /\ \A i \in 1 .. Len(a) : b[i] = a[i]
  BY <1>1
<1> HIDE DEF b
<1>3. PICK n : From(a, cut, n)
  BY CutoffIs, FromSome
<1>4. PICK m : From(a, quotaNow, m)
  BY FromSome
<1>5. n \in 1 .. Len(a) + 1 /\ m \in 1 .. Len(a) + 1
  BY <1>3, <1>4 DEF From
<1>6. Len(a) + 1 - n < PerMinute /\ Len(a) + 1 - m < Burst
  <2>1. Count(a, cut) = Len(a) + 1 - n /\ Count(a, quotaNow) = Len(a) + 1 - m
    BY <1>3, <1>4, CutoffIs, CountFrom
  <2>2. QED
    BY <1>1, <1>5, <2>1, QuotaConstants DEF cut
<1>7. ASSUME NEW i \in DOMAIN b, i + PerMinute \in DOMAIN b
      PROVE  b[i] + Window < b[i + PerMinute]
  <2>1. CASE i + PerMinute = Len(a) + 1
    <3>1. i \in 1 .. n - 1 /\ i \in 1 .. Len(a)
      BY <1>1, <1>2, <1>5, <1>6, <2>1, QuotaConstants
    <3>2. a[i] < cut /\ a[i] \in Nat
      BY <1>1, <1>3, <3>1 DEF From
    <3>3. a[i] + Window < quotaNow
      BY <3>2, CutoffIs
    <3>4. QED
      BY <1>2, <2>1, <3>1, <3>3
  <2>2. CASE i + PerMinute # Len(a) + 1
    <3>1. i \in DOMAIN a /\ i + PerMinute \in DOMAIN a
      BY <1>1, <1>2, <1>7, <2>2, QuotaConstants
    <3>2. a[i] + Window < a[i + PerMinute]
      BY <3>1 DEF Spaced
    <3>3. QED
      BY <1>1, <1>2, <3>1, <3>2
  <2>3. QED
    BY <2>1, <2>2
<1>8. ASSUME NEW i \in DOMAIN b, i + Burst \in DOMAIN b
      PROVE  b[i] < b[i + Burst]
  <2>1. CASE i + Burst = Len(a) + 1
    <3>1. i \in 1 .. m - 1 /\ i \in 1 .. Len(a)
      BY <1>1, <1>2, <1>5, <1>6, <2>1, QuotaConstants
    <3>2. a[i] < quotaNow
      BY <1>4, <3>1 DEF From
    <3>3. QED
      BY <1>2, <2>1, <3>1, <3>2
  <2>2. CASE i + Burst # Len(a) + 1
    <3>1. i \in DOMAIN a /\ i + Burst \in DOMAIN a
      BY <1>1, <1>2, <1>8, <2>2, QuotaConstants
    <3>2. a[i] < a[i + Burst]
      BY <3>1 DEF Spaced
    <3>3. QED
      BY <1>1, <1>2, <3>1, <3>2
  <2>3. QED
    BY <2>1, <2>2
<1>9. QED
  BY <1>7, <1>8 DEF Spaced, b

\* A check keeps the invariant.
LEMMA QuotaCheck ==
    ASSUME QuotaInv, NEW k \in Clients, Limits!Check(k)
    PROVE  QuotaInv'
<1> DEFINE r == Limits!Recent(Known(k))  cut == Limits!Cutoff
<1>1. quotaNow' = quotaNow /\ cut' = cut /\ DOMAIN hits' \subseteq Clients
  BY CheckDoes DEF Limits!Cutoff
<1>2. /\ quotaNow \in 0 .. QuotaTime /\ quotaNow \in Nat /\ cut \in Nat /\ cut <= quotaNow
  BY CutoffIs, QuotaConstants DEF QuotaInv
<1>3. /\ Suffix(r, admitted[k], cut)
      /\ Len(r) = Count(admitted[k], cut)
      /\ Limits!Bursting(r) <=> Count(admitted[k], quotaNow) >= Burst
  BY Trimmed
<1>4. \A q \in Clients : CallerInv(q)
  BY DEF QuotaInv
<1> HIDE DEF r, cut
<1>5. ASSUME NEW q \in Clients \ {k}, admitted'[q] = admitted[q],
             q \in refused' => q \in refused,
             Known(q)' = Known(q) \/ (Known(q)' = <<>> /\ Limits!Stale(Known(q)))
      PROVE  CallerInv(q)'
  <2>1. CallerInv(q)
    BY <1>4
  <2>2. Suffix(Known(q)', admitted[q], cut)
    BY <1>2, <1>5, <2>1, StaleSuffix DEF CallerInv, cut
  <2>3. (q \in refused => Used(q))'
    BY <1>1, <1>5, <2>1 DEF CallerInv, Used, cut
  <2>4. QED
    BY <1>1, <1>5, <2>1, <2>2, <2>3 DEF CallerInv, cut
<1>6. CASE /\ Limits!Bursting(r) \/ Len(r) >= PerMinute
           /\ Known(k)' = r
           /\ \A q \in Clients \ {k} : Known(q)' = Known(q)
           /\ refused' = refused \cup {k} /\ UNCHANGED <<pruned, admitted>>
  <2>1. CallerInv(k)'
    <3>1. Used(k)'
      BY <1>1, <1>3, <1>6 DEF Used, cut
    <3>2. QED
      BY <1>1, <1>3, <1>4, <1>6, <3>1 DEF CallerInv, cut
  <2>2. \A q \in Clients \ {k} : CallerInv(q)'
    BY <1>5, <1>6
  <2>3. QED
    BY <1>1, <1>6, <2>1, <2>2 DEF QuotaInv
<1>7. CASE /\ ~Limits!Bursting(r) /\ ~(Len(r) >= PerMinute)
           /\ Known(k)' = Append(r, quotaNow)
           /\ \A q \in Clients \ {k} :
                Known(q)' = Known(q) \/ (Known(q)' = <<>> /\ Limits!Stale(Known(q)))
           /\ pruned' \in {pruned, quotaNow} /\ UNCHANGED refused
           /\ admitted' = [admitted EXCEPT ![k] = Append(@, quotaNow)]
  <2>1. /\ DOMAIN admitted' = Clients /\ admitted'[k] = Append(admitted[k], quotaNow)
        /\ \A q \in Clients \ {k} : admitted'[q] = admitted[q]
    BY <1>7 DEF QuotaInv
  <2>2. CallerInv(k)'
    <3> DEFINE a == admitted[k]  b == Append(a, quotaNow)
    <3>1. /\ Ordered(a) /\ (\A i \in DOMAIN a : a[i] <= quotaNow) /\ Spaced(a)
          /\ k \in refused => Used(k)
      BY <1>4 DEF CallerInv
    <3>2. ~(Count(a, quotaNow) >= Burst) /\ ~(Count(a, cut) >= PerMinute)
      BY <1>3, <1>7
    <3>3. k \notin refused
      BY <3>1, <3>2 DEF Used, cut
    <3> HIDE DEF a
    <3>4. Spaced(b)
      BY <1>2, <3>1, <3>2, SpacedAppend DEF cut
    <3>5. Ordered(b)
      BY <1>2, <3>1, CountAppend
    <3>6. \A i \in DOMAIN b : b[i] <= quotaNow
      <4>1. a \in Seq(Nat)
        BY <3>1 DEF Ordered
      <4>2. /\ DOMAIN a = 1 .. Len(a) /\ DOMAIN b = 1 .. Len(a) + 1 /\ Len(a) \in Nat
            /\ b[Len(a) + 1] = quotaNow /\ \A i \in 1 .. Len(a) : b[i] = a[i]
        BY <4>1
      <4> HIDE DEF b
      <4>3. QED
        BY <1>2, <3>1, <4>2
    <3>7. Suffix(Append(r, quotaNow), b, cut)
      BY <1>2, <1>3, <3>1, SuffixAppend DEF a
    <3>8. admitted'[k] = b
      BY <2>1 DEF a
    <3> HIDE DEF b
    <3>9. QED
      BY <1>1, <1>7, <3>3, <3>4, <3>5, <3>6, <3>7, <3>8 DEF CallerInv, cut
  <2>3. \A q \in Clients \ {k} : CallerInv(q)'
    BY <1>5, <1>7, <2>1
  <2>4. pruned' \in 0 .. QuotaTime
    BY <1>2, <1>7 DEF QuotaInv
  <2>5. QED
    BY <1>1, <1>7, <2>1, <2>2, <2>3, <2>4 DEF QuotaInv
<1>8. QED
  BY <1>6, <1>7, CheckDoes DEF r

\* Time keeps the invariant: what is too old to count stays so.
LEMMA QuotaTick ==
    ASSUME QuotaInv, Limits!Tick
    PROVE  QuotaInv'
<1> DEFINE cut == Limits!Cutoff  later == cut'
<1>1. /\ quotaNow' = quotaNow + 1 /\ quotaNow' <= QuotaTime /\ refused' = {}
      /\ hits' = hits /\ pruned' = pruned /\ admitted' = admitted
      /\ quotaNow \in Nat
  BY QuotaConstants DEF Limits!Tick, QuotaInv
<1>2. cut \in Nat /\ later \in Nat /\ cut <= later
  BY <1>1, QuotaConstants DEF Limits!Cutoff
<1> HIDE DEF cut, later
<1>3. ASSUME NEW k \in Clients
      PROVE  CallerInv(k)'
  <2>1. CallerInv(k)
    BY DEF QuotaInv
  <2>2. Suffix(Known(k), admitted[k], later)
    BY <1>2, <2>1, SuffixLater DEF CallerInv, cut
  <2>3. Known(k)' = Known(k)
    BY <1>1 DEF Known
  <2>4. \A i \in DOMAIN admitted[k] : admitted[k][i] <= quotaNow'
    <3>1. \A i \in DOMAIN admitted[k] : admitted[k][i] \in Nat /\ admitted[k][i] <= quotaNow
      BY <2>1 DEF CallerInv, Ordered
    <3>2. QED
      BY <1>1, <3>1
  <2>5. QED
    BY <1>1, <2>1, <2>2, <2>3, <2>4 DEF CallerInv, later, cut
<1>4. quotaNow' \in 0 .. QuotaTime
  BY <1>1, QuotaConstants
<1>5. QED
  BY <1>1, <1>3, <1>4 DEF QuotaInv

\* The limiter starts with no admissions.
LEMMA QuotaInit == Limits!Init => QuotaInv
<1> SUFFICES ASSUME Limits!Init
             PROVE  QuotaInv
  OBVIOUS
<1>1. /\ DOMAIN hits = {} /\ pruned = 0 /\ quotaNow = 0 /\ refused = {}
      /\ admitted = [k \in Clients |-> <<>>]
  BY DEF Limits!Init
<1>2. ASSUME NEW k \in Clients
      PROVE  CallerInv(k)
  <2>1. admitted[k] = <<>> /\ Known(k) = <<>>
    BY <1>1 DEF Known
  <2>2. Ordered(<<>>) /\ Spaced(<<>>) /\ Suffix(<<>>, <<>>, Limits!Cutoff)
    BY DEF Ordered, Spaced, Suffix
  <2>3. QED
    BY <1>1, <2>1, <2>2 DEF CallerInv
<1>3. QED
  BY <1>1, <1>2, QuotaConstants DEF QuotaInv

\* A step keeps the invariant.
LEMMA QuotaStep == QuotaInv /\ [Limits!Next]_limits => QuotaInv'
<1> SUFFICES ASSUME QuotaInv, [Limits!Next]_limits
             PROVE  QuotaInv'
  OBVIOUS
<1>1. CASE UNCHANGED limits
  <2>1. UNCHANGED <<hits, pruned, quotaNow, admitted, refused>>
    BY <1>1 DEF limits
  <2>2. \A k \in Clients : CallerInv(k)' <=> CallerInv(k)
    BY <2>1 DEF CallerInv, Known, Used, Limits!Cutoff
  <2>3. QED
    BY <2>1, <2>2 DEF QuotaInv
<1>2. CASE Limits!Next
  BY <1>2, QuotaCheck, QuotaTick DEF Limits!Next
<1>3. QED
  BY <1>1, <1>2

\* The invariant says what QuotaKept says.
LEMMA QuotaHolds == QuotaInv => Limits!QuotaKept
<1> SUFFICES ASSUME QuotaInv, NEW k \in Clients
             PROVE  /\ \A t \in 0..QuotaTime : Limits!Between(k, t, t + Window) <= PerMinute
                    /\ \A t \in 0..QuotaTime : Limits!Between(k, t, t) <= Burst
                    /\ k \in refused => \/ Limits!Since(k, quotaNow) >= Burst
                                        \/ Limits!Since(k, Limits!Cutoff) >= PerMinute
                    /\ Limits!Remaining(k) = PerMinute - Limits!Since(k, Limits!Cutoff)
  BY DEF Limits!QuotaKept
<1> DEFINE a == admitted[k]  h == Known(k)  cut == Limits!Cutoff
<1>1. CallerInv(k) /\ quotaNow \in Nat
  BY QuotaConstants DEF QuotaInv
<1>2. Ordered(a) /\ Spaced(a) /\ Suffix(h, a, cut) /\ cut \in Nat
      /\ \A i \in DOMAIN a : a[i] <= quotaNow
  BY <1>1, CutoffIs DEF CallerInv
<1>3. \A t : Limits!Since(k, t) = Count(a, t)
  BY CardinalityThere DEF Limits!Since, Count
<1>4. \A t, u : Limits!Between(k, t, u) = Cardinality({i \in DOMAIN a : t <= a[i] /\ a[i] <= u})
  BY CardinalityThere DEF Limits!Between
<1>5. \A t \in Nat : Cardinality({i \in DOMAIN a : t <= a[i] /\ a[i] <= t + Window}) <= PerMinute
  <2> HIDE DEF a
  <2>1. QED
    BY <1>2, ApartCount, QuotaConstants DEF Spaced
<1>6. \A t \in Nat : Cardinality({i \in DOMAIN a : t <= a[i] /\ a[i] <= t + 0}) <= Burst
  <2> HIDE DEF a
  <2>1. \A i \in DOMAIN a : i + Burst \in DOMAIN a => a[i] + 0 < a[i + Burst]
    <3>1. \A i \in DOMAIN a : a[i] \in Nat
      BY <1>2 DEF Ordered
    <3>2. QED
      BY <1>2, <3>1 DEF Spaced
  <2>2. QED
    BY <1>2, <2>1, ApartCount, QuotaConstants
<1>7. Count(a, cut) \in Nat /\ Count(a, cut) <= PerMinute
  <2> HIDE DEF a, cut
  <2>1. {i \in DOMAIN a : cut <= a[i]} = {i \in DOMAIN a : cut <= a[i] /\ a[i] <= cut + Window}
    <3>1. \A i \in DOMAIN a : a[i] \in Nat /\ a[i] <= quotaNow
      BY <1>2 DEF Ordered
    <3>2. quotaNow <= cut + Window
      BY <1>1, CutoffIs DEF cut
    <3>3. \A i \in DOMAIN a : a[i] <= cut + Window
      BY <1>1, <1>2, <3>1, <3>2, QuotaConstants
    <3>4. QED
      BY <3>3
  <2>2. QED
    BY <1>2, <1>5, <2>1, CountNat DEF Count
<1>8. Limits!Remaining(k) = PerMinute - Count(a, cut)
  <2> DEFINE used == IF k \in DOMAIN hits
                     THEN Limits!Cardinality({i \in DOMAIN hits[k] : hits[k][i] + Window >= quotaNow})
                     ELSE 0
  <2>1. Limits!Remaining(k) = IF used < PerMinute THEN PerMinute - used ELSE 0
    BY DEF Limits!Remaining
  <2>2. Ordered(h) /\ Count(h, cut) = Count(a, cut)
    <3> HIDE DEF h, a, cut
    <3>1. QED
      BY <1>2, SuffixCount
  <2>3. used = Count(h, cut)
    <3>1. CASE k \in DOMAIN hits
      <4>1. h = hits[k]
        BY <3>1 DEF Known
      <4>2. \A i \in DOMAIN h : h[i] \in Nat
        BY <2>2 DEF Ordered
      <4>3. \A t \in Nat : t + Window >= quotaNow <=> cut <= t
        BY <1>1, CutoffIs, QuotaConstants
      <4> HIDE DEF h, cut
      <4>4. {i \in DOMAIN h : h[i] + Window >= quotaNow} = {i \in DOMAIN h : cut <= h[i]}
        BY <4>2, <4>3
      <4>5. used = Cardinality({i \in DOMAIN h : h[i] + Window >= quotaNow})
        BY <3>1, <4>1, CardinalityThere
      <4>6. QED
        BY <4>4, <4>5 DEF Count
    <3>2. CASE k \notin DOMAIN hits
      <4>1. h = <<>>
        BY <3>2 DEF Known
      <4>2. {i \in DOMAIN <<>> : cut <= <<>>[i]} = {}
        OBVIOUS
      <4>3. QED
        BY <3>2, <4>1, <4>2, FS_EmptySet DEF Count
    <3>3. QED
      BY <3>1, <3>2
  <2> HIDE DEF used
  <2>4. QED
    BY <1>7, <2>1, <2>2, <2>3, QuotaConstants
<1>9. k \in refused => Used(k)
  BY <1>1 DEF CallerInv
<1>10. \A t \in 0 .. QuotaTime : t \in Nat /\ t + 0 = t
  BY QuotaConstants
<1>11. ASSUME NEW t \in 0 .. QuotaTime
       PROVE  Limits!Between(k, t, t + Window) <= PerMinute /\ Limits!Between(k, t, t) <= Burst
  <2> DEFINE In(u) == {i \in DOMAIN a : t <= a[i] /\ a[i] <= u}
  <2>a. t \in Nat /\ t + 0 = t
    BY <1>10
  <2>1. Limits!Between(k, t, t + Window) <= PerMinute
    <3>1. Cardinality(In(t + Window)) <= PerMinute
      BY <1>5, <2>a, Zenon
    <3>2. Limits!Between(k, t, t + Window) = Cardinality(In(t + Window))
      BY <1>4, Zenon
    <3>3. QED
      BY <3>1, <3>2, Zenon
  <2>2. Limits!Between(k, t, t + 0) <= Burst
    <3>1. Cardinality(In(t + 0)) <= Burst
      BY <1>6, <2>a, Zenon
    <3>2. Limits!Between(k, t, t + 0) = Cardinality(In(t + 0))
      BY <1>4, Zenon
    <3>3. QED
      BY <3>1, <3>2, Zenon
  <2>3. QED
    BY <1>10, <2>1, <2>2
<1>12. k \in refused => \/ Limits!Since(k, quotaNow) >= Burst
                        \/ Limits!Since(k, Limits!Cutoff) >= PerMinute
  BY <1>3, <1>9 DEF Used
<1>13. Limits!Remaining(k) = PerMinute - Limits!Since(k, Limits!Cutoff)
  BY <1>3, <1>8
<1> HIDE DEF a, h, cut
<1>14. QED
  BY <1>11, <1>12, <1>13

-----------------------------------------------------------------------------
(* The parts side by side.                                                 *)

NestedFan == INSTANCE MultiStoreProofs WITH
    breaker <- legBreaker, Callers <- NestedCallers, Stores <- NestedStores,
    Configured <- NestedConfigured, Detailed <- NestedDetailed, Hybrids <- NestedHybrids,
    Limit <- FanLimit, Reset <- FanReset

FlatFan == INSTANCE MultiStoreProofs WITH
    breaker <- legBreaker, Callers <- FlatCallers, Stores <- FlatStores,
    Configured <- FlatConfigured, Detailed <- {}, Hybrids <- {},
    Limit <- FanLimit, Reset <- FanReset

HttpProofs == INSTANCE ServerProofs WITH Requests <- HttpRequests

\* The settings of the parts are those their proofs suppose.
LEMMA FansConfigured ==
    /\ NestedFan!WellConfigured /\ NestedFan!BreakerAssumption
    /\ FlatFan!WellConfigured /\ FlatFan!BreakerAssumption
<1>1. NestedFan!WellConfigured /\ NestedFan!BreakerAssumption
  BY Settings, BreakerAssumption
  DEF Nested!WellConfigured, NestedFan!WellConfigured, NestedFan!BreakerAssumption
<1>2. FlatFan!WellConfigured /\ FlatFan!BreakerAssumption
  BY Settings, BreakerAssumption
  DEF Flat!WellConfigured, FlatFan!WellConfigured, FlatFan!BreakerAssumption
<1>3. QED
  BY <1>1, <1>2

LEMMA HttpConfigured == HttpProofs!WellConfigured
BY Settings DEF Http!WellConfigured, HttpProofs!WellConfigured, Http!Pipelines,
   HttpProofs!Pipelines, Http!Routes, HttpProofs!Routes, Http!None, HttpProofs!None

\* The fan-out whose retriever is a fan-out itself, as its proofs see it.
LEMMA NestedSame ==
    /\ Nested!Init => NestedFan!Init
    /\ [Nested!Next]_fan => [NestedFan!Next]_NestedFan!vars
<1>1. Nested!Init => NestedFan!Init
  BY DEF Nested!Init, NestedFan!Init, Nested!Idle, NestedFan!Idle,
         Nested!NewBreaker, NestedFan!NewBreaker
<1>2. Nested!Next => NestedFan!Next
  BY DEF Nested!Cardinality, Nested!NewBreaker, Nested!Tripped, Nested!ProbeLive,
     Nested!AdmitsProbe, Nested!Admits, Nested!AfterGate, Nested!RecordSuccess,
     Nested!Bump, Nested!RecordFailure, Nested!Older, Nested!Aged, Nested!vars,
     Nested!Idle, Nested!Init, Nested!HybridLegs, Nested!Planned, Nested!Plan,
     Nested!Launch, Nested!Ends, Nested!Gave, Nested!Erred, Nested!Answers,
     Nested!Dark, Nested!AnswersDetailed, Nested!Unreachable, Nested!Rejects,
     Nested!Refuses, Nested!Return, Nested!Cancel, Nested!Tick, Nested!GoesAway,
     Nested!Next, NestedFan!Cardinality, NestedFan!NewBreaker, NestedFan!Tripped,
     NestedFan!ProbeLive, NestedFan!AdmitsProbe, NestedFan!Admits,
     NestedFan!AfterGate, NestedFan!RecordSuccess, NestedFan!Bump,
     NestedFan!RecordFailure, NestedFan!Older, NestedFan!Aged, NestedFan!vars,
     NestedFan!Idle, NestedFan!Init, NestedFan!HybridLegs, NestedFan!Planned,
     NestedFan!Plan, NestedFan!Launch, NestedFan!Ends, NestedFan!Gave,
     NestedFan!Erred, NestedFan!Answers, NestedFan!Dark,
     NestedFan!AnswersDetailed, NestedFan!Unreachable, NestedFan!Rejects,
     NestedFan!Refuses, NestedFan!Return, NestedFan!Cancel, NestedFan!Tick,
     NestedFan!GoesAway, NestedFan!Next
<1>3. UNCHANGED fan => UNCHANGED NestedFan!vars
  BY DEF fan, NestedFan!vars
<1>4. QED
  BY <1>1, <1>2, <1>3

\* The fan-out whose retrievers are not.
LEMMA FlatSame ==
    /\ Flat!Init => FlatFan!Init
    /\ [Flat!Next]_fan => [FlatFan!Next]_FlatFan!vars
<1>1. Flat!Init => FlatFan!Init
  BY DEF Flat!Init, FlatFan!Init, Flat!Idle, FlatFan!Idle,
         Flat!NewBreaker, FlatFan!NewBreaker
<1>2. Flat!Next => FlatFan!Next
  BY DEF Flat!Cardinality, Flat!NewBreaker, Flat!Tripped, Flat!ProbeLive,
     Flat!AdmitsProbe, Flat!Admits, Flat!AfterGate, Flat!RecordSuccess,
     Flat!Bump, Flat!RecordFailure, Flat!Older, Flat!Aged, Flat!vars, Flat!Idle,
     Flat!Init, Flat!HybridLegs, Flat!Planned, Flat!Plan, Flat!Launch, Flat!Ends,
     Flat!Gave, Flat!Erred, Flat!Answers, Flat!Dark, Flat!AnswersDetailed,
     Flat!Unreachable, Flat!Rejects, Flat!Refuses, Flat!Return, Flat!Cancel,
     Flat!Tick, Flat!GoesAway, Flat!Next, FlatFan!Cardinality,
     FlatFan!NewBreaker, FlatFan!Tripped, FlatFan!ProbeLive, FlatFan!AdmitsProbe,
     FlatFan!Admits, FlatFan!AfterGate, FlatFan!RecordSuccess, FlatFan!Bump,
     FlatFan!RecordFailure, FlatFan!Older, FlatFan!Aged, FlatFan!vars,
     FlatFan!Idle, FlatFan!Init, FlatFan!HybridLegs, FlatFan!Planned,
     FlatFan!Plan, FlatFan!Launch, FlatFan!Ends, FlatFan!Gave, FlatFan!Erred,
     FlatFan!Answers, FlatFan!Dark, FlatFan!AnswersDetailed, FlatFan!Unreachable,
     FlatFan!Rejects, FlatFan!Refuses, FlatFan!Return, FlatFan!Cancel,
     FlatFan!Tick, FlatFan!GoesAway, FlatFan!Next
<1>3. UNCHANGED fan => UNCHANGED FlatFan!vars
  BY DEF fan, FlatFan!vars
<1>4. QED
  BY <1>1, <1>2, <1>3

\* The routes of the service.
LEMMA HttpSame ==
    /\ Http!Init => HttpProofs!Init
    /\ [Http!Next]_http => [HttpProofs!Next]_HttpProofs!vars
<1>1. Http!Init => HttpProofs!Init
  BY DEF Http!Init, HttpProofs!Init, Http!Idle, HttpProofs!Idle, Http!None,
         HttpProofs!None, Http!AutoPipeline, HttpProofs!AutoPipeline
<1>2. Http!Next => HttpProofs!Next
  BY DEF Http!None, Http!AutoPipeline, Http!Graph, Http!Counted, Http!Limited,
     Http!Waits, Http!StatusOf, Http!Own, Http!OutcomeOf, Http!service,
     Http!world, Http!vars, Http!Idle, Http!Init, Http!At, Http!Kind, Http!Move,
     Http!Goto, Http!Unstaged, Http!End, Http!Build, Http!Close,
     Http!ResolveTenant, Http!Arrive, Http!Health, Http!Refused, Http!Read,
     Http!Guard, Http!Stage, Http!Copy, Http!Prepare, Http!Entry, Http!Matches,
     Http!Store, Http!Invalidated, Http!Visible, Http!Readable, Http!Lookup, Http!Answers,
     Http!Engine, Http!Linear, Http!Caching, Http!UnderDeadline, Http!Deadline,
     Http!Stream, Http!Ingest, Http!Documents, Http!Delete, Http!Evaluate,
     Http!Cancel, Http!Step, Http!Next, Http!Pipelines, HttpProofs!None,
     HttpProofs!AutoPipeline, HttpProofs!Graph, HttpProofs!Counted,
     HttpProofs!Limited, HttpProofs!Waits, HttpProofs!StatusOf, HttpProofs!Own,
     HttpProofs!OutcomeOf, HttpProofs!service, HttpProofs!world, HttpProofs!vars,
     HttpProofs!Idle, HttpProofs!Init, HttpProofs!At, HttpProofs!Kind,
     HttpProofs!Move, HttpProofs!Goto, HttpProofs!Unstaged, HttpProofs!End,
     HttpProofs!Build, HttpProofs!Close, HttpProofs!ResolveTenant,
     HttpProofs!Arrive, HttpProofs!Health, HttpProofs!Refused, HttpProofs!Read,
     HttpProofs!Guard, HttpProofs!Stage, HttpProofs!Copy, HttpProofs!Prepare,
     HttpProofs!Entry, HttpProofs!Matches, HttpProofs!Store,
     HttpProofs!Invalidated, HttpProofs!Visible, HttpProofs!Readable, HttpProofs!Lookup,
     HttpProofs!Answers, HttpProofs!Engine, HttpProofs!Linear,
     HttpProofs!Caching, HttpProofs!UnderDeadline, HttpProofs!Deadline,
     HttpProofs!Stream, HttpProofs!Ingest, HttpProofs!Documents,
     HttpProofs!Delete, HttpProofs!Evaluate, HttpProofs!Cancel, HttpProofs!Step,
     HttpProofs!Next, HttpProofs!Pipelines
<1>3. UNCHANGED http => UNCHANGED HttpProofs!vars
  BY DEF http, HttpProofs!vars, HttpProofs!service, HttpProofs!world
<1>4. QED
  BY <1>1, <1>2, <1>3

\* The inductive invariant of the composition: of each part its own, and of the
\* two fan-outs, whose variables are the same, that of the one that moves.
PartsInv ==
    /\ which \in {"guard", "nested", "flat", "rate", "limits", "http"}
    /\ IInv /\ PaceInv /\ QuotaInv /\ HttpProofs!Inv
    /\ which # "flat" => NestedFan!Inv
    /\ which = "flat" => FlatFan!Inv

\* The initial states satisfy it.
LEMMA PartsInit == AllInit => PartsInv
<1> SUFFICES ASSUME AllInit
             PROVE  PartsInv
  OBVIOUS
<1>1. IInv /\ PaceInv /\ QuotaInv
  BY InitIInv, PaceInit, QuotaInit DEF AllInit
<1>2. HttpProofs!Inv
  BY HttpSame, HttpConfigured, HttpProofs!InitInv DEF AllInit
<1>3. which # "flat" => NestedFan!Inv
  BY NestedSame, FansConfigured, NestedFan!InitInv DEF AllInit
<1>4. which = "flat" => FlatFan!Inv
  BY FlatSame, FansConfigured, FlatFan!InitInv DEF AllInit
<1>5. QED
  BY <1>1, <1>2, <1>3, <1>4 DEF AllInit, PartsInv

\* A step is of one part at most, and of no other.
LEMMA StepOfEach ==
    ASSUME [AllNext]_all
    PROVE  /\ [Next]_vars /\ [Rate!Next]_rate /\ [Limits!Next]_limits /\ [Http!Next]_http
           /\ which # "flat" => [Nested!Next]_fan
           /\ which = "flat" => [Flat!Next]_fan
           /\ UNCHANGED which
BY DEF AllNext, all

\* Every step keeps the invariant.
LEMMA PartsStep == PartsInv /\ [AllNext]_all => PartsInv'
<1> SUFFICES ASSUME PartsInv, [AllNext]_all
             PROVE  PartsInv'
  OBVIOUS
<1>1. IInv'
  BY StepOfEach, NextIInv DEF PartsInv
<1>2. PaceInv'
  BY StepOfEach, PaceStep DEF PartsInv
<1>3. QuotaInv'
  BY StepOfEach, QuotaStep DEF PartsInv
<1>4. HttpProofs!Inv'
  BY StepOfEach, HttpSame, HttpConfigured, HttpProofs!NextInv DEF PartsInv
<1>5. which # "flat" => NestedFan!Inv'
  BY StepOfEach, NestedSame, FansConfigured, NestedFan!NextInv DEF PartsInv
<1>6. which = "flat" => FlatFan!Inv'
  BY StepOfEach, FlatSame, FansConfigured, FlatFan!NextInv DEF PartsInv
<1>7. which' = which
  BY StepOfEach
<1>8. QED
  BY <1>1, <1>2, <1>3, <1>4, <1>5, <1>6, <1>7 DEF PartsInv

\* The invariant holds in every reachable state.
LEMMA PartsHold == AllSpec => []PartsInv
BY PartsInit, PartsStep, PTL DEF AllSpec

\* Every part keeps its types beside the others; among them, that no bucket is
\* ever above its ceiling and no fan-out has more legs in flight than its limit.
THEOREM PartsTyped == AllSpec => []TypesOK
<1>1. PartsInv => TypesOK
  <2> SUFFICES ASSUME PartsInv
               PROVE  TypesOK
    OBVIOUS
  <2>1. TypeOK
    BY DEF PartsInv, IInv
  <2>2. which # "flat" => Nested!TypeOK
    <3>1. which # "flat" => NestedFan!TypeOK
      BY FansConfigured, NestedFan!InvTypes DEF PartsInv
    <3>2. NestedFan!TypeOK => Nested!TypeOK
      BY DEF Nested!Cardinality, Nested!BreakerState, Nested!Tripped, Nested!Admits,
     Nested!AdmitsProbe, Nested!ProbeLive, Nested!TypeOK,
     Nested!StoresAccountedFor, Nested!SilenceTripsOnly, NestedFan!Cardinality,
     NestedFan!BreakerState, NestedFan!Tripped, NestedFan!Admits,
     NestedFan!AdmitsProbe, NestedFan!ProbeLive, NestedFan!TypeOK,
     NestedFan!StoresAccountedFor, NestedFan!SilenceTripsOnly
    <3>3. QED
      BY <3>1, <3>2
  <2>3. which = "flat" => Flat!TypeOK
    <3>1. which = "flat" => FlatFan!TypeOK
      BY FansConfigured, FlatFan!InvTypes DEF PartsInv
    <3>2. FlatFan!TypeOK => Flat!TypeOK
      BY DEF Flat!Cardinality, Flat!BreakerState, Flat!Tripped, Flat!Admits,
     Flat!AdmitsProbe, Flat!ProbeLive, Flat!TypeOK, Flat!StoresAccountedFor,
     Flat!SilenceTripsOnly, FlatFan!Cardinality, FlatFan!BreakerState,
     FlatFan!Tripped, FlatFan!Admits, FlatFan!AdmitsProbe, FlatFan!ProbeLive,
     FlatFan!TypeOK, FlatFan!StoresAccountedFor, FlatFan!SilenceTripsOnly
    <3>3. QED
      BY <3>1, <3>2
  <2>4. Rate!TypeOK
    <3>1. PaceTyped
      BY DEF PartsInv, PaceInv
    <3>2. queue \in Seq(ModelCalls) /\ granted \subseteq ModelCalls \X (0 .. paceNow)
      BY <3>1 DEF PaceTyped
    <3>3. Rate!Waiting \subseteq ModelCalls /\ Rate!Granted \subseteq ModelCalls
      BY <3>2 DEF Rate!Waiting, Rate!Granted
    <3>4. QED
      BY <3>1, <3>3 DEF PaceTyped, Rate!TypeOK
  <2>5. Limits!TypeOK
    BY DEF PartsInv, QuotaInv, Limits!TypeOK
  <2>6. Http!TypeOK
    <3>1. HttpProofs!TypeOK
      BY HttpProofs!InvTypes DEF PartsInv
    <3>2. QED
      BY <3>1 DEF HttpProofs!TypeOK, Http!TypeOK, HttpProofs!EntryType, Http!EntryType,
         HttpProofs!None, Http!None, HttpProofs!Pipelines, Http!Pipelines,
         HttpProofs!AutoPipeline, Http!AutoPipeline, HttpProofs!Graph, Http!Graph
  <2>7. QED
    BY <2>1, <2>2, <2>3, <2>4, <2>5, <2>6 DEF PartsInv, TypesOK
<1>2. QED
  BY <1>1, PartsHold, PTL

\* In either fan-out a query accounts for every store of its route, and no
\* store is cut off that has always answered (`_plan`, `_guarded`).
THEOREM FanOutsHonest == AllSpec => []FanOutIsHonest
<1>1. PartsInv => FanOutIsHonest
  <2> SUFFICES ASSUME PartsInv
               PROVE  FanOutIsHonest
    OBVIOUS
  <2>1. which # "flat" => NestedFan!StoresAccountedFor /\ NestedFan!SilenceTripsOnly
    BY FansConfigured, NestedFan!InvHonest DEF PartsInv
  <2>2. NestedFan!StoresAccountedFor /\ NestedFan!SilenceTripsOnly
          => Nested!StoresAccountedFor /\ Nested!SilenceTripsOnly
    BY DEF Nested!Cardinality, Nested!BreakerState, Nested!Tripped, Nested!Admits,
     Nested!AdmitsProbe, Nested!ProbeLive, Nested!TypeOK,
     Nested!StoresAccountedFor, Nested!SilenceTripsOnly, NestedFan!Cardinality,
     NestedFan!BreakerState, NestedFan!Tripped, NestedFan!Admits,
     NestedFan!AdmitsProbe, NestedFan!ProbeLive, NestedFan!TypeOK,
     NestedFan!StoresAccountedFor, NestedFan!SilenceTripsOnly
  <2>3. which = "flat" => FlatFan!StoresAccountedFor /\ FlatFan!SilenceTripsOnly
    BY FansConfigured, FlatFan!InvHonest DEF PartsInv
  <2>4. FlatFan!StoresAccountedFor /\ FlatFan!SilenceTripsOnly
          => Flat!StoresAccountedFor /\ Flat!SilenceTripsOnly
    BY DEF Flat!Cardinality, Flat!BreakerState, Flat!Tripped, Flat!Admits,
     Flat!AdmitsProbe, Flat!ProbeLive, Flat!TypeOK, Flat!StoresAccountedFor,
     Flat!SilenceTripsOnly, FlatFan!Cardinality, FlatFan!BreakerState,
     FlatFan!Tripped, FlatFan!Admits, FlatFan!AdmitsProbe, FlatFan!ProbeLive,
     FlatFan!TypeOK, FlatFan!StoresAccountedFor, FlatFan!SilenceTripsOnly
  <2>5. QED
    BY <2>1, <2>2, <2>3, <2>4 DEF FanOutIsHonest
<1>2. QED
  BY <1>1, PartsHold, PTL

\* Neither limiter lets through more than its rate, in any stretch of time: the
\* provider's bucket for any rate, ceiling and calls, cancelled or not, and the
\* caller's window for any window, burst and callers, whenever it is pruned.
THEOREM RatesAreKept == AllSpec => []RatesHold
<1>1. PartsInv => RatesHold
  BY PaceHolds, QuotaHolds DEF PartsInv, RatesHold
<1>2. QED
  BY <1>1, PartsHold, PTL

\* No bound caller, and under isolation none at all, is given an answer computed
\* for another tenant, whoever asked before it and whatever was cached; under
\* isolation the answer is also built from documents of its own tenant only.
THEOREM TenantsKeptApart == AllSpec => []KeptToTenant
<1>1. PartsInv => KeptToTenant
  <2>1. PartsInv => HttpProofs!KeptToTenant
    BY HttpConfigured, HttpProofs!InvTenants DEF PartsInv
  <2>2. HttpProofs!KeptToTenant => Http!KeptToTenant
    BY DEF HttpProofs!KeptToTenant, Http!KeptToTenant, HttpProofs!OwnDocs, Http!OwnDocs,
       HttpProofs!None, Http!None
  <2>3. QED
    BY <2>1, <2>2 DEF KeptToTenant
<1>2. QED
  BY <1>1, PartsHold, PTL

\* A request that ends has removed its upload and has been counted once.
THEOREM RequestsSettle == AllSpec => []EndsAreSettled
<1>1. PartsInv => EndsAreSettled
  <2>1. PartsInv => HttpProofs!EndsAreSettled
    BY HttpProofs!InvEnds DEF PartsInv
  <2>2. HttpProofs!EndsAreSettled => Http!EndsAreSettled
    BY DEF HttpProofs!EndsAreSettled, Http!EndsAreSettled, HttpProofs!At, Http!At
  <2>3. QED
    BY <2>1, <2>2 DEF EndsAreSettled
<1>2. QED
  BY <1>1, PartsHold, PTL

\* What the breaker promises alone it promises beside the other parts: probes a
\* cooldown apart, and every step one of its contract's (`CircuitBreaker`).
THEOREM GuardPromises == AllSpec => ProbesApart /\ ContractKept
<1>1. AllInit => Contract!Init
  BY InitRefines DEF AllInit
<1>2. PartsInv /\ [AllNext]_all => [Contract!Next]_Contract!vars
  BY StepOfEach, StepRefines DEF PartsInv
<1>3. PartsInv /\ [AllNext]_all => [ProbeIsApart]_vars
  BY StepOfEach, StepsApart DEF PartsInv
<1>4. AllSpec => [][Contract!Next]_Contract!vars
  BY <1>2, PartsHold, PTL DEF AllSpec
<1>5. AllSpec => [][ProbeIsApart]_vars
  BY <1>3, PartsHold, PTL DEF AllSpec
<1>6. QED
  BY <1>1, <1>4, <1>5, PTL DEF AllSpec, ContractKept, Contract!Spec, ProbesApart, ProbeIsApart
=============================================================================
