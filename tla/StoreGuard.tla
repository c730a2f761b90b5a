------------------------------ MODULE StoreGuard ------------------------------
(***************************************************************************)
(* Concurrent callers of one store behind its breaker and retry policy:    *)
(* QdrantStore._guard with core/concurrency.py's retry_async inside it.    *)
(* One action is the code a caller runs between two awaits.                *)
(***************************************************************************)
EXTENDS Breaker

CONSTANTS Callers,   \* concurrent requests that use the store
          Attempts   \* _RETRY_ATTEMPTS of the store

ASSUME GuardAssumption == Attempts \in Nat \ {0}

VARIABLES breaker,  \* the store's CircuitBreaker
          pc,       \* [Callers -> where the caller is]
          attempt,  \* [Callers -> which attempt it is on]
          up,       \* the server answers
          hit,      \* callers whose attempt met the server away
          outage    \* ghost: the server has ever been away

vars == <<breaker, pc, attempt, up, hit, outage>>

TypeOK ==
    /\ breaker \in BreakerState
    /\ pc \in [Callers -> {"idle", "calling", "backoff"}]
    /\ attempt \in [Callers -> 1 .. Attempts]
    /\ up \in BOOLEAN
    /\ hit \subseteq Callers
    /\ outage \in BOOLEAN

Init ==
    /\ breaker = NewBreaker
    /\ pc = [c \in Callers |-> "idle"]
    /\ attempt = [c \in Callers |-> 1]
    /\ up = TRUE
    /\ hit = {}
    /\ outage = FALSE

Send(c) ==
    /\ pc' = [pc EXCEPT ![c] = "calling"]
    /\ hit' = IF up THEN hit \ {c} ELSE hit \cup {c}

Return(c) ==
    /\ pc' = [pc EXCEPT ![c] = "idle"]
    /\ UNCHANGED <<attempt, up, hit, outage>>

\* `self._breaker.check()` passes and the first attempt is sent.
Start(c) ==
    /\ pc[c] = "idle"
    /\ Admits(breaker)
    /\ breaker' = AfterGate(breaker)
    /\ Send(c)
    /\ attempt' = [attempt EXCEPT ![c] = 1]
    /\ UNCHANGED <<up, outage>>

\* `check()` raises StoreUnavailable without touching the store.
Refuse(c) ==
    /\ pc[c] = "idle"
    /\ ~Admits(breaker)
    /\ breaker' = AfterGate(breaker)
    /\ UNCHANGED <<pc, attempt, up, hit, outage>>

Succeed(c) ==
    /\ pc[c] = "calling"
    /\ breaker' = RecordSuccess(breaker)
    /\ Return(c)

\* Mutation: one attempt too many.
RetryOnceMore(c) ==
    /\ pc[c] = "calling"
    /\ attempt[c] <= Attempts
    /\ pc' = [pc EXCEPT ![c] = "backoff"]
    /\ UNCHANGED <<breaker, attempt, up, hit, outage>>

\* A TransientError with attempts left: sleep, then try again.
Retry(c) ==
    /\ pc[c] = "calling"
    /\ attempt[c] < Attempts
    /\ pc' = [pc EXCEPT ![c] = "backoff"]
    /\ UNCHANGED <<breaker, attempt, up, hit, outage>>

\* The retry does not consult the breaker again.
Resume(c) ==
    /\ pc[c] = "backoff"
    /\ Send(c)
    /\ attempt' = [attempt EXCEPT ![c] = @ + 1]
    /\ UNCHANGED <<breaker, up, outage>>

\* The last attempt found the server unreachable: StoreUnavailable.
Fail(c) ==
    /\ pc[c] = "calling"
    /\ c \in hit
    /\ attempt[c] = Attempts
    /\ breaker' = RecordFailure(breaker)
    /\ Return(c)

\* A 4xx at any attempt or a 429 at the last one: the server answered, and
\* the breaker hears of neither a failure nor a success.
Reject(c) ==
    /\ pc[c] = "calling"
    /\ breaker' = breaker
    /\ Return(c)

\* Cancellation is no Exception: nothing is recorded, in a call or a sleep.
Cancel(c) ==
    /\ pc[c] \in {"calling", "backoff"}
    /\ breaker' = breaker
    /\ Return(c)

Tick ==
    /\ breaker' = Aged(breaker)
    /\ UNCHANGED <<pc, attempt, up, hit, outage>>

\* The server goes away or comes back.
Toggle ==
    /\ up' = ~up
    /\ hit' = IF up THEN hit \cup {c \in Callers : pc[c] = "calling"} ELSE hit
    /\ outage' = TRUE
    /\ UNCHANGED <<breaker, pc, attempt>>

Next ==
    \/ \E c \in Callers :
         \/ Start(c) \/ Refuse(c) \/ Succeed(c) \/ Retry(c) \/ Resume(c)
         \/ Fail(c) \/ Reject(c) \/ Cancel(c)
    \/ Tick
    \/ Toggle

\* Only the clock is fair: no caller has to call, answer or return.
Spec == Init /\ [][Next]_vars /\ WF_vars(Tick)

-----------------------------------------------------------------------------
\* A call let through a tripped breaker comes a whole cooldown after the
\* previous one that was: late reports of older calls, cancellations and
\* abandoned probes never let two probes share a window (`is_open`).
ProbesApart ==
    [][\A c \in Callers :
         (pc[c] = "idle" /\ pc'[c] = "calling" /\ Tripped(breaker))
            => breaker.probeAgo = Reset]_vars

\* While a probe is out, the window it was let through by has not moved:
\* a gate still half-open has had its cooldown, so dropping an abandoned
\* probe always admits its replacement at once (`is_open`).
ProbeKeepsWindow ==
    breaker.halfOpen => Tripped(breaker) /\ breaker.openedAgo = Reset

\* The breaker trips over an unreachable server only: however many requests
\* a server turns down, the breaker stays closed if it never went away
\* (`_guard`, "only unreachability counts").
TripsOnOutageOnly == Tripped(breaker) => outage

\* What the record of a breaker is to a caller, and since when.
GateOf(b) ==
    IF ~Tripped(b) THEN "closed" ELSE IF b.halfOpen THEN "probing" ELSE "open"
SinceOf(b) ==
    IF ~Tripped(b) THEN Reset ELSE IF b.halfOpen THEN b.probeAgo ELSE b.openedAgo

Contract == INSTANCE Gate WITH
    gate <- GateOf(breaker), since <- SinceOf(breaker),
    inside <- {c \in Callers : pc[c] # "idle"}, away <- outage

\* Counts, stamps, late reports and retries add up to the gate that the
\* docstring of CircuitBreaker promises: opened by an outage only, one call
\* per cooldown, and the cooldown counted from the opening or the last probe.
ContractKept == Contract!Spec

=============================================================================
