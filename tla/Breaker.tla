------------------------------- MODULE Breaker -------------------------------
(***************************************************************************)
(* The circuit breaker of core/concurrency.py as operators on one record.  *)
(* Every store owns one and the multi-store fan-out owns one per store, so *)
(* the modules that use it hold the record in a variable of their own.     *)
(*                                                                         *)
(* The code stores time stamps and compares `now - stamp` with the         *)
(* cooldown; the record holds these two ages instead, both capped at       *)
(* Reset, because nothing asks more of an age than whether it has reached  *)
(* the cooldown.  The failure count is compared only with the threshold,   *)
(* so every count above it is the one value Threshold + 1.                 *)
(***************************************************************************)
EXTENDS Naturals

CONSTANTS Threshold,  \* failure_threshold
          Reset       \* reset_timeout_s, in ticks of the clock

ASSUME BreakerAssumption == Threshold \in Nat \ {0} /\ Reset \in Nat

BreakerState == [failures  : 0 .. Threshold + 1,
                 halfOpen  : BOOLEAN,
                 openedAgo : 0 .. Reset,
                 probeAgo  : 0 .. Reset]

\* The stamps start at 0.0 on a monotonic clock: longer ago than any cooldown.
NewBreaker == [failures |-> 0, halfOpen |-> FALSE,
               openedAgo |-> Reset, probeAgo |-> Reset]

Tripped(b) == b.failures >= Threshold

\* Mutation: a probe without a deadline of its own.
ProbeForever(b) == b.halfOpen

\* A probe was admitted and its own deadline has not passed.
ProbeLive(b) == b.halfOpen /\ b.probeAgo < Reset

\* Mutation: the cooldown check does not close the gate behind the probe.
AdmitsHerd(b) == Tripped(b) /\ b.openedAgo = Reset

\* `is_open` is read by a call that the breaker lets through as the probe.
AdmitsProbe(b) == Tripped(b) /\ ~ProbeLive(b) /\ b.openedAgo = Reset

\* What `not is_open` answers.
Admits(b) == ~Tripped(b) \/ AdmitsProbe(b)

\* What reading `is_open` leaves behind: the property writes as it reads.
AfterGate(b) ==
    [failures  |-> b.failures,
     halfOpen  |-> IF Tripped(b) THEN ProbeLive(b) \/ AdmitsProbe(b) ELSE b.halfOpen,
     openedAgo |-> b.openedAgo,
     probeAgo  |-> IF AdmitsProbe(b) THEN 0 ELSE b.probeAgo]

RecordSuccess(b) ==
    [failures |-> 0, halfOpen |-> FALSE,
     openedAgo |-> b.openedAgo, probeAgo |-> b.probeAgo]

Bump(n) == IF n > Threshold THEN n ELSE n + 1

\* Mutation: a failed probe does not restart the cooldown.
FailureKeepsStamp(b) ==
    LET trips == Bump(b.failures) = Threshold
    IN  [failures  |-> Bump(b.failures),
         halfOpen  |-> b.halfOpen /\ trips,
         openedAgo |-> IF trips THEN 0 ELSE b.openedAgo,
         probeAgo  |-> b.probeAgo]

\* The failure that reaches the threshold trips the breaker; a later one
\* restarts the cooldown only if it comes while the gate is half-open.
RecordFailure(b) ==
    LET trips   == Bump(b.failures) = Threshold
        reopens == ~trips /\ b.halfOpen
    IN  [failures  |-> Bump(b.failures),
         halfOpen  |-> b.halfOpen /\ ~reopens,
         openedAgo |-> IF trips \/ reopens THEN 0 ELSE b.openedAgo,
         probeAgo  |-> b.probeAgo]

\* One tick of the monotonic clock.
Older(age) == IF age < Reset THEN age + 1 ELSE age
Aged(b) == [failures |-> b.failures, halfOpen |-> b.halfOpen,
            openedAgo |-> Older(b.openedAgo), probeAgo |-> Older(b.probeAgo)]
=============================================================================
