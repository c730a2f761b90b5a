------------------------------- MODULE Quota -------------------------------
(***************************************************************************)
(* ragorc.security.ratelimit.KeyedRateLimiter: how often each credential,  *)
(* or address, may call the service.  check() has no await under its lock, *)
(* so that a check is one step.                                            *)
(***************************************************************************)
EXTENDS Naturals, Sequences, FiniteSets

CONSTANTS Callers,    \* keys of the limiter
          PerMinute,  \* per_minute, admissions in a window
          Burst,      \* burst, admissions in a second: a tick
          Window,     \* window_s, in ticks
          MaxTime     \* bound: ticks

\* The settings are counts, and the window is a time.
WellConfigured == {PerMinute, Burst, Window, MaxTime} \subseteq Nat

VARIABLES hits,       \* _hits: a window of admissions for some of the callers
          pruned,     \* _last_prune
          now,
          admitted,   \* every admission of each caller, in order
          refused     \* callers that check() has just refused

vars == <<hits, pruned, now, admitted, refused>>

Init ==
    /\ hits = [k \in {} |-> <<>>] /\ pruned = 0 /\ now = 0
    /\ admitted = [k \in Callers |-> <<>>] /\ refused = {}

\* Mutation: a window is dropped when its first admission is old.
StaleAtHead(w) == w = <<>> \/ w[1] + Window < now

\* A window with nothing in reach is dropped, so that callers do not pile up.
Stale(w) == w = <<>> \/ w[Len(w)] + Window < now

\* Admissions are taken off the head while they are too old to count.
Recent(w) ==
    LET first == CHOOSE n \in 1..Len(w) + 1 :
                    /\ \A i \in 1..n - 1 : w[i] + Window < now
                    /\ n <= Len(w) => w[n] + Window >= now
    IN SubSeq(w, first, Len(w))

Bursting(w) == Cardinality({i \in DOMAIN w : w[i] + 1 > now}) >= Burst

\* check: the window is trimmed, then it refuses or records the call, and once
\* a window long all the windows are looked through.
Check(k) ==
    LET known == DOMAIN hits \cup {k}
        old == [q \in known |-> IF q \in DOMAIN hits THEN hits[q] ELSE <<>>]
        trimmed == [old EXCEPT ![k] = Recent(old[k])]
        full == Bursting(trimmed[k]) \/ Len(trimmed[k]) >= PerMinute
        counted == [trimmed EXCEPT ![k] = Append(@, now)]
        due == now > pruned + Window
    IN /\ IF full
          THEN /\ hits' = trimmed /\ refused' = refused \cup {k}
               /\ UNCHANGED <<pruned, admitted>>
          ELSE /\ hits' = [q \in {p \in known : due => ~Stale(counted[p])} |-> counted[q]]
               /\ pruned' = IF due THEN now ELSE pruned
               /\ admitted' = [admitted EXCEPT ![k] = Append(@, now)]
               /\ UNCHANGED refused
       /\ UNCHANGED now

\* remaining: what is left of the window, and all of it for a caller unknown.
Remaining(k) ==
    LET used == IF k \in DOMAIN hits
                THEN Cardinality({i \in DOMAIN hits[k] : hits[k][i] + Window >= now})
                ELSE 0
    IN IF used < PerMinute THEN PerMinute - used ELSE 0

Tick ==
    /\ now < MaxTime
    /\ now' = now + 1
    /\ refused' = {}
    /\ UNCHANGED <<hits, pruned, admitted>>

Next == Tick \/ \E k \in Callers : Check(k)

Spec == Init /\ [][Next]_vars

TypeOK ==
    /\ DOMAIN hits \subseteq Callers /\ now \in 0..MaxTime /\ pruned \in 0..MaxTime
    /\ refused \subseteq Callers

\* The admissions of caller k from time t on, and up to time u.
Since(k, t) == Cardinality({i \in DOMAIN admitted[k] : t <= admitted[k][i]})
Between(k, t, u) ==
    Cardinality({i \in DOMAIN admitted[k] : t <= admitted[k][i] /\ admitted[k][i] <= u})

Cutoff == IF now > Window THEN now - Window ELSE 0

\* No caller is admitted more often than its window and its burst allow, in any
\* stretch of that length and whatever was pruned meanwhile; and a caller is
\* refused for its own admissions only, whatever the others did.
QuotaKept ==
    \A k \in Callers :
        /\ \A t \in 0..MaxTime : Between(k, t, t + Window) <= PerMinute
        /\ \A t \in 0..MaxTime : Between(k, t, t) <= Burst
        /\ k \in refused => Since(k, now) >= Burst \/ Since(k, Cutoff) >= PerMinute
        /\ Remaining(k) = PerMinute - Since(k, Cutoff)
=============================================================================
