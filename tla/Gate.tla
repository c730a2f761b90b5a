--------------------------------- MODULE Gate ---------------------------------
(***************************************************************************)
(* What the circuit breaker promises the callers of a store, without       *)
(* failure counts, time stamps or retries: it opens over an unreachable    *)
(* store only, and an open gate lets one call through per cooldown until   *)
(* one comes back.  StoreGuard implements it.                              *)
(***************************************************************************)
EXTENDS Naturals

CONSTANTS Callers,  \* concurrent callers of the store
          Reset     \* the cooldown, in ticks of the clock

VARIABLES gate,    \* "closed", "open", or "probing" while a probe is out
          since,   \* ticks since an open gate opened or let its probe through
          inside,  \* the callers that are at the store
          away     \* the store has been unreachable

vars == <<gate, since, inside, away>>

Init == gate = "closed" /\ since = Reset /\ inside = {} /\ away = FALSE

\* The store goes away; nobody has noticed yet.
Lose == away' = TRUE /\ UNCHANGED <<gate, since, inside>>

Enter(c) ==
    /\ c \notin inside
    /\ gate = "closed"
    /\ inside' = inside \cup {c}
    /\ UNCHANGED <<gate, since, away>>

\* A whole cooldown after the gate opened, or after a probe that has not
\* reported, the next call goes through.
Probe(c) ==
    /\ c \notin inside
    /\ gate # "closed"
    /\ since = Reset
    /\ gate' = "probing"
    /\ since' = 0
    /\ inside' = inside \cup {c}
    /\ UNCHANGED away

\* A caller comes back.  Its report closes the gate, opens it (the store has
\* been away), or changes nothing.
Return(c) ==
    /\ c \in inside
    /\ inside' = inside \ {c}
    /\ \/ gate' = "closed" /\ since' = Reset
       \/ gate # "open" /\ away /\ gate' = "open" /\ since' = 0
       \/ UNCHANGED <<gate, since>>
    /\ UNCHANGED away

Tick == since < Reset /\ since' = since + 1 /\ UNCHANGED <<gate, inside, away>>

Next == Lose \/ Tick \/ \E c \in Callers : Enter(c) \/ Probe(c) \/ Return(c)

Spec == Init /\ [][Next]_vars
=============================================================================
