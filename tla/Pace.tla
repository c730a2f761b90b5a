-------------------------------- MODULE Pace --------------------------------
(***************************************************************************)
(* ragorc.core.concurrency.RateLimiter: the token bucket every call to the *)
(* model provider takes from before it takes a permit.  The waiter at the  *)
(* head of the lock sleeps with the lock held, so the others wait in the   *)
(* order they came.                                                        *)
(*                                                                         *)
(* The bucket is filled in lazily, from the time since it was last looked  *)
(* at; filling it at every tick up to the same ceiling comes to the same.  *)
(***************************************************************************)
EXTENDS Naturals, SequencesExt

CONSTANTS Calls,
          Need,       \* [Calls -> Nat], tokens each call asks for
          Requests,   \* requests_per_minute, the ceiling of one bucket
          Tokens,     \* tokens_per_minute, the ceiling of the other
          Share,      \* ticks in a minute: what comes in at a tick is a share
          MaxTime     \* bound: ticks

\* The ceilings, and what a call asks for, are counts.
WellConfigured ==
    Need \in [Calls -> Nat] /\ {Requests, Tokens, Share, MaxTime} \subseteq Nat

VARIABLES reqs, toks,  \* allowances, in shares of a request and of a token
          queue,       \* calls at the lock, its holder first
          granted,     \* <<call, time>> of every grant
          now

vars == <<reqs, toks, queue, granted, now>>

Init ==
    /\ reqs = Requests * Share /\ toks = Tokens * Share
    /\ queue = <<>> /\ granted = {} /\ now = 0

Waiting == {queue[i] : i \in DOMAIN queue}
Granted == {g[1] : g \in granted}

\* min(ceiling, allowance + elapsed * ceiling / 60), for one tick.
Filled(allowance, ceiling) ==
    IF allowance + ceiling < ceiling * Share THEN allowance + ceiling ELSE ceiling * Share

\* acquire: the lock is free, or there is a queue for it.
Ask(c) ==
    /\ c \notin Waiting \cup Granted
    /\ queue' = Append(queue, c)
    /\ UNCHANGED <<reqs, toks, granted, now>>

\* The holder has what it needs of both buckets, takes it and lets go.
Take ==
    /\ queue # <<>>
    /\ LET c == Head(queue)
       IN /\ reqs >= Share /\ toks >= Need[c] * Share
          /\ reqs' = reqs - Share
          /\ toks' = toks - Need[c] * Share
          /\ granted' = granted \cup {<<c, now>>}
          /\ queue' = Tail(queue)
    /\ UNCHANGED now

\* A waiter is cancelled, or runs into the deadline of its request.
Abandon(c) ==
    /\ \E i \in DOMAIN queue :
         queue[i] = c /\ queue' = RemoveAt(queue, i)
    /\ UNCHANGED <<reqs, toks, granted, now>>

Tick ==
    /\ now < MaxTime
    /\ now' = now + 1
    /\ reqs' = Filled(reqs, Requests)
    /\ toks' = Filled(toks, Tokens)
    /\ UNCHANGED <<queue, granted>>

Next == Take \/ Tick \/ \E c \in Calls : Ask(c) \/ Abandon(c)

Spec == Init /\ [][Next]_vars

TypeOK ==
    /\ reqs \in 0..Requests * Share /\ toks \in 0..Tokens * Share
    /\ Waiting \subseteq Calls /\ Granted \subseteq Calls /\ now \in 0..MaxTime

\* What was granted from time s to time t, and the tokens some grants add up to.
Between(s, t) == {g \in granted : s <= g[2] /\ g[2] <= t}
Asked(grants) == MapThenSumSet(LAMBDA g : Need[g[1]], grants)

\* In any stretch of time, the provider is sent no more requests, and no more
\* tokens, than a full bucket and what came in meanwhile: a quiet hour does not
\* save up for a burst, whatever waits, is cancelled and comes again.
NeverFaster ==
    \A s, t \in 0..MaxTime : s <= t =>
        /\ Cardinality(Between(s, t)) * Share <= Requests * (Share + t - s)
        /\ Asked(Between(s, t)) * Share <= Tokens * (Share + t - s)
=============================================================================
