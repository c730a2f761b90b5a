------------------------------- MODULE LLMClient -------------------------------
(***************************************************************************)
(* The model calls of one request: OpenRouterLLM.complete, structured and  *)
(* stream, fanned out under one CostLedger (core/telemetry.py) and the     *)
(* client's two semaphores.                                                *)
(*                                                                         *)
(* An action is the code one call runs between two awaits, so the check of *)
(* the ceiling and the claim on it are one step, and so are the end of a   *)
(* round trip and the record of its usage.  The ledger's three ceilings    *)
(* are checked and claimed by the same lines; the ceiling on calls stands  *)
(* for them.                                                               *)
(***************************************************************************)
EXTENDS Naturals, FiniteSets

CONSTANTS Calls,           \* the calls the request fans out
          Kinds,           \* the methods they go through
          MaxCalls,        \* CostLedger.max_calls
          MaxConcurrency,  \* permits of _semaphore
          MaxStreams,      \* permits of _stream_semaphore
          MaxRetries,      \* llm.max_retries
          Rounds           \* max_repairs + 2

AllKinds == {"complete", "structured", "stream"}

ASSUME LLMAssumption ==
    /\ IsFiniteSet(Calls)
    /\ Kinds \subseteq AllKinds
    /\ MaxCalls \in Nat
    /\ MaxConcurrency \in Nat \ {0}
    /\ MaxStreams \in Nat \ {0}
    /\ MaxRetries \in Nat \ {0}
    /\ Rounds \in Nat \ {0}

VARIABLES pc,          \* [Calls -> where the call is]
          kind,        \* [Calls -> the method it went through]
          tries,       \* [Calls -> attempts of the current post]
          round,       \* [Calls -> posts of a structured call]
          spent,       \* [Calls -> answers in a structured call's own `total`]
          strict,      \* [Calls -> the call asks for json_schema]
          noStrict,    \* the model is in _no_strict
          recorded,    \* ledger.total.calls that were not cached
          cached,      \* ledger.total.calls that were
          reserved,    \* ledger._reserved_calls
          free,        \* free permits of _semaphore
          streamFree,  \* free permits of _stream_semaphore
          answered     \* ghost: requests the provider has served

callVars == <<pc, kind, tries, round, spent, strict>>
ledger == <<recorded, cached, reserved>>
vars == <<callVars, noStrict, ledger, free, streamFree, answered>>

PCs == {"idle", "lookup", "queued", "sent", "backoff",
        "streamQueued", "streaming", "done"}

TypeOK ==
    /\ pc \in [Calls -> PCs]
    /\ kind \in [Calls -> AllKinds]
    /\ tries \in [Calls -> 0 .. MaxRetries]
    /\ round \in [Calls -> 0 .. Rounds]
    /\ spent \in [Calls -> 0 .. Rounds]
    /\ strict \in [Calls -> BOOLEAN]
    /\ noStrict \in BOOLEAN
    /\ recorded \in Nat /\ cached \in Nat /\ reserved \in Nat
    /\ free \in 0 .. MaxConcurrency
    /\ streamFree \in 0 .. MaxStreams
    /\ answered \in Nat

Init ==
    /\ pc = [c \in Calls |-> "idle"]
    /\ kind \in [Calls -> Kinds]
    /\ tries = [c \in Calls |-> 0]
    /\ round = [c \in Calls |-> 0]
    /\ spent = [c \in Calls |-> 0]
    /\ strict = [c \in Calls |-> FALSE]
    /\ noStrict = FALSE
    /\ recorded = 0 /\ cached = 0 /\ reserved = 0
    /\ free = MaxConcurrency
    /\ streamFree = MaxStreams
    /\ answered = 0

\* What `check` compares with the ceiling.
Committed == recorded + cached + reserved
Exhausted == Committed >= MaxCalls

Goto(c, where) == pc' = [pc EXCEPT ![c] = where]

-----------------------------------------------------------------------------
\* `_precheck`, then the cache lookup or the stream's queue.
Begin(c) ==
    /\ pc[c] = "idle"
    /\ Goto(c, IF Exhausted THEN "done"
               ELSE IF kind[c] = "stream" THEN "streamQueued" ELSE "lookup")
    /\ UNCHANGED <<kind, tries, round, spent, strict, noStrict, ledger,
                   free, streamFree, answered>>

CacheHit(c) ==
    /\ pc[c] = "lookup"
    /\ Goto(c, "done")
    /\ cached' = cached + 1
    /\ UNCHANGED <<kind, tries, round, spent, strict, noStrict, recorded,
                   reserved, free, streamFree, answered>>

\* Mutation: the check reads what is recorded and not what is claimed.
PostUnclaimed(c, others) ==
    IF recorded + cached >= MaxCalls
    THEN /\ Goto(c, "done")
         /\ reserved' = others
         /\ UNCHANGED <<tries, round>>
    ELSE /\ Goto(c, "queued")
         /\ reserved' = others + 1
         /\ tries' = [tries EXCEPT ![c] = 0]
         /\ round' = [round EXCEPT ![c] = @ + 1]

\* `reserve` checks and claims at once; BudgetExceeded ends the call, and it
\* is no LLMError, so a structured call loses what it has spent.  The first
\* argument is what the ledger still holds for other calls.
Post(c, others) ==
    IF recorded + cached + others >= MaxCalls
    THEN /\ Goto(c, "done")
         /\ reserved' = others
         /\ UNCHANGED <<tries, round>>
    ELSE /\ Goto(c, "queued")
         /\ reserved' = others + 1
         /\ tries' = [tries EXCEPT ![c] = 0]
         /\ round' = [round EXCEPT ![c] = @ + 1]

CacheMiss(c) ==
    /\ pc[c] = "lookup"
    /\ Post(c, reserved)
    /\ strict' = [strict EXCEPT ![c] = kind[c] = "structured" /\ ~noStrict]
    /\ UNCHANGED <<kind, spent, noStrict, recorded, cached, free, streamFree,
                   answered>>

\* Mutation: one pool of permits for streams and every other call.
SendShared(c) ==
    /\ pc[c] = "queued"
    /\ free > 0 /\ free + streamFree > MaxStreams
    /\ Goto(c, "sent")
    /\ free' = free - 1
    /\ tries' = [tries EXCEPT ![c] = @ + 1]
    /\ UNCHANGED <<kind, round, spent, strict, noStrict, ledger, streamFree,
                   answered>>

\* `_post_once` gets its permit and sends.
Send(c) ==
    /\ pc[c] = "queued"
    /\ free > 0
    /\ Goto(c, "sent")
    /\ free' = free - 1
    /\ tries' = [tries EXCEPT ![c] = @ + 1]
    /\ UNCHANGED <<kind, round, spent, strict, noStrict, ledger, streamFree,
                   answered>>

\* Mutation: a post that ran out of attempts keeps its reservation.
TransientLeaks(c) ==
    /\ pc[c] = "sent"
    /\ free' = free + 1
    /\ Goto(c, IF tries[c] < MaxRetries THEN "backoff" ELSE "done")
    /\ UNCHANGED <<kind, tries, round, spent, strict, noStrict, ledger,
                   streamFree, answered>>

\* A status worth retrying: the permit goes back and the reservation stays,
\* until the attempts run out and TransientError leaves the method.
Transient(c) ==
    /\ pc[c] = "sent"
    /\ free' = free + 1
    /\ IF tries[c] < MaxRetries
       THEN Goto(c, "backoff") /\ UNCHANGED reserved
       ELSE Goto(c, "done") /\ reserved' = reserved - 1
    /\ UNCHANGED <<kind, tries, round, spent, strict, noStrict, recorded,
                   cached, streamFree, answered>>

Wake(c) ==
    /\ pc[c] = "backoff"
    /\ Goto(c, "queued")
    /\ UNCHANGED <<kind, tries, round, spent, strict, noStrict, ledger, free,
                   streamFree, answered>>

\* A complete() is answered: the reservation becomes a record.
Complete(c) ==
    /\ pc[c] = "sent" /\ kind[c] = "complete"
    /\ Goto(c, "done")
    /\ free' = free + 1
    /\ reserved' = reserved - 1
    /\ recorded' = recorded + 1
    /\ answered' = answered + 1
    /\ UNCHANGED <<kind, tries, round, spent, strict, noStrict, cached,
                   streamFree>>

\* A structured() gets an answer that validates and records all its posts.
Validated(c) ==
    /\ pc[c] = "sent" /\ kind[c] = "structured"
    /\ Goto(c, "done")
    /\ free' = free + 1
    /\ reserved' = reserved - 1
    /\ spent' = [spent EXCEPT ![c] = @ + 1]
    /\ recorded' = recorded + spent[c] + 1
    /\ answered' = answered + 1
    /\ UNCHANGED <<kind, tries, round, strict, noStrict, cached, streamFree>>

\* Mutation: the loop runs one repair too many.
InvalidOnceMore(c) ==
    /\ pc[c] = "sent" /\ kind[c] = "structured"
    /\ free' = free + 1
    /\ spent' = [spent EXCEPT ![c] = @ + 1]
    /\ answered' = answered + 1
    /\ \/ /\ round[c] <= Rounds
          /\ Post(c, reserved - 1)
          /\ UNCHANGED recorded
       \/ /\ round[c] > Rounds
          /\ Goto(c, "done")
          /\ reserved' = reserved - 1
          /\ recorded' = recorded + spent[c] + 1
          /\ UNCHANGED <<tries, round>>
    /\ UNCHANGED <<kind, strict, noStrict, cached, streamFree>>

\* It gets one that does not: ask again, with no await before the next
\* reserve, or record and give up after the last round.
Invalid(c) ==
    /\ pc[c] = "sent" /\ kind[c] = "structured"
    /\ free' = free + 1
    /\ spent' = [spent EXCEPT ![c] = @ + 1]
    /\ answered' = answered + 1
    /\ \/ /\ round[c] < Rounds
          /\ Post(c, reserved - 1)
          /\ UNCHANGED recorded
       \/ /\ round[c] = Rounds
          /\ Goto(c, "done")
          /\ reserved' = reserved - 1
          /\ recorded' = recorded + spent[c] + 1
          /\ UNCHANGED <<tries, round>>
    /\ UNCHANGED <<kind, strict, noStrict, cached, streamFree>>

\* The provider rejects json_schema: remember, and use a round to ask for
\* json_object instead.  With no round left the loop ends as if it had asked.
Unsupported(c) ==
    /\ pc[c] = "sent" /\ strict[c]
    /\ free' = free + 1
    /\ noStrict' = TRUE
    /\ strict' = [strict EXCEPT ![c] = FALSE]
    /\ \/ /\ round[c] < Rounds
          /\ Post(c, reserved - 1)
          /\ UNCHANGED recorded
       \/ /\ round[c] = Rounds
          /\ Goto(c, "done")
          /\ reserved' = reserved - 1
          /\ recorded' = recorded + spent[c]
          /\ UNCHANGED <<tries, round>>
    /\ UNCHANGED <<kind, spent, cached, streamFree, answered>>

\* Any other LLMError of a post ends the call; so does an answer without
\* choices, which the provider has served all the same.
Rejected(c) ==
    /\ pc[c] = "sent"
    /\ Goto(c, "done")
    /\ free' = free + 1
    /\ reserved' = reserved - 1
    /\ answered' \in {answered, answered + 1}
    /\ UNCHANGED <<kind, tries, round, spent, strict, noStrict, recorded,
                   cached, streamFree>>

-----------------------------------------------------------------------------
\* stream() neither reserves nor retries; it has permits of its own.
StreamOpen(c) ==
    /\ pc[c] = "streamQueued"
    /\ streamFree > 0
    /\ Goto(c, "streaming")
    /\ streamFree' = streamFree - 1
    /\ UNCHANGED <<kind, tries, round, spent, strict, noStrict, ledger, free,
                   answered>>

\* The request is refused; or it is served, and the usage event ends it, or a
\* consumer that stops reading or a broken transport ends it before that.
StreamEnd(c) ==
    /\ pc[c] = "streaming"
    /\ Goto(c, "done")
    /\ streamFree' = streamFree + 1
    /\ \/ UNCHANGED <<answered, recorded>>
       \/ answered' = answered + 1 /\ recorded' \in {recorded, recorded + 1}
    /\ UNCHANGED <<kind, tries, round, spent, strict, noStrict, cached,
                   reserved, free>>

\* The caller cancels: every `with` block is left.
Cancel(c) ==
    /\ pc[c] \in {"lookup", "queued", "sent", "backoff", "streamQueued"}
    /\ Goto(c, "done")
    /\ free' = IF pc[c] = "sent" THEN free + 1 ELSE free
    /\ reserved' = IF pc[c] \in {"queued", "sent", "backoff"}
                   THEN reserved - 1 ELSE reserved
    /\ UNCHANGED <<kind, tries, round, spent, strict, noStrict, recorded,
                   cached, streamFree, answered>>

Answer(c) == Complete(c) \/ Validated(c) \/ Invalid(c) \/ Unsupported(c)
             \/ Rejected(c) \/ Transient(c)

Own(c) == Begin(c) \/ CacheHit(c) \/ CacheMiss(c) \/ Send(c) \/ Wake(c)
          \/ Answer(c)

Step(c) == Own(c) \/ StreamOpen(c) \/ StreamEnd(c) \/ Cancel(c)

Next == \E c \in Calls : Step(c)

\* The event loop runs every ready call, sleeps end, and the client's timeout
\* answers for a provider that does not.  Nobody has to read a stream.
Spec == Init /\ [][Next]_vars /\ \A c \in Calls : WF_vars(Own(c))

-----------------------------------------------------------------------------
PostPCs == {"queued", "sent", "backoff"}
InPost == {c \in Calls : pc[c] \in PostPCs}
Sent == {c \in Calls : pc[c] = "sent"}
Streaming == {c \in Calls : pc[c] = "streaming"}

\* Every reservation belongs to a call inside `_post`, and every permit that
\* is not free to one inside its `async with`: no success, retry, repair,
\* error or cancellation keeps budget or a permit (CostLedger.reserve).
NothingLeaks ==
    /\ reserved = Cardinality(InPost)
    /\ free + Cardinality(Sent) = MaxConcurrency
    /\ streamFree + Cardinality(Streaming) = MaxStreams

\* A fan-out of completions never has more calls paid for and in flight than
\* the ceiling allows, whatever the interleaving (CostLedger.reserve).
CompletionsWithinCeiling ==
    (\A c \in Calls : kind[c] = "complete") => recorded + reserved <= MaxCalls

\* The ceiling as documented: requests the provider served, through any
\* method, and requests still in flight stay within it.
ServedWithinCeiling ==
    answered + Cardinality(InPost \cup Streaming) <= MaxCalls

\* Every structured answer the provider served is in the ledger when the
\* calls are over.
AnswersAccounted ==
    (\A c \in Calls : pc[c] = "done") => recorded = answered

\* A completion or structured call that began comes to an end, even when the
\* readers of every open stream have stopped reading (`_stream_semaphore`).
CallsEnd == \A c \in Calls : kind[c] # "stream" => <>(pc[c] = "done")
=============================================================================
