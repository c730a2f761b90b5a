------------------------------ MODULE MCServices ------------------------------
(***************************************************************************)
(* What stands between the callers and the stores and providers, side by   *)
(* side: StoreGuard with three callers; Nested, two queries at a store     *)
(* whose retriever is a fan-out itself, and Flat, one query at a time at   *)
(* two whose retrievers are not; Rate, four model calls at a token bucket; *)
(* Limits, two callers of the keyed limiter; Http, a request to any route  *)
(* beside a question, by two callers of whom one is bound to a tenant,     *)
(* with tenant isolation on and off; and Open, a question beside a delete  *)
(* in a service without keys.  A behaviour is of one of them.              *)
(***************************************************************************)
EXTENDS StoreGuard, Sequences, FiniteSets

CONSTANTS
    NestedCallers, NestedStores, NestedConfigured, NestedDetailed, NestedHybrids,
    FlatCallers, FlatStores, FlatConfigured,
    FanLimit, FanReset,               \* Limit and Reset of both fan-outs
    ModelCalls, ModelNeed, ModelRequests, ModelTokens, ModelShare, ModelTime,
    Clients, PerMinute, Burst, Window, QuotaTime,
    HttpRequests, Docs, Owner, Keys, Bindings, Tenants, Isolations, Kinds

VARIABLES legBreaker, query, away, dark,
          reqs, toks, queue, granted, paceNow,
          hits, pruned, quotaNow, admitted, refused,
          phase, orchestrated, isolation, indexed, cached, deleted, staging, request,
          which    \* the part a behaviour is of

Nested == INSTANCE MultiStore WITH
    breaker <- legBreaker, Callers <- NestedCallers, Stores <- NestedStores,
    Configured <- NestedConfigured, Detailed <- NestedDetailed, Hybrids <- NestedHybrids,
    Limit <- FanLimit, Reset <- FanReset

Flat == INSTANCE MultiStore WITH
    breaker <- legBreaker, Callers <- FlatCallers, Stores <- FlatStores,
    Configured <- FlatConfigured, Detailed <- {}, Hybrids <- {},
    Limit <- FanLimit, Reset <- FanReset

Rate == INSTANCE Pace WITH
    now <- paceNow, Calls <- ModelCalls, Need <- ModelNeed, Requests <- ModelRequests,
    Tokens <- ModelTokens, Share <- ModelShare, MaxTime <- ModelTime

Limits == INSTANCE Quota WITH now <- quotaNow, Callers <- Clients, MaxTime <- QuotaTime

Http == INSTANCE Server WITH Requests <- HttpRequests

\* The parts are set up as their proofs suppose.
ASSUME Settings ==
    /\ FanReset \in Nat /\ Nested!WellConfigured /\ Flat!WellConfigured
    /\ Rate!WellConfigured /\ Limits!WellConfigured /\ Http!WellConfigured

Open == INSTANCE Server WITH
    Requests <- HttpRequests, Owner <- [d \in Docs |-> "none"],
    Keys <- {}, Bindings <- [k \in {} |-> "none"], Tenants <- {}, Isolations <- {FALSE},
    Kinds <- [r \in HttpRequests |-> IF r = "r1" THEN {"query"} ELSE {"delete"}]

-----------------------------------------------------------------------------
(* Values of the constants that a .cfg cannot write down.                  *)

\* A hybrid retriever with both of its vector legs, and one with all three.
AllLegs == [dense |-> TRUE, dense_ready |-> TRUE, sparse |-> TRUE, hybrid |-> TRUE,
            sparse_ready |-> TRUE, server_side |-> FALSE, fulltext |-> TRUE,
            postgres |-> TRUE]

ThreeHybrids == {AllLegs, [AllLegs EXCEPT !.server_side = TRUE, !.postgres = FALSE],
                 [AllLegs EXCEPT !.dense_ready = FALSE, !.hybrid = FALSE]}

OneOrTwo == [c \in ModelCalls |-> CASE c = "a" -> 1 [] c = "b" -> 2 [] OTHER -> 0]

OwnedByFirst == [d \in Docs |-> "t1"]
FirstIsBound == [k \in {"k1"} |-> "t1"]
AnyRouteAndQuery ==
    [r \in HttpRequests |->
        IF r = "r2" THEN {"query"}
        ELSE {"query", "stream", "upload", "ingest", "documents", "delete", "eval", "health"}]

-----------------------------------------------------------------------------
(* The composition.                                                        *)

fan == <<legBreaker, query, away, dark>>
rate == <<reqs, toks, queue, granted, paceNow>>
limits == <<hits, pruned, quotaNow, admitted, refused>>
http == <<phase, orchestrated, isolation, indexed, cached, deleted, staging, request>>
all == <<vars, fan, rate, limits, http, which>>

AllInit ==
    /\ which \in {"guard", "nested", "flat", "rate", "limits", "http"}
    /\ Init /\ (IF which = "flat" THEN Flat!Init ELSE Nested!Init) /\ Rate!Init /\ Limits!Init /\ Http!Init

AllNext ==
    /\ \/ which = "guard" /\ Next /\ UNCHANGED <<fan, rate, limits, http>>
       \/ which = "nested" /\ Nested!Next /\ UNCHANGED <<vars, rate, limits, http>>
       \/ which = "flat" /\ Flat!Next /\ UNCHANGED <<vars, rate, limits, http>>
       \/ which = "rate" /\ Rate!Next /\ UNCHANGED <<vars, fan, limits, http>>
       \/ which = "limits" /\ Limits!Next /\ UNCHANGED <<vars, fan, rate, http>>
       \/ which = "http" /\ Http!Next /\ UNCHANGED <<vars, fan, rate, limits>>
    /\ UNCHANGED which

\* The fairness of each part: the two clocks, and a deadline that has passed.
GuardTick == which = "guard" /\ Tick /\ UNCHANGED <<fan, rate, limits, http, which>>
FanTick ==
    /\ \/ which = "nested" /\ Nested!Tick
       \/ which = "flat" /\ Flat!Tick
    /\ UNCHANGED <<vars, rate, limits, http, which>>
HttpDeadline(r) ==
    which = "http" /\ Http!Deadline(r) /\ UNCHANGED <<vars, fan, rate, limits, which>>

AllSpec == /\ AllInit /\ [][AllNext]_all
           /\ WF_all(GuardTick) /\ WF_all(FanTick)
           /\ \A r \in HttpRequests : WF_all(HttpDeadline(r))

\* The open service.
OpenSpec ==
    /\ which = "open" /\ Init /\ Nested!Init /\ Rate!Init /\ Limits!Init /\ Open!Init
    /\ [][Open!Next /\ UNCHANGED <<vars, fan, rate, limits, which>>]_all

-----------------------------------------------------------------------------
(* What each part promises while it is the one that moves.                 *)

\* The type invariants of the five parts.
TypesOK == CASE which = "guard" -> TypeOK
             [] which = "nested" -> Nested!TypeOK
             [] which = "flat" -> Flat!TypeOK
             [] which = "rate" -> Rate!TypeOK
             [] which = "limits" -> Limits!TypeOK
             [] which = "http" -> Http!TypeOK

\* A query accounts for every store of its route, and no store of the fan-out
\* is cut off that has always answered: two things _plan and _guarded promise
\* together, an error and a breaker being the only ways to skip a store.
FanOutIsHonest ==
    /\ which = "nested" => Nested!StoresAccountedFor /\ Nested!SilenceTripsOnly
    /\ which = "flat" => Flat!StoresAccountedFor /\ Flat!SilenceTripsOnly

\* A cancelled or unreported probe keeps no store out of the fan-out for good.
StoresRejoin ==
    \A s \in NestedConfigured \cup FlatConfigured :
        []<>(s \in DOMAIN legBreaker => Nested!Admits(legBreaker[s]))

\* Neither limiter ever lets through more than its configured rate, in any
\* stretch of time: RateLimiter toward the provider, KeyedRateLimiter toward
\* each caller, who pays for no other.
RatesHold == /\ which = "rate" => Rate!NeverFaster
             /\ which = "limits" => Limits!QuotaKept

\* No bound caller of the service, and under isolation none at all, is given an
\* answer computed for another tenant; under isolation the answer is also built
\* from documents of its own tenant only.
KeptToTenant == which = "http" => Http!KeptToTenant

\* A request that ends leaves no upload behind, and is counted once.
EndsAreSettled == which = "http" => Http!EndsAreSettled

\* A request that its route let in ends, though no store ever answers.
EndsInTime == Http!EndsInTime

\* A delete leaves no cached answer built from what it deleted.
DeleteUncaches == Open!DeleteUncaches
=============================================================================
