---------------------------- MODULE ServerProofs ----------------------------
(***************************************************************************)
(* Proofs about Server: types; that no credential is given the answer of   *)
(* another tenant nor, under isolation, one from another's documents, out  *)
(* of an engine or out of the cache both of its sides write; and that a    *)
(* request, however it ends, leaves no upload behind and is counted once.  *)
(* For any requests, documents, keys, tenants and bindings, in settings    *)
(* the code accepts (WellConfigured).                                      *)
(***************************************************************************)
EXTENDS Server, TLAPS

-----------------------------------------------------------------------------
(* The inductive invariant.                                                *)

Places == {"idle", "body", "guard", "stage", "copy", "cases", "tenant", "lookup", "engine",
           "linear", "caching", "deltas", "ingest", "documents", "delete", "ended"}
Metrics == {"cached", "answered", "abstained", "failed", "timeout", "streamed", "cancelled"}
Names == Tenants \cup {None}

Principals == Keys \cup {None}
Given == [from : Names \cup {"nobody"}, built : SUBSET Docs,
          verdict : {None, "whole", "degraded", "abstained"}]
Tallies == Seq(Metrics)

CallStates ==
    [pc : Places, kind : Routes, asks : Names, pipeline : Pipelines,
     principal : Principals, entered : BOOLEAN, tenant : Names,
     answer : Given, status : Nat, outcomes : Tallies]

\* Which requests can be where, and that none is counted on the way.
Placed(p) ==
    /\ p.pc \in {"idle", "body", "guard"} => ~p.entered
    /\ p.pc \notin {"idle", "body", "guard", "ended"} => p.entered
    /\ p.pc = "stage" => p.kind \in {"upload", "ingest"}
    /\ p.pc = "copy" => p.kind = "upload"
    /\ p.pc = "cases" => p.kind = "eval"
    /\ p.pc = "tenant" =>
         p.kind \in {"query", "stream", "upload", "ingest", "documents", "delete"}
    /\ p.pc \in {"lookup", "engine", "linear", "caching"} => p.kind = "query"
    /\ p.pc = "deltas" => p.kind = "stream"
    /\ p.pc = "ingest" => p.kind \in {"upload", "ingest"}
    /\ p.pc \in {"documents", "delete"} => p.kind = p.pc
    /\ p.pc # "ended" => p.kind # "health" /\ p.outcomes = <<>>

\* An upload has its directory from its first part to its end.
Staged(r, p, dirs) ==
    /\ p.kind = "upload" /\ p.pc \in {"copy", "tenant", "ingest"} => r \in dirs
    /\ p.pc = "ended" => r \notin dirs

\* What ended is counted as EndsAreSettled has it.
Settled(p) ==
    p.pc = "ended" =>
      /\ p.kind = "query" => Len(p.outcomes) = IF p.entered /\ p.status # 0 THEN 1 ELSE 0
      /\ p.kind = "stream" => Len(p.outcomes) = IF p.status = 200 THEN 1 ELSE 0

\* The tenant of p is the one resolve_tenant allows its credential.
Resolved(p, isolated) ==
    /\ p.principal \in DOMAIN Bindings => p.tenant = Bindings[p.principal]
    /\ isolated => p.tenant # None

\* An answer is of the tenant of its request.
Rightful(p, isolated) ==
    p.answer.from # "nobody" =>
      Resolved(p, isolated) /\ (p.tenant # None => p.answer.from = p.tenant)

\* A question runs under the tenant of its credential, and its answer is of that
\* tenant and, under isolation, built from its documents.
Scoped(p, isolated) ==
    /\ p.pc \in {"lookup", "engine", "linear", "caching"} => Resolved(p, isolated)
    /\ p.pc \notin {"caching", "ended"} => p.answer.from = "nobody" /\ p.answer.built = {}
    /\ Rightful(p, isolated)
    /\ isolated => OwnDocs(p.answer.built, p.tenant)

CallInv(r, p, dirs, isolated) ==
    /\ p \in CallStates /\ p.kind \in Kinds[r] \cup {"query"}
    /\ Placed(p) /\ Staged(r, p, dirs) /\ Settled(p) /\ Scoped(p, isolated)

ServiceInv ==
    /\ phase \in {"building", "ready", "failed", "closed"}
    /\ orchestrated \in BOOLEAN /\ isolation \in BOOLEAN

WorldInv ==
    /\ indexed \subseteq Docs /\ deleted \subseteq Docs /\ cached \subseteq EntryType
    /\ isolation => \A e \in cached : OwnDocs(e.built, e.tenant)

Inv ==
    /\ ServiceInv /\ WorldInv
    /\ staging \subseteq Requests
    /\ request \in [Requests -> CallStates]
    /\ \A r \in Requests : CallInv(r, request[r], staging, isolation)

\* Only request r moved, to q, and its directory at most came or went.
Becomes(r, q) ==
    /\ request' = [request EXCEPT ![r] = q]
    /\ staging' \subseteq staging \cup {r} /\ staging \subseteq staging' \cup {r}

\* The settings do not change while the service runs.
ServiceKept == ServiceInv' /\ isolation' = isolation

\* A step of one request keeps what holds of the others.
LEMMA OneMoves ==
  ASSUME Inv, ServiceKept, WorldInv', NEW r \in Requests, NEW q,
         Becomes(r, q), CallInv(r, q, staging', isolation)
  PROVE  Inv'
  <1>1. q \in CallStates
    BY DEF CallInv
  <1>2. staging' \subseteq Requests /\ request' \in [Requests -> CallStates]
    BY <1>1 DEF Inv, Becomes
  <1>3. ASSUME NEW x \in Requests
        PROVE  CallInv(x, request'[x], staging', isolation')
    <2>1. isolation' = isolation
      BY DEF ServiceKept
    <2>2. CASE x = r
      BY <2>1, <2>2 DEF Inv, Becomes
    <2>3. CASE x # r
      <3>1. request'[x] = request[x] /\ (x \in staging' <=> x \in staging)
        BY <2>3 DEF Inv, Becomes
      <3>2. CallInv(x, request[x], staging, isolation)
        BY DEF Inv
      <3> QED
        BY <2>1, <3>1, <3>2 DEF CallInv, Staged
    <2> QED
      BY <2>2, <2>3
  <1> QED
    BY <1>2, <1>3 DEF Inv, ServiceKept

-----------------------------------------------------------------------------
(* How a request ends.                                                     *)

\* The metrics count what EndsAreSettled says of a request that ends.
Accounted(p, status, outcome) ==
    /\ p.kind = "query" => (outcome # None <=> (p.entered /\ status # 0))
    /\ p.kind = "stream" => (outcome # None <=> status = 200)

\* The outcomes counted of a request that had none.
Outcomes(p, outcome) ==
    IF p.kind \in Counted /\ outcome # None THEN Append(<<>>, outcome) ELSE <<>>

\* What is known of a request when it ends.
Known(p, status) == IF status = 200 /\ p.answer.from # "nobody" THEN p ELSE Idle

\* The state End leaves a request in.
EndOf(p, status, outcome) ==
    [pc |-> "ended", kind |-> p.kind, asks |-> None, pipeline |-> AutoPipeline,
     principal |-> Known(p, status).principal, entered |-> p.entered,
     tenant |-> Known(p, status).tenant,
     answer |-> [from |-> Known(p, status).answer.from, built |-> {}, verdict |-> None],
     status |-> status, outcomes |-> Outcomes(p, outcome)]

\* At most one outcome is counted.
LEMMA OutcomesCounted ==
  ASSUME NEW p, NEW outcome \in Metrics \cup {None}
  PROVE  /\ Outcomes(p, outcome) \in Tallies
         /\ Len(Outcomes(p, outcome)) = IF p.kind \in Counted /\ outcome # None THEN 1 ELSE 0
  <1>1. CASE p.kind \in Counted /\ outcome # None
    <2>1. outcome \in Metrics
      BY <1>1
    <2>2. Append(<<>>, outcome) \in Tallies /\ Len(Append(<<>>, outcome)) = 1
      BY <2>1 DEF Tallies
    <2> QED
      BY <1>1, <2>2 DEF Outcomes
  <1>2. CASE ~(p.kind \in Counted /\ outcome # None)
    <2>1. <<>> \in Tallies /\ Len(<<>>) = 0
      BY DEF Tallies
    <2> QED
      BY <1>2, <2>1 DEF Outcomes
  <1> QED
    BY <1>1, <1>2

\* A request is known as it was, or not at all.
LEMMA KnownTyped ==
  ASSUME NEW p \in CallStates, NEW status
  PROVE  LET known == Known(p, status)
         IN /\ known.principal \in Principals /\ known.tenant \in Names
            /\ known.answer.from \in Names \cup {"nobody"}
  <1>1. CASE Known(p, status) = p
    <2>1. p.answer \in Given
      BY DEF CallStates
    <2> QED
      BY <1>1, <2>1 DEF CallStates, Given
  <1>2. CASE Known(p, status) = Idle
    BY <1>2 DEF Idle, Principals, Names
  <1> QED
    BY <1>1, <1>2 DEF Known

\* EndOf is a state of a request,
LEMMA EndTyped ==
  ASSUME NEW p \in CallStates, NEW status \in Nat, NEW outcome \in Metrics \cup {None}
  PROVE  EndOf(p, status, outcome) \in CallStates
  <1> DEFINE known == Known(p, status)
  <1>1. Outcomes(p, outcome) \in Tallies
    BY OutcomesCounted
  <1>2. /\ known.principal \in Principals /\ known.tenant \in Names
        /\ known.answer.from \in Names \cup {"nobody"}
    BY KnownTyped
  <1> HIDE DEF known
  <1>3. [from |-> known.answer.from, built |-> {}, verdict |-> None] \in Given
    BY <1>2 DEF Given
  <1>4. "ended" \in Places /\ None \in Names /\ AutoPipeline \in Pipelines
    BY DEF Places, Names, Pipelines
  <1> QED
    BY <1>1, <1>2, <1>3, <1>4 DEF EndOf, CallStates, known

\* and the one that End moves a request to that nothing was counted of.
LEMMA EndMoves ==
  ASSUME NEW r \in Requests, NEW p \in CallStates, p.outcomes = <<>>,
         NEW status \in Nat, NEW outcome \in Metrics \cup {None}, End(r, p, status, outcome)
  PROVE  request' = [request EXCEPT ![r] = EndOf(p, status, outcome)]
  BY DEF End, EndOf, Outcomes, Known

\* Whoever ends accounted for has ended well.
LEMMA EndKeeps ==
  ASSUME Inv, ServiceKept, WorldInv',
         NEW r \in Requests, NEW p \in CallStates, p.kind \in Kinds[r] \cup {"query"},
         p.outcomes = <<>>, Rightful(p, isolation),
         NEW status \in Nat, NEW outcome \in Metrics \cup {None},
         Accounted(p, status, outcome), End(r, p, status, outcome)
  PROVE  Inv'
  <1> DEFINE q == EndOf(p, status, outcome)
  <1>1. Becomes(r, q) /\ r \notin staging'
    <2>1. request' = [request EXCEPT ![r] = q]
      BY EndMoves
    <2>2. staging' = staging \ {r}
      BY DEF End, Unstaged
    <2> QED
      BY <2>1, <2>2 DEF Becomes
  <1>2. /\ q.pc = "ended" /\ q.kind = p.kind /\ q.entered = p.entered
        /\ q.principal = Known(p, status).principal /\ q.tenant = Known(p, status).tenant
        /\ q.answer.from = Known(p, status).answer.from /\ q.answer.built = {}
        /\ q.status = status /\ q.outcomes = Outcomes(p, outcome)
    BY DEF EndOf
  <1>3. q \in CallStates
    BY EndTyped
  <1>4. Len(q.outcomes) = IF p.kind \in Counted /\ outcome # None THEN 1 ELSE 0
    BY <1>2, OutcomesCounted
  <1> HIDE DEF q
  <1>5. Placed(q) /\ Staged(r, q, staging')
    BY <1>1, <1>2 DEF Placed, Staged
  <1>6. Settled(q)
    <2>1. p.kind = "query" => Len(q.outcomes) = IF p.entered /\ status # 0 THEN 1 ELSE 0
      BY <1>4 DEF Accounted, Counted
    <2>2. p.kind = "stream" => Len(q.outcomes) = IF status = 200 THEN 1 ELSE 0
      BY <1>4 DEF Accounted, Counted
    <2> QED
      BY <1>2, <2>1, <2>2 DEF Settled
  <1>7. Scoped(q, isolation)
    <2>1. CASE Known(p, status) = p
      BY <1>2, <2>1 DEF Scoped, Rightful, Resolved, OwnDocs
    <2>2. CASE Known(p, status) = Idle
      BY <1>2, <2>2 DEF Scoped, Rightful, OwnDocs, Idle
    <2> QED
      BY <2>1, <2>2 DEF Known
  <1> QED
    BY <1>1, <1>2, <1>3, <1>5, <1>6, <1>7, OneMoves DEF CallInv

\* A step of a request that does not end it.
LEMMA MoveKeeps ==
  ASSUME Inv, ServiceKept, WorldInv', NEW r \in Requests, NEW q \in CallStates,
         q.kind \in Kinds[r] \cup {"query"}, q.pc # "ended",
         Placed(q), Staged(r, q, staging), Scoped(q, isolation), Move(r, q)
  PROVE  Inv'
  <1>1. Becomes(r, q) /\ staging' = staging
    BY DEF Move, Becomes
  <1>2. CallInv(r, q, staging', isolation)
    BY <1>1 DEF CallInv, Settled
  <1> QED
    BY <1>1, <1>2, OneMoves

\* A step that leaves the service and the stores alone.
LEMMA Elsewhere ==
  ASSUME Inv, UNCHANGED <<service, world>>
  PROVE  ServiceKept /\ WorldInv'
  BY DEF Inv, ServiceInv, ServiceKept, WorldInv, service, world

\* What holds of a request.
LEMMA Holds ==
  ASSUME Inv, NEW r \in Requests
  PROVE  CallInv(r, request[r], staging, isolation)
  BY DEF Inv

\* A request at another place.
LEMMA AtPlace ==
  ASSUME NEW p \in CallStates, NEW pc \in Places
  PROVE  LET q == [p EXCEPT !.pc = pc]
         IN /\ q \in CallStates /\ q.pc = pc
            /\ q.kind = p.kind /\ q.entered = p.entered /\ q.principal = p.principal
            /\ q.tenant = p.tenant /\ q.answer = p.answer /\ q.outcomes = p.outcomes
  BY DEF CallStates

\* A request goes on to a place of its kind.
LEMMA GotoKeeps ==
  ASSUME Inv, NEW r \in Requests, NEW pc \in Places \ {"idle", "body", "ended", "caching"},
         Goto(r, pc), UNCHANGED <<service, world>>,
         request[r].pc \notin {"idle", "caching", "ended"},
         pc = "guard" <=> ~request[r].entered,
         pc = "stage" => request[r].kind \in {"upload", "ingest"},
         pc = "copy" => request[r].kind = "upload",
         pc = "cases" => request[r].kind = "eval",
         pc = "tenant" => request[r].kind \in
                            {"query", "stream", "upload", "ingest", "documents", "delete"},
         pc \in {"lookup", "engine", "linear"} =>
           request[r].kind = "query" /\ Resolved(request[r], isolation),
         pc \notin {"deltas", "ingest", "documents", "delete"},
         pc \in {"copy", "tenant"} /\ request[r].kind = "upload" => r \in staging
  PROVE  Inv'
  <1> DEFINE p == request[r]
             q == [p EXCEPT !.pc = pc]
  <1>1. CallInv(r, p, staging, isolation)
    BY Holds
  <1>2. Move(r, q)
    BY DEF Goto
  <1>3. p \in CallStates
    BY <1>1 DEF CallInv
  <1>4. /\ q \in CallStates /\ q.pc = pc
        /\ q.kind = p.kind /\ q.entered = p.entered /\ q.principal = p.principal
        /\ q.tenant = p.tenant /\ q.answer = p.answer /\ q.outcomes = p.outcomes
    BY <1>3, AtPlace
  <1> HIDE DEF q
  <1>5. Placed(q)
    BY <1>1, <1>4 DEF CallInv, Placed
  <1>6. Staged(r, q, staging)
    BY <1>4 DEF Staged
  <1>7. Scoped(q, isolation)
    BY <1>1, <1>4 DEF CallInv, Scoped, Rightful, Resolved, OwnDocs
  <1> QED
    BY <1>1, <1>2, <1>4, <1>5, <1>6, <1>7, MoveKeeps, Elsewhere DEF CallInv

-----------------------------------------------------------------------------
(* The gates.                                                              *)

\* The first state of a request, and what it may become.
LEMMA IdleTyped ==
  /\ Idle \in CallStates /\ Idle.pc = "idle" /\ Idle.kind = "query"
  /\ Idle.answer.from = "nobody" /\ Idle.answer.built = {}
  /\ Idle.entered \in BOOLEAN /\ ~Idle.entered /\ Idle.outcomes = <<>>
  <1>1. Idle.answer \in Given
    BY DEF Idle, Given
  <1>2. /\ "idle" \in Places /\ "query" \in Routes /\ None \in Names
        /\ AutoPipeline \in Pipelines /\ None \in Principals /\ <<>> \in Tallies
    BY DEF Places, Routes, Names, Pipelines, Principals, Tallies
  <1> QED
    BY <1>1, <1>2 DEF Idle, CallStates

\* A request arrives at the gates.
LEMMA ArriveKeeps ==
  ASSUME WellConfigured, Inv, NEW r \in Requests, Arrive(r)
  PROVE  Inv'
  <1>1. ServiceKept /\ WorldInv'
    BY Elsewhere DEF Arrive
  <1>2. PICK kind \in Kinds[r] \ {"health"}, asks \in Names, pipeline \in Pipelines :
          Move(r, [Idle EXCEPT
            !.pc = IF kind \in {"upload", "ingest", "documents"} THEN "guard" ELSE "body",
            !.kind = kind, !.asks = asks, !.pipeline = pipeline])
    BY DEF Arrive, Names, Pipelines
  <1> DEFINE pc == IF kind \in {"upload", "ingest", "documents"} THEN "guard" ELSE "body"
             q == [Idle EXCEPT !.pc = pc, !.kind = kind, !.asks = asks,
                               !.pipeline = pipeline]
  <1>3. pc \in Places /\ pc \in {"guard", "body"} /\ kind \in Routes
    BY DEF Places, WellConfigured
  <1>4. Move(r, q)
    BY <1>2
  <1> HIDE DEF pc
  <1>5. /\ q \in CallStates /\ q.pc = pc /\ q.kind = kind /\ q.entered = Idle.entered
        /\ q.answer = Idle.answer /\ q.tenant = Idle.tenant /\ q.outcomes = Idle.outcomes
    BY <1>3, IdleTyped DEF CallStates
  <1> HIDE DEF q
  <1>6. Placed(q) /\ Staged(r, q, staging)
    BY <1>3, <1>5, IdleTyped DEF Placed, Staged
  <1>7. Scoped(q, isolation)
    BY <1>3, <1>5, IdleTyped DEF Scoped, Rightful, OwnDocs
  <1> QED
    BY <1>1, <1>3, <1>4, <1>5, <1>6, <1>7, MoveKeeps

\* The health of the service is asked.
LEMMA HealthKeeps ==
  ASSUME WellConfigured, Inv, NEW r \in Requests, Health(r)
  PROVE  Inv'
  <1> DEFINE p == [Idle EXCEPT !.kind = "health"]
  <1>1. ServiceKept /\ WorldInv'
    BY Elsewhere DEF Health
  <1>2. End(r, p, 200, None) /\ "health" \in Kinds[r]
    BY DEF Health
  <1>3. "health" \in Routes
    BY DEF Routes
  <1>4. /\ p \in CallStates /\ p.kind = "health" /\ p.outcomes = <<>>
        /\ p.answer = Idle.answer
    BY <1>3, IdleTyped DEF CallStates
  <1> HIDE DEF p
  <1>5. Rightful(p, isolation) /\ Accounted(p, 200, None)
    BY <1>4, IdleTyped DEF Rightful, Accounted
  <1> QED
    BY <1>1, <1>2, <1>4, <1>5, EndKeeps

\* A request that ends in the state it was in.
LEMMA EndsAsItIs ==
  ASSUME Inv, ServiceKept, WorldInv', NEW r \in Requests, request[r].pc # "ended",
         NEW status \in Nat, NEW outcome \in Metrics \cup {None},
         Accounted(request[r], status, outcome), End(r, request[r], status, outcome)
  PROVE  Inv'
  <1>1. CallInv(r, request[r], staging, isolation)
    BY Holds
  <1>2. request[r].outcomes = <<>>
    BY <1>1 DEF CallInv, Placed
  <1> QED
    BY <1>1, <1>2, EndKeeps DEF CallInv, Scoped

\* A body is refused before its route has begun, or while it is read.
LEMMA RefusedKeeps ==
  ASSUME Inv, NEW r \in Requests, Refused(r)
  PROVE  Inv'
  <1>1. ServiceKept /\ WorldInv'
    BY Elsewhere DEF Refused
  <1>2. PICK status \in {413, 422} : End(r, request[r], status, None)
    BY DEF Refused
  <1>3. request[r].pc \in {"body", "guard", "stage", "copy"}
    BY DEF Refused
  <1>4. Placed(request[r])
    BY Holds DEF CallInv
  <1>5. Accounted(request[r], status, None)
    BY <1>3, <1>4 DEF Placed, Accounted
  <1> QED
    BY <1>1, <1>2, <1>3, <1>5, EndsAsItIs

\* A body is read.
LEMMA ReadKeeps ==
  ASSUME Inv, NEW r \in Requests, Read(r)
  PROVE  Inv'
  <1>1. request[r].pc = "body" /\ Goto(r, "guard") /\ UNCHANGED <<service, world>>
    BY DEF Read, At
  <1>2. Placed(request[r])
    BY Holds DEF CallInv
  <1>3. "guard" \in Places
    BY DEF Places
  <1>4. ~request[r].entered
    BY <1>1, <1>2 DEF Placed
  <1> QED
    BY <1>1, <1>3, <1>4, GotoKeeps

\* Where require_api_key lets a request.
Past(kind) == CASE kind \in {"upload", "ingest"} -> "stage"
                [] kind = "eval" -> "cases"
                [] OTHER -> "tenant"

Admitted(p, q) ==
    /\ q \in CallStates /\ Placed(q) /\ q.pc \in {"stage", "cases", "tenant"}
    /\ q.kind = p.kind /\ q.answer = p.answer /\ q.tenant = p.tenant
    /\ q.kind = "upload" => q.pc = "stage"

\* What the guard lets through is on its way.
LEMMA PastGuard ==
  ASSUME NEW p \in CallStates, Placed(p), p.pc = "guard",
         NEW key \in Principals, NEW pc, pc = Past(p.kind), NEW yes \in BOOLEAN, yes = TRUE,
         NEW q, q = [p EXCEPT !.principal = key, !.pc = pc, !.entered = yes]
  PROVE  Admitted(p, q)
  <1>1. /\ pc \in {"stage", "cases", "tenant"}
        /\ pc = "stage" => p.kind \in {"upload", "ingest"}
        /\ pc = "cases" => p.kind = "eval"
        /\ pc = "tenant" => p.kind \notin {"upload", "ingest", "eval"}
    BY DEF Past
  <1>2. pc \in Places
    BY <1>1 DEF Places
  <1>3. /\ q \in CallStates /\ q.pc = pc /\ q.entered = yes /\ q.kind = p.kind
        /\ q.answer = p.answer /\ q.tenant = p.tenant /\ q.outcomes = p.outcomes
    BY <1>2 DEF CallStates
  <1>4. p.kind \in Routes
    BY DEF CallStates
  <1>5. Placed(q)
    BY <1>1, <1>3, <1>4 DEF Placed, Routes
  <1>6. q.kind = "upload" => q.pc = "stage"
    BY <1>1, <1>3
  <1> QED
    BY <1>1, <1>3, <1>5, <1>6 DEF Admitted

\* A request is let in, or not, under its credential.
LEMMA GuardKeeps ==
  ASSUME Inv, NEW r \in Requests, Guard(r)
  PROVE  Inv'
  <1> DEFINE p == request[r]
  <1>1. ServiceKept /\ WorldInv'
    BY Elsewhere DEF Guard
  <1>2. /\ CallInv(r, p, staging, isolation) /\ p \in CallStates /\ Placed(p) /\ Scoped(p, isolation)
        /\ p.pc = "guard" /\ p.kind \in Kinds[r] \cup {"query"}
    BY Holds DEF Guard, At, CallInv
  <1>3. ~p.entered /\ p.outcomes = <<>> /\ p.answer.from = "nobody" /\ p.answer.built = {}
    BY <1>2 DEF Placed, Scoped
  <1> DEFINE u(key) == [p EXCEPT !.principal = key]
  <1> HIDE DEF u
  <1>8. PICK key \in Principals :
          LET v == [request[r] EXCEPT !.principal = key]
              next == CASE v.kind \in {"upload", "ingest"} -> "stage"
                        [] v.kind = "eval" -> "cases"
                        [] OTHER -> "tenant"
          IN IF Keys # {} /\ key = None THEN End(r, v, 401, None)
             ELSE \/ \E status \in {429, 422} : End(r, v, status, None)
                  \/ Move(r, [v EXCEPT !.pc = next, !.entered = TRUE])
    BY DEF Guard, Principals
  <1>9. u(key) = [request[r] EXCEPT !.principal = key]
    BY DEF u
  <1>4. \/ \E status \in {401, 429, 422} : End(r, u(key), status, None)
        \/ Move(r, [u(key) EXCEPT !.pc = Past(u(key).kind), !.entered = TRUE])
    <2>1. CASE Keys # {} /\ key = None
      BY <1>8, <1>9, <2>1
    <2>2. CASE ~(Keys # {} /\ key = None)
      BY <1>8, <1>9, <2>2 DEF Past
    <2> QED
      BY <2>1, <2>2
  <1>5. CASE \E status \in {401, 429, 422} : End(r, u(key), status, None)
    <2>1. /\ u(key) \in CallStates /\ u(key).kind = p.kind /\ u(key).outcomes = p.outcomes
          /\ u(key).answer = p.answer /\ u(key).entered = p.entered
      BY <1>2 DEF CallStates, u
    <2>2. PICK status \in {401, 429, 422} : End(r, u(key), status, None)
      BY <1>5
    <2>3. Rightful(u(key), isolation) /\ Accounted(u(key), status, None)
      BY <1>3, <2>1 DEF Rightful, Accounted
    <2> QED
      BY <1>1, <1>2, <1>3, <2>1, <2>2, <2>3, EndKeeps
  <1>6. CASE Move(r, [u(key) EXCEPT !.pc = Past(u(key).kind), !.entered = TRUE])
    <2>1. PICK yes \in BOOLEAN : yes = TRUE
      OBVIOUS
    <2> DEFINE pc == Past(p.kind)
               q == [p EXCEPT !.principal = key, !.pc = pc, !.entered = yes]
    <2>2. Move(r, q)
      <3>1. u(key).kind = p.kind
        BY <1>2 DEF CallStates, u
      <3>2. yes = TRUE
        BY <2>1
      <3>3. Move(r, [u(key) EXCEPT !.pc = pc, !.entered = yes])
        BY <1>6, <3>1, <3>2
      <3>4. [u(key) EXCEPT !.pc = pc, !.entered = yes] = q
        BY DEF u
      <3> QED
        BY <3>3, <3>4
    <2>7. pc = Past(p.kind)
      OBVIOUS
    <2> HIDE DEF pc
    <2>8. q = [p EXCEPT !.principal = key, !.pc = pc, !.entered = yes]
      OBVIOUS
    <2> HIDE DEF q
    <2>3. /\ q \in CallStates /\ Placed(q) /\ q.pc \in {"stage", "cases", "tenant"}
          /\ q.kind = p.kind /\ q.answer = p.answer /\ q.tenant = p.tenant
          /\ q.kind = "upload" => q.pc = "stage"
      <3>1. p \in CallStates /\ Placed(p) /\ p.pc = "guard"
        BY <1>2
      <3>2. Admitted(p, q)
        BY <2>1, <2>7, <2>8, <3>1, PastGuard
      <3> QED
        BY <3>2 DEF Admitted
    <2>4. Staged(r, q, staging)
      BY <2>3 DEF Staged
    <2>5. Scoped(q, isolation)
      BY <1>3, <2>3 DEF Scoped, Rightful, OwnDocs
    <2> QED
      BY <1>1, <1>2, <2>2, <2>3, <2>4, <2>5, MoveKeeps
  <1> QED
    BY <1>4, <1>5, <1>6

\* An upload has been copied.
LEMMA CopyKeeps ==
  ASSUME Inv, NEW r \in Requests, Copy(r)
  PROVE  Inv'
  <1>1. request[r].pc = "copy" /\ Goto(r, "tenant") /\ UNCHANGED <<service, world>>
    BY DEF Copy, At
  <1>2. Placed(request[r]) /\ Staged(r, request[r], staging)
    BY Holds DEF CallInv
  <1>3. "tenant" \in Places
    BY DEF Places
  <1>4. request[r].entered /\ request[r].kind = "upload" /\ r \in staging
    BY <1>1, <1>2 DEF Placed, Staged
  <1> QED
    BY <1>1, <1>3, <1>4, GotoKeeps

\* An upload gets its directory.
LEMMA StageKeeps ==
  ASSUME Inv, NEW r \in Requests, Stage(r)
  PROVE  Inv'
  <1> DEFINE p == request[r]
  <1>1. p.pc = "stage" /\ UNCHANGED <<service, world>>
    BY DEF Stage, At
  <1>2. p \in CallStates /\ Placed(p) /\ Scoped(p, isolation) /\ p.kind \in Kinds[r] \cup {"query"}
    BY Holds DEF CallInv
  <1>3. p.entered /\ p.kind \in {"upload", "ingest"}
    BY <1>1, <1>2 DEF Placed
  <1>4. CASE p.kind = "upload"
    <2> DEFINE q == [p EXCEPT !.pc = "copy"]
    <2>1. request' = [request EXCEPT ![r] = q] /\ staging' = staging \cup {r}
      BY <1>4 DEF Stage, Kind
    <2>2. "copy" \in Places
      BY DEF Places
    <2>3. /\ q \in CallStates /\ q.pc = "copy"
          /\ q.kind = p.kind /\ q.entered = p.entered /\ q.principal = p.principal
          /\ q.tenant = p.tenant /\ q.answer = p.answer /\ q.outcomes = p.outcomes
      BY <1>2, <2>2, AtPlace
    <2> HIDE DEF q
    <2>4. Placed(q) /\ Staged(r, q, staging') /\ Settled(q)
      BY <1>1, <1>2, <1>3, <1>4, <2>1, <2>3 DEF Placed, Staged, Settled
    <2>5. Scoped(q, isolation)
      BY <1>1, <1>2, <2>3 DEF Scoped, Rightful, Resolved, OwnDocs
    <2>6. Becomes(r, q)
      BY <2>1 DEF Becomes
    <2> QED
      BY <1>1, <1>2, <2>3, <2>4, <2>5, <2>6, OneMoves, Elsewhere DEF CallInv
  <1>5. CASE p.kind # "upload"
    <2>1. Goto(r, "tenant")
      BY <1>5 DEF Stage, Kind
    <2>2. "tenant" \in Places
      BY DEF Places
    <2> QED
      BY <1>1, <1>3, <1>5, <2>1, <2>2, GotoKeeps
  <1> QED
    BY <1>4, <1>5

\* resolve_tenant allows what Resolved says.
LEMMA Allowed ==
  ASSUME WellConfigured, NEW asks \in Names, NEW principal \in Principals,
         ResolveTenant(asks, principal) # "refused"
  PROVE  LET tenant == ResolveTenant(asks, principal)
         IN /\ tenant \in Names
            /\ principal \in DOMAIN Bindings => tenant = Bindings[principal]
            /\ isolation => tenant # None
  BY DEF ResolveTenant, WellConfigured, Names, None

\* Where prepare and the heads of the other routes let a request.
Onward(kind) == CASE kind = "query" -> "lookup"
                  [] kind = "stream" -> "deltas"
                  [] kind \in {"upload", "ingest"} -> "ingest"
                  [] OTHER -> kind

\* A request is given its tenant, or refused.
LEMMA PrepareKeeps ==
  ASSUME WellConfigured, Inv, NEW r \in Requests, Prepare(r)
  PROVE  Inv'
  <1> DEFINE p == request[r]
             tenant == ResolveTenant(p.asks, p.principal)
             pc == Onward(p.kind)
             q == [p EXCEPT !.pc = pc, !.asks = None, !.tenant = tenant]
             outcome == IF p.kind = "query" THEN "failed" ELSE None
  <1>1. ServiceKept /\ WorldInv'
    BY Elsewhere DEF Prepare
  <1>2. /\ p \in CallStates /\ Placed(p) /\ Scoped(p, isolation) /\ Staged(r, p, staging)
        /\ p.kind \in Kinds[r] \cup {"query"}
    BY Holds DEF CallInv
  <1>3. p.pc = "tenant"
    BY DEF Prepare, At
  <1>4. \/ \E status \in {400, 422} : End(r, p, status, outcome)
        \/ tenant # "refused" /\ Move(r, q)
    BY DEF Prepare, Onward
  <1>5. /\ p.entered /\ p.outcomes = <<>>
        /\ p.kind \in {"query", "stream", "upload", "ingest", "documents", "delete"}
        /\ p.answer.from = "nobody" /\ p.answer.built = {}
    BY <1>2, <1>3 DEF Placed, Scoped
  <1>6. CASE \E status \in {400, 422} : End(r, p, status, outcome)
    <2>1. PICK status \in {400, 422} : End(r, p, status, outcome)
      BY <1>6
    <2>2. outcome \in Metrics \cup {None}
      BY DEF Metrics
    <2>3. Accounted(p, status, outcome)
      BY <1>5 DEF Accounted, None
    <2> QED
      BY <1>1, <1>3, <2>1, <2>2, <2>3, EndsAsItIs
  <1>7. CASE tenant # "refused" /\ Move(r, q)
    <2>1. p.asks \in Names /\ p.principal \in Principals
      BY <1>2 DEF CallStates
    <2>2. /\ tenant \in Names
          /\ p.principal \in DOMAIN Bindings => tenant = Bindings[p.principal]
          /\ isolation => tenant # None
      BY <1>7, <2>1, Allowed
    <2> HIDE DEF tenant
    <2>3. /\ pc \in Places
          /\ p.kind = "query" => pc = "lookup"
          /\ p.kind = "stream" => pc = "deltas"
          /\ p.kind \in {"upload", "ingest"} => pc = "ingest"
          /\ p.kind \in {"documents", "delete"} => pc = p.kind
      BY <1>5 DEF Onward, Places
    <2> HIDE DEF pc
    <2>4. /\ q \in CallStates /\ q.pc = pc /\ q.kind = p.kind /\ q.entered = p.entered
          /\ q.principal = p.principal /\ q.tenant = tenant /\ q.answer = p.answer
          /\ q.outcomes = p.outcomes
      BY <1>2, <2>2, <2>3 DEF CallStates, Names
    <2> HIDE DEF q
    <2>5. Placed(q) /\ q.pc # "ended"
      BY <1>2, <1>3, <1>5, <2>3, <2>4 DEF Placed
    <2>6. Staged(r, q, staging)
      BY <1>2, <1>3, <1>5, <2>3, <2>4 DEF Staged
    <2>7. Scoped(q, isolation)
      BY <1>5, <2>2, <2>4 DEF Scoped, Rightful, Resolved, OwnDocs
    <2> QED
      BY <1>1, <1>2, <1>7, <2>4, <2>5, <2>6, <2>7, MoveKeeps
  <1> QED
    BY <1>4, <1>6, <1>7

-----------------------------------------------------------------------------
(* POST /query.                                                            *)

\* An answer that may be given to tenant.
Fit(a, tenant) ==
    /\ a \in Given
    /\ tenant # None => a.from = tenant
    /\ isolation => OwnDocs(a.built, tenant)

\* What an engine answers from under isolation is visible to the tenant.
LEMMA AnswersFit ==
  ASSUME Inv, NEW p \in CallStates, NEW a \in Answers(p)
  PROVE  Fit(a, p.tenant) /\ a.from = p.tenant
  <1>1. p.tenant \in Names /\ indexed \subseteq Docs
    BY DEF CallStates, Inv, WorldInv
  <1>2. a.from = p.tenant /\ a.built \subseteq Readable(p.tenant) /\ a \in Given
    <2>1. CASE a \in [from : {p.tenant}, built : SUBSET Readable(p.tenant),
                      verdict : {"whole", "degraded"}]
      BY <1>1, <2>1 DEF Given, Readable, Visible
    <2>2. CASE a = [from |-> p.tenant, built |-> {}, verdict |-> "abstained"]
      BY <1>1, <2>2 DEF Given
    <2> QED
      BY <2>1, <2>2 DEF Answers
  <1> QED
    BY <1>2 DEF Fit, OwnDocs, Readable, Visible

\* So is what the cache holds under the key of the tenant.
LEMMA EntriesFit ==
  ASSUME Inv, NEW p \in CallStates, NEW pipeline, NEW e \in cached,
         Matches(e, p.tenant, pipeline)
  PROVE  Fit([from |-> e.tenant, built |-> e.built, verdict |-> "whole"], p.tenant)
  <1>1. e \in EntryType /\ (isolation => OwnDocs(e.built, e.tenant))
    BY DEF Inv, WorldInv
  <1>2. e.tenant \in Names /\ e.built \subseteq Docs
    BY <1>1 DEF EntryType, Names
  <1>3. [from |-> e.tenant, built |-> e.built, verdict |-> "whole"] \in Given
    BY <1>2 DEF Given
  <1>4. p.tenant # None => e.tenant = p.tenant
    BY DEF Matches
  <1> QED
    BY <1>1, <1>3, <1>4 DEF Fit, OwnDocs

\* The request p, when it has been answered a.
Heard(p, a) == [p EXCEPT !.pc = "caching", !.answer = a]

\* An engine or its cache has answered.
LEMMA AnswerKeeps ==
  ASSUME Inv, ServiceKept, WorldInv', NEW r \in Requests, NEW a,
         request[r].pc \in {"engine", "linear"}, Fit(a, request[r].tenant),
         NEW q, q = Heard(request[r], a), Move(r, q)
  PROVE  Inv'
  <1> DEFINE p == request[r]
  <1>1. p \in CallStates /\ Placed(p) /\ Scoped(p, isolation) /\ p.kind \in Kinds[r] \cup {"query"}
    BY Holds DEF CallInv
  <1>2. a \in Given /\ "caching" \in Places
    BY DEF Fit, Places
  <1>3. /\ q \in CallStates /\ q.pc = "caching" /\ q.answer = a
        /\ q.kind = p.kind /\ q.entered = p.entered /\ q.principal = p.principal
        /\ q.tenant = p.tenant /\ q.outcomes = p.outcomes
    BY <1>1, <1>2 DEF Heard, CallStates
  <1>4. Placed(q) /\ Staged(r, q, staging)
    BY <1>1, <1>3 DEF Placed, Staged
  <1>5. Scoped(q, isolation)
    BY <1>1, <1>3 DEF Scoped, Rightful, Resolved, OwnDocs, Fit
  <1> QED
    BY <1>1, <1>3, <1>4, <1>5, MoveKeeps

\* The status of an error.
LEMMA Statuses ==
  ASSUME NEW error \in DOMAIN StatusOf
  PROVE  /\ StatusOf[error] \in Nat /\ StatusOf[error] \notin {0, 200}
         /\ OutcomeOf(error) \in Metrics /\ OutcomeOf(error) # None
  <1>1. error \in {"BudgetExceeded", "StoreUnavailable", "TimeoutError", "Exception"}
    BY DEF StatusOf
  <1>2. StatusOf[error] \in {429, 503, 504, 500}
    BY <1>1 DEF StatusOf
  <1>3. OutcomeOf(error) \in {"timeout", "failed"}
    BY DEF OutcomeOf
  <1> QED
    BY <1>2, <1>3 DEF Metrics, None

\* An error of ragorc's own has a status.
LEMMA OwnErrors == Own \subseteq DOMAIN StatusOf
  BY DEF Own, StatusOf

\* A question that fails is counted as its error is.
LEMMA FailKeeps ==
  ASSUME Inv, UNCHANGED <<service, world>>, NEW r \in Requests,
         request[r].pc \in {"engine", "linear"}, NEW error \in DOMAIN StatusOf,
         NEW outcome \in Metrics, outcome # None,
         End(r, request[r], StatusOf[error], outcome)
  PROVE  Inv'
  <1>1. request[r].kind = "query" /\ request[r].entered
    BY Holds DEF CallInv, Placed
  <1>2. StatusOf[error] \in Nat /\ StatusOf[error] # 0
    BY Statuses
  <1>3. Accounted(request[r], StatusOf[error], outcome)
    BY <1>1, <1>2 DEF Accounted
  <1> QED
    BY <1>2, <1>3, EndsAsItIs, Elsewhere

\* A question that goes on to an engine.
LEMMA OnKeeps ==
  ASSUME Inv, UNCHANGED <<service, world>>, NEW r \in Requests,
         request[r].pc \in {"lookup", "engine"}, NEW pc \in {"engine", "linear"},
         Goto(r, pc)
  PROVE  Inv'
  <1>1. Placed(request[r]) /\ Scoped(request[r], isolation)
    BY Holds DEF CallInv
  <1>2. request[r].kind = "query" /\ Resolved(request[r], isolation) /\ request[r].entered
    BY <1>1 DEF Placed, Scoped
  <1>3. pc \in Places
    BY DEF Places
  <1> QED
    BY <1>2, <1>3, GotoKeeps

\* The cache of the service is asked.
LEMMA LookupKeeps ==
  ASSUME Inv, NEW r \in Requests, Lookup(r)
  PROVE  Inv'
  <1> DEFINE p == request[r]
             a(e) == [from |-> e.tenant, built |-> e.built, verdict |-> "whole"]
  <1>1. p.pc = "lookup" /\ UNCHANGED <<service, world>>
    BY DEF Lookup, At
  <1>2. CASE \E e \in cached : /\ Matches(e, p.tenant, p.pipeline)
                               /\ End(r, [p EXCEPT !.answer = a(e)], 200, "cached")
    <2>1. PICK e \in cached : /\ Matches(e, p.tenant, p.pipeline)
                              /\ End(r, [p EXCEPT !.answer = a(e)], 200, "cached")
      BY <1>2
    <2>2. p \in CallStates /\ Placed(p) /\ Scoped(p, isolation) /\ p.kind \in Kinds[r] \cup {"query"}
      BY Holds DEF CallInv
    <2>3. Fit(a(e), p.tenant)
      BY <2>1, <2>2, EntriesFit
    <2> DEFINE b == a(e)
               q == [p EXCEPT !.answer = b]
    <2>4. End(r, q, 200, "cached") /\ Fit(b, p.tenant)
      BY <2>1, <2>3
    <2> HIDE DEF b
    <2>5. /\ q \in CallStates /\ q.answer = b /\ q.kind = p.kind /\ q.entered = p.entered
          /\ q.principal = p.principal /\ q.tenant = p.tenant /\ q.outcomes = p.outcomes
      BY <2>2, <2>4 DEF Fit, CallStates
    <2> HIDE DEF q
    <2>6. p.kind = "query" /\ p.entered /\ p.outcomes = <<>> /\ Resolved(p, isolation)
      BY <1>1, <2>2 DEF Placed, Scoped
    <2>7. Rightful(q, isolation)
      BY <2>4, <2>5, <2>6 DEF Rightful, Resolved, Fit
    <2>8. Accounted(q, 200, "cached") /\ "cached" \in Metrics
      BY <2>5, <2>6 DEF Accounted, Metrics, None
    <2> QED
      BY <1>1, <2>2, <2>4, <2>5, <2>6, <2>7, <2>8, EndKeeps, Elsewhere
  <1>3. CASE \E pc \in {"engine", "linear"} : Goto(r, pc)
    BY <1>1, <1>3, OnKeeps
  <1> QED
    BY <1>2, <1>3 DEF Lookup

\* Under isolation a new entry is built from documents of the tenant of its key.
LEMMA StoreKeeps ==
  ASSUME Inv, NEW e \in EntryType, isolation => OwnDocs(e.built, e.tenant),
         cached' = Store(e),
         UNCHANGED <<service, indexed, deleted>>
  PROVE  ServiceKept /\ WorldInv'
  <1>1. cached' \subseteq cached \cup {e}
    BY DEF Store
  <1> QED
    BY <1>1 DEF Inv, ServiceInv, ServiceKept, WorldInv, service

\* The entry for an answer that fits.
LEMMA EntryFits ==
  ASSUME NEW p \in CallStates, NEW a, Fit(a, p.tenant), NEW pipeline \in Pipelines,
         NEW shape \in {"engine", "service"}
  PROVE  LET e == Entry(p.tenant, pipeline, shape, a.built)
         IN e \in EntryType /\ (isolation => OwnDocs(e.built, e.tenant))
  <1>1. /\ p.tenant \in Names /\ a.built \subseteq Docs
        /\ isolation => OwnDocs(a.built, p.tenant)
    BY DEF Fit, Given, CallStates
  <1> QED
    BY <1>1 DEF Entry, EntryType, Names

\* The orchestration layer answers, from its cache or not, or fails.
LEMMA EngineKeeps ==
  ASSUME Inv, NEW r \in Requests, Engine(r)
  PROVE  Inv'
  <1> DEFINE p == request[r]
             held(e) == [from |-> e.tenant, built |-> e.built, verdict |-> "whole"]
             gives(a) == Move(r, Heard(p, a))
  <1>1. p.pc = "engine" /\ UNCHANGED service
    BY DEF Engine, At
  <1>2. p \in CallStates
    BY Holds DEF CallInv
  <1> HIDE DEF gives
  <1>3. \/ \E e \in cached : Matches(e, p.tenant, Graph) /\ gives(held(e)) /\ UNCHANGED world
        \/ \E a \in Answers(p) :
             /\ gives(a)
             /\ cached' = IF a.verdict = "whole"
                          THEN Store(Entry(p.tenant, Graph, "engine", a.built)) ELSE cached
             /\ UNCHANGED <<indexed, deleted>>
        \/ \E error \in Own : End(r, p, StatusOf[error], "failed") /\ UNCHANGED world
        \/ Goto(r, "linear") /\ UNCHANGED world
    BY DEF Engine, Heard, gives
  <1>4. CASE \E e \in cached : Matches(e, p.tenant, Graph) /\ gives(held(e)) /\ UNCHANGED world
    <2>1. PICK e \in cached : Matches(e, p.tenant, Graph) /\ gives(held(e)) /\ UNCHANGED world
      BY <1>4
    <2>2. Fit(held(e), p.tenant)
      BY <1>2, <2>1, EntriesFit
    <2>3. ServiceKept /\ WorldInv'
      BY <1>1, <2>1, Elsewhere
    <2> DEFINE a == held(e)
               q == Heard(p, a)
    <2> HIDE DEF held
    <2>4. Move(r, q) /\ Fit(a, p.tenant)
      BY <2>1, <2>2 DEF gives
    <2> HIDE DEF a
    <2>5. q = Heard(p, a)
      OBVIOUS
    <2> HIDE DEF q
    <2> QED
      <3>1. p.pc \in {"engine", "linear"}
        BY <1>1
      <3> QED
        BY <2>3, <2>4, <2>5, <3>1, AnswerKeeps
  <1>5. ASSUME NEW a \in Answers(p), gives(a), UNCHANGED <<indexed, deleted>>,
               cached' = IF a.verdict = "whole"
                         THEN Store(Entry(p.tenant, Graph, "engine", a.built)) ELSE cached
        PROVE  Inv'
    <2>1. Fit(a, p.tenant)
      BY <1>2, AnswersFit
    <2>2. ServiceKept /\ WorldInv'
      <3>1. CASE a.verdict = "whole"
        <4> DEFINE e == Entry(p.tenant, Graph, "engine", a.built)
        <4>1. Graph \in Pipelines
          BY DEF Pipelines
        <4>2. e \in EntryType /\ (isolation => OwnDocs(e.built, e.tenant))
          BY <1>2, <2>1, <4>1, EntryFits
        <4>3. cached' = Store(e)
          BY <1>5, <3>1
        <4> HIDE DEF e
        <4> QED
          BY <1>1, <1>5, <4>2, <4>3, StoreKeeps
      <3>2. CASE a.verdict # "whole"
        BY <1>1, <1>5, <3>2, Elsewhere DEF world
      <3> QED
        BY <3>1, <3>2
    <2> DEFINE q == Heard(p, a)
    <2>3. Move(r, q) /\ q = Heard(p, a)
      BY <1>5 DEF gives
    <2> HIDE DEF q
    <2> QED
      <3>1. p.pc \in {"engine", "linear"}
        BY <1>1
      <3> QED
        BY <2>1, <2>2, <2>3, <3>1, AnswerKeeps
  <1>6. ASSUME NEW error \in Own, End(r, p, StatusOf[error], "failed"), UNCHANGED world
        PROVE  Inv'
    <2>1. "failed" \in Metrics /\ "failed" # None
      BY DEF Metrics, None
    <2> QED
      BY <1>1, <1>6, <2>1, OwnErrors, FailKeeps
  <1>7. ASSUME Goto(r, "linear"), UNCHANGED world
        PROVE  Inv'
    BY <1>1, <1>7, OnKeeps
  <1> QED
    BY <1>3, <1>4, <1>5, <1>6, <1>7

\* The linear engine answers or fails.
LEMMA LinearKeeps ==
  ASSUME Inv, NEW r \in Requests, Linear(r)
  PROVE  Inv'
  <1> DEFINE p == request[r]
  <1>1. p.pc = "linear" /\ UNCHANGED <<service, world>>
    BY DEF Linear, At
  <1>2. p \in CallStates
    BY Holds DEF CallInv
  <1>3. ASSUME NEW a \in Answers(p), Move(r, Heard(p, a))
        PROVE  Inv'
    <2>1. Fit(a, p.tenant)
      BY <1>2, AnswersFit
    <2> DEFINE q == Heard(p, a)
    <2>2. Move(r, q) /\ q = Heard(p, a)
      BY <1>3
    <2> HIDE DEF q
    <2> QED
      <3>1. p.pc \in {"engine", "linear"}
        BY <1>1
      <3>2. ServiceKept /\ WorldInv'
        BY <1>1, Elsewhere
      <3> QED
        BY <2>1, <2>2, <3>1, <3>2, AnswerKeeps
  <1>4. ASSUME NEW error \in DOMAIN StatusOf, End(r, p, StatusOf[error], OutcomeOf(error))
        PROVE  Inv'
    BY <1>1, <1>4, Statuses, FailKeeps
  <1> QED
    BY <1>3, <1>4 DEF Linear, Heard

\* An answer is cached, or not, and returned.
LEMMA CachingKeeps ==
  ASSUME Inv, NEW r \in Requests, Caching(r)
  PROVE  Inv'
  <1> DEFINE p == request[r]
             outcome == IF p.answer.verdict = "abstained" THEN "abstained" ELSE "answered"
  <1>1. p.pc = "caching" /\ UNCHANGED <<service, indexed, deleted>> /\ End(r, p, 200, outcome)
    BY DEF Caching, At
  <1>2. p \in CallStates /\ Placed(p) /\ Scoped(p, isolation)
    BY Holds DEF CallInv
  <1>3. p.kind = "query" /\ p.entered /\ Resolved(p, isolation)
    BY <1>1, <1>2 DEF Placed, Scoped
  <1>4. ServiceKept /\ WorldInv'
    <2>1. CASE cached' = Store(Entry(p.tenant, p.pipeline, "service", p.answer.built))
      <3> DEFINE e == Entry(p.tenant, p.pipeline, "service", p.answer.built)
      <3>1. /\ p.tenant \in Names /\ p.pipeline \in Pipelines /\ p.answer.built \subseteq Docs
            /\ isolation => OwnDocs(p.answer.built, p.tenant)
        BY <1>2 DEF CallStates, Given, Scoped
      <3>2. e \in EntryType /\ (isolation => OwnDocs(e.built, e.tenant))
        BY <3>1 DEF Entry, EntryType, Names
      <3> HIDE DEF e
      <3> QED
        BY <1>1, <2>1, <3>2, StoreKeeps DEF e
    <2>2. CASE UNCHANGED cached
      BY <1>1, <2>2, Elsewhere DEF world
    <2> QED
      BY <2>1, <2>2 DEF Caching
  <1>5. Accounted(p, 200, outcome) /\ outcome \in Metrics
    BY <1>3 DEF Accounted, Metrics, None
  <1> QED
    BY <1>1, <1>4, <1>5, EndsAsItIs

\* The deadline passes.
LEMMA DeadlineKeeps ==
  ASSUME Inv, NEW r \in Requests, Deadline(r)
  PROVE  Inv'
  <1> DEFINE p == request[r]
  <1>1. /\ p.kind \in Limited /\ p.pc \in Waits /\ UNCHANGED <<service, world>>
        /\ End(r, p, StatusOf["TimeoutError"], "timeout")
    BY DEF Deadline, UnderDeadline, Kind
  <1>2. Placed(p)
    BY Holds DEF CallInv
  <1>3. p.pc # "ended" /\ p.entered /\ p.kind # "stream"
    BY <1>1, <1>2 DEF Placed, Waits, Limited
  <1>4. StatusOf["TimeoutError"] = 504
    BY DEF StatusOf
  <1>5. Accounted(p, 504, "timeout") /\ "timeout" \in Metrics
    BY <1>3 DEF Accounted, Metrics, None
  <1> QED
    BY <1>1, <1>3, <1>4, <1>5, EndsAsItIs, Elsewhere

-----------------------------------------------------------------------------
(* The other routes.                                                       *)

\* A stream ends.
LEMMA StreamKeeps ==
  ASSUME Inv, NEW r \in Requests, Stream(r)
  PROVE  Inv'
  <1>1. request[r].pc = "deltas" /\ UNCHANGED <<service, world>>
    BY DEF Stream, At
  <1>2. PICK outcome \in {"streamed", "failed", "cancelled"} :
          End(r, request[r], 200, outcome)
    BY DEF Stream
  <1>3. Placed(request[r])
    BY Holds DEF CallInv
  <1>4. Accounted(request[r], 200, outcome) /\ outcome \in Metrics
    BY <1>1, <1>3 DEF Placed, Accounted, Metrics, None
  <1> QED
    BY <1>1, <1>2, <1>4, EndsAsItIs, Elsewhere

\* A request of a route the metrics leave alone.
LEMMA Uncounted ==
  ASSUME NEW p, NEW status, p.kind \notin {"query", "stream"}
  PROVE  Accounted(p, status, None)
  BY DEF Accounted

\* The documents are listed.
LEMMA DocumentsKeeps ==
  ASSUME Inv, NEW r \in Requests, Documents(r)
  PROVE  Inv'
  <1>1. request[r].pc = "documents" /\ UNCHANGED <<service, world>>
    BY DEF Documents, At
  <1>2. request[r].kind = "documents"
    BY <1>1, Holds DEF CallInv, Placed
  <1>3. \E status \in Nat : End(r, request[r], status, None)
    BY OwnErrors, Statuses DEF Documents
  <1> QED
    BY <1>1, <1>2, <1>3, Uncounted, EndsAsItIs, Elsewhere

\* An evaluation ends.
LEMMA EvaluateKeeps ==
  ASSUME Inv, NEW r \in Requests, Evaluate(r)
  PROVE  Inv'
  <1>1. request[r].pc = "cases" /\ UNCHANGED <<service, world>>
    BY DEF Evaluate, At
  <1>2. request[r].kind = "eval"
    BY <1>1, Holds DEF CallInv, Placed
  <1>3. \E status \in Nat : End(r, request[r], status, None)
    BY DEF Evaluate
  <1> QED
    BY <1>1, <1>2, <1>3, Uncounted, EndsAsItIs, Elsewhere

\* Documents come and go, and cached answers only go.
LEMMA FewerCached ==
  ASSUME Inv, UNCHANGED service, indexed' \subseteq Docs, deleted' \subseteq Docs,
         cached' \subseteq cached
  PROVE  ServiceKept /\ WorldInv'
  BY DEF Inv, ServiceInv, ServiceKept, WorldInv, service

\* Documents are ingested.
LEMMA IngestKeeps ==
  ASSUME Inv, NEW r \in Requests, Ingest(r)
  PROVE  Inv'
  <1>1. request[r].pc = "ingest" /\ UNCHANGED service
    BY DEF Ingest, At
  <1>2. request[r].kind \in {"upload", "ingest"}
    BY <1>1, Holds DEF CallInv, Placed
  <1>3. ServiceKept /\ WorldInv' /\ \E status \in Nat : End(r, request[r], status, None)
    <2>1. CASE \E docs \in SUBSET Docs :
                 /\ indexed' = indexed \cup docs /\ deleted' = deleted \ docs
                 /\ cached' = IF ~orchestrated THEN cached
                      ELSE {e \in cached : \A d \in docs : e \in Invalidated({d}, Owner[d])}
                 /\ End(r, request[r], 200, None)
      <3>1. cached' \subseteq cached /\ indexed' \subseteq Docs /\ deleted' \subseteq Docs
        BY <2>1 DEF Inv, WorldInv
      <3> QED
        BY <1>1, <2>1, <3>1, FewerCached
    <2>2. CASE \E error \in DOMAIN StatusOf :
                 End(r, request[r], StatusOf[error], None) /\ UNCHANGED world
      BY <1>1, <2>2, Statuses, Elsewhere
    <2> QED
      BY <2>1, <2>2 DEF Ingest
  <1> QED
    BY <1>1, <1>2, <1>3, Uncounted, EndsAsItIs

\* Documents are deleted.
LEMMA DeleteKeeps ==
  ASSUME Inv, NEW r \in Requests, Delete(r)
  PROVE  Inv'
  <1> DEFINE tenant == request[r].tenant
  <1>1. request[r].pc = "delete" /\ UNCHANGED service
    BY DEF Delete, At
  <1>2. request[r].kind = "delete"
    BY <1>1, Holds DEF CallInv, Placed
  <1>3. ServiceKept /\ WorldInv' /\ \E status \in Nat : End(r, request[r], status, None)
    <2>1. CASE \E docs \in SUBSET Visible(tenant) :
                 /\ indexed' = indexed \ docs /\ deleted' = deleted \cup docs
                 /\ cached' = Invalidated(docs, tenant)
                 /\ End(r, request[r], 200, None)
      <3>1. Visible(tenant) \subseteq Docs
        BY DEF Visible, Inv, WorldInv
      <3>2. cached' \subseteq cached /\ indexed' \subseteq Docs /\ deleted' \subseteq Docs
        BY <2>1, <3>1 DEF Inv, WorldInv, Invalidated
      <3> QED
        BY <1>1, <2>1, <3>2, FewerCached
    <2>2. CASE \E status \in {500, 503} :
                 End(r, request[r], status, None) /\ UNCHANGED world
      BY <1>1, <2>2, Elsewhere
    <2> QED
      BY <2>1, <2>2 DEF Delete
  <1> QED
    BY <1>1, <1>2, <1>3, Uncounted, EndsAsItIs

\* A request is let go of at shutdown.
LEMMA CancelKeeps ==
  ASSUME Inv, NEW r \in Requests, Cancel(r)
  PROVE  Inv'
  <1> DEFINE p == request[r]
  <1>1. p.entered /\ p.pc # "ended" /\ UNCHANGED <<service, world>>
    BY DEF Cancel, At
  <1>2. Placed(p)
    BY Holds DEF CallInv
  <1>3. CASE p.pc = "deltas"
    <2>1. End(r, p, 200, "cancelled")
      BY <1>3 DEF Cancel, At
    <2>2. Accounted(p, 200, "cancelled") /\ "cancelled" \in Metrics
      BY <1>2, <1>3 DEF Placed, Accounted, Metrics, None
    <2> QED
      BY <1>1, <2>1, <2>2, EndsAsItIs, Elsewhere
  <1>4. CASE p.pc # "deltas"
    <2>1. End(r, p, 0, None)
      BY <1>4 DEF Cancel, At
    <2>2. Accounted(p, 0, None)
      BY DEF Accounted
    <2> QED
      BY <1>1, <2>1, <2>2, EndsAsItIs, Elsewhere
  <1> QED
    BY <1>3, <1>4

-----------------------------------------------------------------------------
(* The theorems.                                                           *)

\* The invariant holds when the service starts to build,
LEMMA InitInv == WellConfigured /\ Init => Inv
  <1> SUFFICES ASSUME WellConfigured, Init
               PROVE  Inv
    OBVIOUS
  <1>1. ServiceInv /\ WorldInv /\ staging = {}
    BY DEF Init, ServiceInv, WorldInv, WellConfigured
  <1>2. request = [r \in Requests |-> Idle]
    BY DEF Init
  <1>3. Placed(Idle) /\ Settled(Idle)
    BY IdleTyped DEF Placed, Settled
  <1>4. Scoped(Idle, isolation)
    BY IdleTyped DEF Scoped, Rightful, OwnDocs
  <1>5. ASSUME NEW r \in Requests
        PROVE  CallInv(r, request[r], staging, isolation)
    <2>1. Staged(r, Idle, staging)
      BY IdleTyped DEF Staged
    <2> QED
      BY <1>2, <1>3, <1>4, <2>1, IdleTyped DEF CallInv
  <1>6. request \in [Requests -> CallStates]
    BY <1>2, IdleTyped
  <1> QED
    BY <1>1, <1>5, <1>6 DEF Inv

\* and every step keeps it.
LEMMA NextInv == WellConfigured /\ Inv /\ [Next]_vars => Inv'
  <1> SUFFICES ASSUME WellConfigured, Inv, [Next]_vars
               PROVE  Inv'
    OBVIOUS
  <1>1. CASE UNCHANGED vars
    BY <1>1 DEF vars, service, world, Inv, ServiceInv, WorldInv
  <1>2. ASSUME UNCHANGED <<world, staging, request>>, ServiceKept
        PROVE  Inv'
    BY <1>2 DEF world, Inv, WorldInv, ServiceKept
  <1>3. CASE Build
    <2>1. ServiceKept
      BY <1>3 DEF Build, Inv, ServiceInv, ServiceKept
    <2> QED
      BY <1>2, <1>3, <2>1 DEF Build
  <1>4. CASE Close
    <2>1. ServiceKept
      BY <1>4 DEF Close, Inv, ServiceInv, ServiceKept
    <2> QED
      BY <1>2, <1>4, <2>1 DEF Close
  <1>5. ASSUME NEW r \in Requests, Step(r)
        PROVE  Inv'
    BY <1>5, ArriveKeeps, HealthKeeps, RefusedKeeps, ReadKeeps, GuardKeeps, StageKeeps,
       CopyKeeps, PrepareKeeps, LookupKeeps, EngineKeeps, LinearKeeps, CachingKeeps,
       DeadlineKeeps, StreamKeeps, IngestKeeps, DocumentsKeeps, DeleteKeeps,
       EvaluateKeeps, CancelKeeps DEF Step
  <1> QED
    BY <1>1, <1>3, <1>4, <1>5 DEF Next

\* The invariant is one of every behaviour.
THEOREM Invariant ==
  ASSUME WellConfigured
  PROVE  Spec => []Inv
  <1>1. Init => Inv
    BY InitInv
  <1>2. Inv /\ [Next]_vars => Inv'
    BY NextInv
  <1> QED
    BY <1>1, <1>2, PTL DEF Spec

\* What the invariant says of types,
LEMMA InvTypes == Inv => TypeOK
  <1> SUFFICES ASSUME Inv
               PROVE  TypeOK
    OBVIOUS
  <1>1. ASSUME NEW r \in Requests
        PROVE  LET p == request[r]
               IN /\ p.kind \in Kinds[r] \cup {"query"} /\ p.principal \in Keys \cup {None}
                  /\ {p.asks, p.tenant} \subseteq Tenants \cup {None}
                  /\ p.pipeline \in Pipelines /\ p.answer.built \subseteq Docs
    BY Holds DEF CallInv, CallStates, Names, Principals, Given
  <1> QED
    BY <1>1 DEF Inv, ServiceInv, WorldInv, TypeOK

\* of tenants,
LEMMA InvTenants == WellConfigured /\ Inv => KeptToTenant
  <1> SUFFICES ASSUME WellConfigured, Inv
               PROVE  KeptToTenant
    OBVIOUS
  <1>1. ASSUME NEW r \in Requests
        PROVE  LET p == request[r]
               IN /\ p.answer.from # "nobody" =>
                       /\ p.principal \in DOMAIN Bindings =>
                            p.answer.from = Bindings[p.principal]
                       /\ isolation => p.answer.from = p.tenant
                  /\ isolation => OwnDocs(p.answer.built, p.tenant)
    <2>1. Scoped(request[r], isolation)
      BY Holds DEF CallInv
    <2> QED
      BY <2>1 DEF Scoped, Rightful, Resolved, WellConfigured
  <1> QED
    BY <1>1 DEF Inv, WorldInv, KeptToTenant

\* and of requests that have ended.
LEMMA InvEnds == Inv => EndsAreSettled
  <1> SUFFICES ASSUME Inv, NEW r \in Requests
               PROVE  LET p == request[r]
                      IN /\ At(r, "ended") => r \notin staging
                         /\ At(r, "ingest") /\ p.kind = "upload" => r \in staging
                         /\ At(r, "ended") =>
                              /\ p.kind = "query" =>
                                   Len(p.outcomes) = IF p.entered /\ p.status # 0 THEN 1 ELSE 0
                              /\ p.kind = "stream" =>
                                   Len(p.outcomes) = IF p.status = 200 THEN 1 ELSE 0
    BY DEF EndsAreSettled
  <1>1. Staged(r, request[r], staging) /\ Settled(request[r])
    BY Holds DEF CallInv
  <1> QED
    BY <1>1 DEF Staged, Settled, At

\* The variables keep their types through every interleaving of the requests.
THEOREM ServerTypes ==
  ASSUME WellConfigured
  PROVE  Spec => []TypeOK
  BY Invariant, InvTypes, PTL

\* Whatever a caller asks for, and whoever filled the cache before it, it is
\* answered for the tenant of its credential and, under isolation, from the
\* documents of that tenant; so is what is cached under a tenant.
THEOREM TenantsApart ==
  ASSUME WellConfigured
  PROVE  Spec => []KeptToTenant
  <1>1. Inv => KeptToTenant
    BY InvTenants
  <1> QED
    BY <1>1, Invariant, PTL

\* However a request ends, by its answer, an error, the deadline or a shutdown,
\* its upload directory is removed and the metrics have counted it once.
THEOREM Ends ==
  ASSUME WellConfigured
  PROVE  Spec => []EndsAreSettled
  BY Invariant, InvEnds, PTL
=============================================================================
