--------------------------- MODULE RemovalProofs ---------------------------
(***************************************************************************)
(* Proofs about Removal: types; that deleting a document strips nothing    *)
(* from another; and that a document reported deleted is in no store and   *)
(* in no cached answer, for any documents, entities and concurrent deletes *)
(* and any number of failures, when no graph is built meanwhile (Alone)    *)
(* and, for the last two, when the documents are not edited (OneVersion).  *)
(* Then that what has rows can be retrieved, whatever runs together, until *)
(* something fails; and that a delete alone on the graph (OneDelete)       *)
(* leaves it tidy, whatever failed before.                                 *)
(***************************************************************************)
EXTENDS Removal, TLAPS

Alone == "overlap" \notin Allowed
OneVersion == \A v, w \in Contents : v = w

\* Replacing the state of one delete keeps the type of run.
LEMMA PutRun ==
  ASSUME run \in [Runs -> RunStates], NEW r \in Runs, NEW q \in RunStates,
         run' = [run EXCEPT ![r] = q]
  PROVE  run' \in [Runs -> RunStates]
  OBVIOUS

\* The fields of a delete.
LEMMA RunFields ==
  ASSUME NEW p \in RunStates
  PROVE  /\ p.docs \in SUBSET Docs /\ p.found \in SUBSET Docs
         /\ p.left \in SUBSET Docs /\ p.chunkIds \in SUBSET Chunks
         /\ p.failed \in BOOLEAN /\ p.skipped \in BOOLEAN /\ p.asks \in BOOLEAN
         /\ p.holds \in BOOLEAN
  BY DEF RunStates

LEMMA IdleTyped == Idle \in RunStates
  BY DEF Idle, RunStates

-----------------------------------------------------------------------------
(* How each operation changes the state of its own call.                   *)

\* What a delete moves to, as a record: one disjunct per operation.
Moves(p, q) ==
    \/ \E docs \in SUBSET Docs, asks, holds \in BOOLEAN :
         q = [Idle EXCEPT !.pc = "lookup", !.docs = docs, !.asks = asks,
                          !.holds = holds, !.left = docs]
    \/ \E some \in SUBSET Of(points, p.docs), f \in {p.failed, TRUE} :
         q = [p EXCEPT !.pc = "vectors", !.chunkIds = some, !.found = DocsOf(some),
                       !.failed = f]
    \/ \E pc \in {"rows", "orphans", "communities", "answers"} : q = [p EXCEPT !.pc = pc]
    \/ \E d \in p.left : q = [p EXCEPT !.left = p.left \ {d}]
    \/ \E pc \in {"chunks", "answers"}, s \in BOOLEAN :
         q = [p EXCEPT !.pc = pc, !.skipped = s]
    \/ \E pc \in {"rows", "answers"} : q = [p EXCEPT !.pc = pc, !.failed = TRUE]
    \/ \E d \in p.left : q = [p EXCEPT !.left = p.left \ {d}, !.failed = TRUE]
    \/ q = Idle

\* Wherever a delete moves to is a state of a delete.
LEMMA MovesTyped ==
  ASSUME points \subseteq Chunks, NEW p \in RunStates, NEW q, Moves(p, q)
  PROVE  q \in RunStates
  <1>1. CASE \E docs \in SUBSET Docs, asks, holds \in BOOLEAN :
               q = [Idle EXCEPT !.pc = "lookup", !.docs = docs, !.asks = asks,
                                !.holds = holds, !.left = docs]
    BY <1>1 DEF Idle, RunStates
  <1>2. CASE \E some \in SUBSET Of(points, p.docs), f \in {p.failed, TRUE} :
               q = [p EXCEPT !.pc = "vectors", !.chunkIds = some,
                             !.found = DocsOf(some), !.failed = f]
    <2>1. PICK some \in SUBSET Of(points, p.docs), f \in {p.failed, TRUE} :
            q = [p EXCEPT !.pc = "vectors", !.chunkIds = some,
                          !.found = DocsOf(some), !.failed = f]
      BY <1>2
    <2>2. some \in SUBSET Chunks /\ f \in BOOLEAN
      BY RunFields DEF Of
    <2>3. DocsOf(some) \in SUBSET Docs
      BY <2>2 DEF DocsOf, Chunks
    <2> QED
      BY <2>1, <2>2, <2>3 DEF RunStates
  <1>3. CASE \E pc \in {"rows", "orphans", "communities", "answers"} : q = [p EXCEPT !.pc = pc]
    BY <1>3 DEF RunStates
  <1>4. CASE \E d \in p.left : q = [p EXCEPT !.left = p.left \ {d}]
    BY <1>4 DEF RunStates
  <1>5. CASE \E pc \in {"chunks", "answers"}, s \in BOOLEAN :
               q = [p EXCEPT !.pc = pc, !.skipped = s]
    BY <1>5 DEF RunStates
  <1>6. CASE \E pc \in {"rows", "answers"} : q = [p EXCEPT !.pc = pc, !.failed = TRUE]
    BY <1>6 DEF RunStates
  <1>7. CASE \E d \in p.left : q = [p EXCEPT !.left = p.left \ {d}, !.failed = TRUE]
    BY <1>7 DEF RunStates
  <1>8. CASE q = Idle
    BY <1>8, IdleTyped
  <1> QED
    BY <1>1, <1>2, <1>3, <1>4, <1>5, <1>6, <1>7, <1>8 DEF Moves

\* Every operation of a delete is such a move, and touches no other call.
LEMMA DeleteMoves ==
  ASSUME TypeOK, NEW r \in Runs, Delete(r)
  PROVE  \E q : Moves(run[r], q) /\ run' = [run EXCEPT ![r] = q]
  <1> DEFINE p == run[r]
             Goal == \E q : Moves(p, q) /\ run' = [run EXCEPT ![r] = q]
  <1>0. p \in RunStates
    BY DEF TypeOK
  <1>1. ASSUME NEW docs \in SUBSET Docs, NEW asks \in BOOLEAN, NEW holds \in BOOLEAN,
               Start(r, docs, asks, holds)
        PROVE  Goal
    BY <1>1 DEF Start, Moves
  <1>2. CASE LookUp(r)
    <2> DEFINE here == Of(points, p.docs)
    <2>1. run' = [run EXCEPT ![r] = [p EXCEPT !.pc = "vectors", !.chunkIds = here,
                                              !.found = DocsOf(here)]]
      BY <1>2 DEF LookUp
    <2>2. [p EXCEPT !.pc = "vectors", !.chunkIds = here, !.found = DocsOf(here)]
            = [p EXCEPT !.pc = "vectors", !.chunkIds = here, !.found = DocsOf(here),
                        !.failed = p.failed]
      BY <1>0 DEF RunStates
    <2>3. here \in SUBSET Of(points, p.docs)
      OBVIOUS
    <2> HIDE DEF here
    <2> QED
      BY <2>1, <2>2, <2>3 DEF Moves
  <1>3. CASE DeleteVectors(r)
    <2>1. run' = [run EXCEPT ![r] = [p EXCEPT !.pc = "rows"]]
      BY <1>3 DEF DeleteVectors
    <2> QED
      BY <2>1 DEF Moves
  <1>4. CASE DeleteRows(r)
    <2>1. PICK d \in p.left : run' = [run EXCEPT ![r] = [p EXCEPT !.left = p.left \ {d}]]
      BY <1>4 DEF DeleteRows
    <2> QED
      BY <2>1 DEF Moves
  <1>5. CASE AskGraph(r)
    <2> DEFINE pc == IF p.chunkIds # {} /\ p.asks THEN "chunks" ELSE "answers"
               s == p.chunkIds # {} /\ ~p.asks
    <2>1. run' = [run EXCEPT ![r] = [p EXCEPT !.pc = pc, !.skipped = s]]
      BY <1>5 DEF AskGraph
    <2>2. pc \in {"chunks", "answers"} /\ s \in BOOLEAN
      BY <1>0, RunFields
    <2> HIDE DEF pc, s
    <2> QED
      BY <2>1, <2>2 DEF Moves
  <1>6. CASE DeleteChunkNodes(r)
    <2>1. run' = [run EXCEPT ![r] = [p EXCEPT !.pc = "orphans"]]
      BY <1>6 DEF DeleteChunkNodes
    <2> QED
      BY <2>1 DEF Moves
  <1>7. CASE DeleteOrphans(r)
    <2>1. run' = [run EXCEPT ![r] = [p EXCEPT !.pc = "communities"]]
      BY <1>7 DEF DeleteOrphans
    <2> QED
      BY <2>1 DEF Moves
  <1>8. CASE DeleteEmptyCommunities(r)
    <2>1. run' = [run EXCEPT ![r] = [p EXCEPT !.pc = "answers"]]
      BY <1>8 DEF DeleteEmptyCommunities
    <2> QED
      BY <2>1 DEF Moves
  <1>9. CASE InvalidateAnswers(r)
    BY <1>9 DEF InvalidateAnswers, Moves
  <1>10. CASE StatementFails(r)
    <2> DEFINE pc == After[p.pc]
    <2>1. run' = [run EXCEPT ![r] = [p EXCEPT !.pc = pc, !.failed = TRUE]]
      BY <1>10 DEF StatementFails
    <2>2. pc \in {"rows", "answers"}
      BY <1>10 DEF StatementFails, After
    <2> HIDE DEF pc
    <2> QED
      BY <2>1, <2>2 DEF Moves
  <1>11. CASE RowsFail(r)
    <2>1. PICK d \in p.left :
            run' = [run EXCEPT ![r] = [p EXCEPT !.left = p.left \ {d}, !.failed = TRUE]]
      BY <1>11 DEF RowsFail
    <2> QED
      BY <2>1 DEF Moves
  <1>12. CASE AnswersFail(r)
    BY <1>12 DEF AnswersFail, Moves
  <1>13. CASE Dies(r)
    BY <1>13 DEF Dies, Moves
  <1>14. CASE LookUpFails(r)
    <2>1. PICK some \in SUBSET Of(points, p.docs) :
            run' = [run EXCEPT ![r].pc = "vectors", ![r].chunkIds = some,
                               ![r].found = DocsOf(some), ![r].failed = TRUE]
      BY <1>14 DEF LookUpFails
    <2>2. run' = [run EXCEPT ![r] = [p EXCEPT !.pc = "vectors", !.chunkIds = some,
                                              !.found = DocsOf(some), !.failed = TRUE]]
      BY <2>1
    <2> QED
      BY <2>2 DEF Moves
  <1> QED
    BY <1>1, <1>2, <1>3, <1>4, <1>5, <1>6, <1>7, <1>8, <1>9, <1>10, <1>11,
       <1>12, <1>13, <1>14 DEF Delete

\* No operation of a delete adds anything to a store, and none touches the
\* build.
LEMMA DeleteShrinks ==
  ASSUME TypeOK, NEW r \in Runs, Delete(r)
  PROVE  /\ points' \subseteq points /\ rows' \subseteq rows
         /\ cached' = cached /\ answering' = answering
         /\ leaving' \subseteq cached /\ missed' \subseteq Chunks
         /\ rowless \subseteq rowless' /\ rowless' \subseteq Docs
         /\ chunkNode' \subseteq chunkNode
         /\ mention' = {m \in mention : m[1] \in chunkNode'}
         /\ community' \subseteq community /\ build' = build
         /\ \A e \in Entities : Mentioned(e) => entity'[e] = entity[e]
         /\ entity' \in [Entities -> {"absent", "bare", "described"}]
  <1> USE DEF TypeOK, indexed, answers, graph, said
  <1>1. ASSUME NEW docs \in SUBSET Docs, NEW asks \in BOOLEAN, NEW holds \in BOOLEAN,
               Start(r, docs, asks, holds)
        PROVE  UNCHANGED <<indexed, graph, rowless, build>>
    BY <1>1 DEF Start
  <1>2. LookUp(r) \/ LookUpFails(r) => UNCHANGED <<indexed, graph, rowless, build>>
    BY DEF LookUp, LookUpFails
  <1>3. DeleteVectors(r) =>
          points' \subseteq points /\ UNCHANGED <<rows, answers, graph, rowless, build>>
    BY DEF DeleteVectors
  <1>4. DeleteRows(r) =>
          rows' \subseteq rows /\ UNCHANGED <<points, answers, graph, rowless, build>>
    BY DEF DeleteRows
  <1>5. AskGraph(r) => /\ UNCHANGED <<indexed, graph, build>>
                       /\ rowless \subseteq rowless' /\ rowless' \subseteq Docs
    BY RunFields DEF AskGraph
  <1>6. CASE DeleteChunkNodes(r)
    BY <1>6 DEF DeleteChunkNodes
  <1>7. CASE DeleteOrphans(r)
    BY <1>7 DEF DeleteOrphans
  <1>8. DeleteEmptyCommunities(r) =>
          /\ community' \subseteq community
          /\ UNCHANGED <<indexed, chunkNode, mention, entity, rowless, build>>
    BY DEF DeleteEmptyCommunities
  <1>9. InvalidateAnswers(r) \/ AnswersFail(r) =>
          /\ UNCHANGED <<points, rows, cached, answering, graph, rowless, build>>
          /\ leaving' \subseteq cached /\ missed' \subseteq Chunks
    BY DEF InvalidateAnswers, AnswersFail, Uncache, Overlook, Of
  <1>10. StatementFails(r) \/ RowsFail(r) \/ Dies(r) =>
           UNCHANGED <<indexed, graph, rowless, build>>
    BY DEF StatementFails, RowsFail, Dies
  <1> QED
    BY <1>1, <1>2, <1>3, <1>4, <1>5, <1>6, <1>7, <1>8, <1>9, <1>10 DEF Delete

\* Only Start, InvalidateAnswers and AnswersFail file a report.
LEMMA ReportTyped ==
  ASSUME TypeOK, NEW r \in Runs, Delete(r)
  PROVE  report' \in [Docs -> {"none", "failed", "skipped", "complete", "deleted"}]
  <1> USE DEF TypeOK, said
  <1>1. ASSUME NEW docs \in SUBSET Docs, NEW asks \in BOOLEAN, NEW holds \in BOOLEAN,
               Start(r, docs, asks, holds)
        PROVE  report' \in [Docs -> {"none", "failed", "skipped", "complete", "deleted"}]
    BY <1>1 DEF Start
  <1>2. CASE InvalidateAnswers(r)
    BY <1>2 DEF InvalidateAnswers, Filed, Verdict
  <1>3. CASE AnswersFail(r)
    BY <1>3 DEF AnswersFail, Filed, Verdict
  <1>4. CASE LookUp(r) \/ LookUpFails(r) \/ DeleteVectors(r) \/ DeleteRows(r) \/ AskGraph(r)
    BY <1>4 DEF LookUp, LookUpFails, DeleteVectors, DeleteRows, AskGraph
  <1>5. CASE DeleteChunkNodes(r) \/ DeleteOrphans(r) \/ DeleteEmptyCommunities(r)
    BY <1>5 DEF DeleteChunkNodes, DeleteOrphans, DeleteEmptyCommunities
  <1>6. CASE StatementFails(r) \/ RowsFail(r) \/ Dies(r)
    BY <1>6 DEF StatementFails, RowsFail, Dies
  <1> QED
    BY <1>1, <1>2, <1>3, <1>4, <1>5, <1>6 DEF Delete

LEMMA FaultsTyped ==
  ASSUME TypeOK, Next
  PROVE  faults' \in 0..MaxFaults
  <1>1. faults' = faults \/ Fault
    BY DEF Next, Build, Delete, Ingest, Answer, CacheAnswer, Expire, ReadChunks, UpsertEntities,
           UpsertRelations, UpsertChunkLinks, UpsertCommunities,
           PruneCommunities, BuildFails, Start, LookUp, LookUpFails, DeleteVectors,
           DeleteRows, AskGraph, DeleteChunkNodes, DeleteOrphans,
           DeleteEmptyCommunities, InvalidateAnswers, StatementFails, RowsFail,
           AnswersFail, Dies
  <1> QED
    BY <1>1, RemovalAssumption DEF TypeOK, Fault

-----------------------------------------------------------------------------
(* Types.                                                                  *)

LEMMA BuildTyped ==
  ASSUME TypeOK, Build
  PROVE  /\ build' \in BuildStates
         /\ entity' \in [Entities -> {"absent", "bare", "described"}]
         /\ chunkNode' \subseteq Chunks /\ mention' \subseteq chunkNode' \X Entities
         /\ community' \subseteq SUBSET Entities
         /\ UNCHANGED <<indexed, run, said>>
  <1> USE RemovalAssumption DEF TypeOK, graph
  <1>0. \A chunks \in SUBSET Chunks : Extracted(chunks) \in SUBSET Entities
    BY DEF Extracted
  <1>1. CASE ReadChunks
    <2>1. PICK chunks \in (SUBSET points) \ {{}} :
            \E found \in {{}, {Extracted(chunks)}} :
              build' = [pc |-> "entities", chunks |-> chunks, communities |-> found]
      BY <1>1 DEF ReadChunks
    <2>2. Extracted(chunks) \in SUBSET Entities /\ chunks \in SUBSET Chunks
      BY <1>0
    <2>3. build' \in BuildStates
      BY <2>1, <2>2 DEF BuildStates
    <2> QED
      BY <1>1, <2>3 DEF ReadChunks
  <1>2. CASE UpsertEntities
    <2>1. build' \in BuildStates
      BY <1>2 DEF UpsertEntities, BuildStates
    <2> QED
      BY <1>2, <2>1 DEF UpsertEntities
  <1>3. CASE UpsertRelations
    <2>1. build' \in BuildStates
      BY <1>3 DEF UpsertRelations, BuildStates
    <2> QED
      BY <1>3, <2>1 DEF UpsertRelations
  <1>4. CASE UpsertChunkLinks
    <2>1. build' \in BuildStates
      BY <1>4 DEF UpsertChunkLinks, BuildStates, NoBuild
    <2>2. build.chunks \in SUBSET Chunks
      BY DEF BuildStates
    <2>3. chunkNode' \subseteq Chunks
      BY <1>4, <2>2 DEF UpsertChunkLinks
    <2>4. \A m \in build.chunks \X Entities :
            m[2] \in Says[m[1]] => m \in chunkNode' \X Entities
      BY <1>4 DEF UpsertChunkLinks
    <2>5. mention' \subseteq chunkNode' \X Entities
      BY <1>4, <2>4 DEF UpsertChunkLinks
    <2> QED
      BY <1>4, <2>1, <2>3, <2>5 DEF UpsertChunkLinks
  <1>5. CASE UpsertCommunities
    <2>1. build' \in BuildStates
      BY <1>5 DEF UpsertCommunities, BuildStates
    <2>2. build.communities \subseteq SUBSET Entities
      BY DEF BuildStates
    <2> QED
      BY <1>5, <2>1, <2>2 DEF UpsertCommunities
  <1>6. CASE PruneCommunities
    BY <1>6 DEF PruneCommunities, BuildStates, NoBuild
  <1>7. CASE BuildFails
    BY <1>7 DEF BuildFails, BuildStates, NoBuild
  <1> QED
    BY <1>1, <1>2, <1>3, <1>4, <1>5, <1>6, <1>7 DEF Build

LEMMA TypeStep == TypeOK /\ [Next]_vars => TypeOK'
  <1> SUFFICES ASSUME TypeOK, [Next]_vars PROVE TypeOK'
    OBVIOUS
  <1>1. ASSUME NEW d \in Docs, NEW v \in Contents, Ingest(d, v)
        PROVE  TypeOK'
    <2>1. PICK old \in {{}, {d}} :
            /\ points' = (points \ Of(points, old)) \cup {<<d, v>>}
            /\ rows' = (rows \ Of(rows, old)) \cup {<<d, v>>}
            /\ Uncache(old) \/ Overlook(old)
      BY <1>1 DEF Ingest
    <2>2. /\ cached' \subseteq Chunks /\ answering' \subseteq Chunks
          /\ leaving' \subseteq cached' /\ missed' \subseteq Chunks
      BY <2>1 DEF Uncache, Overlook, Of, TypeOK
    <2>3. points' \subseteq Chunks /\ rows' \subseteq Chunks
      BY <2>1 DEF Chunks, TypeOK
    <2> QED
      BY <1>1, <2>2, <2>3 DEF Ingest, TypeOK, graph
  <1>2. ASSUME NEW c \in Chunks, Answer(c) \/ CacheAnswer(c) \/ Expire(c)
        PROVE  TypeOK'
    BY <1>2 DEF Answer, CacheAnswer, Expire, Cache, TypeOK, graph, said
  <1>3. CASE Build
    <2>1. faults' \in 0..MaxFaults
      BY <1>3, FaultsTyped DEF Next
    <2> QED
      BY <1>3, <2>1, BuildTyped DEF TypeOK, indexed, answers, said
  <1>4. ASSUME NEW r \in Runs, Delete(r)
        PROVE  TypeOK'
    <2>1. PICK q : Moves(run[r], q) /\ run' = [run EXCEPT ![r] = q]
      BY <1>4, DeleteMoves
    <2>2. q \in RunStates
      BY <2>1, MovesTyped DEF TypeOK
    <2>3. run' \in [Runs -> RunStates]
      BY <2>1, <2>2, PutRun DEF TypeOK
    <2>4. faults' \in 0..MaxFaults
      BY <1>4, FaultsTyped DEF Next
    <2>5. mention' \subseteq chunkNode' \X Entities
      BY <1>4, DeleteShrinks DEF TypeOK
    <2> QED
      BY <1>4, <2>3, <2>4, <2>5, DeleteShrinks, ReportTyped DEF TypeOK
  <1>5. CASE UNCHANGED vars
    BY <1>5 DEF vars, TypeOK
  <1> QED
    BY <1>1, <1>2, <1>3, <1>4, <1>5 DEF Next

LEMMA TypeInit == Init => TypeOK
  BY RemovalAssumption, IdleTyped DEF Init, TypeOK, NoBuild, BuildStates

\* The variables of `RAGPipeline.delete`, of the stores it empties and of the
\* graph build keep their types.
THEOREM TypeCorrect == Spec => []TypeOK
  BY TypeInit, TypeStep, PTL DEF Spec

-----------------------------------------------------------------------------
(* Nothing is stripped from a document that stays.                         *)

\* The strengthening: no delete is under way while the graph is built, a call
\* that is not under way names no document, and what the build is about to
\* link is described already.
Intact ==
    /\ TypeOK
    /\ \A r \in Runs : At(r, "idle") => run[r].docs = {} /\ run[r].found = {}
    /\ build.pc = "idle" \/ \A r \in Runs : At(r, "idle")
    /\ build.pc \in {"relations", "links"} =>
         \A e \in Extracted(build.chunks) : entity[e] = "described"
    /\ NothingStripped

\* A call that was idle can only start, and it starts only between builds.
LEMMA StartsAlone ==
  ASSUME Alone, NEW r \in Runs, Delete(r), At(r, "idle")
  PROVE  build.pc = "idle"
  BY DEF Alone, At, Delete, Start, DeleteMayStart, LookUp, LookUpFails, DeleteVectors,
         DeleteRows, AskGraph, DeleteChunkNodes, DeleteOrphans,
         DeleteEmptyCommunities, InvalidateAnswers, StatementFails, RowsFail,
         AnswersFail, Dies, After

\* Where a delete moves, it is idle only with no document named.
LEMMA MovesIdle ==
  ASSUME NEW p \in RunStates, NEW q, Moves(p, q), q.pc = "idle",
         p.pc = "idle" => p.docs = {} /\ p.found = {}
  PROVE  q.docs = {} /\ q.found = {}
  <1>1. \/ q = Idle
        \/ q.pc = p.pc /\ q.docs = p.docs /\ q.found = p.found
    BY DEF Moves, RunStates, Idle
  <1> QED
    BY <1>1 DEF Idle

LEMMA IntactDelete ==
  ASSUME Alone, Intact, NEW r \in Runs, Delete(r)
  PROVE  Intact'
  <1> USE DEF Intact
  <1>1. TypeOK'
    BY TypeStep DEF Next
  <1>2. PICK q : Moves(run[r], q) /\ run' = [run EXCEPT ![r] = q]
    BY DeleteMoves
  <1>3. \A s \in Runs : run'[s].pc = "idle" => run'[s].docs = {} /\ run'[s].found = {}
    <2> SUFFICES ASSUME NEW s \in Runs, run'[s].pc = "idle"
                 PROVE  run'[s].docs = {} /\ run'[s].found = {}
      OBVIOUS
    <2>1. CASE s = r
      <3>1. run[r] \in RunStates
        BY DEF TypeOK
      <3>2. run'[s] = q
        BY <1>2, <2>1 DEF TypeOK
      <3>3. run[r].pc = "idle" => run[r].docs = {} /\ run[r].found = {}
        BY DEF At
      <3> QED
        BY <1>2, <3>1, <3>2, <3>3, MovesIdle
    <2>2. CASE s # r
      BY <1>2, <2>2 DEF At, TypeOK
    <2> QED
      BY <2>1, <2>2
  <1>4. build.pc = "idle" /\ build' = build
    BY StartsAlone, DeleteShrinks
  <1>5. NothingStripped'
    <2> SUFFICES ASSUME NEW c \in chunkNode', NEW e \in Says[c]
                 PROVE  <<c, e>> \in mention' /\ entity'[e] = "described"
      BY DEF NothingStripped
    <2>1. c \in chunkNode /\ c \in Chunks /\ e \in Entities
      BY DeleteShrinks, RemovalAssumption DEF TypeOK
    <2>2. <<c, e>> \in mention /\ entity[e] = "described"
      BY <2>1 DEF NothingStripped
    <2>3. Mentioned(e)
      BY <2>2 DEF Mentioned
    <2> QED
      BY <2>1, <2>2, <2>3, DeleteShrinks
  <1> QED
    BY <1>1, <1>3, <1>4, <1>5 DEF At

LEMMA IntactBuild ==
  ASSUME Alone, Intact, Build
  PROVE  Intact'
  <1> USE DEF Intact
  <1>1. TypeOK'
    BY TypeStep DEF Next
  <1>2. UNCHANGED <<indexed, run, said>>
    BY BuildTyped
  <1>3. \A r \in Runs : At(r, "idle")
    <2>1. CASE ReadChunks
      BY <2>1 DEF ReadChunks, BuildMayStart, Alone
    <2>2. CASE ~ReadChunks
      BY <2>2 DEF Build, UpsertEntities, UpsertRelations, UpsertChunkLinks,
                  UpsertCommunities, PruneCommunities, BuildFails
    <2> QED
      BY <2>1, <2>2
  <1>4. build.chunks \in SUBSET Chunks
    BY DEF TypeOK, BuildStates
  <1>5. \A c \in Chunks : Says[c] \in SUBSET Entities
    BY RemovalAssumption
  <1>6. \A c \in chunkNode : c \in Chunks
    BY DEF TypeOK
  <1> DEFINE Ready == build.pc \in {"relations", "links"} =>
                        \A e \in Extracted(build.chunks) : entity[e] = "described"
  <1>7. Ready' /\ NothingStripped'
    <2>1. CASE ReadChunks
      BY <2>1 DEF ReadChunks, graph, NothingStripped
    <2>2. CASE UpsertEntities
      <3>1. Extracted(build.chunks) \in SUBSET Entities
        BY <1>4, <1>5 DEF Extracted
      <3>2. build'.chunks = build.chunks
        BY <2>2 DEF UpsertEntities, TypeOK, BuildStates
      <3>3. \A e \in Extracted(build.chunks) : entity'[e] = "described"
        BY <2>2, <3>1 DEF UpsertEntities
      <3>4. \A e \in Entities : entity[e] = "described" => entity'[e] = "described"
        BY <2>2 DEF UpsertEntities
      <3>5. NothingStripped'
        BY <2>2, <3>4, <1>5, <1>6 DEF UpsertEntities, NothingStripped
      <3>6. Ready'
        BY <3>2, <3>3 DEF Extracted
      <3> QED
        BY <3>5, <3>6
    <2>3. CASE UpsertRelations
      <3>1. build'.chunks = build.chunks
        BY <2>3 DEF UpsertRelations, TypeOK, BuildStates
      <3>2. \A e \in Entities : entity[e] = "described" => entity'[e] = "described"
        BY <2>3 DEF UpsertRelations
      <3>3. Extracted(build.chunks) \in SUBSET Entities
        BY <1>4, <1>5 DEF Extracted
      <3>4. \A e \in Extracted(build.chunks) : entity'[e] = "described"
        BY <2>3, <3>2, <3>3 DEF UpsertRelations
      <3>5. Ready'
        BY <3>1, <3>4 DEF Extracted
      <3>6. NothingStripped'
        BY <2>3, <3>2, <1>5, <1>6 DEF UpsertRelations, NothingStripped
      <3> QED
        BY <3>5, <3>6
    <2>4. CASE UpsertChunkLinks
      <3>1. build'.pc \in {"idle", "communities"}
        BY <2>4 DEF UpsertChunkLinks, NoBuild, TypeOK, BuildStates
      <3>2. \A e \in Entities : entity[e] = "described" => entity'[e] = "described"
        BY <2>4 DEF UpsertChunkLinks
      <3>3. \A e \in Extracted(build.chunks) : entity[e] = "described"
        BY <2>4 DEF UpsertChunkLinks
      <3> SUFFICES ASSUME NEW c \in chunkNode', NEW e \in Says[c]
                   PROVE  <<c, e>> \in mention' /\ entity'[e] = "described"
        BY <3>1 DEF NothingStripped
      <3>4. CASE c \in chunkNode
        BY <2>4, <3>2, <3>4, <1>5, <1>6 DEF UpsertChunkLinks, NothingStripped
      <3>5. CASE c \in build.chunks
        <4>1. e \in Extracted(build.chunks) /\ e \in Entities
          BY <3>5, <1>4, <1>5 DEF Extracted
        <4>2. <<c, e>> \in mention'
          BY <2>4, <3>5, <4>1 DEF UpsertChunkLinks
        <4> QED
          BY <3>2, <3>3, <4>1, <4>2
      <3> QED
        BY <2>4, <3>4, <3>5 DEF UpsertChunkLinks
    <2>5. CASE UpsertCommunities
      BY <2>5 DEF UpsertCommunities, NothingStripped, TypeOK, BuildStates
    <2>6. CASE PruneCommunities
      BY <2>6 DEF PruneCommunities, NothingStripped, NoBuild
    <2>7. CASE BuildFails
      BY <2>7 DEF BuildFails, NothingStripped, NoBuild, graph
    <2> QED
      BY <2>1, <2>2, <2>3, <2>4, <2>5, <2>6, <2>7 DEF Build
  <1> QED
    BY <1>1, <1>2, <1>3, <1>7 DEF At

LEMMA IntactStep == ASSUME Alone PROVE Intact /\ [Next]_vars => Intact'
  <1> SUFFICES ASSUME Intact, [Next]_vars PROVE Intact'
    OBVIOUS
  <1>1. TypeOK'
    BY TypeStep DEF Intact
  <1>2. ASSUME NEW d \in Docs, NEW v \in Contents, Ingest(d, v)
        PROVE  Intact'
    BY <1>1, <1>2 DEF Ingest, Intact, NothingStripped, graph, At
  <1>3. ASSUME NEW c \in Chunks, Answer(c) \/ CacheAnswer(c) \/ Expire(c)
        PROVE  Intact'
    BY <1>1, <1>3 DEF Answer, CacheAnswer, Expire, Intact, NothingStripped, graph, At
  <1>4. CASE UNCHANGED vars
    BY <1>1, <1>4 DEF vars, Intact, NothingStripped, At
  <1> QED
    BY <1>2, <1>3, <1>4, IntactBuild, IntactDelete DEF Next

LEMMA IntactInit == Init => Intact
  BY TypeInit DEF Init, Intact, NothingStripped, At, Idle, NoBuild

\* A Chunk node keeps every entity its chunk says, described, whatever is
\* deleted beside it and whatever fails: the rule of `delete_chunks` that an
\* entity goes only when nothing mentions it is enough when no build overlaps.
THEOREM NothingIsStripped == ASSUME Alone PROVE Spec => []NothingStripped
  <1>1. Intact => NothingStripped
    BY DEF Intact
  <1> QED
    BY <1>1, IntactInit, IntactStep, PTL DEF Spec

-----------------------------------------------------------------------------
(* A document reported deleted is in no store.                             *)

AfterVectors == {"rows", "chunks", "orphans", "communities", "answers"}
AfterRows == AfterVectors \ {"rows"}
AfterNodes == AfterRows \ {"chunks"}

\* What a delete that has met no failure has done so far.
Swept(p) ==
    ~p.failed =>
        /\ p.pc \in {"lookup", "vectors"} => p.left = p.docs
        /\ p.pc \in AfterVectors => Of(points, p.docs) = {}
        /\ p.pc = "rows" /\ p.holds => Of(rows, p.docs \ p.left) = {}
        /\ p.pc \in AfterRows => Of(rows, p.docs \ rowless) = {}
        /\ p.pc \in AfterNodes /\ ~p.skipped => Of(chunkNode, p.found) = {}

\* The strengthening: the documents found are those the chunk ids name, every
\* call has swept what it has passed, a build links only what is indexed, and
\* the reports filed are true.
Honest ==
    /\ \A r \in Runs : /\ run[r].found \subseteq run[r].docs
                       /\ run[r].found \subseteq DocsOf(run[r].chunkIds)
                       /\ Swept(run[r])
    /\ build.pc # "idle" => build.chunks \subseteq points
    /\ DeletedIsGone

\* Sweeping is not undone by taking more away.
LEMMA SweptStays ==
  ASSUME NEW p, Swept(p), points' \subseteq points, rows' \subseteq rows,
         chunkNode' \subseteq chunkNode, rowless \subseteq rowless'
  PROVE  /\ ~p.failed => /\ p.pc \in {"lookup", "vectors"} => p.left = p.docs
                         /\ p.pc \in AfterVectors => Of(points', p.docs) = {}
                         /\ p.pc = "rows" /\ p.holds => Of(rows', p.docs \ p.left) = {}
                         /\ p.pc \in AfterRows => Of(rows', p.docs \ rowless') = {}
                         /\ p.pc \in AfterNodes /\ ~p.skipped =>
                                Of(chunkNode', p.found) = {}
  BY DEF Swept, Of

LEMMA GoneStays ==
  ASSUME NEW d, Gone(d), points' \subseteq points, rows' \subseteq rows,
         chunkNode' \subseteq chunkNode, rowless \subseteq rowless'
  PROVE  Gone(d)'
  BY DEF Gone, Of

\* Each operation of a delete sweeps its part of the stores.
LEMMA SweepStep ==
  ASSUME OneVersion, TypeOK, Honest, NEW r \in Runs, Delete(r)
  PROVE  /\ run'[r].found \subseteq run'[r].docs
         /\ run'[r].found \subseteq DocsOf(run'[r].chunkIds)
         /\ Swept(run[r])' 
  <1> DEFINE p == run[r]
             Goal == /\ run'[r].found \subseteq run'[r].docs
                     /\ run'[r].found \subseteq DocsOf(run'[r].chunkIds)
                     /\ Swept(run[r])'
  <1>0. p \in RunStates /\ run \in [Runs -> RunStates]
    BY DEF TypeOK
  <1>01. /\ p.found \subseteq p.docs /\ p.found \subseteq DocsOf(p.chunkIds)
         /\ Swept(p)
    BY DEF Honest
  <1> USE <1>0, <1>01 DEF AfterVectors, AfterRows, AfterNodes
  <1>1. ASSUME NEW docs \in SUBSET Docs, NEW asks \in BOOLEAN, NEW holds \in BOOLEAN,
               Start(r, docs, asks, holds)
        PROVE  Goal
    BY <1>1 DEF Start, Swept, Idle
  <1>2. CASE LookUp(r)
    <2>1. /\ run'[r].pc = "vectors" /\ run'[r].docs = p.docs
          /\ run'[r].chunkIds = Of(points, p.docs)
          /\ run'[r].found = DocsOf(Of(points, p.docs))
      BY <1>2 DEF LookUp, RunStates
    <2>2. /\ run'[r].left = p.left /\ run'[r].failed = p.failed
          /\ p.pc = "lookup"
      BY <1>2 DEF LookUp, RunStates, At
    <2>3. run'[r].found \subseteq p.docs
      BY <2>1 DEF DocsOf, Of
    <2> QED
      BY <2>1, <2>2, <2>3 DEF Swept
  <1>3. CASE DeleteVectors(r)
    <2>1. run'[r] = [p EXCEPT !.pc = "rows"]
      BY <1>3 DEF DeleteVectors
    <2>2. Of(points', p.docs) = {}
      BY <1>3 DEF DeleteVectors, Of
    <2>3. rows' = rows /\ p.pc = "vectors" /\ (~p.failed => p.left = p.docs)
      BY <1>3 DEF DeleteVectors, At, Swept
    <2> QED
      BY <2>1, <2>2, <2>3 DEF Swept, Of, RunStates
  <1>4. CASE DeleteRows(r)
    <2>1. PICK d \in p.left :
            /\ rows' = rows \ Of(rows, {d})
            /\ run' = [run EXCEPT ![r] = [p EXCEPT !.left = p.left \ {d}]]
      BY <1>4 DEF DeleteRows
    <2>2. /\ run'[r].pc = "rows" /\ run'[r].docs = p.docs
          /\ run'[r].chunkIds = p.chunkIds /\ run'[r].found = p.found
          /\ run'[r].failed = p.failed /\ run'[r].left = p.left \ {d}
      BY <1>4, <2>1 DEF DeleteRows, At, RunStates
    <2>3. points' = points
      BY <1>4 DEF DeleteRows
    <2>4. ~p.failed => Of(points, p.docs) = {} /\ Of(rows, p.docs \ p.left) = {}
      BY <1>4 DEF DeleteRows, At, Swept
    <2>5. ~p.failed => Of(rows', p.docs \ (p.left \ {d})) = {}
      BY <2>1, <2>4 DEF Of
    <2> QED
      BY <2>2, <2>3, <2>4, <2>5 DEF Swept
  <1>5. CASE AskGraph(r)
    <2> DEFINE pc == IF p.chunkIds # {} /\ p.asks THEN "chunks" ELSE "answers"
               s == p.chunkIds # {} /\ ~p.asks
    <2>1. run'[r] = [p EXCEPT !.pc = pc, !.skipped = s]
      BY <1>5 DEF AskGraph
    <2>2. UNCHANGED <<points, rows, chunkNode>>
      BY <1>5 DEF AskGraph, indexed, answers, graph
    <2>3. ~p.failed => Of(points, p.docs) = {} /\ Of(rows, p.docs \ rowless') = {}
      <3>1. CASE p.holds
        BY <1>5, <3>1 DEF AskGraph, Swept, Of
      <3>2. CASE ~p.holds
        BY <1>5, <3>2 DEF AskGraph, Swept, Of
      <3> QED
        BY <3>1, <3>2
    <2>4. pc = "answers" /\ ~s => p.found = {}
      BY RunFields DEF DocsOf
    <2>5. pc \in {"chunks", "answers"}
      OBVIOUS
    <2>6. /\ run'[r].pc = pc /\ run'[r].docs = p.docs
          /\ run'[r].chunkIds = p.chunkIds /\ run'[r].found = p.found
          /\ run'[r].failed = p.failed /\ run'[r].skipped = s
      BY <2>1 DEF RunStates
    <2> HIDE DEF pc, s
    <2> QED
      BY <2>2, <2>3, <2>4, <2>5, <2>6 DEF Swept, Of
  <1>6. CASE DeleteChunkNodes(r)
    <2>1. run'[r] = [p EXCEPT !.pc = "orphans"] /\ chunkNode' = chunkNode \ p.chunkIds
      BY <1>6 DEF DeleteChunkNodes
    <2>2. \A c, e \in Chunks : c[1] = e[1] => c = e
      BY DEF Chunks, OneVersion
    <2>3. Of(chunkNode', p.found) = {}
      BY <2>1, <2>2, RunFields DEF Of, DocsOf, TypeOK
    <2>4. UNCHANGED <<points, rows, rowless>>
      BY <1>6 DEF DeleteChunkNodes, indexed, said
    <2> QED
      BY <1>6, <2>1, <2>3, <2>4 DEF Swept, DeleteChunkNodes, At, RunStates
  <1>7. CASE DeleteOrphans(r)
    <2>1. run'[r] = [p EXCEPT !.pc = "communities"]
      BY <1>7 DEF DeleteOrphans
    <2>2. UNCHANGED <<points, rows, chunkNode, rowless>>
      BY <1>7 DEF DeleteOrphans, indexed, said
    <2> QED
      BY <1>7, <2>1, <2>2 DEF Swept, DeleteOrphans, At, RunStates
  <1>8. CASE DeleteEmptyCommunities(r)
    <2>1. run'[r] = [p EXCEPT !.pc = "answers"]
      BY <1>8 DEF DeleteEmptyCommunities
    <2>2. UNCHANGED <<points, rows, chunkNode, rowless>>
      BY <1>8 DEF DeleteEmptyCommunities, indexed, said
    <2> QED
      BY <1>8, <2>1, <2>2 DEF Swept, DeleteEmptyCommunities, At, RunStates
  <1>9. CASE InvalidateAnswers(r) \/ AnswersFail(r) \/ Dies(r)
    <2>1. run'[r] = Idle
      BY <1>9 DEF InvalidateAnswers, AnswersFail, Dies
    <2> QED
      BY <2>1 DEF Swept, Idle
  <1>10. CASE StatementFails(r)
    <2>1. run'[r] = [p EXCEPT !.pc = After[p.pc], !.failed = TRUE]
      BY <1>10 DEF StatementFails
    <2> QED
      BY <2>1 DEF Swept, RunStates
  <1>11. CASE RowsFail(r)
    <2>1. PICK d \in p.left : run'[r] = [p EXCEPT !.left = p.left \ {d}, !.failed = TRUE]
      BY <1>11 DEF RowsFail
    <2> QED
      BY <2>1 DEF Swept, RunStates
  <1>12. CASE LookUpFails(r)
    <2>1. PICK some \in SUBSET Of(points, p.docs) :
            run'[r] = [p EXCEPT !.pc = "vectors", !.chunkIds = some,
                                !.found = DocsOf(some), !.failed = TRUE]
      BY <1>12 DEF LookUpFails
    <2>2. DocsOf(some) \subseteq p.docs
      BY DEF DocsOf, Of
    <2> QED
      BY <2>1, <2>2 DEF Swept, RunStates
  <1> QED
    BY <1>1, <1>2, <1>3, <1>4, <1>5, <1>6, <1>7, <1>8, <1>9, <1>10, <1>11, <1>12 DEF Delete

\* A delete files "deleted" only of documents it has swept from every store.
LEMMA ReportStep ==
  ASSUME TypeOK, Honest, NEW r \in Runs, Delete(r)
  PROVE  DeletedIsGone'
  <1> SUFFICES ASSUME NEW d \in Docs, report'[d] = "deleted"
               PROVE  Gone(d)'
    BY DEF DeletedIsGone
  <1>1. CASE report[d] = "deleted"
    BY <1>1, GoneStays, DeleteShrinks DEF Honest, DeletedIsGone
  <1>2. CASE report[d] # "deleted"
    <2>1. /\ InvalidateAnswers(r) \/ AnswersFail(r)
          /\ d \in run[r].docs /\ Verdict(run[r]) = "deleted"
      <3>1. ~\E docs \in SUBSET Docs, asks, holds \in BOOLEAN : Start(r, docs, asks, holds)
        BY <1>2 DEF Start, TypeOK
      <3>2. ~(LookUp(r) \/ LookUpFails(r) \/ DeleteVectors(r) \/ DeleteRows(r) \/ AskGraph(r))
        BY <1>2 DEF LookUp, LookUpFails, DeleteVectors, DeleteRows, AskGraph, said
      <3>3. ~(DeleteChunkNodes(r) \/ DeleteOrphans(r) \/ DeleteEmptyCommunities(r))
        BY <1>2 DEF DeleteChunkNodes, DeleteOrphans, DeleteEmptyCommunities, said
      <3>4. ~(StatementFails(r) \/ RowsFail(r) \/ Dies(r))
        BY <1>2 DEF StatementFails, RowsFail, Dies, said
      <3>5. InvalidateAnswers(r) \/ AnswersFail(r)
        BY <3>1, <3>2, <3>3, <3>4 DEF Delete
      <3> QED
        BY <1>2, <3>5 DEF InvalidateAnswers, AnswersFail, Filed
    <2>2. ~run[r].failed /\ ~run[r].skipped /\ run[r].found = run[r].docs
      BY <2>1 DEF Verdict
    <2>3. /\ Of(points, run[r].docs) = {} /\ Of(rows, run[r].docs \ rowless) = {}
          /\ Of(chunkNode, run[r].docs) = {}
      BY <2>1, <2>2 DEF InvalidateAnswers, AnswersFail, At, Honest, Swept,
                        AfterVectors, AfterRows, AfterNodes
    <2>4. /\ points' = points /\ rows' = rows /\ chunkNode' = chunkNode
          /\ rowless' = rowless
      BY <2>1 DEF InvalidateAnswers, AnswersFail, graph, indexed
    <2> QED
      BY <2>1, <2>3, <2>4 DEF Gone, Of
  <1> QED
    BY <1>1, <1>2

LEMMA HonestDelete ==
  ASSUME OneVersion, Alone, Intact, Honest, NEW r \in Runs, Delete(r)
  PROVE  Honest'
  <1>1. TypeOK
    BY DEF Intact
  <1>2. PICK q : Moves(run[r], q) /\ run' = [run EXCEPT ![r] = q]
    BY <1>1, DeleteMoves
  <1>3. build' = build /\ build.pc = "idle"
    BY <1>1, StartsAlone, DeleteShrinks DEF Intact
  <1>4. ASSUME NEW s \in Runs
        PROVE  /\ run'[s].found \subseteq run'[s].docs
               /\ run'[s].found \subseteq DocsOf(run'[s].chunkIds)
               /\ Swept(run[s])'
    <2>1. CASE s = r
      BY <1>1, <2>1, SweepStep
    <2>2. CASE s # r
      <3>1. run'[s] = run[s]
        BY <1>1, <1>2, <2>2 DEF TypeOK
      <3>2. Swept(run[s]) /\ run[s].found \subseteq run[s].docs
            /\ run[s].found \subseteq DocsOf(run[s].chunkIds)
        BY DEF Honest
      <3>3. /\ points' \subseteq points /\ rows' \subseteq rows
            /\ chunkNode' \subseteq chunkNode /\ rowless \subseteq rowless'
        BY <1>1, DeleteShrinks
      <3> QED
        BY <3>1, <3>2, <3>3, SweptStays DEF Swept
    <2> QED
      BY <2>1, <2>2
  <1>5. DeletedIsGone'
    BY <1>1, ReportStep
  <1> QED
    BY <1>3, <1>4, <1>5 DEF Honest

LEMMA HonestIngest ==
  ASSUME OneVersion, Intact, Honest, NEW d \in Docs, NEW v \in Contents, Ingest(d, v)
  PROVE  Honest'
  <1> USE DEF graph
  <1>1. TypeOK
    BY DEF Intact
  <1>0. PICK old \in {{}, {d}} : /\ points' = (points \ Of(points, old)) \cup {<<d, v>>}
                                /\ rows' = (rows \ Of(rows, old)) \cup {<<d, v>>}
    BY DEF Ingest
  <1>01. /\ ~Deleting(d) /\ report' = [report EXCEPT ![d] = "none"]
         /\ rowless' = rowless \ {d} /\ UNCHANGED <<chunkNode, run, build>>
    BY DEF Ingest
  <1>2. ASSUME NEW r \in Runs
        PROVE  Swept(run[r])'
    <2>1. d \notin run[r].docs /\ d \notin run[r].docs \ run[r].left
      BY <1>01 DEF Deleting
    <2>2. \A docs : d \notin docs => /\ Of(points', docs) \subseteq Of(points, docs)
                                    /\ Of(rows', docs) \subseteq Of(rows, docs)
      BY <1>0 DEF Of
    <2>3. /\ Of(points', run[r].docs) \subseteq Of(points, run[r].docs)
          /\ Of(rows', run[r].docs \ rowless) \subseteq Of(rows, run[r].docs \ rowless)
          /\ Of(rows', run[r].docs \ run[r].left) \subseteq Of(rows, run[r].docs \ run[r].left)
      BY <2>1, <2>2
    <2>4. run[r].docs \ rowless' = run[r].docs \ rowless
      BY <1>01, <2>1
    <2>5. Swept(run[r]) /\ chunkNode' = chunkNode /\ run' = run
      BY <1>01 DEF Honest
    <2> QED
      BY <2>3, <2>4, <2>5 DEF Swept
  <1>3. points \subseteq points'
    <2>1. \A c, e \in Chunks : c[1] = e[1] => c = e
      BY DEF Chunks, OneVersion
    <2>2. <<d, v>> \in Chunks /\ points \subseteq Chunks
      BY <1>1 DEF Chunks, TypeOK
    <2> QED
      BY <1>0, <2>1, <2>2 DEF Of
  <1>4. DeletedIsGone'
    <2> SUFFICES ASSUME NEW e \in Docs, report'[e] = "deleted"
                 PROVE  Gone(e)'
      BY DEF DeletedIsGone
    <2>1. e # d /\ report[e] = "deleted"
      BY <1>01, <1>1 DEF TypeOK
    <2>2. Gone(e)
      BY <2>1 DEF Honest, DeletedIsGone
    <2>3. Of(points', {e}) \subseteq Of(points, {e}) /\ Of(rows', {e}) \subseteq Of(rows, {e})
      BY <1>0, <2>1 DEF Of
    <2>4. Of(points' \cup chunkNode', {e}) = {}
      BY <1>01, <2>2, <2>3 DEF Gone, Of
    <2> QED
      BY <1>01, <2>1, <2>2, <2>3, <2>4 DEF Gone
  <1> QED
    BY <1>01, <1>2, <1>3, <1>4 DEF Honest

\* Answering a question touches none of the three stores.
LEMMA HonestAnswer ==
  ASSUME Honest, NEW c \in Chunks, Answer(c) \/ CacheAnswer(c) \/ Expire(c)
  PROVE  Honest'
  <1> USE DEF Answer, CacheAnswer, Expire, graph, said
  <1>1. DeletedIsGone'
    <2> SUFFICES ASSUME NEW d \in Docs, report'[d] = "deleted"
                 PROVE  Gone(d)'
      BY DEF DeletedIsGone
    <2>1. Gone(d)
      BY DEF Honest, DeletedIsGone
    <2> QED
      BY <2>1 DEF Gone, Of
  <1> QED
    BY <1>1 DEF Honest, Swept

LEMMA HonestBuild ==
  ASSUME Alone, Intact, Honest, Build
  PROVE  Honest'
  <1>1. TypeOK
    BY DEF Intact
  <1>2. UNCHANGED <<indexed, run, said>>
    BY <1>1, BuildTyped
  <1>3. \A r \in Runs : run[r].pc = "idle"
    <2>1. CASE ReadChunks
      BY <2>1 DEF ReadChunks, BuildMayStart, Alone, At
    <2>2. CASE ~ReadChunks
      BY <2>2 DEF Build, UpsertEntities, UpsertRelations, UpsertChunkLinks,
                  UpsertCommunities, PruneCommunities, BuildFails, Intact, At
    <2> QED
      BY <2>1, <2>2
  <1>4. \A r \in Runs : Swept(run[r])'
    BY <1>2, <1>3 DEF Swept, AfterVectors, AfterRows, AfterNodes
  <1>5. build'.pc # "idle" => build'.chunks \subseteq points
    <2>1. CASE ReadChunks
      BY <2>1 DEF ReadChunks
    <2>2. CASE UpsertEntities \/ UpsertRelations \/ UpsertCommunities
      BY <1>1, <2>2 DEF UpsertEntities, UpsertRelations, UpsertCommunities,
                        Honest, TypeOK, BuildStates
    <2>3. CASE UpsertChunkLinks
      BY <1>1, <2>3 DEF UpsertChunkLinks, Honest, TypeOK, BuildStates, NoBuild
    <2>4. CASE PruneCommunities \/ BuildFails
      BY <2>4 DEF PruneCommunities, BuildFails, NoBuild
    <2> QED
      BY <2>1, <2>2, <2>3, <2>4 DEF Build
  <1>6. chunkNode' \subseteq chunkNode \cup points
    <2>1. CASE UpsertChunkLinks
      BY <2>1 DEF UpsertChunkLinks, Honest
    <2>2. CASE ~UpsertChunkLinks
      BY <2>2 DEF Build, ReadChunks, UpsertEntities, UpsertRelations,
                  UpsertCommunities, PruneCommunities, BuildFails, graph
    <2> QED
      BY <2>1, <2>2
  <1>7. DeletedIsGone'
    <2> SUFFICES ASSUME NEW d \in Docs, report'[d] = "deleted"
                 PROVE  Gone(d)'
      BY DEF DeletedIsGone
    <2>1. Gone(d)
      BY <1>2 DEF Honest, DeletedIsGone, said
    <2> QED
      BY <1>2, <1>6, <2>1 DEF Gone, Of, indexed, said
  <1> QED
    BY <1>2, <1>4, <1>5, <1>7 DEF Honest, indexed

LEMMA HonestStep ==
  ASSUME OneVersion, Alone
  PROVE  Intact /\ Honest /\ [Next]_vars => Honest'
  <1> SUFFICES ASSUME Intact, Honest, [Next]_vars PROVE Honest'
    OBVIOUS
  <1>1. CASE UNCHANGED vars
    BY <1>1 DEF vars, Honest, Swept, DeletedIsGone, Gone
  <1> QED
    BY <1>1, HonestBuild, HonestDelete, HonestIngest, HonestAnswer DEF Next

LEMMA HonestInit == Init => Honest
  BY DEF Init, Honest, Idle, NoBuild, Swept, DeletedIsGone, AfterVectors,
         AfterRows, AfterNodes

\* `DeleteReport.deleted` can be believed: whatever statements failed before,
\* and whatever other deletes run beside it, a document so reported is in none
\* of the three stores until it is indexed again, its rows excepted when a pipeline
\* that holds no relational store deleted it.  It takes OneVersion: the graph keeps
\* the Chunk nodes of a version that an edit has replaced.
THEOREM DeleteIsHonest ==
  ASSUME OneVersion, Alone PROVE Spec => []DeletedIsGone
  <1>1. Honest => DeletedIsGone
    BY DEF Honest
  <1> QED
    BY <1>1, IntactInit, IntactStep, HonestInit, HonestStep, PTL DEF Spec

-----------------------------------------------------------------------------
(* The cached answers.                                                     *)

\* What an invalidation has reached, or should have, stands no longer.
LEMMA InvalidatedStand ==
  ASSUME NEW docs, Uncache(docs) \/ Overlook(docs)
  PROVE  standing' \subseteq standing /\ Of(standing', docs) = {}
  BY DEF Uncache, Overlook, standing, Of

\* An answer on its way to the cache stands already.
LEMMA CachingStands ==
  ASSUME NEW c, CacheAnswer(c) \/ Expire(c)
  PROVE  standing' \subseteq standing
  BY DEF CacheAnswer, Expire, Cache, standing

\* One that is computed now is built from what is retrieved now.
LEMMA AnsweringStands ==
  ASSUME NEW c, Answer(c)
  PROVE  standing' \subseteq standing \cup {c}
  BY DEF Answer, Cache, standing

LEMMA ForgetDelete ==
  ASSUME TypeOK, DeletedIsForgotten, NEW r \in Runs, Delete(r)
  PROVE  DeletedIsForgotten'
  <1> SUFFICES ASSUME NEW d \in Docs, report'[d] = "deleted"
               PROVE  Of(standing', {d}) = {}
    BY DEF DeletedIsForgotten
  <1>1. CASE InvalidateAnswers(r) \/ AnswersFail(r)
    <2>1. report[d] = "deleted" \/ d \in run[r].docs
      BY <1>1 DEF InvalidateAnswers, AnswersFail, Filed
    <2>2. standing' \subseteq standing /\ Of(standing', run[r].docs) = {}
      BY <1>1, InvalidatedStand DEF InvalidateAnswers, AnswersFail
    <2> QED
      BY <2>1, <2>2 DEF DeletedIsForgotten, Of
  <1>2. CASE ~(InvalidateAnswers(r) \/ AnswersFail(r))
    <2>1. report[d] = "deleted"
      BY <1>2 DEF Delete, Start, LookUp, LookUpFails, DeleteVectors, DeleteRows,
         AskGraph, DeleteChunkNodes, DeleteOrphans, DeleteEmptyCommunities,
         StatementFails, RowsFail, Dies, TypeOK, said
    <2>2. UNCHANGED answers
      BY <1>2 DEF Delete, Start, LookUp, LookUpFails, DeleteVectors, DeleteRows,
         AskGraph, DeleteChunkNodes, DeleteOrphans, DeleteEmptyCommunities,
         StatementFails, RowsFail, Dies, indexed
    <2>3. standing' = standing
      BY <2>2 DEF answers, standing
    <2> QED
      BY <2>1, <2>3 DEF DeletedIsForgotten
  <1> QED
    BY <1>1, <1>2

LEMMA ForgetInit == Init => DeletedIsForgotten
  BY DEF Init, DeletedIsForgotten

LEMMA ForgetStep ==
  ASSUME OneVersion, Alone
  PROVE  Intact /\ Honest /\ DeletedIsForgotten /\ [Next]_vars => DeletedIsForgotten'
  <1> SUFFICES ASSUME Intact, Honest, DeletedIsForgotten, [Next]_vars
               PROVE  DeletedIsForgotten'
    OBVIOUS
  <1>0. TypeOK
    BY DEF Intact
  <1>1. ASSUME NEW d \in Docs, NEW v \in Contents, Ingest(d, v)
        PROVE  DeletedIsForgotten'
    <2>1. standing' \subseteq standing
      BY <1>1, InvalidatedStand DEF Ingest
    <2>2. \A e \in Docs : report'[e] = "deleted" => report[e] = "deleted"
      BY <1>0, <1>1 DEF Ingest, TypeOK
    <2> QED
      BY <2>1, <2>2 DEF DeletedIsForgotten, Of
  <1>2. ASSUME NEW c \in Chunks, Answer(c)
        PROVE  DeletedIsForgotten'
    <2>1. standing' \subseteq standing \cup {c} /\ report' = report /\ c \in points
      BY <1>2, AnsweringStands DEF Answer, said
    <2>2. \A d \in Docs : report[d] = "deleted" => c \notin Of(points, {d})
      BY DEF Honest, DeletedIsGone, Gone, Of
    <2> QED
      BY <2>1, <2>2 DEF DeletedIsForgotten, Of
  <1>3. ASSUME NEW c \in Chunks, CacheAnswer(c) \/ Expire(c)
        PROVE  DeletedIsForgotten'
    <2>1. standing' \subseteq standing /\ report' = report
      BY <1>3, CachingStands DEF CacheAnswer, Expire, said
    <2> QED
      BY <2>1 DEF DeletedIsForgotten, Of
  <1>4. ASSUME UNCHANGED <<answers, report>> PROVE DeletedIsForgotten'
    BY <1>4 DEF answers, standing, DeletedIsForgotten
  <1>5. CASE Build
    BY <1>0, <1>4, <1>5, BuildTyped DEF indexed, said
  <1>6. ASSUME NEW r \in Runs, Delete(r)
        PROVE  DeletedIsForgotten'
    BY <1>0, <1>6, ForgetDelete
  <1>7. CASE UNCHANGED vars
    BY <1>4, <1>7 DEF vars, answers
  <1> QED
    BY <1>1, <1>2, <1>3, <1>5, <1>6, <1>7 DEF Next

\* And no answer built from a document reported deleted is served any more but what
\* the cache has accepted to delete, what was on its way there when it was asked,
\* and what a failed invalidation, which is not in the report, has left: the
\* vectors are gone before the cached answers are invalidated.
THEOREM DeleteForgets ==
  ASSUME OneVersion, Alone PROVE Spec => []DeletedIsForgotten
  BY IntactInit, IntactStep, HonestInit, HonestStep, ForgetInit, ForgetStep, PTL DEF Spec

-----------------------------------------------------------------------------
(* What has rows can be retrieved, until a statement fails.                *)

\* What a delete has swept of the two stores of the text, and that none is idle
\* with documents to delete.
Through(p) ==
    /\ p.pc = "idle" => p.docs = {}
    /\ p.pc \in {"lookup", "vectors"} => p.left = p.docs
    /\ p.pc = "rows" /\ p.holds => Of(rows, p.docs \ p.left) = {}
    /\ p.pc \in AfterRows => Of(rows, p.docs \ rowless) = {}

Retrievable == \A d \in Docs \ rowless : ~Deleting(d) => Of(rows, {d}) \subseteq points

Whole == TypeOK /\ (faults = 0 => Retrievable /\ \A r \in Runs : Through(run[r]))

\* Where there has been no fault after a step, there was none before it, and the
\* step is not one.
LEMMA NoFaultYet ==
  ASSUME TypeOK, [Next]_vars, faults' = 0
  PROVE  faults = 0 /\ ~Fault
  <1>1. faults' = faults \/ Fault
    BY DEF Next, Build, Delete, Ingest, Answer, CacheAnswer, Expire, ReadChunks,
           UpsertEntities, UpsertRelations, UpsertChunkLinks, UpsertCommunities,
           PruneCommunities, BuildFails, Start, LookUp, LookUpFails, DeleteVectors,
           DeleteRows, AskGraph, DeleteChunkNodes, DeleteOrphans,
           DeleteEmptyCommunities, InvalidateAnswers, StatementFails, RowsFail,
           AnswersFail, Dies, vars
  <1> QED
    BY <1>1, RemovalAssumption DEF TypeOK, Fault

\* One step of a delete: it takes rows, and points of its own documents; and it
\* lets go of a document when the rows are gone.
LEMMA ThroughStep ==
  ASSUME TypeOK, NEW r \in Runs, Through(run[r]), ~Fault, Delete(r)
  PROVE  /\ Through(run[r])'
         /\ \A d \in Docs \ run[r].docs : Of(points, {d}) \subseteq points'
         /\ run'[r].docs = run[r].docs \/ Of(rows', run[r].docs \ rowless') = {}
  <1> DEFINE p == run[r]
             Goal == /\ Through(run[r])'
                     /\ \A d \in Docs \ run[r].docs : Of(points, {d}) \subseteq points'
                     /\ run'[r].docs = run[r].docs \/ Of(rows', run[r].docs \ rowless') = {}
  <1>0. p \in RunStates /\ run \in [Runs -> RunStates] /\ Through(p) /\ ~Fault
    BY DEF TypeOK
  <1> USE DEF AfterVectors, AfterRows, indexed, answers, said
  <1>1. ASSUME NEW docs \in SUBSET Docs, NEW asks \in BOOLEAN, NEW holds \in BOOLEAN,
               Start(r, docs, asks, holds)
        PROVE  Goal
    <2>1. /\ run'[r].pc = "lookup" /\ run'[r].left = run'[r].docs
          /\ points' = points /\ rows' = rows /\ p.pc = "idle"
      BY <1>0, <1>1 DEF Start, Idle, At
    <2>2. p.docs = {}
      BY <1>0, <2>1 DEF Through
    <2> QED
      BY <2>1, <2>2 DEF Through, Of
  <1>2. CASE LookUp(r)
    <2>1. /\ run'[r].pc = "vectors" /\ run'[r].docs = p.docs /\ run'[r].left = p.left
          /\ points' = points /\ rows' = rows /\ p.pc = "lookup"
      BY <1>0, <1>2 DEF LookUp, RunStates, At
    <2> QED
      BY <1>0, <2>1 DEF Through, Of
  <1>3. CASE DeleteVectors(r)
    <2>1. /\ run'[r].pc = "rows" /\ run'[r].docs = p.docs /\ run'[r].left = p.left
          /\ points' = points \ Of(points, p.docs) /\ rows' = rows /\ p.pc = "vectors"
      BY <1>0, <1>3 DEF DeleteVectors, RunStates, At
    <2>2. p.left = p.docs
      BY <1>0, <2>1 DEF Through
    <2> QED
      BY <2>1, <2>2 DEF Through, Of
  <1>4. CASE DeleteRows(r)
    <2>1. PICK d \in p.left :
            /\ rows' = rows \ Of(rows, {d})
            /\ run' = [run EXCEPT ![r] = [p EXCEPT !.left = p.left \ {d}]]
      BY <1>4 DEF DeleteRows
    <2>2. /\ run'[r].pc = "rows" /\ run'[r].docs = p.docs /\ run'[r].left = p.left \ {d}
          /\ points' = points /\ p.pc = "rows" /\ p.holds
      BY <1>0, <1>4, <2>1 DEF DeleteRows, At, RunStates
    <2>3. Of(rows, p.docs \ p.left) = {}
      BY <1>0, <2>2 DEF Through
    <2>4. Of(rows', p.docs \ (p.left \ {d})) = {}
      BY <2>1, <2>3 DEF Of
    <2> QED
      BY <2>2, <2>4 DEF Through, Of
  <1>5. CASE AskGraph(r)
    <2>1. /\ run'[r].pc \in {"chunks", "answers"} /\ run'[r].docs = p.docs
          /\ points' = points /\ rows' = rows /\ p.pc = "rows"
      BY <1>0, <1>5 DEF AskGraph, RunStates
    <2>2. Of(rows, p.docs \ rowless') = {}
      <3>1. CASE p.holds
        BY <1>0, <1>5, <3>1 DEF AskGraph, Through, Of
      <3>2. CASE ~p.holds
        BY <1>5, <3>2 DEF AskGraph, Of
      <3> QED
        BY <3>1, <3>2
    <2> QED
      BY <2>1, <2>2 DEF Through, Of
  <1>6. CASE DeleteChunkNodes(r) \/ DeleteOrphans(r) \/ DeleteEmptyCommunities(r)
    <2>1. /\ p.pc \in AfterRows /\ run'[r].pc \in AfterRows /\ run'[r].docs = p.docs
          /\ points' = points /\ rows' = rows /\ rowless' = rowless
      BY <1>0, <1>6 DEF DeleteChunkNodes, DeleteOrphans, DeleteEmptyCommunities, RunStates, At
    <2> QED
      BY <1>0, <2>1 DEF Through, Of
  <1>7. CASE InvalidateAnswers(r)
    <2>1. p.pc = "answers" /\ run'[r] = Idle /\ UNCHANGED <<points, rows, rowless>>
      BY <1>0, <1>7 DEF InvalidateAnswers, At
    <2> QED
      BY <1>0, <2>1 DEF Through, Of, Idle
  <1>8. ~(LookUpFails(r) \/ StatementFails(r) \/ RowsFail(r) \/ AnswersFail(r) \/ Dies(r))
    BY <1>0 DEF LookUpFails, StatementFails, RowsFail, AnswersFail, Dies
  <1> QED
    BY <1>1, <1>2, <1>3, <1>4, <1>5, <1>6, <1>7, <1>8 DEF Delete

LEMMA WholeDelete ==
  ASSUME Whole, NEW r \in Runs, Delete(r)
  PROVE  Whole'
  <1>1. TypeOK /\ TypeOK'
    BY TypeStep DEF Whole, Next
  <1>2. rows' \subseteq rows /\ points' \subseteq points /\ rowless \subseteq rowless'
    BY <1>1, DeleteShrinks
  <1>3. PICK q : run' = [run EXCEPT ![r] = q]
    BY <1>1, DeleteMoves
  <1>4. \A s \in Runs : s # r => run'[s] = run[s]
    BY <1>1, <1>3 DEF TypeOK
  <1> SUFFICES ASSUME faults' = 0
               PROVE  Retrievable' /\ \A s \in Runs : Through(run[s])'
    BY <1>1 DEF Whole
  <1>0. ~Fault /\ Retrievable /\ \A s \in Runs : Through(run[s])
    BY <1>1, NoFaultYet DEF Whole, Next
  <1>01. /\ Through(run[r])'
         /\ \A d \in Docs \ run[r].docs : Of(points, {d}) \subseteq points'
         /\ run'[r].docs = run[r].docs \/ Of(rows', run[r].docs \ rowless') = {}
    BY <1>0, <1>1, ThroughStep
  <1>5. ASSUME NEW s \in Runs PROVE Through(run[s])'
    <2>1. CASE s = r
      BY <2>1, <1>01
    <2>2. CASE s # r
      BY <1>0, <1>2, <1>4, <2>2 DEF Through, Of
    <2> QED
      BY <2>1, <2>2
  <1>6. ASSUME NEW d \in Docs \ rowless', ~Deleting(d)' PROVE Of(rows', {d}) \subseteq points'
    <2>1. CASE d \in run[r].docs
      <3>1. d \notin run'[r].docs
        BY <1>6 DEF Deleting
      <3>2. Of(rows', run[r].docs \ rowless') = {}
        BY <2>1, <3>1, <1>01
      <3> QED
        BY <1>6, <2>1, <3>2 DEF Of
    <2>2. CASE d \notin run[r].docs
      <3>1. ~Deleting(d) /\ d \notin rowless
        BY <1>2, <1>4, <1>6, <2>2 DEF Deleting
      <3>2. Of(rows, {d}) \subseteq points
        BY <1>0, <3>1 DEF Retrievable
      <3>3. Of(points, {d}) \subseteq points'
        BY <2>2, <1>01
      <3> QED
        BY <1>2, <3>2, <3>3 DEF Of
    <2> QED
      BY <2>1, <2>2
  <1> QED
    BY <1>5, <1>6 DEF Retrievable

LEMMA WholeIngest ==
  ASSUME Whole, NEW d \in Docs, NEW v \in Contents, Ingest(d, v)
  PROVE  Whole'
  <1>1. TypeOK'
    BY TypeStep DEF Whole, Next
  <1>2. PICK old \in {{}, {d}} :
          /\ Of(rows, {d}) # {} => old = {d}
          /\ points' = (points \ Of(points, old)) \cup {<<d, v>>}
          /\ rows' = (rows \ Of(rows, old)) \cup {<<d, v>>}
    BY DEF Ingest
  <1>02. /\ run' = run /\ ~Deleting(d) /\ rowless' = rowless \ {d} /\ faults' = faults
    BY DEF Ingest
  <1> SUFFICES ASSUME faults = 0
               PROVE  Retrievable' /\ \A s \in Runs : Through(run[s])'
    BY <1>1, <1>02 DEF Whole
  <1>3. ASSUME NEW r \in Runs PROVE Through(run[r])'
    <2>1. d \notin run[r].docs
      BY <1>02 DEF Deleting
    <2>2. \A docs \in SUBSET run[r].docs : Of(rows', docs) \subseteq Of(rows, docs)
      BY <1>2, <2>1 DEF Of
    <2>3. /\ run[r].docs \ run[r].left \in SUBSET run[r].docs
          /\ run[r].docs \ rowless \in SUBSET run[r].docs
          /\ run[r].docs \ rowless' = run[r].docs \ rowless
      BY <1>02, <2>1
    <2> QED
      BY <1>02, <2>2, <2>3 DEF Whole, Through
  <1>4. ASSUME NEW e \in Docs \ rowless', ~Deleting(e)' PROVE Of(rows', {e}) \subseteq points'
    <2>1. CASE e = d
      BY <1>2, <2>1 DEF Of
    <2>2. CASE e # d
      <3>1. Of(rows, {e}) \subseteq points
        BY <1>02, <1>4, <2>2 DEF Whole, Retrievable, Deleting
      <3> QED
        BY <1>2, <2>2, <3>1 DEF Of
    <2> QED
      BY <2>1, <2>2
  <1> QED
    BY <1>3, <1>4 DEF Retrievable

LEMMA WholeInit == Init => Whole
  BY TypeInit DEF Init, Whole, Retrievable, Through, Idle, Of, AfterRows, AfterVectors

LEMMA WholeStep == Whole /\ [Next]_vars => Whole'
  <1> SUFFICES ASSUME Whole, [Next]_vars PROVE Whole'
    OBVIOUS
  <1>1. TypeOK /\ TypeOK'
    BY TypeStep DEF Whole
  <1>2. ASSUME UNCHANGED <<points, rows, run, rowless>> PROVE Whole'
    <2>1. faults' = 0 => faults = 0
      BY <1>1, NoFaultYet
    <2> QED
      BY <1>1, <1>2, <2>1 DEF Whole, Retrievable, Through, Of, Deleting
  <1>3. ASSUME NEW c \in Chunks, Answer(c) \/ CacheAnswer(c) \/ Expire(c) PROVE Whole'
    BY <1>2, <1>3 DEF Answer, CacheAnswer, Expire, said
  <1>4. CASE Build
    BY <1>1, <1>2, <1>4, BuildTyped DEF indexed, said
  <1>5. CASE UNCHANGED vars
    BY <1>2, <1>5 DEF vars
  <1> QED
    BY <1>3, <1>4, <1>5, WholeDelete, WholeIngest DEF Next

LEMMA WholeIsRetrievable == Whole => RowsAreRetrievable
  BY DEF Whole, Retrievable, RowsAreRetrievable

\* A document that has rows and is not being deleted can be retrieved, whatever
\* deletes and re-ingests follow each other, until a statement fails or a process
\* dies, and but for a document deleted where there is no relational store to ask:
\* the vectors of a document go before its rows, and a delete ends with both gone.
THEOREM RowsStayRetrievable == Spec => []RowsAreRetrievable
  BY WholeInit, WholeStep, WholeIsRetrievable, PTL DEF Spec

-----------------------------------------------------------------------------
(* The graph is left tidy by a delete that has it for itself.              *)

OneDelete == \E r : Runs = {r}

GraphIsTidy == [][Tidies]_vars

\* Between the two statements nothing else touches the graph.
Pruned ==
    Intact /\ \A r \in Runs : At(r, "communities") =>
                \A e \in Entities : entity[e] # "absent" => Mentioned(e)

LEMMA PrunedDelete ==
  ASSUME OneDelete, Alone, Pruned, NEW r \in Runs, Delete(r)
  PROVE  Pruned'
  <1>1. Intact'
    BY IntactDelete DEF Pruned
  <1>2. \A s \in Runs : s = r
    BY DEF OneDelete
  <1>3. run \in [Runs -> RunStates] /\ entity \in [Entities -> {"absent", "bare", "described"}]
    BY DEF Pruned, Intact, TypeOK
  <1>4. ASSUME run'[r].pc = "communities" PROVE DeleteOrphans(r)
    <2>1. ASSUME NEW docs, NEW asks, NEW holds PROVE ~Start(r, docs, asks, holds)
      <3>1. [Idle EXCEPT !.pc = "lookup", !.docs = docs, !.asks = asks,
                         !.holds = holds, !.left = docs].pc = "lookup"
        BY DEF Idle
      <3> QED
        BY <1>3, <1>4, <3>1 DEF Start
    <2>2. ~(LookUp(r) \/ DeleteVectors(r) \/ DeleteChunkNodes(r) \/ DeleteEmptyCommunities(r))
      BY <1>3, <1>4 DEF LookUp, DeleteVectors, DeleteChunkNodes, DeleteEmptyCommunities, RunStates
    <2>3. ~(DeleteRows(r) \/ RowsFail(r) \/ AskGraph(r))
      <3>1. ASSUME DeleteRows(r) \/ RowsFail(r) PROVE FALSE
        BY <1>3, <1>4, <3>1 DEF DeleteRows, RowsFail, At, RunStates
      <3>2. ASSUME AskGraph(r) PROVE FALSE
        BY <1>3, <1>4, <3>2 DEF AskGraph, RunStates
      <3> QED
        BY <3>1, <3>2
    <2>4. ~(InvalidateAnswers(r) \/ AnswersFail(r) \/ Dies(r))
      BY <1>3, <1>4 DEF InvalidateAnswers, AnswersFail, Dies, Idle
    <2>5. ~StatementFails(r)
      <3> SUFFICES ASSUME StatementFails(r) PROVE FALSE
        OBVIOUS
      <3>1. After[run[r].pc] # "communities"
        BY DEF StatementFails, After
      <3>2. run'[r].pc = After[run[r].pc]
        BY <1>3 DEF StatementFails, RunStates
      <3> QED
        BY <1>4, <3>1, <3>2
    <2>6. ~LookUpFails(r)
      <3> SUFFICES ASSUME LookUpFails(r) PROVE FALSE
        OBVIOUS
      <3>1. PICK some : run'[r] = [run[r] EXCEPT !.pc = "vectors", !.chunkIds = some,
                                          !.found = DocsOf(some), !.failed = TRUE]
        BY <1>3 DEF LookUpFails
      <3> QED
        BY <1>3, <1>4, <3>1 DEF RunStates
    <2> QED
      BY <2>1, <2>2, <2>3, <2>4, <2>5, <2>6 DEF Delete
  <1>5. DeleteOrphans(r) => \A e \in Entities : entity'[e] # "absent" => Mentioned(e)'
    BY <1>3 DEF DeleteOrphans, Mentioned
  <1> QED
    BY <1>1, <1>2, <1>4, <1>5 DEF Pruned, At

LEMMA PrunedStep ==
  ASSUME OneDelete, Alone PROVE Pruned /\ [Next]_vars => Pruned'
  <1> SUFFICES ASSUME Pruned, [Next]_vars PROVE Pruned'
    OBVIOUS
  <1>1. Intact /\ Intact'
    BY IntactStep DEF Pruned
  <1>2. ASSUME UNCHANGED <<run, mention, entity>> PROVE Pruned'
    BY <1>1, <1>2 DEF Pruned, At, Mentioned
  <1>3. ASSUME NEW d \in Docs, NEW v \in Contents, Ingest(d, v) PROVE Pruned'
    BY <1>2, <1>3 DEF Ingest, graph
  <1>4. ASSUME NEW c \in Chunks, Answer(c) \/ CacheAnswer(c) \/ Expire(c) PROVE Pruned'
    BY <1>2, <1>4 DEF Answer, CacheAnswer, Expire, graph
  <1>5. CASE Build
    <2>1. run' = run
      BY <1>1, <1>5, BuildTyped DEF Intact
    <2>2. CASE build.pc # "idle"
      BY <1>1, <2>1, <2>2 DEF Intact, Pruned, At
    <2>3. CASE build.pc = "idle"
      BY <1>2, <1>5, <2>3 DEF Build, ReadChunks, UpsertEntities, UpsertRelations,
         UpsertChunkLinks, UpsertCommunities, PruneCommunities, BuildFails, graph
    <2> QED
      BY <2>2, <2>3
  <1>6. CASE UNCHANGED vars
    BY <1>2, <1>6 DEF vars
  <1> QED
    BY <1>3, <1>4, <1>5, <1>6, PrunedDelete DEF Next

LEMMA TidiesStep ==
  ASSUME Pruned, [Next]_vars PROVE [Tidies]_vars
  <1> SUFFICES ASSUME Next, NEW r \in Runs, At(r, "communities"),
                      run'[r].pc = "answers", ~run'[r].failed
               PROVE  /\ \A e \in Entities : entity'[e] # "absent" => Mentioned(e)'
                      /\ \A k \in community' : \E e \in k : entity'[e] # "absent"
    BY DEF Tidies, vars, At
  <1>1. TypeOK /\ run \in [Runs -> RunStates]
    BY DEF Pruned, Intact, TypeOK
  <1>2. run' # run
    BY DEF At
  <1>3. PICK s \in Runs : Delete(s)
    BY <1>1, <1>2, BuildTyped DEF Next, Ingest, Answer, CacheAnswer, Expire
  <1>4. PICK q : run' = [run EXCEPT ![s] = q]
    BY <1>1, <1>3, DeleteMoves
  <1>5. s = r
    BY <1>1, <1>4 DEF At
  <1>6. DeleteEmptyCommunities(r) \/ StatementFails(r)
    <2>1. ASSUME NEW docs, NEW asks, NEW holds PROVE ~Start(r, docs, asks, holds)
      BY DEF Start, At
    <2>2. ~(LookUp(r) \/ LookUpFails(r) \/ DeleteVectors(r) \/ DeleteRows(r) \/ AskGraph(r)
             \/ RowsFail(r))
      BY DEF LookUp, LookUpFails, DeleteVectors, DeleteRows, AskGraph, RowsFail, At
    <2>3. ~(DeleteChunkNodes(r) \/ DeleteOrphans(r) \/ InvalidateAnswers(r) \/ AnswersFail(r))
      BY DEF DeleteChunkNodes, DeleteOrphans, InvalidateAnswers, AnswersFail, At
    <2>4. ~Dies(r)
      BY <1>1 DEF Dies, Idle
    <2> QED
      BY <1>3, <1>5, <2>1, <2>2, <2>3, <2>4 DEF Delete
  <1>7. ~StatementFails(r)
    BY <1>1 DEF StatementFails, RunStates
  <1>8. /\ entity' = entity /\ mention' = mention
        /\ community' = {k \in community : \E e \in k : entity[e] # "absent"}
    BY <1>6, <1>7 DEF DeleteEmptyCommunities
  <1>9. \A e \in Entities : entity[e] # "absent" => Mentioned(e)
    BY DEF Pruned
  <1> QED
    BY <1>8, <1>9 DEF Mentioned

\* A delete that has the graph for itself leaves no entity that nothing
\* mentions and no community without a member, whatever failed before it.
THEOREM TidiesAlone == ASSUME OneDelete, Alone PROVE Spec => GraphIsTidy
  <1>1. Init => Pruned
    BY IntactInit DEF Init, Pruned, At, Idle
  <1> QED
    BY <1>1, PrunedStep, TidiesStep, PTL DEF Spec, GraphIsTidy

=============================================================================
