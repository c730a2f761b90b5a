------------------------------ MODULE Removal ------------------------------
(***************************************************************************)
(* ragorc.pipeline.builder.RAGPipeline.delete: taking documents out of     *)
(* every store that holds them, with the entity graph that `ragorc graph   *)
(* build` (ragorc.index.graph.build.GraphBuilder) writes beside them.      *)
(*                                                                         *)
(* A graph knows a document only through its Chunk nodes, and a Chunk node *)
(* carries an id and nothing else; the ids are read from the vector store. *)
(* A chunk is <<document, version>>: chunk ids fold the content in.  Each  *)
(* action is one statement to one store; ingest is one step here (module   *)
(* Ingest has its inside).  The answer cache accepts a delete and applies  *)
(* it later.                                                               *)
(***************************************************************************)
EXTENDS Naturals, FiniteSets

CONSTANTS Docs,       \* documents
          Contents,   \* what a document may say
          Entities,   \* names an extraction may find
          Says,       \* [Docs \X Contents -> SUBSET Entities]
          Runs,       \* concurrent calls of delete()
          MaxFaults,  \* bound: statements that fail, processes that die
          Allowed     \* what the environment may do: a subset of Behaviours

Behaviours == {"graphOff",  \* a process may have graph.enabled off
               "noRows",    \* a pipeline may hold no relational store
               "kill",      \* a process may die in the middle of a delete
               "overlap",   \* graph build may run while a delete does
               "answers",   \* questions are answered and cached
               "slowAnswers",  \* ... with other steps before the cache is set
               "cacheDown"} \* the answer cache may be off, or fail a delete

Chunks == Docs \X Contents

ASSUME RemovalAssumption ==
    /\ Says \in [Chunks -> SUBSET Entities]
    /\ MaxFaults \in Nat /\ Allowed \subseteq Behaviours

VARIABLES points,      \* Qdrant: the chunks that can be retrieved
          rows,        \* Postgres: the chunks of the documents
          cached,      \* semantic cache: the chunks an answer was built from
          answering,   \* the chunks of answers computed and not yet cached
          leaving,     \* those the cache has been asked to delete, served still
          missed,      \* history: those that the last invalidation of their
                       \* document should have removed and did not reach
          chunkNode,   \* Neo4j: Chunk nodes
          mention,     \* Neo4j: <<chunk, entity>>, MENTIONS edges
          entity,      \* Neo4j: no node, a node with a name alone, or all of it
          community,   \* Neo4j: communities, as the names of their members
          run,         \* the local state of each delete()
          report,      \* what the last delete() said of each document
          rowless,     \* history: documents deleted by a pipeline that holds
                       \* no relational store, and not ingested since
          build,       \* the local state of `ragorc graph build`
          faults

graph == <<chunkNode, mention, entity, community>>
answers == <<cached, answering, leaving, missed>>
indexed == <<points, rows, answers>>
said == <<report, rowless>>
vars == <<points, rows, cached, answering, leaving, missed, chunkNode, mention,
          entity, community, run, report, rowless, build, faults>>

Of(chunks, docs) == {c \in chunks : c[1] \in docs}
DocsOf(chunks) == {c[1] : c \in chunks}
Extracted(chunks) == UNION {Says[c] : c \in chunks}
Mentioned(e) == \E m \in mention : m[2] = e

Idle == [pc |-> "idle", docs |-> {}, asks |-> TRUE, holds |-> TRUE,
         chunkIds |-> {}, found |-> {}, left |-> {}, failed |-> FALSE,
         skipped |-> FALSE]
NoBuild == [pc |-> "idle", chunks |-> {}, communities |-> {}]

Init ==
    /\ points = {} /\ rows = {}
    /\ cached = {} /\ answering = {} /\ leaving = {} /\ missed = {}
    /\ chunkNode = {} /\ mention = {} /\ community = {}
    /\ entity = [e \in Entities |-> "absent"]
    /\ run = [r \in Runs |-> Idle]
    /\ report = [d \in Docs |-> "none"] /\ rowless = {}
    /\ build = NoBuild
    /\ faults = 0

At(r, pc) == run[r].pc = pc
Deleting(d) == \E r \in Runs : d \in run[r].docs
BuildMayStart == "overlap" \in Allowed \/ \A r \in Runs : At(r, "idle")
DeleteMayStart == "overlap" \in Allowed \/ build.pc = "idle"

\* One statement fails, and the call goes on: _try records it.
Fault == faults < MaxFaults /\ faults' = faults + 1

-----------------------------------------------------------------------------
(* Indexing and answering, as the rest of the system does them.            *)

\* SemanticCache.invalidate: the delete is accepted, and not waited for; an
\* answer that is not cached yet is not among those it is applied to.
Uncache(docs) ==
    /\ leaving' = leaving \cup Of(cached, docs)
    /\ missed' = (missed \ Of(missed, docs)) \cup Of(answering, docs)
    /\ UNCHANGED <<cached, answering>>

\* It traps its own failures, and does nothing where the cache is off.
Overlook(docs) ==
    /\ "cacheDown" \in Allowed
    /\ missed' = missed \cup Of(cached \cup answering, docs)
    /\ UNCHANGED <<cached, answering, leaving>>

\* A document is indexed, or indexed again as it now reads.  One that has rows,
\* or that is forced, is purged first, of its vectors, its rows and its answers;
\* a version that has its rows is skipped.
Ingest(d, v) ==
    /\ ~Deleting(d) /\ <<d, v>> \notin rows
    /\ \E old \in {{}, {d}} :
         /\ Of(rows, {d}) # {} => old = {d}
         /\ points' = (points \ Of(points, old)) \cup {<<d, v>>}
         /\ rows' = (rows \ Of(rows, old)) \cup {<<d, v>>}
         /\ Uncache(old) \/ Overlook(old)
    /\ report' = [report EXCEPT ![d] = "none"] /\ rowless' = rowless \ {d}
    /\ UNCHANGED <<graph, run, build, faults>>

\* An answer is served from the cache.  Entries are keyed by the question, and
\* one that is set after a delete was accepted is not deleted by it.
Cache(c) == cached' = cached \cup {c} /\ leaving' = leaving \ {c}

\* A question is answered from a chunk, and the answer is cached: at once, or
\* after the rest of the pipeline has run.
Answer(c) ==
    /\ "answers" \in Allowed /\ c \in points
    /\ IF "slowAnswers" \in Allowed
       THEN answering' = answering \cup {c} /\ UNCHANGED <<cached, leaving>>
       ELSE Cache(c) /\ answering' = answering
    /\ UNCHANGED <<points, rows, missed, graph, run, said, build, faults>>

CacheAnswer(c) ==
    /\ c \in answering
    /\ answering' = answering \ {c} /\ Cache(c)
    /\ UNCHANGED <<points, rows, missed, graph, run, said, build, faults>>

\* The cache applies a delete it has accepted, or the entry's time to live
\* passes.
Expire(c) ==
    /\ c \in cached
    /\ cached' = cached \ {c} /\ leaving' = leaving \ {c}
    /\ UNCHANGED <<points, rows, answering, missed, graph, run, said, build, faults>>

-----------------------------------------------------------------------------
(* GraphBuilder.build, over the chunks the vector store holds.             *)

ReadChunks ==
    /\ build.pc = "idle" /\ BuildMayStart
    /\ \E chunks \in (SUBSET points) \ {{}} :
         /\ Extracted(chunks) # {}
         /\ \E found \in {{}, {Extracted(chunks)}} :
              build' = [pc |-> "entities", chunks |-> chunks, communities |-> found]
    /\ UNCHANGED <<indexed, graph, run, said, faults>>

UpsertEntities ==
    /\ build.pc = "entities"
    /\ entity' = [e \in Entities |-> IF e \in Extracted(build.chunks)
                                     THEN "described" ELSE entity[e]]
    /\ build' = [build EXCEPT !.pc = "relations"]
    /\ UNCHANGED <<indexed, chunkNode, mention, community, run, said, faults>>

\* The endpoints of a relation are merged: a node that is not there is made,
\* with its name and nothing else.
UpsertRelations ==
    /\ build.pc = "relations"
    /\ \E ends \in SUBSET Extracted(build.chunks) :
         entity' = [e \in Entities |-> IF e \in ends /\ entity[e] = "absent"
                                       THEN "bare" ELSE entity[e]]
    /\ build' = [build EXCEPT !.pc = "links"]
    /\ UNCHANGED <<indexed, chunkNode, mention, community, run, said, faults>>

\* And so are both ends of a MENTIONS edge.
UpsertChunkLinks ==
    /\ build.pc = "links"
    /\ chunkNode' = chunkNode \cup {c \in build.chunks : Says[c] # {}}
    /\ mention' = mention \cup {m \in build.chunks \X Entities : m[2] \in Says[m[1]]}
    /\ entity' = [e \in Entities |->
                    IF e \in Extracted(build.chunks) /\ entity[e] = "absent"
                    THEN "bare" ELSE entity[e]]
    /\ build' = IF build.communities = {} THEN NoBuild
                ELSE [build EXCEPT !.pc = "communities"]
    /\ UNCHANGED <<indexed, community, run, said, faults>>

UpsertCommunities ==
    /\ build.pc = "communities"
    /\ community' = community \cup build.communities
    /\ build' = [build EXCEPT !.pc = "prune"]
    /\ UNCHANGED <<indexed, chunkNode, mention, entity, run, said, faults>>

\* Superseded: not produced again, and every member partitioned anew.
PruneCommunities ==
    /\ build.pc = "prune"
    /\ community' = {k \in community : \/ k \in build.communities
                                       \/ ~(k \subseteq Extracted(build.chunks))}
    /\ build' = NoBuild
    /\ UNCHANGED <<indexed, chunkNode, mention, entity, run, said, faults>>

\* A statement of the build raises, or its process dies.
BuildFails ==
    /\ build.pc # "idle" /\ Fault
    /\ build' = NoBuild
    /\ UNCHANGED <<indexed, graph, run, said>>

Build ==
    \/ ReadChunks \/ UpsertEntities \/ UpsertRelations \/ UpsertChunkLinks
    \/ UpsertCommunities \/ PruneCommunities \/ BuildFails

-----------------------------------------------------------------------------
(* RAGPipeline.delete: read the chunk ids, then vectors, rows, graph and   *)
(* answers, going on past whatever fails.                                  *)

\* Of a pipeline that asks the graph or not, and that holds a relational store
\* or, as in library use until a query has wanted one, leaves it to the ingest.
Start(r, docs, asks, holds) ==
    /\ At(r, "idle") /\ DeleteMayStart
    /\ ~asks => "graphOff" \in Allowed
    /\ ~holds => "noRows" \in Allowed
    /\ run' = [run EXCEPT ![r] = [Idle EXCEPT !.pc = "lookup", !.docs = docs,
                                              !.asks = asks, !.holds = holds,
                                              !.left = docs]]
    /\ report' = [d \in Docs |-> IF d \in docs THEN "none" ELSE report[d]]
    /\ UNCHANGED <<indexed, graph, rowless, build, faults>>

\* _chunk_ids_for: the only handle on the graph, read before it goes.
LookUp(r) ==
    LET here == Of(points, run[r].docs)
    IN /\ At(r, "lookup")
       /\ run' = [run EXCEPT ![r].pc = "vectors", ![r].chunkIds = here,
                            ![r].found = DocsOf(here)]
       /\ UNCHANGED <<indexed, graph, said, build, faults>>

\* The scroll raises on the way: what it had yielded is kept.
LookUpFails(r) ==
    /\ At(r, "lookup") /\ Fault
    /\ \E some \in SUBSET Of(points, run[r].docs) :
         run' = [run EXCEPT ![r].pc = "vectors", ![r].chunkIds = some,
                            ![r].found = DocsOf(some), ![r].failed = TRUE]
    /\ UNCHANGED <<indexed, graph, said, build>>

\* Mutation: the vectors go before the chunk ids are read.
DeleteVectorsBlind(r) ==
    /\ At(r, "vectors")
    /\ points' = points \ Of(points, run[r].docs)
    /\ run' = [run EXCEPT ![r].pc = "rows", ![r].chunkIds = {}]
    /\ UNCHANGED <<rows, answers, graph, said, build, faults>>

DeleteVectors(r) ==
    /\ At(r, "vectors")
    /\ points' = points \ Of(points, run[r].docs)
    /\ run' = [run EXCEPT ![r].pc = "rows"]
    /\ UNCHANGED <<rows, answers, graph, said, build, faults>>

\* One transaction per document, when there is a relational store to ask.
DeleteRows(r) ==
    /\ At(r, "rows") /\ run[r].holds
    /\ \E d \in run[r].left :
         /\ rows' = rows \ Of(rows, {d})
         /\ run' = [run EXCEPT ![r].left = @ \ {d}]
    /\ UNCHANGED <<points, answers, graph, said, build, faults>>

\* Mutation: the rows of documents still to be deleted are forgotten.
AskGraphEarly(r) ==
    LET q == run[r]
    IN /\ q.pc = "rows"
       /\ run' = [run EXCEPT
            ![r].pc = IF q.chunkIds # {} /\ q.asks THEN "chunks" ELSE "answers",
            ![r].skipped = q.chunkIds # {} /\ ~q.asks]
       /\ rowless' = IF q.holds THEN rowless ELSE rowless \cup q.docs
       /\ UNCHANGED <<indexed, graph, report, build, faults>>

\* The graph is asked when there are ids to name, and skipped when this
\* process has no graph.  A relational store that was not asked is no error, and
\* is not among those skipped.
AskGraph(r) ==
    LET q == run[r]
    IN /\ q.pc = "rows" /\ (q.left = {} \/ ~q.holds)
       /\ run' = [run EXCEPT
            ![r].pc = IF q.chunkIds # {} /\ q.asks THEN "chunks" ELSE "answers",
            ![r].skipped = q.chunkIds # {} /\ ~q.asks]
       /\ rowless' = IF q.holds THEN rowless ELSE rowless \cup q.docs
       /\ UNCHANGED <<indexed, graph, report, build, faults>>

\* Mutation: the Chunk nodes are deleted and their edges are not.
DeleteNodesAlone(r) ==
    /\ At(r, "chunks")
    /\ chunkNode' = chunkNode \ run[r].chunkIds
    /\ run' = [run EXCEPT ![r].pc = "orphans"]
    /\ UNCHANGED <<indexed, mention, entity, community, said, build, faults>>

\* Neo4jStore.delete_chunks, first: the Chunk nodes, with their edges.
DeleteChunkNodes(r) ==
    /\ At(r, "chunks")
    /\ chunkNode' = chunkNode \ run[r].chunkIds
    /\ mention' = {m \in mention : m[1] \notin run[r].chunkIds}
    /\ run' = [run EXCEPT ![r].pc = "orphans"]
    /\ UNCHANGED <<indexed, entity, community, said, build, faults>>

\* Mutation: the entities the deleted chunks said, shared or not.
DeleteNamed(r) ==
    /\ At(r, "orphans")
    /\ entity' = [e \in Entities |-> IF e \in Extracted(run[r].chunkIds)
                                     THEN "absent" ELSE entity[e]]
    /\ mention' = {m \in mention : m[2] \notin Extracted(run[r].chunkIds)}
    /\ run' = [run EXCEPT ![r].pc = "communities"]
    /\ UNCHANGED <<indexed, chunkNode, community, said, build, faults>>

\* Mutation: an entity stays while a node of its name is in a community.
DeleteUngrouped(r) ==
    /\ At(r, "orphans")
    /\ entity' = [e \in Entities |->
                    IF Mentioned(e) \/ e \in UNION community
                    THEN entity[e] ELSE "absent"]
    /\ run' = [run EXCEPT ![r].pc = "communities"]
    /\ UNCHANGED <<indexed, chunkNode, mention, community, said, build, faults>>

\* Second: every entity that nothing mentions any more.
DeleteOrphans(r) ==
    /\ At(r, "orphans")
    /\ entity' = [e \in Entities |-> IF Mentioned(e) THEN entity[e] ELSE "absent"]
    /\ run' = [run EXCEPT ![r].pc = "communities"]
    /\ UNCHANGED <<indexed, chunkNode, mention, community, said, build, faults>>

\* Third: every community of which no member is left.
DeleteEmptyCommunities(r) ==
    /\ At(r, "communities")
    /\ community' = {k \in community : \E e \in k : entity[e] # "absent"}
    /\ run' = [run EXCEPT ![r].pc = "answers"]
    /\ UNCHANGED <<indexed, chunkNode, mention, entity, said, build, faults>>

\* DeleteReport: `complete` is no errors, `deleted` is all of them found, too.
Verdict(q) ==
    IF q.failed THEN "failed" ELSE IF q.skipped THEN "skipped"
    ELSE IF q.found = q.docs THEN "deleted" ELSE "complete"

Filed(r) == [d \in Docs |-> IF d \in run[r].docs THEN Verdict(run[r]) ELSE report[d]]

\* Mutation: the answers of the first document alone are invalidated.
InvalidateFirst(r) ==
    /\ At(r, "answers")
    /\ \E d \in run[r].docs : Uncache({d})
    /\ report' = Filed(r)
    /\ run' = [run EXCEPT ![r] = Idle]
    /\ UNCHANGED <<points, rows, graph, rowless, build, faults>>

\* The cached answers, and the report.
InvalidateAnswers(r) ==
    /\ At(r, "answers")
    /\ Uncache(run[r].docs)
    /\ report' = Filed(r)
    /\ run' = [run EXCEPT ![r] = Idle]
    /\ UNCHANGED <<points, rows, graph, rowless, build, faults>>

\* What the call does next when the statement at hand raises.  delete_chunks
\* gives up at its first failure.
After == [vectors |-> "rows", chunks |-> "answers",
          orphans |-> "answers", communities |-> "answers"]

StatementFails(r) ==
    /\ run[r].pc \in DOMAIN After /\ Fault
    /\ run' = [run EXCEPT ![r].pc = After[@], ![r].failed = TRUE]
    /\ UNCHANGED <<indexed, graph, said, build>>

RowsFail(r) ==
    /\ At(r, "rows") /\ run[r].holds /\ Fault
    /\ \E d \in run[r].left :
         run' = [run EXCEPT ![r].left = @ \ {d}, ![r].failed = TRUE]
    /\ UNCHANGED <<indexed, graph, said, build>>

\* A failed invalidation does not reach the report.
AnswersFail(r) ==
    /\ At(r, "answers") /\ Fault
    /\ Overlook(run[r].docs)
    /\ report' = Filed(r)
    /\ run' = [run EXCEPT ![r] = Idle]
    /\ UNCHANGED <<points, rows, graph, rowless, build>>

\* The process dies before it reports.
Dies(r) ==
    /\ ~At(r, "idle") /\ "kill" \in Allowed /\ Fault
    /\ run' = [run EXCEPT ![r] = Idle]
    /\ UNCHANGED <<indexed, graph, said, build>>

Delete(r) ==
    \/ \E docs \in (SUBSET Docs) \ {{}}, asks, holds \in BOOLEAN :
         Start(r, docs, asks, holds)
    \/ LookUp(r) \/ LookUpFails(r) \/ DeleteVectors(r) \/ DeleteRows(r) \/ AskGraph(r)
    \/ DeleteChunkNodes(r) \/ DeleteOrphans(r) \/ DeleteEmptyCommunities(r)
    \/ InvalidateAnswers(r)
    \/ StatementFails(r) \/ RowsFail(r) \/ AnswersFail(r) \/ Dies(r)

Next ==
    \/ \E d \in Docs, v \in Contents : Ingest(d, v)
    \/ \E c \in Chunks : Answer(c) \/ CacheAnswer(c) \/ Expire(c)
    \/ Build
    \/ \E r \in Runs : Delete(r)

Spec == Init /\ [][Next]_vars

-----------------------------------------------------------------------------
RunStates ==
    [pc : {"idle", "lookup", "vectors", "rows", "chunks", "orphans",
           "communities", "answers"},
     docs : SUBSET Docs, asks : BOOLEAN, holds : BOOLEAN,
     chunkIds : SUBSET Chunks, found : SUBSET Docs, left : SUBSET Docs,
     failed : BOOLEAN, skipped : BOOLEAN]

BuildStates ==
    [pc : {"idle", "entities", "relations", "links", "communities", "prune"},
     chunks : SUBSET Chunks, communities : SUBSET SUBSET Entities]

TypeOK ==
    /\ points \subseteq Chunks /\ rows \subseteq Chunks
    /\ cached \subseteq Chunks /\ answering \subseteq Chunks
    /\ leaving \subseteq cached /\ missed \subseteq Chunks
    /\ chunkNode \subseteq Chunks /\ mention \subseteq chunkNode \X Entities
    /\ entity \in [Entities -> {"absent", "bare", "described"}]
    /\ community \subseteq SUBSET Entities
    /\ run \in [Runs -> RunStates]
    /\ report \in [Docs -> {"none", "failed", "skipped", "complete", "deleted"}]
    /\ rowless \subseteq Docs
    /\ build \in BuildStates
    /\ faults \in 0..MaxFaults

Gone(d) == /\ Of(points \cup chunkNode, {d}) = {}
           /\ d \notin rowless => Of(rows, {d}) = {}

\* A document reported deleted is in none of the three stores: its chunks
\* cannot be retrieved, read or reached through the graph.  Its rows are there
\* when the pipeline that deleted it holds no relational store, which its report
\* does not say.  Reports with errors, with a skipped store and with documents
\* that were not found promise nothing.
DeletedIsGone == \A d \in Docs : report[d] = "deleted" => Gone(d)

\* Answers that are served or will be, and that no invalidation has taken, nor
\* missed.
standing == (cached \ (leaving \cup missed)) \cup (answering \ missed)

\* And an answer built from it is served only until the cache has applied the
\* delete it has accepted, unless it was computed before that and cached after
\* it, or the cache failed: the vectors go before the cached answers do, so no
\* question asked in between brings one back ("removes ... the cached answers
\* built from them").
DeletedIsForgotten == \A d \in Docs : report[d] = "deleted" => Of(standing, {d}) = {}

\* After a failed or a skipped delete, a later one that names no error and
\* skips nothing has finished the job.  "Read `complete`; if it is false,
\* retry", and "re-run this delete with graph.enabled=true".
CompleteIsGone ==
    \A d \in Docs : report[d] \in {"complete", "deleted"} => Gone(d)

\* A Chunk node mentions all that its chunk says, and what it mentions has its
\* type and its description: deleting a document strips nothing from another
\* that shares an entity with it.
NothingStripped ==
    \A c \in chunkNode : \A e \in Says[c] :
        <<c, e>> \in mention /\ entity[e] = "described"

\* A document that has rows, and is not being deleted, can be retrieved, as long
\* as nothing has failed: the next ingest will skip it.  A delete that loses the
\* row statement alone, or has no relational store to ask, leaves a document that
\* is neither there nor ingested again.
RowsAreRetrievable ==
    faults = 0 =>
        \A d \in Docs \ rowless : ~Deleting(d) => Of(rows, {d}) \subseteq points

\* delete_chunks leaves no entity that nothing mentions and no community
\* without a member, also those that a failed build or delete left before it.
Tidies ==
    \A r \in Runs :
        (At(r, "communities") /\ run'[r].pc = "answers" /\ ~run'[r].failed) =>
            /\ \A e \in Entities : entity'[e] # "absent" => Mentioned(e)'
            /\ \A k \in community' : \E e \in k : entity'[e] # "absent"
=============================================================================
