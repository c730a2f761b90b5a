------------------------------- MODULE Ingest -------------------------------
(***************************************************************************)
(* ragorc.index.pipeline.IngestPipeline: the write path from a source to   *)
(* the two stores that hold a document, and the marker that lets the next  *)
(* run skip it.                                                            *)
(*                                                                         *)
(* A document has a row in Postgres (the checksum of the row is the commit *)
(* marker), chunk rows in Postgres, and points in Qdrant.  Its leaves go   *)
(* to both stores, its parents only to Postgres.  Qdrant accepts an upsert *)
(* before it applies it.  Each action is the code between two awaits.      *)
(*                                                                         *)
(* A checksum is the version of the source it was computed from; a chunk   *)
(* is <<document, version, part>>, because chunk_id folds the content in.  *)
(***************************************************************************)
EXTENDS Naturals, FiniteSets

CONSTANTS Docs,       \* documents
          Runs,       \* concurrent calls of ingest() on one pipeline
          Target,     \* [Runs -> SUBSET Docs], what each call is pointed at
          Leaves,     \* parts of a document that are searched
          Parents,    \* parts that are only stored, to be expanded
          DocWindow,  \* documents loaded at a time
          Window,     \* documents processed at a time
          Batch,      \* chunks written at a time
          MaxVersion, \* bound: the last version a source is edited to
          MaxFaults,  \* bound: crashes, failed runs and failed documents
          Allowed     \* what the environment may do: a subset of Behaviours

Behaviours == {"force",      \* a run may be started with --force
               "editDirty",  \* a source may be edited before it is stamped
               "unflushed",  \* the read-back of the vector store may fail
               "answers",    \* queries are answered and cached
               "slowAnswers",\* ... with other steps before the cache is set
               "unreached"}  \* an invalidation may not reach the cache: there
                             \* is no answer_cache, or its delete fails

ASSUME IngestAssumption ==
    /\ IsFiniteSet(Docs) /\ Target \in [Runs -> SUBSET Docs]
    /\ DocWindow \in Nat \ {0} /\ Window \in Nat \ {0} /\ Batch \in Nat \ {0}
    /\ MaxVersion \in Nat \ {0} /\ MaxFaults \in Nat
    /\ Leaves # {} /\ Leaves \cap Parents = {}
    /\ Allowed \subseteq Behaviours

VARIABLES source,    \* what the loader would read now
          row,       \* the document row: no row, no checksum, or a checksum
          chunkRows, \* chunk rows in Postgres
          points,    \* points Qdrant has applied
          accepted,  \* points Qdrant has accepted and not applied yet
          awaiting,  \* _awaiting_confirmation: version to stamp, 0 for none
          cached,    \* semantic cache: the <<document, version>> answered from
          answering, \* answers computed and not yet cached
          leaving,   \* entries the cache has been asked to delete, served still
          missed,    \* history: answers that the last invalidation of their
                     \* document should have removed and did not reach
          run,       \* the local state of each call of ingest()
          faults

stores == <<row, chunkRows, points, accepted>>
answers == <<cached, answering, leaving, missed>>
vars == <<source, row, chunkRows, points, accepted, awaiting, cached,
          answering, leaving, missed, run, faults>>

Versions == 1..MaxVersion
Absent == 0              \* no row, or nothing to stamp
Unstamped == MaxVersion + 1   \* a row whose checksum is NULL
DocVersions == Docs \X Versions
Chunks == Docs \X Versions \X (Leaves \cup Parents)

LeavesOf(dvs) == {c \in Chunks : <<c[1], c[2]>> \in dvs /\ c[3] \in Leaves}
ParentsOf(dvs) == {c \in Chunks : <<c[1], c[2]>> \in dvs /\ c[3] \in Parents}
DocsOf(dvs) == {dv[1] : dv \in dvs}
Of(chunks, docs) == {c \in chunks : c[1] \in docs}

\* A window of at most n elements.
Windows(S, n) ==
    {w \in SUBSET S : Cardinality(w) = IF Cardinality(S) < n
                                       THEN Cardinality(S) ELSE n}

Idle == [pc |-> "idle", left |-> {}, force |-> FALSE, todo |-> {},
         changed |-> {}, ready |-> {}, purging |-> {}, pending |-> {},
         toVectors |-> {}, toRows |-> {}, deferred |-> {}, landed |-> {},
         stamping |-> {}]

Init ==
    /\ source = [d \in Docs |-> 1]
    /\ row = [d \in Docs |-> Absent]
    /\ chunkRows = {} /\ points = {} /\ accepted = {}
    /\ awaiting = [d \in Docs |-> Absent]
    /\ cached = {} /\ answering = {} /\ leaving = {} /\ missed = {}
    /\ run = [r \in Runs |-> Idle]
    /\ faults = 0

At(r, pc) == run[r].pc = pc
Active(r) == run[r].pc # "idle"

Stale(q) == DocsOf(q.ready) \cap q.changed

\* The checksum _existing_checksums finds: the row has one, and has chunks.
Prior(d) == IF /\ row[d] \in Versions
               /\ \E c \in chunkRows : c[1] = d
            THEN row[d] ELSE Absent

Start(r, force) ==
    /\ ~Active(r)
    /\ force => "force" \in Allowed
    /\ run' = [run EXCEPT ![r].pc = "load", ![r].left = Target[r],
                         ![r].force = force]
    /\ UNCHANGED <<source, stores, awaiting, answers, faults>>

\* _document_windows: the next documents, as the source has them now.
Load(r) ==
    /\ At(r, "load") /\ run[r].left # {}
    /\ \E w \in Windows(run[r].left, DocWindow) :
         run' = [run EXCEPT ![r].pc = "select", ![r].left = @ \ w,
                            ![r].todo = {<<d, source[d]>> : d \in w}]
    /\ UNCHANGED <<source, stores, awaiting, answers, faults>>

\* The windows are exhausted: on to the read-back of the vector store.
Exhaust(r) ==
    /\ At(r, "load") /\ run[r].left = {}
    /\ run' = [run EXCEPT ![r].pc = "flush"]
    /\ UNCHANGED <<source, stores, awaiting, answers, faults>>

SelectChanged(r) ==
    LET q == run[r]
        todo == IF q.force THEN q.todo
                ELSE {dv \in q.todo : Prior(dv[1]) # dv[2]}
        changed == IF q.force THEN todo
                   ELSE {dv \in todo : Prior(dv[1]) # Absent}
    IN /\ q.pc = "select"
       /\ run' = [run EXCEPT ![r].pc = IF todo = {} THEN "load" ELSE "process",
                            ![r].todo = todo, ![r].changed = DocsOf(changed)]
       /\ UNCHANGED <<source, stores, awaiting, answers, faults>>

\* _process_window: split and embed a group; a document that fails is left
\* out of it, and what it wanted stored is dropped with it.
Process(r) ==
    /\ At(r, "process")
    /\ \E group \in Windows(run[r].todo, Window) : \E ready \in SUBSET group :
         LET rest == run[r].todo \ group
             stale == DocsOf(ready) \cap run[r].changed
         IN /\ faults + Cardinality(group \ ready) <= MaxFaults
            /\ faults' = faults + Cardinality(group \ ready)
            /\ run' = [run EXCEPT
                 ![r].pc = IF ready # {}
                           THEN IF stale # {} THEN "purgeVectors" ELSE "documents"
                           ELSE IF rest # {} THEN "process" ELSE "write",
                 ![r].todo = rest, ![r].ready = ready,
                 ![r].deferred = @ \cup ParentsOf(ready)]
    /\ UNCHANGED <<source, stores, awaiting, answers>>

\* Mutation: the purge deletes the rows alone.
PurgeNoVectors(r) ==
    /\ At(r, "purgeVectors")
    /\ run' = [run EXCEPT ![r].pc = "purgeRows", ![r].purging = Stale(run[r])]
    /\ UNCHANGED <<source, stores, awaiting, answers, faults>>

\* _purge, first: one filtered delete, which Qdrant applies after the upserts
\* it has accepted.
PurgeVectors(r) ==
    LET stale == Stale(run[r])
    IN /\ At(r, "purgeVectors")
       /\ points' = points \ Of(points, stale)
       /\ accepted' = accepted \ Of(accepted, stale)
       /\ run' = [run EXCEPT ![r].pc = "purgeRows", ![r].purging = stale]
       /\ UNCHANGED <<source, row, chunkRows, awaiting, answers, faults>>

\* _purge, second: one transaction per document, for its chunks and its row.
PurgeRows(r) ==
    /\ At(r, "purgeRows")
    /\ \E d \in run[r].purging :
         /\ row' = [row EXCEPT ![d] = Absent]
         /\ chunkRows' = chunkRows \ Of(chunkRows, {d})
         /\ run' = [run EXCEPT
              ![r].purging = @ \ {d},
              ![r].pc = IF run[r].purging = {d} THEN "invalidate" ELSE @]
    /\ UNCHANGED <<source, points, accepted, awaiting, answers, faults>>

\* Mutation: the purge does not reach the answer cache.
InvalidateNone(r) ==
    /\ At(r, "invalidate")
    /\ run' = [run EXCEPT ![r].pc = "documents"]
    /\ UNCHANGED <<source, stores, awaiting, answers, faults>>

\* _purge, last: _invalidate_answers.  The cache accepts the delete and applies
\* it later, to the entries it has then been given: an answer that is still on
\* its way when it accepts is not among them.  A delete that fails is swallowed.
Invalidate(r) ==
    LET docs == Stale(run[r])
    IN /\ At(r, "invalidate")
       /\ \/ /\ leaving' = leaving \cup Of(cached, docs)
             /\ missed' = (missed \ Of(missed, docs)) \cup Of(answering, docs)
          \/ /\ "unreached" \in Allowed
             /\ missed' = missed \cup Of(cached \cup answering, docs)
             /\ leaving' = leaving
       /\ run' = [run EXCEPT ![r].pc = "documents"]
       /\ UNCHANGED <<source, stores, awaiting, cached, answering, faults>>

\* Mutation: the rows are written with their checksums.
WriteStamped(r) ==
    LET ready == run[r].ready
    IN /\ At(r, "documents")
       /\ row' = [d \in Docs |-> IF d \in DocsOf(ready)
                     THEN CHOOSE v \in Versions : <<d, v>> \in ready ELSE row[d]]
       /\ run' = [run EXCEPT ![r].pc = "write", ![r].ready = {},
                            ![r].landed = @ \cup ready,
                            ![r].pending = @ \cup LeavesOf(ready)]
       /\ UNCHANGED <<source, chunkRows, points, accepted, awaiting, answers, faults>>

\* _write_documents, without the checksums, and the chunks join the queue.
WriteDocuments(r) ==
    LET ready == run[r].ready
    IN /\ At(r, "documents")
       /\ row' = [d \in Docs |-> IF d \in DocsOf(ready) THEN Unstamped ELSE row[d]]
       /\ run' = [run EXCEPT ![r].pc = "write", ![r].ready = {},
                            ![r].landed = @ \cup ready,
                            ![r].pending = @ \cup LeavesOf(ready)]
       /\ UNCHANGED <<source, chunkRows, points, accepted, awaiting, answers, faults>>

BatchDone(r) == At(r, "write") /\ run[r].toVectors = {} /\ run[r].toRows = {}

\* A full batch, or what is left once the last group has been processed.
NextBatch(r) ==
    /\ BatchDone(r) /\ run[r].pending # {}
    /\ Cardinality(run[r].pending) >= Batch \/ run[r].todo = {}
    /\ \E b \in Windows(run[r].pending, Batch) :
         run' = [run EXCEPT ![r].pending = @ \ b,
                            ![r].toVectors = b, ![r].toRows = b]
    /\ UNCHANGED <<source, stores, awaiting, answers, faults>>

NextGroup(r) ==
    /\ BatchDone(r) /\ run[r].todo # {}
    /\ Cardinality(run[r].pending) < Batch
    /\ run' = [run EXCEPT ![r].pc = "process"]
    /\ UNCHANGED <<source, stores, awaiting, answers, faults>>

\* _write_chunks: the two writes of a batch are gathered, in either order.
SendVectors(r) ==
    /\ At(r, "write") /\ run[r].toVectors # {}
    /\ accepted' = accepted \cup (run[r].toVectors \ points)
    /\ run' = [run EXCEPT ![r].toVectors = {}]
    /\ UNCHANGED <<source, row, chunkRows, points, awaiting, answers, faults>>

HasRows(chunks) == \A c \in chunks : row[c[1]] # Absent

SendRows(r) ==
    /\ At(r, "write") /\ run[r].toRows # {} /\ HasRows(run[r].toRows)
    /\ chunkRows' = chunkRows \cup run[r].toRows
    /\ run' = [run EXCEPT ![r].toRows = {}]
    /\ UNCHANGED <<source, row, points, accepted, awaiting, answers, faults>>

\* Mutation: the documents do not join those that wait.
FlushNoAwaiting(r) ==
    /\ BatchDone(r) /\ run[r].pending = {} /\ run[r].todo = {}
    /\ HasRows(run[r].deferred)
    /\ chunkRows' = chunkRows \cup run[r].deferred
    /\ run' = [run EXCEPT ![r].pc = "load", ![r].deferred = {},
                         ![r].landed = {}, ![r].changed = {}]
    /\ UNCHANGED <<source, row, points, accepted, awaiting, answers, faults>>

\* Every leaf of the window is written: the deferred parents follow, and the
\* window's documents join those that wait for confirmation.
FlushDeferred(r) ==
    LET q == run[r]
    IN /\ BatchDone(r) /\ q.pending = {} /\ q.todo = {} /\ HasRows(q.deferred)
       /\ chunkRows' = chunkRows \cup q.deferred
       /\ awaiting' = [d \in Docs |-> IF d \in DocsOf(q.landed)
                          THEN CHOOSE v \in Versions : <<d, v>> \in q.landed
                          ELSE awaiting[d]]
       /\ run' = [run EXCEPT ![r].pc = "load", ![r].deferred = {},
                            ![r].landed = {}, ![r].changed = {}]
       /\ UNCHANGED <<source, row, points, accepted, answers, faults>>

\* The foreign key refuses a chunk whose row is gone, and the run ends.
Refused(r) ==
    /\ At(r, "write")
    /\ \/ ~HasRows(run[r].toRows)
       \/ /\ BatchDone(r) /\ run[r].pending = {} /\ run[r].todo = {}
          /\ ~HasRows(run[r].deferred)
    /\ run' = [run EXCEPT ![r] = Idle]
    /\ UNCHANGED <<source, stores, awaiting, answers, faults>>

\* Mutation: the vectors sent are taken for the vectors applied.
FlushAtOnce(r) ==
    /\ At(r, "flush")
    /\ run' = [run EXCEPT ![r].pc = "count"]
    /\ UNCHANGED <<source, stores, awaiting, answers, faults>>

\* _flush_vectors: wait for the collection to settle.  A wait that times out
\* or a request that fails is a warning, and the run goes on.
Flush(r) ==
    /\ At(r, "flush")
    /\ accepted = {} \/ "unflushed" \in Allowed
    /\ run' = [run EXCEPT ![r].pc = "count"]
    /\ UNCHANGED <<source, stores, awaiting, answers, faults>>

\* Mutation: a document without a checksum is stamped as well.
CountAll(r) ==
    /\ At(r, "count")
    /\ run' = [run EXCEPT ![r].pc = "stamp",
                         ![r].stamping = {<<d, awaiting[d]>> : d \in Docs}]
    /\ UNCHANGED <<source, stores, awaiting, answers, faults>>

\* The read-back has counted the points: _stamp_checksums takes what waits.
Count(r) ==
    LET stamping == {<<d, awaiting[d]>> : d \in {e \in Docs : awaiting[e] # Absent}}
    IN /\ At(r, "count")
       /\ run' = [run EXCEPT ![r] = IF stamping = {} THEN Idle
                   ELSE [@ EXCEPT !.pc = "stamp", !.stamping = stamping]]
       /\ UNCHANGED <<source, stores, awaiting, answers, faults>>

Stamp(r) ==
    LET stamping == run[r].stamping
    IN /\ At(r, "stamp")
       /\ row' = [d \in Docs |-> IF d \in DocsOf(stamping)
                     THEN CHOOSE v \in Versions : <<d, v>> \in stamping
                     ELSE row[d]]
       /\ awaiting' = [d \in Docs |-> Absent]
       /\ run' = [run EXCEPT ![r] = Idle]
       /\ UNCHANGED <<source, chunkRows, points, accepted, answers, faults>>

\* A store or the provider raises: the run ends where it stands.
Fail(r) ==
    /\ Active(r) /\ faults < MaxFaults
    /\ faults' = faults + 1
    /\ run' = [run EXCEPT ![r] = Idle]
    /\ UNCHANGED <<source, stores, awaiting, answers>>

\* The process dies: what it held in memory is gone, what was accepted stays.
Crash ==
    /\ faults < MaxFaults /\ \E r \in Runs : Active(r)
    /\ faults' = faults + 1
    /\ run' = [r \in Runs |-> Idle]
    /\ awaiting' = [d \in Docs |-> Absent]
    /\ answering' = {}
    /\ UNCHANGED <<source, stores, cached, leaving, missed>>

\* Qdrant applies a point it had accepted.
Apply ==
    /\ \E c \in accepted : /\ points' = points \cup {c}
                           /\ accepted' = accepted \ {c}
    /\ UNCHANGED <<source, row, chunkRows, awaiting, answers, run, faults>>

\* The source is edited.  Unless "editDirty", only once it has been stamped
\* and no run is under way.
Edit(d) ==
    /\ source[d] < MaxVersion
    /\ "editDirty" \in Allowed \/ (row[d] = source[d] /\ \A r \in Runs : ~Active(r))
    /\ source' = [source EXCEPT ![d] = @ + 1]
    /\ UNCHANGED <<stores, awaiting, answers, run, faults>>

\* An answer is served from the cache.  Entries are keyed by the question, and
\* one that is set after a delete was accepted is not deleted by it.
Cache(dv) == cached' = cached \cup {dv} /\ leaving' = leaving \ {dv}

\* A question is answered from a document that retrieval finds, and the
\* answer is cached: at once, or after the rest of the pipeline has run.
Answer(dv) ==
    /\ "answers" \in Allowed /\ LeavesOf({dv}) \cap points # {}
    /\ IF "slowAnswers" \in Allowed
       THEN answering' = answering \cup {dv} /\ UNCHANGED <<cached, leaving>>
       ELSE Cache(dv) /\ answering' = answering
    /\ UNCHANGED <<source, stores, awaiting, missed, run, faults>>

CacheAnswer(dv) ==
    /\ dv \in answering
    /\ answering' = answering \ {dv} /\ Cache(dv)
    /\ UNCHANGED <<source, stores, awaiting, missed, run, faults>>

\* The cache applies a delete it has accepted, or the entry's time to live
\* passes.
Expire(dv) ==
    /\ dv \in cached
    /\ cached' = cached \ {dv} /\ leaving' = leaving \ {dv}
    /\ UNCHANGED <<source, stores, awaiting, answering, missed, run, faults>>

Step(r) ==
    \/ Load(r) \/ Exhaust(r) \/ SelectChanged(r) \/ Process(r)
    \/ PurgeVectors(r) \/ PurgeRows(r) \/ Invalidate(r)
    \/ WriteDocuments(r) \/ NextBatch(r) \/ NextGroup(r)
    \/ SendVectors(r) \/ SendRows(r) \/ FlushDeferred(r) \/ Refused(r)
    \/ Flush(r) \/ Count(r) \/ Stamp(r)

Next ==
    \/ \E r \in Runs : Step(r) \/ Fail(r) \/ \E f \in BOOLEAN : Start(r, f)
    \/ Crash \/ Apply
    \/ \E d \in Docs : Edit(d)
    \/ \E dv \in DocVersions : Answer(dv) \/ CacheAnswer(dv) \/ Expire(dv)

Spec == Init /\ [][Next]_vars

-----------------------------------------------------------------------------
RunStates ==
    [pc : {"idle", "load", "select", "process", "purgeVectors", "purgeRows",
           "invalidate", "documents", "write", "flush", "count", "stamp"},
     left : SUBSET Docs, force : BOOLEAN, todo : SUBSET DocVersions,
     changed : SUBSET Docs, ready : SUBSET DocVersions, purging : SUBSET Docs,
     pending : SUBSET Chunks, toVectors : SUBSET Chunks,
     toRows : SUBSET Chunks, deferred : SUBSET Chunks,
     landed : SUBSET DocVersions, stamping : SUBSET DocVersions]

TypeOK ==
    /\ source \in [Docs -> Versions]
    /\ row \in [Docs -> 0..Unstamped]
    /\ chunkRows \subseteq Chunks
    /\ points \subseteq Chunks /\ accepted \subseteq Chunks
    /\ awaiting \in [Docs -> {Absent} \cup Versions]
    /\ cached \subseteq DocVersions /\ answering \subseteq DocVersions
    /\ leaving \subseteq cached /\ missed \subseteq DocVersions
    /\ run \in [Runs -> RunStates]
    /\ faults \in 0..MaxFaults

\* The next run would skip this document.
Skipped(d) == Prior(d) = source[d]

\* A document the next run would skip is really indexed: every leaf of its
\* current version is an applied point and a row, every parent is a row.
\* This is what the late checksum of _stamp_checksums is for: no crash, failed
\* run or failed document may leave a marker over chunks that are not there.
SkippedIsIndexed ==
    \A d \in Docs : Skipped(d) =>
        LET dv == {<<d, source[d]>>}
        IN LeavesOf(dv) \subseteq points /\ LeavesOf(dv) \cup ParentsOf(dv) \subseteq chunkRows

\* The same with no run under way: what a retry would find.  "On restart the
\* stored checksum is absent or stale, so the retry re-ingests by
\* construction", says _write_documents; a forced run that dies in its purge,
\* between the vectors and the row, leaves a checksum that is neither.
RestartIsSafe == (\A r \in Runs : ~Active(r)) => SkippedIsIndexed

\* A document the next run would skip has no chunk of another version left in
\* either store, applied or still to be applied: _purge removed them before
\* the new ones were written ("still retrievable, still citable, and now wrong").
SkippedIsCurrent ==
    \A d \in Docs : Skipped(d) =>
        \A c \in Of(points \cup accepted \cup chunkRows, {d}) : c[2] = source[d]

\* Answers that are served or will be, and that no invalidation has taken, nor
\* missed.
standing == (cached \ (leaving \cup missed)) \cup (answering \ missed)

\* Once a document is indexed at its current version, an answer built from
\* another version is served only until the cache has applied the delete it has
\* accepted, unless the answer was computed before that and cached after it, or
\* the delete failed: the purge invalidates after the old vectors are gone and
\* before the new ones are there.
AnswersAreCurrent ==
    \A d \in Docs : Skipped(d) =>
        \A dv \in standing : dv[1] = d => dv[2] = source[d]

\* Documents that wait for confirmation have all their leaves accepted and
\* their rows written, so that the read-back of the store settles them.
AwaitingIsWritten ==
    \A d \in Docs : awaiting[d] # Absent =>
        LET dv == {<<d, awaiting[d]>>}
        IN /\ LeavesOf(dv) \subseteq points \cup accepted
           /\ LeavesOf(dv) \cup ParentsOf(dv) \subseteq chunkRows

\* Retried until it succeeds: the operator starts the run again while one of
\* its documents would not be skipped.
Retry(r) == Start(r, FALSE) /\ \E d \in Target[r] : ~Skipped(d)

FairSpec == /\ Spec
            /\ \A r \in Runs : WF_vars(Step(r)) /\ WF_vars(Retry(r))
            /\ WF_vars(Apply)

\* Whatever fails on the way, and as long as it stops failing, retrying the
\* run gets every document indexed at its current version, for good.
Converges == <>[](\A d \in Docs : Skipped(d))
=============================================================================
