---------------------------- MODULE IngestProofs ----------------------------
(***************************************************************************)
(* Proofs about Ingest: types; that a document the next run would skip is  *)
(* really indexed, only as it is now, and answered for as it is now; and   *)
(* that points go only when others replace them.  For any set of           *)
(* documents, any window and batch size and any parts.  Those about        *)
(* skipped documents are for one run at a time, none forced, that waits    *)
(* for the read-back of the vector store, and say where they suppose that  *)
(* sources keep still (Clean) or that nothing fails (NoFaults).             *)
(***************************************************************************)
EXTENDS Ingest, FiniteSetTheorems, TLAPS

\* Replacing the state of one run keeps the type of run.
LEMMA PutRun ==
  ASSUME run \in [Runs -> RunStates], NEW r \in Runs, NEW q \in RunStates,
         run' = [run EXCEPT ![r] = q]
  PROVE  run' \in [Runs -> RunStates]
  OBVIOUS

\* The fields of a run.
LEMMA RunFields ==
  ASSUME NEW p \in RunStates
  PROVE  /\ p.left \in SUBSET Docs /\ p.changed \in SUBSET Docs
         /\ p.purging \in SUBSET Docs
         /\ p.todo \in SUBSET DocVersions /\ p.ready \in SUBSET DocVersions
         /\ p.landed \in SUBSET DocVersions
         /\ p.pending \in SUBSET Chunks /\ p.toVectors \in SUBSET Chunks
         /\ p.toRows \in SUBSET Chunks /\ p.deferred \in SUBSET Chunks
  BY DEF RunStates

\* The operators on sets of documents and chunks stay in their types.
LEMMA Typed ==
  ASSUME NEW dvs \in SUBSET DocVersions
  PROVE  /\ LeavesOf(dvs) \in SUBSET Chunks /\ ParentsOf(dvs) \in SUBSET Chunks
         /\ DocsOf(dvs) \in SUBSET Docs
  BY DEF LeavesOf, ParentsOf, DocsOf, DocVersions

LEMMA IdleTyped == Idle \in RunStates
  BY DEF Idle, RunStates

\* Any set of document versions is finite.
LEMMA FiniteVersions ==
  ASSUME NEW dvs \in SUBSET DocVersions
  PROVE  IsFiniteSet(dvs) /\ Cardinality(dvs) \in Nat
  <1>1. IsFiniteSet(Versions)
    BY IngestAssumption, FS_Interval DEF Versions
  <1>2. IsFiniteSet(DocVersions)
    BY <1>1, IngestAssumption, FS_Product DEF DocVersions
  <1> QED
    BY <1>2, FS_Subset, FS_CardinalityType

LEMMA StartTyped ==
  ASSUME TypeOK, NEW r \in Runs, NEW force \in BOOLEAN, Start(r, force)
  PROVE  run' \in [Runs -> RunStates]
  <1>0. PICK p \in RunStates : p = run[r]
    BY DEF TypeOK
  <1> DEFINE q == [p EXCEPT !.pc = "load", !.left = Target[r], !.force = force]
  <1>2. Target[r] \in SUBSET Docs
    BY IngestAssumption
  <1>3. q \in RunStates
    BY <1>2 DEF RunStates
  <1>4. run' = [run EXCEPT ![r] = q]
    BY <1>0 DEF Start
  <1> HIDE DEF q
  <1> QED
    BY <1>3, <1>4, PutRun DEF TypeOK

LEMMA LoadTyped ==
  ASSUME TypeOK, NEW r \in Runs, Load(r)
  PROVE  run' \in [Runs -> RunStates]
  <1>0. PICK p \in RunStates : p = run[r]
    BY DEF TypeOK
  <1>1. PICK w \in Windows(run[r].left, DocWindow) :
               run' = [run EXCEPT ![r].pc = "select", ![r].left = run[r].left \ w,
                                    ![r].todo = {<<d, source[d]>> : d \in w}]
    BY DEF Load
  <1> DEFINE q == [p EXCEPT !.pc = "select", !.left = p.left \ w,
                            !.todo = {<<d, source[d]>> : d \in w}]
  <1>2. p.left \ w \in SUBSET Docs
    BY RunFields
  <1>3. {<<d, source[d]>> : d \in w} \in SUBSET DocVersions
    BY RunFields, <1>0 DEF Windows, TypeOK, DocVersions
  <1>4. q \in RunStates
    BY <1>2, <1>3 DEF RunStates
  <1>5. run' = [run EXCEPT ![r] = q]
    BY <1>0, <1>1 DEF Load
  <1> HIDE DEF q
  <1> QED
    BY <1>4, <1>5, PutRun DEF TypeOK

LEMMA ExhaustTyped ==
  ASSUME TypeOK, NEW r \in Runs, Exhaust(r)
  PROVE  run' \in [Runs -> RunStates]
  <1>0. PICK p \in RunStates : p = run[r]
    BY DEF TypeOK
  <1> DEFINE q == [p EXCEPT !.pc = "flush"]
  <1>2. q \in RunStates
    BY DEF RunStates
  <1>3. run' = [run EXCEPT ![r] = q]
    BY <1>0 DEF Exhaust
  <1> HIDE DEF q
  <1> QED
    BY <1>2, <1>3, PutRun DEF TypeOK

LEMMA SelectChangedTyped ==
  ASSUME TypeOK, NEW r \in Runs, SelectChanged(r)
  PROVE  run' \in [Runs -> RunStates]
  <1>0. PICK p \in RunStates : p = run[r]
    BY DEF TypeOK
  <1> DEFINE todo == IF p.force THEN p.todo
                     ELSE {dv \in p.todo : Prior(dv[1]) # dv[2]}
  <1> DEFINE changed == IF p.force THEN todo
                        ELSE {dv \in todo : Prior(dv[1]) # Absent}
  <1> DEFINE q == [p EXCEPT !.pc = IF todo = {} THEN "load" ELSE "process",
                            !.todo = todo, !.changed = DocsOf(changed)]
  <1>2. todo \in SUBSET DocVersions /\ changed \in SUBSET DocVersions
    BY RunFields
  <1>3. DocsOf(changed) \in SUBSET Docs
    BY <1>2, Typed
  <1>4. q \in RunStates
    BY <1>2, <1>3 DEF RunStates
  <1>5. run' = [run EXCEPT ![r] = q]
    BY <1>0 DEF SelectChanged
  <1> HIDE DEF q
  <1> QED
    BY <1>4, <1>5, PutRun DEF TypeOK

LEMMA ProcessTyped ==
  ASSUME TypeOK, NEW r \in Runs, Process(r)
  PROVE  run' \in [Runs -> RunStates]
  <1>0. PICK p \in RunStates : p = run[r]
    BY DEF TypeOK
  <1>1. PICK group \in Windows(run[r].todo, Window) :
          \E ready \in SUBSET group :
            run' = [run EXCEPT
                 ![r].pc = IF ready # {}
                           THEN IF DocsOf(ready) \cap run[r].changed # {}
                                THEN "purgeVectors" ELSE "documents"
                           ELSE IF run[r].todo \ group # {} THEN "process" ELSE "write",
                 ![r].todo = run[r].todo \ group, ![r].ready = ready,
                 ![r].deferred = @ \cup ParentsOf(ready)]
    BY DEF Process
  <1>5. PICK ready \in SUBSET group :
            run' = [run EXCEPT
                 ![r].pc = IF ready # {}
                           THEN IF DocsOf(ready) \cap run[r].changed # {}
                                THEN "purgeVectors" ELSE "documents"
                           ELSE IF run[r].todo \ group # {} THEN "process" ELSE "write",
                 ![r].todo = run[r].todo \ group, ![r].ready = ready,
                 ![r].deferred = @ \cup ParentsOf(ready)]
    BY <1>1
  <1> DEFINE q == [p EXCEPT
                 !.pc = IF ready # {}
                        THEN IF DocsOf(ready) \cap p.changed # {}
                             THEN "purgeVectors" ELSE "documents"
                        ELSE IF p.todo \ group # {} THEN "process" ELSE "write",
                 !.todo = p.todo \ group, !.ready = ready,
                 !.deferred = p.deferred \cup ParentsOf(ready)]
  <1>2. ready \in SUBSET DocVersions /\ p.todo \ group \in SUBSET DocVersions
    BY RunFields, <1>0 DEF Windows
  <1>3. p.deferred \cup ParentsOf(ready) \in SUBSET Chunks
    BY <1>2, RunFields, Typed
  <1>4. q \in RunStates
    BY <1>2, <1>3 DEF RunStates
  <1>6. run' = [run EXCEPT ![r] = q]
    BY <1>0, <1>5
  <1> HIDE DEF q
  <1> QED
    BY <1>4, <1>6, PutRun DEF TypeOK

LEMMA PurgeVectorsTyped ==
  ASSUME TypeOK, NEW r \in Runs, PurgeVectors(r)
  PROVE  run' \in [Runs -> RunStates]
  <1>0. PICK p \in RunStates : p = run[r]
    BY DEF TypeOK
  <1> DEFINE q == [p EXCEPT !.pc = "purgeRows", !.purging = Stale(p)]
  <1>2. Stale(p) \in SUBSET Docs
    BY RunFields DEF Stale
  <1>3. q \in RunStates
    BY <1>2 DEF RunStates
  <1>4. run' = [run EXCEPT ![r] = q]
    BY <1>0 DEF PurgeVectors
  <1> HIDE DEF q
  <1> QED
    BY <1>3, <1>4, PutRun DEF TypeOK

LEMMA PurgeRowsTyped ==
  ASSUME TypeOK, NEW r \in Runs, PurgeRows(r)
  PROVE  run' \in [Runs -> RunStates]
  <1>0. PICK p \in RunStates : p = run[r]
    BY DEF TypeOK
  <1>1. PICK d \in run[r].purging :
               run' = [run EXCEPT
              ![r].purging = run[r].purging \ {d},
              ![r].pc = IF run[r].purging = {d} THEN "invalidate" ELSE run[r].pc]
    BY DEF PurgeRows
  <1> DEFINE q == [p EXCEPT !.purging = p.purging \ {d},
                            !.pc = IF p.purging = {d} THEN "invalidate" ELSE p.pc]
  <1>2. p.purging \ {d} \in SUBSET Docs
    BY RunFields
  <1>3. q \in RunStates
    BY <1>2 DEF RunStates
  <1>4. run' = [run EXCEPT ![r] = q]
    BY <1>0, <1>1 DEF PurgeRows
  <1> HIDE DEF q
  <1> QED
    BY <1>3, <1>4, PutRun DEF TypeOK

LEMMA InvalidateTyped ==
  ASSUME TypeOK, NEW r \in Runs, Invalidate(r)
  PROVE  run' \in [Runs -> RunStates]
  <1>0. PICK p \in RunStates : p = run[r]
    BY DEF TypeOK
  <1> DEFINE q == [p EXCEPT !.pc = "documents"]
  <1>2. q \in RunStates
    BY DEF RunStates
  <1>3. run' = [run EXCEPT ![r] = q]
    BY <1>0 DEF Invalidate
  <1> HIDE DEF q
  <1> QED
    BY <1>2, <1>3, PutRun DEF TypeOK

LEMMA WriteDocumentsTyped ==
  ASSUME TypeOK, NEW r \in Runs, WriteDocuments(r)
  PROVE  run' \in [Runs -> RunStates]
  <1>0. PICK p \in RunStates : p = run[r]
    BY DEF TypeOK
  <1> DEFINE q == [p EXCEPT !.pc = "write", !.ready = {},
                            !.landed = p.landed \cup p.ready,
                            !.pending = p.pending \cup LeavesOf(p.ready)]
  <1>2. p.landed \cup p.ready \in SUBSET DocVersions
    BY RunFields
  <1>3. p.pending \cup LeavesOf(p.ready) \in SUBSET Chunks
    BY RunFields, Typed
  <1>4. q \in RunStates
    BY <1>2, <1>3 DEF RunStates
  <1>5. run' = [run EXCEPT ![r] = q]
    BY <1>0 DEF WriteDocuments
  <1> HIDE DEF q
  <1> QED
    BY <1>4, <1>5, PutRun DEF TypeOK

LEMMA NextBatchTyped ==
  ASSUME TypeOK, NEW r \in Runs, NextBatch(r)
  PROVE  run' \in [Runs -> RunStates]
  <1>0. PICK p \in RunStates : p = run[r]
    BY DEF TypeOK
  <1>1. PICK b \in Windows(run[r].pending, Batch) :
               run' = [run EXCEPT ![r].pending = run[r].pending \ b,
                                  ![r].toVectors = b, ![r].toRows = b]
    BY DEF NextBatch
  <1> DEFINE q == [p EXCEPT !.pending = p.pending \ b, !.toVectors = b, !.toRows = b]
  <1>2. p.pending \ b \in SUBSET Chunks /\ b \in SUBSET Chunks
    BY RunFields, <1>0 DEF Windows
  <1>3. q \in RunStates
    BY <1>2 DEF RunStates
  <1>4. run' = [run EXCEPT ![r] = q]
    BY <1>0, <1>1 DEF NextBatch
  <1> HIDE DEF q
  <1> QED
    BY <1>3, <1>4, PutRun DEF TypeOK

LEMMA NextGroupTyped ==
  ASSUME TypeOK, NEW r \in Runs, NextGroup(r)
  PROVE  run' \in [Runs -> RunStates]
  <1>0. PICK p \in RunStates : p = run[r]
    BY DEF TypeOK
  <1> DEFINE q == [p EXCEPT !.pc = "process"]
  <1>2. q \in RunStates
    BY DEF RunStates
  <1>3. run' = [run EXCEPT ![r] = q]
    BY <1>0 DEF NextGroup
  <1> HIDE DEF q
  <1> QED
    BY <1>2, <1>3, PutRun DEF TypeOK

LEMMA SendVectorsTyped ==
  ASSUME TypeOK, NEW r \in Runs, SendVectors(r)
  PROVE  run' \in [Runs -> RunStates]
  <1>0. PICK p \in RunStates : p = run[r]
    BY DEF TypeOK
  <1> DEFINE q == [p EXCEPT !.toVectors = {}]
  <1>2. q \in RunStates
    BY DEF RunStates
  <1>3. run' = [run EXCEPT ![r] = q]
    BY <1>0 DEF SendVectors
  <1> HIDE DEF q
  <1> QED
    BY <1>2, <1>3, PutRun DEF TypeOK

LEMMA SendRowsTyped ==
  ASSUME TypeOK, NEW r \in Runs, SendRows(r)
  PROVE  run' \in [Runs -> RunStates]
  <1>0. PICK p \in RunStates : p = run[r]
    BY DEF TypeOK
  <1> DEFINE q == [p EXCEPT !.toRows = {}]
  <1>2. q \in RunStates
    BY DEF RunStates
  <1>3. run' = [run EXCEPT ![r] = q]
    BY <1>0 DEF SendRows
  <1> HIDE DEF q
  <1> QED
    BY <1>2, <1>3, PutRun DEF TypeOK

LEMMA FlushDeferredTyped ==
  ASSUME TypeOK, NEW r \in Runs, FlushDeferred(r)
  PROVE  run' \in [Runs -> RunStates]
  <1>0. PICK p \in RunStates : p = run[r]
    BY DEF TypeOK
  <1> DEFINE q == [p EXCEPT !.pc = "load", !.deferred = {}, !.landed = {},
                            !.changed = {}]
  <1>2. q \in RunStates
    BY DEF RunStates
  <1>3. run' = [run EXCEPT ![r] = q]
    BY <1>0 DEF FlushDeferred
  <1> HIDE DEF q
  <1> QED
    BY <1>2, <1>3, PutRun DEF TypeOK

LEMMA FlushTyped ==
  ASSUME TypeOK, NEW r \in Runs, Flush(r)
  PROVE  run' \in [Runs -> RunStates]
  <1>0. PICK p \in RunStates : p = run[r]
    BY DEF TypeOK
  <1> DEFINE q == [p EXCEPT !.pc = "count"]
  <1>2. q \in RunStates
    BY DEF RunStates
  <1>3. run' = [run EXCEPT ![r] = q]
    BY <1>0 DEF Flush
  <1> HIDE DEF q
  <1> QED
    BY <1>2, <1>3, PutRun DEF TypeOK

LEMMA CountTyped ==
  ASSUME TypeOK, NEW r \in Runs, Count(r)
  PROVE  run' \in [Runs -> RunStates]
  <1>0. PICK p \in RunStates : p = run[r]
    BY DEF TypeOK
  <1> DEFINE s == {<<d, awaiting[d]>> : d \in {e \in Docs : awaiting[e] # Absent}}
  <1> DEFINE t == [p EXCEPT !.pc = "stamp", !.stamping = s]
  <1> DEFINE q == IF s = {} THEN Idle ELSE t
  <1>1. s \in SUBSET DocVersions
    BY DEF TypeOK, DocVersions
  <1>2. t \in RunStates
    BY <1>1 DEF RunStates
  <1>3. q \in RunStates
    BY <1>2, IdleTyped
  <1>4. run' = [run EXCEPT ![r] = q]
    BY <1>0 DEF Count
  <1> HIDE DEF q
  <1> QED
    BY <1>3, <1>4, PutRun DEF TypeOK

\* Every step of a run keeps the types.
LEMMA StepTyped ==
  ASSUME TypeOK, NEW r \in Runs, Step(r)
  PROVE  TypeOK'
  <1>1. CASE Load(r)
    BY <1>1, LoadTyped DEF Load, TypeOK, stores, answers
  <1>2. CASE Exhaust(r)
    BY <1>2, ExhaustTyped DEF Exhaust, TypeOK, stores, answers
  <1>3. CASE SelectChanged(r)
    BY <1>3, SelectChangedTyped DEF SelectChanged, TypeOK, stores, answers
  <1>4. CASE Process(r)
    <2>1. PICK group \in Windows(run[r].todo, Window) :
            \E ready \in SUBSET group :
              /\ faults + Cardinality(group \ ready) <= MaxFaults
              /\ faults' = faults + Cardinality(group \ ready)
      BY <1>4 DEF Process
    <2>2. PICK ready \in SUBSET group :
              /\ faults + Cardinality(group \ ready) <= MaxFaults
              /\ faults' = faults + Cardinality(group \ ready)
      BY <2>1
    <2>3. group \ ready \in SUBSET DocVersions
      BY RunFields DEF Windows, TypeOK
    <2>4. faults' \in 0..MaxFaults
      BY <2>2, <2>3, FiniteVersions, IngestAssumption DEF TypeOK
    <2> QED
      BY <1>4, <2>4, ProcessTyped DEF Process, TypeOK, stores, answers
  <1>5. CASE PurgeVectors(r)
    BY <1>5, PurgeVectorsTyped DEF PurgeVectors, TypeOK, answers
  <1>6. CASE PurgeRows(r)
    <2>1. row' \in [Docs -> 0..Unstamped] /\ chunkRows' \subseteq Chunks
      <3>1. 0 \in 0..Unstamped
        BY IngestAssumption DEF Unstamped
      <3> QED
        BY <1>6, <3>1, RunFields DEF PurgeRows, TypeOK, Absent
    <2> QED
      BY <1>6, <2>1, PurgeRowsTyped DEF PurgeRows, TypeOK, answers
  <1>7. CASE Invalidate(r)
    BY <1>7, InvalidateTyped DEF Invalidate, TypeOK, stores, Of
  <1>8. CASE WriteDocuments(r)
    <2>1. Unstamped \in 0..Unstamped
      BY IngestAssumption DEF Unstamped
    <2>2. row' \in [Docs -> 0..Unstamped]
      BY <1>8, <2>1 DEF WriteDocuments, TypeOK
    <2> QED
      BY <1>8, <2>2, WriteDocumentsTyped DEF WriteDocuments, TypeOK, answers
  <1>9. CASE NextBatch(r)
    BY <1>9, NextBatchTyped DEF NextBatch, TypeOK, stores, answers
  <1>10. CASE NextGroup(r)
    BY <1>10, NextGroupTyped DEF NextGroup, TypeOK, stores, answers
  <1>11. CASE SendVectors(r)
    <2>1. run[r].toVectors \subseteq Chunks
      BY RunFields DEF TypeOK
    <2> QED
      BY <1>11, <2>1, SendVectorsTyped DEF SendVectors, TypeOK, answers
  <1>12. CASE SendRows(r)
    <2>1. run[r].toRows \subseteq Chunks
      BY RunFields DEF TypeOK
    <2> QED
      BY <1>12, <2>1, SendRowsTyped DEF SendRows, TypeOK, answers
  <1>13. CASE FlushDeferred(r)
    <2>1. run[r].deferred \subseteq Chunks /\ run[r].landed \subseteq DocVersions
      BY RunFields DEF TypeOK
    <2>2. \A d \in DocsOf(run[r].landed) :
            (CHOOSE v \in Versions : <<d, v>> \in run[r].landed) \in Versions
      BY <2>1 DEF DocsOf, DocVersions
    <2>3. awaiting' \in [Docs -> {Absent} \cup Versions]
      BY <1>13, <2>2 DEF FlushDeferred, TypeOK
    <2> QED
      BY <1>13, <2>1, <2>3, FlushDeferredTyped DEF FlushDeferred, TypeOK, answers
  <1>14. CASE Refused(r)
    BY <1>14, IdleTyped, PutRun DEF Refused, TypeOK, stores, answers
  <1>15. CASE Flush(r)
    BY <1>15, FlushTyped DEF Flush, TypeOK, stores, answers
  <1>16. CASE Count(r)
    BY <1>16, CountTyped DEF Count, TypeOK, stores, answers
  <1>17. CASE Stamp(r)
    <2>1. run[r].stamping \subseteq DocVersions
      BY DEF TypeOK, RunStates
    <2>2. \A d \in DocsOf(run[r].stamping) :
            (CHOOSE v \in Versions : <<d, v>> \in run[r].stamping) \in Versions
      BY <2>1 DEF DocsOf, DocVersions
    <2>3. Versions \subseteq 0..Unstamped
      BY IngestAssumption DEF Versions, Unstamped
    <2>4. row' \in [Docs -> 0..Unstamped]
      BY <1>17, <2>2, <2>3 DEF Stamp, TypeOK
    <2>5. awaiting' \in [Docs -> {Absent} \cup Versions]
      BY <1>17 DEF Stamp
    <2>6. run' \in [Runs -> RunStates]
      BY <1>17, IdleTyped, PutRun DEF Stamp, TypeOK
    <2> QED
      BY <1>17, <2>4, <2>5, <2>6 DEF Stamp, TypeOK, answers
  <1> QED
    BY <1>1, <1>2, <1>3, <1>4, <1>5, <1>6, <1>7, <1>8, <1>9, <1>10, <1>11,
       <1>12, <1>13, <1>14, <1>15, <1>16, <1>17 DEF Step

LEMMA NextTyped ==
  ASSUME TypeOK, [Next]_vars
  PROVE  TypeOK'
  <1>1. ASSUME NEW r \in Runs, Step(r) PROVE TypeOK'
    BY <1>1, StepTyped
  <1>2. ASSUME NEW r \in Runs, Fail(r) PROVE TypeOK'
    BY <1>2, IdleTyped, PutRun, IngestAssumption DEF Fail, TypeOK, stores, answers
  <1>3. ASSUME NEW r \in Runs, NEW f \in BOOLEAN, Start(r, f) PROVE TypeOK'
    BY <1>3, StartTyped DEF Start, TypeOK, stores, answers
  <1>4. CASE Crash
    <2>1. run' \in [Runs -> RunStates]
      BY <1>4, IdleTyped DEF Crash
    <2> QED
      BY <1>4, <2>1, IngestAssumption DEF Crash, TypeOK, stores
  <1>5. CASE Apply
    BY <1>5 DEF Apply, TypeOK, answers
  <1>6. ASSUME NEW d \in Docs, Edit(d) PROVE TypeOK'
    <2>1. source' \in [Docs -> Versions]
      BY <1>6, IngestAssumption DEF Edit, TypeOK, Versions
    <2> QED
      BY <1>6, <2>1 DEF Edit, TypeOK, stores, answers
  <1>7. ASSUME NEW dv \in DocVersions, Answer(dv) \/ CacheAnswer(dv) \/ Expire(dv)
        PROVE  TypeOK'
    BY <1>7 DEF Answer, CacheAnswer, Cache, Expire, TypeOK, stores
  <1>8. CASE UNCHANGED vars
    BY <1>8 DEF vars, TypeOK
  <1> QED
    BY <1>1, <1>2, <1>3, <1>4, <1>5, <1>6, <1>7, <1>8 DEF Next

LEMMA InitTyped == Init => TypeOK
  <1>1. 1 \in Versions /\ 0 \in 0..Unstamped /\ 0 \in 0..MaxFaults
    BY IngestAssumption DEF Versions, Unstamped
  <1> QED
    BY <1>1, IdleTyped DEF Init, TypeOK, Absent

\* The types of the ingest pipeline's state hold in every reachable state.
THEOREM TypeCorrect == Spec => []TypeOK
  BY InitTyped, NextTyped, PTL DEF Spec

-----------------------------------------------------------------------------
\* One call of ingest() at a time, no --force, and a read-back that waits.
Alone == /\ \E r : Runs = {r}
         /\ "force" \notin Allowed /\ "unflushed" \notin Allowed

\* The rows of a stamped document are all there; so are its points, if it is
\* the current version that was stamped.
StampedIsWritten ==
    \A d \in Docs : row[d] \in Versions =>
        LET dv == {<<d, row[d]>>}
        IN /\ row[d] <= source[d]
           /\ LeavesOf(dv) \cup ParentsOf(dv) \subseteq chunkRows
           /\ row[d] = source[d] => LeavesOf(dv) \subseteq points

\* A document that waits has no checksum yet and all its chunks written.
AwaitingUnstamped ==
    \A d \in Docs : awaiting[d] # Absent => row[d] = Unstamped /\ awaiting[d] <= source[d]

\* Each document is in one stage of the run, at one version.
OneStage(q) ==
    /\ \A x, y \in q.todo \cup q.ready \cup q.landed : x[1] = y[1] => x = y
    /\ q.todo \cap q.ready = {} /\ q.todo \cap q.landed = {}
    /\ q.ready \cap q.landed = {}

\* What each place of the code leaves empty.
Emptied(q) ==
    /\ q.pc \in {"idle", "load", "select", "flush", "count", "stamp"} =>
         /\ q.ready = {} /\ q.landed = {} /\ q.pending = {} /\ q.deferred = {}
         /\ q.changed = {}
    /\ q.pc \in {"idle", "load", "flush", "count", "stamp"} => q.todo = {}
    /\ q.pc \in {"process", "write"} => q.ready = {}
    /\ q.pc # "write" => q.toVectors = {} /\ q.toRows = {}
    /\ q.pc = "purgeRows" => q.purging \subseteq Stale(q)
    /\ ~q.force

\* A document still to be written is newer than the version its row is
\* stamped with.
Newer(q) ==
    \A x \in q.todo \cup q.ready \cup q.landed :
        /\ x[2] <= source[x[1]]
        /\ x \notin q.landed /\ row[x[1]] \in Versions =>
             IF q.pc = "select" THEN row[x[1]] <= x[2] ELSE row[x[1]] < x[2]

\* A document the run has a row for is on its way into both stores.
OnItsWay(q) ==
    /\ \A x \in q.landed :
         /\ row[x[1]] = Unstamped
         /\ LeavesOf({x}) \subseteq q.pending \cup q.toVectors \cup points \cup accepted
         /\ LeavesOf({x}) \subseteq q.pending \cup q.toRows \cup chunkRows
         /\ ParentsOf({x}) \subseteq q.deferred \cup chunkRows
    /\ \A x \in q.ready : ParentsOf({x}) \subseteq q.deferred

\* Only a document whose row was stamped is purged, so none that waits is.
ChangedNotAwaiting(q) == \A d \in q.changed : awaiting[d] = Absent

\* After the read-back nothing is in flight, and what is stamped is what waits.
Settled(q) ==
    /\ q.pc \in {"count", "stamp"} => accepted = {}
    /\ q.pc = "stamp" =>
         q.stamping = {<<d, awaiting[d]>> : d \in {e \in Docs : awaiting[e] # Absent}}

RunInv(q) == /\ OneStage(q) /\ Emptied(q) /\ Newer(q) /\ OnItsWay(q)
             /\ ChangedNotAwaiting(q) /\ Settled(q)

StoreInv == StampedIsWritten /\ AwaitingIsWritten /\ AwaitingUnstamped

IInv == TypeOK /\ StoreInv /\ \A r \in Runs : RunInv(run[r])

\* A step that changes no store keeps the store invariant.
LEMMA StoresKept ==
  ASSUME StoreInv, UNCHANGED <<source, row, chunkRows, points, accepted, awaiting>>
  PROVE  StoreInv'
  BY DEF StoreInv, StampedIsWritten, AwaitingIsWritten, AwaitingUnstamped

\* Leaves and parents of a union are those of its parts.
LEMMA PartsOf ==
  ASSUME NEW x \in DocVersions
  PROVE  /\ \A c \in LeavesOf({x}) \cup ParentsOf({x}) : c[1] = x[1]
         /\ \A S \in SUBSET DocVersions : x \in S =>
              LeavesOf({x}) \subseteq LeavesOf(S) /\ ParentsOf({x}) \subseteq ParentsOf(S)
         /\ \E c \in LeavesOf({x}) : c[1] = x[1]
  <1>1. PICK l \in Leaves : TRUE
    BY IngestAssumption
  <1>2. x = <<x[1], x[2]>> /\ x[1] \in Docs /\ x[2] \in Versions
    BY DEF DocVersions
  <1>3. <<x[1], x[2], l>> \in LeavesOf({x})
    BY <1>1, <1>2 DEF LeavesOf, Chunks
  <1> QED
    BY <1>2, <1>3 DEF LeavesOf, ParentsOf, Chunks

LEMMA LoadInv ==
  ASSUME Alone, IInv, NEW r \in Runs, Load(r)
  PROVE  StoreInv' /\ RunInv(run[r])'
  <1> DEFINE p == run[r]
  <1> DEFINE q == run'[r]
  <1>1. PICK w \in Windows(p.left, DocWindow) :
          run' = [run EXCEPT ![r].pc = "select", ![r].left = @ \ w,
                             ![r].todo = {<<d, source[d]>> : d \in w}]
    BY DEF Load
  <1>2. /\ p.pc = "load" /\ q.pc = "select"
        /\ q.todo = {<<d, source[d]>> : d \in w}
        /\ q.ready = p.ready /\ q.landed = p.landed /\ q.pending = p.pending
        /\ q.deferred = p.deferred /\ q.changed = p.changed /\ q.force = p.force
        /\ q.toVectors = p.toVectors /\ q.toRows = p.toRows
    BY <1>1 DEF Load, At, IInv, TypeOK, RunStates
  <1>3. UNCHANGED <<source, row, chunkRows, points, accepted, awaiting>>
    BY DEF Load, stores
  <1>4. RunInv(p) /\ TypeOK /\ StoreInv /\ w \subseteq Docs
    BY RunFields DEF IInv, TypeOK, Windows
  <1> HIDE DEF p, q
  <1>5. p.ready = {} /\ p.landed = {} /\ p.pending = {} /\ p.deferred = {}
        /\ p.changed = {} /\ p.toVectors = {} /\ p.toRows = {} /\ ~p.force
    BY <1>2, <1>4 DEF RunInv, Emptied
  <1>6. \A x \in q.todo : x[1] \in w /\ x[2] = source[x[1]] /\ x = <<x[1], x[2]>>
    BY <1>2
  <1>7. OneStage(q)
    BY <1>2, <1>5, <1>6 DEF OneStage
  <1>8. Emptied(q)
    BY <1>2, <1>5 DEF Emptied
  <1>9. Newer(q)
    <2>1. \A d \in w : source[d] \in Versions /\ (row[d] \in Versions => row[d] <= source[d])
      BY <1>4 DEF StoreInv, StampedIsWritten, TypeOK
    <2> QED
      BY <1>2, <1>5, <1>6, <2>1 DEF Newer, Versions
  <1>10. OnItsWay(q) /\ ChangedNotAwaiting(q) /\ Settled(q)
    BY <1>2, <1>5 DEF OnItsWay, ChangedNotAwaiting, Settled
  <1>11. RunInv(run[r])'
    BY <1>3, <1>7, <1>8, <1>9, <1>10 DEF RunInv, OneStage, Emptied, Newer, OnItsWay, ChangedNotAwaiting, Settled, q, Stale
  <1> QED
    BY <1>3, <1>4, <1>11, StoresKept

LEMMA ExhaustInv ==
  ASSUME Alone, IInv, NEW r \in Runs, Exhaust(r)
  PROVE  StoreInv' /\ RunInv(run[r])'
  <1> DEFINE p == run[r]
  <1> DEFINE q == run'[r]
  <1>1. /\ p.pc = "load" /\ q.pc = "flush" /\ q.todo = p.todo
        /\ q.ready = p.ready /\ q.landed = p.landed /\ q.pending = p.pending
        /\ q.deferred = p.deferred /\ q.changed = p.changed /\ q.force = p.force
        /\ q.toVectors = p.toVectors /\ q.toRows = p.toRows
    BY DEF Exhaust, At, IInv, TypeOK, RunStates
  <1>2. UNCHANGED <<source, row, chunkRows, points, accepted, awaiting>>
    BY DEF Exhaust, stores
  <1>3. RunInv(p) /\ StoreInv
    BY DEF IInv
  <1> HIDE DEF p, q
  <1>4. RunInv(q)
    BY <1>1, <1>3 DEF RunInv, OneStage, Emptied, Newer, OnItsWay, ChangedNotAwaiting, Settled
  <1>5. RunInv(run[r])'
    BY <1>2, <1>4 DEF RunInv, OneStage, Emptied, Newer, OnItsWay, ChangedNotAwaiting, Settled, q, Stale
  <1> QED
    BY <1>2, <1>3, <1>5, StoresKept

LEMMA StartInv ==
  ASSUME Alone, IInv, NEW r \in Runs, NEW f \in BOOLEAN, Start(r, f)
  PROVE  StoreInv' /\ RunInv(run[r])'
  <1> DEFINE p == run[r]
  <1> DEFINE q == run'[r]
  <1>1. /\ p.pc = "idle" /\ q.pc = "load" /\ q.todo = p.todo
        /\ q.ready = p.ready /\ q.landed = p.landed /\ q.pending = p.pending
        /\ q.deferred = p.deferred /\ q.changed = p.changed /\ q.force = FALSE
        /\ q.toVectors = p.toVectors /\ q.toRows = p.toRows
    BY DEF Alone, Start, Active, IInv, TypeOK, RunStates
  <1>2. UNCHANGED <<source, row, chunkRows, points, accepted, awaiting>>
    BY DEF Start, stores
  <1>3. RunInv(p) /\ StoreInv
    BY DEF IInv
  <1> HIDE DEF p, q
  <1>4. RunInv(q)
    BY <1>1, <1>3 DEF RunInv, OneStage, Emptied, Newer, OnItsWay, ChangedNotAwaiting, Settled
  <1>5. RunInv(run[r])'
    BY <1>2, <1>4 DEF RunInv, OneStage, Emptied, Newer, OnItsWay, ChangedNotAwaiting, Settled, q, Stale
  <1> QED
    BY <1>2, <1>3, <1>5, StoresKept

\* A row with a checksum has chunk rows, so the run sees the checksum.
LEMMA PriorOfStamped ==
  ASSUME TypeOK, StoreInv, NEW d \in Docs, row[d] \in Versions
  PROVE  Prior(d) = row[d]
  <1>1. <<d, row[d]>> \in DocVersions
    BY DEF DocVersions
  <1>2. PICK c \in LeavesOf({<<d, row[d]>>}) : c[1] = d
    BY <1>1, PartsOf
  <1>3. c \in chunkRows
    BY <1>2 DEF StoreInv, StampedIsWritten
  <1> QED
    BY <1>2, <1>3 DEF Prior

LEMMA SelectInv ==
  ASSUME Alone, IInv, NEW r \in Runs, SelectChanged(r)
  PROVE  StoreInv' /\ RunInv(run[r])'
  <1> DEFINE p == run[r]
  <1> DEFINE q == run'[r]
  <1> DEFINE todo == {dv \in p.todo : Prior(dv[1]) # dv[2]}
  <1> DEFINE changed == {dv \in todo : Prior(dv[1]) # Absent}
  <1>1. RunInv(p) /\ StoreInv /\ TypeOK /\ p.todo \subseteq DocVersions
    BY RunFields DEF IInv, TypeOK
  <1>2. p.pc = "select" /\ ~p.force
    BY <1>1 DEF SelectChanged, RunInv, Emptied
  <1>3. run' = [run EXCEPT ![r].pc = IF todo = {} THEN "load" ELSE "process",
                           ![r].todo = todo, ![r].changed = DocsOf(changed)]
    BY <1>2 DEF SelectChanged
  <1> HIDE DEF todo, changed
  <1>14. q = [p EXCEPT !.pc = IF todo = {} THEN "load" ELSE "process",
                      !.todo = todo, !.changed = DocsOf(changed)] /\ p \in RunStates
    BY <1>1, <1>3 DEF TypeOK
  <1>5. UNCHANGED <<source, row, chunkRows, points, accepted, awaiting>>
    BY DEF SelectChanged, stores
  <1> HIDE DEF p, q
  <1>4. /\ q.pc = (IF todo = {} THEN "load" ELSE "process")
        /\ q.todo = todo /\ q.changed = DocsOf(changed)
        /\ q.ready = p.ready /\ q.landed = p.landed /\ q.pending = p.pending
        /\ q.deferred = p.deferred /\ q.force = p.force
        /\ q.toVectors = p.toVectors /\ q.toRows = p.toRows
    BY <1>14 DEF RunStates
  <1>6. p.ready = {} /\ p.landed = {} /\ p.pending = {} /\ p.deferred = {}
        /\ p.toVectors = {} /\ p.toRows = {} /\ ~p.force
    BY <1>1, <1>2 DEF RunInv, Emptied
  <1>7. todo \subseteq p.todo /\ changed \subseteq todo
    BY DEF todo, changed
  <1>8. OneStage(q)
    BY <1>1, <1>4, <1>6, <1>7 DEF RunInv, OneStage
  <1>9. Emptied(q)
    <2>1. todo = {} => DocsOf(changed) = {}
      BY <1>7 DEF DocsOf
    <2> QED
      BY <1>4, <1>6, <2>1 DEF Emptied
  <1>10. Newer(q)
    <2>1. SUFFICES ASSUME NEW x \in todo
                   PROVE  x[2] <= source[x[1]] /\ (row[x[1]] \in Versions => row[x[1]] < x[2])
      BY <1>4, <1>6 DEF Newer
    <2>2. x \in p.todo /\ x \notin p.landed /\ x[1] \in Docs /\ x[2] \in Versions
      BY <1>1, <1>6, <1>7 DEF DocVersions
    <2>3. x[2] <= source[x[1]] /\ (row[x[1]] \in Versions => row[x[1]] <= x[2])
      BY <1>1, <1>2, <2>2 DEF RunInv, Newer
    <2>4. row[x[1]] \in Versions => row[x[1]] # x[2]
      BY <1>1, <2>2, PriorOfStamped DEF todo
    <2> QED
      BY <2>2, <2>3, <2>4 DEF Versions
  <1>11. OnItsWay(q) /\ Settled(q)
    BY <1>4, <1>6 DEF OnItsWay, Settled
  <1>12. ChangedNotAwaiting(q)
    <2>1. SUFFICES ASSUME NEW x \in changed PROVE awaiting[x[1]] = Absent
      BY <1>4 DEF ChangedNotAwaiting, DocsOf
    <2>2. Prior(x[1]) # Absent /\ x[1] \in Docs
      BY <1>1, <1>7 DEF changed, DocVersions
    <2>3. row[x[1]] \in Versions
      BY <2>2 DEF Prior
    <2> QED
      BY <1>1, <2>2, <2>3, IngestAssumption DEF StoreInv, AwaitingUnstamped, Versions, Unstamped
  <1>13. RunInv(run[r])'
    BY <1>5, <1>8, <1>9, <1>10, <1>11, <1>12 DEF RunInv, OneStage, Emptied, Newer, OnItsWay, ChangedNotAwaiting, Settled, q, Stale
  <1> QED
    BY <1>1, <1>5, <1>13, StoresKept

LEMMA ProcessInv ==
  ASSUME Alone, IInv, NEW r \in Runs, Process(r)
  PROVE  StoreInv' /\ RunInv(run[r])'
  <1> DEFINE p == run[r]
  <1> DEFINE q == run'[r]
  <1> DEFINE New(group, ready) ==
        run' = [run EXCEPT
                 ![r].pc = IF ready # {}
                           THEN IF DocsOf(ready) \cap run[r].changed # {}
                                THEN "purgeVectors" ELSE "documents"
                           ELSE IF run[r].todo \ group # {} THEN "process" ELSE "write",
                 ![r].todo = run[r].todo \ group, ![r].ready = ready,
                 ![r].deferred = @ \cup ParentsOf(ready)]
  <1>1. PICK group \in Windows(p.todo, Window) : \E ready \in SUBSET group : New(group, ready)
    BY DEF Process
  <1>2. PICK ready \in SUBSET group : New(group, ready)
    BY <1>1
  <1> DEFINE place == IF ready # {}
                      THEN IF DocsOf(ready) \cap p.changed # {}
                           THEN "purgeVectors" ELSE "documents"
                      ELSE IF p.todo \ group # {} THEN "process" ELSE "write"
  <1>13. /\ place \in {"purgeVectors", "documents", "process", "write"}
         /\ place \in {"process", "write"} => ready = {}
    OBVIOUS
  <1>14. run' = [run EXCEPT ![r].pc = place, ![r].todo = p.todo \ group,
                           ![r].ready = ready,
                           ![r].deferred = p.deferred \cup ParentsOf(ready)]
    BY <1>2
  <1>15. p.pc = "process" /\ run \in [Runs -> RunStates]
    BY DEF Process, At, IInv, TypeOK
  <1>4. UNCHANGED <<source, row, chunkRows, points, accepted, awaiting>>
    BY DEF Process, stores
  <1>5. RunInv(p) /\ StoreInv /\ group \subseteq p.todo /\ p.todo \subseteq DocVersions
    BY RunFields DEF IInv, TypeOK, Windows
  <1> HIDE DEF place
  <1>16. q = [p EXCEPT !.pc = place, !.todo = p.todo \ group, !.ready = ready,
                      !.deferred = p.deferred \cup ParentsOf(ready)]
    BY <1>14, <1>15
  <1>17. p \in RunStates
    BY <1>15
  <1> HIDE DEF p, q, New
  <1>3. /\ p.pc = "process" /\ q.pc \in {"purgeVectors", "documents", "process", "write"}
        /\ q.pc \in {"process", "write"} => ready = {}
        /\ q.todo = p.todo \ group /\ q.ready = ready
        /\ q.deferred = p.deferred \cup ParentsOf(ready)
        /\ q.landed = p.landed /\ q.pending = p.pending /\ q.changed = p.changed
        /\ q.force = p.force /\ q.toVectors = p.toVectors /\ q.toRows = p.toRows
    BY <1>13, <1>15, <1>16, <1>17 DEF RunStates
  <1>6. p.ready = {} /\ p.toVectors = {} /\ p.toRows = {} /\ ~p.force
    BY <1>3, <1>5 DEF RunInv, Emptied
  <1>7. OneStage(q)
    BY <1>3, <1>5 DEF RunInv, OneStage
  <1>8. Emptied(q)
    BY <1>3, <1>6 DEF Emptied
  <1>9. Newer(q)
    <2>1. \A x \in q.todo \cup q.ready : x \in p.todo /\ x \notin p.landed
      BY <1>3, <1>5 DEF RunInv, OneStage
    <2> QED
      BY <1>3, <1>5, <2>1 DEF RunInv, Newer
  <1>10. OnItsWay(q)
    <2>1. \A x \in ready : ParentsOf({x}) \subseteq ParentsOf(ready)
      BY <1>5, PartsOf
    <2> QED
      BY <1>3, <1>5, <2>1 DEF RunInv, OnItsWay
  <1>11. ChangedNotAwaiting(q) /\ Settled(q)
    BY <1>3, <1>5 DEF RunInv, ChangedNotAwaiting, Settled
  <1>12. RunInv(run[r])'
    BY <1>4, <1>7, <1>8, <1>9, <1>10, <1>11 DEF RunInv, OneStage, Emptied, Newer, OnItsWay, ChangedNotAwaiting, Settled, q, Stale
  <1> QED
    BY <1>4, <1>5, <1>12, StoresKept

\* A document that is purged has a row stamped at an older version, and is
\* neither waiting nor landed.
LEMMA StaleIsOld ==
  ASSUME TypeOK, StoreInv, NEW p \in RunStates, RunInv(p), NEW d \in Stale(p),
         p.pc \in {"purgeVectors", "purgeRows"}
  PROVE  /\ d \in Docs /\ awaiting[d] = Absent
         /\ row[d] \in Versions => row[d] < source[d]
         /\ \A x \in p.landed : x[1] # d
  <1>1. PICK x \in p.ready : x[1] = d
    BY DEF Stale, DocsOf
  <1>2. p.ready \subseteq DocVersions /\ d \in p.changed
    BY RunFields DEF Stale
  <1>3. x[1] \in Docs /\ x[2] \in Versions
    BY <1>2 DEF DocVersions
  <1>4. awaiting[d] = Absent
    BY <1>2 DEF RunInv, ChangedNotAwaiting
  <1>5. x \notin p.landed /\ \A y \in p.landed : y[1] # d
    BY <1>1 DEF RunInv, OneStage
  <1>6. x[2] <= source[d] /\ (row[d] \in Versions => row[d] < x[2])
    BY <1>1, <1>5 DEF RunInv, Newer
  <1> QED
    BY <1>1, <1>3, <1>4, <1>5, <1>6 DEF Versions, TypeOK

LEMMA PurgeVectorsInv ==
  ASSUME Alone, IInv, NEW r \in Runs, PurgeVectors(r)
  PROVE  StoreInv' /\ RunInv(run[r])'
  <1> DEFINE p == run[r]
  <1> DEFINE q == run'[r]
  <1>1. TypeOK /\ StoreInv /\ RunInv(p) /\ p \in RunStates /\ p.pc = "purgeVectors"
    BY DEF IInv, TypeOK, PurgeVectors, At
  <1>2. /\ q.pc = "purgeRows" /\ q.purging = Stale(p) /\ q.todo = p.todo
        /\ q.ready = p.ready /\ q.landed = p.landed /\ q.pending = p.pending
        /\ q.deferred = p.deferred /\ q.changed = p.changed /\ q.force = p.force
        /\ q.toVectors = p.toVectors /\ q.toRows = p.toRows
    BY DEF PurgeVectors, IInv, TypeOK, RunStates
  <1>3. /\ points' = points \ Of(points, Stale(p))
        /\ accepted' = accepted \ Of(accepted, Stale(p))
        /\ UNCHANGED <<source, row, chunkRows, awaiting>>
    BY DEF PurgeVectors
  <1> HIDE DEF p, q
  <1>4. \A d \in Stale(p) : /\ d \in Docs /\ awaiting[d] = Absent
                            /\ row[d] \in Versions => row[d] < source[d]
                            /\ \A x \in p.landed : x[1] # d
    BY <1>1, StaleIsOld
  <1>5. \A c \in points \cup accepted : c[1] \notin Stale(p) =>
          (c \in points => c \in points') /\ (c \in accepted => c \in accepted')
    BY <1>3 DEF Of
  <1>6. StampedIsWritten'
    <2>1. SUFFICES ASSUME NEW d \in Docs, row[d] \in Versions
                   PROVE  /\ row[d] <= source[d]
                          /\ LeavesOf({<<d, row[d]>>}) \cup ParentsOf({<<d, row[d]>>}) \subseteq chunkRows
                          /\ row[d] = source[d] => LeavesOf({<<d, row[d]>>}) \subseteq points'
      BY <1>3 DEF StampedIsWritten
    <2>2. <<d, row[d]>> \in DocVersions
      BY <2>1 DEF DocVersions
    <2>3. ASSUME row[d] = source[d] PROVE LeavesOf({<<d, row[d]>>}) \subseteq points'
      <3>1. d \notin Stale(p)
        BY <1>4, <2>1, <2>3 DEF Versions
      <3>2. LeavesOf({<<d, row[d]>>}) \subseteq points
        BY <1>1, <2>1, <2>3 DEF StoreInv, StampedIsWritten
      <3> QED
        BY <1>5, <2>2, <3>1, <3>2, PartsOf
    <2> QED
      BY <1>1, <2>1, <2>3 DEF StoreInv, StampedIsWritten
  <1>7. AwaitingIsWritten'
    <2>1. SUFFICES ASSUME NEW d \in Docs, awaiting[d] # Absent
                   PROVE  LeavesOf({<<d, awaiting[d]>>}) \subseteq points' \cup accepted'
      BY <1>1, <1>3 DEF StoreInv, AwaitingIsWritten
    <2>2. d \notin Stale(p) /\ <<d, awaiting[d]>> \in DocVersions
      BY <1>1, <1>4, <2>1 DEF TypeOK, DocVersions
    <2>3. LeavesOf({<<d, awaiting[d]>>}) \subseteq points \cup accepted
      BY <1>1, <2>1 DEF StoreInv, AwaitingIsWritten
    <2> QED
      BY <1>5, <2>2, <2>3, PartsOf
  <1>8. AwaitingUnstamped'
    BY <1>1, <1>3 DEF StoreInv, AwaitingUnstamped
  <1>9. (OneStage(run[r]) /\ Emptied(run[r]) /\ Newer(run[r]))'
    BY <1>1, <1>2, <1>3 DEF RunInv, OneStage, Emptied, Newer, Stale, q
  <1>10. OnItsWay(run[r])'
    <2>1. \A x \in p.landed : LeavesOf({x}) \subseteq
             p.pending \cup p.toVectors \cup points' \cup accepted'
      <3>1. SUFFICES ASSUME NEW x \in p.landed
                     PROVE  LeavesOf({x}) \subseteq
                               p.pending \cup p.toVectors \cup points' \cup accepted'
        OBVIOUS
      <3>2. x[1] \notin Stale(p) /\ x \in DocVersions
        BY <1>1, <1>4, RunFields
      <3>3. LeavesOf({x}) \subseteq p.pending \cup p.toVectors \cup points \cup accepted
        BY <1>1 DEF RunInv, OnItsWay
      <3> QED
        BY <1>5, <3>2, <3>3, PartsOf
    <2> QED
      BY <1>1, <1>2, <1>3, <2>1 DEF RunInv, OnItsWay, q
  <1>11. (ChangedNotAwaiting(run[r]) /\ Settled(run[r]))'
    BY <1>1, <1>2, <1>3 DEF RunInv, ChangedNotAwaiting, Settled, q
  <1> QED
    BY <1>6, <1>7, <1>8, <1>9, <1>10, <1>11 DEF StoreInv, RunInv, q

LEMMA PurgeRowsInv ==
  ASSUME Alone, IInv, NEW r \in Runs, PurgeRows(r)
  PROVE  StoreInv' /\ RunInv(run[r])'
  <1> DEFINE p == run[r]
  <1> DEFINE q == run'[r]
  <1>1. TypeOK /\ StoreInv /\ RunInv(p) /\ p \in RunStates /\ p.pc = "purgeRows"
    BY DEF IInv, TypeOK, PurgeRows, At
  <1>2. PICK d \in p.purging :
          /\ row' = [row EXCEPT ![d] = Absent]
          /\ chunkRows' = chunkRows \ Of(chunkRows, {d})
          /\ run' = [run EXCEPT ![r].purging = @ \ {d},
                                ![r].pc = IF run[r].purging = {d} THEN "invalidate" ELSE @]
    BY DEF PurgeRows
  <1>3. /\ q.pc \in {"purgeRows", "invalidate"} /\ q.purging \subseteq p.purging
        /\ q.todo = p.todo
        /\ q.ready = p.ready /\ q.landed = p.landed /\ q.pending = p.pending
        /\ q.deferred = p.deferred /\ q.changed = p.changed /\ q.force = p.force
        /\ q.toVectors = p.toVectors /\ q.toRows = p.toRows
    BY <1>1, <1>2 DEF TypeOK, RunStates
  <1>4. UNCHANGED <<source, points, accepted, awaiting>>
    BY DEF PurgeRows
  <1> HIDE DEF p, q
  <1>5. d \in Stale(p)
    BY <1>1, <1>2 DEF RunInv, Emptied
  <1>6. d \in Docs /\ awaiting[d] = Absent /\ \A x \in p.landed : x[1] # d
    BY <1>1, <1>5, StaleIsOld
  <1>7. /\ \A e \in Docs : row'[e] = IF e = d THEN Absent ELSE row[e]
        /\ \A c \in chunkRows : c[1] # d => c \in chunkRows'
        /\ Absent \notin Versions
    BY <1>1, <1>2 DEF TypeOK, Of, Absent, Versions
  <1>8. StampedIsWritten'
    <2>1. SUFFICES ASSUME NEW e \in Docs, row'[e] \in Versions
                   PROVE  /\ row'[e] <= source[e]
                          /\ LeavesOf({<<e, row'[e]>>}) \cup ParentsOf({<<e, row'[e]>>}) \subseteq chunkRows'
                          /\ row'[e] = source[e] => LeavesOf({<<e, row'[e]>>}) \subseteq points
      BY <1>4 DEF StampedIsWritten
    <2>2. e # d /\ row'[e] = row[e]
      BY <1>7, <2>1
    <2>3. <<e, row[e]>> \in DocVersions
      BY <2>1, <2>2 DEF DocVersions
    <2>4. LeavesOf({<<e, row[e]>>}) \cup ParentsOf({<<e, row[e]>>}) \subseteq chunkRows
      BY <1>1, <2>1, <2>2 DEF StoreInv, StampedIsWritten
    <2>5. LeavesOf({<<e, row[e]>>}) \cup ParentsOf({<<e, row[e]>>}) \subseteq chunkRows'
      BY <1>7, <2>2, <2>3, <2>4, PartsOf
    <2> QED
      BY <1>1, <2>1, <2>2, <2>5 DEF StoreInv, StampedIsWritten
  <1>9. AwaitingIsWritten'
    <2>1. SUFFICES ASSUME NEW e \in Docs, awaiting[e] # Absent
                   PROVE  LeavesOf({<<e, awaiting[e]>>}) \cup ParentsOf({<<e, awaiting[e]>>}) \subseteq chunkRows'
      BY <1>1, <1>4 DEF StoreInv, AwaitingIsWritten
    <2>2. e # d /\ <<e, awaiting[e]>> \in DocVersions
      BY <1>1, <1>6, <2>1 DEF TypeOK, DocVersions
    <2>3. LeavesOf({<<e, awaiting[e]>>}) \cup ParentsOf({<<e, awaiting[e]>>}) \subseteq chunkRows
      BY <1>1, <2>1 DEF StoreInv, AwaitingIsWritten
    <2> QED
      BY <1>7, <2>2, <2>3, PartsOf
  <1>10. AwaitingUnstamped'
    BY <1>1, <1>4, <1>6, <1>7 DEF StoreInv, AwaitingUnstamped
  <1>11. p.todo \subseteq DocVersions /\ p.ready \subseteq DocVersions /\ p.landed \subseteq DocVersions
    BY <1>1, RunFields
  <1>12. (OneStage(run[r]) /\ Emptied(run[r]))'
    BY <1>1, <1>3 DEF RunInv, OneStage, Emptied, Stale, q
  <1>13. Newer(run[r])'
    <2>1. \A x \in p.todo \cup p.ready \cup p.landed :
             row'[x[1]] \in Versions => row'[x[1]] = row[x[1]]
      BY <1>7, <1>11 DEF DocVersions
    <2> QED
      BY <1>1, <1>3, <1>4, <2>1 DEF RunInv, Newer, q
  <1>14. OnItsWay(run[r])'
    <2>1. SUFFICES ASSUME NEW x \in p.landed
                   PROVE  /\ row'[x[1]] = Unstamped
                          /\ LeavesOf({x}) \subseteq p.pending \cup p.toRows \cup chunkRows'
                          /\ ParentsOf({x}) \subseteq p.deferred \cup chunkRows'
      BY <1>1, <1>3, <1>4 DEF RunInv, OnItsWay, q
    <2>2. x[1] # d /\ x[1] \in Docs /\ x \in DocVersions
      BY <1>6, <1>11 DEF DocVersions
    <2>3. /\ row[x[1]] = Unstamped
          /\ LeavesOf({x}) \subseteq p.pending \cup p.toRows \cup chunkRows
          /\ ParentsOf({x}) \subseteq p.deferred \cup chunkRows
      BY <1>1 DEF RunInv, OnItsWay
    <2> QED
      BY <1>7, <2>2, <2>3, PartsOf
  <1>15. (ChangedNotAwaiting(run[r]) /\ Settled(run[r]))'
    BY <1>1, <1>3, <1>4 DEF RunInv, ChangedNotAwaiting, Settled, q
  <1> QED
    BY <1>8, <1>9, <1>10, <1>12, <1>13, <1>14, <1>15 DEF StoreInv, RunInv, q

LEMMA InvalidateInv ==
  ASSUME Alone, IInv, NEW r \in Runs, Invalidate(r)
  PROVE  StoreInv' /\ RunInv(run[r])'
  <1> DEFINE p == run[r]
  <1> DEFINE q == run'[r]
  <1>1. /\ p.pc = "invalidate" /\ q.pc = "documents" /\ q.todo = p.todo
        /\ q.ready = p.ready /\ q.landed = p.landed /\ q.pending = p.pending
        /\ q.deferred = p.deferred /\ q.changed = p.changed /\ q.force = p.force
        /\ q.toVectors = p.toVectors /\ q.toRows = p.toRows
    BY DEF Invalidate, At, IInv, TypeOK, RunStates
  <1>2. UNCHANGED <<source, row, chunkRows, points, accepted, awaiting>>
    BY DEF Invalidate, stores
  <1>3. RunInv(p) /\ StoreInv
    BY DEF IInv
  <1> HIDE DEF p, q
  <1>4. RunInv(q)
    BY <1>1, <1>3 DEF RunInv, OneStage, Emptied, Newer, OnItsWay, ChangedNotAwaiting, Settled
  <1>5. RunInv(run[r])'
    BY <1>2, <1>4 DEF RunInv, OneStage, Emptied, Newer, OnItsWay, ChangedNotAwaiting, Settled, q, Stale
  <1> QED
    BY <1>2, <1>3, <1>5, StoresKept

LEMMA WriteDocumentsInv ==
  ASSUME Alone, IInv, NEW r \in Runs, WriteDocuments(r)
  PROVE  StoreInv' /\ RunInv(run[r])'
  <1> DEFINE p == run[r]
  <1> DEFINE q == run'[r]
  <1>1. TypeOK /\ StoreInv /\ RunInv(p) /\ p \in RunStates /\ p.pc = "documents"
    BY DEF IInv, TypeOK, WriteDocuments, At
  <1>2. /\ q.pc = "write" /\ q.todo = p.todo /\ q.ready = {}
        /\ q.landed = p.landed \cup p.ready
        /\ q.pending = p.pending \cup LeavesOf(p.ready)
        /\ q.deferred = p.deferred /\ q.changed = p.changed /\ q.force = p.force
        /\ q.toVectors = p.toVectors /\ q.toRows = p.toRows
    BY DEF WriteDocuments, IInv, TypeOK, RunStates
  <1>3. /\ row' = [d \in Docs |-> IF d \in DocsOf(p.ready) THEN Unstamped ELSE row[d]]
        /\ UNCHANGED <<source, chunkRows, points, accepted, awaiting>>
    BY DEF WriteDocuments
  <1> HIDE DEF p, q
  <1>4. p.todo \subseteq DocVersions /\ p.ready \subseteq DocVersions /\ p.landed \subseteq DocVersions
    BY <1>1, RunFields
  <1>5. /\ \A d \in Docs : row'[d] = row[d] \/ row'[d] = Unstamped
        /\ \A x \in p.ready : x[1] \in Docs /\ row'[x[1]] = Unstamped
        /\ Unstamped \notin Versions
    BY <1>3, <1>4, IngestAssumption DEF DocsOf, DocVersions, Unstamped, Versions
  <1>6. StoreInv'
    BY <1>1, <1>3, <1>5 DEF StoreInv, StampedIsWritten, AwaitingIsWritten, AwaitingUnstamped
  <1>7. (OneStage(run[r]) /\ Emptied(run[r]))'
    BY <1>1, <1>2 DEF RunInv, OneStage, Emptied, q
  <1>8. Newer(run[r])'
    <2>1. \A x \in p.todo \cup p.landed :
             row'[x[1]] \in Versions => row'[x[1]] = row[x[1]]
      BY <1>4, <1>5 DEF DocVersions
    <2>2. \A x \in p.todo \cup p.ready \cup p.landed : x[2] <= source[x[1]]
      BY <1>1 DEF RunInv, Newer
    <2>3. \A x \in p.todo : x \notin p.landed /\ (row[x[1]] \in Versions => row[x[1]] < x[2])
      BY <1>1 DEF RunInv, Newer, OneStage
    <2> QED
      BY <1>2, <1>3, <2>1, <2>2, <2>3 DEF Newer, q
  <1>9. OnItsWay(run[r])'
    <2>1. SUFFICES ASSUME NEW x \in p.landed \cup p.ready
                   PROVE  /\ row'[x[1]] = Unstamped
                          /\ LeavesOf({x}) \subseteq q.pending \cup p.toVectors \cup points \cup accepted
                          /\ LeavesOf({x}) \subseteq q.pending \cup p.toRows \cup chunkRows
                          /\ ParentsOf({x}) \subseteq p.deferred \cup chunkRows
      BY <1>2, <1>3 DEF OnItsWay, q
    <2>2. CASE x \in p.ready
      <3>1. LeavesOf({x}) \subseteq LeavesOf(p.ready)
        BY <1>4, <2>2, PartsOf
      <3> QED
        BY <1>1, <1>2, <1>5, <2>2, <3>1 DEF RunInv, OnItsWay
    <2>3. CASE x \in p.landed
      <3>1. x[1] \in Docs
        BY <1>4, <2>3 DEF DocVersions
      <3> QED
        BY <1>1, <1>2, <1>5, <2>3, <3>1 DEF RunInv, OnItsWay
    <2> QED
      BY <2>1, <2>2, <2>3
  <1>10. (ChangedNotAwaiting(run[r]) /\ Settled(run[r]))'
    BY <1>1, <1>2, <1>3 DEF RunInv, ChangedNotAwaiting, Settled, q
  <1> QED
    BY <1>6, <1>7, <1>8, <1>9, <1>10 DEF RunInv

LEMMA NextBatchInv ==
  ASSUME Alone, IInv, NEW r \in Runs, NextBatch(r)
  PROVE  StoreInv' /\ RunInv(run[r])'
  <1> DEFINE p == run[r]
  <1> DEFINE q == run'[r]
  <1>1. PICK b \in Windows(p.pending, Batch) :
          run' = [run EXCEPT ![r].pending = @ \ b,
                             ![r].toVectors = b, ![r].toRows = b]
    BY DEF NextBatch
  <1>2. /\ p.pc = "write" /\ q.pc = p.pc /\ q.todo = p.todo
        /\ q.ready = p.ready /\ q.landed = p.landed /\ q.pending = p.pending \ b
        /\ q.deferred = p.deferred /\ q.changed = p.changed /\ q.force = p.force
        /\ q.toVectors = b /\ q.toRows = b
        /\ p.toVectors = {} /\ p.toRows = {}
    BY <1>1 DEF NextBatch, BatchDone, At, IInv, TypeOK, RunStates
  <1>3. UNCHANGED <<source, row, chunkRows, points, accepted, awaiting>>
    BY DEF NextBatch, stores
  <1>4. RunInv(p) /\ StoreInv /\ b \subseteq p.pending
    BY DEF IInv, Windows
  <1> HIDE DEF p, q
  <1>5. RunInv(q)
    <2>1. OneStage(q) /\ Emptied(q) /\ Newer(q) /\ ChangedNotAwaiting(q) /\ Settled(q)
      BY <1>2, <1>4 DEF RunInv, OneStage, Emptied, Newer, ChangedNotAwaiting, Settled
    <2>2. (p.pending \ b) \cup b = p.pending
      BY <1>4
    <2>3. OnItsWay(q)
      BY <1>2, <1>4, <2>2 DEF RunInv, OnItsWay
    <2> QED
      BY <2>1, <2>3 DEF RunInv
  <1>6. RunInv(run[r])'
    BY <1>3, <1>5 DEF RunInv, OneStage, Emptied, Newer, OnItsWay, ChangedNotAwaiting, Settled, q, Stale
  <1> QED
    BY <1>3, <1>4, <1>6, StoresKept

LEMMA NextGroupInv ==
  ASSUME Alone, IInv, NEW r \in Runs, NextGroup(r)
  PROVE  StoreInv' /\ RunInv(run[r])'
  <1> DEFINE p == run[r]
  <1> DEFINE q == run'[r]
  <1>1. /\ p.pc = "write" /\ q.pc = "process" /\ q.todo = p.todo
        /\ q.ready = p.ready /\ q.landed = p.landed /\ q.pending = p.pending
        /\ q.deferred = p.deferred /\ q.changed = p.changed /\ q.force = p.force
        /\ q.toVectors = p.toVectors /\ q.toRows = p.toRows
        /\ p.toVectors = {} /\ p.toRows = {}
    BY DEF NextGroup, BatchDone, At, IInv, TypeOK, RunStates
  <1>2. UNCHANGED <<source, row, chunkRows, points, accepted, awaiting>>
    BY DEF NextGroup, stores
  <1>3. RunInv(p) /\ StoreInv
    BY DEF IInv
  <1> HIDE DEF p, q
  <1>4. RunInv(q)
    BY <1>1, <1>3 DEF RunInv, OneStage, Emptied, Newer, OnItsWay, ChangedNotAwaiting, Settled
  <1>5. RunInv(run[r])'
    BY <1>2, <1>4 DEF RunInv, OneStage, Emptied, Newer, OnItsWay, ChangedNotAwaiting, Settled, q, Stale
  <1> QED
    BY <1>2, <1>3, <1>5, StoresKept

LEMMA SendVectorsInv ==
  ASSUME Alone, IInv, NEW r \in Runs, SendVectors(r)
  PROVE  StoreInv' /\ RunInv(run[r])'
  <1> DEFINE p == run[r]
  <1> DEFINE q == run'[r]
  <1>1. TypeOK /\ StoreInv /\ RunInv(p) /\ p.pc = "write"
    BY DEF IInv, TypeOK, SendVectors, At
  <1>2. /\ q.pc = "write" /\ q.todo = p.todo
        /\ q.ready = p.ready /\ q.landed = p.landed /\ q.pending = p.pending
        /\ q.deferred = p.deferred /\ q.changed = p.changed /\ q.force = p.force
        /\ q.toVectors = {} /\ q.toRows = p.toRows
    BY DEF SendVectors, At, IInv, TypeOK, RunStates
  <1>3. /\ accepted' = accepted \cup (p.toVectors \ points)
        /\ UNCHANGED <<source, row, chunkRows, points, awaiting>>
    BY DEF SendVectors
  <1> HIDE DEF p, q
  <1>4. points \cup accepted' = p.toVectors \cup points \cup accepted
    BY <1>3
  <1>5. StoreInv'
    BY <1>1, <1>3, <1>4 DEF StoreInv, StampedIsWritten, AwaitingIsWritten, AwaitingUnstamped
  <1>6. (OneStage(run[r]) /\ Emptied(run[r]) /\ Newer(run[r]))'
    BY <1>1, <1>2, <1>3 DEF RunInv, OneStage, Emptied, Newer, q
  <1>7. OnItsWay(run[r])'
    BY <1>1, <1>2, <1>3, <1>4 DEF RunInv, OnItsWay, q
  <1>8. (ChangedNotAwaiting(run[r]) /\ Settled(run[r]))'
    BY <1>1, <1>2, <1>3 DEF RunInv, ChangedNotAwaiting, Settled, q
  <1> QED
    BY <1>5, <1>6, <1>7, <1>8 DEF RunInv

LEMMA SendRowsInv ==
  ASSUME Alone, IInv, NEW r \in Runs, SendRows(r)
  PROVE  StoreInv' /\ RunInv(run[r])'
  <1> DEFINE p == run[r]
  <1> DEFINE q == run'[r]
  <1>1. TypeOK /\ StoreInv /\ RunInv(p) /\ p.pc = "write"
    BY DEF IInv, TypeOK, SendRows, At
  <1>2. /\ q.pc = "write" /\ q.todo = p.todo
        /\ q.ready = p.ready /\ q.landed = p.landed /\ q.pending = p.pending
        /\ q.deferred = p.deferred /\ q.changed = p.changed /\ q.force = p.force
        /\ q.toVectors = p.toVectors /\ q.toRows = {}
    BY DEF SendRows, At, IInv, TypeOK, RunStates
  <1>3. /\ chunkRows' = chunkRows \cup p.toRows
        /\ UNCHANGED <<source, row, points, accepted, awaiting>>
    BY DEF SendRows
  <1> HIDE DEF p, q
  <1>4. StoreInv'
    BY <1>1, <1>3 DEF StoreInv, StampedIsWritten, AwaitingIsWritten, AwaitingUnstamped
  <1>5. (OneStage(run[r]) /\ Emptied(run[r]) /\ Newer(run[r]))'
    BY <1>1, <1>2, <1>3 DEF RunInv, OneStage, Emptied, Newer, q
  <1>6. OnItsWay(run[r])'
    BY <1>1, <1>2, <1>3 DEF RunInv, OnItsWay, q
  <1>7. (ChangedNotAwaiting(run[r]) /\ Settled(run[r]))'
    BY <1>1, <1>2, <1>3 DEF RunInv, ChangedNotAwaiting, Settled, q
  <1> QED
    BY <1>4, <1>5, <1>6, <1>7 DEF RunInv

LEMMA FlushInv ==
  ASSUME Alone, IInv, NEW r \in Runs, Flush(r)
  PROVE  StoreInv' /\ RunInv(run[r])'
  <1> DEFINE p == run[r]
  <1> DEFINE q == run'[r]
  <1>1. /\ p.pc = "flush" /\ q.pc = "count" /\ q.todo = p.todo
        /\ q.ready = p.ready /\ q.landed = p.landed /\ q.pending = p.pending
        /\ q.deferred = p.deferred /\ q.changed = p.changed /\ q.force = p.force
        /\ q.toVectors = p.toVectors /\ q.toRows = p.toRows
    BY DEF Flush, At, IInv, TypeOK, RunStates
  <1>2. /\ accepted = {}
        /\ UNCHANGED <<source, row, chunkRows, points, accepted, awaiting>>
    BY DEF Flush, stores, Alone
  <1>3. RunInv(p) /\ StoreInv
    BY DEF IInv
  <1> HIDE DEF p, q
  <1>4. RunInv(q)
    BY <1>1, <1>2, <1>3 DEF RunInv, OneStage, Emptied, Newer, OnItsWay, ChangedNotAwaiting, Settled
  <1>5. RunInv(run[r])'
    BY <1>2, <1>4 DEF RunInv, OneStage, Emptied, Newer, OnItsWay, ChangedNotAwaiting, Settled, q, Stale
  <1> QED
    BY <1>2, <1>3, <1>5, StoresKept

LEMMA FlushDeferredInv ==
  ASSUME Alone, IInv, NEW r \in Runs, FlushDeferred(r)
  PROVE  StoreInv' /\ RunInv(run[r])'
  <1> DEFINE p == run[r]
  <1> DEFINE q == run'[r]
  <1> DEFINE of(d) == CHOOSE v \in Versions : <<d, v>> \in p.landed
  <1>1. TypeOK /\ StoreInv /\ RunInv(p) /\ p \in RunStates
    BY DEF IInv, TypeOK
  <1>2. /\ p.pc = "write" /\ q.pc = "load" /\ q.todo = p.todo
        /\ q.ready = p.ready /\ q.landed = {} /\ q.pending = p.pending
        /\ q.deferred = {} /\ q.changed = {} /\ q.force = p.force
        /\ q.toVectors = p.toVectors /\ q.toRows = p.toRows
        /\ p.toVectors = {} /\ p.toRows = {} /\ p.pending = {} /\ p.todo = {}
    BY DEF FlushDeferred, BatchDone, At, IInv, TypeOK, RunStates
  <1>3. /\ chunkRows' = chunkRows \cup p.deferred
        /\ awaiting' = [d \in Docs |-> IF d \in DocsOf(p.landed) THEN of(d) ELSE awaiting[d]]
        /\ UNCHANGED <<source, row, points, accepted>>
    BY DEF FlushDeferred
  <1> HIDE DEF p, q
  <1>4. \A d \in DocsOf(p.landed) : of(d) \in Versions /\ <<d, of(d)>> \in p.landed
    BY <1>1, RunFields DEF DocsOf, DocVersions
  <1> HIDE DEF of
  <1>5. \A d \in Docs : IF d \in DocsOf(p.landed) THEN awaiting'[d] = of(d)
                                                 ELSE awaiting'[d] = awaiting[d]
    BY <1>3
  <1>6. StampedIsWritten'
    BY <1>1, <1>3 DEF StoreInv, StampedIsWritten
  <1>7. \A x \in p.landed :
          /\ row[x[1]] = Unstamped /\ x[2] <= source[x[1]]
          /\ LeavesOf({x}) \subseteq points \cup accepted
          /\ LeavesOf({x}) \cup ParentsOf({x}) \subseteq chunkRows'
    BY <1>1, <1>2, <1>3 DEF RunInv, OnItsWay, Newer
  <1>8. AwaitingIsWritten' /\ AwaitingUnstamped'
    <2>1. SUFFICES ASSUME NEW d \in Docs, awaiting'[d] # Absent
                   PROVE  /\ LeavesOf({<<d, awaiting'[d]>>}) \subseteq points \cup accepted
                          /\ LeavesOf({<<d, awaiting'[d]>>}) \cup ParentsOf({<<d, awaiting'[d]>>})
                               \subseteq chunkRows'
                          /\ row[d] = Unstamped /\ awaiting'[d] <= source[d]
      BY <1>3 DEF AwaitingIsWritten, AwaitingUnstamped
    <2>2. CASE d \in DocsOf(p.landed)
      BY <1>4, <1>5, <1>7, <2>2
    <2>3. CASE d \notin DocsOf(p.landed)
      <3>1. awaiting'[d] = awaiting[d]
        BY <1>5, <2>3
      <3> QED
        BY <1>1, <1>3, <2>1, <3>1 DEF StoreInv, AwaitingIsWritten, AwaitingUnstamped
    <2> QED
      BY <2>2, <2>3
  <1>9. p.ready = {} /\ ~p.force
    BY <1>1, <1>2 DEF RunInv, Emptied
  <1>10. RunInv(run[r])'
    BY <1>2, <1>9 DEF RunInv, OneStage, Emptied, Newer, OnItsWay, ChangedNotAwaiting, Settled, q
  <1> QED
    BY <1>6, <1>8, <1>10 DEF StoreInv

\* A run that is over satisfies its invariant, whatever the stores hold.
LEMMA IdleInv == RunInv(Idle) /\ RunInv(Idle)'
  BY DEF Idle, RunInv, OneStage, Emptied, Newer, OnItsWay, ChangedNotAwaiting, Settled

LEMMA CountInv ==
  ASSUME Alone, IInv, NEW r \in Runs, Count(r)
  PROVE  StoreInv' /\ RunInv(run[r])'
  <1> DEFINE p == run[r]
  <1> DEFINE q == run'[r]
  <1> DEFINE s == {<<d, awaiting[d]>> : d \in {e \in Docs : awaiting[e] # Absent}}
  <1>1. TypeOK /\ StoreInv /\ RunInv(p) /\ p \in RunStates /\ p.pc = "count"
    BY DEF IInv, TypeOK, Count, At
  <1>2. q = IF s = {} THEN Idle ELSE [p EXCEPT !.pc = "stamp", !.stamping = s]
    BY <1>1 DEF Count, TypeOK
  <1>3. UNCHANGED <<source, row, chunkRows, points, accepted, awaiting>>
    BY DEF Count, stores
  <1> HIDE DEF p, q
  <1>4. CASE s = {}
    <2>1. run'[r] = Idle
      BY <1>2, <1>4 DEF q
    <2> QED
      BY <1>1, <1>3, <2>1, IdleInv, StoresKept
  <1>5. CASE s # {}
    <2> HIDE DEF s
    <2>1. /\ q.pc = "stamp" /\ q.stamping = s /\ q.todo = p.todo
          /\ q.ready = p.ready /\ q.landed = p.landed /\ q.pending = p.pending
          /\ q.deferred = p.deferred /\ q.changed = p.changed /\ q.force = p.force
          /\ q.toVectors = p.toVectors /\ q.toRows = p.toRows
      BY <1>1, <1>2, <1>5 DEF RunStates
    <2>2. RunInv(q)
      BY <1>1, <2>1 DEF RunInv, OneStage, Emptied, Newer, OnItsWay, ChangedNotAwaiting, Settled, s
    <2>3. RunInv(run[r])'
      BY <1>3, <2>2 DEF RunInv, OneStage, Emptied, Newer, OnItsWay, ChangedNotAwaiting, Settled, q, Stale
    <2> QED
      BY <1>1, <1>3, <2>3, StoresKept
  <1> QED
    BY <1>4, <1>5

LEMMA StampInv ==
  ASSUME Alone, IInv, NEW r \in Runs, Stamp(r)
  PROVE  StoreInv' /\ RunInv(run[r])'
  <1> DEFINE p == run[r]
  <1>1. TypeOK /\ StoreInv /\ RunInv(p) /\ p.pc = "stamp" /\ run'[r] = Idle
    BY DEF IInv, TypeOK, Stamp, At
  <1>2. /\ row' = [d \in Docs |-> IF d \in DocsOf(p.stamping)
                     THEN CHOOSE v \in Versions : <<d, v>> \in p.stamping
                     ELSE row[d]]
        /\ awaiting' = [d \in Docs |-> Absent]
        /\ UNCHANGED <<source, chunkRows, points, accepted>>
    BY DEF Stamp
  <1> HIDE DEF p
  <1>3. /\ accepted = {}
        /\ p.stamping = {<<d, awaiting[d]>> : d \in {e \in Docs : awaiting[e] # Absent}}
    BY <1>1 DEF RunInv, Settled
  <1>4. \A d \in Docs : /\ d \in DocsOf(p.stamping) <=> awaiting[d] # Absent
                        /\ \A v : <<d, v>> \in p.stamping => v = awaiting[d]
                        /\ awaiting[d] # Absent => awaiting[d] \in Versions /\ <<d, awaiting[d]>> \in p.stamping
    <2>1. \A d \in Docs : \A v : <<d, v>> \in p.stamping <=> v = awaiting[d] /\ awaiting[d] # Absent
      BY <1>3
    <2>2. \A d \in Docs : d \in DocsOf(p.stamping) <=> awaiting[d] # Absent
      <3>1. \A x \in p.stamping : \E e \in Docs : x[1] = e /\ awaiting[e] # Absent
        BY <1>3
      <3>2. \A e \in Docs : awaiting[e] # Absent => <<e, awaiting[e]>> \in p.stamping
        BY <2>1
      <3> QED
        BY <3>1, <3>2 DEF DocsOf
    <2>3. \A d \in Docs : awaiting[d] # Absent => awaiting[d] \in Versions
      BY <1>1 DEF TypeOK
    <2> QED
      BY <2>1, <2>2, <2>3
  <1>5. \A d \in Docs : row'[d] = IF awaiting[d] # Absent THEN awaiting[d] ELSE row[d]
    BY <1>2, <1>4
  <1>6. StampedIsWritten'
    <2>1. SUFFICES ASSUME NEW d \in Docs, row'[d] \in Versions
                   PROVE  /\ row'[d] <= source[d]
                          /\ LeavesOf({<<d, row'[d]>>}) \cup ParentsOf({<<d, row'[d]>>}) \subseteq chunkRows
                          /\ row'[d] = source[d] => LeavesOf({<<d, row'[d]>>}) \subseteq points
      BY <1>2 DEF StampedIsWritten
    <2>2. CASE awaiting[d] # Absent
      <3>1. row'[d] = awaiting[d]
        BY <1>5, <2>2
      <3> QED
        BY <1>1, <1>3, <2>2, <3>1 DEF StoreInv, AwaitingIsWritten, AwaitingUnstamped
    <2>3. CASE awaiting[d] = Absent
      <3>1. row'[d] = row[d]
        BY <1>5, <2>3
      <3> QED
        BY <1>1, <2>1, <3>1 DEF StoreInv, StampedIsWritten
    <2> QED
      BY <2>2, <2>3
  <1>7. AwaitingIsWritten' /\ AwaitingUnstamped'
    BY <1>2 DEF AwaitingIsWritten, AwaitingUnstamped
  <1>8. RunInv(run[r])'
    BY <1>1, IdleInv
  <1> QED
    BY <1>6, <1>7, <1>8 DEF StoreInv

LEMMA ApplyInv ==
  ASSUME IInv, Apply, NEW r \in Runs
  PROVE  StoreInv' /\ RunInv(run[r])'
  <1> DEFINE p == run[r]
  <1>1. TypeOK /\ StoreInv /\ RunInv(p)
    BY DEF IInv
  <1>2. PICK c \in accepted : points' = points \cup {c} /\ accepted' = accepted \ {c}
    BY DEF Apply
  <1>3. UNCHANGED <<source, row, chunkRows, awaiting, run>>
    BY DEF Apply
  <1>4. points' \cup accepted' = points \cup accepted /\ points \subseteq points'
    BY <1>2
  <1>5. p.pc \notin {"count", "stamp"}
    BY <1>1, <1>2 DEF RunInv, Settled
  <1> HIDE DEF p
  <1>6. StoreInv'
    BY <1>1, <1>3, <1>4 DEF StoreInv, StampedIsWritten, AwaitingIsWritten, AwaitingUnstamped
  <1>7. OnItsWay(p)'
    <2>1. \A S : S \cup points' \cup accepted' = S \cup points \cup accepted
      BY <1>4
    <2>2. \A x \in p.landed : LeavesOf({x}) \subseteq
             p.pending \cup p.toVectors \cup points' \cup accepted'
      BY <1>1, <2>1 DEF RunInv, OnItsWay
    <2> QED
      BY <1>1, <1>3, <2>2 DEF RunInv, OnItsWay, p
  <1>8. RunInv(run[r])'
    BY <1>1, <1>3, <1>5, <1>7 DEF RunInv, OneStage, Emptied, Newer, ChangedNotAwaiting, Settled, p, Stale
  <1> QED
    BY <1>6, <1>8

LEMMA EditInv ==
  ASSUME IInv, NEW d \in Docs, Edit(d), NEW r \in Runs
  PROVE  StoreInv' /\ RunInv(run[r])'
  <1> DEFINE p == run[r]
  <1>1. TypeOK /\ StoreInv /\ RunInv(p) /\ p \in RunStates
    BY DEF IInv, TypeOK
  <1>2. /\ source' = [source EXCEPT ![d] = @ + 1]
        /\ UNCHANGED <<row, chunkRows, points, accepted, awaiting, run>>
    BY DEF Edit, stores
  <1> HIDE DEF p
  <1>3. \A e \in Docs : /\ source[e] \in Nat /\ source'[e] \in Nat
                        /\ source'[e] = source[e] \/ source'[e] = source[e] + 1
                        /\ source[e] <= source'[e]
    BY <1>1, <1>2 DEF TypeOK, Versions
  <1>4. StampedIsWritten'
    <2>1. SUFFICES ASSUME NEW e \in Docs, row[e] \in Versions
                   PROVE  /\ row[e] <= source'[e]
                          /\ LeavesOf({<<e, row[e]>>}) \cup ParentsOf({<<e, row[e]>>}) \subseteq chunkRows
                          /\ row[e] = source'[e] => LeavesOf({<<e, row[e]>>}) \subseteq points
      BY <1>2 DEF StampedIsWritten
    <2>2. row[e] <= source[e] /\ row[e] \in Nat
      <3>1. row[e] <= source[e]
        BY <1>1, <2>1 DEF StoreInv, StampedIsWritten
      <3>2. row[e] \in Nat
        BY <2>1 DEF Versions
      <3> QED
        BY <3>1, <3>2
    <2>3. row[e] <= source'[e] /\ (row[e] = source'[e] => row[e] = source[e])
      BY <1>3, <2>2
    <2> QED
      BY <1>1, <2>1, <2>3 DEF StoreInv, StampedIsWritten
  <1>5. AwaitingIsWritten' /\ AwaitingUnstamped'
    <2>1. \A e \in Docs : awaiting[e] # Absent => awaiting[e] \in Nat /\ awaiting[e] <= source[e]
      BY <1>1 DEF StoreInv, AwaitingUnstamped, TypeOK, Versions
    <2>2. \A e \in Docs : awaiting[e] # Absent => awaiting[e] <= source'[e]
      BY <1>3, <2>1
    <2> QED
      BY <1>1, <1>2, <2>2 DEF StoreInv, AwaitingIsWritten, AwaitingUnstamped
  <1>6. Newer(run[r])'
    <2>1. \A x \in p.todo \cup p.ready \cup p.landed :
             x[1] \in Docs /\ x[2] \in Nat /\ x[2] <= source[x[1]]
      BY <1>1, RunFields DEF RunInv, Newer, DocVersions, Versions
    <2>2. \A x \in p.todo \cup p.ready \cup p.landed : x[2] <= source'[x[1]]
      BY <1>3, <2>1
    <2> QED
      BY <1>1, <1>2, <2>2 DEF RunInv, Newer, p
  <1>7. (OneStage(run[r]) /\ Emptied(run[r]) /\ OnItsWay(run[r])
         /\ ChangedNotAwaiting(run[r]) /\ Settled(run[r]))'
    BY <1>1, <1>2 DEF RunInv, OneStage, Emptied, OnItsWay, ChangedNotAwaiting, Settled, Stale, p
  <1> QED
    BY <1>4, <1>5, <1>6, <1>7 DEF StoreInv, RunInv

\* The step of a run keeps the invariant of the stores and its own.
LEMMA StepInv ==
  ASSUME Alone, IInv, NEW r \in Runs, Step(r)
  PROVE  StoreInv' /\ RunInv(run[r])'
  <1>1. ASSUME Refused(r) PROVE StoreInv' /\ RunInv(run[r])'
    <2>1. StoreInv /\ run'[r] = Idle
      BY <1>1 DEF Refused, IInv, TypeOK
    <2>2. UNCHANGED <<source, row, chunkRows, points, accepted, awaiting>>
      BY <1>1 DEF Refused, stores
    <2> QED
      BY <2>1, <2>2, IdleInv, StoresKept
  <1> QED
    BY <1>1, LoadInv, ExhaustInv, SelectInv, ProcessInv, PurgeVectorsInv,
       PurgeRowsInv, InvalidateInv, WriteDocumentsInv, NextBatchInv,
       NextGroupInv, SendVectorsInv, SendRowsInv, FlushDeferredInv, FlushInv,
       CountInv, StampInv DEF Step

LEMMA NextInv ==
  ASSUME Alone, IInv, [Next]_vars
  PROVE  IInv'
  <1>1. TypeOK'
    BY NextTyped DEF IInv
  <1>2. ASSUME NEW r \in Runs, StoreInv' /\ RunInv(run[r])' PROVE IInv'
    <2>1. \A s \in Runs : s = r
      BY DEF Alone
    <2> QED
      BY <1>1, <1>2, <2>1 DEF IInv
  <1>3. ASSUME NEW r \in Runs, Step(r) PROVE IInv'
    BY <1>2, <1>3, StepInv
  <1>4. ASSUME NEW r \in Runs, NEW f \in BOOLEAN, Start(r, f) PROVE IInv'
    BY <1>2, <1>4, StartInv
  <1>5. ASSUME NEW r \in Runs, Fail(r) PROVE IInv'
    <2>1. StoreInv /\ run'[r] = Idle
      BY <1>5 DEF Fail, IInv, TypeOK
    <2>2. UNCHANGED <<source, row, chunkRows, points, accepted, awaiting>>
      BY <1>5 DEF Fail, stores
    <2>3. StoreInv' /\ RunInv(run[r])'
      BY <2>1, <2>2, IdleInv, StoresKept
    <2> QED
      BY <1>2, <2>3
  <1>6. CASE Crash
    <2>1. PICK r \in Runs : Active(r)
      BY <1>6 DEF Crash
    <2>2. /\ run'[r] = Idle /\ awaiting' = [d \in Docs |-> Absent]
          /\ UNCHANGED <<source, row, chunkRows, points, accepted>>
      BY <1>6 DEF Crash, stores
    <2>3. StoreInv'
      BY <2>2 DEF IInv, StoreInv, StampedIsWritten, AwaitingIsWritten, AwaitingUnstamped
    <2>4. RunInv(run[r])'
      BY <2>2, IdleInv
    <2> QED
      BY <1>2, <2>3, <2>4
  <1>7. CASE Apply
    <2>1. PICK r \in Runs : TRUE
      BY DEF Alone
    <2> QED
      BY <1>2, <1>7, <2>1, ApplyInv
  <1>8. ASSUME NEW d \in Docs, Edit(d) PROVE IInv'
    <2>1. PICK r \in Runs : TRUE
      BY DEF Alone
    <2> QED
      BY <1>2, <1>8, <2>1, EditInv
  <1>9. ASSUME UNCHANGED <<source, row, chunkRows, points, accepted, awaiting, run>>
        PROVE  IInv'
    <2>1. PICK r \in Runs : TRUE
      BY DEF Alone
    <2>2. StoreInv'
      BY <1>9, StoresKept DEF IInv
    <2>3. RunInv(run[r])
      BY DEF IInv
    <2>4. RunInv(run[r])'
      BY <1>9, <2>3 DEF RunInv, OneStage, Emptied, Newer, OnItsWay,
         ChangedNotAwaiting, Settled, Stale
    <2> QED
      BY <1>2, <2>2, <2>4
  <1>10. ASSUME NEW dv \in DocVersions, Answer(dv) \/ CacheAnswer(dv) \/ Expire(dv)
         PROVE  IInv'
    BY <1>9, <1>10 DEF Answer, CacheAnswer, Expire, stores
  <1>11. CASE UNCHANGED vars
    BY <1>9, <1>11 DEF vars
  <1> QED
    BY <1>3, <1>4, <1>5, <1>6, <1>7, <1>8, <1>10, <1>11 DEF Next

LEMMA InitInv == Init => IInv
  <1> SUFFICES ASSUME Init PROVE IInv
    OBVIOUS
  <1>1. \A d \in Docs : row[d] = Absent /\ awaiting[d] = Absent /\ Absent \notin Versions
    BY DEF Init, Absent, Versions
  <1>2. StoreInv
    BY <1>1 DEF StoreInv, StampedIsWritten, AwaitingIsWritten, AwaitingUnstamped
  <1>3. \A r \in Runs : RunInv(run[r])
    BY IdleInv DEF Init
  <1> QED
    BY <1>2, <1>3, InitTyped DEF IInv

\* A document that would be skipped has its row stamped at the current version.
LEMMA InvIsSafe ==
  ASSUME IInv
  PROVE  SkippedIsIndexed
  <1>1. SUFFICES ASSUME NEW d \in Docs, Skipped(d)
                 PROVE  /\ LeavesOf({<<d, source[d]>>}) \subseteq points
                        /\ LeavesOf({<<d, source[d]>>}) \cup ParentsOf({<<d, source[d]>>})
                             \subseteq chunkRows
    BY DEF SkippedIsIndexed
  <1>2. row[d] \in Versions /\ row[d] = source[d]
    BY <1>1 DEF Skipped, Prior, IInv, TypeOK, Absent, Versions
  <1> QED
    BY <1>2 DEF IInv, StoreInv, StampedIsWritten

\* Whatever crashes, fails and is edited on the way, a document the next run
\* would skip has every one of its chunks in both stores: the checksum is
\* written after the read-back, and a document is purged only when its
\* checksum no longer matches its source.
THEOREM SkipIsSound ==
  ASSUME Alone
  PROVE  Spec => []SkippedIsIndexed
  <1>1. IInv /\ [Next]_vars => IInv'
    BY NextInv
  <1> QED
    BY <1>1, InitInv, InvIsSafe, PTL DEF Spec

\* Under the same conditions a document that waits for confirmation has its
\* leaves accepted and its rows written.
THEOREM AwaitingHolds ==
  ASSUME Alone
  PROVE  Spec => []AwaitingIsWritten
  <1>1. IInv /\ [Next]_vars => IInv'
    BY NextInv
  <1>2. IInv => AwaitingIsWritten
    BY DEF IInv, StoreInv
  <1> QED
    BY <1>1, <1>2, InitInv, PTL DEF Spec

-----------------------------------------------------------------------------
(* What would be skipped is current, when no source is edited before it has *)
(* been stamped.                                                            *)

\* A source is edited only once what it held before is indexed.
Clean == "editDirty" \notin Allowed

\* The version that the stores may hold of d: the one its row is stamped with,
\* and while it has no stamp the one its source has.
Indexed(d) == IF row[d] \in Versions THEN row[d] ELSE source[d]

\* Nothing of another version is in the stores, or on its way into Qdrant.
StoresCurrent ==
    /\ \A c \in points \cup accepted : c[2] = Indexed(c[1])
    /\ \A c \in chunkRows : c[2] = Indexed(c[1])

AwaitingCurrent == \A d \in Docs : awaiting[d] # Absent => awaiting[d] = source[d]

\* What a run holds is what the sources are, because no source changes under it.
Sourced(q) == \A x \in q.todo \cup q.ready \cup q.landed : x[2] = source[x[1]]

\* What a run has still to write is of documents whose rows it has written, but
\* for the parents of the group it is at.
Owned(q) ==
    /\ \A c \in q.pending \cup q.toVectors \cup q.toRows : <<c[1], c[2]>> \in q.landed
    /\ \A c \in q.deferred : <<c[1], c[2]>> \in q.ready \cup q.landed

\* A document with a stamped row is purged before its row is written again.
Purged(q) ==
    /\ q.pc # "select" =>
         \A x \in q.todo \cup q.ready : row[x[1]] \in Versions => x[1] \in q.changed
    /\ q.pc = "purgeRows" =>
         /\ \A x \in q.ready : row[x[1]] \in Versions => x[1] \in q.purging
         /\ \A c \in points \cup accepted : c[1] \notin q.purging
    /\ q.pc \in {"invalidate", "documents"} => \A x \in q.ready : row[x[1]] \notin Versions

CurrentRun(q) == Sourced(q) /\ Owned(q) /\ Purged(q)

CurrentInv ==
    /\ IInv /\ StoresCurrent /\ AwaitingCurrent
    /\ \A r \in Runs : CurrentRun(run[r])

\* A step that changes no store keeps them current.
LEMMA CurrentKept ==
  ASSUME StoresCurrent, AwaitingCurrent,
         UNCHANGED <<source, row, chunkRows, points, accepted, awaiting>>
  PROVE  StoresCurrent' /\ AwaitingCurrent'
  BY DEF StoresCurrent, AwaitingCurrent, Indexed

\* A run that is over holds nothing.
LEMMA IdleCurrent == CurrentRun(Idle) /\ CurrentRun(Idle)'
  BY DEF Idle, CurrentRun, Sourced, Owned, Purged

LEMMA LoadCurrent ==
  ASSUME CurrentInv, NEW r \in Runs, Load(r)
  PROVE  StoresCurrent' /\ AwaitingCurrent' /\ CurrentRun(run[r])'
  <1> DEFINE p == run[r]
  <1> DEFINE q == run'[r]
  <1>1. PICK w \in Windows(p.left, DocWindow) :
          run' = [run EXCEPT ![r].pc = "select", ![r].left = @ \ w,
                             ![r].todo = {<<d, source[d]>> : d \in w}]
    BY DEF Load
  <1>2. /\ p.pc = "load" /\ q.pc = "select"
        /\ q.todo = {<<d, source[d]>> : d \in w}
        /\ q.ready = p.ready /\ q.landed = p.landed /\ q.pending = p.pending
        /\ q.deferred = p.deferred /\ q.toVectors = p.toVectors /\ q.toRows = p.toRows
    BY <1>1 DEF Load, At, CurrentInv, IInv, TypeOK, RunStates
  <1>3. UNCHANGED <<source, row, chunkRows, points, accepted, awaiting>>
    BY DEF Load, stores
  <1>4. CurrentRun(p)
    BY DEF CurrentInv
  <1> HIDE DEF p, q
  <1>5. CurrentRun(q)
    BY <1>2, <1>4 DEF CurrentRun, Sourced, Owned, Purged
  <1>6. CurrentRun(run[r])'
    BY <1>3, <1>5 DEF CurrentRun, Sourced, Owned, Purged, q
  <1> QED
    BY <1>3, <1>6, CurrentKept DEF CurrentInv

LEMMA ExhaustCurrent ==
  ASSUME CurrentInv, NEW r \in Runs, Exhaust(r)
  PROVE  StoresCurrent' /\ AwaitingCurrent' /\ CurrentRun(run[r])'
  <1> DEFINE p == run[r]
  <1> DEFINE q == run'[r]
  <1>1. /\ p.pc = "load" /\ q.pc = "flush" /\ q.todo = p.todo
        /\ q.ready = p.ready /\ q.landed = p.landed /\ q.pending = p.pending
        /\ q.deferred = p.deferred /\ q.changed = p.changed
        /\ q.toVectors = p.toVectors /\ q.toRows = p.toRows
    BY DEF Exhaust, At, CurrentInv, IInv, TypeOK, RunStates
  <1>2. UNCHANGED <<source, row, chunkRows, points, accepted, awaiting>>
    BY DEF Exhaust, stores
  <1>3. CurrentRun(p)
    BY DEF CurrentInv
  <1> HIDE DEF p, q
  <1>4. CurrentRun(q)
    BY <1>1, <1>3 DEF CurrentRun, Sourced, Owned, Purged
  <1>5. CurrentRun(run[r])'
    BY <1>2, <1>4 DEF CurrentRun, Sourced, Owned, Purged, q
  <1> QED
    BY <1>2, <1>5, CurrentKept DEF CurrentInv

LEMMA StartCurrent ==
  ASSUME CurrentInv, NEW r \in Runs, NEW f \in BOOLEAN, Start(r, f)
  PROVE  StoresCurrent' /\ AwaitingCurrent' /\ CurrentRun(run[r])'
  <1> DEFINE p == run[r]
  <1> DEFINE q == run'[r]
  <1>1. /\ p.pc = "idle" /\ q.pc = "load" /\ q.todo = p.todo
        /\ q.ready = p.ready /\ q.landed = p.landed /\ q.pending = p.pending
        /\ q.deferred = p.deferred /\ q.changed = p.changed
        /\ q.toVectors = p.toVectors /\ q.toRows = p.toRows
    BY DEF Start, Active, At, CurrentInv, IInv, TypeOK, RunStates
  <1>2. UNCHANGED <<source, row, chunkRows, points, accepted, awaiting>>
    BY DEF Start, stores
  <1>3. CurrentRun(p)
    BY DEF CurrentInv
  <1> HIDE DEF p, q
  <1>4. CurrentRun(q)
    BY <1>1, <1>3 DEF CurrentRun, Sourced, Owned, Purged
  <1>5. CurrentRun(run[r])'
    BY <1>2, <1>4 DEF CurrentRun, Sourced, Owned, Purged, q
  <1> QED
    BY <1>2, <1>5, CurrentKept DEF CurrentInv

LEMMA InvalidateCurrent ==
  ASSUME CurrentInv, NEW r \in Runs, Invalidate(r)
  PROVE  StoresCurrent' /\ AwaitingCurrent' /\ CurrentRun(run[r])'
  <1> DEFINE p == run[r]
  <1> DEFINE q == run'[r]
  <1>1. /\ p.pc = "invalidate" /\ q.pc = "documents" /\ q.todo = p.todo
        /\ q.ready = p.ready /\ q.landed = p.landed /\ q.pending = p.pending
        /\ q.deferred = p.deferred /\ q.changed = p.changed
        /\ q.toVectors = p.toVectors /\ q.toRows = p.toRows
    BY DEF Invalidate, At, CurrentInv, IInv, TypeOK, RunStates
  <1>2. UNCHANGED <<source, row, chunkRows, points, accepted, awaiting>>
    BY DEF Invalidate, stores
  <1>3. CurrentRun(p)
    BY DEF CurrentInv
  <1> HIDE DEF p, q
  <1>4. CurrentRun(q)
    BY <1>1, <1>3 DEF CurrentRun, Sourced, Owned, Purged
  <1>5. CurrentRun(run[r])'
    BY <1>2, <1>4 DEF CurrentRun, Sourced, Owned, Purged, q
  <1> QED
    BY <1>2, <1>5, CurrentKept DEF CurrentInv

LEMMA NextGroupCurrent ==
  ASSUME CurrentInv, NEW r \in Runs, NextGroup(r)
  PROVE  StoresCurrent' /\ AwaitingCurrent' /\ CurrentRun(run[r])'
  <1> DEFINE p == run[r]
  <1> DEFINE q == run'[r]
  <1>1. /\ p.pc = "write" /\ q.pc = "process" /\ q.todo = p.todo
        /\ q.ready = p.ready /\ q.landed = p.landed /\ q.pending = p.pending
        /\ q.deferred = p.deferred /\ q.changed = p.changed
        /\ q.toVectors = p.toVectors /\ q.toRows = p.toRows
    BY DEF NextGroup, BatchDone, At, CurrentInv, IInv, TypeOK, RunStates
  <1>2. UNCHANGED <<source, row, chunkRows, points, accepted, awaiting>>
    BY DEF NextGroup, stores
  <1>3. CurrentRun(p)
    BY DEF CurrentInv
  <1> HIDE DEF p, q
  <1>4. CurrentRun(q)
    BY <1>1, <1>3 DEF CurrentRun, Sourced, Owned, Purged
  <1>5. CurrentRun(run[r])'
    BY <1>2, <1>4 DEF CurrentRun, Sourced, Owned, Purged, q
  <1> QED
    BY <1>2, <1>5, CurrentKept DEF CurrentInv

LEMMA FlushCurrent ==
  ASSUME CurrentInv, NEW r \in Runs, Flush(r)
  PROVE  StoresCurrent' /\ AwaitingCurrent' /\ CurrentRun(run[r])'
  <1> DEFINE p == run[r]
  <1> DEFINE q == run'[r]
  <1>1. /\ p.pc = "flush" /\ q.pc = "count" /\ q.todo = p.todo
        /\ q.ready = p.ready /\ q.landed = p.landed /\ q.pending = p.pending
        /\ q.deferred = p.deferred /\ q.changed = p.changed
        /\ q.toVectors = p.toVectors /\ q.toRows = p.toRows
    BY DEF Flush, At, CurrentInv, IInv, TypeOK, RunStates
  <1>2. UNCHANGED <<source, row, chunkRows, points, accepted, awaiting>>
    BY DEF Flush, stores
  <1>3. CurrentRun(p)
    BY DEF CurrentInv
  <1> HIDE DEF p, q
  <1>4. CurrentRun(q)
    BY <1>1, <1>3 DEF CurrentRun, Sourced, Owned, Purged
  <1>5. CurrentRun(run[r])'
    BY <1>2, <1>4 DEF CurrentRun, Sourced, Owned, Purged, q
  <1> QED
    BY <1>2, <1>5, CurrentKept DEF CurrentInv

\* The run sees the checksum of every stamped row, so it purges the document.
LEMMA SelectCurrent ==
  ASSUME CurrentInv, NEW r \in Runs, SelectChanged(r)
  PROVE  StoresCurrent' /\ AwaitingCurrent' /\ CurrentRun(run[r])'
  <1> DEFINE p == run[r]
  <1> DEFINE q == run'[r]
  <1> DEFINE todo == {dv \in p.todo : Prior(dv[1]) # dv[2]}
  <1> DEFINE changed == {dv \in todo : Prior(dv[1]) # Absent}
  <1>1. RunInv(p) /\ StoreInv /\ TypeOK /\ CurrentRun(p) /\ p.todo \subseteq DocVersions
    BY RunFields DEF CurrentInv, IInv, TypeOK
  <1>2. p.pc = "select" /\ ~p.force
    BY <1>1 DEF SelectChanged, RunInv, Emptied
  <1>3. run' = [run EXCEPT ![r].pc = IF todo = {} THEN "load" ELSE "process",
                           ![r].todo = todo, ![r].changed = DocsOf(changed)]
    BY <1>2 DEF SelectChanged
  <1> HIDE DEF todo, changed
  <1>4. q = [p EXCEPT !.pc = IF todo = {} THEN "load" ELSE "process",
                      !.todo = todo, !.changed = DocsOf(changed)] /\ p \in RunStates
    BY <1>1, <1>3 DEF TypeOK
  <1>5. UNCHANGED <<source, row, chunkRows, points, accepted, awaiting>>
    BY DEF SelectChanged, stores
  <1> HIDE DEF p, q
  <1>6. /\ q.pc = (IF todo = {} THEN "load" ELSE "process")
        /\ q.todo = todo /\ q.changed = DocsOf(changed)
        /\ q.ready = p.ready /\ q.landed = p.landed /\ q.pending = p.pending
        /\ q.deferred = p.deferred /\ q.toVectors = p.toVectors /\ q.toRows = p.toRows
    BY <1>4 DEF RunStates
  <1>7. p.ready = {} /\ todo \subseteq p.todo
    BY <1>1, <1>2 DEF RunInv, Emptied, todo
  <1>8. ASSUME NEW x \in todo, row[x[1]] \in Versions
        PROVE  x[1] \in DocsOf(changed)
    <2>1. x[1] \in Docs
      BY <1>1, <1>7 DEF DocVersions
    <2>2. Prior(x[1]) # Absent
      BY <1>1, <1>8, <2>1, PriorOfStamped DEF Absent, Versions
    <2> QED
      BY <2>2 DEF changed, DocsOf
  <1>9. Sourced(q) /\ Owned(q)
    BY <1>1, <1>6, <1>7 DEF CurrentRun, Sourced, Owned
  <1>10. Purged(q)
    BY <1>6, <1>7, <1>8 DEF Purged
  <1>11. CurrentRun(run[r])'
    BY <1>5, <1>9, <1>10 DEF CurrentRun, Sourced, Owned, Purged, q
  <1> QED
    BY <1>5, <1>11, CurrentKept DEF CurrentInv

\* A group without a document to purge has none with a stamped row.
LEMMA ProcessCurrent ==
  ASSUME CurrentInv, NEW r \in Runs, Process(r)
  PROVE  StoresCurrent' /\ AwaitingCurrent' /\ CurrentRun(run[r])'
  <1> DEFINE p == run[r]
  <1> DEFINE q == run'[r]
  <1> DEFINE New(group, ready) ==
        run' = [run EXCEPT
                 ![r].pc = IF ready # {}
                           THEN IF DocsOf(ready) \cap run[r].changed # {}
                                THEN "purgeVectors" ELSE "documents"
                           ELSE IF run[r].todo \ group # {} THEN "process" ELSE "write",
                 ![r].todo = run[r].todo \ group, ![r].ready = ready,
                 ![r].deferred = @ \cup ParentsOf(ready)]
  <1>1. PICK group \in Windows(p.todo, Window) : \E ready \in SUBSET group : New(group, ready)
    BY DEF Process
  <1>2. PICK ready \in SUBSET group : New(group, ready)
    BY <1>1
  <1> DEFINE place == IF ready # {}
                      THEN IF DocsOf(ready) \cap p.changed # {}
                           THEN "purgeVectors" ELSE "documents"
                      ELSE IF p.todo \ group # {} THEN "process" ELSE "write"
  <1>3. /\ place \in {"purgeVectors", "documents", "process", "write"}
        /\ place = "documents" => DocsOf(ready) \cap p.changed = {}
    OBVIOUS
  <1>4. run' = [run EXCEPT ![r].pc = place, ![r].todo = p.todo \ group,
                           ![r].ready = ready,
                           ![r].deferred = p.deferred \cup ParentsOf(ready)]
    BY <1>2
  <1>5. p.pc = "process" /\ run \in [Runs -> RunStates]
    BY DEF Process, At, CurrentInv, IInv, TypeOK
  <1>6. UNCHANGED <<source, row, chunkRows, points, accepted, awaiting>>
    BY DEF Process, stores
  <1>7. /\ RunInv(p) /\ CurrentRun(p) /\ group \subseteq p.todo /\ p.todo \subseteq DocVersions
    BY RunFields DEF CurrentInv, IInv, TypeOK, Windows
  <1> HIDE DEF place
  <1>8. q = [p EXCEPT !.pc = place, !.todo = p.todo \ group, !.ready = ready,
                      !.deferred = p.deferred \cup ParentsOf(ready)]
    BY <1>4, <1>5
  <1>9. p \in RunStates
    BY <1>5
  <1> HIDE DEF p, q, New
  <1>10. /\ q.pc \in {"purgeVectors", "documents", "process", "write"}
         /\ q.pc = "documents" => DocsOf(ready) \cap p.changed = {}
         /\ q.todo = p.todo \ group /\ q.ready = ready
         /\ q.deferred = p.deferred \cup ParentsOf(ready)
         /\ q.landed = p.landed /\ q.pending = p.pending /\ q.changed = p.changed
         /\ q.toVectors = p.toVectors /\ q.toRows = p.toRows
    BY <1>3, <1>8, <1>9 DEF RunStates
  <1>11. p.ready = {} /\ ready \subseteq p.todo
    BY <1>5, <1>7 DEF RunInv, Emptied
  <1>12. Sourced(q)
    BY <1>7, <1>10, <1>11 DEF CurrentRun, Sourced
  <1>13. Owned(q)
    <2>1. \A c \in ParentsOf(ready) : <<c[1], c[2]>> \in ready
      BY DEF ParentsOf
    <2> QED
      BY <1>7, <1>10, <1>11, <2>1 DEF CurrentRun, Owned
  <1>14. Purged(q)
    <2>1. \A x \in q.todo \cup q.ready : row[x[1]] \in Versions => x[1] \in p.changed
      BY <1>5, <1>7, <1>10, <1>11 DEF CurrentRun, Purged
    <2>2. \A x \in q.ready : x[1] \in DocsOf(ready)
      BY <1>10 DEF DocsOf
    <2>3. q.pc = "documents" => \A x \in q.ready : row[x[1]] \notin Versions
      BY <1>10, <2>1, <2>2
    <2> QED
      BY <1>10, <2>1, <2>3 DEF Purged
  <1>15. CurrentRun(run[r])'
    BY <1>6, <1>12, <1>13, <1>14 DEF CurrentRun, Sourced, Owned, Purged, q
  <1> QED
    BY <1>6, <1>15, CurrentKept DEF CurrentInv

LEMMA PurgeVectorsCurrent ==
  ASSUME CurrentInv, NEW r \in Runs, PurgeVectors(r)
  PROVE  StoresCurrent' /\ AwaitingCurrent' /\ CurrentRun(run[r])'
  <1> DEFINE p == run[r]
  <1> DEFINE q == run'[r]
  <1>1. CurrentRun(p) /\ StoresCurrent /\ AwaitingCurrent /\ p.pc = "purgeVectors"
    BY DEF CurrentInv, PurgeVectors, At
  <1>2. /\ q.pc = "purgeRows" /\ q.purging = Stale(p) /\ q.todo = p.todo
        /\ q.ready = p.ready /\ q.landed = p.landed /\ q.pending = p.pending
        /\ q.deferred = p.deferred /\ q.changed = p.changed
        /\ q.toVectors = p.toVectors /\ q.toRows = p.toRows
    BY DEF PurgeVectors, CurrentInv, IInv, TypeOK, RunStates
  <1>3. /\ points' = points \ Of(points, Stale(p))
        /\ accepted' = accepted \ Of(accepted, Stale(p))
        /\ UNCHANGED <<source, row, chunkRows, awaiting>>
    BY DEF PurgeVectors
  <1> HIDE DEF p, q
  <1>4. StoresCurrent' /\ AwaitingCurrent'
    BY <1>1, <1>3 DEF StoresCurrent, AwaitingCurrent, Indexed, Of
  <1>5. Sourced(q) /\ Owned(q)
    BY <1>1, <1>2 DEF CurrentRun, Sourced, Owned
  <1>6. \A c \in points' \cup accepted' : c[1] \notin Stale(p)
    BY <1>3 DEF Of
  <1>7. \A x \in p.ready : row[x[1]] \in Versions => x[1] \in Stale(p)
    BY <1>1 DEF CurrentRun, Purged, Stale, DocsOf
  <1>8. Purged(run[r])'
    BY <1>1, <1>2, <1>3, <1>6, <1>7 DEF CurrentRun, Purged, q
  <1> QED
    BY <1>3, <1>4, <1>5, <1>8 DEF CurrentRun, Sourced, Owned, q

LEMMA PurgeRowsCurrent ==
  ASSUME CurrentInv, NEW r \in Runs, PurgeRows(r)
  PROVE  StoresCurrent' /\ AwaitingCurrent' /\ CurrentRun(run[r])'
  <1> DEFINE p == run[r]
  <1> DEFINE q == run'[r]
  <1>1. /\ CurrentRun(p) /\ StoresCurrent /\ AwaitingCurrent /\ p.pc = "purgeRows"
        /\ p \in RunStates /\ TypeOK
    BY DEF CurrentInv, IInv, TypeOK, PurgeRows, At
  <1>2. PICK d \in p.purging :
          /\ row' = [row EXCEPT ![d] = Absent]
          /\ chunkRows' = chunkRows \ Of(chunkRows, {d})
          /\ run' = [run EXCEPT ![r].purging = @ \ {d},
                                ![r].pc = IF run[r].purging = {d} THEN "invalidate" ELSE @]
    BY DEF PurgeRows
  <1>3. /\ q.pc = IF p.purging = {d} THEN "invalidate" ELSE "purgeRows"
        /\ q.purging = p.purging \ {d} /\ q.todo = p.todo
        /\ q.ready = p.ready /\ q.landed = p.landed /\ q.pending = p.pending
        /\ q.deferred = p.deferred /\ q.changed = p.changed
        /\ q.toVectors = p.toVectors /\ q.toRows = p.toRows
    BY <1>1, <1>2 DEF TypeOK, RunStates
  <1>4. UNCHANGED <<source, points, accepted, awaiting>>
    BY DEF PurgeRows
  <1> HIDE DEF p, q
  <1>5. /\ \A e \in Docs : row'[e] = IF e = d THEN Absent ELSE row[e]
        /\ Absent \notin Versions
    BY <1>1, <1>2 DEF TypeOK, Absent, Versions
  <1>6. \A c \in points \cup accepted \cup chunkRows : c[1] \in Docs
    BY <1>1 DEF TypeOK, Chunks
  <1>7. \A c \in points \cup accepted \cup chunkRows' : c[1] # d
    BY <1>1, <1>2, <1>3 DEF CurrentRun, Purged, Of
  <1>8. chunkRows' \subseteq chunkRows
    BY <1>2
  <1>9. \A c \in points \cup accepted \cup chunkRows' : Indexed(c[1])' = Indexed(c[1])
    BY <1>4, <1>5, <1>6, <1>7, <1>8 DEF Indexed
  <1>10. StoresCurrent' /\ AwaitingCurrent'
    BY <1>1, <1>4, <1>8, <1>9 DEF StoresCurrent, AwaitingCurrent
  <1>11. Sourced(q) /\ Owned(q)
    BY <1>1, <1>3 DEF CurrentRun, Sourced, Owned
  <1>12. \A x \in p.todo \cup p.ready : x[1] \in Docs
    BY <1>1, RunFields DEF DocVersions
  <1>13. \A x \in p.todo \cup p.ready : row'[x[1]] \in Versions =>
            row[x[1]] \in Versions /\ x[1] # d
    BY <1>5, <1>12
  <1>14. Purged(run[r])'
    BY <1>1, <1>3, <1>4, <1>13 DEF CurrentRun, Purged, q
  <1> QED
    BY <1>4, <1>10, <1>11, <1>14 DEF CurrentRun, Sourced, Owned, q

\* The rows are written of documents that have no stamp.
LEMMA WriteDocumentsIndexed ==
  ASSUME CurrentInv, NEW r \in Runs, WriteDocuments(r)
  PROVE  \A d \in Docs : /\ row'[d] \in Versions <=> row[d] \in Versions
                         /\ Indexed(d)' = Indexed(d)
  <1> DEFINE p == run[r]
  <1>1. CurrentRun(p) /\ p.pc = "documents"
    BY DEF CurrentInv, WriteDocuments, At
  <1>2. /\ row' = [d \in Docs |-> IF d \in DocsOf(p.ready) THEN Unstamped ELSE row[d]]
        /\ UNCHANGED source
    BY DEF WriteDocuments
  <1> HIDE DEF p
  <1>3. \A d \in DocsOf(p.ready) : row[d] \notin Versions
    BY <1>1 DEF CurrentRun, Purged, DocsOf
  <1>4. Unstamped \notin Versions
    BY IngestAssumption DEF Unstamped, Versions
  <1>5. \A d \in Docs : row'[d] \in Versions <=> row[d] \in Versions
    BY <1>2, <1>3, <1>4
  <1>6. \A d \in Docs : row'[d] \in Versions => row'[d] = row[d]
    BY <1>2, <1>4
  <1> QED
    BY <1>2, <1>5, <1>6 DEF Indexed

LEMMA WriteDocumentsCurrent ==
  ASSUME CurrentInv, NEW r \in Runs, WriteDocuments(r)
  PROVE  StoresCurrent' /\ AwaitingCurrent' /\ CurrentRun(run[r])'
  <1> DEFINE p == run[r]
  <1> DEFINE q == run'[r]
  <1>1. /\ CurrentRun(p) /\ StoresCurrent /\ AwaitingCurrent /\ p.pc = "documents"
        /\ p \in RunStates /\ TypeOK
    BY DEF CurrentInv, IInv, TypeOK, WriteDocuments, At
  <1>2. /\ q.pc = "write" /\ q.todo = p.todo /\ q.ready = {}
        /\ q.landed = p.landed \cup p.ready
        /\ q.pending = p.pending \cup LeavesOf(p.ready)
        /\ q.deferred = p.deferred /\ q.changed = p.changed
        /\ q.toVectors = p.toVectors /\ q.toRows = p.toRows
    BY DEF WriteDocuments, CurrentInv, IInv, TypeOK, RunStates
  <1>3. /\ row' = [d \in Docs |-> IF d \in DocsOf(p.ready) THEN Unstamped ELSE row[d]]
        /\ UNCHANGED <<source, chunkRows, points, accepted, awaiting>>
    BY DEF WriteDocuments
  <1> HIDE DEF p, q
  <1>4. \A d \in Docs : row'[d] \in Versions <=> row[d] \in Versions
    BY WriteDocumentsIndexed
  <1>5. \A d \in Docs : Indexed(d)' = Indexed(d)
    BY WriteDocumentsIndexed
  <1>6. \A c \in points \cup accepted \cup chunkRows : c[1] \in Docs
    BY <1>1 DEF TypeOK, Chunks
  <1>7. StoresCurrent' /\ AwaitingCurrent'
    BY <1>1, <1>3, <1>5, <1>6 DEF StoresCurrent, AwaitingCurrent
  <1>8. Sourced(q)
    BY <1>1, <1>2 DEF CurrentRun, Sourced
  <1>9. Owned(q)
    <2>1. \A c \in LeavesOf(p.ready) : <<c[1], c[2]>> \in p.ready
      BY DEF LeavesOf
    <2> QED
      BY <1>1, <1>2, <2>1 DEF CurrentRun, Owned
  <1>10. \A x \in p.todo : x[1] \in Docs
    BY <1>1, RunFields DEF DocVersions
  <1>11. Purged(run[r])'
    BY <1>1, <1>2, <1>4, <1>10 DEF CurrentRun, Purged, q
  <1> QED
    BY <1>3, <1>7, <1>8, <1>9, <1>11 DEF CurrentRun, Sourced, Owned, q

LEMMA NextBatchCurrent ==
  ASSUME CurrentInv, NEW r \in Runs, NextBatch(r)
  PROVE  StoresCurrent' /\ AwaitingCurrent' /\ CurrentRun(run[r])'
  <1> DEFINE p == run[r]
  <1> DEFINE q == run'[r]
  <1>1. PICK b \in Windows(p.pending, Batch) :
          run' = [run EXCEPT ![r].pending = @ \ b,
                             ![r].toVectors = b, ![r].toRows = b]
    BY DEF NextBatch
  <1>2. /\ p.pc = "write" /\ q.pc = p.pc /\ q.todo = p.todo
        /\ q.ready = p.ready /\ q.landed = p.landed /\ q.pending = p.pending \ b
        /\ q.deferred = p.deferred /\ q.changed = p.changed
        /\ q.toVectors = b /\ q.toRows = b
    BY <1>1 DEF NextBatch, BatchDone, At, CurrentInv, IInv, TypeOK, RunStates
  <1>3. UNCHANGED <<source, row, chunkRows, points, accepted, awaiting>>
    BY DEF NextBatch, stores
  <1>4. CurrentRun(p) /\ b \subseteq p.pending
    BY DEF CurrentInv, Windows
  <1> HIDE DEF p, q
  <1>5. CurrentRun(q)
    BY <1>2, <1>4 DEF CurrentRun, Sourced, Owned, Purged
  <1>6. CurrentRun(run[r])'
    BY <1>3, <1>5 DEF CurrentRun, Sourced, Owned, Purged, q
  <1> QED
    BY <1>3, <1>6, CurrentKept DEF CurrentInv

\* What a run has still to write is of the version the stores may hold.
LEMMA WritesCurrent ==
  ASSUME CurrentInv, NEW r \in Runs, At(r, "write"),
         NEW c \in run[r].pending \cup run[r].toVectors \cup run[r].toRows \cup run[r].deferred
  PROVE  c[2] = Indexed(c[1]) /\ <<c[1], c[2]>> \in run[r].landed
  <1> DEFINE p == run[r]
  <1>1. RunInv(p) /\ CurrentRun(p) /\ p.pc = "write"
    BY DEF CurrentInv, IInv, At
  <1> HIDE DEF p
  <1>2. p.ready = {}
    BY <1>1 DEF RunInv, Emptied
  <1>3. <<c[1], c[2]>> \in p.landed
    BY <1>1, <1>2 DEF CurrentRun, Owned, p
  <1>4. c[2] = source[c[1]] /\ row[c[1]] = Unstamped
    <2>1. PICK x \in p.landed : x = <<c[1], c[2]>>
      BY <1>3
    <2>2. x[2] = source[x[1]] /\ row[x[1]] = Unstamped
      BY <1>1 DEF CurrentRun, Sourced, RunInv, OnItsWay
    <2> QED
      BY <2>1, <2>2
  <1>5. Unstamped \notin Versions
    BY IngestAssumption DEF Unstamped, Versions
  <1> QED
    BY <1>3, <1>4, <1>5 DEF Indexed, p

LEMMA SendVectorsCurrent ==
  ASSUME CurrentInv, NEW r \in Runs, SendVectors(r)
  PROVE  StoresCurrent' /\ AwaitingCurrent' /\ CurrentRun(run[r])'
  <1> DEFINE p == run[r]
  <1> DEFINE q == run'[r]
  <1>1. CurrentRun(p) /\ StoresCurrent /\ AwaitingCurrent
    BY DEF CurrentInv
  <1>2. /\ p.pc = "write" /\ q.pc = "write" /\ q.todo = p.todo
        /\ q.ready = p.ready /\ q.landed = p.landed /\ q.pending = p.pending
        /\ q.deferred = p.deferred /\ q.changed = p.changed
        /\ q.toVectors = {} /\ q.toRows = p.toRows
    BY DEF SendVectors, At, CurrentInv, IInv, TypeOK, RunStates
  <1>3. /\ accepted' = accepted \cup (p.toVectors \ points)
        /\ UNCHANGED <<source, row, chunkRows, points, awaiting>>
    BY DEF SendVectors
  <1>4. \A c \in p.toVectors : c[2] = Indexed(c[1])
    BY WritesCurrent DEF SendVectors
  <1> HIDE DEF p, q
  <1>5. \A c \in accepted' : c[2] = Indexed(c[1])
    BY <1>1, <1>3, <1>4 DEF StoresCurrent
  <1>6. StoresCurrent' /\ AwaitingCurrent'
    BY <1>1, <1>3, <1>5 DEF StoresCurrent, AwaitingCurrent, Indexed
  <1>7. CurrentRun(q)
    BY <1>1, <1>2 DEF CurrentRun, Sourced, Owned, Purged
  <1>8. CurrentRun(run[r])'
    BY <1>2, <1>3, <1>7 DEF CurrentRun, Sourced, Owned, Purged, q
  <1> QED
    BY <1>6, <1>8

LEMMA SendRowsCurrent ==
  ASSUME CurrentInv, NEW r \in Runs, SendRows(r)
  PROVE  StoresCurrent' /\ AwaitingCurrent' /\ CurrentRun(run[r])'
  <1> DEFINE p == run[r]
  <1> DEFINE q == run'[r]
  <1>1. CurrentRun(p) /\ StoresCurrent /\ AwaitingCurrent
    BY DEF CurrentInv
  <1>2. /\ p.pc = "write" /\ q.pc = "write" /\ q.todo = p.todo
        /\ q.ready = p.ready /\ q.landed = p.landed /\ q.pending = p.pending
        /\ q.deferred = p.deferred /\ q.changed = p.changed
        /\ q.toVectors = p.toVectors /\ q.toRows = {}
    BY DEF SendRows, At, CurrentInv, IInv, TypeOK, RunStates
  <1>3. /\ chunkRows' = chunkRows \cup p.toRows
        /\ UNCHANGED <<source, row, points, accepted, awaiting>>
    BY DEF SendRows
  <1>4. \A c \in p.toRows : c[2] = Indexed(c[1])
    BY WritesCurrent DEF SendRows
  <1> HIDE DEF p, q
  <1>5. \A c \in chunkRows' : c[2] = Indexed(c[1])
    BY <1>1, <1>3, <1>4 DEF StoresCurrent
  <1>6. StoresCurrent' /\ AwaitingCurrent'
    BY <1>1, <1>3, <1>5 DEF StoresCurrent, AwaitingCurrent, Indexed
  <1>7. CurrentRun(q)
    BY <1>1, <1>2 DEF CurrentRun, Sourced, Owned, Purged
  <1>8. CurrentRun(run[r])'
    BY <1>3, <1>7 DEF CurrentRun, Sourced, Owned, Purged, q
  <1> QED
    BY <1>6, <1>8

LEMMA FlushDeferredCurrent ==
  ASSUME CurrentInv, NEW r \in Runs, FlushDeferred(r)
  PROVE  StoresCurrent' /\ AwaitingCurrent' /\ CurrentRun(run[r])'
  <1> DEFINE p == run[r]
  <1> DEFINE q == run'[r]
  <1> DEFINE of(d) == CHOOSE v \in Versions : <<d, v>> \in p.landed
  <1>1. /\ CurrentRun(p) /\ StoresCurrent /\ AwaitingCurrent /\ RunInv(p)
        /\ p \in RunStates
    BY DEF CurrentInv, IInv, TypeOK
  <1>2. /\ p.pc = "write" /\ q.pc = "load" /\ q.todo = p.todo
        /\ q.ready = p.ready /\ q.landed = {} /\ q.pending = p.pending
        /\ q.deferred = {} /\ q.changed = {}
        /\ q.toVectors = p.toVectors /\ q.toRows = p.toRows
        /\ p.toVectors = {} /\ p.toRows = {} /\ p.pending = {} /\ p.todo = {}
    BY DEF FlushDeferred, BatchDone, At, CurrentInv, IInv, TypeOK, RunStates
  <1>3. /\ chunkRows' = chunkRows \cup p.deferred
        /\ awaiting' = [d \in Docs |-> IF d \in DocsOf(p.landed) THEN of(d) ELSE awaiting[d]]
        /\ UNCHANGED <<source, row, points, accepted>>
    BY DEF FlushDeferred
  <1>4. \A c \in p.deferred : c[2] = Indexed(c[1])
    BY WritesCurrent DEF FlushDeferred, BatchDone
  <1> HIDE DEF p, q
  <1>5. \A d \in DocsOf(p.landed) : of(d) \in Versions /\ <<d, of(d)>> \in p.landed
    <2>1. SUFFICES ASSUME NEW d \in DocsOf(p.landed)
                   PROVE  \E v \in Versions : <<d, v>> \in p.landed
      OBVIOUS
    <2>2. PICK x \in p.landed : x[1] = d
      BY DEF DocsOf
    <2>3. x = <<x[1], x[2]>> /\ x[2] \in Versions
      BY <1>1, RunFields DEF DocVersions
    <2> QED
      BY <2>2, <2>3
  <1> HIDE DEF of
  <1>6. \A d \in DocsOf(p.landed) : of(d) = source[d]
    <2>1. SUFFICES ASSUME NEW d \in DocsOf(p.landed) PROVE of(d) = source[d]
      OBVIOUS
    <2>2. PICK x \in p.landed : x = <<d, of(d)>>
      BY <1>5
    <2>3. x[2] = source[x[1]]
      BY <1>1 DEF CurrentRun, Sourced
    <2> QED
      BY <2>2, <2>3
  <1>7. \A c \in chunkRows' : c[2] = Indexed(c[1])
    BY <1>1, <1>3, <1>4 DEF StoresCurrent
  <1>8. StoresCurrent' /\ AwaitingCurrent'
    BY <1>1, <1>3, <1>6, <1>7 DEF StoresCurrent, AwaitingCurrent, Indexed
  <1>9. p.ready = {}
    BY <1>1, <1>2 DEF RunInv, Emptied
  <1>10. CurrentRun(run[r])'
    BY <1>2, <1>9 DEF CurrentRun, Sourced, Owned, Purged, q
  <1> QED
    BY <1>8, <1>10

LEMMA CountCurrent ==
  ASSUME CurrentInv, NEW r \in Runs, Count(r)
  PROVE  StoresCurrent' /\ AwaitingCurrent' /\ CurrentRun(run[r])'
  <1> DEFINE p == run[r]
  <1> DEFINE q == run'[r]
  <1> DEFINE s == {<<d, awaiting[d]>> : d \in {e \in Docs : awaiting[e] # Absent}}
  <1>1. CurrentRun(p) /\ TypeOK /\ p \in RunStates /\ p.pc = "count"
    BY DEF CurrentInv, IInv, TypeOK, Count, At
  <1>2. q = IF s = {} THEN Idle ELSE [p EXCEPT !.pc = "stamp", !.stamping = s]
    BY <1>1 DEF Count, TypeOK
  <1>3. UNCHANGED <<source, row, chunkRows, points, accepted, awaiting>>
    BY DEF Count, stores
  <1> HIDE DEF p, q, s
  <1>4. ASSUME s # {} PROVE CurrentRun(q)
    <2>1. /\ q.pc = "stamp" /\ q.todo = p.todo
          /\ q.ready = p.ready /\ q.landed = p.landed /\ q.pending = p.pending
          /\ q.deferred = p.deferred /\ q.changed = p.changed
          /\ q.toVectors = p.toVectors /\ q.toRows = p.toRows
      BY <1>1, <1>2, <1>4 DEF RunStates
    <2> QED
      BY <1>1, <2>1 DEF CurrentRun, Sourced, Owned, Purged
  <1>5. CurrentRun(q)
    BY <1>2, <1>4, IdleCurrent
  <1>6. CurrentRun(run[r])'
    BY <1>3, <1>5 DEF CurrentRun, Sourced, Owned, Purged, q
  <1> QED
    BY <1>3, <1>6, CurrentKept DEF CurrentInv

\* Stamping says of a document what its row allowed already.
\* What is stamped had no stamp and waits with what its source is.
LEMMA StampIndexed ==
  ASSUME CurrentInv, NEW r \in Runs, Stamp(r)
  PROVE  \A d \in Docs : Indexed(d)' = Indexed(d)
  <1> DEFINE p == run[r]
  <1>1. AwaitingCurrent /\ TypeOK /\ StoreInv /\ RunInv(p) /\ p.pc = "stamp"
    BY DEF CurrentInv, IInv, Stamp, At
  <1>2. /\ row' = [d \in Docs |-> IF d \in DocsOf(p.stamping)
                     THEN CHOOSE v \in Versions : <<d, v>> \in p.stamping
                     ELSE row[d]]
        /\ UNCHANGED source
    BY DEF Stamp
  <1> HIDE DEF p
  <1>3. p.stamping = {<<d, awaiting[d]>> : d \in {e \in Docs : awaiting[e] # Absent}}
    BY <1>1 DEF RunInv, Settled
  <1>4. \A d \in Docs : IF d \in DocsOf(p.stamping)
                        THEN row'[d] = source[d] /\ row[d] = Unstamped ELSE row'[d] = row[d]
    <2>1. SUFFICES ASSUME NEW d \in Docs, d \in DocsOf(p.stamping)
                   PROVE  row'[d] = source[d] /\ row[d] = Unstamped
      BY <1>2
    <2>2. awaiting[d] # Absent
      BY <1>3, <2>1 DEF DocsOf
    <2>3. awaiting[d] = source[d] /\ row[d] = Unstamped /\ source[d] \in Versions
      BY <1>1, <2>2 DEF AwaitingCurrent, StoreInv, AwaitingUnstamped, TypeOK
    <2>4. \A v \in Versions : <<d, v>> \in p.stamping <=> v = source[d]
      BY <1>3, <2>2, <2>3
    <2>5. row'[d] = CHOOSE v \in Versions : <<d, v>> \in p.stamping
      BY <1>2, <2>1
    <2> QED
      BY <2>3, <2>4, <2>5
  <1>5. Unstamped \notin Versions /\ \A d \in Docs : source[d] \in Versions
    BY <1>1, IngestAssumption DEF Unstamped, Versions, TypeOK
  <1> QED
    BY <1>2, <1>4, <1>5 DEF Indexed

LEMMA StampCurrent ==
  ASSUME CurrentInv, NEW r \in Runs, Stamp(r)
  PROVE  StoresCurrent' /\ AwaitingCurrent' /\ CurrentRun(run[r])'
  <1>1. /\ StoresCurrent /\ AwaitingCurrent /\ TypeOK /\ run'[r] = Idle
    BY DEF CurrentInv, IInv, TypeOK, Stamp
  <1>2. /\ awaiting' = [d \in Docs |-> Absent]
        /\ UNCHANGED <<source, chunkRows, points, accepted>>
    BY DEF Stamp
  <1>3. \A d \in Docs : Indexed(d)' = Indexed(d)
    BY StampIndexed
  <1>4. \A c \in points \cup accepted \cup chunkRows : c[1] \in Docs
    BY <1>1 DEF TypeOK, Chunks
  <1>5. StoresCurrent' /\ AwaitingCurrent'
    BY <1>1, <1>2, <1>3, <1>4 DEF StoresCurrent, AwaitingCurrent
  <1> QED
    BY <1>1, <1>5, IdleCurrent

LEMMA StepCurrent ==
  ASSUME CurrentInv, NEW r \in Runs, Step(r)
  PROVE  StoresCurrent' /\ AwaitingCurrent' /\ CurrentRun(run[r])'
  <1>1. ASSUME Refused(r) PROVE StoresCurrent' /\ AwaitingCurrent' /\ CurrentRun(run[r])'
    <2>1. StoresCurrent /\ AwaitingCurrent /\ run'[r] = Idle
      BY <1>1 DEF Refused, CurrentInv, IInv, TypeOK
    <2>2. UNCHANGED <<source, row, chunkRows, points, accepted, awaiting>>
      BY <1>1 DEF Refused, stores
    <2> QED
      BY <2>1, <2>2, IdleCurrent, CurrentKept
  <1> QED
    BY <1>1, LoadCurrent, ExhaustCurrent, SelectCurrent, ProcessCurrent,
       PurgeVectorsCurrent, PurgeRowsCurrent, InvalidateCurrent,
       WriteDocumentsCurrent, NextBatchCurrent, NextGroupCurrent,
       SendVectorsCurrent, SendRowsCurrent, FlushDeferredCurrent, FlushCurrent,
       CountCurrent, StampCurrent DEF Step

\* What Qdrant applies it had accepted.
LEMMA ApplyCurrent ==
  ASSUME CurrentInv, Apply, NEW r \in Runs
  PROVE  StoresCurrent' /\ AwaitingCurrent' /\ CurrentRun(run[r])'
  <1> DEFINE p == run[r]
  <1>1. StoresCurrent /\ AwaitingCurrent /\ CurrentRun(p)
    BY DEF CurrentInv
  <1>2. PICK c \in accepted : points' = points \cup {c} /\ accepted' = accepted \ {c}
    BY DEF Apply
  <1>3. UNCHANGED <<source, row, chunkRows, awaiting, run>>
    BY DEF Apply
  <1>4. points' \cup accepted' = points \cup accepted
    BY <1>2
  <1> HIDE DEF p
  <1>5. StoresCurrent' /\ AwaitingCurrent'
    BY <1>1, <1>3, <1>4 DEF StoresCurrent, AwaitingCurrent, Indexed
  <1>6. CurrentRun(run[r])'
    BY <1>1, <1>3, <1>4 DEF CurrentRun, Sourced, Owned, Purged, p
  <1> QED
    BY <1>5, <1>6

\* A source is edited once its row is stamped, when no run holds anything.
LEMMA EditCurrent ==
  ASSUME Clean, CurrentInv, NEW d \in Docs, Edit(d), NEW r \in Runs
  PROVE  StoresCurrent' /\ AwaitingCurrent' /\ CurrentRun(run[r])'
  <1> DEFINE p == run[r]
  <1>1. /\ StoresCurrent /\ AwaitingCurrent /\ CurrentRun(p) /\ TypeOK /\ StoreInv
        /\ RunInv(p) /\ p.pc = "idle"
    BY DEF CurrentInv, IInv, Clean, Edit, Active
  <1>2. /\ source' = [source EXCEPT ![d] = @ + 1] /\ row[d] = source[d]
        /\ UNCHANGED <<row, chunkRows, points, accepted, awaiting, run>>
    BY DEF Edit, stores, Clean
  <1> HIDE DEF p
  <1>3. row[d] \in Versions /\ \A e \in Docs : e # d => source'[e] = source[e]
    BY <1>1, <1>2 DEF TypeOK
  <1>4. \A e \in Docs : Indexed(e)' = Indexed(e)
    BY <1>2, <1>3 DEF Indexed
  <1>5. \A c \in points \cup accepted \cup chunkRows : c[1] \in Docs
    BY <1>1 DEF TypeOK, Chunks
  <1>6. StoresCurrent'
    BY <1>1, <1>2, <1>4, <1>5 DEF StoresCurrent
  <1>7. AwaitingCurrent'
    <2>1. awaiting[d] = Absent
      BY <1>1, <1>3, IngestAssumption DEF StoreInv, AwaitingUnstamped, Unstamped, Versions
    <2> QED
      BY <1>1, <1>2, <1>3, <2>1 DEF AwaitingCurrent
  <1>8. p.todo = {} /\ p.ready = {} /\ p.landed = {}
    BY <1>1 DEF RunInv, Emptied
  <1>9. CurrentRun(run[r])'
    BY <1>1, <1>2, <1>8 DEF CurrentRun, Sourced, Owned, Purged, p
  <1> QED
    BY <1>6, <1>7, <1>9

LEMMA NextCurrent ==
  ASSUME Alone, Clean, CurrentInv, [Next]_vars
  PROVE  CurrentInv'
  <1>1. IInv'
    BY NextInv DEF CurrentInv
  <1>2. ASSUME NEW r \in Runs, StoresCurrent' /\ AwaitingCurrent' /\ CurrentRun(run[r])'
        PROVE  CurrentInv'
    <2>1. \A s \in Runs : s = r
      BY DEF Alone
    <2> QED
      BY <1>1, <1>2, <2>1 DEF CurrentInv
  <1>3. PICK r0 \in Runs : TRUE
    BY DEF Alone
  <1>4. StoresCurrent /\ AwaitingCurrent
    BY DEF CurrentInv
  <1>5. ASSUME NEW r \in Runs, Step(r) PROVE CurrentInv'
    BY <1>2, <1>5, StepCurrent
  <1>6. ASSUME NEW r \in Runs, NEW f \in BOOLEAN, Start(r, f) PROVE CurrentInv'
    BY <1>2, <1>6, StartCurrent
  <1>7. ASSUME NEW r \in Runs, Fail(r) PROVE CurrentInv'
    <2>1. run'[r] = Idle
      BY <1>7 DEF Fail, CurrentInv, IInv, TypeOK
    <2>2. UNCHANGED <<source, row, chunkRows, points, accepted, awaiting>>
      BY <1>7 DEF Fail, stores
    <2> QED
      BY <1>2, <1>4, <2>1, <2>2, IdleCurrent, CurrentKept
  <1>8. CASE Crash
    <2>1. /\ run'[r0] = Idle /\ awaiting' = [d \in Docs |-> Absent]
          /\ UNCHANGED <<source, row, chunkRows, points, accepted>>
      BY <1>8 DEF Crash, stores
    <2>2. StoresCurrent' /\ AwaitingCurrent'
      BY <1>4, <2>1 DEF StoresCurrent, AwaitingCurrent, Indexed
    <2> QED
      BY <1>2, <2>1, <2>2, IdleCurrent
  <1>9. CASE Apply
    BY <1>2, <1>3, <1>9, ApplyCurrent
  <1>10. ASSUME NEW d \in Docs, Edit(d) PROVE CurrentInv'
    BY <1>2, <1>3, <1>10, EditCurrent
  <1>11. ASSUME UNCHANGED <<source, row, chunkRows, points, accepted, awaiting, run>>
         PROVE  CurrentInv'
    <2>1. StoresCurrent' /\ AwaitingCurrent'
      BY <1>4, <1>11, CurrentKept
    <2>2. CurrentRun(run[r0])
      BY DEF CurrentInv
    <2>3. CurrentRun(run[r0])'
      BY <1>11, <2>2 DEF CurrentRun, Sourced, Owned, Purged
    <2> QED
      BY <1>2, <2>1, <2>3
  <1>12. ASSUME NEW dv \in DocVersions, Answer(dv) \/ CacheAnswer(dv) \/ Expire(dv)
         PROVE  CurrentInv'
    BY <1>11, <1>12 DEF Answer, CacheAnswer, Expire, stores
  <1>13. CASE UNCHANGED vars
    BY <1>11, <1>13 DEF vars
  <1> QED
    BY <1>5, <1>6, <1>7, <1>8, <1>9, <1>10, <1>12, <1>13 DEF Next

LEMMA InitCurrent == Init => CurrentInv
  <1> SUFFICES ASSUME Init PROVE CurrentInv
    OBVIOUS
  <1>1. StoresCurrent /\ AwaitingCurrent
    BY DEF Init, StoresCurrent, AwaitingCurrent, Absent
  <1>2. \A r \in Runs : CurrentRun(run[r])
    BY IdleCurrent DEF Init
  <1> QED
    BY <1>1, <1>2, InitInv DEF CurrentInv

\* Whatever crashes and fails on the way, a document the next run would skip has
\* no chunk of another version in either store, nor on its way into one: what an
\* edit left behind is purged before the row that marks it is written again.  A
\* source is supposed to keep still until what it held has been indexed.
THEOREM SkipIsCurrent ==
  ASSUME Alone, Clean
  PROVE  Spec => []SkippedIsCurrent
  <1>1. CurrentInv /\ [Next]_vars => CurrentInv'
    BY NextCurrent
  <1>2. CurrentInv => SkippedIsCurrent
    <2> SUFFICES ASSUME CurrentInv, NEW d \in Docs, Skipped(d),
                        NEW c \in Of(points \cup accepted \cup chunkRows, {d})
                 PROVE  c[2] = source[d]
      BY DEF SkippedIsCurrent
    <2>1. source[d] \in Versions /\ row[d] = source[d]
      BY DEF Skipped, Prior, CurrentInv, IInv, TypeOK, Absent, Versions
    <2>2. c \in points \cup accepted \cup chunkRows /\ c[1] = d
      BY DEF Of
    <2> QED
      BY <2>1, <2>2 DEF CurrentInv, StoresCurrent, Indexed
  <1> QED
    BY <1>1, <1>2, InitCurrent, PTL DEF Spec

-----------------------------------------------------------------------------
(* No cached answer is older than what would be skipped.                   *)

\* Every purge goes through: a run that ends between the rows and the answers
\* leaves a document that is new to the next one, which purges nothing.
NoFaults == MaxFaults = 0

\* Between the purge of its vectors and that of its answers.
BeingPurged(d) ==
    \E r \in Runs : run[r].pc \in {"purgeRows", "invalidate"} /\ d \in Stale(run[r])

AnswerInv ==
    /\ CurrentInv /\ standing \subseteq DocVersions
    /\ \A dv \in standing : dv[2] = Indexed(dv[1]) \/ BeingPurged(dv[1])

\* What an invalidation is asked for no longer stands, whether it is to leave
\* the cache, was missed, or was not reached.
LEMMA InvalidateStanding ==
  ASSUME NEW r \in Runs, Invalidate(r)
  PROVE  \A dv \in standing' : dv \in standing /\ dv[1] \notin Stale(run[r])
  <1>1. cached' = cached /\ answering' = answering
    BY DEF Invalidate
  <1>2. CASE /\ leaving' = leaving \cup Of(cached, Stale(run[r]))
             /\ missed' = (missed \ Of(missed, Stale(run[r])))
                             \cup Of(answering, Stale(run[r]))
    BY <1>1, <1>2 DEF standing, Of
  <1>3. CASE /\ missed' = missed \cup Of(cached \cup answering, Stale(run[r]))
             /\ leaving' = leaving
    BY <1>1, <1>3 DEF standing, Of
  <1> QED
    BY <1>2, <1>3 DEF Invalidate

\* Caching an answer, or taking one from the cache, adds none to those that stand.
LEMMA CacheStanding ==
  ASSUME NEW dv, CacheAnswer(dv) \/ Expire(dv)
  PROVE  standing' \subseteq standing
  <1>1. CASE CacheAnswer(dv)
    BY <1>1 DEF CacheAnswer, Cache, standing
  <1>2. CASE Expire(dv)
    BY <1>2 DEF Expire, standing
  <1> QED
    BY <1>1, <1>2

LEMMA AnswerStanding ==
  ASSUME NEW dv, Answer(dv)
  PROVE  standing' \subseteq standing \cup {dv}
  BY DEF Answer, Cache, standing

\* Outside of a purge, what keeps the versions keeps the answers current.
LEMMA AnswersKept ==
  ASSUME AnswerInv, CurrentInv', \A d \in Docs : ~BeingPurged(d),
         standing' \subseteq standing,
         \A d \in Docs : Indexed(d)' = Indexed(d)
  PROVE  AnswerInv'
  <1>1. \A dv \in standing : dv[1] \in Docs
    BY DEF AnswerInv, DocVersions
  <1>2. \A dv \in standing' : dv[2] = Indexed(dv[1])'
    BY <1>1 DEF AnswerInv
  <1> QED
    BY <1>2 DEF AnswerInv

\* A document whose row goes is being purged; the answers of the others are
\* those of their versions still.
LEMMA PurgeRowsAnswers ==
  ASSUME AnswerInv, CurrentInv', NEW r \in Runs, PurgeRows(r),
         \A s \in Runs : s = r
  PROVE  AnswerInv'
  <1> DEFINE p == run[r]
             q == run'[r]
  <1>1. CurrentInv /\ TypeOK /\ p.pc = "purgeRows" /\ RunInv(p)
    BY DEF AnswerInv, CurrentInv, IInv, PurgeRows, At
  <1>2. PICK d \in p.purging :
          /\ row' = [row EXCEPT ![d] = Absent]
          /\ run' = [run EXCEPT ![r].purging = @ \ {d},
                                ![r].pc = IF run[r].purging = {d} THEN "invalidate" ELSE @]
    BY DEF PurgeRows
  <1>3. UNCHANGED <<source, standing>>
    BY DEF PurgeRows, answers, standing
  <1>4. q.pc \in {"purgeRows", "invalidate"} /\ q.ready = p.ready /\ q.changed = p.changed
    BY <1>1, <1>2 DEF TypeOK, RunStates
  <1> HIDE DEF p, q
  <1>5. Stale(q) = Stale(p)
    BY <1>4 DEF Stale
  <1>6. d \in Stale(p)
    BY <1>1, <1>2 DEF RunInv, Emptied
  <1>7. \A e \in Docs : e # d => Indexed(e)' = Indexed(e)
    BY <1>1, <1>2, <1>3 DEF TypeOK, Indexed
  <1>8. \A e : BeingPurged(e) \/ e = d => BeingPurged(e)'
    <2>1. \A e : BeingPurged(e) \/ e = d => e \in Stale(p)
      BY <1>6 DEF BeingPurged, p
    <2>2. \A e \in Stale(q) : BeingPurged(e)'
      BY <1>4 DEF BeingPurged, q, Stale
    <2> QED
      BY <1>5, <2>1, <2>2
  <1>9. ASSUME NEW dv \in standing PROVE dv[2] = Indexed(dv[1])' \/ BeingPurged(dv[1])'
    <2>1. dv[1] \in Docs /\ (dv[2] = Indexed(dv[1]) \/ BeingPurged(dv[1]))
      BY DEF AnswerInv, DocVersions
    <2> QED
      BY <1>7, <1>8, <2>1
  <1> QED
    BY <1>3, <1>9 DEF AnswerInv

\* The answers of what was purged go last.
LEMMA InvalidateAnswers ==
  ASSUME AnswerInv, CurrentInv', NEW r \in Runs, Invalidate(r),
         \A s \in Runs : s = r
  PROVE  AnswerInv'
  <1>1. UNCHANGED <<source, row>>
    BY DEF Invalidate, stores
  <1>2. \A d : BeingPurged(d) => d \in Stale(run[r])
    BY DEF BeingPurged
  <1>3. \A dv \in standing' : dv[2] = Indexed(dv[1])'
    BY <1>1, <1>2, InvalidateStanding DEF AnswerInv, Indexed
  <1> QED
    BY <1>1, <1>3, InvalidateStanding DEF AnswerInv

\* A question is answered from points, which are current.
LEMMA AnswerAnswers ==
  ASSUME AnswerInv, CurrentInv', NEW dv \in DocVersions, Answer(dv)
  PROVE  AnswerInv'
  <1>1. /\ standing' \subseteq standing \cup {dv} /\ UNCHANGED <<source, row, run>>
        /\ LeavesOf({dv}) \cap points # {}
    BY AnswerStanding DEF Answer, stores
  <1>2. PICK c \in LeavesOf({dv}) : c \in points
    BY <1>1
  <1>3. c[1] = dv[1] /\ c[2] = dv[2]
    BY <1>2 DEF LeavesOf, DocVersions
  <1>4. dv[2] = Indexed(dv[1])
    BY <1>2, <1>3 DEF AnswerInv, CurrentInv, StoresCurrent
  <1>5. \A d : Indexed(d)' = Indexed(d) /\ (BeingPurged(d) => BeingPurged(d)')
    BY <1>1 DEF Indexed, BeingPurged, Stale
  <1> QED
    BY <1>1, <1>4, <1>5 DEF AnswerInv

LEMMA NextAnswers ==
  ASSUME Alone, Clean, NoFaults, AnswerInv, [Next]_vars
  PROVE  AnswerInv'
  <1>1. CurrentInv /\ CurrentInv' /\ TypeOK
    BY NextCurrent DEF AnswerInv, CurrentInv, IInv
  <1>2. ASSUME NEW r \in Runs, run[r].pc \notin {"purgeRows", "invalidate"}
        PROVE  \A d : ~BeingPurged(d)
    BY <1>2 DEF Alone, BeingPurged
  <1>3. ASSUME NEW r \in Runs PROVE \A s \in Runs : s = r
    BY DEF Alone
  <1>4. ASSUME UNCHANGED <<source, row>> PROVE \A d \in Docs : Indexed(d)' = Indexed(d)
    BY <1>4 DEF Indexed
  <1>5. ASSUME NEW r \in Runs, Step(r) PROVE AnswerInv'
    <2>1. CASE PurgeRows(r)
      BY <1>1, <1>3, <2>1, PurgeRowsAnswers
    <2>2. CASE Invalidate(r)
      BY <1>1, <1>3, <2>2, InvalidateAnswers
    <2>3. CASE WriteDocuments(r)
      <3>1. UNCHANGED standing /\ run[r].pc = "documents"
        BY <2>3 DEF WriteDocuments, answers, standing, At
      <3> QED
        BY <1>1, <1>2, <2>3, <3>1, WriteDocumentsIndexed, AnswersKept
    <2>4. CASE Stamp(r)
      <3>1. UNCHANGED standing /\ run[r].pc = "stamp"
        BY <2>4 DEF Stamp, answers, standing, At
      <3> QED
        BY <1>1, <1>2, <2>4, <3>1, StampIndexed, AnswersKept
    <2>5. ASSUME ~PurgeRows(r), ~Invalidate(r), ~WriteDocuments(r), ~Stamp(r)
          PROVE  /\ UNCHANGED <<source, row, standing>>
                 /\ run[r].pc \notin {"purgeRows", "invalidate"}
      BY <1>5, <2>5 DEF Step, Load, Exhaust, SelectChanged, Process, PurgeVectors,
         NextBatch, NextGroup, SendVectors, SendRows, FlushDeferred, Refused, Flush,
         Count, BatchDone, At, stores, answers, standing
    <2>6. ASSUME ~PurgeRows(r), ~Invalidate(r), ~WriteDocuments(r), ~Stamp(r)
          PROVE  AnswerInv'
      BY <1>1, <1>2, <1>4, <2>5, <2>6, AnswersKept
    <2> QED
      BY <2>1, <2>2, <2>3, <2>4, <2>6
  <1>6. ASSUME NEW r \in Runs, NEW f \in BOOLEAN, Start(r, f) PROVE AnswerInv'
    <2>1. UNCHANGED <<source, row, standing>> /\ run[r].pc = "idle"
      BY <1>6 DEF Start, Active, stores, answers, standing
    <2> QED
      BY <1>1, <1>2, <1>4, <2>1, AnswersKept
  <1>7. ~Crash /\ \A r \in Runs : ~Fail(r)
    BY <1>1 DEF NoFaults, Crash, Fail, TypeOK
  <1>8. ASSUME UNCHANGED <<source, row, run>>, standing' \subseteq standing
        PROVE  AnswerInv'
    <2>1. \A d : Indexed(d)' = Indexed(d) /\ (BeingPurged(d) => BeingPurged(d)')
      BY <1>8 DEF Indexed, BeingPurged, Stale
    <2> QED
      BY <1>1, <1>8, <2>1 DEF AnswerInv
  <1>9. CASE Apply
    BY <1>8, <1>9 DEF Apply, answers, standing
  <1>10. ASSUME NEW d \in Docs, Edit(d) PROVE AnswerInv'
    <2>1. PICK r \in Runs : TRUE
      BY DEF Alone
    <2>2. /\ run[r].pc = "idle" /\ row[d] = source[d]
          /\ source' = [source EXCEPT ![d] = @ + 1] /\ UNCHANGED <<row, standing>>
      BY <1>10 DEF Edit, Clean, Active, stores, answers, standing
    <2>3. \A e \in Docs : Indexed(e)' = Indexed(e)
      BY <1>1, <2>2 DEF TypeOK, Indexed
    <2> QED
      BY <1>1, <1>2, <2>2, <2>3, AnswersKept
  <1>11. ASSUME NEW dv \in DocVersions, Answer(dv) PROVE AnswerInv'
    BY <1>1, <1>11, AnswerAnswers
  <1>12. ASSUME NEW dv \in DocVersions, CacheAnswer(dv) \/ Expire(dv) PROVE AnswerInv'
    BY <1>8, <1>12, CacheStanding DEF CacheAnswer, Expire, stores
  <1>13. CASE UNCHANGED vars
    BY <1>8, <1>13 DEF vars, standing
  <1> QED
    BY <1>5, <1>6, <1>7, <1>9, <1>10, <1>11, <1>12, <1>13 DEF Next

\* Once a document is indexed at its current version, an answer of another
\* version is served only until the cache applies the delete it has accepted, or
\* because it was cached after that or not reached: no point of the old one is
\* left when its answers are invalidated, so none of them is computed anew.
THEOREM AnswersStayCurrent ==
  ASSUME Alone, Clean, NoFaults
  PROVE  Spec => []AnswersAreCurrent
  <1>1. Init => AnswerInv
    BY InitCurrent DEF Init, AnswerInv, standing
  <1>2. AnswerInv /\ [Next]_vars => AnswerInv'
    BY NextAnswers
  <1>3. AnswerInv => AnswersAreCurrent
    <2> SUFFICES ASSUME AnswerInv, NEW d \in Docs, Skipped(d),
                        NEW dv \in standing, dv[1] = d
                 PROVE  dv[2] = source[d]
      BY DEF AnswersAreCurrent
    <2>1. row[d] \in Versions /\ row[d] = source[d]
      BY DEF Skipped, Prior, AnswerInv, CurrentInv, IInv, TypeOK, Absent, Versions
    <2>2. ~BeingPurged(d)
      <3> SUFFICES ASSUME NEW r \in Runs, d \in Stale(run[r]),
                          run[r].pc \in {"purgeRows", "invalidate"}
                   PROVE  FALSE
        BY DEF BeingPurged
      <3>1. Newer(run[r]) /\ Sourced(run[r])
        BY DEF AnswerInv, CurrentInv, CurrentRun, IInv, RunInv
      <3>2. PICK x \in run[r].ready : x[1] = d
        BY DEF Stale, DocsOf
      <3>3. x[2] = source[d]
        BY <3>1, <3>2 DEF Sourced
      <3>4. x \notin run[r].landed
        BY <3>2 DEF AnswerInv, CurrentInv, IInv, RunInv, OneStage
      <3>5. row[d] < source[d]
        BY <2>1, <3>1, <3>2, <3>3, <3>4 DEF Newer
      <3> QED
        BY <2>1, <3>5 DEF Versions
    <2> QED
      BY <2>1, <2>2 DEF AnswerInv, Indexed
  <1> QED
    BY <1>1, <1>2, <1>3, PTL DEF Spec

-----------------------------------------------------------------------------
(* A document is replaced as a whole, by forced runs and by runs over sources *)
(* that are edited while they work.  Each document is at one stage: nothing is *)
(* there, or it is stamped, or it has landed, or it waits for the read-back.   *)

\* One run at a time, forced or not, over sources that are edited at any moment;
\* nothing fails, and the read-back waits.
Unfailing == /\ \E r : Runs = {r}
             /\ "unflushed" \notin Allowed /\ NoFaults

\* All there is of d is of version v.
AllOf(d, v) ==
    /\ \A c \in points \cup accepted \cup chunkRows : c[1] = d => c[2] = v
    /\ \A dv \in standing : dv[1] = d => dv[2] = v

Retrievable(d) == \E c \in points \cup accepted : c[1] = d

\* Between the purge of its vectors and that of its row, or of its answers.
RowPurged(q, d) == q.pc = "purgeRows" /\ d \in q.purging
AnswersPurged(q, d) == q.pc \in {"purgeRows", "invalidate"} /\ d \in Stale(q)

\* Of a document without a row there is nothing, but answers that will go.
Missing(q, d) ==
    /\ row[d] = Absent /\ awaiting[d] = Absent /\ d \notin DocsOf(q.landed)
    /\ ~Retrievable(d) /\ \A c \in chunkRows : c[1] # d
    /\ \A dv \in standing : dv[1] = d => AnswersPurged(q, d)

\* A stamped document is whole, or purged by the run that will write it again.
Stamped(q, d) ==
    /\ row[d] \in Versions /\ awaiting[d] = Absent /\ d \notin DocsOf(q.landed)
    /\ AllOf(d, row[d])
    /\ IF RowPurged(q, d) THEN ~Retrievable(d)
       ELSE LET dv == {<<d, row[d]>>}
            IN LeavesOf(dv) \subseteq points /\ LeavesOf(dv) \cup ParentsOf(dv) \subseteq chunkRows
    /\ q.pc # "select" /\ d \in DocsOf(q.todo \cup q.ready) => d \in q.changed
    /\ q.pc = "purgeRows" /\ d \in Stale(q) => d \in q.purging
    /\ q.pc \in {"invalidate", "documents"} => d \notin DocsOf(q.ready)

\* A document that has landed has its chunks written or about to be.
Landed(q, d) ==
    /\ row[d] = Unstamped /\ awaiting[d] = Absent
    /\ \E x \in q.landed :
         /\ x[1] = d /\ AllOf(d, x[2])
         /\ LeavesOf({x}) \subseteq q.pending \cup q.toVectors \cup points \cup accepted
         /\ LeavesOf({x}) \subseteq q.pending \cup q.toRows \cup chunkRows
         /\ ParentsOf({x}) \subseteq q.deferred \cup chunkRows

\* One that waits for the read-back has them all accepted.
Waiting(q, d) ==
    /\ row[d] = Unstamped /\ awaiting[d] \in Versions
    /\ d \notin q.left \cup DocsOf(q.todo \cup q.ready \cup q.landed)
    /\ AllOf(d, awaiting[d])
    /\ LET dv == {<<d, awaiting[d]>>}
       IN /\ LeavesOf(dv) \subseteq points \cup accepted
          /\ LeavesOf(dv) \cup ParentsOf(dv) \subseteq chunkRows

\* Which of these a document is.
Staged(q) ==
    \A d \in Docs : Missing(q, d) \/ Stamped(q, d) \/ Landed(q, d) \/ Waiting(q, d)

\* What the run holds, and where.
Holding(q) ==
    /\ OneStage(q) /\ q.left \cap DocsOf(q.todo \cup q.ready \cup q.landed) = {}
    /\ q.pc \in {"idle", "load", "select", "flush", "count", "stamp"} =>
         /\ q.ready = {} /\ q.landed = {} /\ q.pending = {} /\ q.deferred = {}
    /\ q.pc \in {"idle", "load", "flush", "count", "stamp"} => q.todo = {}
    /\ q.pc \in {"process", "write"} => q.ready = {}
    /\ q.pc # "write" => q.toVectors = {} /\ q.toRows = {}
    /\ q.pc = "purgeRows" => q.purging \subseteq Stale(q)
    /\ q.pending \cup q.toVectors \cup q.toRows \subseteq LeavesOf(q.landed)
    /\ q.deferred \subseteq ParentsOf(q.ready \cup q.landed)
    /\ ParentsOf(q.ready) \subseteq q.deferred
    /\ q.pc = "idle" => \A d \in Docs : awaiting[d] = Absent
    /\ Settled(q)

StagedInv == TypeOK /\ \A r \in Runs : Holding(run[r]) /\ Staged(run[r])

\* The row tells the stages apart.
LEMMA ByRow ==
  ASSUME NEW p, Staged(p), NEW d \in Docs
  PROVE  /\ row[d] \in Versions => Stamped(p, d)
         /\ row[d] = Absent => Missing(p, d)
         /\ row[d] = Unstamped => Landed(p, d) \/ Waiting(p, d)
         /\ row[d] \in Versions \cup {Absent, Unstamped}
  <1>1. Absent \notin Versions /\ Unstamped \notin Versions /\ Absent # Unstamped
    BY IngestAssumption DEF Absent, Unstamped, Versions
  <1>2. Missing(p, d) => row[d] = Absent
    BY DEF Missing
  <1>3. Stamped(p, d) => row[d] \in Versions
    BY DEF Stamped
  <1>4. Landed(p, d) \/ Waiting(p, d) => row[d] = Unstamped
    BY DEF Landed, Waiting
  <1> QED
    BY <1>1, <1>2, <1>3, <1>4 DEF Staged

\* A document with a checksum that is to be written will be purged.
LEMMA WillPurge ==
  ASSUME NEW p, Staged(p), p.pc # "select", NEW d \in Docs, row[d] \in Versions,
         d \in DocsOf(p.todo \cup p.ready)
  PROVE  d \in p.changed
  BY ByRow DEF Stamped

\* The stages and the shape of the run are of its own state and of the stores.
LEMMA AsPrimed ==
  ASSUME NEW r \in Runs, Holding(run'[r]), Staged(run'[r]),
         UNCHANGED <<row, chunkRows, points, accepted, awaiting, standing>>
  PROVE  (Holding(run[r]) /\ Staged(run[r]))'
  <1> DEFINE q == run'[r]
  <1>1. Holding(run[r])'
    <2>1. OneStage(run[r])' /\ Settled(run[r])'
      BY DEF Holding, OneStage, Settled
    <2> QED
      BY <2>1 DEF Holding, Stale
  <1>2. ASSUME NEW d \in Docs
        PROVE  (Missing(run[r], d) \/ Stamped(run[r], d) \/ Landed(run[r], d)
                \/ Waiting(run[r], d))'
    <2>1. CASE Missing(q, d)
      BY <2>1 DEF Missing, Retrievable, AnswersPurged, Stale
    <2>2. CASE Stamped(q, d)
      BY <2>2 DEF Stamped, AllOf, Retrievable, RowPurged, Stale
    <2>3. CASE Landed(q, d)
      BY <2>3 DEF Landed, AllOf
    <2>4. CASE Waiting(q, d)
      BY <2>4 DEF Waiting, AllOf
    <2> QED
      BY <2>1, <2>2, <2>3, <2>4 DEF Staged
  <1> QED
    BY <1>1, <1>2 DEF Staged

\* Away from the purge, a run that moves on keeps every document in its stage,
\* if it lets go of nothing and will purge what it is to write again.
LEMMA StagesKept ==
  ASSUME NEW p, NEW q, Staged(p), q.landed = p.landed,
         p.pc \notin {"purgeRows", "invalidate"}, q.pc \notin {"purgeRows", "invalidate"},
         p.pending \cup p.toVectors \subseteq q.pending \cup q.toVectors,
         p.pending \cup p.toRows \subseteq q.pending \cup q.toRows,
         p.deferred \subseteq q.deferred,
         q.left \cup DocsOf(q.todo \cup q.ready \cup q.landed)
           \subseteq p.left \cup DocsOf(p.todo \cup p.ready \cup p.landed),
         \A d \in Docs : row[d] \in Versions =>
           /\ q.pc # "select" /\ d \in DocsOf(q.todo \cup q.ready) => d \in q.changed
           /\ q.pc = "documents" => d \notin DocsOf(q.ready)
  PROVE  Staged(q)
  <1> SUFFICES ASSUME NEW d \in Docs
               PROVE  Missing(q, d) \/ Stamped(q, d) \/ Landed(q, d) \/ Waiting(q, d)
    BY DEF Staged
  <1>1. CASE Missing(p, d)
    BY <1>1 DEF Missing, AnswersPurged
  <1>2. CASE Stamped(p, d)
    BY <1>2 DEF Stamped, RowPurged
  <1>3. CASE Landed(p, d)
    BY <1>3 DEF Landed
  <1>4. CASE Waiting(p, d)
    BY <1>4 DEF Waiting
  <1> QED
    BY <1>1, <1>2, <1>3, <1>4 DEF Staged

\* What holds of the run of a reachable state.
LEMMA OfRun ==
  ASSUME StagedInv, NEW r \in Runs
  PROVE  /\ run[r] \in RunStates /\ Holding(run[r]) /\ Staged(run[r])
         /\ TypeOK /\ run \in [Runs -> RunStates]
  BY DEF StagedInv, TypeOK

\* A run that starts finds nothing waiting.
LEMMA StartStaged ==
  ASSUME StagedInv, NEW r \in Runs, NEW f \in BOOLEAN, Start(r, f)
  PROVE  (Holding(run[r]) /\ Staged(run[r]))'
  <1> DEFINE p == run[r]
  <1> DEFINE q == run'[r]
  <1>1. p \in RunStates /\ Holding(p) /\ Staged(p) /\ run \in [Runs -> RunStates]
    BY OfRun
  <1>2. /\ p.pc = "idle" /\ q.pc = "load" /\ q.left = Target[r] /\ q.todo = p.todo
        /\ q.ready = p.ready /\ q.landed = p.landed /\ q.pending = p.pending
        /\ q.deferred = p.deferred /\ q.toVectors = p.toVectors /\ q.toRows = p.toRows
    BY <1>1 DEF Start, Active, RunStates
  <1>3. UNCHANGED <<row, chunkRows, points, accepted, awaiting, standing>>
    BY DEF Start, stores, answers, standing
  <1> HIDE DEF p, q
  <1>4. /\ p.todo = {} /\ p.ready = {} /\ p.landed = {}
        /\ \A d \in Docs : awaiting[d] = Absent
    BY <1>1, <1>2 DEF Holding
  <1>5. Holding(q)
    BY <1>1, <1>2, <1>4 DEF Holding, OneStage, Settled, DocsOf
  <1>6. Staged(q)
    <2> SUFFICES ASSUME NEW d \in Docs
                 PROVE  Missing(q, d) \/ Stamped(q, d) \/ Landed(q, d) \/ Waiting(q, d)
      BY DEF Staged
    <2>1. CASE Missing(p, d)
      BY <1>2, <2>1 DEF Missing, AnswersPurged
    <2>2. CASE Stamped(p, d)
      BY <1>2, <1>4, <2>2 DEF Stamped, RowPurged, DocsOf
    <2>3. ~Landed(p, d) /\ ~Waiting(p, d)
      BY <1>4, IngestAssumption DEF Landed, Waiting, Absent, Versions
    <2> QED
      BY <1>1, <2>1, <2>2, <2>3 DEF Staged
  <1> QED
    BY <1>3, <1>5, <1>6, AsPrimed DEF q

LEMMA ExhaustStaged ==
  ASSUME StagedInv, NEW r \in Runs, Exhaust(r)
  PROVE  (Holding(run[r]) /\ Staged(run[r]))'
  <1> DEFINE p == run[r]
  <1> DEFINE q == run'[r]
  <1>1. p \in RunStates /\ Holding(p) /\ Staged(p) /\ run \in [Runs -> RunStates]
    BY OfRun
  <1>2. /\ p.pc = "load" /\ q.pc = "flush" /\ q.left = p.left /\ q.todo = p.todo
        /\ q.ready = p.ready /\ q.landed = p.landed /\ q.pending = p.pending
        /\ q.deferred = p.deferred /\ q.toVectors = p.toVectors /\ q.toRows = p.toRows
    BY <1>1 DEF Exhaust, At, RunStates
  <1>3. UNCHANGED <<row, chunkRows, points, accepted, awaiting, standing>>
    BY DEF Exhaust, stores, answers, standing
  <1> HIDE DEF p, q
  <1>4. q.todo = {} /\ q.ready = {}
    BY <1>1, <1>2 DEF Holding
  <1>5. Holding(q)
    BY <1>1, <1>2 DEF Holding, OneStage, Settled
  <1>6. Staged(q)
    BY <1>1, <1>2, <1>4, StagesKept DEF DocsOf
  <1> QED
    BY <1>3, <1>5, <1>6, AsPrimed DEF q

\* A window is taken from what is left, and nothing of it waits.
LEMMA LoadStaged ==
  ASSUME StagedInv, NEW r \in Runs, Load(r)
  PROVE  (Holding(run[r]) /\ Staged(run[r]))'
  <1> DEFINE p == run[r]
  <1> DEFINE q == run'[r]
  <1>1. p \in RunStates /\ Holding(p) /\ Staged(p) /\ run \in [Runs -> RunStates]
    BY OfRun
  <1>2. PICK w \in Windows(p.left, DocWindow) :
          run' = [run EXCEPT ![r].pc = "select", ![r].left = @ \ w,
                             ![r].todo = {<<d, source[d]>> : d \in w}]
    BY DEF Load
  <1>3. /\ p.pc = "load" /\ q.pc = "select" /\ q.left = p.left \ w
        /\ q.todo = {<<d, source[d]>> : d \in w}
        /\ q.ready = p.ready /\ q.landed = p.landed /\ q.pending = p.pending
        /\ q.deferred = p.deferred /\ q.toVectors = p.toVectors /\ q.toRows = p.toRows
    BY <1>1, <1>2 DEF Load, At, RunStates
  <1>4. UNCHANGED <<row, chunkRows, points, accepted, awaiting, standing>>
    BY DEF Load, stores, answers, standing
  <1>5. w \subseteq p.left
    BY DEF Windows
  <1> HIDE DEF p, q
  <1>6. p.todo = {} /\ p.ready = {} /\ p.landed = {}
    BY <1>1, <1>3 DEF Holding
  <1>7. \A x \in q.todo : x[1] \in w /\ x[2] = source[x[1]] /\ x = <<x[1], x[2]>>
    BY <1>3
  <1>8. DocsOf(q.todo) = w
    <2>1. \A d \in w : \E x \in q.todo : x[1] = d
      <3> SUFFICES ASSUME NEW d \in w PROVE \E x \in q.todo : x[1] = d
        OBVIOUS
      <3>1. <<d, source[d]>> \in q.todo /\ <<d, source[d]>>[1] = d
        BY <1>3
      <3> QED
        BY <3>1
    <2> QED
      BY <1>7, <2>1 DEF DocsOf
  <1>9. DocsOf(q.todo \cup q.ready \cup q.landed) = w
    <2>1. q.todo \cup q.ready \cup q.landed = q.todo
      BY <1>3, <1>6
    <2> QED
      BY <1>8, <2>1
  <1>10. OneStage(q)
    BY <1>3, <1>6, <1>7 DEF OneStage
  <1>11. Holding(q)
    BY <1>1, <1>3, <1>6, <1>9, <1>10 DEF Holding, Settled
  <1>12. Staged(q)
    <2>1. q.left \cup w \subseteq p.left
      BY <1>3, <1>5
    <2> QED
      BY <1>1, <1>3, <1>9, <2>1, StagesKept
  <1> QED
    BY <1>4, <1>11, <1>12, AsPrimed DEF q

\* A document that has a checksum and is to be written will be purged.
LEMMA SelectStaged ==
  ASSUME StagedInv, NEW r \in Runs, SelectChanged(r)
  PROVE  (Holding(run[r]) /\ Staged(run[r]))'
  <1> DEFINE p == run[r]
  <1> DEFINE q == run'[r]
  <1> DEFINE todo == IF p.force THEN p.todo ELSE {dv \in p.todo : Prior(dv[1]) # dv[2]}
  <1> DEFINE changed == IF p.force THEN todo ELSE {dv \in todo : Prior(dv[1]) # Absent}
  <1>1. p \in RunStates /\ Holding(p) /\ Staged(p) /\ run \in [Runs -> RunStates]
        /\ p.pc = "select"
    BY OfRun DEF SelectChanged
  <1>2. run' = [run EXCEPT ![r].pc = IF todo = {} THEN "load" ELSE "process",
                           ![r].todo = todo, ![r].changed = DocsOf(changed)]
    BY DEF SelectChanged
  <1>3. UNCHANGED <<row, chunkRows, points, accepted, awaiting, standing>>
    BY DEF SelectChanged, stores, answers, standing
  <1>4. todo \subseteq p.todo /\ p.todo \in SUBSET DocVersions
    BY <1>1, RunFields
  <1>5. \A d \in Docs : row[d] \in Versions /\ d \in DocsOf(todo) => d \in DocsOf(changed)
    <2>1. CASE p.force
      BY <2>1
    <2>2. CASE ~p.force
      <3> SUFFICES ASSUME NEW x \in todo, x[1] \in Docs, row[x[1]] \in Versions
                   PROVE  x \in changed
        BY DEF DocsOf
      <3>1. Stamped(p, x[1])
        BY <1>1, ByRow
      <3>2. LeavesOf({<<x[1], row[x[1]]>>}) \subseteq chunkRows
        BY <1>1, <3>1 DEF Stamped, RowPurged
      <3>3. <<x[1], row[x[1]]>> \in DocVersions
        BY DEF DocVersions
      <3>4. \E c \in chunkRows : c[1] = x[1]
        BY <3>2, <3>3, PartsOf
      <3>5. Prior(x[1]) # Absent
        BY <3>4 DEF Prior, Absent, Versions
      <3> QED
        BY <2>2, <3>5
    <2> QED
      BY <2>1, <2>2
  <1>6. todo = {} => DocsOf(todo) = {}
    BY DEF DocsOf
  <1> HIDE DEF todo, changed
  <1>7. /\ q.pc = (IF todo = {} THEN "load" ELSE "process")
        /\ q.todo = todo /\ q.changed = DocsOf(changed) /\ q.left = p.left
        /\ q.ready = p.ready /\ q.landed = p.landed /\ q.pending = p.pending
        /\ q.deferred = p.deferred /\ q.toVectors = p.toVectors /\ q.toRows = p.toRows
    BY <1>1, <1>2 DEF RunStates
  <1> HIDE DEF p, q
  <1>8. p.ready = {} /\ p.landed = {}
    BY <1>1 DEF Holding
  <1>9. DocsOf(q.todo \cup q.ready \cup q.landed) \subseteq DocsOf(p.todo \cup p.ready \cup p.landed)
    BY <1>4, <1>7 DEF DocsOf
  <1>10. Holding(q)
    <2>1. OneStage(q)
      BY <1>1, <1>4, <1>7, <1>8 DEF Holding, OneStage
    <2> QED
      BY <1>1, <1>4, <1>7, <1>8, <1>9, <2>1 DEF Holding, Settled
  <1>11. Staged(q)
    <2>1. q.todo \cup q.ready = todo
      BY <1>7, <1>8
    <2> QED
      BY <1>1, <1>5, <1>7, <1>9, <2>1, StagesKept
  <1> QED
    BY <1>3, <1>10, <1>11, AsPrimed DEF q

\* Nothing fails: a group is processed whole.
LEMMA ProcessStaged ==
  ASSUME Unfailing, StagedInv, NEW r \in Runs, Process(r)
  PROVE  (Holding(run[r]) /\ Staged(run[r]))'
  <1> DEFINE p == run[r]
  <1> DEFINE q == run'[r]
  <1>1. p \in RunStates /\ Holding(p) /\ Staged(p) /\ run \in [Runs -> RunStates]
        /\ p.pc = "process" /\ p.todo \in SUBSET DocVersions
    BY OfRun, RunFields DEF Process, At
  <1>2. PICK group \in Windows(p.todo, Window) : \E ready \in SUBSET group :
            run' = [run EXCEPT
                 ![r].pc = IF ready # {}
                           THEN IF DocsOf(ready) \cap p.changed # {} THEN "purgeVectors"
                                ELSE "documents"
                           ELSE IF p.todo \ group # {} THEN "process" ELSE "write",
                 ![r].todo = p.todo \ group, ![r].ready = ready,
                 ![r].deferred = @ \cup ParentsOf(ready)]
    BY DEF Process
  <1>a. PICK ready \in SUBSET group :
            run' = [run EXCEPT
                 ![r].pc = IF ready # {}
                           THEN IF DocsOf(ready) \cap p.changed # {} THEN "purgeVectors"
                                ELSE "documents"
                           ELSE IF p.todo \ group # {} THEN "process" ELSE "write",
                 ![r].todo = p.todo \ group, ![r].ready = ready,
                 ![r].deferred = @ \cup ParentsOf(ready)]
    BY <1>2
  <1>3. UNCHANGED <<row, chunkRows, points, accepted, awaiting, standing>>
    BY DEF Process, stores, answers, standing
  <1>4. group \subseteq p.todo /\ ready \subseteq p.todo /\ ready \subseteq group
    BY DEF Windows
  <1>5. /\ q.pc \in {"purgeVectors", "documents", "process", "write"}
        /\ q.pc \in {"process", "write"} => ready = {}
        /\ q.pc = "documents" => DocsOf(ready) \cap p.changed = {}
        /\ q.todo = p.todo \ group /\ q.ready = ready /\ q.changed = p.changed
        /\ q.left = p.left /\ q.landed = p.landed /\ q.pending = p.pending
        /\ q.deferred = p.deferred \cup ParentsOf(ready)
        /\ q.toVectors = p.toVectors /\ q.toRows = p.toRows
    BY <1>1, <1>a DEF RunStates
  <1> HIDE DEF p, q
  <1>6. p.ready = {}
    BY <1>1 DEF Holding
  <1>7. DocsOf(q.todo \cup q.ready \cup q.landed) \subseteq DocsOf(p.todo \cup p.ready \cup p.landed)
        /\ DocsOf(q.todo \cup q.ready) \subseteq DocsOf(p.todo \cup p.ready)
        /\ DocsOf(q.ready) \subseteq DocsOf(p.todo \cup p.ready)
    BY <1>4, <1>5 DEF DocsOf
  <1>8. Holding(q)
    <2>1. OneStage(q)
      BY <1>1, <1>4, <1>5, <1>6 DEF Holding, OneStage
    <2>2. q.deferred \subseteq ParentsOf(q.ready \cup q.landed)
      <3>1. p.deferred \subseteq ParentsOf(p.landed)
        <4>1. p.ready \cup p.landed = p.landed
          BY <1>6
        <4> QED
          BY <1>1, <4>1 DEF Holding
      <3> QED
        BY <1>5, <3>1 DEF ParentsOf
    <2> QED
      BY <1>1, <1>5, <1>6, <1>7, <2>1, <2>2 DEF Holding, Settled
  <1>9. \A d \in Docs : row[d] \in Versions /\ d \in DocsOf(p.todo \cup p.ready) => d \in p.changed
    BY <1>1, WillPurge
  <1>10. Staged(q)
    BY <1>1, <1>5, <1>7, <1>9, StagesKept
  <1> QED
    BY <1>3, <1>8, <1>10, AsPrimed DEF q

LEMMA NextBatchStaged ==
  ASSUME StagedInv, NEW r \in Runs, NextBatch(r)
  PROVE  (Holding(run[r]) /\ Staged(run[r]))'
  <1> DEFINE p == run[r]
  <1> DEFINE q == run'[r]
  <1>1. p \in RunStates /\ Holding(p) /\ Staged(p) /\ run \in [Runs -> RunStates]
        /\ p.pc = "write" /\ p.toVectors = {} /\ p.toRows = {}
    BY OfRun DEF NextBatch, BatchDone, At
  <1>2. PICK b \in Windows(p.pending, Batch) :
          run' = [run EXCEPT ![r].pending = @ \ b, ![r].toVectors = b, ![r].toRows = b]
    BY DEF NextBatch
  <1>3. UNCHANGED <<row, chunkRows, points, accepted, awaiting, standing>>
    BY DEF NextBatch, stores, answers, standing
  <1>4. b \subseteq p.pending
    BY DEF Windows
  <1>5. /\ q.pc = p.pc /\ q.left = p.left /\ q.todo = p.todo /\ q.changed = p.changed
        /\ q.ready = p.ready /\ q.landed = p.landed /\ q.pending = p.pending \ b
        /\ q.deferred = p.deferred /\ q.toVectors = b /\ q.toRows = b
    BY <1>1, <1>2 DEF RunStates
  <1> HIDE DEF p, q
  <1>6. Holding(q)
    BY <1>1, <1>4, <1>5 DEF Holding, OneStage, Settled
  <1>7. \A d \in Docs : row[d] \in Versions /\ d \in DocsOf(p.todo \cup p.ready) => d \in p.changed
    BY <1>1, WillPurge
  <1>8. Staged(q)
    BY <1>1, <1>4, <1>5, <1>7, StagesKept
  <1> QED
    BY <1>3, <1>6, <1>8, AsPrimed DEF q

LEMMA NextGroupStaged ==
  ASSUME StagedInv, NEW r \in Runs, NextGroup(r)
  PROVE  (Holding(run[r]) /\ Staged(run[r]))'
  <1> DEFINE p == run[r]
  <1> DEFINE q == run'[r]
  <1>1. p \in RunStates /\ Holding(p) /\ Staged(p) /\ run \in [Runs -> RunStates]
        /\ p.pc = "write" /\ p.toVectors = {} /\ p.toRows = {}
    BY OfRun DEF NextGroup, BatchDone, At
  <1>2. /\ q.pc = "process" /\ q.left = p.left /\ q.todo = p.todo /\ q.changed = p.changed
        /\ q.ready = p.ready /\ q.landed = p.landed /\ q.pending = p.pending
        /\ q.deferred = p.deferred /\ q.toVectors = {} /\ q.toRows = {}
    BY <1>1 DEF NextGroup, RunStates
  <1>3. UNCHANGED <<row, chunkRows, points, accepted, awaiting, standing>>
    BY DEF NextGroup, stores, answers, standing
  <1> HIDE DEF p, q
  <1>4. Holding(q)
    BY <1>1, <1>2 DEF Holding, OneStage, Settled
  <1>5. \A d \in Docs : row[d] \in Versions /\ d \in DocsOf(p.todo \cup p.ready) => d \in p.changed
    BY <1>1, WillPurge
  <1>6. Staged(q)
    BY <1>1, <1>2, <1>5, StagesKept
  <1> QED
    BY <1>3, <1>4, <1>6, AsPrimed DEF q

\* The read-back waits until every point has been applied.
LEMMA FlushStaged ==
  ASSUME Unfailing, StagedInv, NEW r \in Runs, Flush(r)
  PROVE  (Holding(run[r]) /\ Staged(run[r]))'
  <1> DEFINE p == run[r]
  <1> DEFINE q == run'[r]
  <1>1. p \in RunStates /\ Holding(p) /\ Staged(p) /\ run \in [Runs -> RunStates]
    BY OfRun
  <1>2. /\ p.pc = "flush" /\ q.pc = "count" /\ q.left = p.left /\ q.todo = p.todo
        /\ q.ready = p.ready /\ q.landed = p.landed /\ q.pending = p.pending
        /\ q.deferred = p.deferred /\ q.toVectors = p.toVectors /\ q.toRows = p.toRows
        /\ accepted = {}
    BY <1>1 DEF Flush, At, RunStates, Unfailing
  <1>3. UNCHANGED <<row, chunkRows, points, accepted, awaiting, standing>>
    BY DEF Flush, stores, answers, standing
  <1> HIDE DEF p, q
  <1>4. q.todo = {} /\ q.ready = {}
    BY <1>1, <1>2 DEF Holding
  <1>5. Holding(q)
    BY <1>1, <1>2 DEF Holding, OneStage, Settled
  <1>6. Staged(q)
    BY <1>1, <1>2, <1>4, StagesKept DEF DocsOf
  <1> QED
    BY <1>3, <1>5, <1>6, AsPrimed DEF q

LEMMA CountStaged ==
  ASSUME StagedInv, NEW r \in Runs, Count(r)
  PROVE  (Holding(run[r]) /\ Staged(run[r]))'
  <1> DEFINE p == run[r]
  <1> DEFINE q == run'[r]
  <1> DEFINE s == {<<d, awaiting[d]>> : d \in {e \in Docs : awaiting[e] # Absent}}
  <1>1. p \in RunStates /\ Holding(p) /\ Staged(p) /\ run \in [Runs -> RunStates]
        /\ p.pc = "count"
    BY OfRun DEF Count, At
  <1>2. q = IF s = {} THEN Idle ELSE [p EXCEPT !.pc = "stamp", !.stamping = s]
    BY <1>1 DEF Count
  <1>3. UNCHANGED <<row, chunkRows, points, accepted, awaiting, standing>>
    BY DEF Count, stores, answers, standing
  <1>4. s = {} => \A d \in Docs : awaiting[d] = Absent
    OBVIOUS
  <1> HIDE DEF p, q, s
  <1>5. p.todo = {} /\ p.ready = {} /\ p.landed = {} /\ p.pending = {} /\ p.deferred = {}
        /\ p.toVectors = {} /\ p.toRows = {}
    BY <1>1 DEF Holding
  <1>6. /\ q.pc \in {"idle", "stamp"} /\ q.todo = {} /\ q.ready = {} /\ q.landed = {}
        /\ q.pending = {} /\ q.deferred = {} /\ q.toVectors = {} /\ q.toRows = {}
        /\ q.left \subseteq p.left
        /\ q.pc = "idle" => s = {}
        /\ q.pc = "stamp" => q.stamping = s
    BY <1>1, <1>2, <1>5 DEF Idle, RunStates
  <1>7. DocsOf({}) = {} /\ LeavesOf({}) = {} /\ ParentsOf({}) = {}
    BY DEF DocsOf, LeavesOf, ParentsOf
  <1>8. Holding(q)
    BY <1>1, <1>4, <1>5, <1>6, <1>7 DEF Holding, OneStage, Settled, s
  <1>9. Staged(q)
    BY <1>1, <1>5, <1>6, <1>7, StagesKept
  <1> QED
    BY <1>3, <1>8, <1>9, AsPrimed DEF q

\* The vectors go first, of documents that have not landed.
LEMMA PurgeVectorsStaged ==
  ASSUME StagedInv, NEW r \in Runs, PurgeVectors(r)
  PROVE  (Holding(run[r]) /\ Staged(run[r]))'
  <1> DEFINE p == run[r]
  <1> DEFINE q == run'[r]
  <1> DEFINE stale == Stale(p)
  <1>1. p \in RunStates /\ Holding(p) /\ Staged(p) /\ run \in [Runs -> RunStates]
        /\ p.pc = "purgeVectors"
    BY OfRun DEF PurgeVectors, At
  <1>2. /\ points' = points \ Of(points, stale) /\ accepted' = accepted \ Of(accepted, stale)
        /\ UNCHANGED <<row, chunkRows, awaiting, standing>>
        /\ run' = [run EXCEPT ![r].pc = "purgeRows", ![r].purging = stale]
    BY DEF PurgeVectors, answers, standing
  <1> HIDE DEF stale
  <1>3. /\ q.pc = "purgeRows" /\ q.purging = stale
        /\ q.left = p.left /\ q.todo = p.todo /\ q.changed = p.changed
        /\ q.ready = p.ready /\ q.landed = p.landed /\ q.pending = p.pending
        /\ q.deferred = p.deferred /\ q.toVectors = p.toVectors /\ q.toRows = p.toRows
    BY <1>1, <1>2 DEF RunStates
  <1>4. stale = Stale(q) /\ stale \subseteq DocsOf(p.ready)
    BY <1>3 DEF stale, Stale
  <1>5. /\ \A c \in points' : c \in points /\ c[1] \notin stale
        /\ \A c \in accepted' : c \in accepted /\ c[1] \notin stale
        /\ \A c \in points : c[1] \notin stale => c \in points'
        /\ \A c \in accepted : c[1] \notin stale => c \in accepted'
    BY <1>2 DEF Of
  <1> HIDE DEF p, q
  <1>6. Holding(run[r])'
    <2>1. OneStage(q)
      BY <1>1, <1>3 DEF Holding, OneStage
    <2> QED
      BY <1>1, <1>2, <1>3, <1>4, <2>1 DEF Holding, OneStage, Settled, Stale, q
  <1>7. ASSUME NEW d \in Docs
        PROVE  (Missing(run[r], d) \/ Stamped(run[r], d) \/ Landed(run[r], d)
                \/ Waiting(run[r], d))'
    <2>1. CASE Missing(p, d)
      <3>1. Missing(run[r], d)'
        BY <1>1, <1>2, <1>3, <1>5, <2>1 DEF Missing, Retrievable, AnswersPurged, q
      <3> QED
        BY <3>1
    <2>2. CASE Stamped(p, d)
      <3>1. AllOf(d, row[d])'
        BY <1>2, <1>5, <2>2 DEF Stamped, AllOf
      <3>2. IF d \in stale THEN ~Retrievable(d)'
            ELSE LET dv == {<<d, row[d]>>}
                 IN LeavesOf(dv) \subseteq points' /\ LeavesOf(dv) \cup ParentsOf(dv) \subseteq chunkRows
        <4>1. CASE d \in stale
          BY <1>5, <4>1 DEF Retrievable
        <4>2. CASE d \notin stale
          <5>1. \A c \in LeavesOf({<<d, row[d]>>}) : c[1] = d
            BY DEF LeavesOf
          <5> QED
            BY <1>1, <1>5, <2>2, <4>2, <5>1 DEF Stamped, RowPurged
        <4> QED
          BY <4>1, <4>2
      <3>3. Stamped(run[r], d)'
        BY <1>1, <1>2, <1>3, <1>4, <2>2, <3>1, <3>2 DEF Stamped, RowPurged, q
      <3> QED
        BY <3>3
    <2>3. CASE Landed(p, d)
      <3>1. PICK x \in p.landed : x[1] = d /\ AllOf(d, x[2])
              /\ LeavesOf({x}) \subseteq p.pending \cup p.toVectors \cup points \cup accepted
              /\ LeavesOf({x}) \subseteq p.pending \cup p.toRows \cup chunkRows
              /\ ParentsOf({x}) \subseteq p.deferred \cup chunkRows
        BY <2>3 DEF Landed
      <3>2. d \notin stale
        <4>1. \A y \in p.ready : y[1] # d
          BY <1>1, <3>1 DEF Holding, OneStage
        <4> QED
          BY <1>4, <4>1 DEF DocsOf
      <3>3. AllOf(d, x[2])'
        BY <1>2, <1>5, <3>1 DEF AllOf
      <3>4. \A c \in LeavesOf({x}) : c[1] = d
        BY <3>1 DEF LeavesOf
      <3>5. LeavesOf({x}) \subseteq p.pending \cup p.toVectors \cup points' \cup accepted'
        BY <1>5, <3>1, <3>2, <3>4
      <3>6. Landed(run[r], d)'
        BY <1>2, <1>3, <2>3, <3>1, <3>3, <3>5 DEF Landed, q
      <3> QED
        BY <3>6
    <2>4. CASE Waiting(p, d)
      <3>1. d \notin stale
        BY <1>4, <2>4 DEF Waiting, DocsOf
      <3>2. AllOf(d, awaiting[d])'
        BY <1>2, <1>5, <2>4 DEF Waiting, AllOf
      <3>3. \A c \in LeavesOf({<<d, awaiting[d]>>}) : c[1] = d
        BY DEF LeavesOf
      <3>4. LeavesOf({<<d, awaiting[d]>>}) \subseteq points' \cup accepted'
        BY <1>5, <2>4, <3>1, <3>3 DEF Waiting
      <3>5. Waiting(run[r], d)'
        BY <1>2, <1>3, <2>4, <3>2, <3>4 DEF Waiting, q
      <3> QED
        BY <3>5
    <2> QED
      BY <1>1, <2>1, <2>2, <2>3, <2>4 DEF Staged
  <1> QED
    BY <1>6, <1>7 DEF Staged

\* Then its rows: what had a checksum has nothing any more.
LEMMA PurgeRowsStaged ==
  ASSUME StagedInv, NEW r \in Runs, PurgeRows(r)
  PROVE  (Holding(run[r]) /\ Staged(run[r]))'
  <1> DEFINE p == run[r]
  <1> DEFINE q == run'[r]
  <1>1. p \in RunStates /\ Holding(p) /\ Staged(p) /\ run \in [Runs -> RunStates]
        /\ p.pc = "purgeRows" /\ row \in [Docs -> 0..Unstamped]
    BY OfRun DEF PurgeRows, At, TypeOK
  <1>2. PICK e \in p.purging :
         /\ row' = [row EXCEPT ![e] = Absent]
         /\ chunkRows' = chunkRows \ Of(chunkRows, {e})
         /\ run' = [run EXCEPT
              ![r].purging = @ \ {e},
              ![r].pc = IF run[r].purging = {e} THEN "invalidate" ELSE @]
    BY DEF PurgeRows
  <1>3. UNCHANGED <<points, accepted, awaiting, standing>>
    BY DEF PurgeRows, answers, standing
  <1>4. /\ q.pc \in {"purgeRows", "invalidate"}
        /\ q.pc = "invalidate" => p.purging = {e}
        /\ q.purging = p.purging \ {e}
        /\ q.left = p.left /\ q.todo = p.todo /\ q.changed = p.changed
        /\ q.ready = p.ready /\ q.landed = p.landed /\ q.pending = p.pending
        /\ q.deferred = p.deferred /\ q.toVectors = p.toVectors /\ q.toRows = p.toRows
    BY <1>1, <1>2 DEF RunStates
  <1>5. Stale(q) = Stale(p) /\ e \in Stale(p) /\ e \in DocsOf(p.ready) /\ e \in Docs
        /\ p.purging \subseteq Stale(p)
    BY <1>1, <1>2, <1>4, RunFields DEF Stale, Holding
  <1>6. /\ \A d \in Docs \ {e} : row'[d] = row[d]
        /\ row'[e] = Absent
        /\ \A c \in chunkRows' : c \in chunkRows /\ c[1] # e
        /\ \A c \in chunkRows : c[1] # e => c \in chunkRows'
    BY <1>1, <1>2, <1>5 DEF Of
  <1> HIDE DEF p, q
  <1>7. Holding(run[r])'
    <2>1. OneStage(q)
      BY <1>1, <1>4 DEF Holding, OneStage
    <2> QED
      BY <1>1, <1>3, <1>4, <1>5, <2>1 DEF Holding, OneStage, Settled, Stale, q
  <1>8. (Missing(run[r], e))'
    <2>1. \A y \in p.landed : y[1] # e
      <3>1. PICK x \in p.ready : x[1] = e
        BY <1>5 DEF DocsOf
      <3> QED
        BY <1>1, <3>1 DEF Holding, OneStage
    <2>2. e \notin DocsOf(p.landed)
      BY <2>1 DEF DocsOf
    <2>3. Missing(p, e) \/ Stamped(p, e)
      BY <1>1, <1>5, <2>2 DEF Staged, Landed, Waiting, DocsOf
    <2>4. ~Retrievable(e) /\ awaiting[e] = Absent
      BY <1>1, <1>2, <2>3 DEF Missing, Stamped, RowPurged
    <2>5. Missing(run[r], e)'
      BY <1>3, <1>4, <1>5, <1>6, <2>2, <2>4 DEF Missing, Retrievable, AnswersPurged, q
    <2> QED
      BY <2>5
  <1>9. ASSUME NEW d \in Docs, d # e
        PROVE  (Missing(run[r], d) \/ Stamped(run[r], d) \/ Landed(run[r], d)
                \/ Waiting(run[r], d))'
    <2>1. CASE Missing(p, d)
      <3>1. Missing(run[r], d)'
        BY <1>1, <1>3, <1>4, <1>5, <1>6, <1>9, <2>1 DEF Missing, Retrievable, AnswersPurged, q
      <3> QED
        BY <3>1
    <2>2. CASE Stamped(p, d)
      <3>1. AllOf(d, row[d])' /\ row'[d] = row[d]
        BY <1>3, <1>6, <1>9, <2>2 DEF Stamped, AllOf
      <3>2. q.pc = "invalidate" => d \notin DocsOf(p.ready)
        BY <1>1, <1>4, <1>9, <2>2 DEF Stamped, Stale, DocsOf
      <3>3. \A c \in LeavesOf({<<d, row[d]>>}) \cup ParentsOf({<<d, row[d]>>}) : c[1] = d
        BY DEF LeavesOf, ParentsOf
      <3>4. RowPurged(q, d) <=> RowPurged(p, d)
        <4>1. d \in q.purging <=> d \in p.purging
          BY <1>4, <1>9
        <4>2. q.pc = "invalidate" => d \notin p.purging
          BY <1>4, <1>9
        <4> QED
          BY <1>1, <1>4, <4>1, <4>2 DEF RowPurged
      <3>5. IF RowPurged(q, d) THEN ~Retrievable(d)'
            ELSE LET dv == {<<d, row[d]>>}
                 IN LeavesOf(dv) \subseteq points' /\ LeavesOf(dv) \cup ParentsOf(dv) \subseteq chunkRows'
        BY <1>3, <1>6, <1>9, <2>2, <3>3, <3>4 DEF Stamped, Retrievable
      <3>6. Stamped(run[r], d)'
        <4>1. q.pc = "purgeRows" /\ d \in Stale(q) => d \in q.purging
          BY <1>1, <1>4, <1>5, <1>9, <2>2 DEF Stamped
        <4>2. d \in DocsOf(q.todo \cup q.ready) => d \in q.changed
          BY <1>1, <1>4, <2>2 DEF Stamped
        <4>3. row'[d] \in Versions /\ awaiting'[d] = Absent /\ d \notin DocsOf(q.landed)
          BY <1>3, <1>4, <2>2, <3>1 DEF Stamped
        <4>4. q.pc \in {"invalidate", "documents"} => d \notin DocsOf(q.ready)
          BY <1>4, <3>2
        <4> HIDE DEF q
        <4> QED
          BY <3>1, <3>5, <4>1, <4>2, <4>3, <4>4 DEF Stamped, RowPurged, Stale, q
      <3> QED
        BY <3>6
    <2>3. CASE Landed(p, d)
      <3>1. PICK x \in p.landed : x[1] = d /\ AllOf(d, x[2])
              /\ LeavesOf({x}) \subseteq p.pending \cup p.toVectors \cup points \cup accepted
              /\ LeavesOf({x}) \subseteq p.pending \cup p.toRows \cup chunkRows
              /\ ParentsOf({x}) \subseteq p.deferred \cup chunkRows
        BY <2>3 DEF Landed
      <3>2. AllOf(d, x[2])'
        BY <1>3, <1>6, <3>1 DEF AllOf
      <3>3. \A c \in LeavesOf({x}) \cup ParentsOf({x}) : c[1] = d
        BY <3>1 DEF LeavesOf, ParentsOf
      <3>4. /\ LeavesOf({x}) \subseteq p.pending \cup p.toRows \cup chunkRows'
            /\ ParentsOf({x}) \subseteq p.deferred \cup chunkRows'
        BY <1>6, <1>9, <3>1, <3>3
      <3>5. Landed(run[r], d)'
        BY <1>3, <1>4, <1>6, <1>9, <2>3, <3>1, <3>2, <3>4 DEF Landed, q
      <3> QED
        BY <3>5
    <2>4. CASE Waiting(p, d)
      <3>1. AllOf(d, awaiting[d])'
        BY <1>3, <1>6, <2>4 DEF Waiting, AllOf
      <3>2. \A c \in LeavesOf({<<d, awaiting[d]>>}) \cup ParentsOf({<<d, awaiting[d]>>}) : c[1] = d
        BY DEF LeavesOf, ParentsOf
      <3>3. LeavesOf({<<d, awaiting[d]>>}) \cup ParentsOf({<<d, awaiting[d]>>}) \subseteq chunkRows'
        BY <1>6, <1>9, <2>4, <3>2 DEF Waiting
      <3>4. Waiting(run[r], d)'
        BY <1>3, <1>4, <1>6, <1>9, <2>4, <3>1, <3>3 DEF Waiting, q
      <3> QED
        BY <3>4
    <2> QED
      BY <1>1, <2>1, <2>2, <2>3, <2>4 DEF Staged
  <1> QED
    BY <1>7, <1>8, <1>9 DEF Staged

\* Then its answers.
LEMMA InvalidateStaged ==
  ASSUME Unfailing, StagedInv, NEW r \in Runs, Invalidate(r)
  PROVE  (Holding(run[r]) /\ Staged(run[r]))'
  <1> DEFINE p == run[r]
  <1> DEFINE q == run'[r]
  <1>1. p \in RunStates /\ Holding(p) /\ Staged(p) /\ run \in [Runs -> RunStates]
        /\ p.pc = "invalidate"
    BY OfRun DEF Invalidate, At
  <1>2. /\ \A dv \in standing' : dv \in standing /\ dv[1] \notin Stale(p)
        /\ UNCHANGED <<row, chunkRows, points, accepted, awaiting>>
    BY InvalidateStanding DEF Invalidate, stores
  <1>3. /\ q.pc = "documents"
        /\ q.left = p.left /\ q.todo = p.todo /\ q.changed = p.changed
        /\ q.ready = p.ready /\ q.landed = p.landed /\ q.pending = p.pending
        /\ q.deferred = p.deferred /\ q.toVectors = p.toVectors /\ q.toRows = p.toRows
    BY <1>1 DEF Invalidate, RunStates
  <1> HIDE DEF p, q
  <1>4. Holding(run[r])'
    <2>1. OneStage(q)
      BY <1>1, <1>3 DEF Holding, OneStage
    <2> QED
      BY <1>1, <1>2, <1>3, <2>1 DEF Holding, OneStage, Settled, q
  <1>5. ASSUME NEW d \in Docs
        PROVE  (Missing(run[r], d) \/ Stamped(run[r], d) \/ Landed(run[r], d)
                \/ Waiting(run[r], d))'
    <2>1. CASE Missing(p, d)
      <3>1. \A dv \in standing' : dv[1] # d
        BY <1>2, <2>1 DEF Missing, AnswersPurged
      <3>2. Missing(run[r], d)'
        BY <1>2, <1>3, <2>1, <3>1 DEF Missing, Retrievable, q
      <3> QED
        BY <3>2
    <2>2. CASE Stamped(p, d)
      <3>1. AllOf(d, row[d])'
        BY <1>2, <2>2 DEF Stamped, AllOf
      <3>2. Stamped(run[r], d)'
        BY <1>1, <1>2, <1>3, <2>2, <3>1 DEF Stamped, RowPurged, q
      <3> QED
        BY <3>2
    <2>3. CASE Landed(p, d)
      <3>1. Landed(run[r], d)'
        BY <1>2, <1>3, <2>3 DEF Landed, AllOf, q
      <3> QED
        BY <3>1
    <2>4. CASE Waiting(p, d)
      <3>1. Waiting(run[r], d)'
        BY <1>2, <1>3, <2>4 DEF Waiting, AllOf, q
      <3> QED
        BY <3>1
    <2> QED
      BY <1>1, <2>1, <2>2, <2>3, <2>4 DEF Staged
  <1> QED
    BY <1>4, <1>5 DEF Staged

\* What the run has to write is of what has landed.
LEMMA OfLanded ==
  ASSUME NEW p, p.pc = "write", Holding(p)
  PROVE  /\ \A c \in p.pending \cup p.toVectors \cup p.toRows \cup p.deferred :
              <<c[1], c[2]>> \in p.landed /\ c[1] \in DocsOf(p.landed)
         /\ \A x, y \in p.landed : x[1] = y[1] => x = y
         /\ \A x \in p.landed : x[1] \in DocsOf(p.landed)
  <1>1. p.ready \cup p.landed = p.landed
    BY DEF Holding
  <1>2. p.deferred \subseteq ParentsOf(p.landed)
    BY <1>1 DEF Holding
  <1>3. \A c \in p.pending \cup p.toVectors \cup p.toRows \cup p.deferred :
          <<c[1], c[2]>> \in p.landed
    BY <1>2 DEF Holding, LeavesOf, ParentsOf
  <1>4. \A x \in p.landed : x[1] \in DocsOf(p.landed)
    BY DEF DocsOf
  <1>5. \A c : <<c[1], c[2]>> \in p.landed => c[1] \in DocsOf(p.landed)
    <2> SUFFICES ASSUME NEW c, <<c[1], c[2]>> \in p.landed PROVE c[1] \in DocsOf(p.landed)
      OBVIOUS
    <2>1. <<c[1], c[2]>>[1] = c[1]
      OBVIOUS
    <2> QED
      BY <1>4, <2>1
  <1> QED
    BY <1>3, <1>4, <1>5 DEF Holding, OneStage

\* The row of a document that is written has no checksum yet.
LEMMA WriteDocumentsStaged ==
  ASSUME StagedInv, NEW r \in Runs, WriteDocuments(r)
  PROVE  (Holding(run[r]) /\ Staged(run[r]))'
  <1> DEFINE p == run[r]
  <1> DEFINE q == run'[r]
  <1>1. p \in RunStates /\ Holding(p) /\ Staged(p) /\ run \in [Runs -> RunStates]
        /\ p.pc = "documents"
    BY OfRun DEF WriteDocuments, At
  <1>2. /\ row' = [d \in Docs |-> IF d \in DocsOf(p.ready) THEN Unstamped ELSE row[d]]
        /\ UNCHANGED <<chunkRows, points, accepted, awaiting, standing>>
    BY DEF WriteDocuments, answers, standing
  <1>3. /\ q.pc = "write" /\ q.ready = {} /\ q.landed = p.landed \cup p.ready
        /\ q.pending = p.pending \cup LeavesOf(p.ready)
        /\ q.left = p.left /\ q.todo = p.todo /\ q.changed = p.changed
        /\ q.deferred = p.deferred /\ q.toVectors = p.toVectors /\ q.toRows = p.toRows
    BY <1>1 DEF WriteDocuments, RunStates
  <1>4. p.ready \in SUBSET DocVersions
    BY <1>1, RunFields
  <1> HIDE DEF p, q
  <1>5. q.todo \cup q.ready \cup q.landed = p.todo \cup p.ready \cup p.landed
        /\ q.ready \cup q.landed = p.ready \cup p.landed
    BY <1>3
  <1>6. DocsOf(q.landed) = DocsOf(p.landed) \cup DocsOf(p.ready)
        /\ DocsOf(q.todo \cup q.ready) \subseteq DocsOf(p.todo \cup p.ready)
        /\ DocsOf(p.ready) \subseteq DocsOf(p.todo \cup p.ready \cup p.landed)
    BY <1>3 DEF DocsOf
  <1>7. Holding(run[r])'
    <2>1. OneStage(q)
      BY <1>1, <1>3, <1>5 DEF Holding, OneStage
    <2>2. q.pending \cup q.toVectors \cup q.toRows \subseteq LeavesOf(q.landed)
      BY <1>1, <1>3 DEF Holding, LeavesOf
    <2>3. /\ q.left \cap DocsOf(q.todo \cup q.ready \cup q.landed) = {}
          /\ q.deferred \subseteq ParentsOf(q.ready \cup q.landed)
      BY <1>1, <1>3, <1>5 DEF Holding
    <2>4. ParentsOf(q.ready) = {}
      BY <1>3 DEF ParentsOf
    <2> QED
      BY <1>1, <1>2, <1>3, <2>1, <2>2, <2>3, <2>4 DEF Holding, OneStage, Settled, q
  <1>8. ASSUME NEW d \in Docs, d \in DocsOf(p.ready)
        PROVE  (Landed(run[r], d))'
    <2>1. PICK x \in p.ready : x[1] = d
      BY <1>8 DEF DocsOf
    <2>2. d \notin DocsOf(p.landed)
      BY <1>1, <2>1 DEF Holding, OneStage, DocsOf
    <2>3. Missing(p, d)
      <3>1. ~Stamped(p, d)
        BY <1>1, <1>8 DEF Stamped
      <3>2. ~Landed(p, d)
        BY <2>2 DEF Landed, DocsOf
      <3>3. ~Waiting(p, d)
        BY <1>6, <1>8 DEF Waiting
      <3> QED
        BY <1>1, <3>1, <3>2, <3>3 DEF Staged
    <2>4. AllOf(d, x[2])'
      BY <1>1, <1>2, <2>3 DEF Missing, Retrievable, AnswersPurged, AllOf
    <2>5. x \in DocVersions
      BY <1>4
    <2>6. LeavesOf({x}) \subseteq q.pending /\ ParentsOf({x}) \subseteq q.deferred
      <3>1. LeavesOf({x}) \subseteq LeavesOf(p.ready) /\ ParentsOf({x}) \subseteq ParentsOf(p.ready)
        BY <1>4, <2>5, PartsOf
      <3>2. ParentsOf(p.ready) \subseteq p.deferred
        BY <1>1 DEF Holding
      <3> QED
        BY <1>3, <3>1, <3>2
    <2>7. x \in q.landed
      BY <1>3
    <2>8. row'[d] = Unstamped /\ awaiting'[d] = Absent
      BY <1>2, <1>8, <2>3 DEF Missing
    <2>9. Landed(run[r], d)'
      BY <2>1, <2>4, <2>6, <2>7, <2>8 DEF Landed, Unstamped, q
    <2> QED
      BY <2>9
  <1>9. ASSUME NEW d \in Docs, d \notin DocsOf(p.ready)
        PROVE  (Missing(run[r], d) \/ Stamped(run[r], d) \/ Landed(run[r], d)
                \/ Waiting(run[r], d))'
    <2>0. row'[d] = row[d]
      BY <1>2, <1>9
    <2>1. CASE Missing(p, d)
      <3>1. Missing(run[r], d)'
        BY <1>1, <1>2, <1>6, <1>9, <2>0, <2>1 DEF Missing, Retrievable, AnswersPurged, q
      <3> QED
        BY <3>1
    <2>2. CASE Stamped(p, d)
      <3>1. AllOf(d, row[d])'
        BY <1>2, <2>0, <2>2 DEF Stamped, AllOf
      <3>2. d \notin DocsOf(q.landed) /\ d \in DocsOf(q.todo \cup q.ready) => d \in q.changed
        BY <1>1, <1>3, <1>6, <1>9, <2>2 DEF Stamped
      <3>3. Stamped(run[r], d)'
        BY <1>1, <1>2, <1>3, <1>6, <1>9, <2>0, <2>2, <3>1, <3>2 DEF Stamped, RowPurged, q
      <3> QED
        BY <3>3
    <2>3. CASE Landed(p, d)
      <3>1. Landed(run[r], d)'
        BY <1>2, <1>3, <2>0, <2>3 DEF Landed, AllOf, Unstamped, q
      <3> QED
        BY <3>1
    <2>4. CASE Waiting(p, d)
      <3>1. Waiting(run[r], d)'
        BY <1>2, <1>3, <1>5, <2>0, <2>4 DEF Waiting, AllOf, Unstamped, q
      <3> QED
        BY <3>1
    <2> QED
      BY <1>1, <2>1, <2>2, <2>3, <2>4 DEF Staged
  <1> QED
    BY <1>7, <1>8, <1>9 DEF Staged

LEMMA SendVectorsStaged ==
  ASSUME StagedInv, NEW r \in Runs, SendVectors(r)
  PROVE  (Holding(run[r]) /\ Staged(run[r]))'
  <1> DEFINE p == run[r]
  <1> DEFINE q == run'[r]
  <1>1. p \in RunStates /\ Holding(p) /\ Staged(p) /\ run \in [Runs -> RunStates]
        /\ p.pc = "write"
    BY OfRun DEF SendVectors, At
  <1>2. /\ accepted' = accepted \cup (p.toVectors \ points)
        /\ UNCHANGED <<row, chunkRows, points, awaiting, standing>>
    BY DEF SendVectors, answers, standing
  <1>3. /\ q.pc = p.pc /\ q.left = p.left /\ q.todo = p.todo /\ q.changed = p.changed
        /\ q.ready = p.ready /\ q.landed = p.landed /\ q.pending = p.pending
        /\ q.deferred = p.deferred /\ q.toVectors = {} /\ q.toRows = p.toRows
    BY <1>1 DEF SendVectors, RunStates
  <1> HIDE DEF p, q
  <1>4. \A c \in p.toVectors : <<c[1], c[2]>> \in p.landed /\ c[1] \in DocsOf(p.landed)
    BY <1>1, OfLanded
  <1>5. Holding(run[r])'
    BY <1>1, <1>2, <1>3 DEF Holding, OneStage, Settled, q
  <1>6. ASSUME NEW d \in Docs
        PROVE  (Missing(run[r], d) \/ Stamped(run[r], d) \/ Landed(run[r], d)
                \/ Waiting(run[r], d))'
    <2>0. ASSUME d \notin DocsOf(p.landed) PROVE \A c \in accepted' : c[1] = d => c \in accepted
      BY <1>2, <1>4, <2>0
    <2>1. CASE Missing(p, d)
      <3>1. Missing(run[r], d)'
        BY <1>1, <1>2, <1>3, <2>0, <2>1 DEF Missing, Retrievable, AnswersPurged, q
      <3> QED
        BY <3>1
    <2>2. CASE Stamped(p, d)
      <3>1. AllOf(d, row[d])'
        BY <1>2, <2>0, <2>2 DEF Stamped, AllOf
      <3>2. Stamped(run[r], d)'
        BY <1>1, <1>2, <1>3, <2>2, <3>1 DEF Stamped, RowPurged, q
      <3> QED
        BY <3>2
    <2>3. CASE Landed(p, d)
      <3>1. PICK x \in p.landed : x[1] = d /\ AllOf(d, x[2])
              /\ LeavesOf({x}) \subseteq p.pending \cup p.toVectors \cup points \cup accepted
              /\ LeavesOf({x}) \subseteq p.pending \cup p.toRows \cup chunkRows
              /\ ParentsOf({x}) \subseteq p.deferred \cup chunkRows
        BY <2>3 DEF Landed
      <3>2. \A c \in p.toVectors : c[1] = d => c[2] = x[2]
        <4> SUFFICES ASSUME NEW c \in p.toVectors, c[1] = d PROVE c[2] = x[2]
          OBVIOUS
        <4>1. <<c[1], c[2]>> \in p.landed /\ <<c[1], c[2]>>[1] = x[1]
          BY <1>4, <3>1
        <4>2. <<c[1], c[2]>> = x
          BY <1>1, <4>1, OfLanded
        <4> QED
          BY <4>2
      <3>3. AllOf(d, x[2])'
        BY <1>2, <3>1, <3>2 DEF AllOf
      <3>4. LeavesOf({x}) \subseteq p.pending \cup points \cup accepted'
        BY <1>2, <3>1
      <3>5. Landed(run[r], d)'
        BY <1>2, <1>3, <2>3, <3>1, <3>3, <3>4 DEF Landed, q
      <3> QED
        BY <3>5
    <2>4. CASE Waiting(p, d)
      <3>1. d \notin DocsOf(p.landed)
        BY <2>4 DEF Waiting, DocsOf
      <3>2. AllOf(d, awaiting[d])'
        BY <1>2, <2>0, <2>4, <3>1 DEF Waiting, AllOf
      <3>3. Waiting(run[r], d)'
        BY <1>2, <1>3, <2>4, <3>2 DEF Waiting, q
      <3> QED
        BY <3>3
    <2> QED
      BY <1>1, <2>1, <2>2, <2>3, <2>4 DEF Staged
  <1> QED
    BY <1>5, <1>6 DEF Staged

LEMMA SendRowsStaged ==
  ASSUME StagedInv, NEW r \in Runs, SendRows(r)
  PROVE  (Holding(run[r]) /\ Staged(run[r]))'
  <1> DEFINE p == run[r]
  <1> DEFINE q == run'[r]
  <1>1. p \in RunStates /\ Holding(p) /\ Staged(p) /\ run \in [Runs -> RunStates]
        /\ p.pc = "write"
    BY OfRun DEF SendRows, At
  <1>2. /\ chunkRows' = chunkRows \cup p.toRows
        /\ UNCHANGED <<row, accepted, points, awaiting, standing>>
    BY DEF SendRows, answers, standing
  <1>3. /\ q.pc = p.pc /\ q.left = p.left /\ q.todo = p.todo /\ q.changed = p.changed
        /\ q.ready = p.ready /\ q.landed = p.landed /\ q.pending = p.pending
        /\ q.deferred = p.deferred /\ q.toVectors = p.toVectors /\ q.toRows = {}
    BY <1>1 DEF SendRows, RunStates
  <1> HIDE DEF p, q
  <1>4. \A c \in p.toRows : <<c[1], c[2]>> \in p.landed /\ c[1] \in DocsOf(p.landed)
    BY <1>1, OfLanded
  <1>5. Holding(run[r])'
    BY <1>1, <1>2, <1>3 DEF Holding, OneStage, Settled, q
  <1>6. ASSUME NEW d \in Docs
        PROVE  (Missing(run[r], d) \/ Stamped(run[r], d) \/ Landed(run[r], d)
                \/ Waiting(run[r], d))'
    <2>0. ASSUME d \notin DocsOf(p.landed) PROVE \A c \in chunkRows' : c[1] = d => c \in chunkRows
      BY <1>2, <1>4, <2>0
    <2>1. CASE Missing(p, d)
      <3>1. Missing(run[r], d)'
        BY <1>1, <1>2, <1>3, <2>0, <2>1 DEF Missing, Retrievable, AnswersPurged, q
      <3> QED
        BY <3>1
    <2>2. CASE Stamped(p, d)
      <3>1. AllOf(d, row[d])'
        BY <1>2, <2>0, <2>2 DEF Stamped, AllOf
      <3>2. Stamped(run[r], d)'
        BY <1>1, <1>2, <1>3, <2>2, <3>1 DEF Stamped, RowPurged, q
      <3> QED
        BY <3>2
    <2>3. CASE Landed(p, d)
      <3>1. PICK x \in p.landed : x[1] = d /\ AllOf(d, x[2])
              /\ LeavesOf({x}) \subseteq p.pending \cup p.toVectors \cup points \cup accepted
              /\ LeavesOf({x}) \subseteq p.pending \cup p.toRows \cup chunkRows
              /\ ParentsOf({x}) \subseteq p.deferred \cup chunkRows
        BY <2>3 DEF Landed
      <3>2. \A c \in p.toRows : c[1] = d => c[2] = x[2]
        <4> SUFFICES ASSUME NEW c \in p.toRows, c[1] = d PROVE c[2] = x[2]
          OBVIOUS
        <4>1. <<c[1], c[2]>> \in p.landed /\ <<c[1], c[2]>>[1] = x[1]
          BY <1>4, <3>1
        <4>2. <<c[1], c[2]>> = x
          BY <1>1, <4>1, OfLanded
        <4> QED
          BY <4>2
      <3>3. AllOf(d, x[2])'
        BY <1>2, <3>1, <3>2 DEF AllOf
      <3>4. LeavesOf({x}) \subseteq p.pending \cup chunkRows'
        BY <1>2, <3>1
      <3>5. Landed(run[r], d)'
        BY <1>2, <1>3, <2>3, <3>1, <3>3, <3>4 DEF Landed, q
      <3> QED
        BY <3>5
    <2>4. CASE Waiting(p, d)
      <3>1. d \notin DocsOf(p.landed)
        BY <2>4 DEF Waiting, DocsOf
      <3>2. AllOf(d, awaiting[d])'
        BY <1>2, <2>0, <2>4, <3>1 DEF Waiting, AllOf
      <3>3. Waiting(run[r], d)'
        BY <1>2, <1>3, <2>4, <3>2 DEF Waiting, q
      <3> QED
        BY <3>3
    <2> QED
      BY <1>1, <2>1, <2>2, <2>3, <2>4 DEF Staged
  <1> QED
    BY <1>5, <1>6 DEF Staged

\* What has landed joins what waits, with all of its chunks.
LEMMA FlushDeferredStaged ==
  ASSUME StagedInv, NEW r \in Runs, FlushDeferred(r)
  PROVE  (Holding(run[r]) /\ Staged(run[r]))'
  <1> DEFINE p == run[r]
  <1> DEFINE q == run'[r]
  <1>1. p \in RunStates /\ Holding(p) /\ Staged(p) /\ run \in [Runs -> RunStates]
        /\ p.pc = "write" /\ p.toVectors = {} /\ p.toRows = {} /\ p.pending = {} /\ p.todo = {}
    BY OfRun DEF FlushDeferred, BatchDone, At
  <1>2. /\ chunkRows' = chunkRows \cup p.deferred
        /\ awaiting' = [d \in Docs |-> IF d \in DocsOf(p.landed)
                          THEN CHOOSE v \in Versions : <<d, v>> \in p.landed
                          ELSE awaiting[d]]
        /\ UNCHANGED <<row, points, accepted, standing>>
    BY DEF FlushDeferred, answers, standing
  <1>3. /\ q.pc = "load" /\ q.left = p.left /\ q.todo = {} /\ q.changed = {}
        /\ q.ready = p.ready /\ q.landed = {} /\ q.pending = {}
        /\ q.deferred = {} /\ q.toVectors = {} /\ q.toRows = {}
    BY <1>1 DEF FlushDeferred, RunStates
  <1>4. p.landed \in SUBSET DocVersions
    BY <1>1, RunFields
  <1> HIDE DEF p, q
  <1>5. \A c \in p.deferred : <<c[1], c[2]>> \in p.landed /\ c[1] \in DocsOf(p.landed)
    BY <1>1, OfLanded
  <1>6. q.ready = {} /\ DocsOf(q.todo \cup q.ready \cup q.landed) = {}
        /\ DocsOf(q.landed) = {} /\ DocsOf(q.todo \cup q.ready) = {}
        /\ DocsOf(q.ready) = {}
    BY <1>1, <1>3 DEF Holding, DocsOf
  <1>7. Holding(run[r])'
    <2>1. OneStage(q)
      BY <1>3, <1>6 DEF OneStage
    <2> QED
      BY <1>3, <1>6, <2>1 DEF Holding, OneStage, Settled, LeavesOf, ParentsOf, q
  <1>8. ASSUME NEW d \in Docs, d \in DocsOf(p.landed)
        PROVE  (Waiting(run[r], d))'
    <2>1. Landed(p, d)
      BY <1>1, <1>8 DEF Staged, Missing, Stamped, Waiting, DocsOf
    <2>2. PICK x \in p.landed : x[1] = d /\ AllOf(d, x[2])
            /\ LeavesOf({x}) \subseteq p.pending \cup p.toVectors \cup points \cup accepted
            /\ LeavesOf({x}) \subseteq p.pending \cup p.toRows \cup chunkRows
            /\ ParentsOf({x}) \subseteq p.deferred \cup chunkRows
      BY <2>1 DEF Landed
    <2>3. x = <<d, x[2]>> /\ x[2] \in Versions
      BY <1>4, <2>2 DEF DocVersions
    <2>4. ASSUME NEW v, <<d, v>> \in p.landed PROVE v = x[2]
      <3>1. <<d, v>>[1] = x[1] /\ <<d, v>>[2] = v
        BY <2>2
      <3>2. <<d, v>> = x
        BY <1>1, <2>4, <3>1, OfLanded
      <3> QED
        BY <3>1, <3>2
    <2>5. awaiting'[d] = x[2]
      BY <1>2, <1>8, <2>3, <2>4
    <2>6. \A c \in p.deferred : c[1] = d => c[2] = x[2]
      BY <1>5, <2>4
    <2>7. AllOf(d, x[2])'
      BY <1>2, <2>2, <2>6 DEF AllOf
    <2>8. /\ LeavesOf({x}) \subseteq points \cup accepted
          /\ LeavesOf({x}) \cup ParentsOf({x}) \subseteq chunkRows'
      BY <1>1, <1>2, <2>2
    <2>9. d \notin q.left
      <3>1. d \in DocsOf(p.todo \cup p.ready \cup p.landed)
        BY <1>8 DEF DocsOf
      <3> QED
        BY <1>1, <1>3, <3>1 DEF Holding
    <2>10. row'[d] = Unstamped
      BY <1>2, <2>1 DEF Landed
    <2>11. {<<d, awaiting'[d]>>} = {x}
      BY <2>3, <2>5
    <2>12. /\ LeavesOf({<<d, awaiting'[d]>>}) \subseteq points' \cup accepted'
           /\ LeavesOf({<<d, awaiting'[d]>>}) \cup ParentsOf({<<d, awaiting'[d]>>}) \subseteq chunkRows'
      BY <1>2, <2>8, <2>11
    <2>13. AllOf(d, awaiting[d])'
      BY <2>5, <2>7 DEF AllOf
    <2>14. Waiting(run[r], d)'
      BY <1>6, <2>3, <2>5, <2>9, <2>10, <2>12, <2>13 DEF Waiting, Unstamped, Versions, q
    <2> QED
      BY <2>14
  <1>9. ASSUME NEW d \in Docs, d \notin DocsOf(p.landed)
        PROVE  (Missing(run[r], d) \/ Stamped(run[r], d) \/ Landed(run[r], d)
                \/ Waiting(run[r], d))'
    <2>1. awaiting'[d] = awaiting[d] /\ \A c \in chunkRows' : c[1] = d => c \in chunkRows
      BY <1>2, <1>5, <1>9
    <2>2. CASE Missing(p, d)
      <3>1. Missing(run[r], d)'
        BY <1>1, <1>2, <1>6, <2>1, <2>2 DEF Missing, Retrievable, AnswersPurged, q
      <3> QED
        BY <3>1
    <2>3. CASE Stamped(p, d)
      <3>1. AllOf(d, row[d])'
        BY <1>2, <2>1, <2>3 DEF Stamped, AllOf
      <3>2. Stamped(run[r], d)'
        BY <1>1, <1>2, <1>3, <1>6, <2>1, <2>3, <3>1 DEF Stamped, RowPurged, Stale, q
      <3> QED
        BY <3>2
    <2>4. ~Landed(p, d)
      BY <1>9 DEF Landed, DocsOf
    <2>5. CASE Waiting(p, d)
      <3>1. AllOf(d, awaiting[d])'
        BY <1>2, <2>1, <2>5 DEF Waiting, AllOf
      <3>2. Waiting(run[r], d)'
        BY <1>2, <1>3, <1>6, <2>1, <2>5, <3>1 DEF Waiting, q
      <3> QED
        BY <3>2
    <2> QED
      BY <1>1, <2>2, <2>3, <2>4, <2>5 DEF Staged
  <1> QED
    BY <1>7, <1>8, <1>9 DEF Staged

\* The rows of what is written are there: the foreign key refuses nothing.
LEMMA NeverRefused ==
  ASSUME StagedInv, NEW r \in Runs
  PROVE  ~Refused(r)
  <1> DEFINE p == run[r]
  <1>1. Holding(p) /\ Staged(p) /\ run \in [Runs -> RunStates] /\ p \in RunStates
    BY OfRun
  <1>2. SUFFICES ASSUME p.pc = "write" PROVE HasRows(p.toRows) /\ HasRows(p.deferred)
    BY DEF Refused, At
  <1>3. \A c \in p.toRows \cup p.deferred : c[1] \in DocsOf(p.landed)
    BY <1>1, <1>2, OfLanded
  <1>4. \A d \in DocsOf(p.landed) : d \in Docs
    BY <1>1, RunFields DEF DocsOf, DocVersions
  <1>5. \A d \in DocsOf(p.landed) : row[d] # Absent
    <2> SUFFICES ASSUME NEW d \in DocsOf(p.landed), row[d] = Absent PROVE FALSE
      OBVIOUS
    <2>1. Missing(p, d)
      BY <1>1, <1>4, ByRow
    <2> QED
      BY <2>1 DEF Missing
  <1> QED
    BY <1>3, <1>5 DEF HasRows

\* What waits is whole when the read-back is done, and is stamped.
LEMMA StampStaged ==
  ASSUME StagedInv, NEW r \in Runs, Stamp(r)
  PROVE  (Holding(run[r]) /\ Staged(run[r]))'
  <1> DEFINE p == run[r]
  <1> DEFINE q == run'[r]
  <1>1. p \in RunStates /\ Holding(p) /\ Staged(p) /\ run \in [Runs -> RunStates]
        /\ p.pc = "stamp" /\ awaiting \in [Docs -> {Absent} \cup Versions]
    BY OfRun DEF Stamp, At, TypeOK
  <1>2. /\ row' = [d \in Docs |-> IF d \in DocsOf(p.stamping)
                     THEN CHOOSE v \in Versions : <<d, v>> \in p.stamping
                     ELSE row[d]]
        /\ awaiting' = [d \in Docs |-> Absent]
        /\ UNCHANGED <<chunkRows, points, accepted, standing>>
    BY DEF Stamp, answers, standing
  <1>3. q = Idle
    BY <1>1 DEF Stamp
  <1> HIDE DEF p, q
  <1>4. p.landed = {} /\ p.todo = {} /\ p.ready = {} /\ accepted = {}
        /\ p.stamping = {<<d, awaiting[d]>> : d \in {e \in Docs : awaiting[e] # Absent}}
    BY <1>1 DEF Holding, Settled
  <1>5. /\ q.pc = "idle" /\ q.left = {} /\ q.todo = {} /\ q.ready = {} /\ q.landed = {}
        /\ q.pending = {} /\ q.deferred = {} /\ q.toVectors = {} /\ q.toRows = {}
        /\ DocsOf(q.landed) = {} /\ DocsOf(q.todo \cup q.ready) = {} /\ Stale(q) = {}
    BY <1>3 DEF Idle, DocsOf, Stale
  <1>6. Holding(run[r])'
    <2>1. OneStage(q)
      BY <1>5 DEF OneStage
    <2> QED
      BY <1>2, <1>5, <2>1 DEF Holding, OneStage, Settled, LeavesOf, ParentsOf, q
  <1>7. ASSUME NEW d \in Docs, awaiting[d] # Absent
        PROVE  (Stamped(run[r], d))'
    <2>1. Waiting(p, d)
      BY <1>1, <1>4, <1>7 DEF Staged, Missing, Stamped, Landed
    <2>2. awaiting[d] \in Versions /\ d \in DocsOf(p.stamping)
      <3>1. <<d, awaiting[d]>> \in p.stamping /\ <<d, awaiting[d]>>[1] = d
        BY <1>4, <1>7
      <3> QED
        BY <1>1, <1>7, <3>1 DEF DocsOf
    <2>3. \A v : <<d, v>> \in p.stamping <=> v = awaiting[d]
      BY <1>4, <1>7
    <2>4. row'[d] = awaiting[d]
      BY <1>2, <2>2, <2>3
    <2>5. AllOf(d, row[d])'
      BY <1>2, <2>1, <2>4 DEF Waiting, AllOf
    <2>6. /\ LeavesOf({<<d, row'[d]>>}) \subseteq points'
          /\ LeavesOf({<<d, row'[d]>>}) \cup ParentsOf({<<d, row'[d]>>}) \subseteq chunkRows'
      BY <1>2, <1>4, <2>1, <2>4 DEF Waiting
    <2>7. Stamped(run[r], d)'
      BY <1>2, <1>5, <2>2, <2>4, <2>5, <2>6 DEF Stamped, RowPurged, Versions, Absent, q
    <2> QED
      BY <2>7
  <1>8. ASSUME NEW d \in Docs, awaiting[d] = Absent
        PROVE  (Missing(run[r], d) \/ Stamped(run[r], d))'
    <2>1. d \notin DocsOf(p.stamping)
      <3>1. \A x \in p.stamping : x[1] # d
        BY <1>4, <1>8
      <3> QED
        BY <3>1 DEF DocsOf
    <2>2. row'[d] = row[d] /\ awaiting'[d] = Absent
      BY <1>2, <1>8, <2>1
    <2>3. ~Landed(p, d) /\ ~Waiting(p, d)
      BY <1>4, <1>8 DEF Landed, Waiting, Versions, Absent
    <2>4. CASE Missing(p, d)
      <3>1. Missing(run[r], d)'
        BY <1>1, <1>2, <1>5, <2>2, <2>4 DEF Missing, Retrievable, AnswersPurged, Absent, q
      <3> QED
        BY <3>1
    <2>5. CASE Stamped(p, d)
      <3>1. AllOf(d, row[d])'
        BY <1>2, <2>2, <2>5 DEF Stamped, AllOf
      <3>2. Stamped(run[r], d)'
        BY <1>1, <1>2, <1>5, <2>2, <2>5, <3>1 DEF Stamped, RowPurged, Versions, Absent, q
      <3> QED
        BY <3>2
    <2> QED
      BY <1>1, <2>3, <2>4, <2>5 DEF Staged
  <1> QED
    BY <1>6, <1>7, <1>8 DEF Staged

\* An accepted point that is applied is where it was, for every stage.
LEMMA ApplyStaged ==
  ASSUME StagedInv, NEW r \in Runs, Apply
  PROVE  (Holding(run[r]) /\ Staged(run[r]))'
  <1> DEFINE p == run[r]
  <1>1. Holding(p) /\ Staged(p) /\ run'[r] = p
        /\ UNCHANGED <<row, chunkRows, awaiting, standing>>
    BY OfRun DEF Apply, answers, standing
  <1>2. /\ accepted # {} /\ points \subseteq points'
        /\ points' \cup accepted' = points \cup accepted
    BY DEF Apply
  <1> HIDE DEF p
  <1>3. Holding(run[r])'
    <2>1. p.pc \notin {"count", "stamp"} /\ OneStage(p)
      BY <1>1, <1>2 DEF Holding, Settled
    <2> QED
      BY <1>1, <2>1 DEF Holding, OneStage, Settled, Stale
  <1>4. \A d, v : AllOf(d, v) => \A c \in points' \cup accepted' \cup chunkRows' : c[1] = d => c[2] = v
    BY <1>1, <1>2 DEF AllOf
  <1>5. ASSUME NEW d \in Docs
        PROVE  (Missing(run[r], d) \/ Stamped(run[r], d) \/ Landed(run[r], d)
                \/ Waiting(run[r], d))'
    <2>1. CASE Missing(p, d)
      BY <1>1, <1>2, <2>1 DEF Missing, Retrievable, AnswersPurged, Stale
    <2>2. CASE Stamped(p, d)
      <3>1. AllOf(d, row[d])'
        BY <1>1, <1>4, <2>2 DEF Stamped, AllOf
      <3>2. Stamped(run[r], d)'
        BY <1>1, <1>2, <2>2, <3>1 DEF Stamped, RowPurged, Retrievable, Stale
      <3> QED
        BY <3>2
    <2>3. CASE Landed(p, d)
      <3>1. PICK x \in p.landed : x[1] = d /\ AllOf(d, x[2])
              /\ LeavesOf({x}) \subseteq p.pending \cup p.toVectors \cup points \cup accepted
              /\ LeavesOf({x}) \subseteq p.pending \cup p.toRows \cup chunkRows
              /\ ParentsOf({x}) \subseteq p.deferred \cup chunkRows
        BY <2>3 DEF Landed
      <3>2. AllOf(d, x[2])'
        BY <1>1, <1>4, <3>1 DEF AllOf
      <3>3. LeavesOf({x}) \subseteq p.pending \cup p.toVectors \cup points' \cup accepted'
        BY <1>2, <3>1
      <3>4. Landed(run[r], d)'
        BY <1>1, <2>3, <3>1, <3>2, <3>3 DEF Landed
      <3> QED
        BY <3>4
    <2>4. CASE Waiting(p, d)
      <3>1. AllOf(d, awaiting[d])'
        BY <1>1, <1>4, <2>4 DEF Waiting, AllOf
      <3>2. Waiting(run[r], d)'
        BY <1>1, <1>2, <2>4, <3>1 DEF Waiting
      <3> QED
        BY <3>2
    <2> QED
      BY <1>1, <2>1, <2>2, <2>3, <2>4 DEF Staged
  <1> QED
    BY <1>3, <1>5 DEF Staged

\* An answer is of what retrieval finds, which is of one version.
LEMMA AnswersStaged ==
  ASSUME StagedInv, NEW r \in Runs,
         UNCHANGED <<row, chunkRows, points, accepted, awaiting, run>>,
         \A dv \in standing' : dv \in standing \/ LeavesOf({dv}) \cap points # {}
  PROVE  (Holding(run[r]) /\ Staged(run[r]))'
  <1> DEFINE p == run[r]
  <1>1. /\ Holding(p) /\ Staged(p) /\ run'[r] = p /\ row' = row /\ chunkRows' = chunkRows
        /\ points' = points /\ accepted' = accepted /\ awaiting' = awaiting
    BY OfRun
  <1>2. \A dv \in standing' \ standing : \E c \in points : c[1] = dv[1] /\ c[2] = dv[2]
    BY DEF LeavesOf
  <1>3. \A d, v : AllOf(d, v) => \A dv \in standing' : dv[1] = d => dv[2] = v
    BY <1>2 DEF AllOf
  <1> HIDE DEF p
  <1>4. Holding(run[r])'
    <2>1. OneStage(run[r])' /\ Settled(run[r])'
      BY <1>1 DEF Holding, OneStage, Settled
    <2> QED
      BY <1>1, <2>1 DEF Holding, Stale
  <1>5. ASSUME NEW d \in Docs
        PROVE  (Missing(run[r], d) \/ Stamped(run[r], d) \/ Landed(run[r], d)
                \/ Waiting(run[r], d))'
    <2>1. CASE Missing(p, d)
      <3>1. \A dv \in standing' : dv[1] = d => dv \in standing
        BY <1>2, <2>1 DEF Missing, Retrievable
      <3>2. Missing(run[r], d)'
        BY <1>1, <2>1, <3>1 DEF Missing, Retrievable, AnswersPurged, Stale
      <3> QED
        BY <3>2
    <2>2. CASE Stamped(p, d)
      <3>1. AllOf(d, row[d])'
        BY <1>1, <1>3, <2>2 DEF Stamped, AllOf
      <3>2. Stamped(run[r], d)'
        BY <1>1, <2>2, <3>1 DEF Stamped, RowPurged, Retrievable, Stale
      <3> QED
        BY <3>2
    <2>3. CASE Landed(p, d)
      <3>1. PICK x \in p.landed : x[1] = d /\ AllOf(d, x[2])
              /\ LeavesOf({x}) \subseteq p.pending \cup p.toVectors \cup points \cup accepted
              /\ LeavesOf({x}) \subseteq p.pending \cup p.toRows \cup chunkRows
              /\ ParentsOf({x}) \subseteq p.deferred \cup chunkRows
        BY <2>3 DEF Landed
      <3>2. AllOf(d, x[2])'
        <4>1. \A dv \in standing' : dv[1] = d => dv[2] = x[2]
          BY <1>3, <3>1
        <4> QED
          BY <1>1, <3>1, <4>1 DEF AllOf
      <3>3. Landed(run[r], d)'
        BY <1>1, <2>3, <3>1, <3>2 DEF Landed
      <3> QED
        BY <3>3
    <2>4. CASE Waiting(p, d)
      <3>1. AllOf(d, awaiting[d])'
        BY <1>1, <1>3, <2>4 DEF Waiting, AllOf
      <3>2. Waiting(run[r], d)'
        BY <1>1, <2>4, <3>1 DEF Waiting
      <3> QED
        BY <3>2
    <2> QED
      BY <1>1, <2>1, <2>2, <2>3, <2>4 DEF Staged
  <1> QED
    BY <1>4, <1>5 DEF Staged

LEMMA StepStaged ==
  ASSUME Unfailing, StagedInv, NEW r \in Runs, Step(r)
  PROVE  (Holding(run[r]) /\ Staged(run[r]))'
  BY LoadStaged, ExhaustStaged, SelectStaged, ProcessStaged, PurgeVectorsStaged,
     PurgeRowsStaged, InvalidateStaged, WriteDocumentsStaged, NextBatchStaged,
     NextGroupStaged, SendVectorsStaged, SendRowsStaged, FlushDeferredStaged,
     NeverRefused, FlushStaged, CountStaged, StampStaged DEF Step

LEMMA StagedStep ==
  ASSUME Unfailing, StagedInv, [Next]_vars
  PROVE  StagedInv'
  <1>1. TypeOK'
    BY NextTyped DEF StagedInv
  <1>2. PICK r \in Runs : \A s \in Runs : s = r
    BY DEF Unfailing
  <1>3. ASSUME (Holding(run[r]) /\ Staged(run[r]))' PROVE StagedInv'
    BY <1>1, <1>2, <1>3 DEF StagedInv
  <1>4. MaxFaults = 0 /\ faults \in 0..MaxFaults
    BY DEF StagedInv, Unfailing, NoFaults, TypeOK
  <1>5. ASSUME UNCHANGED <<row, chunkRows, points, accepted, awaiting, run>>,
               \A dv \in standing' : dv \in standing \/ LeavesOf({dv}) \cap points # {}
        PROVE  StagedInv'
    BY <1>3, <1>5, AnswersStaged
  <1>6. ASSUME NEW s \in Runs, Step(s) PROVE StagedInv'
    BY <1>2, <1>3, <1>6, StepStaged
  <1>7. ASSUME NEW s \in Runs, NEW f \in BOOLEAN, Start(s, f) PROVE StagedInv'
    BY <1>2, <1>3, <1>7, StartStaged
  <1>8. ~Crash /\ \A s \in Runs : ~Fail(s)
    BY <1>4 DEF Crash, Fail
  <1>9. CASE Apply
    BY <1>3, <1>9, ApplyStaged
  <1>10. ASSUME NEW d \in Docs, Edit(d) PROVE StagedInv'
    BY <1>5, <1>10 DEF Edit, stores, answers, standing
  <1>11. ASSUME NEW dv \in DocVersions, Answer(dv) \/ CacheAnswer(dv) \/ Expire(dv)
         PROVE  StagedInv'
    <2>1. UNCHANGED <<row, chunkRows, points, accepted, awaiting, run>>
      BY <1>11 DEF Answer, CacheAnswer, Expire, stores
    <2>2. CASE Answer(dv)
      <3>1. standing' \subseteq standing \cup {dv} /\ LeavesOf({dv}) \cap points # {}
        BY <2>2, AnswerStanding DEF Answer
      <3> QED
        BY <1>5, <2>1, <3>1
    <2>3. CASE CacheAnswer(dv) \/ Expire(dv)
      BY <1>5, <2>1, <2>3, CacheStanding
    <2> QED
      BY <1>11, <2>2, <2>3
  <1>12. CASE UNCHANGED vars
    BY <1>5, <1>12 DEF vars, standing
  <1> QED
    BY <1>6, <1>7, <1>8, <1>9, <1>10, <1>11, <1>12 DEF Next

LEMMA StagedInit == Init => StagedInv
  <1> SUFFICES ASSUME Init PROVE StagedInv
    OBVIOUS
  <1>1. /\ \A d \in Docs : row[d] = Absent /\ awaiting[d] = Absent
        /\ chunkRows = {} /\ points = {} /\ accepted = {} /\ standing = {}
        /\ \A r \in Runs : run[r] = Idle
    BY DEF Init, standing
  <1>2. Holding(Idle)
    BY <1>1 DEF Holding, OneStage, Settled, Idle, DocsOf, LeavesOf, ParentsOf
  <1>3. Staged(Idle)
    BY <1>1 DEF Staged, Missing, Retrievable, Idle, DocsOf
  <1> QED
    BY <1>1, <1>2, <1>3, InitTyped DEF StagedInv

\* What is skipped has been stamped, and is of one version: a run that is between
\* the purge of the vectors and that of the row is under way.
LEMMA StagedIsSafe ==
  ASSUME Unfailing, StagedInv
  PROVE  RestartIsSafe /\ AnswersAreCurrent /\ SkippedIsCurrent
  <1>1. PICK r \in Runs : TRUE
    BY DEF Unfailing
  <1>2. ASSUME NEW d \in Docs, Skipped(d)
        PROVE  row[d] = source[d] /\ Stamped(run[r], d)
    <2>1. row[d] \in Versions /\ row[d] = source[d]
      BY <1>2 DEF Skipped, Prior, StagedInv, TypeOK, Absent, Versions
    <2> QED
      BY <1>1, <2>1, OfRun, ByRow
  <1>3. RestartIsSafe
    <2> SUFFICES ASSUME \A s \in Runs : ~Active(s), NEW d \in Docs, Skipped(d)
                 PROVE  /\ LeavesOf({<<d, source[d]>>}) \subseteq points
                        /\ LeavesOf({<<d, source[d]>>}) \cup ParentsOf({<<d, source[d]>>})
                             \subseteq chunkRows
      BY DEF RestartIsSafe, SkippedIsIndexed
    <2>1. ~RowPurged(run[r], d)
      BY <1>1 DEF Active, RowPurged
    <2> QED
      BY <1>2, <2>1 DEF Stamped
  <1>4. \A d \in Docs : Skipped(d) => AllOf(d, source[d])
    BY <1>2 DEF Stamped
  <1>5. AnswersAreCurrent
    BY <1>4 DEF AnswersAreCurrent, AllOf
  <1>6. SkippedIsCurrent
    BY <1>4 DEF SkippedIsCurrent, AllOf, Of
  <1> QED
    BY <1>3, <1>5, <1>6

\* One run at a time, forced or not, over sources that are edited while it works,
\* with nothing failing: what the next run would skip is in both stores as a whole
\* and at one version, and an answer from before it is served only until the cache
\* applies the delete it has accepted, or because that one missed it.
THEOREM ReplacedWhole ==
  ASSUME Unfailing
  PROVE  Spec => [](RestartIsSafe /\ AnswersAreCurrent /\ SkippedIsCurrent)
  <1>1. StagedInv /\ [Next]_vars => StagedInv'
    BY StagedStep
  <1>2. StagedInv => RestartIsSafe /\ AnswersAreCurrent /\ SkippedIsCurrent
    BY StagedIsSafe
  <1> QED
    BY <1>1, <1>2, StagedInit, PTL DEF Spec

-----------------------------------------------------------------------------
(***************************************************************************)
(* Runs that meet                                                          *)
(*                                                                         *)
(* Several runs at once may purge a document that another has written, and *)
(* a run whose rows are purged under it is refused by the foreign key.     *)
(* What keeps the marker true is that a document that is confirmed, or has *)
(* landed, is there or is owed by a run that will write all of it.  That   *)
(* holds while the runs have at most one document in common: with two, the *)
(* refusal of one costs the other, whose purge is over.                    *)
(***************************************************************************)

\* Runs that have at most one document in common: none is forced, nothing fails,
\* the read-back waits, and no source is edited before it is indexed.
Meeting(shared) ==
    /\ \A r, s \in Runs : r # s => Target[r] \cap Target[s] \subseteq {shared}
    /\ {"force", "editDirty", "unflushed"} \cap Allowed = {} /\ MaxFaults = 0

Current(d) == {<<d, source[d]>>}

\* All of d is written.
Full(d) == /\ LeavesOf(Current(d)) \subseteq points \cup accepted
           /\ LeavesOf(Current(d)) \cup ParentsOf(Current(d)) \subseteq chunkRows

\* A run that will write all of d that is not there.
Purging(q, d) ==
    d \in DocsOf(q.ready) /\ q.pc \in {"purgeRows", "invalidate", "documents"}
Writing(q, d) ==
    /\ d \in DocsOf(q.landed)
    /\ LeavesOf(Current(d)) \subseteq q.pending \cup q.toVectors \cup points \cup accepted
    /\ LeavesOf(Current(d)) \subseteq q.pending \cup q.toRows \cup chunkRows
    /\ ParentsOf(Current(d)) \subseteq q.deferred \cup chunkRows
Owes(q, d) == Purging(q, d) \/ Writing(q, d)

\* d has a checksum that its next run skips, or is about to.
Confirmed(d) == \/ row[d] = source[d] \/ awaiting[d] # Absent
                \/ \E r \in Runs : d \in DocsOf(run[r].stamping)

Old(d) == row[d] \in Versions /\ row[d] # source[d]

\* What a run holds, and of which version.
Carrying(q, target) ==
    /\ ~q.force /\ OneStage(q)
    /\ q.left \cup DocsOf(q.todo \cup q.ready \cup q.landed) \cup q.purging \subseteq target
    /\ \A x \in q.todo \cup q.ready \cup q.landed \cup q.stamping : x[2] = source[x[1]]
    /\ q.pc \in {"idle", "load", "select", "flush", "count", "stamp"} =>
         /\ q.ready = {} /\ q.landed = {} /\ q.pending = {} /\ q.deferred = {}
         /\ q.changed = {}
    /\ q.pc \in {"idle", "load", "flush", "count", "stamp"} => q.todo = {}
    /\ q.pc \in {"process", "write"} => q.ready = {}
    /\ q.pc # "write" => q.toVectors = {} /\ q.toRows = {}
    /\ q.pc # "stamp" => q.stamping = {}
    /\ q.pc = "purgeRows" => q.purging \subseteq Stale(q)
    /\ q.pending \cup q.toVectors \cup q.toRows \subseteq LeavesOf(q.landed)
    /\ q.deferred \subseteq ParentsOf(q.ready \cup q.landed)
    /\ ParentsOf(q.ready) \subseteq q.deferred

\* What is confirmed or has landed is there, or some run will write it; what no two
\* runs have in common is there, once it is confirmed.
Kept(d) ==
    /\ Confirmed(d) \/ (\E r \in Runs : d \in DocsOf(run[r].landed)) =>
         Full(d) \/ \E r \in Runs : Owes(run[r], d)
    /\ awaiting[d] \in {Absent, source[d]}
    /\ Old(d) => /\ awaiting[d] = Absent
                 /\ \A r \in Runs : d \notin DocsOf(run[r].stamping \cup run[r].landed)
KeptApart(d) ==
    Confirmed(d) =>
      /\ Full(d)
      /\ \A r \in Runs : d \notin run[r].changed \cap DocsOf(run[r].todo \cup run[r].ready)

\* A row that has gone from under what has landed is that of the shared document,
\* and another run will write it again.
Orphaned(shared) ==
    \A r \in Runs : \A d \in DocsOf(run[r].landed) : row[d] = Absent =>
      d = shared /\ \E s \in Runs \ {r} : Purging(run[s], d)

\* What is accepted, or waits, has a run to come that waits for it or stamps it.
Awaited ==
    /\ accepted # {} => \E r \in Runs : run[r].pc \notin {"idle", "count", "stamp"}
    /\ (\E d \in Docs : awaiting[d] # Absent) => \E r \in Runs : Active(r)

MeetRest(shared) ==
    /\ \A r \in Runs : Carrying(run[r], Target[r])
    /\ \A d \in Docs : Kept(d) /\ (d # shared => KeptApart(d))
    /\ Orphaned(shared) /\ Awaited

MeetInv(shared) == TypeOK /\ MeetRest(shared)

LEMMA OfMeet ==
  ASSUME NEW shared, MeetInv(shared), NEW r \in Runs
  PROVE  /\ run[r] \in RunStates /\ Carrying(run[r], Target[r])
         /\ run \in [Runs -> RunStates] /\ TypeOK
  BY DEF MeetInv, MeetRest, TypeOK

\* What a run carries is of its own state and of the sources.
LEMMA CarryingAs ==
  ASSUME NEW r \in Runs, Carrying(run'[r], Target[r]), source' = source
  PROVE  Carrying(run[r], Target[r])'
  <1>1. OneStage(run[r])'
    BY DEF Carrying, OneStage
  <1> QED
    BY <1>1 DEF Carrying, Stale

\* What is written of a document stays so, and so does what a run owes, while
\* nothing of it is purged.
LEMMA OwesKept ==
  ASSUME NEW d, source' = source,
         LeavesOf(Current(d)) \cap (points \cup accepted) \subseteq points' \cup accepted',
         (LeavesOf(Current(d)) \cup ParentsOf(Current(d))) \cap chunkRows \subseteq chunkRows'
  PROVE  /\ Full(d) => Full(d)'
         /\ \A s \in Runs : run'[s] = run[s] /\ Owes(run[s], d) => Owes(run[s], d)'
  <1>1. Full(d) => Full(d)'
    BY DEF Full, Current
  <1>2. ASSUME NEW s \in Runs, run'[s] = run[s], Owes(run[s], d)
        PROVE  Owes(run[s], d)'
    <2>1. CASE Purging(run[s], d)
      BY <1>2, <2>1 DEF Owes, Purging
    <2>2. CASE Writing(run[s], d)
      <3>1. Writing(run[s], d)'
        BY <1>2, <2>2 DEF Writing, Current
      <3> QED
        BY <3>1 DEF Owes
    <2> QED
      BY <1>2, <2>1, <2>2 DEF Owes
  <1> QED
    BY <1>1, <1>2

LEMMA ChunksOf ==
  ASSUME NEW d
  PROVE  \A c \in LeavesOf(Current(d)) \cup ParentsOf(Current(d)) : c[1] = d
  BY DEF LeavesOf, ParentsOf, Current

\* What a run owes is of a document it is pointed at.
LEMMA OwedIsTargeted ==
  ASSUME NEW q, NEW target, Carrying(q, target)
  PROVE  /\ \A d : Owes(q, d) => d \in target
         /\ \A d \in DocsOf(q.landed) : d \in target
         /\ \A d \in DocsOf(q.todo \cup q.ready) : d \in target
         /\ \A d \in DocsOf(q.ready) : d \in target
  BY DEF Carrying, Owes, Purging, Writing, DocsOf

\* A step of one run keeps the invariant if it keeps these.
LEMMA MeetStep ==
  ASSUME NEW shared, MeetInv(shared), NEW r \in Runs, source' = source,
         \A s \in Runs : s # r => run'[s] = run[s],
         Carrying(run'[r], Target[r]),
         \A d \in Docs :
           /\ Confirmed(d)' => Confirmed(d) \/ d \in DocsOf(run[r].landed)
           /\ d \in DocsOf(run'[r].landed) =>
                d \in DocsOf(run[r].landed) \/ Owes(run[r], d)'
           /\ Full(d) => Full(d)' \/ Owes(run[r], d)'
           /\ Owes(run[r], d) =>
                \/ Full(d)' \/ Owes(run[r], d)' \/ \E s \in Runs \ {r} : Owes(run[s], d)'
                \/ ~Confirmed(d)' /\ \A s \in Runs : d \notin DocsOf(run'[s].landed)
           /\ \A s \in Runs \ {r} : Owes(run[s], d) => Owes(run[s], d)' \/ Owes(run[r], d)'
           /\ awaiting'[d] \in {Absent, source[d]}
           /\ Old(d)' => /\ Old(d) /\ awaiting'[d] = Absent
                         /\ d \notin DocsOf(run'[r].stamping \cup run'[r].landed)
           /\ d # shared => KeptApart(d)',
         Orphaned(shared)', Awaited'
  PROVE  MeetRest(shared)'
  <1>1. ASSUME NEW s \in Runs PROVE Carrying(run[s], Target[s])'
    <2>1. CASE s = r
      BY <2>1, CarryingAs
    <2>2. CASE s # r
      <3>1. Carrying(run'[s], Target[s])
        BY <2>2 DEF MeetInv, MeetRest
      <3> QED
        BY <3>1, CarryingAs
    <2> QED
      BY <2>1, <2>2
  <1>2. ASSUME NEW d \in Docs PROVE Kept(d)'
    <2>0. Kept(d)
      BY DEF MeetInv, MeetRest
    <2>1. ASSUME Confirmed(d)' \/ \E s \in Runs : d \in DocsOf(run'[s].landed)
          PROVE  Full(d)' \/ \E s \in Runs : Owes(run[s], d)'
      <3>1. \/ Owes(run[r], d)'
            \/ Confirmed(d) \/ \E s \in Runs : d \in DocsOf(run[s].landed)
        BY <2>1
      <3>2. Owes(run[r], d)' \/ Full(d) \/ \E s \in Runs : Owes(run[s], d)
        BY <2>0, <3>1 DEF Kept
      <3>3. ~(~Confirmed(d)' /\ \A s \in Runs : d \notin DocsOf(run'[s].landed))
        BY <2>1
      <3>4. CASE Owes(run[r], d)
        BY <3>3, <3>4
      <3> QED
        BY <3>2, <3>4
    <2>2. Old(d)' => /\ awaiting'[d] = Absent
                     /\ \A s \in Runs : d \notin DocsOf(run'[s].stamping \cup run'[s].landed)
      BY <2>0 DEF Kept
    <2> QED
      BY <2>1, <2>2 DEF Kept
  <1> QED
    BY <1>1, <1>2 DEF MeetRest

\* What a run owes is of its own state, of the sources and of what is written.
LEMMA OwesAs ==
  ASSUME NEW r \in Runs, NEW d, Owes(run'[r], d),
         UNCHANGED <<source, chunkRows, points, accepted>>
  PROVE  Owes(run[r], d)'
  <1>1. CASE Purging(run'[r], d)
    BY <1>1 DEF Owes, Purging
  <1>2. CASE Writing(run'[r], d)
    <2>1. Writing(run[r], d)'
      BY <1>2 DEF Writing, Current
    <2> QED
      BY <2>1 DEF Owes
  <1> QED
    BY <1>1, <1>2 DEF Owes

\* A run that moves on without a write, and lets go of nothing.
LEMMA MeetMove ==
  ASSUME NEW shared, MeetInv(shared), NEW r \in Runs, NEW p, NEW q,
         p = run[r], q = run'[r],
         UNCHANGED <<source, row, chunkRows, points, accepted, awaiting>>,
         \A s \in Runs : s # r => run'[s] = run[s],
         Carrying(q, Target[r]), q.landed = p.landed,
         \A d \in Docs :
           /\ Owes(p, d) => Owes(q, d)
           /\ Purging(p, d) => Purging(q, d)
           /\ d \in DocsOf(q.stamping) => awaiting[d] # Absent \/ d \in DocsOf(p.stamping)
           /\ d \in q.changed \cap DocsOf(q.todo \cup q.ready) =>
                d \in p.changed \cap DocsOf(p.todo \cup p.ready) \/ Old(d),
         q.pc \notin {"idle", "count", "stamp"} \/ accepted = {} \/ p.pc = "count",
         q.pc = "idle" => \A d \in Docs : awaiting[d] = Absent
  PROVE  MeetRest(shared)'
  <1>1. \A d \in Docs : Kept(d) /\ (d # shared => KeptApart(d))
    BY DEF MeetInv, MeetRest
  <1>2. ASSUME NEW d \in Docs, Confirmed(d)' PROVE Confirmed(d)
    BY <1>2 DEF Confirmed
  <1>3. ASSUME NEW d \in Docs
        PROVE  /\ Full(d) => Full(d)'
               /\ \A s \in Runs : s # r /\ Owes(run[s], d) => Owes(run[s], d)'
               /\ Owes(p, d) => Owes(run[r], d)'
    BY OwesKept, OwesAs
  <1>4. ASSUME NEW d \in Docs, Old(d)'
        PROVE  Old(d) /\ awaiting'[d] = Absent /\ d \notin DocsOf(q.stamping \cup q.landed)
    <2>1. Old(d) /\ awaiting[d] = Absent /\ d \notin DocsOf(p.stamping \cup p.landed)
      BY <1>1, <1>4 DEF Old, Kept, Versions
    <2> QED
      BY <2>1 DEF DocsOf
  <1>5. ASSUME NEW d \in Docs, d # shared PROVE KeptApart(d)'
    <2>1. SUFFICES ASSUME Confirmed(d)'
                   PROVE  /\ Full(d)'
                          /\ \A s \in Runs : d \notin run'[s].changed \cap DocsOf(run'[s].todo \cup run'[s].ready)
      BY DEF KeptApart
    <2>2. /\ Full(d) /\ Confirmed(d)
          /\ \A s \in Runs : d \notin run[s].changed \cap DocsOf(run[s].todo \cup run[s].ready)
      BY <1>1, <1>2, <1>5, <2>1 DEF KeptApart
    <2>3. ~Old(d)
      <3> SUFFICES ASSUME Old(d) PROVE FALSE
        OBVIOUS
      <3>1. /\ awaiting[d] = Absent /\ row[d] # source[d]
            /\ \A s \in Runs : d \notin DocsOf(run[s].stamping)
        BY <1>1 DEF Kept, Old, DocsOf
      <3> QED
        BY <2>2, <3>1 DEF Confirmed
    <2>4. d \notin q.changed \cap DocsOf(q.todo \cup q.ready)
      BY <2>2, <2>3
    <2> QED
      BY <1>3, <2>2, <2>4
  <1>6. Orphaned(shared)'
    <2> SUFFICES ASSUME NEW s \in Runs, NEW d \in DocsOf(run'[s].landed), row'[d] = Absent
                 PROVE  d = shared /\ \E t \in Runs \ {s} : Purging(run[t], d)'
      BY DEF Orphaned
    <2>1. d \in DocsOf(run[s].landed) /\ row[d] = Absent
      OBVIOUS
    <2>2. d = shared /\ \E t \in Runs \ {s} : Purging(run[t], d)
      BY <2>1 DEF MeetInv, MeetRest, Orphaned
    <2>3. d \in Docs
      BY <2>1, OfMeet, RunFields DEF DocsOf, DocVersions
    <2>4. PICK t \in Runs \ {s} : Purging(run[t], d)
      BY <2>2
    <2>5. Purging(run'[t], d)
      BY <2>3, <2>4
    <2>6. Purging(run[t], d)'
      BY <2>5 DEF Purging
    <2> QED
      BY <2>2, <2>6
  <1>7. Awaited'
    <2>1. accepted # {} => \E s \in Runs : run'[s].pc \notin {"idle", "count", "stamp"}
      BY DEF MeetInv, MeetRest, Awaited
    <2>2. (\E d \in Docs : awaiting[d] # Absent) => \E s \in Runs : run'[s].pc # "idle"
      OBVIOUS
    <2> QED
      BY <2>1, <2>2 DEF Awaited, Active
  <1>8. \A d \in Docs : awaiting'[d] \in {Absent, source[d]}
    BY <1>1 DEF Kept
  <1> QED
    BY <1>2, <1>3, <1>4, <1>5, <1>6, <1>7, <1>8, MeetStep

LEMMA StartMeets ==
  ASSUME NEW shared, Meeting(shared), MeetInv(shared), NEW r \in Runs, NEW f \in BOOLEAN,
         Start(r, f)
  PROVE  MeetRest(shared)'
  <1> DEFINE p == run[r]
  <1> DEFINE q == run'[r]
  <1>1. p \in RunStates /\ Carrying(p, Target[r]) /\ run \in [Runs -> RunStates]
    BY OfMeet
  <1>2. /\ p.pc = "idle" /\ q.pc = "load" /\ q.left = Target[r] /\ q.todo = p.todo
        /\ q.ready = p.ready /\ q.landed = p.landed /\ q.pending = p.pending
        /\ q.deferred = p.deferred /\ q.toVectors = p.toVectors /\ q.toRows = p.toRows
        /\ q.changed = p.changed /\ q.stamping = p.stamping /\ q.purging = p.purging
        /\ q.force = f /\ ~f
        /\ \A s \in Runs : s # r => run'[s] = run[s]
    BY <1>1 DEF Start, Active, RunStates, Meeting
  <1>3. UNCHANGED <<source, row, chunkRows, points, accepted, awaiting>>
    BY DEF Start, stores, answers
  <1> HIDE DEF p, q
  <1>4. OneStage(q)
    BY <1>1, <1>2 DEF Carrying, OneStage
  <1>5. Carrying(q, Target[r])
    BY <1>1, <1>2, <1>4 DEF Carrying
  <1>6. \A d : (Owes(p, d) => Owes(q, d)) /\ (Purging(p, d) => Purging(q, d))
    BY <1>1, <1>2 DEF Owes, Purging, Writing, Carrying
  <1> QED
    BY <1>2, <1>3, <1>5, <1>6, MeetMove DEF p, q

LEMMA ExhaustMeets ==
  ASSUME NEW shared, MeetInv(shared), NEW r \in Runs, Exhaust(r)
  PROVE  MeetRest(shared)'
  <1> DEFINE p == run[r]
  <1> DEFINE q == run'[r]
  <1>1. p \in RunStates /\ Carrying(p, Target[r]) /\ run \in [Runs -> RunStates]
    BY OfMeet
  <1>2. /\ p.pc = "load" /\ q.pc = "flush" /\ q.left = p.left /\ q.todo = p.todo
        /\ q.ready = p.ready /\ q.landed = p.landed /\ q.pending = p.pending
        /\ q.deferred = p.deferred /\ q.toVectors = p.toVectors /\ q.toRows = p.toRows
        /\ q.changed = p.changed /\ q.stamping = p.stamping /\ q.purging = p.purging
        /\ q.force = p.force
        /\ \A s \in Runs : s # r => run'[s] = run[s]
    BY <1>1 DEF Exhaust, At, RunStates
  <1>3. UNCHANGED <<source, row, chunkRows, points, accepted, awaiting>>
    BY DEF Exhaust, stores, answers
  <1> HIDE DEF p, q
  <1>4. OneStage(q)
    BY <1>1, <1>2 DEF Carrying, OneStage
  <1>5. Carrying(q, Target[r])
    BY <1>1, <1>2, <1>4 DEF Carrying
  <1>6. \A d : (Owes(p, d) => Owes(q, d)) /\ (Purging(p, d) => Purging(q, d))
    BY <1>1, <1>2 DEF Owes, Purging, Writing, Carrying
  <1> QED
    BY <1>2, <1>3, <1>5, <1>6, MeetMove DEF p, q

LEMMA NextGroupMeets ==
  ASSUME NEW shared, MeetInv(shared), NEW r \in Runs, NextGroup(r)
  PROVE  MeetRest(shared)'
  <1> DEFINE p == run[r]
  <1> DEFINE q == run'[r]
  <1>1. p \in RunStates /\ Carrying(p, Target[r]) /\ run \in [Runs -> RunStates]
    BY OfMeet
  <1>2. /\ p.pc = "write" /\ q.pc = "process" /\ q.left = p.left /\ q.todo = p.todo
        /\ q.ready = p.ready /\ q.landed = p.landed /\ q.pending = p.pending
        /\ q.deferred = p.deferred /\ q.toVectors = p.toVectors /\ q.toRows = p.toRows
        /\ q.changed = p.changed /\ q.stamping = p.stamping /\ q.purging = p.purging
        /\ q.force = p.force
        /\ p.toVectors = {} /\ p.toRows = {}
        /\ \A s \in Runs : s # r => run'[s] = run[s]
    BY <1>1 DEF NextGroup, BatchDone, At, RunStates
  <1>3. UNCHANGED <<source, row, chunkRows, points, accepted, awaiting>>
    BY DEF NextGroup, stores, answers
  <1> HIDE DEF p, q
  <1>4. OneStage(q)
    BY <1>1, <1>2 DEF Carrying, OneStage
  <1>5. Carrying(q, Target[r])
    BY <1>1, <1>2, <1>4 DEF Carrying
  <1>6. \A d : (Owes(p, d) => Owes(q, d)) /\ (Purging(p, d) => Purging(q, d))
    BY <1>1, <1>2 DEF Owes, Purging, Writing, Carrying
  <1> QED
    BY <1>2, <1>3, <1>5, <1>6, MeetMove DEF p, q

LEMMA InvalidateMeets ==
  ASSUME NEW shared, MeetInv(shared), NEW r \in Runs, Invalidate(r)
  PROVE  MeetRest(shared)'
  <1> DEFINE p == run[r]
  <1> DEFINE q == run'[r]
  <1>1. p \in RunStates /\ Carrying(p, Target[r]) /\ run \in [Runs -> RunStates]
    BY OfMeet
  <1>2. /\ p.pc = "invalidate" /\ q.pc = "documents" /\ q.left = p.left /\ q.todo = p.todo
        /\ q.ready = p.ready /\ q.landed = p.landed /\ q.pending = p.pending
        /\ q.deferred = p.deferred /\ q.toVectors = p.toVectors /\ q.toRows = p.toRows
        /\ q.changed = p.changed /\ q.stamping = p.stamping /\ q.purging = p.purging
        /\ q.force = p.force
        /\ \A s \in Runs : s # r => run'[s] = run[s]
    BY <1>1 DEF Invalidate, At, RunStates
  <1>3. UNCHANGED <<source, row, chunkRows, points, accepted, awaiting>>
    BY DEF Invalidate, stores
  <1> HIDE DEF p, q
  <1>4. OneStage(q)
    BY <1>1, <1>2 DEF Carrying, OneStage
  <1>5. Carrying(q, Target[r])
    BY <1>1, <1>2, <1>4 DEF Carrying
  <1>6. \A d : (Owes(p, d) => Owes(q, d)) /\ (Purging(p, d) => Purging(q, d))
    BY <1>1, <1>2 DEF Owes, Purging, Writing, Carrying
  <1> QED
    BY <1>2, <1>3, <1>5, <1>6, MeetMove DEF p, q

LEMMA FlushMeets ==
  ASSUME NEW shared, Meeting(shared), MeetInv(shared), NEW r \in Runs, Flush(r)
  PROVE  MeetRest(shared)'
  <1> DEFINE p == run[r]
  <1> DEFINE q == run'[r]
  <1>1. p \in RunStates /\ Carrying(p, Target[r]) /\ run \in [Runs -> RunStates]
    BY OfMeet
  <1>2. /\ p.pc = "flush" /\ q.pc = "count" /\ q.left = p.left /\ q.todo = p.todo
        /\ q.ready = p.ready /\ q.landed = p.landed /\ q.pending = p.pending
        /\ q.deferred = p.deferred /\ q.toVectors = p.toVectors /\ q.toRows = p.toRows
        /\ q.changed = p.changed /\ q.stamping = p.stamping /\ q.purging = p.purging
        /\ q.force = p.force
        /\ \A s \in Runs : s # r => run'[s] = run[s]
    BY <1>1 DEF Flush, At, RunStates
  <1>3. UNCHANGED <<source, row, chunkRows, points, accepted, awaiting>> /\ accepted = {}
    BY DEF Flush, stores, answers, Meeting
  <1> HIDE DEF p, q
  <1>4. OneStage(q)
    BY <1>1, <1>2 DEF Carrying, OneStage
  <1>5. Carrying(q, Target[r])
    BY <1>1, <1>2, <1>4 DEF Carrying
  <1>6. \A d : (Owes(p, d) => Owes(q, d)) /\ (Purging(p, d) => Purging(q, d))
    BY <1>1, <1>2 DEF Owes, Purging, Writing, Carrying
  <1> QED
    BY <1>2, <1>3, <1>5, <1>6, MeetMove DEF p, q

LEMMA LoadMeets ==
  ASSUME NEW shared, MeetInv(shared), NEW r \in Runs, Load(r)
  PROVE  MeetRest(shared)'
  <1> DEFINE p == run[r]
  <1> DEFINE q == run'[r]
  <1>1. p \in RunStates /\ Carrying(p, Target[r]) /\ run \in [Runs -> RunStates]
    BY OfMeet
  <1>2. PICK w \in Windows(p.left, DocWindow) :
          run' = [run EXCEPT ![r].pc = "select", ![r].left = @ \ w,
                             ![r].todo = {<<d, source[d]>> : d \in w}]
    BY DEF Load
  <1>3. /\ p.pc = "load" /\ q.pc = "select" /\ q.left = p.left \ w
        /\ q.todo = {<<d, source[d]>> : d \in w}
        /\ q.ready = p.ready /\ q.landed = p.landed /\ q.pending = p.pending
        /\ q.deferred = p.deferred /\ q.toVectors = p.toVectors /\ q.toRows = p.toRows
        /\ q.changed = p.changed /\ q.stamping = p.stamping /\ q.purging = p.purging
        /\ q.force = p.force
        /\ \A s \in Runs : s # r => run'[s] = run[s]
    BY <1>1, <1>2 DEF Load, At, RunStates
  <1>4. UNCHANGED <<source, row, chunkRows, points, accepted, awaiting>>
    BY DEF Load, stores, answers
  <1>5. w \subseteq p.left
    BY DEF Windows
  <1> HIDE DEF p, q
  <1>6. p.ready = {} /\ p.landed = {} /\ p.changed = {} /\ p.left \cup p.purging \subseteq Target[r]
    BY <1>1, <1>3 DEF Carrying
  <1>7. \A x \in q.todo : x[1] \in w /\ x[2] = source[x[1]] /\ x = <<x[1], x[2]>>
    BY <1>3
  <1>8. OneStage(q)
    BY <1>3, <1>6, <1>7 DEF OneStage
  <1>9. q.left \cup DocsOf(q.todo \cup q.ready \cup q.landed) \cup q.purging \subseteq Target[r]
    BY <1>3, <1>5, <1>6, <1>7 DEF DocsOf
  <1>10. Carrying(q, Target[r])
    BY <1>1, <1>3, <1>6, <1>7, <1>8, <1>9 DEF Carrying
  <1>11. \A d : (Owes(p, d) => Owes(q, d)) /\ (Purging(p, d) => Purging(q, d))
    BY <1>1, <1>3 DEF Owes, Purging, Writing, Carrying
  <1>12. q.changed = {} /\ q.landed = p.landed /\ q.stamping = p.stamping
    BY <1>3, <1>6
  <1> QED
    BY <1>3, <1>4, <1>10, <1>11, <1>12, MeetMove DEF p, q

\* What a run will purge has a checksum of another version.
LEMMA SelectMeets ==
  ASSUME NEW shared, Meeting(shared), MeetInv(shared), NEW r \in Runs, SelectChanged(r)
  PROVE  MeetRest(shared)'
  <1> DEFINE p == run[r]
  <1> DEFINE q == run'[r]
  <1> DEFINE todo == {dv \in p.todo : Prior(dv[1]) # dv[2]}
  <1> DEFINE changed == {dv \in todo : Prior(dv[1]) # Absent}
  <1>1. p \in RunStates /\ Carrying(p, Target[r]) /\ run \in [Runs -> RunStates]
        /\ p.pc = "select" /\ ~p.force
    BY OfMeet DEF SelectChanged, Carrying
  <1>2. run' = [run EXCEPT ![r].pc = IF todo = {} THEN "load" ELSE "process",
                           ![r].todo = todo, ![r].changed = DocsOf(changed)]
    BY <1>1 DEF SelectChanged
  <1>3. UNCHANGED <<source, row, chunkRows, points, accepted, awaiting>>
    BY DEF SelectChanged, stores, answers
  <1>4. todo \subseteq p.todo /\ (todo = {} => DocsOf(changed) = {})
    BY DEF DocsOf
  <1>5. \A d \in DocsOf(changed) : Old(d)
    <2> SUFFICES ASSUME NEW x \in changed PROVE Old(x[1])
      BY DEF DocsOf
    <2>1. x \in p.todo /\ Prior(x[1]) # x[2] /\ Prior(x[1]) # Absent
      OBVIOUS
    <2>2. x[2] = source[x[1]]
      BY <1>1, <2>1 DEF Carrying
    <2> QED
      BY <2>1, <2>2 DEF Old, Prior
  <1> HIDE DEF todo, changed
  <1>6. /\ q.pc = (IF todo = {} THEN "load" ELSE "process")
        /\ q.todo = todo /\ q.changed = DocsOf(changed) /\ q.left = p.left
        /\ q.ready = p.ready /\ q.landed = p.landed /\ q.pending = p.pending
        /\ q.deferred = p.deferred /\ q.toVectors = p.toVectors /\ q.toRows = p.toRows
        /\ q.stamping = p.stamping /\ q.purging = p.purging
        /\ q.force = p.force
        /\ \A s \in Runs : s # r => run'[s] = run[s]
    BY <1>1, <1>2 DEF RunStates
  <1> HIDE DEF p, q
  <1>7. p.ready = {} /\ p.landed = {} /\ p.stamping = {}
    BY <1>1 DEF Carrying
  <1>8. OneStage(q)
    BY <1>1, <1>4, <1>6, <1>7 DEF Carrying, OneStage
  <1>9. q.left \cup DocsOf(q.todo \cup q.ready \cup q.landed) \cup q.purging \subseteq Target[r]
    <2>1. DocsOf(q.todo \cup q.ready \cup q.landed) \subseteq DocsOf(p.todo \cup p.ready \cup p.landed)
      BY <1>4, <1>6 DEF DocsOf
    <2> QED
      BY <1>1, <1>6, <2>1 DEF Carrying
  <1>10. Carrying(q, Target[r])
    BY <1>1, <1>4, <1>6, <1>7, <1>8, <1>9 DEF Carrying
  <1>11. \A d : (Owes(p, d) => Owes(q, d)) /\ (Purging(p, d) => Purging(q, d))
    BY <1>1, <1>6, <1>7 DEF Owes, Purging, Writing, DocsOf
  <1>12. q.pc \notin {"idle", "count", "stamp"}
    BY <1>6
  <1> QED
    BY <1>3, <1>5, <1>6, <1>10, <1>11, <1>12, MeetMove DEF p, q

LEMMA ProcessMeets ==
  ASSUME NEW shared, MeetInv(shared), NEW r \in Runs, Process(r)
  PROVE  MeetRest(shared)'
  <1> DEFINE p == run[r]
  <1> DEFINE q == run'[r]
  <1>1. p \in RunStates /\ Carrying(p, Target[r]) /\ run \in [Runs -> RunStates]
        /\ p.pc = "process"
    BY OfMeet DEF Process, At
  <1>2. PICK group \in Windows(p.todo, Window) : \E ready \in SUBSET group :
            run' = [run EXCEPT
                 ![r].pc = IF ready # {}
                           THEN IF DocsOf(ready) \cap p.changed # {} THEN "purgeVectors"
                                ELSE "documents"
                           ELSE IF p.todo \ group # {} THEN "process" ELSE "write",
                 ![r].todo = p.todo \ group, ![r].ready = ready,
                 ![r].deferred = @ \cup ParentsOf(ready)]
    BY DEF Process
  <1>a. PICK ready \in SUBSET group :
            run' = [run EXCEPT
                 ![r].pc = IF ready # {}
                           THEN IF DocsOf(ready) \cap p.changed # {} THEN "purgeVectors"
                                ELSE "documents"
                           ELSE IF p.todo \ group # {} THEN "process" ELSE "write",
                 ![r].todo = p.todo \ group, ![r].ready = ready,
                 ![r].deferred = @ \cup ParentsOf(ready)]
    BY <1>2
  <1>3. UNCHANGED <<source, row, chunkRows, points, accepted, awaiting>>
    BY DEF Process, stores, answers
  <1>4. group \subseteq p.todo /\ ready \subseteq p.todo /\ ready \subseteq group
    BY DEF Windows
  <1>5. /\ q.pc \in {"purgeVectors", "documents", "process", "write"}
        /\ q.pc \in {"process", "write"} => ready = {}
        /\ q.todo = p.todo \ group /\ q.ready = ready /\ q.changed = p.changed
        /\ q.left = p.left /\ q.landed = p.landed /\ q.pending = p.pending
        /\ q.deferred = p.deferred \cup ParentsOf(ready)
        /\ q.toVectors = p.toVectors /\ q.toRows = p.toRows
        /\ q.stamping = p.stamping /\ q.purging = p.purging /\ q.force = p.force
        /\ \A s \in Runs : s # r => run'[s] = run[s]
    BY <1>1, <1>a DEF RunStates
  <1> HIDE DEF p, q
  <1>6. p.ready = {} /\ p.stamping = {} /\ p.toVectors = {} /\ p.toRows = {}
    BY <1>1 DEF Carrying
  <1>7. DocsOf(q.todo \cup q.ready \cup q.landed) \subseteq DocsOf(p.todo \cup p.ready \cup p.landed)
        /\ DocsOf(q.todo \cup q.ready) \subseteq DocsOf(p.todo \cup p.ready)
    BY <1>4, <1>5 DEF DocsOf
  <1>8. OneStage(q)
    BY <1>1, <1>4, <1>5, <1>6 DEF Carrying, OneStage
  <1>9. q.deferred \subseteq ParentsOf(q.ready \cup q.landed) /\ ParentsOf(q.ready) \subseteq q.deferred
    <2>1. p.deferred \subseteq ParentsOf(p.landed)
      <3>1. p.ready \cup p.landed = p.landed
        BY <1>6
      <3> QED
        BY <1>1, <3>1 DEF Carrying
    <2> QED
      BY <1>5, <2>1 DEF ParentsOf
  <1>10. q.todo \cup q.ready \cup q.landed \cup q.stamping
           \subseteq p.todo \cup p.ready \cup p.landed \cup p.stamping
    BY <1>4, <1>5
  <1>11. \A x \in q.todo \cup q.ready \cup q.landed \cup q.stamping : x[2] = source[x[1]]
    BY <1>1, <1>10 DEF Carrying
  <1>12. q.left \cup DocsOf(q.todo \cup q.ready \cup q.landed) \cup q.purging \subseteq Target[r]
    BY <1>1, <1>5, <1>7 DEF Carrying
  <1>13. Carrying(q, Target[r])
    BY <1>1, <1>5, <1>6, <1>8, <1>9, <1>11, <1>12 DEF Carrying
  <1>14. \A d : ~Purging(p, d) /\ (Writing(p, d) => Writing(q, d))
    BY <1>1, <1>5, <1>6 DEF Purging, Writing
  <1>15. \A d : (Owes(p, d) => Owes(q, d)) /\ (Purging(p, d) => Purging(q, d))
    BY <1>14 DEF Owes
  <1>16. q.landed = p.landed /\ q.stamping = {} /\ q.changed = p.changed
         /\ q.pc \notin {"idle", "count", "stamp"}
    BY <1>5, <1>6
  <1>17. DocsOf({}) = {}
    BY DEF DocsOf
  <1> QED
    BY <1>3, <1>5, <1>7, <1>13, <1>15, <1>16, <1>17, MeetMove DEF p, q

LEMMA NextBatchMeets ==
  ASSUME NEW shared, MeetInv(shared), NEW r \in Runs, NextBatch(r)
  PROVE  MeetRest(shared)'
  <1> DEFINE p == run[r]
  <1> DEFINE q == run'[r]
  <1>1. p \in RunStates /\ Carrying(p, Target[r]) /\ run \in [Runs -> RunStates]
        /\ p.pc = "write" /\ p.toVectors = {} /\ p.toRows = {}
    BY OfMeet DEF NextBatch, BatchDone, At
  <1>2. PICK b \in Windows(p.pending, Batch) :
          run' = [run EXCEPT ![r].pending = @ \ b, ![r].toVectors = b, ![r].toRows = b]
    BY DEF NextBatch
  <1>3. UNCHANGED <<source, row, chunkRows, points, accepted, awaiting>>
    BY DEF NextBatch, stores, answers
  <1>4. b \subseteq p.pending
    BY DEF Windows
  <1>5. /\ q.pc = p.pc /\ q.left = p.left /\ q.todo = p.todo /\ q.changed = p.changed
        /\ q.ready = p.ready /\ q.landed = p.landed /\ q.pending = p.pending \ b
        /\ q.deferred = p.deferred /\ q.toVectors = b /\ q.toRows = b
        /\ q.stamping = p.stamping /\ q.purging = p.purging /\ q.force = p.force
        /\ \A s \in Runs : s # r => run'[s] = run[s]
    BY <1>1, <1>2 DEF RunStates
  <1> HIDE DEF p, q
  <1>6. OneStage(q)
    BY <1>1, <1>5 DEF Carrying, OneStage
  <1>7. Carrying(q, Target[r])
    BY <1>1, <1>4, <1>5, <1>6 DEF Carrying, Stale
  <1>8. \A d : (Purging(p, d) => Purging(q, d)) /\ (Writing(p, d) => Writing(q, d))
    BY <1>1, <1>4, <1>5 DEF Purging, Writing
  <1>9. \A d : Owes(p, d) => Owes(q, d)
    BY <1>8 DEF Owes
  <1> QED
    BY <1>1, <1>3, <1>5, <1>7, <1>8, <1>9, MeetMove DEF p, q

LEMMA CountMeets ==
  ASSUME NEW shared, MeetInv(shared), NEW r \in Runs, Count(r)
  PROVE  MeetRest(shared)'
  <1> DEFINE p == run[r]
  <1> DEFINE q == run'[r]
  <1> DEFINE s == {<<d, awaiting[d]>> : d \in {e \in Docs : awaiting[e] # Absent}}
  <1>1. p \in RunStates /\ Carrying(p, Target[r]) /\ run \in [Runs -> RunStates]
        /\ p.pc = "count"
    BY OfMeet DEF Count, At
  <1>2. q = IF s = {} THEN Idle ELSE [p EXCEPT !.pc = "stamp", !.stamping = s]
    BY <1>1 DEF Count
  <1>3. UNCHANGED <<source, row, chunkRows, points, accepted, awaiting>>
        /\ \A t \in Runs : t # r => run'[t] = run[t]
    BY <1>1 DEF Count, stores, answers
  <1>4. /\ s = {} => \A d \in Docs : awaiting[d] = Absent
        /\ \A d \in DocsOf(s) : awaiting[d] # Absent
    <2>1. s = {} => \A d \in Docs : awaiting[d] = Absent
      OBVIOUS
    <2>2. ASSUME NEW x \in s PROVE awaiting[x[1]] # Absent
      OBVIOUS
    <2> HIDE DEF s
    <2> QED
      BY <2>1, <2>2 DEF DocsOf
  <1>5. \A x \in s : x[2] = source[x[1]]
    BY DEF MeetInv, MeetRest, Kept
  <1> HIDE DEF p, q, s
  <1>6. p.todo = {} /\ p.ready = {} /\ p.landed = {} /\ p.pending = {} /\ p.deferred = {}
        /\ p.toVectors = {} /\ p.toRows = {} /\ p.changed = {}
    BY <1>1 DEF Carrying
  <1>7. /\ q.pc \in {"idle", "stamp"} /\ q.todo = {} /\ q.ready = {} /\ q.landed = {}
        /\ q.pending = {} /\ q.deferred = {} /\ q.toVectors = {} /\ q.toRows = {}
        /\ q.changed = {} /\ q.left \subseteq p.left /\ q.purging \subseteq p.purging
        /\ ~q.force
        /\ q.pc = "idle" => s = {}
        /\ q.stamping = s
    <2>1. CASE s = {}
      BY <1>2, <2>1 DEF Idle
    <2>2. CASE s # {}
      BY <1>1, <1>2, <1>6, <2>2 DEF Carrying, RunStates
    <2> QED
      BY <2>1, <2>2
  <1>8. DocsOf({}) = {} /\ LeavesOf({}) = {} /\ ParentsOf({}) = {}
    BY DEF DocsOf, LeavesOf, ParentsOf
  <1>9. OneStage(q)
    BY <1>7 DEF OneStage
  <1>10. Carrying(q, Target[r])
    BY <1>1, <1>5, <1>6, <1>7, <1>8, <1>9 DEF Carrying
  <1>11. \A d : ~Owes(p, d) /\ ~Purging(p, d)
    BY <1>6, <1>8 DEF Owes, Purging, Writing
  <1> QED
    BY <1>1, <1>3, <1>4, <1>6, <1>7, <1>8, <1>10, <1>11, MeetMove DEF p, q

\* What a run still writes of a document it owes.
LEMMA WritingAs ==
  ASSUME NEW r \in Runs, NEW d, source' = source,
         d \in DocsOf(run'[r].landed),
         LeavesOf(Current(d)) \subseteq
           run'[r].pending \cup run'[r].toVectors \cup points' \cup accepted',
         LeavesOf(Current(d)) \subseteq run'[r].pending \cup run'[r].toRows \cup chunkRows',
         ParentsOf(Current(d)) \subseteq run'[r].deferred \cup chunkRows'
  PROVE  Owes(run[r], d)'
  <1>1. Writing(run[r], d)'
    BY DEF Writing, Current
  <1> QED
    BY <1>1 DEF Owes

LEMMA PurgingAs ==
  ASSUME NEW r \in Runs, NEW d, Purging(run'[r], d)
  PROVE  Purging(run[r], d)' /\ Owes(run[r], d)'
  <1>1. Purging(run[r], d)'
    BY DEF Purging
  <1> QED
    BY <1>1 DEF Owes

\* No two documents of a run that has landed one are the same.
LEMMA NotLanded ==
  ASSUME NEW q, NEW target, Carrying(q, target), NEW d \in DocsOf(q.ready)
  PROVE  d \notin DocsOf(q.landed)
  BY DEF Carrying, OneStage, DocsOf

\* A run that writes to a store or purges it, and lands nothing.
LEMMA MeetWrite ==
  ASSUME NEW shared, Meeting(shared), MeetInv(shared), NEW r \in Runs, NEW p, NEW q, NEW gone,
         p = run[r], q = run'[r],
         UNCHANGED <<source, awaiting>>,
         \A s \in Runs : s # r => run'[s] = run[s],
         Carrying(q, Target[r]), q.landed = p.landed, q.stamping = p.stamping,
         q.changed = p.changed, q.todo = p.todo, q.ready = p.ready,
         q.pc \notin {"idle", "count", "stamp"},
         gone \subseteq Stale(p),
         \A d \in Docs :
           /\ d \in gone => Purging(q, d)
           /\ Purging(p, d) => Purging(q, d)
           /\ row'[d] = row[d] \/ (row'[d] = Absent /\ d \in gone)
           /\ d \notin gone =>
                /\ LeavesOf(Current(d)) \cap (points \cup accepted) \subseteq points' \cup accepted'
                /\ (LeavesOf(Current(d)) \cup ParentsOf(Current(d))) \cap chunkRows \subseteq chunkRows'
                /\ Writing(p, d) =>
                     /\ LeavesOf(Current(d)) \subseteq q.pending \cup q.toVectors \cup points' \cup accepted'
                     /\ LeavesOf(Current(d)) \subseteq q.pending \cup q.toRows \cup chunkRows'
                     /\ ParentsOf(Current(d)) \subseteq q.deferred \cup chunkRows'
  PROVE  MeetRest(shared)'
  <1>1. \A d \in Docs : Kept(d) /\ (d # shared => KeptApart(d))
    BY DEF MeetInv, MeetRest
  <1>2. source \in [Docs -> Versions] /\ 0 \notin Versions
    BY DEF MeetInv, TypeOK, Versions
  <1>3. ASSUME NEW d \in Docs, Confirmed(d)' PROVE Confirmed(d)
    <2>1. row'[d] = source[d] => row[d] = source[d]
      BY <1>2 DEF Absent
    <2> QED
      BY <1>3, <2>1 DEF Confirmed
  <1>4. \A d \in gone : d \in DocsOf(p.ready) \cap p.changed
    BY DEF Stale
  <1>5. ASSUME NEW d \in Docs, d \in gone PROVE Owes(run[r], d)'
    BY <1>5, PurgingAs
  <1>6. ASSUME NEW d \in Docs, d \notin gone
        PROVE  /\ Full(d) => Full(d)'
               /\ \A s \in Runs : s # r /\ Owes(run[s], d) => Owes(run[s], d)'
    BY <1>6, OwesKept
  <1>7. ASSUME NEW d \in Docs, d \notin gone, Owes(p, d) PROVE Owes(run[r], d)'
    <2>1. CASE Purging(p, d)
      BY <2>1, PurgingAs
    <2>2. CASE Writing(p, d)
      <3>1. d \in DocsOf(q.landed)
        BY <2>2 DEF Writing
      <3> QED
        BY <1>7, <2>2, <3>1, WritingAs
    <2> QED
      BY <1>7, <2>1, <2>2 DEF Owes
  <1>8. ASSUME NEW d \in Docs, Old(d)'
        PROVE  Old(d) /\ awaiting'[d] = Absent /\ d \notin DocsOf(q.stamping \cup q.landed)
    <2>1. Old(d)
      BY <1>2, <1>8 DEF Old, Versions, Absent
    <2> QED
      BY <1>1, <2>1 DEF Kept
  <1>9. ASSUME NEW d \in Docs, d # shared PROVE KeptApart(d)'
    <2>1. SUFFICES ASSUME Confirmed(d)'
                   PROVE  /\ Full(d)'
                          /\ \A s \in Runs : d \notin run'[s].changed \cap DocsOf(run'[s].todo \cup run'[s].ready)
      BY DEF KeptApart
    <2>2. /\ Full(d)
          /\ \A s \in Runs : d \notin run[s].changed \cap DocsOf(run[s].todo \cup run[s].ready)
      BY <1>1, <1>3, <1>9, <2>1 DEF KeptApart
    <2>3. d \notin gone
      BY <1>4, <2>2 DEF DocsOf
    <2> QED
      BY <1>6, <2>2, <2>3
  <1>10. Orphaned(shared)'
    <2> SUFFICES ASSUME NEW s \in Runs, NEW d \in DocsOf(run'[s].landed), row'[d] = Absent
                 PROVE  d = shared /\ \E t \in Runs \ {s} : Purging(run[t], d)'
      BY DEF Orphaned
    <2>1. d \in DocsOf(run[s].landed)
      OBVIOUS
    <2>2. d \in Docs /\ d \in Target[s]
      BY <2>1, OfMeet, RunFields, OwedIsTargeted DEF DocsOf, DocVersions
    <2>3. CASE row[d] = Absent
      <3>1. d = shared /\ \E t \in Runs \ {s} : Purging(run[t], d)
        BY <2>1, <2>3 DEF MeetInv, MeetRest, Orphaned
      <3>2. PICK t \in Runs \ {s} : Purging(run[t], d)
        BY <3>1
      <3>3. Purging(run'[t], d)
        BY <2>2, <3>2
      <3> QED
        BY <3>1, <3>3, PurgingAs
    <2>4. CASE row[d] # Absent
      <3>1. d \in gone /\ d \in DocsOf(p.ready)
        BY <1>4, <2>2, <2>4
      <3>2. s # r
        BY <2>1, <3>1, NotLanded, OfMeet
      <3>3. d \in Target[r]
        BY <3>1, OwedIsTargeted, OfMeet
      <3>4. d = shared
        BY <2>2, <3>2, <3>3 DEF Meeting
      <3>5. Purging(run'[r], d)
        BY <2>2, <3>1
      <3> QED
        BY <3>2, <3>4, <3>5, PurgingAs
    <2> QED
      BY <2>3, <2>4
  <1>11. Awaited'
    BY DEF Awaited, Active
  <1>12. \A d \in Docs : awaiting'[d] \in {Absent, source[d]}
    BY <1>1 DEF Kept
  <1>13. ASSUME NEW d \in Docs
         PROVE  /\ Confirmed(d)' => Confirmed(d) \/ d \in DocsOf(run[r].landed)
                /\ d \in DocsOf(run'[r].landed) =>
                     d \in DocsOf(run[r].landed) \/ Owes(run[r], d)'
                /\ Full(d) => Full(d)' \/ Owes(run[r], d)'
                /\ Owes(run[r], d) =>
                     Full(d)' \/ Owes(run[r], d)' \/ \E s \in Runs \ {r} : Owes(run[s], d)'
                /\ \A s \in Runs \ {r} : Owes(run[s], d) => Owes(run[s], d)' \/ Owes(run[r], d)'
    BY <1>3, <1>5, <1>6, <1>7
  <1> QED
    BY <1>8, <1>9, <1>10, <1>11, <1>12, <1>13, MeetStep

LEMMA PurgeVectorsMeets ==
  ASSUME NEW shared, Meeting(shared), MeetInv(shared), NEW r \in Runs, PurgeVectors(r)
  PROVE  MeetRest(shared)'
  <1> DEFINE p == run[r]
  <1> DEFINE q == run'[r]
  <1> DEFINE stale == Stale(p)
  <1>1. p \in RunStates /\ Carrying(p, Target[r]) /\ run \in [Runs -> RunStates]
        /\ p.pc = "purgeVectors"
    BY OfMeet DEF PurgeVectors, At
  <1>2. /\ points' = points \ Of(points, stale) /\ accepted' = accepted \ Of(accepted, stale)
        /\ UNCHANGED <<source, row, chunkRows, awaiting>>
        /\ run' = [run EXCEPT ![r].pc = "purgeRows", ![r].purging = stale]
    BY DEF PurgeVectors, answers
  <1> HIDE DEF stale
  <1>3. /\ q.pc = "purgeRows" /\ q.purging = stale
        /\ q.left = p.left /\ q.todo = p.todo /\ q.changed = p.changed
        /\ q.ready = p.ready /\ q.landed = p.landed /\ q.pending = p.pending
        /\ q.deferred = p.deferred /\ q.toVectors = p.toVectors /\ q.toRows = p.toRows
        /\ q.stamping = p.stamping /\ q.force = p.force
        /\ \A s \in Runs : s # r => run'[s] = run[s]
    BY <1>1, <1>2 DEF RunStates
  <1>4. stale = Stale(q) /\ stale \subseteq DocsOf(p.ready)
    BY <1>3 DEF stale, Stale
  <1> HIDE DEF p, q
  <1>5. OneStage(q)
    BY <1>1, <1>3 DEF Carrying, OneStage
  <1>6. stale \subseteq Target[r]
    BY <1>1, <1>4, OwedIsTargeted
  <1>7. Carrying(q, Target[r])
    BY <1>1, <1>3, <1>4, <1>5, <1>6 DEF Carrying
  <1>8. \A d : (d \in stale => Purging(q, d)) /\ (Purging(p, d) => Purging(q, d))
    BY <1>1, <1>3, <1>4 DEF Purging
  <1>9. ASSUME NEW d \in Docs, d \notin stale
        PROVE  LeavesOf(Current(d)) \cap (points \cup accepted) \subseteq points' \cup accepted'
    BY <1>2, <1>9, ChunksOf DEF Of
  <1>10. ASSUME NEW d \in Docs, d \notin stale, Writing(p, d)
         PROVE  /\ LeavesOf(Current(d)) \subseteq q.pending \cup q.toVectors \cup points' \cup accepted'
                /\ LeavesOf(Current(d)) \subseteq q.pending \cup q.toRows \cup chunkRows'
                /\ ParentsOf(Current(d)) \subseteq q.deferred \cup chunkRows'
    BY <1>2, <1>3, <1>9, <1>10 DEF Writing
  <1>11. stale \subseteq Stale(p)
    BY DEF stale
  <1>12. ASSUME NEW d \in Docs
         PROVE  /\ d \in stale => Purging(q, d)
                /\ Purging(p, d) => Purging(q, d)
                /\ row'[d] = row[d] \/ (row'[d] = Absent /\ d \in stale)
                /\ d \notin stale =>
                     /\ LeavesOf(Current(d)) \cap (points \cup accepted) \subseteq points' \cup accepted'
                     /\ (LeavesOf(Current(d)) \cup ParentsOf(Current(d))) \cap chunkRows \subseteq chunkRows'
                     /\ Writing(p, d) =>
                          /\ LeavesOf(Current(d)) \subseteq q.pending \cup q.toVectors \cup points' \cup accepted'
                          /\ LeavesOf(Current(d)) \subseteq q.pending \cup q.toRows \cup chunkRows'
                          /\ ParentsOf(Current(d)) \subseteq q.deferred \cup chunkRows'
    BY <1>2, <1>8, <1>9, <1>10
  <1>13. UNCHANGED <<source, awaiting>>
    BY <1>2
  <1>14. /\ q.landed = p.landed /\ q.stamping = p.stamping
         /\ q.changed = p.changed /\ q.todo = p.todo /\ q.ready = p.ready
         /\ q.pc \notin {"idle", "count", "stamp"}
         /\ \A s \in Runs : s # r => run'[s] = run[s]
    BY <1>3
  <1> QED
    BY <1>7, <1>11, <1>12, <1>13, <1>14, MeetWrite DEF p, q

LEMMA PurgeRowsMeets ==
  ASSUME NEW shared, Meeting(shared), MeetInv(shared), NEW r \in Runs, PurgeRows(r)
  PROVE  MeetRest(shared)'
  <1> DEFINE p == run[r]
  <1> DEFINE q == run'[r]
  <1>1. p \in RunStates /\ Carrying(p, Target[r]) /\ run \in [Runs -> RunStates]
        /\ p.pc = "purgeRows" /\ row \in [Docs -> 0..Unstamped]
    BY OfMeet DEF PurgeRows, At, TypeOK
  <1>2. PICK e \in p.purging :
         /\ row' = [row EXCEPT ![e] = Absent]
         /\ chunkRows' = chunkRows \ Of(chunkRows, {e})
         /\ run' = [run EXCEPT
              ![r].purging = @ \ {e},
              ![r].pc = IF run[r].purging = {e} THEN "invalidate" ELSE @]
    BY DEF PurgeRows
  <1>3. UNCHANGED <<source, points, accepted, awaiting>>
    BY DEF PurgeRows, answers
  <1>4. /\ q.pc \in {"purgeRows", "invalidate"}
        /\ q.purging = p.purging \ {e}
        /\ q.left = p.left /\ q.todo = p.todo /\ q.changed = p.changed
        /\ q.ready = p.ready /\ q.landed = p.landed /\ q.pending = p.pending
        /\ q.deferred = p.deferred /\ q.toVectors = p.toVectors /\ q.toRows = p.toRows
        /\ q.stamping = p.stamping /\ q.force = p.force
        /\ \A s \in Runs : s # r => run'[s] = run[s]
    BY <1>1, <1>2 DEF RunStates
  <1>5. Stale(q) = Stale(p) /\ e \in Stale(p) /\ e \in DocsOf(p.ready) /\ e \in Docs
        /\ p.purging \subseteq Stale(p)
    BY <1>1, <1>2, <1>4, RunFields DEF Stale, Carrying
  <1>6. /\ \A d \in Docs \ {e} : row'[d] = row[d]
        /\ row'[e] = Absent
        /\ \A c \in chunkRows : c[1] # e => c \in chunkRows'
    BY <1>1, <1>2, <1>5 DEF Of
  <1> HIDE DEF p, q
  <1>7. OneStage(q)
    BY <1>1, <1>4 DEF Carrying, OneStage
  <1>8. Carrying(q, Target[r])
    BY <1>1, <1>4, <1>5, <1>7 DEF Carrying
  <1>9. \A d : (d \in {e} => Purging(q, d)) /\ (Purging(p, d) => Purging(q, d))
    BY <1>1, <1>4, <1>5 DEF Purging
  <1>10. ASSUME NEW d \in Docs, d \notin {e}
         PROVE  /\ LeavesOf(Current(d)) \cap (points \cup accepted) \subseteq points' \cup accepted'
                /\ (LeavesOf(Current(d)) \cup ParentsOf(Current(d))) \cap chunkRows \subseteq chunkRows'
                /\ row'[d] = row[d]
    BY <1>3, <1>6, <1>10, ChunksOf
  <1>11. ASSUME NEW d \in Docs, d \notin {e}, Writing(p, d)
         PROVE  /\ LeavesOf(Current(d)) \subseteq q.pending \cup q.toVectors \cup points' \cup accepted'
                /\ LeavesOf(Current(d)) \subseteq q.pending \cup q.toRows \cup chunkRows'
                /\ ParentsOf(Current(d)) \subseteq q.deferred \cup chunkRows'
    BY <1>3, <1>4, <1>10, <1>11 DEF Writing
  <1>12. \A d \in Docs : row'[d] = row[d] \/ (row'[d] = Absent /\ d \in {e})
    BY <1>6
  <1>13. {e} \subseteq Stale(p)
    BY <1>5
  <1> DEFINE gone == {e}
  <1>14. ASSUME NEW d \in Docs
         PROVE  /\ d \in gone => Purging(q, d)
                /\ Purging(p, d) => Purging(q, d)
                /\ row'[d] = row[d] \/ (row'[d] = Absent /\ d \in gone)
                /\ d \notin gone =>
                     /\ LeavesOf(Current(d)) \cap (points \cup accepted) \subseteq points' \cup accepted'
                     /\ (LeavesOf(Current(d)) \cup ParentsOf(Current(d))) \cap chunkRows \subseteq chunkRows'
                     /\ Writing(p, d) =>
                          /\ LeavesOf(Current(d)) \subseteq q.pending \cup q.toVectors \cup points' \cup accepted'
                          /\ LeavesOf(Current(d)) \subseteq q.pending \cup q.toRows \cup chunkRows'
                          /\ ParentsOf(Current(d)) \subseteq q.deferred \cup chunkRows'
    BY <1>9, <1>10, <1>11, <1>12
  <1>15. UNCHANGED <<source, awaiting>>
    BY <1>3
  <1>16. /\ q.landed = p.landed /\ q.stamping = p.stamping
         /\ q.changed = p.changed /\ q.todo = p.todo /\ q.ready = p.ready
         /\ q.pc \notin {"idle", "count", "stamp"}
         /\ \A s \in Runs : s # r => run'[s] = run[s]
    BY <1>4
  <1>17. gone \subseteq Stale(p)
    BY <1>13
  <1> HIDE DEF gone
  <1> QED
    BY <1>8, <1>17, <1>14, <1>15, <1>16, MeetWrite DEF p, q

LEMMA SendVectorsMeets ==
  ASSUME NEW shared, Meeting(shared), MeetInv(shared), NEW r \in Runs, SendVectors(r)
  PROVE  MeetRest(shared)'
  <1> DEFINE p == run[r]
  <1> DEFINE q == run'[r]
  <1>1. p \in RunStates /\ Carrying(p, Target[r]) /\ run \in [Runs -> RunStates]
        /\ p.pc = "write"
    BY OfMeet DEF SendVectors, At
  <1>2. /\ accepted' = accepted \cup (p.toVectors \ points)
        /\ UNCHANGED <<source, row, chunkRows, points, awaiting>>
    BY DEF SendVectors, answers
  <1>3. /\ q.pc = p.pc /\ q.left = p.left /\ q.todo = p.todo /\ q.changed = p.changed
        /\ q.ready = p.ready /\ q.landed = p.landed /\ q.pending = p.pending
        /\ q.deferred = p.deferred /\ q.toVectors = {} /\ q.toRows = p.toRows
        /\ q.stamping = p.stamping /\ q.purging = p.purging /\ q.force = p.force
        /\ \A s \in Runs : s # r => run'[s] = run[s]
    BY <1>1 DEF SendVectors, RunStates
  <1> HIDE DEF p, q
  <1>4. OneStage(q)
    BY <1>1, <1>3 DEF Carrying, OneStage
  <1>5. Carrying(q, Target[r])
    BY <1>1, <1>3, <1>4 DEF Carrying
  <1>6. \A d : Purging(p, d) => Purging(q, d)
    BY <1>1, <1>3 DEF Purging
  <1>7. ASSUME NEW d \in Docs, Writing(p, d)
        PROVE  /\ LeavesOf(Current(d)) \subseteq q.pending \cup q.toVectors \cup points' \cup accepted'
               /\ LeavesOf(Current(d)) \subseteq q.pending \cup q.toRows \cup chunkRows'
               /\ ParentsOf(Current(d)) \subseteq q.deferred \cup chunkRows'
    BY <1>2, <1>3, <1>7 DEF Writing
  <1>8. \A S : S \cap (points \cup accepted) \subseteq points' \cup accepted'
               /\ S \cap chunkRows \subseteq chunkRows'
    BY <1>2
  <1>9. q.pc \notin {"idle", "count", "stamp"} /\ {} \subseteq Stale(p)
    BY <1>1, <1>3
  <1>10. \A d \in Docs : row'[d] = row[d] /\ d \notin {}
    BY <1>2
  <1>11. UNCHANGED <<source, awaiting>>
    BY <1>2
  <1> DEFINE gone == {}
  <1>12. ASSUME NEW d \in Docs
         PROVE  /\ d \in gone => Purging(q, d)
                /\ Purging(p, d) => Purging(q, d)
                /\ row'[d] = row[d] \/ (row'[d] = Absent /\ d \in gone)
                /\ d \notin gone =>
                     /\ LeavesOf(Current(d)) \cap (points \cup accepted) \subseteq points' \cup accepted'
                     /\ (LeavesOf(Current(d)) \cup ParentsOf(Current(d))) \cap chunkRows \subseteq chunkRows'
                     /\ Writing(p, d) =>
                          /\ LeavesOf(Current(d)) \subseteq q.pending \cup q.toVectors \cup points' \cup accepted'
                          /\ LeavesOf(Current(d)) \subseteq q.pending \cup q.toRows \cup chunkRows'
                          /\ ParentsOf(Current(d)) \subseteq q.deferred \cup chunkRows'
    BY <1>6, <1>7, <1>8, <1>10
  <1>13. gone \subseteq Stale(p) /\ q.pc \notin {"idle", "count", "stamp"}
    BY <1>9
  <1> HIDE DEF gone
  <1> QED
    BY <1>3, <1>5, <1>13, <1>11, <1>12, MeetWrite DEF p, q

LEMMA SendRowsMeets ==
  ASSUME NEW shared, Meeting(shared), MeetInv(shared), NEW r \in Runs, SendRows(r)
  PROVE  MeetRest(shared)'
  <1> DEFINE p == run[r]
  <1> DEFINE q == run'[r]
  <1>1. p \in RunStates /\ Carrying(p, Target[r]) /\ run \in [Runs -> RunStates]
        /\ p.pc = "write"
    BY OfMeet DEF SendRows, At
  <1>2. /\ chunkRows' = chunkRows \cup p.toRows
        /\ UNCHANGED <<source, row, accepted, points, awaiting>>
    BY DEF SendRows, answers
  <1>3. /\ q.pc = p.pc /\ q.left = p.left /\ q.todo = p.todo /\ q.changed = p.changed
        /\ q.ready = p.ready /\ q.landed = p.landed /\ q.pending = p.pending
        /\ q.deferred = p.deferred /\ q.toVectors = p.toVectors /\ q.toRows = {}
        /\ q.stamping = p.stamping /\ q.purging = p.purging /\ q.force = p.force
        /\ \A s \in Runs : s # r => run'[s] = run[s]
    BY <1>1 DEF SendRows, RunStates
  <1> HIDE DEF p, q
  <1>4. OneStage(q)
    BY <1>1, <1>3 DEF Carrying, OneStage
  <1>5. Carrying(q, Target[r])
    BY <1>1, <1>3, <1>4 DEF Carrying
  <1>6. \A d : Purging(p, d) => Purging(q, d)
    BY <1>1, <1>3 DEF Purging
  <1>7. ASSUME NEW d \in Docs, Writing(p, d)
        PROVE  /\ LeavesOf(Current(d)) \subseteq q.pending \cup q.toVectors \cup points' \cup accepted'
               /\ LeavesOf(Current(d)) \subseteq q.pending \cup q.toRows \cup chunkRows'
               /\ ParentsOf(Current(d)) \subseteq q.deferred \cup chunkRows'
    BY <1>2, <1>3, <1>7 DEF Writing
  <1>8. \A S : S \cap (points \cup accepted) \subseteq points' \cup accepted'
               /\ S \cap chunkRows \subseteq chunkRows'
    BY <1>2
  <1>9. q.pc \notin {"idle", "count", "stamp"} /\ {} \subseteq Stale(p)
    BY <1>1, <1>3
  <1>10. \A d \in Docs : row'[d] = row[d] /\ d \notin {}
    BY <1>2
  <1>11. UNCHANGED <<source, awaiting>>
    BY <1>2
  <1> DEFINE gone == {}
  <1>12. ASSUME NEW d \in Docs
         PROVE  /\ d \in gone => Purging(q, d)
                /\ Purging(p, d) => Purging(q, d)
                /\ row'[d] = row[d] \/ (row'[d] = Absent /\ d \in gone)
                /\ d \notin gone =>
                     /\ LeavesOf(Current(d)) \cap (points \cup accepted) \subseteq points' \cup accepted'
                     /\ (LeavesOf(Current(d)) \cup ParentsOf(Current(d))) \cap chunkRows \subseteq chunkRows'
                     /\ Writing(p, d) =>
                          /\ LeavesOf(Current(d)) \subseteq q.pending \cup q.toVectors \cup points' \cup accepted'
                          /\ LeavesOf(Current(d)) \subseteq q.pending \cup q.toRows \cup chunkRows'
                          /\ ParentsOf(Current(d)) \subseteq q.deferred \cup chunkRows'
    BY <1>6, <1>7, <1>8, <1>10
  <1>13. gone \subseteq Stale(p) /\ q.pc \notin {"idle", "count", "stamp"}
    BY <1>9
  <1> HIDE DEF gone
  <1> QED
    BY <1>3, <1>5, <1>13, <1>11, <1>12, MeetWrite DEF p, q

LEMMA WriteDocumentsMeets ==
  ASSUME NEW shared, MeetInv(shared), NEW r \in Runs, WriteDocuments(r)
  PROVE  MeetRest(shared)'
  <1> DEFINE p == run[r]
  <1> DEFINE q == run'[r]
  <1>1. p \in RunStates /\ Carrying(p, Target[r]) /\ run \in [Runs -> RunStates]
        /\ p.pc = "documents" /\ source \in [Docs -> Versions]
    BY OfMeet DEF WriteDocuments, At, TypeOK
  <1>2. /\ row' = [d \in Docs |-> IF d \in DocsOf(p.ready) THEN Unstamped ELSE row[d]]
        /\ source' = source /\ chunkRows' = chunkRows /\ points' = points
        /\ accepted' = accepted /\ awaiting' = awaiting
    BY DEF WriteDocuments, answers
  <1>3. /\ q.pc = "write" /\ q.ready = {} /\ q.landed = p.landed \cup p.ready
        /\ q.pending = p.pending \cup LeavesOf(p.ready)
        /\ q.left = p.left /\ q.todo = p.todo /\ q.changed = p.changed
        /\ q.deferred = p.deferred /\ q.toVectors = p.toVectors /\ q.toRows = p.toRows
        /\ q.stamping = p.stamping /\ q.purging = p.purging /\ q.force = p.force
        /\ \A s \in Runs : s # r => run'[s] = run[s]
    BY <1>1 DEF WriteDocuments, RunStates
  <1>4. p.ready \in SUBSET DocVersions
    BY <1>1, RunFields
  <1> HIDE DEF p, q
  <1>5. q.todo \cup q.ready \cup q.landed = p.todo \cup p.ready \cup p.landed
        /\ q.ready \cup q.landed = p.ready \cup p.landed
    BY <1>3
  <1>6. DocsOf(q.landed) = DocsOf(p.landed) \cup DocsOf(p.ready)
        /\ DocsOf(q.todo \cup q.ready) \subseteq DocsOf(p.todo \cup p.ready)
    BY <1>3 DEF DocsOf
  <1>7. Carrying(q, Target[r])
    <2>1. OneStage(q)
      BY <1>1, <1>3, <1>5 DEF Carrying, OneStage
    <2>2. q.pending \cup q.toVectors \cup q.toRows \subseteq LeavesOf(q.landed)
      BY <1>1, <1>3 DEF Carrying, LeavesOf
    <2>3. q.deferred \subseteq ParentsOf(q.ready \cup q.landed)
      BY <1>1, <1>3, <1>5 DEF Carrying
    <2>4. ParentsOf(q.ready) = {}
      BY <1>3 DEF ParentsOf
    <2>5. \A x \in q.todo \cup q.ready \cup q.landed \cup q.stamping : x[2] = source[x[1]]
      BY <1>1, <1>3 DEF Carrying
    <2>6. q.left \cup DocsOf(q.todo \cup q.ready \cup q.landed) \cup q.purging \subseteq Target[r]
      BY <1>1, <1>3, <1>5 DEF Carrying
    <2> QED
      BY <1>1, <1>3, <2>1, <2>2, <2>3, <2>4, <2>5, <2>6 DEF Carrying
  <1>8. \A d \in Docs : Kept(d) /\ (d # shared => KeptApart(d))
    BY DEF MeetInv, MeetRest
  <1>9. \A d \in Docs : source[d] \in Versions /\ Unstamped \notin Versions /\ Unstamped # Absent
    BY <1>1, IngestAssumption DEF Unstamped, Versions, Absent
  <1>10. ASSUME NEW d \in Docs
         PROVE  /\ row'[d] \in Versions \cup {Absent} => row'[d] = row[d] /\ d \notin DocsOf(p.ready)
                /\ row'[d] \in Versions => row'[d] # Unstamped
    BY <1>2, <1>9
  <1>11. ASSUME NEW d \in Docs, d \in DocsOf(p.ready) PROVE Owes(run[r], d)'
    <2>1. PICK x \in p.ready : x[1] = d
      BY <1>11 DEF DocsOf
    <2>2. x[2] = source[d]
      BY <1>1, <2>1 DEF Carrying
    <2>3. x = <<d, source[d]>> /\ x \in DocVersions
      BY <1>4, <2>1, <2>2 DEF DocVersions
    <2>4. Current(d) = {x}
      BY <2>3 DEF Current
    <2>5. LeavesOf({x}) \subseteq LeavesOf(p.ready) /\ ParentsOf({x}) \subseteq ParentsOf(p.ready)
      BY <1>4, <2>1, <2>3, PartsOf
    <2>6. ParentsOf(p.ready) \subseteq p.deferred
      BY <1>1 DEF Carrying
    <2>7. d \in DocsOf(q.landed)
      BY <1>6, <1>11
    <2> QED
      BY <1>2, <1>3, <2>4, <2>5, <2>6, <2>7, WritingAs DEF q
  <1>12. ASSUME NEW d \in Docs, Owes(p, d) PROVE Owes(run[r], d)'
    <2>1. CASE Purging(p, d)
      BY <1>11, <2>1 DEF Purging
    <2>2. CASE Writing(p, d)
      <3>1. d \in DocsOf(q.landed)
        BY <1>6, <2>2 DEF Writing
      <3>2. /\ LeavesOf(Current(d)) \subseteq q.pending \cup q.toVectors \cup points' \cup accepted'
            /\ LeavesOf(Current(d)) \subseteq q.pending \cup q.toRows \cup chunkRows'
            /\ ParentsOf(Current(d)) \subseteq q.deferred \cup chunkRows'
        BY <1>2, <1>3, <2>2 DEF Writing
      <3> QED
        BY <1>2, <3>1, <3>2, WritingAs DEF q
    <2> QED
      BY <1>12, <2>1, <2>2 DEF Owes
  <1>13. ASSUME NEW d \in Docs, Confirmed(d)' PROVE Confirmed(d)
    <2>1. row'[d] = source[d] => row[d] = source[d]
      BY <1>9, <1>10
    <2> QED
      BY <1>2, <1>3, <1>13, <2>1 DEF Confirmed, q, p
  <1>14. ASSUME NEW d \in Docs
         PROVE  /\ Full(d) => Full(d)'
                /\ \A s \in Runs : s # r /\ Owes(run[s], d) => Owes(run[s], d)'
    BY <1>2, <1>3, OwesKept
  <1>15. ASSUME NEW d \in Docs, Old(d)'
         PROVE  Old(d) /\ awaiting'[d] = Absent /\ d \notin DocsOf(q.stamping \cup q.landed)
    <2>1. Old(d) /\ d \notin DocsOf(p.ready)
      BY <1>2, <1>10, <1>15 DEF Old, Versions
    <2>2. awaiting[d] = Absent /\ d \notin DocsOf(p.stamping \cup p.landed)
      BY <1>8, <2>1 DEF Kept, p
    <2>3. d \notin DocsOf(q.stamping \cup q.landed)
      BY <1>3, <2>1, <2>2 DEF DocsOf
    <2> QED
      BY <1>2, <2>1, <2>2, <2>3
  <1>16. ASSUME NEW d \in Docs, d # shared PROVE KeptApart(d)'
    <2>1. SUFFICES ASSUME Confirmed(d)'
                   PROVE  /\ Full(d)'
                          /\ \A s \in Runs : d \notin run'[s].changed \cap DocsOf(run'[s].todo \cup run'[s].ready)
      BY DEF KeptApart
    <2>2. /\ Full(d)
          /\ \A s \in Runs : d \notin run[s].changed \cap DocsOf(run[s].todo \cup run[s].ready)
      BY <1>8, <1>13, <1>16, <2>1 DEF KeptApart
    <2>3. d \notin q.changed \cap DocsOf(q.todo \cup q.ready)
      BY <1>3, <1>6, <2>2 DEF p
    <2> QED
      BY <1>3, <1>14, <2>2, <2>3 DEF q
  <1>17. Orphaned(shared)'
    <2> SUFFICES ASSUME NEW s \in Runs, NEW d \in DocsOf(run'[s].landed), row'[d] = Absent
                 PROVE  d = shared /\ \E t \in Runs \ {s} : Purging(run[t], d)'
      BY DEF Orphaned
    <2>0. d \in Docs
      <3>1. CASE s = r
        BY <1>1, <1>6, <3>1, RunFields DEF q, DocsOf, DocVersions
      <3>2. CASE s # r
        BY <1>3, <3>2, OfMeet, RunFields DEF DocsOf, DocVersions
      <3> QED
        BY <3>1, <3>2
    <2>1. row[d] = Absent /\ d \notin DocsOf(p.ready)
      BY <1>10, <2>0
    <2>2. d \in DocsOf(run[s].landed)
      BY <1>3, <1>6, <2>1 DEF p, q
    <2>3. d = shared /\ \E t \in Runs \ {s} : Purging(run[t], d)
      BY <2>1, <2>2 DEF MeetInv, MeetRest, Orphaned
    <2>4. PICK t \in Runs \ {s} : Purging(run[t], d)
      BY <2>3
    <2>5. t # r
      BY <2>1, <2>4 DEF Purging, p
    <2>6. Purging(run'[t], d)
      BY <1>3, <2>4, <2>5
    <2> QED
      BY <2>3, <2>6, PurgingAs
  <1>18. Awaited'
    BY <1>3 DEF Awaited, Active, q
  <1>19. \A d \in Docs : awaiting'[d] \in {Absent, source[d]}
    BY <1>2, <1>8 DEF Kept
  <1>20. ASSUME NEW d \in Docs
         PROVE  /\ Confirmed(d)' => Confirmed(d) \/ d \in DocsOf(run[r].landed)
                /\ d \in DocsOf(run'[r].landed) =>
                     d \in DocsOf(run[r].landed) \/ Owes(run[r], d)'
                /\ Full(d) => Full(d)' \/ Owes(run[r], d)'
                /\ Owes(run[r], d) => Owes(run[r], d)'
                /\ \A s \in Runs \ {r} : Owes(run[s], d) => Owes(run[s], d)' \/ Owes(run[r], d)'
    BY <1>6, <1>11, <1>12, <1>13, <1>14 DEF p, q
  <1>21. source' = source /\ (\A s \in Runs : s # r => run'[s] = run[s])
         /\ Carrying(run'[r], Target[r])
    BY <1>2, <1>3, <1>7 DEF q
  <1>22. \A d \in Docs : Old(d)' => /\ Old(d) /\ awaiting'[d] = Absent
                                    /\ d \notin DocsOf(run'[r].stamping \cup run'[r].landed)
    BY <1>15 DEF q
  <1> QED
    BY <1>16, <1>17, <1>18, <1>19, <1>20, <1>21, <1>22, MeetStep

LEMMA FlushDeferredMeets ==
  ASSUME NEW shared, Meeting(shared), MeetInv(shared), NEW r \in Runs, FlushDeferred(r)
  PROVE  MeetRest(shared)'
  <1> DEFINE p == run[r]
  <1> DEFINE q == run'[r]
  <1>1. p \in RunStates /\ Carrying(p, Target[r]) /\ run \in [Runs -> RunStates]
        /\ p.pc = "write" /\ p.toVectors = {} /\ p.toRows = {} /\ p.pending = {} /\ p.todo = {}
        /\ source \in [Docs -> Versions]
    BY OfMeet DEF FlushDeferred, BatchDone, At, TypeOK
  <1>2. /\ chunkRows' = chunkRows \cup p.deferred
        /\ awaiting' = [d \in Docs |-> IF d \in DocsOf(p.landed)
                          THEN CHOOSE v \in Versions : <<d, v>> \in p.landed
                          ELSE awaiting[d]]
        /\ source' = source /\ row' = row /\ points' = points /\ accepted' = accepted
    BY DEF FlushDeferred, answers
  <1>3. /\ q.pc = "load" /\ q.left = p.left /\ q.todo = {} /\ q.changed = {}
        /\ q.ready = p.ready /\ q.landed = {} /\ q.pending = {}
        /\ q.deferred = {} /\ q.toVectors = {} /\ q.toRows = {}
        /\ q.stamping = p.stamping /\ q.purging = p.purging /\ q.force = p.force
        /\ \A s \in Runs : s # r => run'[s] = run[s]
    BY <1>1 DEF FlushDeferred, RunStates
  <1>4. p.landed \in SUBSET DocVersions
    BY <1>1, RunFields
  <1> HIDE DEF p, q
  <1>5. p.ready = {} /\ q.ready = {} /\ p.stamping = {} /\ q.stamping = {}
    BY <1>1, <1>3 DEF Carrying
  <1>6. DocsOf({}) = {} /\ LeavesOf({}) = {} /\ ParentsOf({}) = {}
    BY DEF DocsOf, LeavesOf, ParentsOf
  <1>7. Carrying(q, Target[r])
    <2>1. OneStage(q)
      BY <1>3, <1>5 DEF OneStage
    <2> QED
      BY <1>1, <1>3, <1>5, <1>6, <2>1 DEF Carrying
  <1>8. \A d \in Docs : Kept(d) /\ (d # shared => KeptApart(d))
    BY DEF MeetInv, MeetRest
  <1>9. ASSUME NEW d \in Docs
        PROVE  /\ d \in DocsOf(p.landed) => awaiting'[d] = source[d]
               /\ d \notin DocsOf(p.landed) => awaiting'[d] = awaiting[d]
    <2>1. ASSUME d \in DocsOf(p.landed) PROVE awaiting'[d] = source[d]
      <3>1. PICK x \in p.landed : x[1] = d
        BY <2>1 DEF DocsOf
      <3>2. \A y \in p.landed : y[2] = source[y[1]]
        BY <1>1 DEF Carrying
      <3>3. x = <<d, source[d]>> /\ source[d] \in Versions
        BY <1>1, <1>4, <3>1, <3>2 DEF DocVersions
      <3>4. \A v : <<d, v>> \in p.landed => v = source[d]
        BY <3>2
      <3>5. (CHOOSE v \in Versions : <<d, v>> \in p.landed) = source[d]
        BY <3>1, <3>3, <3>4
      <3> QED
        BY <1>2, <2>1, <3>5
    <2> QED
      BY <1>2, <2>1
  <1>10. ASSUME NEW d \in Docs, Confirmed(d)'
         PROVE  Confirmed(d) \/ d \in DocsOf(p.landed)
    BY <1>2, <1>3, <1>5, <1>6, <1>9, <1>10 DEF Confirmed, q
  <1>11. ASSUME NEW d \in Docs
         PROVE  /\ Full(d) => Full(d)'
                /\ \A s \in Runs : s # r /\ Owes(run[s], d) => Owes(run[s], d)'
    BY <1>2, <1>3, OwesKept
  <1>12. ASSUME NEW d \in Docs, Owes(p, d) PROVE Full(d)'
    <2>1. Writing(p, d)
      BY <1>1, <1>12 DEF Owes, Purging
    <2> QED
      BY <1>1, <1>2, <2>1 DEF Writing, Full, Current
  <1>13. ASSUME NEW d \in Docs, Old(d)'
         PROVE  Old(d) /\ awaiting'[d] = Absent /\ d \notin DocsOf(q.stamping \cup q.landed)
    <2>1. Old(d)
      BY <1>2, <1>13 DEF Old
    <2>2. awaiting[d] = Absent /\ d \notin DocsOf(p.stamping \cup p.landed)
      BY <1>8, <2>1 DEF Kept, p
    <2>3. d \notin DocsOf(p.landed) /\ q.stamping \cup q.landed = {}
      BY <1>3, <1>5, <2>2 DEF DocsOf
    <2> QED
      BY <1>6, <1>9, <2>1, <2>2, <2>3
  <1>14. ASSUME NEW d \in Docs, d # shared, NEW s \in Runs, s # r, d \in DocsOf(p.landed)
         PROVE  d \notin Target[s]
    <2>1. d \in Target[r]
      BY <1>1, <1>14, OwedIsTargeted
    <2> QED
      BY <1>14, <2>1 DEF Meeting
  <1>15. ASSUME NEW d \in Docs, d # shared PROVE KeptApart(d)'
    <2>1. SUFFICES ASSUME Confirmed(d)'
                   PROVE  /\ Full(d)'
                          /\ \A s \in Runs : d \notin run'[s].changed \cap DocsOf(run'[s].todo \cup run'[s].ready)
      BY DEF KeptApart
    <2>2. CASE Confirmed(d)
      <3>1. /\ Full(d)
            /\ \A s \in Runs : d \notin run[s].changed \cap DocsOf(run[s].todo \cup run[s].ready)
        BY <1>8, <1>15, <2>2 DEF KeptApart
      <3> QED
        BY <1>3, <1>11, <3>1 DEF q
    <2>3. CASE d \in DocsOf(p.landed)
      <3>1. \A s \in Runs : s # r => d \notin DocsOf(run[s].todo \cup run[s].ready) /\ ~Owes(run[s], d)
        BY <1>14, <1>15, <2>3, OfMeet, OwedIsTargeted
      <3>2. Full(d) \/ \E s \in Runs : Owes(run[s], d)
        BY <1>8, <2>3 DEF Kept, p
      <3>3. Full(d)'
        BY <1>11, <1>12, <3>1, <3>2 DEF p
      <3> QED
        BY <1>3, <3>1, <3>3 DEF q
    <2> QED
      BY <1>10, <2>1, <2>2, <2>3
  <1>16. Orphaned(shared)'
    <2> SUFFICES ASSUME NEW s \in Runs, NEW d \in DocsOf(run'[s].landed), row'[d] = Absent
                 PROVE  d = shared /\ \E t \in Runs \ {s} : Purging(run[t], d)'
      BY DEF Orphaned
    <2>1. s # r /\ d \in DocsOf(run[s].landed) /\ row[d] = Absent
      BY <1>2, <1>3, <1>6 DEF q
    <2>2. d = shared /\ \E t \in Runs \ {s} : Purging(run[t], d)
      BY <2>1 DEF MeetInv, MeetRest, Orphaned
    <2>3. PICK t \in Runs \ {s} : Purging(run[t], d)
      BY <2>2
    <2>4. t # r
      BY <1>1, <2>3 DEF Purging, p
    <2>5. Purging(run'[t], d)
      BY <1>3, <2>3, <2>4
    <2> QED
      BY <2>2, <2>5, PurgingAs
  <1>17. Awaited'
    BY <1>3 DEF Awaited, Active, q
  <1>18. \A d \in Docs : awaiting'[d] \in {Absent, source[d]}
    BY <1>8, <1>9 DEF Kept
  <1>19. ASSUME NEW d \in Docs
         PROVE  /\ Confirmed(d)' => Confirmed(d) \/ d \in DocsOf(run[r].landed)
                /\ d \notin DocsOf(run'[r].landed)
                /\ Full(d) => Full(d)'
                /\ Owes(run[r], d) => Full(d)'
                /\ \A s \in Runs \ {r} : Owes(run[s], d) => Owes(run[s], d)'
    BY <1>3, <1>6, <1>10, <1>11, <1>12 DEF p, q
  <1>20. source' = source /\ (\A s \in Runs : s # r => run'[s] = run[s])
         /\ Carrying(run'[r], Target[r])
    BY <1>2, <1>3, <1>7 DEF q
  <1>21. \A d \in Docs : Old(d)' => /\ Old(d) /\ awaiting'[d] = Absent
                                    /\ d \notin DocsOf(run'[r].stamping \cup run'[r].landed)
    BY <1>13 DEF q
  <1> QED
    BY <1>15, <1>16, <1>17, <1>18, <1>19, <1>20, <1>21, MeetStep

LEMMA StampMeets ==
  ASSUME NEW shared, MeetInv(shared), NEW r \in Runs, Stamp(r)
  PROVE  MeetRest(shared)'
  <1> DEFINE p == run[r]
  <1> DEFINE q == run'[r]
  <1>1. p \in RunStates /\ Carrying(p, Target[r]) /\ run \in [Runs -> RunStates]
        /\ p.pc = "stamp" /\ source \in [Docs -> Versions]
    BY OfMeet DEF Stamp, At, TypeOK
  <1>2. /\ row' = [d \in Docs |-> IF d \in DocsOf(p.stamping)
                     THEN CHOOSE v \in Versions : <<d, v>> \in p.stamping
                     ELSE row[d]]
        /\ awaiting' = [d \in Docs |-> Absent]
        /\ source' = source /\ chunkRows' = chunkRows /\ points' = points /\ accepted' = accepted
    BY DEF Stamp, answers
  <1>3. q = Idle /\ \A s \in Runs : s # r => run'[s] = run[s]
    BY <1>1 DEF Stamp
  <1>4. p.stamping \in SUBSET DocVersions
    BY <1>1 DEF RunStates
  <1> HIDE DEF p, q
  <1>5. p.landed = {} /\ p.todo = {} /\ p.ready = {}
    BY <1>1 DEF Carrying
  <1>6. /\ q.pc = "idle" /\ q.left = {} /\ q.todo = {} /\ q.ready = {} /\ q.landed = {}
        /\ q.pending = {} /\ q.deferred = {} /\ q.toVectors = {} /\ q.toRows = {}
        /\ q.stamping = {} /\ q.changed = {} /\ q.purging = {} /\ ~q.force
    BY <1>3 DEF Idle
  <1>7. DocsOf({}) = {} /\ LeavesOf({}) = {} /\ ParentsOf({}) = {}
    BY DEF DocsOf, LeavesOf, ParentsOf
  <1>8. Carrying(q, Target[r])
    <2>1. OneStage(q)
      BY <1>6 DEF OneStage
    <2> QED
      BY <1>6, <1>7, <2>1 DEF Carrying
  <1>9. \A d \in Docs : Kept(d) /\ (d # shared => KeptApart(d))
    BY DEF MeetInv, MeetRest
  <1>10. ASSUME NEW d \in Docs
         PROVE  /\ d \in DocsOf(p.stamping) => row'[d] = source[d]
                /\ d \notin DocsOf(p.stamping) => row'[d] = row[d]
                /\ source[d] \in Versions
    <2>1. ASSUME d \in DocsOf(p.stamping) PROVE row'[d] = source[d]
      <3>1. PICK x \in p.stamping : x[1] = d
        BY <2>1 DEF DocsOf
      <3>2. \A y \in p.stamping : y[2] = source[y[1]]
        BY <1>1 DEF Carrying
      <3>3. x = <<d, source[d]>> /\ source[d] \in Versions
        BY <1>1, <1>4, <3>1, <3>2 DEF DocVersions
      <3>4. \A v : <<d, v>> \in p.stamping => v = source[d]
        BY <3>2
      <3>5. (CHOOSE v \in Versions : <<d, v>> \in p.stamping) = source[d]
        BY <3>1, <3>3, <3>4
      <3> QED
        BY <1>2, <2>1, <3>5
    <2> QED
      BY <1>1, <1>2, <2>1
  <1>11. \A d : ~Owes(p, d) /\ ~Purging(p, d)
    BY <1>5, <1>7 DEF Owes, Purging, Writing
  <1>12. ASSUME NEW d \in Docs, Confirmed(d)' PROVE Confirmed(d)
    <2>1. CASE d \in DocsOf(p.stamping)
      BY <2>1 DEF Confirmed, p
    <2>2. CASE d \notin DocsOf(p.stamping)
      BY <1>2, <1>3, <1>6, <1>7, <1>10, <1>12, <2>2 DEF Confirmed, q
    <2> QED
      BY <2>1, <2>2
  <1>13. ASSUME NEW d \in Docs
         PROVE  /\ Full(d) => Full(d)'
                /\ \A s \in Runs : s # r /\ Owes(run[s], d) => Owes(run[s], d)'
    BY <1>2, <1>3, OwesKept
  <1>14. ASSUME NEW d \in Docs, Old(d)'
         PROVE  Old(d) /\ awaiting'[d] = Absent /\ d \notin DocsOf(q.stamping \cup q.landed)
    BY <1>2, <1>6, <1>7, <1>10, <1>14 DEF Old
  <1>15. ASSUME NEW d \in Docs, d # shared PROVE KeptApart(d)'
    <2>1. SUFFICES ASSUME Confirmed(d)'
                   PROVE  /\ Full(d)'
                          /\ \A s \in Runs : d \notin run'[s].changed \cap DocsOf(run'[s].todo \cup run'[s].ready)
      BY DEF KeptApart
    <2>2. /\ Full(d)
          /\ \A s \in Runs : d \notin run[s].changed \cap DocsOf(run[s].todo \cup run[s].ready)
      BY <1>9, <1>12, <1>15, <2>1 DEF KeptApart
    <2> QED
      BY <1>3, <1>6, <1>13, <2>2 DEF q
  <1>16. Orphaned(shared)'
    <2> SUFFICES ASSUME NEW s \in Runs, NEW d \in DocsOf(run'[s].landed), row'[d] = Absent
                 PROVE  d = shared /\ \E t \in Runs \ {s} : Purging(run[t], d)'
      BY DEF Orphaned
    <2>1. s # r /\ d \in DocsOf(run[s].landed)
      BY <1>3, <1>6, <1>7 DEF q
    <2>2. d \in Docs
      BY <2>1, OfMeet, RunFields DEF DocsOf, DocVersions
    <2>3. row[d] = Absent
      BY <1>10, <2>2 DEF Versions, Absent
    <2>4. d = shared /\ \E t \in Runs \ {s} : Purging(run[t], d)
      BY <2>1, <2>3 DEF MeetInv, MeetRest, Orphaned
    <2>5. PICK t \in Runs \ {s} : Purging(run[t], d)
      BY <2>4
    <2>6. t # r
      BY <1>11, <2>5 DEF p
    <2>7. Purging(run'[t], d)
      BY <1>3, <2>5, <2>6
    <2> QED
      BY <2>4, <2>7, PurgingAs
  <1>17. Awaited'
    <2>1. accepted # {} => \E s \in Runs : run[s].pc \notin {"idle", "count", "stamp"}
      BY DEF MeetInv, MeetRest, Awaited
    <2>2. accepted' # {} => \E s \in Runs : run'[s].pc \notin {"idle", "count", "stamp"}
      BY <1>1, <1>2, <1>3, <2>1 DEF p
    <2>3. \A d \in Docs : awaiting'[d] = Absent
      BY <1>2
    <2> QED
      BY <2>2, <2>3 DEF Awaited
  <1>18. \A d \in Docs : awaiting'[d] \in {Absent, source[d]}
    BY <1>2
  <1>19. ASSUME NEW d \in Docs
         PROVE  /\ Confirmed(d)' => Confirmed(d) \/ d \in DocsOf(run[r].landed)
                /\ d \notin DocsOf(run'[r].landed)
                /\ Full(d) => Full(d)'
                /\ ~Owes(run[r], d)
                /\ \A s \in Runs \ {r} : Owes(run[s], d) => Owes(run[s], d)'
    BY <1>6, <1>7, <1>11, <1>12, <1>13 DEF p, q
  <1>20. source' = source /\ (\A s \in Runs : s # r => run'[s] = run[s])
         /\ Carrying(run'[r], Target[r])
    BY <1>2, <1>3, <1>8 DEF q
  <1>21. \A d \in Docs : Old(d)' => /\ Old(d) /\ awaiting'[d] = Absent
                                    /\ d \notin DocsOf(run'[r].stamping \cup run'[r].landed)
    BY <1>14 DEF q
  <1> QED
    BY <1>15, <1>16, <1>17, <1>18, <1>19, <1>20, <1>21, MeetStep

\* What another run has purged under a run that is refused, it writes.
LEMMA RefusedMeets ==
  ASSUME NEW shared, Meeting(shared), MeetInv(shared), NEW r \in Runs, Refused(r)
  PROVE  MeetRest(shared)'
  <1> DEFINE p == run[r]
  <1> DEFINE q == run'[r]
  <1>1. p \in RunStates /\ Carrying(p, Target[r]) /\ run \in [Runs -> RunStates]
        /\ p.pc = "write"
    BY OfMeet DEF Refused, At
  <1>2. source' = source /\ row' = row /\ awaiting' = awaiting
        /\ chunkRows' = chunkRows /\ points' = points /\ accepted' = accepted
    BY DEF Refused, stores
  <1>3. q = Idle /\ \A s \in Runs : s # r => run'[s] = run[s]
    BY <1>1 DEF Refused
  <1>4. PICK c \in p.toRows \cup p.deferred : row[c[1]] = Absent
    BY DEF Refused, HasRows
  <1> HIDE DEF p, q
  <1>5. p.ready = {} /\ p.stamping = {}
    BY <1>1 DEF Carrying
  <1>6. /\ q.pc = "idle" /\ q.left = {} /\ q.todo = {} /\ q.ready = {} /\ q.landed = {}
        /\ q.pending = {} /\ q.deferred = {} /\ q.toVectors = {} /\ q.toRows = {}
        /\ q.stamping = {} /\ q.changed = {} /\ q.purging = {} /\ ~q.force
    BY <1>3 DEF Idle
  <1>7. DocsOf({}) = {} /\ LeavesOf({}) = {} /\ ParentsOf({}) = {}
    BY DEF DocsOf, LeavesOf, ParentsOf
  <1>8. Carrying(q, Target[r])
    <2>1. OneStage(q)
      BY <1>6 DEF OneStage
    <2> QED
      BY <1>6, <1>7, <2>1 DEF Carrying
  <1>9. \A d \in Docs : Kept(d) /\ (d # shared => KeptApart(d))
    BY DEF MeetInv, MeetRest
  <1>10. \A d : ~Purging(p, d)
    BY <1>1 DEF Purging
  <1>11. \E t \in Runs \ {r} : Purging(run[t], shared)
    <2>1. <<c[1], c[2]>> \in p.landed
      <3>1. p.ready \cup p.landed = p.landed
        BY <1>5
      <3> QED
        BY <1>1, <1>4, <3>1 DEF Carrying, LeavesOf, ParentsOf
    <2>2. c[1] \in DocsOf(p.landed)
      <3>1. <<c[1], c[2]>>[1] = c[1]
        OBVIOUS
      <3> QED
        BY <2>1, <3>1 DEF DocsOf
    <2> QED
      BY <1>4, <2>2 DEF MeetInv, MeetRest, Orphaned, p
  <1>12. PICK t \in Runs \ {r} : Purging(run[t], shared)
    BY <1>11
  <1>13. Owes(run[t], shared)'
    <2>1. Purging(run'[t], shared)
      BY <1>3, <1>12
    <2> QED
      BY <2>1, PurgingAs
  <1>14. ASSUME NEW d \in Docs, Confirmed(d)' PROVE Confirmed(d)
    BY <1>2, <1>3, <1>6, <1>7, <1>14 DEF Confirmed, q
  <1>15. ASSUME NEW d \in Docs
         PROVE  /\ Full(d) => Full(d)'
                /\ \A s \in Runs : s # r /\ Owes(run[s], d) => Owes(run[s], d)'
    BY <1>2, <1>3, OwesKept
  <1>16. ASSUME NEW d \in Docs, Owes(p, d)
         PROVE  \/ Full(d)' \/ \E s \in Runs \ {r} : Owes(run[s], d)'
                \/ ~Confirmed(d)' /\ \A s \in Runs : d \notin DocsOf(run'[s].landed)
    <2>1. CASE d = shared
      BY <1>12, <1>13, <2>1
    <2>2. CASE d # shared /\ Confirmed(d)'
      <3>1. Full(d)
        BY <1>9, <1>14, <2>2 DEF KeptApart
      <3> QED
        BY <1>15, <3>1
    <2>3. CASE d # shared
      <3>1. d \in Target[r]
        BY <1>1, <1>16, OwedIsTargeted
      <3>2. ASSUME NEW s \in Runs PROVE d \notin DocsOf(run'[s].landed)
        <4>1. CASE s = r
          BY <1>6, <1>7, <4>1 DEF q
        <4>2. CASE s # r
          <5>1. d \notin Target[s]
            BY <2>3, <3>1, <4>2 DEF Meeting
          <5> QED
            BY <1>3, <4>2, <5>1, OfMeet, OwedIsTargeted
        <4> QED
          BY <4>1, <4>2
      <3> QED
        BY <2>2, <2>3, <3>2
    <2> QED
      BY <2>1, <2>3
  <1>17. ASSUME NEW d \in Docs, Old(d)'
         PROVE  Old(d) /\ awaiting'[d] = Absent /\ d \notin DocsOf(q.stamping \cup q.landed)
    <2>1. Old(d)
      BY <1>2, <1>17 DEF Old
    <2>2. awaiting[d] = Absent
      BY <1>9, <2>1 DEF Kept
    <2> QED
      BY <1>2, <1>6, <1>7, <2>1, <2>2
  <1>18. ASSUME NEW d \in Docs, d # shared PROVE KeptApart(d)'
    <2>1. SUFFICES ASSUME Confirmed(d)'
                   PROVE  /\ Full(d)'
                          /\ \A s \in Runs : d \notin run'[s].changed \cap DocsOf(run'[s].todo \cup run'[s].ready)
      BY DEF KeptApart
    <2>2. /\ Full(d)
          /\ \A s \in Runs : d \notin run[s].changed \cap DocsOf(run[s].todo \cup run[s].ready)
      BY <1>9, <1>14, <1>18, <2>1 DEF KeptApart
    <2> QED
      BY <1>3, <1>6, <1>15, <2>2 DEF q
  <1>19. Orphaned(shared)'
    <2> SUFFICES ASSUME NEW s \in Runs, NEW d \in DocsOf(run'[s].landed), row'[d] = Absent
                 PROVE  d = shared /\ \E u \in Runs \ {s} : Purging(run[u], d)'
      BY DEF Orphaned
    <2>1. s # r /\ d \in DocsOf(run[s].landed) /\ row[d] = Absent
      BY <1>2, <1>3, <1>6, <1>7 DEF q
    <2>2. d = shared /\ \E u \in Runs \ {s} : Purging(run[u], d)
      BY <2>1 DEF MeetInv, MeetRest, Orphaned
    <2>3. PICK u \in Runs \ {s} : Purging(run[u], d)
      BY <2>2
    <2>4. u # r
      BY <1>10, <2>3 DEF p
    <2>5. Purging(run'[u], d)
      BY <1>3, <2>3, <2>4
    <2> QED
      BY <2>2, <2>5, PurgingAs
  <1>20. Awaited'
    <2>1. run'[t].pc \notin {"idle", "count", "stamp"}
      BY <1>3, <1>12 DEF Purging
    <2> QED
      BY <2>1 DEF Awaited, Active
  <1>21. \A d \in Docs : awaiting'[d] \in {Absent, source[d]}
    BY <1>2, <1>9 DEF Kept
  <1>22. ASSUME NEW d \in Docs
         PROVE  /\ Confirmed(d)' => Confirmed(d) \/ d \in DocsOf(run[r].landed)
                /\ d \notin DocsOf(run'[r].landed)
                /\ Full(d) => Full(d)'
                /\ \A s \in Runs \ {r} : Owes(run[s], d) => Owes(run[s], d)'
    BY <1>6, <1>7, <1>14, <1>15 DEF q
  <1>23. source' = source /\ (\A s \in Runs : s # r => run'[s] = run[s])
         /\ Carrying(run'[r], Target[r])
    BY <1>2, <1>3, <1>8 DEF q
  <1>24. \A d \in Docs : Old(d)' => /\ Old(d) /\ awaiting'[d] = Absent
                                    /\ d \notin DocsOf(run'[r].stamping \cup run'[r].landed)
    BY <1>17 DEF q
  <1>25. \A d \in Docs : Owes(run[r], d) =>
            \/ Full(d)' \/ \E s \in Runs \ {r} : Owes(run[s], d)'
            \/ ~Confirmed(d)' /\ \A s \in Runs : d \notin DocsOf(run'[s].landed)
    BY <1>16 DEF p
  <1> QED
    BY <1>18, <1>19, <1>20, <1>21, <1>22, <1>23, <1>24, <1>25, MeetStep

\* A step outside the runs, that at most applies what was accepted.
LEMMA MeetStill ==
  ASSUME NEW shared, MeetInv(shared),
         UNCHANGED <<source, row, chunkRows, awaiting, run>>,
         points' \cup accepted' = points \cup accepted, accepted' \subseteq accepted
  PROVE  MeetRest(shared)'
  <1>1. /\ source' = source /\ row' = row /\ chunkRows' = chunkRows
        /\ awaiting' = awaiting /\ run' = run
    OBVIOUS
  <1>2. \A d \in Docs : Kept(d) /\ (d # shared => KeptApart(d))
    BY DEF MeetInv, MeetRest
  <1>3. ASSUME NEW r \in Runs PROVE Carrying(run[r], Target[r])'
    <2>1. Carrying(run'[r], Target[r])
      BY <1>1, OfMeet
    <2> QED
      BY <1>1, <2>1, CarryingAs
  <1>4. ASSUME NEW d \in Docs
        PROVE  /\ Full(d) => Full(d)'
               /\ \A s \in Runs : Owes(run[s], d) => Owes(run[s], d)'
    BY <1>1, OwesKept
  <1>5. ASSUME NEW d \in Docs, Confirmed(d)' PROVE Confirmed(d)
    BY <1>1, <1>5 DEF Confirmed
  <1>6. ASSUME NEW d \in Docs PROVE Kept(d)'
    <2>1. ASSUME Confirmed(d)' \/ \E s \in Runs : d \in DocsOf(run'[s].landed)
          PROVE  Full(d)' \/ \E s \in Runs : Owes(run[s], d)'
      <3>1. Full(d) \/ \E s \in Runs : Owes(run[s], d)
        BY <1>1, <1>2, <1>5, <2>1 DEF Kept
      <3> QED
        BY <1>4, <3>1
    <2>2. awaiting'[d] \in {Absent, source'[d]}
      BY <1>1, <1>2 DEF Kept
    <2>3. Old(d)' => /\ awaiting'[d] = Absent
                     /\ \A s \in Runs : d \notin DocsOf(run'[s].stamping \cup run'[s].landed)
      BY <1>1, <1>2 DEF Kept, Old
    <2> QED
      BY <2>1, <2>2, <2>3 DEF Kept
  <1>7. ASSUME NEW d \in Docs, d # shared PROVE KeptApart(d)'
    BY <1>1, <1>2, <1>4, <1>5, <1>7 DEF KeptApart
  <1>8. Orphaned(shared)'
    <2> SUFFICES ASSUME NEW s \in Runs, NEW d \in DocsOf(run[s].landed), row[d] = Absent
                 PROVE  d = shared /\ \E t \in Runs \ {s} : Purging(run[t], d)'
      BY <1>1 DEF Orphaned
    <2>1. d = shared /\ \E t \in Runs \ {s} : Purging(run[t], d)
      BY DEF MeetInv, MeetRest, Orphaned
    <2>2. PICK t \in Runs \ {s} : Purging(run'[t], d)
      BY <1>1, <2>1
    <2> QED
      BY <2>1, <2>2, PurgingAs
  <1>9. Awaited'
    BY <1>1 DEF MeetInv, MeetRest, Awaited, Active
  <1> QED
    BY <1>3, <1>6, <1>7, <1>8, <1>9 DEF MeetRest

\* A source is edited when no run is under way: nothing is awaited.
LEMMA EditMeets ==
  ASSUME NEW shared, Meeting(shared), MeetInv(shared), NEW e \in Docs, Edit(e)
  PROVE  MeetRest(shared)'
  <1>1. /\ source' = [source EXCEPT ![e] = @ + 1] /\ row[e] = source[e]
        /\ row' = row /\ chunkRows' = chunkRows /\ points' = points /\ accepted' = accepted
        /\ awaiting' = awaiting /\ run' = run
        /\ \A r \in Runs : run[r].pc = "idle"
    BY DEF Edit, Meeting, Active, stores
  <1>2. source \in [Docs -> Versions] /\ \A d \in Docs : source[d] \in Nat
    BY DEF MeetInv, TypeOK, Versions
  <1>3. /\ source'[e] # row[e]
        /\ \A d \in Docs : d # e => source'[d] = source[d]
    BY <1>1, <1>2
  <1>4. accepted = {} /\ \A d \in Docs : awaiting[d] = Absent
    BY <1>1 DEF MeetInv, MeetRest, Awaited, Active
  <1>5. \A r \in Runs : /\ run[r].ready = {} /\ run[r].landed = {} /\ run[r].stamping = {}
                        /\ run[r].todo = {} /\ run[r].changed = {}
    BY <1>1, OfMeet DEF Carrying
  <1>6. DocsOf({}) = {} /\ \A d \in Docs : Kept(d) /\ (d # shared => KeptApart(d))
    BY DEF MeetInv, MeetRest, DocsOf
  <1>7. ASSUME NEW r \in Runs PROVE Carrying(run[r], Target[r])'
    <2>1. Carrying(run[r], Target[r]) /\ run'[r] = run[r]
      BY <1>1, OfMeet
    <2>2. OneStage(run[r])'
      BY <1>5, <2>1 DEF OneStage
    <2> QED
      BY <1>5, <2>1, <2>2 DEF Carrying, Stale
  <1>8. ASSUME NEW d \in Docs, Confirmed(d)' PROVE Confirmed(d) /\ d # e
    BY <1>1, <1>3, <1>4, <1>5, <1>6, <1>8 DEF Confirmed
  <1>9. \A d : \A r \in Runs : ~Owes(run[r], d)
    BY <1>5, <1>6 DEF Owes, Purging, Writing
  <1>10. ASSUME NEW d \in Docs, d # e, Full(d) PROVE Full(d)'
    BY <1>1, <1>3, <1>10 DEF Full, Current
  <1>11. ASSUME NEW d \in Docs PROVE Kept(d)'
    <2>1. ASSUME Confirmed(d)' \/ \E s \in Runs : d \in DocsOf(run'[s].landed)
          PROVE  Full(d)'
      <3>1. Confirmed(d)'
        BY <1>1, <1>5, <1>6, <2>1
      <3> QED
        BY <1>6, <1>8, <1>9, <1>10, <3>1 DEF Kept
    <2>2. awaiting'[d] = Absent
      BY <1>1, <1>4
    <2>3. \A s \in Runs : d \notin DocsOf(run'[s].stamping \cup run'[s].landed)
      BY <1>1, <1>5, <1>6
    <2> QED
      BY <2>1, <2>2, <2>3 DEF Kept
  <1>12. ASSUME NEW d \in Docs, d # shared PROVE KeptApart(d)'
    <2>1. Confirmed(d)' => Full(d)'
      BY <1>6, <1>8, <1>10, <1>12 DEF KeptApart
    <2> QED
      BY <1>1, <1>5, <2>1 DEF KeptApart
  <1>13. Orphaned(shared)'
    BY <1>1, <1>5, <1>6 DEF Orphaned
  <1>14. Awaited'
    BY <1>1, <1>4 DEF Awaited
  <1> QED
    BY <1>7, <1>11, <1>12, <1>13, <1>14 DEF MeetRest

LEMMA StepMeets ==
  ASSUME NEW shared, Meeting(shared), MeetInv(shared), NEW r \in Runs, Step(r)
  PROVE  MeetRest(shared)'
  BY LoadMeets, ExhaustMeets, SelectMeets, ProcessMeets, PurgeVectorsMeets,
     PurgeRowsMeets, InvalidateMeets, WriteDocumentsMeets, NextBatchMeets,
     NextGroupMeets, SendVectorsMeets, SendRowsMeets, FlushDeferredMeets,
     RefusedMeets, FlushMeets, CountMeets, StampMeets DEF Step

LEMMA MeetNext ==
  ASSUME NEW shared, Meeting(shared), MeetInv(shared), [Next]_vars
  PROVE  MeetInv(shared)'
  <1>1. TypeOK'
    BY NextTyped DEF MeetInv
  <1>2. SUFFICES MeetRest(shared)'
    BY <1>1 DEF MeetInv
  <1>3. ASSUME NEW r \in Runs, Step(r) PROVE MeetRest(shared)'
    BY <1>3, StepMeets
  <1>4. ASSUME NEW r \in Runs, NEW f \in BOOLEAN, Start(r, f) PROVE MeetRest(shared)'
    BY <1>4, StartMeets
  <1>5. ~Crash /\ \A r \in Runs : ~Fail(r)
    <2>1. MaxFaults = 0 /\ faults \in 0..MaxFaults
      BY DEF Meeting, MeetInv, TypeOK
    <2> QED
      BY <2>1 DEF Crash, Fail
  <1>6. CASE Apply
    <2>1. /\ UNCHANGED <<source, row, chunkRows, awaiting, run>>
          /\ points' \cup accepted' = points \cup accepted /\ accepted' \subseteq accepted
      BY <1>6 DEF Apply
    <2> QED
      BY <2>1, MeetStill
  <1>7. ASSUME NEW d \in Docs, Edit(d) PROVE MeetRest(shared)'
    BY <1>7, EditMeets
  <1>8. ASSUME NEW dv \in DocVersions, Answer(dv) \/ CacheAnswer(dv) \/ Expire(dv)
        PROVE  MeetRest(shared)'
    <2>1. UNCHANGED <<source, row, chunkRows, awaiting, run, points, accepted>>
      BY <1>8 DEF Answer, CacheAnswer, Expire, stores
    <2> QED
      BY <2>1, MeetStill
  <1>9. CASE UNCHANGED vars
    BY <1>9, MeetStill DEF vars
  <1> QED
    BY <1>3, <1>4, <1>5, <1>6, <1>7, <1>8, <1>9 DEF Next

LEMMA MeetInit ==
  ASSUME NEW shared
  PROVE  Init => MeetInv(shared)
  <1> SUFFICES ASSUME Init PROVE MeetInv(shared)
    OBVIOUS
  <1>1. /\ \A d \in Docs : row[d] = Absent /\ awaiting[d] = Absent /\ source[d] = 1
        /\ chunkRows = {} /\ points = {} /\ accepted = {}
        /\ \A r \in Runs : run[r] = Idle
    BY DEF Init
  <1>2. DocsOf({}) = {} /\ LeavesOf({}) = {} /\ ParentsOf({}) = {}
    BY DEF DocsOf, LeavesOf, ParentsOf
  <1>3. /\ Idle.pc = "idle" /\ Idle.left = {} /\ Idle.todo = {} /\ Idle.ready = {}
        /\ Idle.landed = {} /\ Idle.pending = {} /\ Idle.deferred = {}
        /\ Idle.toVectors = {} /\ Idle.toRows = {} /\ Idle.stamping = {}
        /\ Idle.changed = {} /\ Idle.purging = {} /\ ~Idle.force
    BY DEF Idle
  <1>4. OneStage(Idle)
    BY <1>3 DEF OneStage
  <1>5. \A r \in Runs : Carrying(run[r], Target[r])
    BY <1>1, <1>2, <1>3, <1>4 DEF Carrying
  <1>6. \A d \in Docs : ~Confirmed(d) /\ ~Old(d)
    BY <1>1, <1>2, <1>3 DEF Confirmed, Old, Absent, Versions
  <1>7. \A d \in Docs : Kept(d) /\ KeptApart(d)
    BY <1>1, <1>2, <1>3, <1>6 DEF Kept, KeptApart
  <1>8. Orphaned(shared) /\ Awaited
    BY <1>1, <1>2, <1>3 DEF Orphaned, Awaited
  <1> QED
    BY <1>5, <1>7, <1>8, InitTyped DEF MeetInv, MeetRest

\* With no run under way, nothing is owed and nothing waits to be applied.
LEMMA MeetIsSafe ==
  ASSUME NEW shared, MeetInv(shared)
  PROVE  RestartIsSafe
  <1> SUFFICES ASSUME \A r \in Runs : ~Active(r), NEW d \in Docs, Skipped(d)
               PROVE  /\ LeavesOf({<<d, source[d]>>}) \subseteq points
                      /\ LeavesOf({<<d, source[d]>>}) \cup ParentsOf({<<d, source[d]>>})
                           \subseteq chunkRows
    BY DEF RestartIsSafe, SkippedIsIndexed
  <1>1. Confirmed(d)
    BY DEF Skipped, Prior, MeetInv, TypeOK, Absent, Versions, Confirmed
  <1>2. \A r \in Runs : run[r].pc = "idle" /\ Carrying(run[r], Target[r])
    BY OfMeet DEF Active
  <1>3. \A r \in Runs : ~Owes(run[r], d)
    BY <1>2 DEF Carrying, Owes, Purging, Writing, DocsOf
  <1>4. Full(d)
    BY <1>1, <1>3 DEF MeetInv, MeetRest, Kept
  <1>5. accepted = {}
    BY <1>2 DEF MeetInv, MeetRest, Awaited
  <1> QED
    BY <1>4, <1>5 DEF Full, Current

\* However many runs meet, over one document that they all index and others that
\* only one of them does: whatever they do to each other's purges, windows and
\* foreign keys, no document is left skipped and incomplete when they have ended.
THEOREM MeetingIsSafe ==
  ASSUME NEW shared, Meeting(shared)
  PROVE  Spec => []RestartIsSafe
  <1>1. MeetInv(shared) /\ [Next]_vars => MeetInv(shared)'
    BY MeetNext
  <1>2. MeetInv(shared) => RestartIsSafe
    BY MeetIsSafe
  <1> QED
    BY <1>1, <1>2, MeetInit, PTL DEF Spec

=============================================================================
