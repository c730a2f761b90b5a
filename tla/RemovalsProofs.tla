---------------------------- MODULE RemovalsProofs ----------------------------
(***************************************************************************)
(* Proofs about MCRemovals: what RemovalProofs and IngestProofs show of    *)
(* each of its instances holds of the behaviours of all five, for any      *)
(* documents, entities, deletes and runs.                                  *)
(***************************************************************************)
EXTENDS MCRemovals, RemovalProofs

AskedProofs == INSTANCE RemovalProofs WITH
    Says <- Silent, MaxFaults <- 1,
    Allowed <- {"noRows", "kill", "answers", "slowAnswers", "cacheDown"}

TwiceProofs == INSTANCE RemovalProofs WITH
    Runs <- Both, Says <- Silent, MaxFaults <- 0, Allowed <- {"answers"}

EditsProofs == INSTANCE IngestProofs WITH
    Runs <- {One}, Target <- [r \in {One} |-> Docs],
    Leaves <- {1}, Parents <- {2}, DocWindow <- 2, Window <- 1, Batch <- 1,
    MaxVersion <- 2, MaxFaults <- 0,
    Allowed <- {"force", "editDirty", "answers", "slowAnswers"},
    points <- stored, cached <- served, answering <- computed,
    leaving <- fading, missed <- overlooked, run <- ingest, faults <- broken

BesideProofs == INSTANCE IngestProofs WITH
    Runs <- Both, Target <- PartTarget, Leaves <- {1}, Parents <- {2},
    DocWindow <- 2, Window <- 1, Batch <- 1, MaxVersion <- 2, MaxFaults <- 0,
    Allowed <- {},
    points <- stored, cached <- served, answering <- computed,
    leaving <- fading, missed <- overlooked, run <- ingest, faults <- broken

-----------------------------------------------------------------------------
(* The constants of the instances are as their proofs suppose.         *)

LEMMA SilentSays == Silent \in [Chunks -> SUBSET Entities]
  BY DEF Silent, Chunks

LEMMA AskedConstants ==
    /\ AskedProofs!RemovalAssumption /\ AskedProofs!Alone
    /\ OneVersion => AskedProofs!OneVersion
  BY SilentSays
  DEF AskedProofs!RemovalAssumption, Chunks, AskedProofs!Chunks, AskedProofs!Alone,
      AskedProofs!Behaviours, OneVersion, AskedProofs!OneVersion

LEMMA TwiceConstants ==
    /\ TwiceProofs!RemovalAssumption /\ TwiceProofs!Alone
    /\ OneVersion => TwiceProofs!OneVersion
  BY SilentSays
  DEF TwiceProofs!RemovalAssumption, Chunks, TwiceProofs!Chunks, TwiceProofs!Alone,
      TwiceProofs!Behaviours, OneVersion, TwiceProofs!OneVersion

LEMMA CardinalityThere == \A S : EditsProofs!IsFiniteSet(S) = IsFiniteSet(S)
  BY DEF EditsProofs!IsFiniteSet, IsFiniteSet

LEMMA EditsConstants == EditsProofs!IngestAssumption
  BY Finitely, CardinalityThere
  DEF EditsProofs!IngestAssumption, EditsProofs!Behaviours

LEMMA BesideConstants ==
    /\ BesideProofs!IngestAssumption /\ BesideProofs!Meeting(First)
  <1>1. First \in Docs
    BY Finitely DEF First
  <1>2. PartTarget \in [Both -> SUBSET Docs]
    BY <1>1 DEF PartTarget
  <1>3. \A S : BesideProofs!IsFiniteSet(S) = IsFiniteSet(S)
    BY DEF BesideProofs!IsFiniteSet, IsFiniteSet
  <1>4. BesideProofs!IngestAssumption
    BY <1>2, <1>3, Finitely DEF BesideProofs!IngestAssumption, BesideProofs!Behaviours
  <1>5. \A r, s \in Both : r # s => PartTarget[r] \cap PartTarget[s] \subseteq {First}
    BY DEF PartTarget
  <1>6. BesideProofs!Meeting(First)
    BY <1>5 DEF BesideProofs!Meeting
  <1> QED
    BY <1>4, <1>6

-----------------------------------------------------------------------------
(* The instances, as the proofs see them.                                  *)

LEMMA AskedSame ==
    /\ Asked!Init => AskedProofs!Init
    /\ [Asked!Next]_vars => [AskedProofs!Next]_AskedProofs!vars
  <1>1. Asked!Init => AskedProofs!Init
    BY DEF Asked!Init, AskedProofs!Init, Asked!Idle, AskedProofs!Idle, Asked!NoBuild,
      AskedProofs!NoBuild
  <1>2. Asked!Next => AskedProofs!Next
    BY DEF Asked!Chunks, AskedProofs!Chunks, Asked!graph, AskedProofs!graph,
      Asked!answers, AskedProofs!answers, Asked!indexed, AskedProofs!indexed,
      Asked!said, AskedProofs!said, Asked!vars, AskedProofs!vars, Asked!Of,
      AskedProofs!Of, Asked!DocsOf, AskedProofs!DocsOf, Asked!Extracted,
      AskedProofs!Extracted, Asked!Mentioned, AskedProofs!Mentioned, Asked!Idle,
      AskedProofs!Idle, Asked!NoBuild, AskedProofs!NoBuild, Asked!Init,
      AskedProofs!Init, Asked!At, AskedProofs!At, Asked!Deleting,
      AskedProofs!Deleting, Asked!BuildMayStart, AskedProofs!BuildMayStart,
      Asked!DeleteMayStart, AskedProofs!DeleteMayStart, Asked!Fault,
      AskedProofs!Fault, Asked!Uncache, AskedProofs!Uncache, Asked!Overlook,
      AskedProofs!Overlook, Asked!Ingest, AskedProofs!Ingest, Asked!Cache,
      AskedProofs!Cache, Asked!Answer, AskedProofs!Answer, Asked!CacheAnswer,
      AskedProofs!CacheAnswer, Asked!Expire, AskedProofs!Expire,
      Asked!ReadChunks, AskedProofs!ReadChunks, Asked!UpsertEntities,
      AskedProofs!UpsertEntities, Asked!UpsertRelations,
      AskedProofs!UpsertRelations, Asked!UpsertChunkLinks,
      AskedProofs!UpsertChunkLinks, Asked!UpsertCommunities,
      AskedProofs!UpsertCommunities, Asked!PruneCommunities,
      AskedProofs!PruneCommunities, Asked!BuildFails, AskedProofs!BuildFails,
      Asked!Build, AskedProofs!Build, Asked!Start, AskedProofs!Start,
      Asked!LookUp, AskedProofs!LookUp, Asked!LookUpFails,
      AskedProofs!LookUpFails, Asked!DeleteVectors, AskedProofs!DeleteVectors,
      Asked!DeleteRows, AskedProofs!DeleteRows, Asked!AskGraph,
      AskedProofs!AskGraph, Asked!DeleteChunkNodes,
      AskedProofs!DeleteChunkNodes, Asked!DeleteOrphans,
      AskedProofs!DeleteOrphans, Asked!DeleteEmptyCommunities,
      AskedProofs!DeleteEmptyCommunities, Asked!Verdict, AskedProofs!Verdict,
      Asked!Filed, AskedProofs!Filed, Asked!InvalidateAnswers,
      AskedProofs!InvalidateAnswers, Asked!After, AskedProofs!After,
      Asked!StatementFails, AskedProofs!StatementFails, Asked!RowsFail,
      AskedProofs!RowsFail, Asked!AnswersFail, AskedProofs!AnswersFail,
      Asked!Dies, AskedProofs!Dies, Asked!Delete, AskedProofs!Delete,
      Asked!Next, AskedProofs!Next
  <1>3. UNCHANGED vars => UNCHANGED AskedProofs!vars
    BY DEF vars, AskedProofs!vars
  <1> QED
    BY <1>1, <1>2, <1>3

LEMMA TwiceSame ==
    /\ Twice!Init => TwiceProofs!Init
    /\ [Twice!Next]_vars => [TwiceProofs!Next]_TwiceProofs!vars
  <1>1. Twice!Init => TwiceProofs!Init
    BY DEF Twice!Init, TwiceProofs!Init, Twice!Idle, TwiceProofs!Idle, Twice!NoBuild,
      TwiceProofs!NoBuild
  <1>2. Twice!Next => TwiceProofs!Next
    BY DEF Twice!Chunks, TwiceProofs!Chunks, Twice!graph, TwiceProofs!graph,
      Twice!answers, TwiceProofs!answers, Twice!indexed, TwiceProofs!indexed,
      Twice!said, TwiceProofs!said, Twice!vars, TwiceProofs!vars, Twice!Of,
      TwiceProofs!Of, Twice!DocsOf, TwiceProofs!DocsOf, Twice!Extracted,
      TwiceProofs!Extracted, Twice!Mentioned, TwiceProofs!Mentioned, Twice!Idle,
      TwiceProofs!Idle, Twice!NoBuild, TwiceProofs!NoBuild, Twice!Init,
      TwiceProofs!Init, Twice!At, TwiceProofs!At, Twice!Deleting,
      TwiceProofs!Deleting, Twice!BuildMayStart, TwiceProofs!BuildMayStart,
      Twice!DeleteMayStart, TwiceProofs!DeleteMayStart, Twice!Fault,
      TwiceProofs!Fault, Twice!Uncache, TwiceProofs!Uncache, Twice!Overlook,
      TwiceProofs!Overlook, Twice!Ingest, TwiceProofs!Ingest, Twice!Cache,
      TwiceProofs!Cache, Twice!Answer, TwiceProofs!Answer, Twice!CacheAnswer,
      TwiceProofs!CacheAnswer, Twice!Expire, TwiceProofs!Expire,
      Twice!ReadChunks, TwiceProofs!ReadChunks, Twice!UpsertEntities,
      TwiceProofs!UpsertEntities, Twice!UpsertRelations,
      TwiceProofs!UpsertRelations, Twice!UpsertChunkLinks,
      TwiceProofs!UpsertChunkLinks, Twice!UpsertCommunities,
      TwiceProofs!UpsertCommunities, Twice!PruneCommunities,
      TwiceProofs!PruneCommunities, Twice!BuildFails, TwiceProofs!BuildFails,
      Twice!Build, TwiceProofs!Build, Twice!Start, TwiceProofs!Start,
      Twice!LookUp, TwiceProofs!LookUp, Twice!LookUpFails,
      TwiceProofs!LookUpFails, Twice!DeleteVectors, TwiceProofs!DeleteVectors,
      Twice!DeleteRows, TwiceProofs!DeleteRows, Twice!AskGraph,
      TwiceProofs!AskGraph, Twice!DeleteChunkNodes,
      TwiceProofs!DeleteChunkNodes, Twice!DeleteOrphans,
      TwiceProofs!DeleteOrphans, Twice!DeleteEmptyCommunities,
      TwiceProofs!DeleteEmptyCommunities, Twice!Verdict, TwiceProofs!Verdict,
      Twice!Filed, TwiceProofs!Filed, Twice!InvalidateAnswers,
      TwiceProofs!InvalidateAnswers, Twice!After, TwiceProofs!After,
      Twice!StatementFails, TwiceProofs!StatementFails, Twice!RowsFail,
      TwiceProofs!RowsFail, Twice!AnswersFail, TwiceProofs!AnswersFail,
      Twice!Dies, TwiceProofs!Dies, Twice!Delete, TwiceProofs!Delete,
      Twice!Next, TwiceProofs!Next
  <1>3. UNCHANGED vars => UNCHANGED TwiceProofs!vars
    BY DEF vars, TwiceProofs!vars
  <1> QED
    BY <1>1, <1>2, <1>3

LEMMA EditsSame ==
    /\ Edits!Init => EditsProofs!Init
    /\ [Edits!Next]_written => [EditsProofs!Next]_EditsProofs!vars
  <1>1. Edits!Init => EditsProofs!Init
    BY DEF Edits!Init, EditsProofs!Init, Edits!Idle, EditsProofs!Idle, Edits!Absent,
      EditsProofs!Absent
  <1>2. Edits!Next => EditsProofs!Next
    BY DEF Edits!Cardinality, EditsProofs!Cardinality, Edits!stores,
      EditsProofs!stores, Edits!answers, EditsProofs!answers, Edits!vars,
      EditsProofs!vars, Edits!Versions, EditsProofs!Versions, Edits!Absent,
      EditsProofs!Absent, Edits!Unstamped, EditsProofs!Unstamped,
      Edits!DocVersions, EditsProofs!DocVersions, Edits!Chunks,
      EditsProofs!Chunks, Edits!LeavesOf, EditsProofs!LeavesOf,
      Edits!ParentsOf, EditsProofs!ParentsOf, Edits!DocsOf, EditsProofs!DocsOf,
      Edits!Of, EditsProofs!Of, Edits!Windows, EditsProofs!Windows, Edits!Idle,
      EditsProofs!Idle, Edits!Init, EditsProofs!Init, Edits!At, EditsProofs!At,
      Edits!Active, EditsProofs!Active, Edits!Stale, EditsProofs!Stale,
      Edits!Prior, EditsProofs!Prior, Edits!Start, EditsProofs!Start,
      Edits!Load, EditsProofs!Load, Edits!Exhaust, EditsProofs!Exhaust,
      Edits!SelectChanged, EditsProofs!SelectChanged, Edits!Process,
      EditsProofs!Process, Edits!PurgeVectors, EditsProofs!PurgeVectors,
      Edits!PurgeRows, EditsProofs!PurgeRows, Edits!Invalidate,
      EditsProofs!Invalidate, Edits!WriteDocuments, EditsProofs!WriteDocuments,
      Edits!BatchDone, EditsProofs!BatchDone, Edits!NextBatch,
      EditsProofs!NextBatch, Edits!NextGroup, EditsProofs!NextGroup,
      Edits!SendVectors, EditsProofs!SendVectors, Edits!HasRows,
      EditsProofs!HasRows, Edits!SendRows, EditsProofs!SendRows,
      Edits!FlushDeferred, EditsProofs!FlushDeferred, Edits!Refused,
      EditsProofs!Refused, Edits!Flush, EditsProofs!Flush, Edits!Count,
      EditsProofs!Count, Edits!Stamp, EditsProofs!Stamp, Edits!Fail,
      EditsProofs!Fail, Edits!Crash, EditsProofs!Crash, Edits!Apply,
      EditsProofs!Apply, Edits!Edit, EditsProofs!Edit, Edits!Cache,
      EditsProofs!Cache, Edits!Answer,
      EditsProofs!Answer, Edits!CacheAnswer, EditsProofs!CacheAnswer,
      Edits!Expire, EditsProofs!Expire, Edits!Step, EditsProofs!Step,
      Edits!Next, EditsProofs!Next
  <1>3. UNCHANGED written => UNCHANGED EditsProofs!vars
    BY DEF written, EditsProofs!vars
  <1> QED
    BY <1>1, <1>2, <1>3

LEMMA BesideSame ==
    /\ Beside!Init => BesideProofs!Init
    /\ [Beside!Next]_written => [BesideProofs!Next]_BesideProofs!vars
  <1>1. Beside!Init => BesideProofs!Init
    BY DEF Beside!Init, BesideProofs!Init, Beside!Idle, BesideProofs!Idle, Beside!Absent,
      BesideProofs!Absent
  <1>2. Beside!Next => BesideProofs!Next
    BY DEF Beside!Cardinality, BesideProofs!Cardinality, Beside!stores,
      BesideProofs!stores, Beside!answers, BesideProofs!answers, Beside!vars,
      BesideProofs!vars, Beside!Versions, BesideProofs!Versions, Beside!Absent,
      BesideProofs!Absent, Beside!Unstamped, BesideProofs!Unstamped,
      Beside!DocVersions, BesideProofs!DocVersions, Beside!Chunks,
      BesideProofs!Chunks, Beside!LeavesOf, BesideProofs!LeavesOf,
      Beside!ParentsOf, BesideProofs!ParentsOf, Beside!DocsOf, BesideProofs!DocsOf,
      Beside!Of, BesideProofs!Of, Beside!Windows, BesideProofs!Windows, Beside!Idle,
      BesideProofs!Idle, Beside!Init, BesideProofs!Init, Beside!At, BesideProofs!At,
      Beside!Active, BesideProofs!Active, Beside!Stale, BesideProofs!Stale,
      Beside!Prior, BesideProofs!Prior, Beside!Start, BesideProofs!Start,
      Beside!Load, BesideProofs!Load, Beside!Exhaust, BesideProofs!Exhaust,
      Beside!SelectChanged, BesideProofs!SelectChanged, Beside!Process,
      BesideProofs!Process, Beside!PurgeVectors, BesideProofs!PurgeVectors,
      Beside!PurgeRows, BesideProofs!PurgeRows, Beside!Invalidate,
      BesideProofs!Invalidate, Beside!WriteDocuments, BesideProofs!WriteDocuments,
      Beside!BatchDone, BesideProofs!BatchDone, Beside!NextBatch,
      BesideProofs!NextBatch, Beside!NextGroup, BesideProofs!NextGroup,
      Beside!SendVectors, BesideProofs!SendVectors, Beside!HasRows,
      BesideProofs!HasRows, Beside!SendRows, BesideProofs!SendRows,
      Beside!FlushDeferred, BesideProofs!FlushDeferred, Beside!Refused,
      BesideProofs!Refused, Beside!Flush, BesideProofs!Flush, Beside!Count,
      BesideProofs!Count, Beside!Stamp, BesideProofs!Stamp, Beside!Fail,
      BesideProofs!Fail, Beside!Crash, BesideProofs!Crash, Beside!Apply,
      BesideProofs!Apply, Beside!Edit, BesideProofs!Edit, Beside!Cache,
      BesideProofs!Cache, Beside!Answer,
      BesideProofs!Answer, Beside!CacheAnswer, BesideProofs!CacheAnswer,
      Beside!Expire, BesideProofs!Expire, Beside!Step, BesideProofs!Step,
      Beside!Next, BesideProofs!Next
  <1>3. UNCHANGED written => UNCHANGED BesideProofs!vars
    BY DEF written, BesideProofs!vars
  <1> QED
    BY <1>1, <1>2, <1>3

\* A step is of one instance at most.
LEMMA StepOfEach ==
  ASSUME [BothNext]_<<vars, written, which>>
  PROVE  /\ which' = which
         /\ which = "asked" => [Asked!Next]_vars
         /\ which = "twice" => [Twice!Next]_vars
         /\ which \notin {"asked", "twice"} => [Next]_vars
         /\ which # "beside" => [Edits!Next]_written
         /\ which = "beside" => [Beside!Next]_written
  BY DEF BothNext

\* Asked starts as the others do: the constants that differ are not in Init.
LEMMA AskedStart == Init => Asked!Init
  BY DEF Init, Asked!Init, Idle, Asked!Idle, NoBuild, Asked!NoBuild

-----------------------------------------------------------------------------
\* The types, and what RowsStayRetrievable needs.
TypesInv ==
    /\ which = "asked" => AskedProofs!Whole
    /\ which = "twice" => TwiceProofs!Whole
    /\ which \notin {"asked", "twice"} => Whole
    /\ which # "beside" => EditsProofs!TypeOK
    /\ which = "beside" => BesideProofs!TypeOK

LEMMA TypesInit == BothInit => TypesInv
  <1> SUFFICES ASSUME BothInit PROVE TypesInv
    OBVIOUS
  <1>1. which = "twice" => TwiceProofs!Whole
    BY TwiceSame, TwiceConstants, TwiceProofs!WholeInit DEF BothInit
  <1>2. which = "asked" => AskedProofs!Whole
    BY AskedStart, AskedSame, AskedConstants, AskedProofs!WholeInit DEF BothInit
  <1>3. which \notin {"asked", "twice"} => Whole
    BY WholeInit DEF BothInit
  <1>4. which # "beside" => EditsProofs!TypeOK
    BY EditsSame, EditsConstants, EditsProofs!InitTyped DEF BothInit
  <1>5. which = "beside" => BesideProofs!TypeOK
    BY BesideSame, BesideConstants, BesideProofs!InitTyped DEF BothInit
  <1> QED
    BY <1>1, <1>2, <1>3, <1>4, <1>5 DEF TypesInv

LEMMA TypesStep == TypesInv /\ [BothNext]_<<vars, written, which>> => TypesInv'
  <1> SUFFICES ASSUME TypesInv, [BothNext]_<<vars, written, which>> PROVE TypesInv'
    OBVIOUS
  <1>1. which' = which
    BY StepOfEach
  <1>2. which = "twice" => TwiceProofs!Whole'
    BY StepOfEach, TwiceSame, TwiceConstants, TwiceProofs!WholeStep DEF TypesInv
  <1>3. which = "asked" => AskedProofs!Whole'
    BY StepOfEach, AskedSame, AskedConstants, AskedProofs!WholeStep DEF TypesInv
  <1>4. which \notin {"asked", "twice"} => Whole'
    BY StepOfEach, WholeStep DEF TypesInv
  <1>5. which # "beside" => EditsProofs!TypeOK'
    BY StepOfEach, EditsSame, EditsConstants, EditsProofs!NextTyped DEF TypesInv
  <1>6. which = "beside" => BesideProofs!TypeOK'
    BY StepOfEach, BesideSame, BesideConstants, BesideProofs!NextTyped DEF TypesInv
  <1> QED
    BY <1>1, <1>2, <1>3, <1>4, <1>5, <1>6 DEF TypesInv

LEMMA TypesHold == BothSpec => []TypesInv
  BY TypesInit, TypesStep, PTL DEF BothSpec

\* The variables of each instance keep their types beside the others.
THEOREM AllTyped == BothSpec => []TypesOK
  <1>1. TypesInv => TypesOK
    <2> SUFFICES ASSUME TypesInv PROVE TypesOK
      OBVIOUS
    <2>1. which = "twice" => Twice!TypeOK
      <3>1. which = "twice" => TwiceProofs!TypeOK
        BY DEF TypesInv, TwiceProofs!Whole
      <3>2. TwiceProofs!TypeOK => Twice!TypeOK
        BY DEF Twice!TypeOK, TwiceProofs!TypeOK, Twice!Chunks, TwiceProofs!Chunks,
      Twice!RunStates, TwiceProofs!RunStates, Twice!BuildStates,
      TwiceProofs!BuildStates
      <3> QED
        BY <3>1, <3>2
    <2>2. which = "asked" => Asked!TypeOK
      <3>1. which = "asked" => AskedProofs!TypeOK
        BY DEF TypesInv, AskedProofs!Whole
      <3>2. AskedProofs!TypeOK => Asked!TypeOK
        BY DEF Asked!TypeOK, AskedProofs!TypeOK, Asked!Chunks, AskedProofs!Chunks,
      Asked!RunStates, AskedProofs!RunStates, Asked!BuildStates,
      AskedProofs!BuildStates
      <3> QED
        BY <3>1, <3>2
    <2>3. which # "beside" => Edits!TypeOK
      <3>1. which # "beside" => EditsProofs!TypeOK
        BY DEF TypesInv
      <3>2. EditsProofs!TypeOK => Edits!TypeOK
        BY DEF Edits!TypeOK, EditsProofs!TypeOK, Edits!Versions, EditsProofs!Versions,
      Edits!Unstamped, EditsProofs!Unstamped, Edits!Chunks, EditsProofs!Chunks,
      Edits!Absent, EditsProofs!Absent, Edits!DocVersions,
      EditsProofs!DocVersions, Edits!RunStates, EditsProofs!RunStates
      <3> QED
        BY <3>1, <3>2
    <2>4. which = "beside" => Beside!TypeOK
      <3>1. which = "beside" => BesideProofs!TypeOK
        BY DEF TypesInv
      <3>2. BesideProofs!TypeOK => Beside!TypeOK
        BY DEF Beside!TypeOK, BesideProofs!TypeOK, Beside!Versions, BesideProofs!Versions,
      Beside!Unstamped, BesideProofs!Unstamped, Beside!Chunks, BesideProofs!Chunks,
      Beside!Absent, BesideProofs!Absent, Beside!DocVersions,
      BesideProofs!DocVersions, Beside!RunStates, BesideProofs!RunStates
      <3> QED
        BY <3>1, <3>2
    <2>5. which \notin {"asked", "twice"} => TypeOK
      BY DEF TypesInv, Whole
    <2> QED
      BY <2>1, <2>2, <2>3, <2>4, <2>5 DEF TypesOK
  <1> QED
    BY <1>1, TypesHold, PTL

\* In each instance a document that has rows and is not being deleted can be
\* retrieved until something fails: no delete leaves the rows of another's.
THEOREM MetRowsRetrievable == BothSpec => []RetrievableTogether
  <1>1. TypesInv => RetrievableTogether
    <2>1. TwiceProofs!Whole => Twice!RowsAreRetrievable
      BY TwiceConstants, TwiceProofs!WholeIsRetrievable
      DEF TwiceProofs!RowsAreRetrievable, Twice!RowsAreRetrievable, TwiceProofs!Deleting,
        Twice!Deleting, TwiceProofs!Of, Twice!Of
    <2>2. AskedProofs!Whole => RowsAreRetrievable
      BY AskedConstants, AskedProofs!WholeIsRetrievable
      DEF AskedProofs!RowsAreRetrievable, RowsAreRetrievable, AskedProofs!Deleting,
        Deleting, AskedProofs!Of, Of
    <2>3. Whole => RowsAreRetrievable
      BY WholeIsRetrievable
    <2> QED
      BY <2>1, <2>2, <2>3 DEF TypesInv, RetrievableTogether
  <1> QED
    BY <1>1, TypesHold, PTL

-----------------------------------------------------------------------------
\* What the deletes of each instance keep, of documents of one version.
ForgetInv ==
    /\ which = "asked" =>
         AskedProofs!Intact /\ AskedProofs!Honest /\ AskedProofs!DeletedIsForgotten
    /\ which = "twice" =>
         TwiceProofs!Intact /\ TwiceProofs!Honest /\ TwiceProofs!DeletedIsForgotten
    /\ which \notin {"asked", "twice"} => Intact /\ Honest /\ DeletedIsForgotten

\* One delete that statements of it fail, or that dies, where questions are
\* answered, and deletes that meet there, leave no answer standing from a document
\* that one of them has reported deleted.
THEOREM MetDeletesForget ==
  ASSUME OneVersion, Alone
  PROVE  BothSpec => []DeletedIsForgotten
  <1>1. BothInit => ForgetInv
    <2> SUFFICES ASSUME BothInit PROVE ForgetInv
      OBVIOUS
    <2>1. which = "twice" =>
            TwiceProofs!Intact /\ TwiceProofs!Honest /\ TwiceProofs!DeletedIsForgotten
      BY TwiceSame, TwiceConstants, TwiceProofs!IntactInit, TwiceProofs!HonestInit,
         TwiceProofs!ForgetInit DEF BothInit
    <2>2. which = "asked" =>
            AskedProofs!Intact /\ AskedProofs!Honest /\ AskedProofs!DeletedIsForgotten
      BY AskedStart, AskedSame, AskedConstants, AskedProofs!IntactInit,
         AskedProofs!HonestInit, AskedProofs!ForgetInit DEF BothInit
    <2>3. which \notin {"asked", "twice"} => Intact /\ Honest /\ DeletedIsForgotten
      BY IntactInit, HonestInit, ForgetInit DEF BothInit
    <2> QED
      BY <2>1, <2>2, <2>3 DEF ForgetInv
  <1>2. ForgetInv /\ [BothNext]_<<vars, written, which>> => ForgetInv'
    <2> SUFFICES ASSUME ForgetInv, [BothNext]_<<vars, written, which>> PROVE ForgetInv'
      OBVIOUS
    <2>1. ASSUME which = "twice"
          PROVE  (TwiceProofs!Intact /\ TwiceProofs!Honest /\ TwiceProofs!DeletedIsForgotten)'
      <3>1. [TwiceProofs!Next]_TwiceProofs!vars
        BY <2>1, StepOfEach, TwiceSame
      <3>2. TwiceProofs!Intact'
        BY <2>1, <3>1, TwiceConstants, TwiceProofs!IntactStep DEF ForgetInv
      <3>3. TwiceProofs!Honest'
        BY <2>1, <3>1, TwiceConstants, TwiceProofs!HonestStep DEF ForgetInv
      <3>4. TwiceProofs!DeletedIsForgotten'
        BY <2>1, <3>1, TwiceConstants, TwiceProofs!ForgetStep DEF ForgetInv
      <3> QED
        BY <3>2, <3>3, <3>4
    <2>2. ASSUME which = "asked"
          PROVE  (AskedProofs!Intact /\ AskedProofs!Honest /\ AskedProofs!DeletedIsForgotten)'
      <3>1. [AskedProofs!Next]_AskedProofs!vars
        BY <2>2, StepOfEach, AskedSame
      <3>2. AskedProofs!Intact'
        BY <2>2, <3>1, AskedConstants, AskedProofs!IntactStep DEF ForgetInv
      <3>3. AskedProofs!Honest'
        BY <2>2, <3>1, AskedConstants, AskedProofs!HonestStep DEF ForgetInv
      <3>4. AskedProofs!DeletedIsForgotten'
        BY <2>2, <3>1, AskedConstants, AskedProofs!ForgetStep DEF ForgetInv
      <3> QED
        BY <3>2, <3>3, <3>4
    <2>3. ASSUME which \notin {"asked", "twice"}
          PROVE  (Intact /\ Honest /\ DeletedIsForgotten)'
      <3>1. Intact /\ Honest /\ DeletedIsForgotten /\ [Next]_vars
        BY <2>3, StepOfEach DEF ForgetInv
      <3> QED
        BY <3>1, IntactStep, HonestStep, ForgetStep
    <2> QED
      BY <2>1, <2>2, <2>3, StepOfEach DEF ForgetInv
  <1>3. ForgetInv => DeletedIsForgotten
    BY DEF ForgetInv, TwiceProofs!DeletedIsForgotten, AskedProofs!DeletedIsForgotten,
      DeletedIsForgotten, TwiceProofs!Of, AskedProofs!Of, Of, TwiceProofs!standing,
      AskedProofs!standing, standing
  <1> QED
    BY <1>1, <1>2, <1>3, PTL DEF BothSpec

-----------------------------------------------------------------------------
\* What the one delete keeps.
FaultyInv == which = "faulty" => Pruned

\* A delete that has the graph for itself leaves no entity that nothing
\* mentions and no community without a member, whatever failed before it.
THEOREM FaultyTidies ==
  ASSUME OneDelete, Alone
  PROVE  BothSpec => TidyAlone
  <1>1. BothInit => FaultyInv
    BY IntactInit DEF Init, Pruned, At, Idle, BothInit, FaultyInv
  <1>2. FaultyInv /\ [BothNext]_<<vars, written, which>> => FaultyInv'
    BY StepOfEach, PrunedStep DEF FaultyInv
  <1>3. FaultyInv /\ [BothNext]_<<vars, written, which>> => [which = "faulty" => Tidies]_vars
    BY StepOfEach, TidiesStep DEF FaultyInv
  <1> QED
    BY <1>1, <1>2, <1>3, PTL DEF BothSpec, TidyAlone

-----------------------------------------------------------------------------
\* What a run over edited sources keeps.
EditsInv == which = "edits" => EditsProofs!StagedInv

LEMMA EditsUnfailing == EditsProofs!Unfailing
  BY DEF EditsProofs!Unfailing, EditsProofs!NoFaults

\* Forced runs, and runs over sources edited while they work, replace documents as
\* a whole: with no run under way, what the next would skip is in both stores, and
\* an answer from before an edit is served once the edit is indexed only until the
\* cache has applied the delete, or when it was cached after that.
THEOREM ReplacesEverywhere == BothSpec => []ReplacedEverywhere
  <1>1. BothInit => EditsInv
    BY EditsSame, EditsConstants, EditsProofs!StagedInit DEF BothInit, EditsInv
  <1>2. EditsInv /\ [BothNext]_<<vars, written, which>> => EditsInv'
    BY StepOfEach, EditsSame, EditsConstants, EditsUnfailing, EditsProofs!StagedStep
    DEF EditsInv
  <1>3. EditsInv => ReplacedEverywhere
    <2> SUFFICES ASSUME EditsProofs!StagedInv PROVE Edits!RestartIsSafe /\ Edits!AnswersAreCurrent
      BY DEF EditsInv, ReplacedEverywhere
    <2>1. EditsProofs!RestartIsSafe /\ EditsProofs!AnswersAreCurrent
      BY EditsConstants, EditsUnfailing, EditsProofs!StagedIsSafe
    <2>2. EditsProofs!RestartIsSafe => Edits!RestartIsSafe
      BY DEF EditsProofs!RestartIsSafe, Edits!RestartIsSafe, EditsProofs!SkippedIsIndexed,
        Edits!SkippedIsIndexed, EditsProofs!Skipped, Edits!Skipped, EditsProofs!Prior,
        Edits!Prior, EditsProofs!Versions, Edits!Versions, EditsProofs!Absent, Edits!Absent,
        EditsProofs!Active, Edits!Active, EditsProofs!LeavesOf, Edits!LeavesOf,
        EditsProofs!ParentsOf, Edits!ParentsOf, EditsProofs!Chunks, Edits!Chunks
    <2>3. EditsProofs!AnswersAreCurrent => Edits!AnswersAreCurrent
      BY DEF EditsProofs!AnswersAreCurrent, Edits!AnswersAreCurrent, EditsProofs!Skipped,
        Edits!Skipped, EditsProofs!Prior, Edits!Prior, EditsProofs!Versions, Edits!Versions,
        EditsProofs!Absent, Edits!Absent, EditsProofs!standing, Edits!standing
    <2> QED
      BY <2>1, <2>2, <2>3
  <1> QED
    BY <1>1, <1>2, <1>3, PTL DEF BothSpec

-----------------------------------------------------------------------------
\* What runs that meet keep.
BesideInv == which = "beside" => BesideProofs!MeetInv(First)

LEMMA BesideInit == BothInit => BesideInv
  <1>1. BesideProofs!Init => BesideProofs!MeetInv(First)
    BY BesideConstants, BesideProofs!MeetInit
  <1> QED
    BY <1>1, BesideSame DEF BothInit, BesideInv

LEMMA BesideStep == BesideInv /\ [BothNext]_<<vars, written, which>> => BesideInv'
  <1>1. BesideProofs!MeetInv(First) /\ [BesideProofs!Next]_BesideProofs!vars
          => BesideProofs!MeetInv(First)'
    BY BesideConstants, BesideProofs!MeetNext
  <1> QED
    BY <1>1, StepOfEach, BesideSame DEF BesideInv

\* However many runs are pointed at one document beside a run over all of them:
\* whatever they do to each other's purges, windows and foreign keys, what the
\* next run skips is indexed whole when they have ended.
THEOREM RestartsStaySafe == BothSpec => []RestartsAreSafe
  <1>1. BesideInv => RestartsAreSafe
    <2>1. BesideProofs!MeetInv(First) => BesideProofs!RestartIsSafe
      BY BesideConstants, BesideProofs!MeetIsSafe
    <2>2. BesideProofs!RestartIsSafe => Beside!RestartIsSafe
      BY DEF BesideProofs!RestartIsSafe, Beside!RestartIsSafe, BesideProofs!SkippedIsIndexed,
        Beside!SkippedIsIndexed, BesideProofs!Skipped, Beside!Skipped, BesideProofs!Prior,
        Beside!Prior, BesideProofs!Versions, Beside!Versions, BesideProofs!Absent, Beside!Absent,
        BesideProofs!Active, Beside!Active, BesideProofs!LeavesOf, Beside!LeavesOf,
        BesideProofs!ParentsOf, Beside!ParentsOf, BesideProofs!Chunks, Beside!Chunks
    <2> QED
      BY <2>1, <2>2 DEF BesideInv, RestartsAreSafe
  <1> QED
    BY <1>1, BesideInit, BesideStep, PTL DEF BothSpec
=============================================================================
