----------------------------- MODULE MCRemovals -----------------------------
(***************************************************************************)
(* Five ways the documents of the stores are replaced or removed: one      *)
(* delete beside the building of a graph, as the constants say; Asked, one *)
(* delete where questions are answered and there is no graph; Twice,       *)
(* deletes that meet there with nothing failing; Edits, a run of Ingest,   *)
(* forced or not, over sources that are edited at any moment and questions *)
(* that are answered meanwhile; and Beside, a run over every document next *)
(* to one over one of them.                                                *)
(***************************************************************************)
EXTENDS Removal

CONSTANTS shared, own,
          Both         \* the deletes of Twice, and the runs of Beside

ASSUME Finitely == IsFiniteSet(Docs) /\ Docs # {}

\* The first document alone names more than the shared entity.
OneSaysMore == [c \in Docs \X Contents |->
                  IF c[1] = (CHOOSE d \in Docs : TRUE) THEN {shared, own}
                  ELSE {shared}]

VARIABLES source, row, chunkRows, stored, accepted, awaiting, served, computed,
          fading, overlooked,
          ingest, broken,   \* the variables of Edits and Beside
          which             \* the instance a behaviour is of

written == <<source, row, chunkRows, stored, accepted, awaiting, served, computed,
             fading, overlooked, ingest, broken>>

\* Documents that name no entity: there is no graph.
Silent == [c \in Docs \X Contents |-> {}]

Asked == INSTANCE Removal WITH
    Says <- Silent, MaxFaults <- 1,
    Allowed <- {"noRows", "kill", "answers", "slowAnswers", "cacheDown"}

Twice == INSTANCE Removal WITH
    Runs <- Both, Says <- Silent, MaxFaults <- 0, Allowed <- {"answers"}

One == CHOOSE r \in Runs : TRUE
Edits == INSTANCE Ingest WITH
    Runs <- {One}, Target <- [r \in {One} |-> Docs],
    Leaves <- {1}, Parents <- {2}, DocWindow <- 2, Window <- 1, Batch <- 1,
    MaxVersion <- 2, MaxFaults <- 0,
    Allowed <- {"force", "editDirty", "answers", "slowAnswers"},
    points <- stored, cached <- served, answering <- computed,
    leaving <- fading, missed <- overlooked, run <- ingest, faults <- broken

\* One run is pointed at every document, the others at one of them.
First == CHOOSE d \in Docs : TRUE
PartTarget == LET r == CHOOSE r \in Both : TRUE
              IN [q \in Both |-> IF q = r THEN Docs ELSE {First}]

Beside == INSTANCE Ingest WITH
    Runs <- Both, Target <- PartTarget, Leaves <- {1}, Parents <- {2},
    DocWindow <- 2, Window <- 1, Batch <- 1, MaxVersion <- 2, MaxFaults <- 0,
    Allowed <- {},
    points <- stored, cached <- served, answering <- computed,
    leaving <- fading, missed <- overlooked, run <- ingest, faults <- broken

BothInit == /\ which \in {"faulty", "asked", "twice", "edits", "beside"}
            /\ IF which = "twice" THEN Twice!Init ELSE Init
            /\ IF which = "beside" THEN Beside!Init ELSE Edits!Init

BothNext == /\ \/ which = "faulty" /\ Next /\ UNCHANGED written
               \/ which = "asked" /\ Asked!Next /\ UNCHANGED written
               \/ which = "twice" /\ Twice!Next /\ UNCHANGED written
               \/ which = "edits" /\ Edits!Next /\ UNCHANGED vars
               \/ which = "beside" /\ Beside!Next /\ UNCHANGED vars
            /\ UNCHANGED which

BothSpec == BothInit /\ [][BothNext]_<<vars, written, which>>

-----------------------------------------------------------------------------
\* The type invariant of each instance.
TypesOK == /\ CASE which = "twice" -> Twice!TypeOK
                [] which = "asked" -> Asked!TypeOK
                [] OTHER -> TypeOK
           /\ IF which = "beside" THEN Beside!TypeOK ELSE Edits!TypeOK

\* RowsAreRetrievable of each.
RetrievableTogether ==
    IF which = "twice" THEN Twice!RowsAreRetrievable ELSE RowsAreRetrievable

\* GraphIsTidy where one delete runs: two may each leave the other's orphans.
TidyAlone == [][which = "faulty" => Tidies]_vars

\* RestartIsSafe and AnswersAreCurrent of Edits: what the next run skips is
\* indexed whole, and an answer from before an edit outlives the re-ingest only
\* until the cache has applied the delete, or because it was cached after that.
ReplacedEverywhere ==
    which = "edits" => Edits!RestartIsSafe /\ Edits!AnswersAreCurrent

\* RestartIsSafe where two runs meet over one document: whatever they do to each
\* other's purges, windows and foreign keys, what the next run skips is indexed
\* whole.  Over two documents it is not: see IngestMeets.cfg.
RestartsAreSafe == which = "beside" => Beside!RestartIsSafe
=============================================================================
