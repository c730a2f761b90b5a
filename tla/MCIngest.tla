------------------------------ MODULE MCIngest ------------------------------
(***************************************************************************)
(* Runs of Ingest, one document and one chunk at a time, as the constants  *)
(* say; Wide, which takes both documents in one window, where one may fail *)
(* and the other goes on, and writes chunks of both in one batch; and a    *)
(* corpus that has been indexed and edited before two runs meet over it.   *)
(***************************************************************************)
EXTENDS Ingest

VARIABLE wide   \* a behaviour is of Wide

Wide == INSTANCE Ingest WITH DocWindow <- 2, Window <- 2, Batch <- 3

\* Every run is pointed at every document.
SameTarget == [r \in Runs |-> Docs]

\* One run is pointed at every document, the others at all but one of them.
OverlapTarget == LET r == CHOOSE r \in Runs : TRUE
                     d == CHOOSE d \in Docs : TRUE
                 IN [q \in Runs |-> IF q = r THEN Docs ELSE Docs \ {d}]

EitherInit == wide \in BOOLEAN /\ Init
EitherStep(r) == (IF wide THEN Wide!Step(r) ELSE Step(r)) /\ UNCHANGED wide
EitherRetry(r) == (IF wide THEN Wide!Retry(r) ELSE Retry(r)) /\ UNCHANGED wide
EitherApply == (IF wide THEN Wide!Apply ELSE Apply) /\ UNCHANGED wide
EitherNext == (IF wide THEN Wide!Next ELSE Next) /\ UNCHANGED wide

\* One document at a time or both, with the fairness of FairSpec.
EitherSpec ==
    /\ EitherInit /\ [][EitherNext]_<<vars, wide>>
    /\ \A r \in Runs : WF_vars(EitherStep(r)) /\ WF_vars(EitherRetry(r))
    /\ WF_vars(EitherApply)

\* Every document is indexed at its first version, and has been edited since:
\* a state that Spec reaches, one run and one edit of each document later.
EditedInit ==
    /\ wide = FALSE
    /\ source = [d \in Docs |-> 2] /\ row = [d \in Docs |-> 1]
    /\ chunkRows = LeavesOf(Docs \X {1}) \cup ParentsOf(Docs \X {1})
    /\ points = LeavesOf(Docs \X {1}) /\ accepted = {}
    /\ awaiting = [d \in Docs |-> Absent]
    /\ cached = {} /\ answering = {} /\ leaving = {} /\ missed = {}
    /\ run = [r \in Runs |-> Idle]
    /\ faults = 0

EditedSpec == EditedInit /\ [][Next /\ UNCHANGED wide]_<<vars, wide>>
=============================================================================
