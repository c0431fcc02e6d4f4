--------------------- MODULE LearnerProgressRefinement ---------------------
(***************************************************************************)
(* LearnerProgress implements LearnerRecord: what a request resolved, the  *)
(* rows inserted and rolled back, the locks and the reset that waits for   *)
(* them disappear, and every commit is one step on the record as it is.    *)
(***************************************************************************)
EXTENDS LearnerProgress

Done(row) == IF row.completed THEN <<row.of, row.number>> ELSE None
Counted(row) == IF row.superseded THEN None ELSE Done(row)

RecordOf(row) ==
    [reading |-> row.module, seen |-> row.viewed, done |-> Done(row), counted |-> Counted(row)]

Record == INSTANCE LearnerRecord WITH
    texts <- versions,
    record <- [l \in Learners |-> RecordOf(progress[l])]

\* Every behaviour of the learners' requests, of their tabs and of the author's
\* publishes is one of the record: no request decides on a row as it was before
\* another commit, and a publish counts for everybody at one moment
\* (routes/learning.py `_claim_progress`, routes/content.py `publish_module`).
ImplementsRecord == Record!Spec
=============================================================================
