----------------------------- MODULE MCPageDraft -----------------------------
(***************************************************************************)
(* Model values for PageDraft: two screens, three page ids, a limit of two *)
(* pages so that the limit is reached.                                     *)
(***************************************************************************)
EXTENDS PageDraftRefinement, TLC

CONSTANTS t1, t2, p1, p2, p3

MCTabs == {t1, t2}
MCPageIds == {p1, p2, p3}

\* Page ids are interchangeable, and neither the fairness nor the liveness
\* property speaks of one, so that a cycle of representatives stands for a
\* behaviour.  The screens, which both speak of, are not permuted.
MCSymmetry == Permutations(MCPageIds)
=============================================================================
