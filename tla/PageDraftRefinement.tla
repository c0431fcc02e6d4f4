------------------------- MODULE PageDraftRefinement -------------------------
(***************************************************************************)
(* PageDraft implements DraftRegister: rows, locks, two-statement reads    *)
(* and lost answers disappear, and what is left is a register with         *)
(* compare-and-swap.                                                       *)
(***************************************************************************)
EXTENDS PageDraft

Register == INSTANCE DraftRegister WITH
    Blank <- Empty,
    text <- pages,
    revision <- module.revision,
    open <- (module.status # "deleted"),
    view <- tab

\* Every behaviour of the handlers, their lock and the screens is a behaviour
\* of the register: no page write takes effect over a text its author was not
\* shown (routes/content.py `_claim_draft`).
ImplementsRegister == Register!Spec
=============================================================================
