---------------------------- MODULE DraftRegister ----------------------------
(***************************************************************************)
(* What the optimistic token promises the authors of one module, without   *)
(* rows, locks or requests: the draft is a register that is written only   *)
(* by somebody who is looking at what it holds (routes/content.py          *)
(* `_claim_draft`, dependencies.py `get_module_or_404`).                   *)
(***************************************************************************)
EXTENDS Naturals

CONSTANTS Tabs, Blank

VARIABLES
    text,      \* the draft
    revision,  \* how many texts there have been
    open,      \* FALSE once the module is deleted
    view       \* what each author is looking at

register == <<text, revision, open, view>>

Init ==
    /\ text = Blank
    /\ revision = 1
    /\ open = TRUE
    /\ view = [t \in Tabs |-> [token |-> 0, seen |-> Blank]]

\* A view may be out of date, but never without its token showing it.
See(t) ==
    /\ \E n \in 0..revision :
        /\ view'[t].token = n
        /\ n = revision /\ open => view'[t].seen = text
    /\ view' = [view EXCEPT ![t] = view'[t]]
    /\ UNCHANGED <<text, revision, open>>

\* The next text is the author's choice; the text it replaces is not.
Write(t) ==
    /\ open
    /\ view[t].token = revision
    /\ view[t].seen = text
    /\ revision' = revision + 1
    /\ UNCHANGED <<open, view>>

Retire ==
    /\ open
    /\ open' = FALSE
    /\ text' = Blank
    /\ UNCHANGED <<revision, view>>

Next ==
    \/ \E t \in Tabs : See(t) \/ Write(t)
    \/ Retire

Spec == Init /\ [][Next]_register
=============================================================================
