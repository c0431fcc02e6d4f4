-------------------------- MODULE MCLearnerProgress --------------------------
(***************************************************************************)
(* Model values for LearnerProgress.  One learner with two browser tabs    *)
(* over one variant of two pages, or over two variants of one page each.   *)
(***************************************************************************)
EXTENDS LearnerProgressRefinement, TLC

CONSTANTS anna, tab1, tab2, german, english, g1, g2, e1

OneVariant == {german}
TwoVariants == {german, english}
TwoPages == german :> {g1, g2}
OnePageEach == (german :> {g1}) @@ (english :> {e1})
MCTabs == {tab1, tab2}
OneLearner == {anna}
Both == (tab1 :> anna) @@ (tab2 :> anna)
OneEach == [v \in TwoVariants |-> 1]
TwoGerman == german :> 2

\* The tabs of one learner are interchangeable, and so are a variant's pages.
OneLearnerSymmetry == Permutations(MCTabs) \cup Permutations({g1, g2})

\* With two variants of one page each: the tabs, and the variants with their pages.
VariantSymmetry ==
    Permutations(MCTabs)
      \cup {(german :> english) @@ (english :> german) @@ (g1 :> e1) @@ (e1 :> g1)}
=============================================================================
