------------------------------ MODULE MCOutreach ------------------------------
(***************************************************************************)
(* Model values for Outreach: two runs over two assignments.               *)
(***************************************************************************)
EXTENDS Outreach, TLC

CONSTANTS anna, ben, p1, p2, s1, s2

MCLearners == {anna, ben}
OneLearner == {anna}
MCAssigners == {p1, p2}
MCStanding == {p1}
MCSenders == {s1, s2}

\* Day 0 is the day before the first date and between two weeks of the second;
\* day 1 is the first date and a week after the second.
MCDues == {1, -6}
OneDue == {1}

\* Runs are interchangeable.
MCSymmetry == Permutations(MCSenders)
=============================================================================
