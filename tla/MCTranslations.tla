---------------------------- MODULE MCTranslations ----------------------------
(***************************************************************************)
(* Model values for Translations: modules, and requests that race.         *)
(***************************************************************************)
EXTENDS Translations, TLC

CONSTANTS m1, m2, r1, r2, r3

MCGiven == {m1, m2}
MCRequests == {r1, r2, r3}
MCLanguages == {"en", "de"}
\* Given modules, and requests, are interchangeable.
MCSymmetry == Permutations(MCGiven) \cup Permutations(MCRequests)
=============================================================================
