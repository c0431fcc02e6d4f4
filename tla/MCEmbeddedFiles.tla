--------------------------- MODULE MCEmbeddedFiles ---------------------------
(***************************************************************************)
(* Model values for EmbeddedFiles: two authors of one file with a copy     *)
(* being made, and two authors who both upload.                            *)
(***************************************************************************)
EXTENDS EmbeddedFiles, TLC

CONSTANTS t1, t2, f1, f2, m1

MCAuthors == {t1, t2}
NoMaker == {}
MCMakers == {m1}
OneFile == {f1}
MCFiles == {f1, f2}
\* Authors, and files, are interchangeable.
MCSymmetry == Permutations(Authors) \cup Permutations(Files)
=============================================================================
