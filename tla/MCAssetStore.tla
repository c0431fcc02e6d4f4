----------------------------- MODULE MCAssetStore -----------------------------
(***************************************************************************)
(* Model values for AssetStore: two requests at a time, one module and one *)
(* id for a copy of it.                                                    *)
(***************************************************************************)
EXTENDS AssetStore, TLC

CONSTANTS r1, r2, copy, a1, a2, a3, a4

MCRequests == {r1, r2}
MCCopies == {copy}
FourAssets == {a1, a2, a3, a4}
ThreeAssets == {a1, a2, a3}

\* Requests, and asset ids, are interchangeable.
MCSymmetry == Permutations(MCRequests) \cup Permutations(FourAssets)
=============================================================================
