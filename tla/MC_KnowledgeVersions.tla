-------------------------- MODULE MC_KnowledgeVersions --------------------------
(***************************************************************************)
(* Two of an upload, a replacement, a relearn and a deletion at the same   *)
(* time, with one failure at any point.  The uploads are symmetric.        *)
(***************************************************************************)
EXTENDS KnowledgeVersions, TLC

CONSTANTS u1, u2, r1, x1, h1, h2

TwoUploads == {u1, u2}
SymmetricUploads == Permutations(TwoUploads)
===============================================================================
