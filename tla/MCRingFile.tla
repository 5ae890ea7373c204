----------------------------- MODULE MCRingFile -----------------------------
(***************************************************************************)
(* RingFile's properties and the constants its runs share.                 *)
(***************************************************************************)
EXTENDS RingFile, FiniteSets, TLC

Symmetry == Permutations(Record)
=============================================================================
