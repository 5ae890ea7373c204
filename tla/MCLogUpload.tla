---------------------------- MODULE MCLogUpload -----------------------------
(***************************************************************************)
(* LogUpload's properties and the constants its runs share.                *)
(***************************************************************************)
EXTENDS LogUpload, TLC

Symmetry == Permutations(File)
=============================================================================
