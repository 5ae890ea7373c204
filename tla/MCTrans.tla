------------------------------ MODULE MCTrans -------------------------------
(***************************************************************************)
(* Trans's properties and the constants its runs share.                    *)
(***************************************************************************)
EXTENDS Trans, TLC

Symmetry == Permutations(AckReq)
=============================================================================
