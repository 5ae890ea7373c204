---------------------------- MODULE MCAppHeaders ----------------------------
(***************************************************************************)
(* AppHeaders's properties and the constants its run uses.                 *)
(***************************************************************************)
EXTENDS AppHeaders, TLC

=============================================================================
