---------------------------- MODULE MCAppConfig -----------------------------
(***************************************************************************)
(* AppConfig's properties and the constants its run uses.                  *)
(***************************************************************************)
EXTENDS AppConfig, TLC

=============================================================================
