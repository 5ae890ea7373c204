---------------------------- MODULE MCTransRecv -----------------------------
(***************************************************************************)
(* TransRecv's properties and the constants its run uses: the PC's peer    *)
(* sends three frames, the UI's one and an ACK.                            *)
(***************************************************************************)
EXTENDS TransRecv, TLC

CONSTANTS pc_port, ui_port

MCLastFrame == pc_port :> 3 @@ ui_port :> 1
MCDataLen == <<2, 1, 1>>
MCMaxCmds == pc_port :> 0 @@ ui_port :> 1
=============================================================================
