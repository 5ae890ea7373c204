---------------------------- MODULE MCTcpLinks ------------------------------
(***************************************************************************)
(* TcpLinks's properties and the constants its runs share.                 *)
(***************************************************************************)
EXTENDS TcpLinks

\* As many as the listening socket, the two connections and the FTP
\* session need together.
MCSocket == 0 .. 3
=============================================================================
