----------------------------- MODULE MCTcpServer -----------------------------
(***************************************************************************)
(* Model of TcpServer for TLC.                                             *)
(***************************************************************************)
EXTENDS TcpServer
=============================================================================
