----------------------------- MODULE MCTcpClient -----------------------------
(***************************************************************************)
(* Model of TcpClient for TLC.                                             *)
(***************************************************************************)
EXTENDS TcpClient
=============================================================================
