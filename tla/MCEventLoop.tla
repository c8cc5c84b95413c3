---------------------------- MODULE MCEventLoop -----------------------------
(***************************************************************************)
(* Model of EventLoop for TLC.                                             *)
(***************************************************************************)
EXTENDS EventLoop
=============================================================================
