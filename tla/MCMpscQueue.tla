---------------------------- MODULE MCMpscQueue -----------------------------
(***************************************************************************)
(* Model of MpscQueue for TLC.                                             *)
(***************************************************************************)
EXTENDS MpscQueue
=============================================================================
