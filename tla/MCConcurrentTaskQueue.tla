------------------------ MODULE MCConcurrentTaskQueue ------------------------
(***************************************************************************)
(* Model of ConcurrentTaskQueue for TLC.                                   *)
(***************************************************************************)
EXTENDS ConcurrentTaskQueue
=============================================================================
