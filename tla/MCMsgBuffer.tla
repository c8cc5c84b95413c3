----------------------------- MODULE MCMsgBuffer -----------------------------
(***************************************************************************)
(* Model of MsgBuffer for TLC.                                             *)
(***************************************************************************)
EXTENDS MsgBuffer

\* Chunks of one to four bytes: less than, as much as and more than kBufferOffset.
ChunksMC == {<<CR>>, <<LF>>, <<CR, LF>>, <<LF, CR, CR>>, <<CR, LF, LF, CR>>}
=============================================================================
