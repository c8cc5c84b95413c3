---------------------------- MODULE MCTimingWheel ----------------------------
(***************************************************************************)
(* Model of TimingWheel for TLC.                                           *)
(***************************************************************************)
EXTENDS TimingWheel, TLC

\* One wheel, as TcpServer::start() makes it for short time-outs, and one that the
\* time-out fills; two, as for long ones; three.
ShapesMC == {<<3, 2>>, <<2, 2>>, <<3, 4>>, <<2, 5>>}

\* The connections are alike.
Symmetry == Permutations(Peers)
=============================================================================
