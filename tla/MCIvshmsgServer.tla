---------------------------- MODULE MCIvshmsgServer ---------------------------
(* Instances of IvshmsgServer for TLC.  Connections on which every send goes  *)
(* well are interchangeable.                                                  *)
EXTENDS IvshmsgServer

MCSymmetry == Permutations(Conns \ Lossy)
===============================================================================
