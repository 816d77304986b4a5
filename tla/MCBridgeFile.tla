----------------------------- MODULE MCBridgeFile -----------------------------
(* Instances of BridgeFile for TLC.  The opens are interchangeable.          *)
EXTENDS BridgeFile, TLC

MCSymmetry == Permutations(Files)
===============================================================================
