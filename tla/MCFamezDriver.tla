---------------------------- MODULE MCFamezDriver -----------------------------
(* Instances of FamezDriver for TLC.  Devices are interchangeable, and so    *)
(* are the bridge drivers.                                                   *)
EXTENDS FamezDriver, TLC

MCSymmetry == Permutations(Devs) \cup Permutations(Drivers)
===============================================================================
