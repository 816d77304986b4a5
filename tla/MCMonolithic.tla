----------------------------- MODULE MCMonolithic -----------------------------
(* Instances of Monolithic for TLC.                                          *)
EXTENDS Monolithic
===============================================================================
