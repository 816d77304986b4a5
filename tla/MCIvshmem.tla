------------------------------ MODULE MCIvshmem -------------------------------
(* Instances of Ivshmem for TLC.                                             *)
EXTENDS Ivshmem
===============================================================================
