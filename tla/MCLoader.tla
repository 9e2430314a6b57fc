------------------------------ MODULE MCLoader ------------------------------
(* Constants of the Loader run: all exports are exports of one module.       *)
EXTENDS Loader

MCDll == [p \in Procs |-> "d1"]
=============================================================================
