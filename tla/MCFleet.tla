------------------------------- MODULE MCFleet -------------------------------
(* A small instance of Fleet for TLC: two control planes and a worker.     *)
EXTENDS Fleet
=============================================================================
