------------------------------- MODULE MCDisk -------------------------------
(* A time limit of five units and a clock that runs well past it. *)
EXTENDS Disk
=============================================================================
