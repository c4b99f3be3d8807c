---------------------------- MODULE MCInterrupts ----------------------------
(* All four lines the kernel installs; three handlers deep. *)
EXTENDS Interrupts
=============================================================================
