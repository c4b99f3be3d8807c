-------------------------------- MODULE MCPS2 --------------------------------
(* Every kind of drive, those init_disk does not come back from included; both
   kinds of interrupt controller; replies to the reset that come too late. *)
EXTENDS PS2
=============================================================================
