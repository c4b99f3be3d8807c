------------------------------ MODULE MCClock ------------------------------
(* 16 has the remainder 2^32 has modulo 10, so the low word is 0 once in five
   wraps, as in the kernel; three such rounds are run.  With seconds of 10
   units the correction of get_seconds is 6/10 for 37/125. *)
EXTENDS Clock

AllDurations == 0..Word-1
=============================================================================
