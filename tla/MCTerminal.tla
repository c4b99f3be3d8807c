----------------------------- MODULE MCTerminal -----------------------------
(* A buffer of eight bytes and rows of two characters; "c" stands for "clear" and any other
   line for one that has an answer. *)
EXTENDS Terminal

LineC == <<"c">>
=============================================================================
