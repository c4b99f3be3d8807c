----------------------------- MODULE MCKeyboard -----------------------------
(* Two characters and a buffer of four bytes, that is lines of three keys;
   "ab" stands for "enablegraphics". *)
EXTENDS Keyboard

EnableGraphics == <<"a", "b">>
=============================================================================
