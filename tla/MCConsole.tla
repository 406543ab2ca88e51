------------------------------ MODULE MCConsole ------------------------------
(* Console whose chains have two segments.                                 *)
EXTENDS Console

SomeChains == {<<1, 2>>}
=============================================================================
