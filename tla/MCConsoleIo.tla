----------------------------- MODULE MCConsoleIo -----------------------------
(* ConsoleIo for TLC: two processes of one thread each and one handle that *)
(* both can use.                                                           *)
EXTENDS ConsoleIo

CONSTANTS p1, p2, t1, t2

MCOwner == (t1 :> p1) @@ (t2 :> p2)
MCBatches == {<<"char">>, <<"enter">>, <<"other">>, <<"enter", "enter">>, <<"other", "char">>}
=============================================================================
