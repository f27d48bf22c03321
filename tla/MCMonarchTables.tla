-------------------------- MODULE MCMonarchTables --------------------------
(* MonarchTables for TLC.                                                   *)
EXTENDS MonarchTables, TLC

CONSTANTS own, w2, ui

\* The monarch's own window and another one, each with an id of its own.
TwoWindows  == own :> 1 @@ w2 :> 2
=============================================================================
