---------------------------- MODULE MCTicketLock ----------------------------
(***************************************************************************)
(* Instances of TicketLock.  With as many tickets as threads the tickets   *)
(* wrap around while every thread is in line: the tightest Modulus that    *)
(* ModulusAssumption allows.                                               *)
(***************************************************************************)
EXTENDS TicketLock

\* Threads differ only by name; used for safety only.
Symmetry == Permutations(Threads)
=============================================================================
