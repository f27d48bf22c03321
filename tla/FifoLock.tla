------------------------------ MODULE FifoLock ------------------------------
(***************************************************************************)
(* What til::ticket_lock promises: threads arrive in a line, only the head *)
(* of the line is let in, and it leaves before the next one enters.        *)
(* TicketLock implements it.                                               *)
(***************************************************************************)
EXTENDS Naturals, Sequences

CONSTANT Threads

VARIABLES queue,   \* the threads that hold or wait for the lock, by arrival
          inside   \* TRUE when the head of the queue has been let in

vars == <<queue, inside>>

InQueue(t) == \E i \in 1..Len(queue) : queue[i] = t

Init == queue = <<>> /\ inside = FALSE

\* A thread that is not in line goes to its end.
Arrive(t) ==
    /\ ~InQueue(t)
    /\ queue' = Append(queue, t)
    /\ UNCHANGED inside

\* The head of the line is let in, once.
Enter ==
    /\ queue # <<>> /\ ~inside
    /\ inside' = TRUE
    /\ UNCHANGED queue

\* The thread inside leaves; the next one in line becomes the head.
Leave ==
    /\ inside
    /\ inside' = FALSE
    /\ queue' = Tail(queue)

Next == (\E t \in Threads : Arrive(t)) \/ Enter \/ Leave

Spec == Init /\ [][Next]_vars
=============================================================================
