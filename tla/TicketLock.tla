----------------------------- MODULE TicketLock -----------------------------
(***************************************************************************)
(* til::recursive_ticket_lock and the til::ticket_lock inside it           *)
(* (src/src/inc/til/ticket_lock.h): the lock that guards a Terminal's      *)
(* buffer and settings (Terminal::LockForReading, LockForWriting and       *)
(* SuspendLock).                                                           *)
(*                                                                         *)
(* One step is one access to a shared atomic.  til::atomic_wait is         *)
(* WaitOnAddress: it sleeps only if the address still holds the value the  *)
(* thread read, and it may return for no reason.                           *)
(***************************************************************************)
EXTENDS Naturals, FiniteSets, SequencesExt

CONSTANTS Threads,      \* the threads that use the lock
          NoOwner,      \* the value 0 of _owner, no thread's id
          Modulus,      \* 2^32 in the code: the tickets wrap around
          MaxDepth,     \* bound: locks a thread holds or has suspended
          MaxSuspended  \* bound: nested suspensions of a thread

ASSUME ThreadsAssumption == IsFiniteSet(Threads) /\ NoOwner \notin Threads
\* Integer overflow is harmless as long as every thread can have a ticket.
ASSUME ModulusAssumption == /\ Modulus \in Nat \ {0}
                            /\ Cardinality(Threads) <= Modulus
ASSUME BoundAssumption == MaxDepth \in Nat /\ MaxSuspended \in Nat

VARIABLES next_ticket, now_serving,  \* ticket_lock
          owner, recursion,          \* recursive_ticket_lock
          pc,         \* where each thread is inside lock/unlock/suspend
          ticket,     \* the local "ticket" of ticket_lock::lock, until served
          current,    \* its local "current"; a dead local is 0
          grant,      \* what the call in progress adds to _recursion
          suspended,  \* the thread's live suspensions: the saved _recursion
          depth       \* the locks the thread holds, by its own reckoning

vars == <<next_ticket, now_serving, owner, recursion, pc, ticket, current,
          grant, suspended, depth>>

Tickets == 0 .. Modulus - 1

Inc(n) == (n + 1) % Modulus

Labels == {"client", "take", "load", "wait", "asleep", "own", "count",
           "zero", "serve", "notify"}

TypeOK ==
    /\ next_ticket \in Tickets /\ now_serving \in Tickets
    /\ owner \in Threads \cup {NoOwner}
    /\ recursion \in Nat
    /\ pc \in [Threads -> Labels]
    /\ ticket \in [Threads -> Tickets]
    /\ current \in [Threads -> Tickets]
    /\ grant \in [Threads -> Nat]
    /\ suspended \in [Threads -> Seq(Nat)]
    /\ depth \in [Threads -> Nat]

Init ==
    /\ next_ticket = 0 /\ now_serving = 0
    /\ owner = NoOwner /\ recursion = 0
    /\ pc = [t \in Threads |-> "client"]
    /\ ticket = [t \in Threads |-> 0]
    /\ current = [t \in Threads |-> 0]
    /\ grant = [t \in Threads |-> 0]
    /\ suspended = [t \in Threads |-> <<>>]
    /\ depth = [t \in Threads |-> 0]

Goto(t, label) == pc' = [pc EXCEPT ![t] = label]

\* A thread that already owns the lock skips the ticket_lock.
Request(t, n) ==
    /\ grant' = [grant EXCEPT ![t] = n]
    /\ Goto(t, IF owner = t THEN "count" ELSE "take")

-----------------------------------------------------------------------------
\* How many locks a thread's suspensions will restore.
Saved(t) == FoldSeq(+, 0, suspended[t])

\* recursive_ticket_lock::lock, up to its first access to _lock.
Lock(t) ==
    /\ pc[t] = "client" /\ depth[t] + Saved(t) < MaxDepth
    /\ Request(t, 1)
    /\ UNCHANGED <<next_ticket, now_serving, owner, recursion, ticket,
                   current, suspended, depth>>

\* ticket_lock::lock draws a ticket: fetch_add on _next_ticket.
TakeTicket(t) ==
    /\ pc[t] = "take"
    /\ ticket' = [ticket EXCEPT ![t] = next_ticket]
    /\ next_ticket' = Inc(next_ticket)
    /\ Goto(t, "load")
    /\ UNCHANGED <<now_serving, owner, recursion, current, grant, suspended,
                   depth>>

\* ticket_lock::lock reads _now_serving and compares it with its ticket.
LoadServing(t) ==
    /\ pc[t] = "load"
    /\ IF now_serving = ticket[t]
         THEN Goto(t, "own") /\ current' = [current EXCEPT ![t] = 0]
         ELSE Goto(t, "wait") /\ current' = [current EXCEPT ![t] = now_serving]
    /\ UNCHANGED <<next_ticket, now_serving, owner, recursion, ticket, grant,
                   suspended, depth>>

\* Mutant: a wake-up is taken for the thread's turn (no loop around the wait).
WaitOnce(t) ==
    /\ pc[t] = "wait"
    /\ Goto(t, IF now_serving = current[t] THEN "asleep" ELSE "own")
    /\ UNCHANGED <<next_ticket, now_serving, owner, recursion, ticket,
                   current, grant, suspended, depth>>

\* Mutant: the wait does not compare, as a condition variable without a lock.
WaitBlindly(t) ==
    /\ pc[t] = "wait"
    /\ Goto(t, "asleep")
    /\ UNCHANGED <<next_ticket, now_serving, owner, recursion, ticket,
                   current, grant, suspended, depth>>

\* til::atomic_wait: go to sleep only while _now_serving is still "current".
Wait(t) ==
    /\ pc[t] = "wait"
    /\ Goto(t, IF now_serving = current[t] THEN "asleep" ELSE "load")
    /\ UNCHANGED <<next_ticket, now_serving, owner, recursion, ticket,
                   current, grant, suspended, depth>>

\* WaitOnAddress may return although nobody called WakeByAddressAll.
SpuriousWake(t) ==
    /\ pc[t] = "asleep"
    /\ Goto(t, "load")
    /\ UNCHANGED <<next_ticket, now_serving, owner, recursion, ticket,
                   current, grant, suspended, depth>>

\* The caller of ticket_lock::lock stores its id in _owner.
StoreOwner(t) ==
    /\ pc[t] = "own"
    /\ owner' = t
    /\ Goto(t, "count")
    /\ UNCHANGED <<next_ticket, now_serving, recursion, ticket, current,
                   grant, suspended, depth>>

\* The owner adds to _recursion: 1 in lock, the saved count in a resumption.
AddRecursion(t) ==
    /\ pc[t] = "count"
    /\ recursion' = recursion + grant[t]
    /\ depth' = [depth EXCEPT ![t] = @ + grant[t]]
    /\ grant' = [grant EXCEPT ![t] = 0]
    /\ Goto(t, "client")
    /\ UNCHANGED <<next_ticket, now_serving, owner, ticket, current,
                   suspended>>

-----------------------------------------------------------------------------
\* recursive_ticket_lock::unlock, called by a thread that holds the lock.
Unlock(t) ==
    /\ pc[t] = "client" /\ depth[t] > 0
    /\ recursion' = recursion - 1
    /\ depth' = [depth EXCEPT ![t] = @ - 1]
    /\ Goto(t, IF recursion' = 0 THEN "zero" ELSE "client")
    /\ UNCHANGED <<next_ticket, now_serving, owner, ticket, current, grant,
                   suspended>>

\* The last unlock clears _owner before it lets the next thread in.
ClearOwner(t) ==
    /\ pc[t] = "zero"
    /\ owner' = NoOwner
    /\ Goto(t, "serve")
    /\ UNCHANGED <<next_ticket, now_serving, recursion, ticket, current,
                   grant, suspended, depth>>

\* Mutant: the unlock passes over a thread that waits.
ServeAfterNext(t) ==
    /\ pc[t] = "serve"
    /\ now_serving' = Inc(Inc(now_serving))
    /\ ticket' = [ticket EXCEPT ![t] = 0]
    /\ Goto(t, "notify")
    /\ UNCHANGED <<next_ticket, owner, recursion, current, grant, suspended,
                   depth>>

\* ticket_lock::unlock: fetch_add on _now_serving.
ServeNext(t) ==
    /\ pc[t] = "serve"
    /\ now_serving' = Inc(now_serving)
    /\ ticket' = [ticket EXCEPT ![t] = 0]
    /\ Goto(t, "notify")
    /\ UNCHANGED <<next_ticket, owner, recursion, current, grant, suspended,
                   depth>>

\* til::atomic_notify_all: every sleeping thread looks again.
NotifyAll(t) ==
    /\ pc[t] = "notify"
    /\ pc' = [u \in Threads |-> IF u = t THEN "client"
                                ELSE IF pc[u] = "asleep" THEN "load"
                                ELSE pc[u]]
    /\ UNCHANGED <<next_ticket, now_serving, owner, recursion, ticket,
                   current, grant, suspended, depth>>

-----------------------------------------------------------------------------
\* recursive_ticket_lock::suspend: an owner gives the lock up completely and
\* remembers its recursion; another thread gets an empty suspension (0).
Suspend(t) ==
    /\ pc[t] = "client" /\ Len(suspended[t]) < MaxSuspended
    /\ suspended' = [suspended EXCEPT ![t] =
                        Append(@, IF owner = t THEN recursion ELSE 0)]
    /\ IF owner = t
         THEN /\ owner' = NoOwner /\ recursion' = 0
              /\ depth' = [depth EXCEPT ![t] = 0]
              /\ Goto(t, "serve")
         ELSE UNCHANGED <<owner, recursion, depth, pc>>
    /\ UNCHANGED <<next_ticket, now_serving, ticket, current, grant>>

\* ~recursive_ticket_lock_suspension: the innermost suspension is destroyed;
\* it reacquires the lock unless it was empty.
Resume(t) ==
    /\ pc[t] = "client" /\ suspended[t] # <<>>
    /\ suspended' = [suspended EXCEPT ![t] = Front(@)]
    /\ IF Last(suspended[t]) # 0
         THEN Request(t, Last(suspended[t]))
         ELSE UNCHANGED <<grant, pc>>
    /\ UNCHANGED <<next_ticket, now_serving, owner, recursion, ticket,
                   current, depth>>

-----------------------------------------------------------------------------
\* The steps of a call in progress; the client's calls are the others.
Progress(t) ==
    \/ TakeTicket(t) \/ LoadServing(t) \/ Wait(t) \/ StoreOwner(t)
    \/ AddRecursion(t) \/ ClearOwner(t) \/ ServeNext(t) \/ NotifyAll(t)

Next == \E t \in Threads :
    \/ Lock(t) \/ Unlock(t) \/ Suspend(t) \/ Resume(t)
    \/ TakeTicket(t) \/ LoadServing(t) \/ Wait(t) \/ SpuriousWake(t)
    \/ StoreOwner(t) \/ AddRecursion(t) \/ ClearOwner(t) \/ ServeNext(t)
    \/ NotifyAll(t)

Spec == Init /\ [][Next]_vars

\* The scheduler runs every thread that is inside a call and not asleep.
FairSpec == Spec /\ \A t \in Threads : WF_vars(Progress(t))

-----------------------------------------------------------------------------
\* The thread has been let in by the ticket_lock and has not let anyone else
\* in yet; and: it has drawn a ticket that has not been served to the end.
Holds(t) == owner = t \/ pc[t] \in {"own", "zero", "serve"}
InLine(t) == Holds(t) \/ pc[t] \in {"load", "wait", "asleep"}
Line == {t \in Threads : InLine(t)}

(***************************************************************************)
(* MutualExclusion: two threads never hold the lock at once, whatever they *)
(* lock recursively, suspend or resume, and although the tickets wrap      *)
(* around ("Integer overflow doesn't break the algorithm", ticket_lock.h). *)
(***************************************************************************)
MutualExclusion ==
    \A t, u \in Threads : Holds(t) /\ Holds(u) => t = u

(***************************************************************************)
(* RecursionMatches: between calls the lock's own bookkeeping is the       *)
(* thread's: _owner is the one thread that holds locks, _recursion is how  *)
(* many, across unlocks, suspensions and resumptions over a held lock.     *)
(***************************************************************************)
RecursionMatches ==
    \A t \in Threads : pc[t] = "client" =>
        /\ depth[t] > 0 <=> owner = t
        /\ owner = t => recursion = depth[t]

\* The line of FifoLock: by how far a ticket is behind _now_serving.  A place
\* that nobody in line has would be a gap, NoOwner.
Place(t) == (ticket[t] + Modulus - now_serving) % Modulus
AtPlace(t, k) == InLine(t) /\ Place(t) = k
Queue ==
    [i \in 1 .. Cardinality(Line) |->
       IF \E t \in Threads : AtPlace(t, i - 1)
         THEN CHOOSE t \in Threads : AtPlace(t, i - 1)
         ELSE NoOwner]

Fifo == INSTANCE FifoLock WITH queue <- Queue,
                               inside <- \E t \in Threads : Holds(t)

\* Fairness of the lock ("a classic fair lock"): threads are let in exactly in
\* the order in which they drew their tickets, one at a time.
ImplementsFifoLock == Fifo!Spec

(***************************************************************************)
(* NoLostWakeup: as long as whoever owns the lock keeps giving it up, a    *)
(* thread that entered lock() gets out of it; no sleeper misses the        *)
(* WakeByAddressAll between its load and its wait.                         *)
(***************************************************************************)
NoLostWakeup ==
    (\A u \in Threads : []<>(owner # u)) =>
        \A t \in Threads : pc[t] = "take" ~> pc[t] = "count"
=============================================================================
