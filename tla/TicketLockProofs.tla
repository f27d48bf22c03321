-------------------------- MODULE TicketLockProofs --------------------------
(***************************************************************************)
(* Mutual exclusion and fairness of til::recursive_ticket_lock for any     *)
(* number of threads up to the number of tickets, any recursion and any    *)
(* suspensions.                                                            *)
(***************************************************************************)
EXTENDS TicketLock, FiniteSetTheorems, TLAPS

\* How far behind _now_serving a ticket is, counted around the ring.
Behind(k) == IF k >= now_serving THEN k - now_serving
                                 ELSE k - now_serving + Modulus

\* The owner is inside lock/unlock only where it may be; nobody else is there.
OwnerPlaced ==
    /\ \A t \in Threads : owner = t => pc[t] \in {"client", "count", "zero"}
    /\ \A t \in Threads : pc[t] \in {"count", "zero"} => owner = t

\* _recursion is what the owner holds: an owner that calls unlock holds at
\* least one lock, and nobody owns the lock while _recursion counts.
RecursionBounded ==
    /\ \A t \in Threads : owner = t => recursion = depth[t]
    /\ \A t \in Threads : depth[t] > 0 => owner = t
    /\ \A t \in Threads : pc[t] = "client" /\ owner = t => depth[t] > 0
    /\ \A t \in Threads : pc[t] = "zero" => depth[t] = 0
    /\ owner = NoOwner => recursion = 0
    /\ \A t \in Threads : pc[t] \in {"take", "load", "wait", "asleep", "own", "count"} => grant[t] > 0

\* The tickets in line are distinct and are exactly the |Line| tickets that
\* start at _now_serving; _next_ticket comes right after them.
TicketsInLine ==
    /\ \A t, u \in Line : ticket[t] = ticket[u] => t = u
    /\ \A t \in Line : Behind(ticket[t]) < Cardinality(Line)
    /\ next_ticket = (IF now_serving + Cardinality(Line) >= Modulus
                        THEN now_serving + Cardinality(Line) - Modulus
                        ELSE now_serving + Cardinality(Line))

\* Whoever holds the lock has the ticket that is being served.
HolderServed == \A t \in Threads : Holds(t) => ticket[t] = now_serving

IInv == TypeOK /\ OwnerPlaced /\ RecursionBounded /\ TicketsInLine /\ HolderServed

-----------------------------------------------------------------------------
\* The uint32_t increment of fetch_add, without the remainder.
LEMMA IncValue ==
    ASSUME NEW n \in Tickets
    PROVE  /\ Inc(n) = IF n = Modulus - 1 THEN 0 ELSE n + 1
           /\ Inc(n) \in Tickets
BY ModulusAssumption DEF Inc, Tickets
\* Removing the innermost suspension leaves a stack of counts.
LEMMA FrontLastType ==
    ASSUME NEW s \in Seq(Nat), s # <<>>
    PROVE  Front(s) \in Seq(Nat) /\ Last(s) \in Nat
BY DEF Front, Last

\* Type correctness of every step.
LEMMA TypeStep == TypeOK /\ RecursionBounded /\ [Next]_vars => TypeOK'
<1> SUFFICES ASSUME TypeOK, RecursionBounded, [Next]_vars PROVE TypeOK'
    BY Zenon
<1> USE ModulusAssumption, ThreadsAssumption
<1>1. CASE UNCHANGED vars
    BY <1>1, Zenon DEF TypeOK, vars
<1>2. ASSUME NEW t \in Threads, Lock(t) PROVE TypeOK'
    BY <1>2, Zenon DEF TypeOK, Lock, Request, Goto, Labels
<1>3. ASSUME NEW t \in Threads, Unlock(t) PROVE TypeOK'
  <2>1. recursion' \in Nat
      BY <1>3 DEF TypeOK, Unlock, RecursionBounded
  <2> QED BY <2>1, <1>3 DEF TypeOK, Unlock, Goto, Labels
<1>4. ASSUME NEW t \in Threads, Suspend(t) PROVE TypeOK'
  <2>1. suspended' \in [Threads -> Seq(Nat)]
    <3>1. suspended[t] \in Seq(Nat) /\ (IF owner = t THEN recursion ELSE 0) \in Nat
        BY Zenon DEF TypeOK
    <3>2. Append(suspended[t], IF owner = t THEN recursion ELSE 0) \in Seq(Nat)
        BY <3>1
    <3> QED BY <3>2, <1>4, Zenon DEF TypeOK, Suspend
  <2>2. /\ owner' \in Threads \cup {NoOwner} /\ recursion' \in Nat
        /\ pc' \in [Threads -> Labels] /\ depth' \in [Threads -> Nat]
    <3>1. \/ /\ owner' = NoOwner /\ recursion' = 0
             /\ depth' = [depth EXCEPT ![t] = 0]
             /\ pc' = [pc EXCEPT ![t] = "serve"]
          \/ UNCHANGED <<owner, recursion, depth, pc>>
        BY <1>4, Zenon DEF Suspend, Goto
    <3>2. /\ owner \in Threads \cup {NoOwner} /\ recursion \in Nat
          /\ pc \in [Threads -> Labels] /\ depth \in [Threads -> Nat]
        BY Zenon DEF TypeOK
    <3> QED BY <3>1, <3>2 DEF Labels
  <2>3. UNCHANGED <<next_ticket, now_serving, ticket, current, grant>>
      BY <1>4, Zenon DEF Suspend
  <2> QED BY <2>1, <2>2, <2>3, Zenon DEF TypeOK
<1>5. ASSUME NEW t \in Threads, Resume(t) PROVE TypeOK'
  <2>1. suspended[t] \in Seq(Nat) /\ suspended[t] # <<>>
      BY <1>5, Zenon DEF TypeOK, Resume
  <2>2. Front(suspended[t]) \in Seq(Nat) /\ Last(suspended[t]) \in Nat
      BY <2>1, FrontLastType, Zenon
  <2> QED BY <2>2, <1>5 DEF TypeOK, Resume, Request, Goto, Labels
<1>6. ASSUME NEW t \in Threads, TakeTicket(t) PROVE TypeOK'
    BY <1>6, IncValue, Zenon DEF TypeOK, TakeTicket, Goto, Labels
<1>7. ASSUME NEW t \in Threads, LoadServing(t) PROVE TypeOK'
  <2>1. 0 \in Tickets
      BY DEF Tickets
  <2>2. CASE now_serving = ticket[t]
      BY <2>1, <2>2, <1>7 DEF TypeOK, LoadServing, Goto, Labels
  <2>3. CASE now_serving # ticket[t]
      BY <2>3, <1>7 DEF TypeOK, LoadServing, Goto, Labels
  <2> QED BY <2>2, <2>3, Zenon
<1>8. ASSUME NEW t \in Threads, Wait(t) PROVE TypeOK'
    BY <1>8, Zenon DEF TypeOK, Wait, Goto, Labels
<1>9. ASSUME NEW t \in Threads, SpuriousWake(t) PROVE TypeOK'
    BY <1>9, Zenon DEF TypeOK, SpuriousWake, Goto, Labels
<1>10. ASSUME NEW t \in Threads, StoreOwner(t) PROVE TypeOK'
    BY <1>10, Zenon DEF TypeOK, StoreOwner, Goto, Labels
<1>11. ASSUME NEW t \in Threads, AddRecursion(t) PROVE TypeOK'
    BY <1>11 DEF TypeOK, AddRecursion, Goto, Labels
<1>12. ASSUME NEW t \in Threads, ClearOwner(t) PROVE TypeOK'
    BY <1>12, Zenon DEF TypeOK, ClearOwner, Goto, Labels
<1>13. ASSUME NEW t \in Threads, ServeNext(t) PROVE TypeOK'
  <2>1. 0 \in Tickets
      BY DEF Tickets
  <2>2. Inc(now_serving) \in Tickets
      BY IncValue, Zenon DEF TypeOK
  <2> QED BY <2>1, <2>2, <1>13, Zenon DEF TypeOK, ServeNext, Goto, Labels
<1>14. ASSUME NEW t \in Threads, NotifyAll(t) PROVE TypeOK'
    BY <1>14, Zenon DEF TypeOK, NotifyAll, Labels
<1> QED
    BY <1>1, <1>2, <1>3, <1>4, <1>5, <1>6, <1>7, <1>8, <1>9, <1>10, <1>11,
       <1>12, <1>13, <1>14 DEF Next

\* Distinct tickets in line and holders being served exclude two holders.
LEMMA HolderUnique == TicketsInLine /\ HolderServed => MutualExclusion
BY Zenon DEF TicketsInLine, HolderServed, MutualExclusion, Line, InLine


\* Owner and recursion bookkeeping, one step per action.
LEMMA OwnerStep ==
    TypeOK /\ OwnerPlaced /\ RecursionBounded /\ HolderServed /\ TicketsInLine
    /\ [Next]_vars => OwnerPlaced' /\ RecursionBounded'
<1> SUFFICES ASSUME TypeOK, OwnerPlaced, RecursionBounded, MutualExclusion, [Next]_vars
             PROVE  OwnerPlaced' /\ RecursionBounded'
    BY HolderUnique, Zenon
<1>t. /\ pc \in [Threads -> Labels] /\ depth \in [Threads -> Nat]
      /\ grant \in [Threads -> Nat] /\ recursion \in Nat
      /\ owner \in Threads \cup {NoOwner}
    BY Zenon DEF TypeOK
<1> USE <1>t, ThreadsAssumption DEF OwnerPlaced, RecursionBounded
<1>0. CASE UNCHANGED vars
    BY <1>0, Zenon DEF vars
<1>1. ASSUME NEW t \in Threads, Lock(t) PROVE OwnerPlaced' /\ RecursionBounded'
    BY <1>1 DEF Lock, Goto, Request
<1>2. ASSUME NEW t \in Threads, Unlock(t) PROVE OwnerPlaced' /\ RecursionBounded'
    BY <1>2 DEF Unlock, Goto
<1>3. ASSUME NEW t \in Threads, Suspend(t) PROVE OwnerPlaced' /\ RecursionBounded'
  <2>1. UNCHANGED grant /\ pc[t] = "client"
      BY <1>3, Zenon DEF Suspend
  <2>2. \/ /\ owner = t /\ owner' = NoOwner /\ recursion' = 0
           /\ depth' = [depth EXCEPT ![t] = 0]
           /\ pc' = [pc EXCEPT ![t] = "serve"]
        \/ UNCHANGED <<owner, recursion, depth, pc>>
      BY <1>3, Zenon DEF Suspend, Goto
  <2> QED BY <2>1, <2>2
<1>4. ASSUME NEW t \in Threads, Resume(t) PROVE OwnerPlaced' /\ RecursionBounded'
  <2>1. suspended[t] \in Seq(Nat) /\ suspended[t] # <<>>
      BY <1>4, Zenon DEF Resume, TypeOK
  <2>2. PICK n \in Nat : n = Last(suspended[t])
      BY <2>1, FrontLastType, Zenon
  <2>3. UNCHANGED <<owner, recursion, depth>> /\ pc[t] = "client"
      BY <1>4, Zenon DEF Resume
  <2>4. \/ UNCHANGED <<grant, pc>>
        \/ /\ n # 0 /\ grant' = [grant EXCEPT ![t] = n]
           /\ pc' = [pc EXCEPT ![t] = IF owner = t THEN "count" ELSE "take"]
      BY <2>2, <1>4, Zenon DEF Resume, Goto, Request
  <2> QED BY <2>3, <2>4
<1>5. ASSUME NEW t \in Threads, TakeTicket(t) PROVE OwnerPlaced' /\ RecursionBounded'
    BY <1>5, Zenon DEF TakeTicket, Goto
<1>6. ASSUME NEW t \in Threads, LoadServing(t) PROVE OwnerPlaced' /\ RecursionBounded'
    BY <1>6 DEF LoadServing, Goto
<1>7. ASSUME NEW t \in Threads, Wait(t) PROVE OwnerPlaced' /\ RecursionBounded'
    BY <1>7, Zenon DEF Wait, Goto
<1>8. ASSUME NEW t \in Threads, SpuriousWake(t) PROVE OwnerPlaced' /\ RecursionBounded'
    BY <1>8, Zenon DEF SpuriousWake, Goto
<1>9. ASSUME NEW t \in Threads, StoreOwner(t) PROVE OwnerPlaced' /\ RecursionBounded'
  <2>1. owner = NoOwner
      BY <1>9, Zenon DEF StoreOwner, MutualExclusion, Holds
  <2>2. recursion = 0 /\ \A u \in Threads : depth[u] = 0
      BY <2>1
  <2> QED BY <2>1, <2>2, <1>9 DEF StoreOwner, Goto
<1>10. ASSUME NEW t \in Threads, AddRecursion(t) PROVE OwnerPlaced' /\ RecursionBounded'
    BY <1>10 DEF AddRecursion, Goto
<1>11. ASSUME NEW t \in Threads, ClearOwner(t) PROVE OwnerPlaced' /\ RecursionBounded'
    BY <1>11 DEF ClearOwner, Goto
<1>12. ASSUME NEW t \in Threads, ServeNext(t) PROVE OwnerPlaced' /\ RecursionBounded'
    BY <1>12, Zenon DEF ServeNext, Goto, MutualExclusion, Holds
<1>13. ASSUME NEW t \in Threads, NotifyAll(t) PROVE OwnerPlaced' /\ RecursionBounded'
    BY <1>13, Zenon DEF NotifyAll
<1> QED
    BY <1>0, <1>1, <1>2, <1>3, <1>4, <1>5, <1>6, <1>7, <1>8, <1>9, <1>10, <1>11, <1>12, <1>13, Zenon DEF Next

\* A step that moves nobody in or out of line keeps the tickets in order.
LEMMA SameLine ==
    ASSUME TicketsInLine, HolderServed, Line' = Line,
           UNCHANGED <<next_ticket, now_serving>>,
           \A t \in Line : ticket'[t] = ticket[t],
           \A t \in Threads : Holds(t)' => Holds(t) \/ ticket[t] = now_serving
    PROVE  TicketsInLine' /\ HolderServed'
<1>1. TicketsInLine'
    BY DEF TicketsInLine, Behind
<1>2. HolderServed'
    BY Zenon DEF HolderServed, Line, InLine
<1> QED BY <1>1, <1>2, Zenon

\* The line is a finite set of threads, and everyone fits in it.
LEMMA LineFinite ==
    /\ IsFiniteSet(Line) /\ Cardinality(Line) \in Nat
    /\ \A t \in Threads \ Line : /\ Cardinality(Line \cup {t}) = Cardinality(Line) + 1
                                 /\ Cardinality(Line) < Modulus
    /\ \A t \in Line : Cardinality(Line \ {t}) = Cardinality(Line) - 1
<1>1. Line \in SUBSET Threads
    BY Zenon DEF Line
<1>2. IsFiniteSet(Line) /\ Cardinality(Line) \in Nat
    BY <1>1, ThreadsAssumption, FS_Subset, FS_CardinalityType
<1>3. ASSUME NEW t \in Threads \ Line
      PROVE  /\ Cardinality(Line \cup {t}) = Cardinality(Line) + 1
             /\ Cardinality(Line) < Modulus
  <2>1. Cardinality(Line \cup {t}) = Cardinality(Line) + 1
      BY <1>2, FS_AddElement, Zenon
  <2>2. Line \cup {t} \in SUBSET Threads
      BY <1>1, Zenon
  <2>3. Cardinality(Line \cup {t}) <= Cardinality(Threads)
      BY <2>2, ThreadsAssumption, FS_Subset, Zenon
  <2>4. Cardinality(Threads) \in Nat
      BY ThreadsAssumption, FS_CardinalityType, Zenon
  <2> QED BY <1>2, <2>1, <2>3, <2>4, ModulusAssumption
<1>4. ASSUME NEW t \in Line
      PROVE  Cardinality(Line \ {t}) = Cardinality(Line) - 1
    BY <1>2, FS_RemoveElement, Zenon
<1> QED BY <1>2, <1>3, <1>4, Zenon

\* A thread draws the ticket right behind the line.
LEMMA TakeTicketStep ==
    ASSUME TypeOK, OwnerPlaced, TicketsInLine, HolderServed,
           NEW t \in Threads, TakeTicket(t)
    PROVE  TicketsInLine' /\ HolderServed'
<1> DEFINE n == Cardinality(Line)
<1>1. t \notin Line /\ ~Holds(t)
    BY Zenon DEF TakeTicket, OwnerPlaced, Line, InLine, Holds
<1>2. Line' = Line \cup {t}
    BY Zenon DEF TakeTicket, Goto, Line, InLine, Holds, TypeOK
<1>3. n \in Nat /\ n < Modulus /\ Cardinality(Line') = n + 1
    BY <1>1, <1>2, LineFinite, Zenon
<1>4. /\ \A u \in Line : ticket'[u] = ticket[u]
      /\ ticket'[t] = next_ticket /\ now_serving' = now_serving
      /\ next_ticket' = Inc(next_ticket)
    BY <1>1, Zenon DEF TakeTicket, TypeOK, Line
<1>5. /\ now_serving \in Tickets /\ next_ticket \in Tickets
      /\ \A u \in Line : ticket[u] \in Tickets
    BY Zenon DEF TypeOK, Line
<1>6. Behind(next_ticket) = n
    BY <1>3, <1>5, ModulusAssumption DEF Behind, TicketsInLine, Tickets
<1>7. \A u \in Line : ticket[u] # next_ticket
    BY <1>3, <1>6 DEF TicketsInLine
<1>8. \A u \in Line : Behind(ticket[u])' < n + 1
    BY <1>3, <1>4, <1>5, ModulusAssumption DEF Behind, TicketsInLine, Tickets
<1>9. Behind(ticket[t])' = n
    BY <1>4, <1>6, Zenon DEF Behind
<1>10. next_ticket' = IF now_serving' + (n + 1) >= Modulus
                        THEN now_serving' + (n + 1) - Modulus
                        ELSE now_serving' + (n + 1)
    BY <1>3, <1>4, <1>5, IncValue, ModulusAssumption DEF TicketsInLine, Tickets
<1>11. \A u, v \in Line' : ticket'[u] = ticket'[v] => u = v
    BY <1>2, <1>4, <1>7 DEF TicketsInLine
<1>12. TicketsInLine'
    BY <1>2, <1>3, <1>8, <1>9, <1>10, <1>11 DEF TicketsInLine
<1>13. HolderServed'
    BY <1>1, <1>4 DEF HolderServed, TakeTicket, Goto, Holds, TypeOK
<1> QED BY <1>12, <1>13, Zenon

\* The holder leaves the head of the line; everyone else moves up by one.
LEMMA ServeNextStep ==
    ASSUME TypeOK, OwnerPlaced, TicketsInLine, HolderServed,
           NEW t \in Threads, ServeNext(t)
    PROVE  TicketsInLine' /\ HolderServed'
<1> DEFINE n == Cardinality(Line)
<1>1. t \in Line /\ Holds(t) /\ ticket[t] = now_serving
    BY Zenon DEF ServeNext, HolderServed, Line, InLine, Holds
<1>2. Line' = Line \ {t}
    BY Zenon DEF ServeNext, Goto, Line, InLine, Holds, TypeOK, OwnerPlaced
<1>3. n \in Nat /\ Cardinality(Line') = n - 1
    BY <1>1, <1>2, LineFinite, Zenon
<1>4. /\ \A u \in Line \ {t} : ticket'[u] = ticket[u]
      /\ next_ticket' = next_ticket
      /\ now_serving' = Inc(now_serving)
    BY Zenon DEF ServeNext, TypeOK, Line
<1>5. /\ now_serving \in Tickets /\ next_ticket \in Tickets
      /\ \A u \in Line : ticket[u] \in Tickets
    BY Zenon DEF TypeOK, Line
<1>6. now_serving' = IF now_serving = Modulus - 1 THEN 0 ELSE now_serving + 1
    BY <1>4, <1>5, IncValue, Zenon
<1>7. \A u \in Line \ {t} : ticket[u] # now_serving
    BY <1>1, Zenon DEF TicketsInLine
<1>8. ASSUME NEW u \in Line \ {t} PROVE Behind(ticket[u])' < n - 1
  <2>1. ticket[u] \in Tickets /\ Behind(ticket[u]) < n /\ ticket[u] # now_serving
      BY <1>5, <1>7, Zenon DEF TicketsInLine
  <2>2. Behind(ticket[u])' = Behind(ticket[u]) - 1
      BY <1>4, <1>5, <1>6, <2>1, ModulusAssumption DEF Behind, Tickets
  <2> QED BY <1>3, <1>5, <2>1, <2>2, ModulusAssumption DEF Behind, Tickets
<1>9. n > 0
    BY <1>1, <1>3, <1>5 DEF TicketsInLine, Behind, Tickets
<1>10. next_ticket' = IF now_serving' + (n - 1) >= Modulus
                        THEN now_serving' + (n - 1) - Modulus
                        ELSE now_serving' + (n - 1)
    BY <1>3, <1>4, <1>5, <1>6, <1>9, ModulusAssumption DEF TicketsInLine, Tickets
<1>11. \A u, v \in Line' : ticket'[u] = ticket'[v] => u = v
    BY <1>2, <1>4, Zenon DEF TicketsInLine
<1>12. TicketsInLine'
    BY <1>2, <1>3, <1>8, <1>10, <1>11 DEF TicketsInLine
<1>13. \A u \in Threads : Holds(u)' => u # t /\ Holds(u)
    BY Zenon DEF ServeNext, Goto, Holds, TypeOK, OwnerPlaced
<1>14. HolderServed'
    BY <1>1, <1>13, HolderUnique, Zenon DEF HolderServed, MutualExclusion
<1> QED BY <1>12, <1>14, Zenon

\* Every step keeps the tickets in line and the holder being served.
LEMMA LineStep ==
    TypeOK /\ OwnerPlaced /\ RecursionBounded /\ TicketsInLine /\ HolderServed /\ [Next]_vars
    => TicketsInLine' /\ HolderServed'
<1> SUFFICES ASSUME TypeOK, OwnerPlaced, RecursionBounded, TicketsInLine, HolderServed, [Next]_vars
             PROVE  TicketsInLine' /\ HolderServed'
    BY Zenon
<1> DEFINE Same == /\ Line' = Line /\ UNCHANGED <<next_ticket, now_serving>>
                   /\ \A t \in Line : ticket'[t] = ticket[t]
                   /\ \A t \in Threads :
                        Holds(t)' => Holds(t) \/ ticket[t] = now_serving
<1>s. Same => TicketsInLine' /\ HolderServed'
    BY SameLine, Zenon
<1>t. pc \in [Threads -> Labels] /\ owner \in Threads \cup {NoOwner}
    BY Zenon DEF TypeOK
<1> HIDE DEF Same
<1>0. CASE UNCHANGED vars
  <2>1. Same
      BY <1>0, Zenon DEF Same, vars, Line, InLine, Holds
  <2> QED BY <2>1, <1>s, Zenon
<1>1. ASSUME NEW t \in Threads, Lock(t) PROVE TicketsInLine' /\ HolderServed'
  <2>1. Same
      BY <1>1, <1>t, ThreadsAssumption
         DEF Same, Lock, Line, InLine, Holds, OwnerPlaced, Goto, Request
  <2> QED BY <2>1, <1>s, Zenon
<1>2. ASSUME NEW t \in Threads, Unlock(t) PROVE TicketsInLine' /\ HolderServed'
  <2>1. Same
      BY <1>2, <1>t, ThreadsAssumption
         DEF Same, Unlock, Line, InLine, Holds, OwnerPlaced, Goto, RecursionBounded
  <2> QED BY <2>1, <1>s, Zenon
<1>3. ASSUME NEW t \in Threads, Suspend(t) PROVE TicketsInLine' /\ HolderServed'
  <2>1. Same
      BY <1>3, <1>t, ThreadsAssumption
         DEF Same, Suspend, Line, InLine, Holds, OwnerPlaced, Goto
  <2> QED BY <2>1, <1>s, Zenon
<1>4. ASSUME NEW t \in Threads, Resume(t) PROVE TicketsInLine' /\ HolderServed'
  <2>1. Same
      BY <1>4, <1>t, ThreadsAssumption, Zenon
         DEF Same, Resume, Line, InLine, Holds, OwnerPlaced, Goto, Request
  <2> QED BY <2>1, <1>s, Zenon
<1>5. ASSUME NEW t \in Threads, TakeTicket(t) PROVE TicketsInLine' /\ HolderServed'
    BY <1>5, TakeTicketStep, Zenon
<1>6. ASSUME NEW t \in Threads, LoadServing(t) PROVE TicketsInLine' /\ HolderServed'
  <2>1. Same
      BY <1>6, <1>t, ThreadsAssumption, Zenon
         DEF Same, LoadServing, Line, InLine, Holds, OwnerPlaced, Goto
  <2> QED BY <2>1, <1>s, Zenon
<1>7. ASSUME NEW t \in Threads, Wait(t) PROVE TicketsInLine' /\ HolderServed'
  <2>1. Same
      BY <1>7, <1>t, ThreadsAssumption, Zenon
         DEF Same, Wait, Line, InLine, Holds, OwnerPlaced, Goto
  <2> QED BY <2>1, <1>s, Zenon
<1>8. ASSUME NEW t \in Threads, SpuriousWake(t) PROVE TicketsInLine' /\ HolderServed'
  <2>1. Same
      BY <1>8, <1>t, ThreadsAssumption
         DEF Same, SpuriousWake, Line, InLine, Holds, OwnerPlaced, Goto
  <2> QED BY <2>1, <1>s, Zenon
<1>9. ASSUME NEW t \in Threads, StoreOwner(t) PROVE TicketsInLine' /\ HolderServed'
  <2>1. owner = NoOwner
      BY <1>9, <1>t, HolderUnique, Zenon
         DEF StoreOwner, MutualExclusion, Holds, OwnerPlaced
  <2>2. Same
      BY <2>1, <1>9, <1>t, ThreadsAssumption
         DEF Same, StoreOwner, Line, InLine, Holds, OwnerPlaced, Goto
  <2> QED BY <2>2, <1>s, Zenon
<1>10. ASSUME NEW t \in Threads, AddRecursion(t) PROVE TicketsInLine' /\ HolderServed'
  <2>1. Same
      BY <1>10, <1>t, ThreadsAssumption
         DEF Same, AddRecursion, Line, InLine, Holds, OwnerPlaced, Goto
  <2> QED BY <2>1, <1>s, Zenon
<1>11. ASSUME NEW t \in Threads, ClearOwner(t) PROVE TicketsInLine' /\ HolderServed'
  <2>1. Same
      BY <1>11, <1>t, ThreadsAssumption
         DEF Same, ClearOwner, Line, InLine, Holds, OwnerPlaced, Goto
  <2> QED BY <2>1, <1>s, Zenon
<1>12. ASSUME NEW t \in Threads, ServeNext(t) PROVE TicketsInLine' /\ HolderServed'
    BY <1>12, ServeNextStep, Zenon
<1>13. ASSUME NEW t \in Threads, NotifyAll(t) PROVE TicketsInLine' /\ HolderServed'
  <2>1. Same
      BY <1>13, <1>t, ThreadsAssumption, Zenon
         DEF Same, NotifyAll, Line, InLine, Holds, OwnerPlaced
  <2> QED BY <2>1, <1>s, Zenon
<1> QED
    BY <1>0, <1>1, <1>2, <1>3, <1>4, <1>5, <1>6, <1>7, <1>8, <1>9, <1>10, <1>11, <1>12, <1>13 DEF Next

\* The inductive invariant holds of a lock nobody has used ...
LEMMA InitIInv == Init => IInv
<1> SUFFICES ASSUME Init PROVE IInv
    BY Zenon
<1>1. TypeOK
    BY ModulusAssumption DEF Init, TypeOK, Tickets, Labels
<1>2. Line = {}
    BY ThreadsAssumption, Zenon DEF Init, Line, InLine, Holds
<1>3. Cardinality(Line) = 0
    BY <1>2, FS_EmptySet, Zenon
<1>4. TicketsInLine
    BY <1>2, <1>3, ModulusAssumption DEF Init, TicketsInLine
<1>5. OwnerPlaced /\ RecursionBounded /\ HolderServed
    BY ThreadsAssumption DEF Init, OwnerPlaced, RecursionBounded, HolderServed, Holds
<1> QED BY <1>1, <1>4, <1>5, Zenon DEF IInv

\* ... and every step preserves it.
LEMMA Inductive == IInv /\ [Next]_vars => IInv'
BY TypeStep, OwnerStep, LineStep, Zenon DEF IInv

-----------------------------------------------------------------------------
(* The line of tickets is the queue of FifoLock                            *)

\* The uint32_t difference of two tickets, without the remainder.
LEMMA Difference ==
    ASSUME NEW j \in Tickets, NEW k \in Tickets
    PROVE  (j + Modulus - k) % Modulus = IF j >= k THEN j - k ELSE j - k + Modulus
BY ModulusAssumption DEF Tickets

\* A thread's place is how far its ticket is behind.
LEMMA PlaceValue ==
    ASSUME TypeOK, NEW t \in Threads
    PROVE  Place(t) = Behind(ticket[t]) /\ Place(t) \in Nat
<1>1. ticket[t] \in Tickets /\ now_serving \in Tickets
    BY Zenon DEF TypeOK
<1>2. Place(t) = Behind(ticket[t])
    BY <1>1, Difference, Zenon DEF Place, Behind
<1> QED BY <1>1, <1>2, ModulusAssumption DEF Behind, Tickets

\* The threads in line have the places 0, 1, 2, ... and share none.
LEMMA Places ==
    ASSUME TypeOK, TicketsInLine
    PROVE  /\ \A t \in Line : Place(t) \in 0 .. Cardinality(Line) - 1
           /\ \A t, u \in Line : Place(t) = Place(u) => t = u
           /\ \A k \in 0 .. Cardinality(Line) - 1 : \E t \in Line : Place(t) = k
<1> DEFINE n == Cardinality(Line)
           place == [t \in Line |-> Place(t)]
<1>1. n \in Nat /\ IsFiniteSet(Line)
    BY LineFinite, Zenon
<1>2. \A t \in Line : /\ t \in Threads /\ ticket[t] \in Tickets
                      /\ Place(t) = Behind(ticket[t]) /\ Place(t) \in Nat
    BY PlaceValue, Zenon DEF Line, TypeOK
<1>3. \A t \in Line : Place(t) \in 0 .. n - 1
    BY <1>1, <1>2 DEF TicketsInLine
<1>4. now_serving \in Tickets
    BY Zenon DEF TypeOK
<1>5. \A t, u \in Line : Place(t) = Place(u) => t = u
  <2>1. \A j, k \in Tickets : Behind(j) = Behind(k) => j = k
      BY <1>4, ModulusAssumption DEF Behind, Tickets
  <2> QED BY <1>2, <2>1, Zenon DEF TicketsInLine
<1>6. place \in Injection(Line, 0 .. n - 1)
    BY <1>3, <1>5, Zenon DEF Injection, IsInjective
<1>7. IsFiniteSet(0 .. n - 1) /\ Cardinality(0 .. n - 1) = n
    BY <1>1, FS_Interval
<1>8. place \in Surjection(Line, 0 .. n - 1)
    BY <1>6, <1>7, FS_Injection, Zenon
<1>9. \A k \in 0 .. n - 1 : \E t \in Line : Place(t) = k
    BY <1>8, Zenon DEF Surjection
<1> QED BY <1>3, <1>5, <1>9, Zenon

\* The queue lists the line, everyone at its place.
PlaceOf == [t \in Line |-> Place(t)]
QueueRight ==
    /\ Queue \in Seq(Threads) /\ Len(Queue) = Cardinality(Line)
    /\ Queue \in [1 .. Cardinality(Line) -> Threads]
    /\ \A i \in 1 .. Len(Queue) : Queue[i] \in Line /\ PlaceOf[Queue[i]] = i - 1
    /\ \A t \in Line : PlaceOf[t] \in 0 .. Len(Queue) - 1
    /\ \A t, u \in Line : PlaceOf[t] = PlaceOf[u] => t = u

LEMMA QueueListsLine == TypeOK /\ TicketsInLine => QueueRight
<1> SUFFICES ASSUME TypeOK, TicketsInLine PROVE QueueRight
    BY Zenon
<1> DEFINE n == Cardinality(Line)
           Who(i) == IF \E t \in Threads : AtPlace(t, i - 1)
                       THEN CHOOSE t \in Threads : AtPlace(t, i - 1)
                       ELSE NoOwner
<1>1. n \in Nat /\ Line \subseteq Threads
    BY LineFinite, Zenon DEF Line
<1>2. Queue = [i \in 1 .. n |-> Who(i)]
    BY Zenon DEF Queue
<1>3. ASSUME NEW i \in 1 .. n PROVE Who(i) \in Line /\ Place(Who(i)) = i - 1
  <2>1. i - 1 \in 0 .. n - 1
      BY <1>1
  <2>2. \E t \in Threads : AtPlace(t, i - 1)
      BY <2>1, Places, Zenon DEF Line, AtPlace
  <2>3. Who(i) \in Threads /\ AtPlace(Who(i), i - 1)
      BY <2>2, Zenon
  <2> QED BY <2>3, Zenon DEF Line, AtPlace
<1> HIDE DEF Who
<1>4. Queue \in [1 .. n -> Threads]
    BY <1>1, <1>2, <1>3, Zenon
<1>5. Queue \in Seq(Threads) /\ Len(Queue) = n
    BY <1>1, <1>4
<1>6. \A t \in Line : PlaceOf[t] = Place(t)
    BY Zenon DEF PlaceOf
<1>7. \A i \in 1 .. n : Queue[i] \in Line /\ PlaceOf[Queue[i]] = i - 1
    BY <1>2, <1>3, <1>6, Zenon
<1>8. /\ \A t \in Line : PlaceOf[t] \in 0 .. n - 1
      /\ \A t, u \in Line : PlaceOf[t] = PlaceOf[u] => t = u
    BY <1>6, Places, Zenon
<1> QED BY <1>4, <1>5, <1>7, <1>8, Zenon DEF QueueRight

\* Is the lock held?  The variable inside of FifoLock.
Inside == \E t \in Threads : Holds(t)

\* A step that moves nobody in or out of line leaves the queue alone.
LEMMA SameQueue ==
    ASSUME QueueRight, QueueRight', Line' = Line, UNCHANGED now_serving,
           \A t \in Line : ticket'[t] = ticket[t]
    PROVE  Queue' = Queue
<1>1. PlaceOf' = PlaceOf
    BY Zenon DEF PlaceOf, Place
<1>2. /\ Queue \in [1 .. Cardinality(Line) -> Threads] /\ Len(Queue) = Cardinality(Line)
      /\ Queue' \in [1 .. Cardinality(Line) -> Threads] /\ Len(Queue') = Cardinality(Line)
    BY Zenon DEF QueueRight
<1>3. ASSUME NEW i \in 1 .. Cardinality(Line) PROVE Queue'[i] = Queue[i]
  <2>1. Queue[i] \in Line /\ PlaceOf[Queue[i]] = i - 1
      BY <1>2, Zenon DEF QueueRight
  <2>2. Queue'[i] \in Line /\ PlaceOf[Queue'[i]] = i - 1
      BY <1>1, <1>2, Zenon DEF QueueRight
  <2>3. \A t, u \in Line : PlaceOf[t] = PlaceOf[u] => t = u
      BY Zenon DEF QueueRight
  <2> QED BY <2>1, <2>2, <2>3, Zenon
<1>4. /\ Queue = [i \in 1 .. Cardinality(Line) |-> Queue[i]]
      /\ Queue' = [i \in 1 .. Cardinality(Line) |-> Queue'[i]]
    BY <1>2, Zenon
<1> QED BY <1>3, <1>4, Zenon

\* Drawing a ticket is arriving at the end of the queue.
LEMMA TakeTicketArrives ==
    ASSUME IInv, QueueRight, QueueRight', NEW t \in Threads, TakeTicket(t)
    PROVE  Fifo!Arrive(t)
<1> DEFINE n == Cardinality(Line)
<1>1. t \notin Line /\ ~Holds(t)
    BY Zenon DEF IInv, TakeTicket, OwnerPlaced, Line, InLine, Holds
<1>2. Line' = Line \cup {t}
    BY Zenon DEF IInv, TakeTicket, Goto, Line, InLine, Holds, TypeOK
<1>3. Len(Queue) = n /\ Len(Queue') = n + 1 /\ n \in Nat
    BY <1>1, <1>2, LineFinite, Zenon DEF QueueRight
<1>4. \A u \in Line : PlaceOf'[u] = PlaceOf[u]
  <2>1. \A u \in Line : Place(u)' = Place(u)
      BY <1>1, Zenon DEF Place, TakeTicket, IInv, TypeOK, Line
  <2> QED BY <2>1, <1>2, Zenon DEF PlaceOf
<1>5. ASSUME NEW i \in 1 .. n PROVE Queue'[i] = Queue[i]
  <2>1. i \in 1 .. Len(Queue) /\ i \in 1 .. Len(Queue')
      BY <1>3
  <2>2. Queue[i] \in Line' /\ PlaceOf'[Queue[i]] = i - 1
      BY <1>2, <2>1, <1>4, Zenon DEF QueueRight
  <2>3. Queue'[i] \in Line' /\ PlaceOf'[Queue'[i]] = i - 1
      BY <2>1, Zenon DEF QueueRight
  <2> QED BY <2>2, <2>3, Zenon DEF QueueRight
<1>6. Queue'[n + 1] = t
  <2>1. n + 1 \in 1 .. Len(Queue') /\ (n + 1) - 1 = n
      BY <1>3
  <2>2. Queue'[n + 1] \in Line' /\ PlaceOf'[Queue'[n + 1]] = n
      BY <2>1, Zenon DEF QueueRight
  <2>3. \A u \in Line : PlaceOf[u] # n
      BY <1>3 DEF QueueRight
  <2> QED BY <1>2, <1>4, <2>2, <2>3, Zenon
<1>7. Queue' = Append(Queue, t)
  <2>1. Queue \in Seq(Threads) /\ Queue' \in Seq(Threads)
      BY Zenon DEF QueueRight
  <2> QED BY <1>3, <1>5, <1>6, <2>1
<1>8. \A i \in 1 .. Len(Queue) : Queue[i] # t
    BY <1>1, Zenon DEF QueueRight
<1>9. Inside' = Inside
    BY <1>1, Zenon DEF Inside, Holds, TakeTicket, Goto, IInv, TypeOK
<1> QED BY <1>7, <1>8, <1>9, Zenon DEF Fifo!Arrive, Fifo!InQueue, Inside

\* Unlocking lets the head of the queue go.
LEMMA ServeNextLeaves ==
    ASSUME IInv, QueueRight, QueueRight', NEW t \in Threads, ServeNext(t)
    PROVE  Fifo!Leave
<1> DEFINE n == Cardinality(Line)
<1>1. t \in Line /\ Holds(t) /\ ticket[t] = now_serving
    BY Zenon DEF IInv, ServeNext, HolderServed, Line, InLine, Holds
<1>2. Line' = Line \ {t}
    BY Zenon DEF IInv, ServeNext, Goto, Line, InLine, Holds, TypeOK, OwnerPlaced
<1>3. /\ Len(Queue) = n /\ Len(Queue') = n - 1 /\ n \in Nat \ {0}
      /\ Queue \in Seq(Threads) /\ Queue' \in Seq(Threads)
  <2>1. Len(Queue) = n /\ Len(Queue') = n - 1 /\ n \in Nat
      BY <1>1, <1>2, LineFinite, Zenon DEF QueueRight
  <2>2. PlaceOf[t] \in 0 .. n - 1 /\ Queue \in Seq(Threads) /\ Queue' \in Seq(Threads)
      BY <1>1, <2>1, Zenon DEF QueueRight
  <2> QED BY <2>1, <2>2
<1>4. ASSUME NEW u \in Line' PROVE PlaceOf'[u] = PlaceOf[u] - 1
  <2>1. /\ ticket'[u] = ticket[u] /\ ticket[u] \in Tickets /\ ticket[u] # now_serving
        /\ now_serving' = Inc(now_serving) /\ now_serving \in Tickets
        /\ u \in Threads /\ u \in Line /\ u # t
      BY <1>1, <1>2, Zenon DEF ServeNext, IInv, TypeOK, TicketsInLine, Line
  <2>2. now_serving' = IF now_serving = Modulus - 1 THEN 0 ELSE now_serving + 1
      BY <2>1, IncValue, Zenon
  <2>3. Behind(ticket[u])' = Behind(ticket[u]) - 1
      BY <2>1, <2>2, ModulusAssumption DEF Behind, Tickets
  <2>4. ticket'[u] \in Tickets /\ now_serving' \in Tickets
      BY <2>1, IncValue, Zenon
  <2>5. Place(u)' = Behind(ticket[u])' /\ Place(u) = Behind(ticket[u])
      BY <2>1, <2>4, Difference, Zenon DEF Place, Behind
  <2> QED BY <2>1, <2>3, <2>5, Zenon DEF PlaceOf
<1>5. ASSUME NEW i \in 1 .. n - 1 PROVE Queue'[i] = Queue[i + 1]
  <2>1. i \in 1 .. Len(Queue') /\ i + 1 \in 1 .. Len(Queue) /\ (i + 1) - 1 = i
      BY <1>3
  <2>2. Queue'[i] \in Line' /\ PlaceOf'[Queue'[i]] = i - 1
      BY <2>1, Zenon DEF QueueRight
  <2>3. Queue[i + 1] \in Line /\ PlaceOf[Queue[i + 1]] = i
      BY <2>1, Zenon DEF QueueRight
  <2>4. /\ PlaceOf'[Queue'[i]] = PlaceOf[Queue'[i]] - 1
        /\ Queue'[i] \in Line /\ PlaceOf[Queue'[i]] \in 0 .. n - 1
      BY <1>2, <1>3, <1>4, <2>2, Zenon DEF QueueRight
  <2>5. PlaceOf[Queue'[i]] = i
      BY <2>2, <2>4
  <2>6. \A v, w \in Line : PlaceOf[v] = PlaceOf[w] => v = w
      BY Zenon DEF QueueRight
  <2> QED BY <2>3, <2>4, <2>5, <2>6, Zenon
<1>6. Queue' = Tail(Queue)
    BY <1>3, <1>5
<1>7. Inside /\ ~Inside'
  <2>1. \A u \in Threads : Holds(u) => u = t
      BY <1>1, HolderUnique, Zenon DEF IInv, MutualExclusion
  <2>2. \A u \in Threads : Holds(u)' => u # t /\ Holds(u)
      BY Zenon DEF ServeNext, Goto, Holds, IInv, TypeOK, OwnerPlaced
  <2> QED BY <1>1, <2>1, <2>2, Zenon DEF Inside
<1> QED BY <1>6, <1>7, Zenon DEF Fifo!Leave, Inside

\* Seeing one's ticket being served is entering: nobody is inside then.
LEMMA LoadServingEnters ==
    ASSUME IInv, QueueRight, QueueRight', NEW t \in Threads, LoadServing(t)
    PROVE  Fifo!Enter \/ UNCHANGED <<Queue, Inside>>
<1>1. t \in Line /\ ~Holds(t) /\ Line' = Line
    BY Zenon DEF IInv, LoadServing, OwnerPlaced, Line, InLine, Holds, TypeOK, Goto
<1>2. Queue' = Queue
    BY <1>1, SameQueue, Zenon DEF LoadServing
<1>3. CASE now_serving = ticket[t]
  <2>1. ~Inside
      BY <1>1, <1>3, Zenon DEF Inside, IInv, TicketsInLine, HolderServed, Line, InLine
  <2>2. Inside'
      BY <1>3, Zenon DEF Inside, LoadServing, Goto, Holds, IInv, TypeOK
  <2>3. Queue # <<>>
      BY <1>1 DEF QueueRight
  <2> QED BY <1>2, <2>1, <2>2, <2>3, Zenon DEF Fifo!Enter, Inside
<1>4. CASE now_serving # ticket[t]
  <2>1. \A u \in Threads : Holds(u)' <=> Holds(u)
      BY <1>4, <1>1, Zenon DEF LoadServing, Goto, Holds, IInv, TypeOK
  <2> QED BY <1>2, <2>1, Zenon DEF Inside
<1> QED BY <1>3, <1>4, Zenon

\* Every step of the lock is a step of FifoLock or leaves it alone.
LEMMA Simulation ==
    IInv /\ QueueRight /\ QueueRight' /\ [Next]_vars => [Fifo!Next]_(Fifo!vars)
<1> SUFFICES ASSUME IInv, QueueRight, QueueRight', [Next]_vars
             PROVE  Fifo!Next \/ UNCHANGED <<Queue, Inside>>
    BY Zenon DEF Fifo!vars, Inside
<1> DEFINE Quiet == /\ Line' = Line /\ now_serving' = now_serving
                    /\ \A t \in Line : ticket'[t] = ticket[t]
                    /\ \A t \in Threads : Holds(t)' <=> Holds(t)
<1>q. Quiet => UNCHANGED <<Queue, Inside>>
    BY SameQueue, Zenon DEF Inside
<1>t. pc \in [Threads -> Labels] /\ owner \in Threads \cup {NoOwner}
    BY Zenon DEF IInv, TypeOK
<1>o. OwnerPlaced /\ RecursionBounded
    BY Zenon DEF IInv
<1> HIDE DEF Quiet
<1>0. CASE UNCHANGED vars
  <2>1. Quiet
      BY <1>0, Zenon DEF Quiet, vars, Line, InLine, Holds
  <2> QED BY <2>1, <1>q, Zenon
<1>1. ASSUME NEW t \in Threads, Lock(t) PROVE Quiet
    BY <1>1, <1>t, <1>o, ThreadsAssumption
       DEF Quiet, Lock, Line, InLine, Holds, OwnerPlaced, Goto, Request
<1>2. ASSUME NEW t \in Threads, Unlock(t) PROVE Quiet
    BY <1>2, <1>t, <1>o, ThreadsAssumption
       DEF Quiet, Unlock, Line, InLine, Holds, OwnerPlaced, Goto, RecursionBounded
<1>3. ASSUME NEW t \in Threads, Suspend(t) PROVE Quiet
    BY <1>3, <1>t, <1>o, ThreadsAssumption
       DEF Quiet, Suspend, Line, InLine, Holds, OwnerPlaced, Goto
<1>4. ASSUME NEW t \in Threads, Resume(t) PROVE Quiet
    BY <1>4, <1>t, <1>o, ThreadsAssumption, Zenon
       DEF Quiet, Resume, Line, InLine, Holds, OwnerPlaced, Goto, Request
<1>5. ASSUME NEW t \in Threads, TakeTicket(t) PROVE Fifo!Next
    BY <1>5, TakeTicketArrives, Zenon DEF Fifo!Next
<1>6. ASSUME NEW t \in Threads, LoadServing(t)
      PROVE  Fifo!Next \/ UNCHANGED <<Queue, Inside>>
    BY <1>6, LoadServingEnters, Zenon DEF Fifo!Next
<1>7. ASSUME NEW t \in Threads, Wait(t) PROVE Quiet
    BY <1>7, <1>t, <1>o, Zenon DEF Quiet, Wait, Line, InLine, Holds, OwnerPlaced, Goto
<1>8. ASSUME NEW t \in Threads, SpuriousWake(t) PROVE Quiet
    BY <1>8, <1>t, <1>o, Zenon
       DEF Quiet, SpuriousWake, Line, InLine, Holds, OwnerPlaced, Goto
<1>9. ASSUME NEW t \in Threads, StoreOwner(t) PROVE Quiet
  <2>1. owner = NoOwner
      BY <1>9, <1>t, <1>o, HolderUnique, Zenon
         DEF IInv, StoreOwner, MutualExclusion, Holds, OwnerPlaced
  <2> QED BY <2>1, <1>9, <1>t, <1>o, ThreadsAssumption
         DEF Quiet, StoreOwner, Line, InLine, Holds, OwnerPlaced, Goto
<1>10. ASSUME NEW t \in Threads, AddRecursion(t) PROVE Quiet
    BY <1>10, <1>t, <1>o, ThreadsAssumption
       DEF Quiet, AddRecursion, Line, InLine, Holds, OwnerPlaced, Goto
<1>11. ASSUME NEW t \in Threads, ClearOwner(t) PROVE Quiet
    BY <1>11, <1>t, <1>o, ThreadsAssumption
       DEF Quiet, ClearOwner, Line, InLine, Holds, OwnerPlaced, Goto
<1>12. ASSUME NEW t \in Threads, ServeNext(t) PROVE Fifo!Next
    BY <1>12, ServeNextLeaves, Zenon DEF Fifo!Next
<1>13. ASSUME NEW t \in Threads, NotifyAll(t) PROVE Quiet
    BY <1>13, <1>t, <1>o, Zenon DEF Quiet, NotifyAll, Line, InLine, Holds, OwnerPlaced
<1> QED BY <1>q, <1>0, <1>1, <1>2, <1>3, <1>4, <1>5, <1>6, <1>7, <1>8, <1>9,
           <1>10, <1>11, <1>12, <1>13, Zenon DEF Next

(***************************************************************************)
(* The lock's state is always well typed: in particular _recursion never   *)
(* drops below zero, so unlock never wraps its counter.                    *)
(***************************************************************************)
THEOREM TypeCorrect == Spec => []TypeOK
<1>1. IInv => TypeOK
    BY Zenon DEF IInv
<1> QED BY <1>1, InitIInv, Inductive, PTL DEF Spec

(***************************************************************************)
(* No two threads hold the lock at once: for every set of threads no       *)
(* larger than the number of tickets, so that tickets may wrap around, and *)
(* for every depth of recursion and suspension.                            *)
(***************************************************************************)
THEOREM Exclusion == Spec => []MutualExclusion
<1>1. IInv => MutualExclusion
    BY HolderUnique DEF IInv
<1> QED BY <1>1, InitIInv, Inductive, PTL DEF Spec

(***************************************************************************)
(* _owner and _recursion are what the threads believe they hold: a         *)
(* suspension restores exactly the locks it took away.                     *)
(***************************************************************************)
THEOREM Bookkeeping == Spec => []RecursionMatches
<1>1. IInv => RecursionMatches
    BY Zenon DEF IInv, TypeOK, RecursionBounded, RecursionMatches
<1> QED BY <1>1, InitIInv, Inductive, PTL DEF Spec

(***************************************************************************)
(* The lock is fair ("a classic fair lock", ticket_lock.h): it implements  *)
(* FifoLock, in which threads are let in exactly in the order in which     *)
(* they drew their tickets, one at a time, whatever wraps around.          *)
(***************************************************************************)
THEOREM Fair == Spec => ImplementsFifoLock
<1>1. Init => Fifo!Init
  <2> SUFFICES ASSUME Init PROVE Fifo!Init
      BY Zenon
  <2>1. Line = {} /\ ~Inside
      BY ThreadsAssumption, Zenon DEF Init, Line, InLine, Holds, Inside
  <2>2. Cardinality(Line) = 0
      BY <2>1, FS_EmptySet, Zenon
  <2>3. QueueRight
      BY InitIInv, QueueListsLine, Zenon DEF IInv
  <2>4. Queue = <<>>
      BY <2>2, <2>3 DEF QueueRight
  <2> QED BY <2>1, <2>4, Zenon DEF Fifo!Init, Inside
<1>2. IInv => QueueRight
    BY QueueListsLine, Zenon DEF IInv
<1> QED BY <1>1, <1>2, InitIInv, Inductive, Simulation, PTL
        DEF Spec, ImplementsFifoLock, Fifo!Spec
=============================================================================
