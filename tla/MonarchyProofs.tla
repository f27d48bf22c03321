--------------------------- MODULE MonarchyProofs ---------------------------
(***************************************************************************)
(* Proofs about Monarchy, for any number of processes and of deaths: every *)
(* step keeps the types, the line of registrations stays in order, who     *)
(* takes itself for the king is the first in it, the tables agree with the *)
(* ids that the processes have, the counters stay above them, no election  *)
(* loses a window, and every further run of a commandline is paid for by a *)
(* death.  The inductive invariant IInv gathers these.                     *)
(***************************************************************************)
EXTENDS Monarchy, FiniteSetTheorems, TLAPS

\* The four callers of _createMonarchAndCallbacks.
LEMMA SearchFacts ==
  ASSUME NEW s \in Searches
  PROVE  \/ /\ s.t = "main" /\ s.at = "ctor"
            /\ s.found = "ctorCallbacks" /\ s.failed = "ctor"
         \/ /\ s.t = "main" /\ s.at = "repropose"
            /\ s.found = "reproposeCallbacks" /\ s.failed = "crashed"
         \/ /\ s.t = "main" /\ s.at = "readd"
            /\ s.found = "readdCallbacks" /\ s.failed = "create"
         \/ /\ s.t = "vote" /\ s.at = "elect"
            /\ s.found = "electCallbacks" /\ s.failed = "elect"
BY DEF Searches

\* Tables stay tables.
LEMMA Tables ==
  /\ IsTable(EmptyTable)
  /\ \A T, k : IsTable(T) => IsTable(Forget(T, k))
  /\ \A T : \A k \in Nat \ {0}, p \in Procs : IsTable(T) => IsTable(Put(T, k, p))
<1>1. IsTable(EmptyTable)
  BY Zenon DEF IsTable, EmptyTable
<1>2. ASSUME NEW T, NEW k, IsTable(T) PROVE IsTable(Forget(T, k))
  BY <1>2, Zenon DEF IsTable, Forget
<1>3. ASSUME NEW T, NEW k \in Nat \ {0}, NEW p \in Procs, IsTable(T) PROVE IsTable(Put(T, k, p))
  BY <1>3, Zenon DEF IsTable, Put
<1> QED BY <1>1, <1>2, <1>3, Zenon

\* A process that ends keeps the types.
LEMMA GoneTypes ==
  ASSUME TypeOK, NEW p \in Procs, NEW how \in MainLocs, Gone(p, how),
         UNCHANGED <<nextPlace, id, ran, dropped>>, crashes' \in Nat
  PROVE  TypeOK'
BY ProcsAssumption, Tables DEF TypeOK, Gone, VoteLocs

\* A failed call to the Monarch keeps the types.
LEMMA ThrowTypes ==
  ASSUME TypeOK, NEW p \in Procs, NEW s \in Searches, Throw(p, s.t, s.failed),
         UNCHANGED <<nextPlace, crashes>>
  PROVE  TypeOK'
<1>1. CASE s.failed = "crashed"
  <2>1. "crashed" \in MainLocs
    BY Zenon DEF MainLocs
  <2> QED BY <1>1, <2>1, GoneTypes, Zenon DEF Throw, TypeOK
<1>2. CASE s.failed # "crashed"
  <2>1. main' \in [Procs -> MainLocs] /\ vote' \in [Procs -> VoteLocs]
    BY <1>2, SearchFacts DEF TypeOK, Throw, Goto, MainLocs, VoteLocs
  <2> QED BY <1>2, <2>1, Zenon DEF TypeOK, Throw, courtVars
<1> QED BY <1>1, <1>2, Zenon

\* create_instance keeps the types.
LEMMA CreateMonarchTypes ==
  ASSUME TypeOK, NEW p \in Procs, NEW s \in Searches, CreateMonarch(p, s)
  PROVE  TypeOK'
<1> USE DEF comVars, courtVars, cmdVars, managerVars
<1>1. CASE Throw(p, s.t, s.failed) 
  BY <1>1, ThrowTypes, Zenon DEF CreateMonarch
<1>2. CASE ~Throw(p, s.t, s.failed) 
  <2>1. main' \in [Procs -> MainLocs] /\ vote' \in [Procs -> VoteLocs]
    BY <1>2, SearchFacts DEF TypeOK, CreateMonarch, Goto, MainLocs, VoteLocs
  <2>2. monarch' \in [Procs -> Procs \cup {None, Own}]
    BY <1>2 DEF TypeOK, CreateMonarch
  <2> QED BY <1>2, <2>1, <2>2 DEF TypeOK, CreateMonarch
<1> QED BY <1>1, <1>2, Zenon

\* A null Monarch keeps the types.
LEMMA NullMonarchTypes ==
  ASSUME TypeOK, NEW p \in Procs, NEW s \in Searches, CreateNullMonarch(p, s)
  PROVE  TypeOK'
<1> USE DEF comVars, courtVars, cmdVars, managerVars
<1>1. CASE ~IsolatedMode
  <2>1. "crashed" \in MainLocs
    BY Zenon DEF MainLocs
  <2> QED BY <1>1, <2>1, GoneTypes, Zenon DEF CreateNullMonarch, TypeOK
<1>2. CASE IsolatedMode
  <2>1. main' \in [Procs -> MainLocs] /\ vote' \in [Procs -> VoteLocs]
    BY <1>2, SearchFacts DEF TypeOK, CreateNullMonarch, Goto, MainLocs, VoteLocs
  <2> QED BY <1>2, <2>1, Zenon DEF TypeOK, CreateNullMonarch
<1> QED BY <1>1, <1>2, Zenon

\* _createCallbacks keeps the types.
LEMMA CallbacksTypes ==
  ASSUME TypeOK, NEW p \in Procs, NEW s \in Searches, CreateCallbacks(p, s)
  PROVE  TypeOK'
<1> USE DEF comVars, courtVars, cmdVars, managerVars
<1>1. CASE ~MonarchAnswers(p)
  BY <1>1, ThrowTypes, Zenon DEF CreateCallbacks
<1>2. CASE MonarchAnswers(p)
  <2>1. main' \in [Procs -> MainLocs] /\ vote' \in [Procs -> VoteLocs]
    BY <1>2, SearchFacts
    DEF TypeOK, CreateCallbacks, AfterCallbacks, Goto, MainLocs, VoteLocs
  <2>2. OwnTarget(p) \in Nat
    BY TargetsAssumption, Zenon DEF OwnTarget
  <2>3. AreWeTheKing(p) \in BOOLEAN
    BY DEF AreWeTheKing
  <2>4. isKing' \in [Procs -> BOOLEAN]
    <3>1. isKing' = [isKing EXCEPT ![p] = AreWeTheKing(p)]
      BY <1>2, Zenon DEF CreateCallbacks
    <3> QED BY <2>3, <3>1, Zenon DEF TypeOK
  <2>5. id' \in [Procs -> Nat]
    BY <1>2, <2>2 DEF TypeOK, CreateCallbacks
  <2> QED BY <1>2, <2>1, <2>4, <2>5, Zenon DEF TypeOK, CreateCallbacks
<1> QED BY <1>1, <1>2, Zenon

\* Monarch::ProposeCommandline keeps the types.
LEMMA ProposeTypes ==
  ASSUME TypeOK, NEW p \in Procs, ProposeCommandline(p)
  PROVE  TypeOK'
<1> USE DEF comVars, courtVars, cmdVars, managerVars
<1>1. /\ main' \in [Procs -> MainLocs]
  BY Zenon DEF TypeOK, ProposeCommandline, Goto, MainLocs
<1>2. vote' \in [Procs -> VoteLocs]
  BY Zenon DEF TypeOK, ProposeCommandline, Goto
<1>3. UNCHANGED <<comVars, nextId, monarch, isKing, want, attempts, id, crashes>>
  BY Zenon DEF ProposeCommandline
<1>4. reply' \in [Procs -> Nat \cup {Glom}]
  BY TargetsAssumption DEF TypeOK, ProposeCommandline, ResolveTarget, IsTable
<1>5. /\ initial' \in [Procs -> Procs \cup {None}] /\ ran' \in [Procs -> Nat]
      /\ dropped' \subseteq Procs
  BY DEF TypeOK, ProposeCommandline, ExecuteCommandline
<1>6. /\ DOMAIN peasants' = Procs
      /\ \A q \in Procs : IsTable(peasants'[q])
  <2>1. PICK k : \/ peasants' = peasants
                 \/ peasants' = [peasants EXCEPT ![monarch[p]] = Forget(@, k)]
    BY Zenon DEF ProposeCommandline
  <2>2. IsTable(Forget(peasants[monarch[p]], k))
    BY Tables, Zenon DEF TypeOK, ProposeCommandline
  <2> QED BY <2>1, <2>2, Zenon DEF TypeOK, ProposeCommandline
<1> QED BY <1>1, <1>2, <1>3, <1>4, <1>5, <1>6, Zenon DEF TypeOK

\* Monarch::AddPeasant keeps the types.
LEMMA AddPeasantTypes ==
  ASSUME TypeOK, NEW p \in Procs, NEW t, NEW at, NEW next, AddPeasant(p, t, at, next),
         \/ t = "main" /\ next = "added" 
         \/ t = "vote" /\ next = "electAdded"
  PROVE  TypeOK'
<1> USE DEF comVars, courtVars, cmdVars, managerVars
<1>1. main' \in [Procs -> MainLocs] /\ vote' \in [Procs -> VoteLocs]
  BY Zenon DEF TypeOK, AddPeasant, Goto, MainLocs, VoteLocs
<1>2. UNCHANGED <<comVars, cmdVars, monarch, isKing, want, attempts, reply, crashes>>
  BY Zenon DEF AddPeasant
<1>3. CASE monarch[p] = Own
   BY <1>1, <1>2, <1>3 DEF TypeOK, AddPeasant
<1>4. CASE monarch[p] # Own
   <2>1. monarch[p] \in Procs
     BY <1>4, Zenon DEF TypeOK, AddPeasant, MonarchAnswers
   <2>2. AssignedId(monarch[p], p) \in Nat \ {0}
     BY <2>1, Zenon DEF AssignedId, TypeOK
   <2>3. NextPeasantId(monarch[p], p) \in Nat \ {0}
     BY <2>1 DEF NextPeasantId, TypeOK
   <2>4. id' \in [Procs -> Nat] /\ nextId' \in [Procs -> Nat \ {0}]
     BY <1>4, <2>1, <2>2, <2>3 DEF TypeOK, AddPeasant
   <2>5. /\ DOMAIN peasants' = Procs
         /\ \A q \in Procs : IsTable(peasants'[q])
     <3>1. IsTable(Put(peasants[monarch[p]], AssignedId(monarch[p], p), p))
       BY <2>1, <2>2, Tables, Zenon DEF TypeOK
     <3> QED BY <1>4, <2>1, <3>1, Zenon DEF AddPeasant, Enroll, TypeOK
   <2> QED BY <1>1, <1>2, <2>4, <2>5, Zenon DEF TypeOK
<1> QED BY <1>3, <1>4, Zenon

\* Every step keeps the types.
LEMMA TypeStep ==
  ASSUME TypeOK, Next \/ UNCHANGED vars
  PROVE  TypeOK'
<1> USE DEF comVars, courtVars, cmdVars, managerVars
<1>1. ASSUME NEW p \in Procs, Start(p)
      PROVE  TypeOK'
  BY <1>1, ProcsAssumption, TargetsAssumption
  DEF TypeOK, MainLocs, VoteLocs, Start, Goto
<1>2. ASSUME NEW p \in Procs, \E s \in Searches : CreateMonarch(p, s)
      PROVE  TypeOK'
  BY <1>2, CreateMonarchTypes, Zenon
<1>3. ASSUME NEW p \in Procs, \E s \in Searches : CreateNullMonarch(p, s)
      PROVE  TypeOK'
  BY <1>3, NullMonarchTypes, Zenon
<1>4. ASSUME NEW p \in Procs, \E s \in Searches : CreateCallbacks(p, s)
      PROVE  TypeOK'
  BY <1>4, CallbacksTypes, Zenon
<1>5. ASSUME NEW p \in Procs, ProposeCommandline(p)
      PROVE  TypeOK'
  BY <1>5, ProposeTypes, Zenon
<1>6. ASSUME NEW p \in Procs, TakeReply(p)
      PROVE  TypeOK'
  BY <1>6, ProcsAssumption, TargetsAssumption, Zenon
  DEF TypeOK, MainLocs, VoteLocs, TakeReply, Goto
<1>7. ASSUME NEW p \in Procs, ProposeFailed(p)
      PROVE  TypeOK'
  <2>1. OwnTarget(p) \in Nat
    BY TargetsAssumption, Zenon DEF OwnTarget
  <2>2. CASE attempts[p] + 1 >= MaxAttempts
    <3>1. /\ main' = [main EXCEPT ![p] = "create"] /\ vote' = vote
          /\ monarch' = [monarch EXCEPT ![p] = Own]
          /\ isKing' = [isKing EXCEPT ![p] = TRUE]
          /\ id' = [id EXCEPT ![p] = OwnTarget(p)]
          /\ attempts' = [attempts EXCEPT ![p] = 0]
          /\ reply' = [reply EXCEPT ![p] = 0]
      BY <1>7, <2>2, Zenon DEF ProposeFailed, Goto
    <3>2. /\ main' \in [Procs -> MainLocs]
          /\ monarch' \in [Procs -> Procs \cup {None, Own}]
          /\ isKing' \in [Procs -> BOOLEAN]
      BY <3>1, Zenon DEF TypeOK, MainLocs
    <3>3. /\ id' \in [Procs -> Nat] /\ attempts' \in [Procs -> Nat]
          /\ reply' \in [Procs -> Nat \cup {Glom}]
      BY <2>1, <3>1, Zenon DEF TypeOK
    <3> QED BY <1>7, <3>1, <3>2, <3>3, Zenon DEF TypeOK, ProposeFailed
  <2>3. CASE ~(attempts[p] + 1 >= MaxAttempts)
    <3>1. main' = [main EXCEPT ![p] = "repropose"] /\ attempts' = [attempts EXCEPT ![p] = @ + 1]
      BY <1>7, <2>3, Zenon DEF ProposeFailed, Goto
    <3>2. main' \in [Procs -> MainLocs] /\ attempts' \in [Procs -> Nat]
      BY <3>1 DEF TypeOK, MainLocs
    <3> QED BY <1>7, <2>3, <3>2, Zenon DEF TypeOK, ProposeFailed, Goto
  <2> QED BY <2>2, <2>3, Zenon
<1>8. ASSUME NEW p \in Procs, ExitGlommed(p)
      PROVE  TypeOK'
  <2>1. "dead" \in MainLocs
    BY Zenon DEF MainLocs
  <2> QED BY <1>8, <2>1, GoneTypes, Zenon DEF ExitGlommed, TypeOK
<1>9. ASSUME NEW p \in Procs, AddPeasant(p, "main", "create", "added")
      PROVE  TypeOK'
  BY <1>9, AddPeasantTypes, Zenon
<1>10. ASSUME NEW p \in Procs, AddPeasant(p, "vote", "electAdd", "electAdded")
      PROVE  TypeOK'
  BY <1>10, AddPeasantTypes, Zenon
<1>11. ASSUME NEW p \in Procs, AddFailed(p, "main", {"create", "added"}, "readd")
      PROVE  TypeOK'
  BY <1>11, ProcsAssumption, TargetsAssumption, Zenon
  DEF TypeOK, MainLocs, VoteLocs, AddFailed, Goto, At
<1>12. ASSUME NEW p \in Procs, AddFailed(p, "vote", {"electAdd", "electAdded"}, "elect")
      PROVE  TypeOK'
  BY <1>12, ProcsAssumption, TargetsAssumption, Zenon
  DEF TypeOK, MainLocs, VoteLocs, AddFailed, Goto, At
<1>13. ASSUME NEW p \in Procs, CreatePeasantThread(p)
      PROVE  TypeOK'
  BY <1>13, ProcsAssumption, TargetsAssumption, Zenon
  DEF TypeOK, MainLocs, VoteLocs, CreatePeasantThread
<1>14. ASSUME NEW p \in Procs, StashCommandline(p)
      PROVE  TypeOK'
  BY <1>14, ProcsAssumption, TargetsAssumption
  DEF TypeOK, MainLocs, VoteLocs, StashCommandline, ExecuteCommandline, Goto
<1>15. ASSUME NEW p \in Procs, Startup(p)
      PROVE  TypeOK'
  <2>1. CASE initial[p] = None
    <3>1. ran' \in [Procs -> Nat]
      BY <1>15, <2>1, ProcsAssumption, Zenon DEF TypeOK, Startup
    <3>2. main' \in [Procs -> MainLocs] /\ vote' = vote
      BY <1>15, Zenon DEF TypeOK, Startup, Goto, MainLocs
    <3> QED BY <1>15, <3>1, <3>2, Zenon DEF TypeOK, Startup
  <2>2. CASE initial[p] \in Procs
    BY <1>15, <2>2 DEF TypeOK, Startup, Goto, MainLocs
  <2> QED BY <2>1, <2>2, Zenon DEF TypeOK
<1>16. ASSUME NEW p \in Procs, OpenMonarch(p)
      PROVE  TypeOK'
  BY <1>16, ProcsAssumption, TargetsAssumption, Zenon
  DEF TypeOK, MainLocs, VoteLocs, OpenMonarch, Goto
<1>17. ASSUME NEW p \in Procs, MonarchDied(p)
      PROVE  TypeOK'
  BY <1>17, ProcsAssumption, TargetsAssumption, Zenon
  DEF TypeOK, MainLocs, VoteLocs, MonarchDied, Goto
<1>18. ASSUME NEW p \in Procs, WaitInterrupted(p)
      PROVE  TypeOK'
  BY <1>18, ProcsAssumption, TargetsAssumption, Zenon
  DEF TypeOK, MainLocs, VoteLocs, WaitInterrupted, Goto
<1>19. ASSUME NEW p \in Procs, ElectionDone(p)
      PROVE  TypeOK'
  BY <1>19, ProcsAssumption, TargetsAssumption, Zenon
  DEF TypeOK, MainLocs, VoteLocs, ElectionDone, Goto
<1>20. ASSUME NEW p \in Procs, CloseWindow(p)
      PROVE  TypeOK'
  <2>1. \A q \in Procs : IsTable(Forget(peasants[q], id[p]))
    BY Tables, Zenon DEF TypeOK
  <2> QED BY <1>20, <2>1, Zenon DEF TypeOK, CloseWindow, SignalClose, Goto, MainLocs
<1>21. ASSUME NEW p \in Procs, Destroy(p)
      PROVE  TypeOK'
  <2>1. \A q \in Procs : IsTable(Forget(peasants[q], id[p]))
    BY Tables, Zenon DEF TypeOK
  <2> QED BY <1>21, <2>1, Zenon DEF TypeOK, Destroy, SignalClose, Goto, MainLocs
<1>22. ASSUME NEW p \in Procs, Join(p)
      PROVE  TypeOK'
  <2>1. "dead" \in MainLocs
    BY Zenon DEF MainLocs
  <2>2. crashes' \in Nat
    BY <1>22, Zenon DEF Join, TypeOK
  <2>3. Gone(p, "dead") /\ UNCHANGED <<nextPlace, id, ran, dropped>>
    BY <1>22, Zenon DEF Join
  <2> QED BY <2>1, <2>2, <2>3, GoneTypes, Zenon
<1>23. ASSUME NEW p \in Procs, Kill(p)
      PROVE  TypeOK'
  <2>1. "dead" \in MainLocs
    BY Zenon DEF MainLocs
  <2>2. crashes' \in Nat
    BY <1>23 DEF Kill, TypeOK
  <2>3. Gone(p, "dead") /\ UNCHANGED <<nextPlace, id, ran, dropped>>
    BY <1>23, Zenon DEF Kill
  <2> QED BY <2>1, <2>2, <2>3, GoneTypes, Zenon
<1>24. CASE UNCHANGED vars
  BY <1>24, Zenon DEF TypeOK, MainLocs, VoteLocs, vars
<1> QED
  BY <1>1, <1>2, <1>3, <1>4, <1>5, <1>6, <1>7, <1>8, <1>9, <1>10, <1>11,
     <1>12, <1>13, <1>14, <1>15, <1>16, <1>17, <1>18, <1>19, <1>20, <1>21, <1>22, <1>23, <1>24, Zenon
  DEF Next, MainStep, VoteStep, Environment

-----------------------------------------------------------------------------
(* The line of registrations and the king.                                 *)

Early == {"unborn", "ctor", "ctorCallbacks", "propose", "reply", "repropose",
          "reproposeCallbacks"}
Ended == {"unborn", "dead", "crashed"}
Settled == {"stash", "startup", "window", "closing", "joining"}

\* The line of registrations: places are taken once, in order, by the living.
LineOrdered ==
  /\ \A p \in Procs : place[p] < nextPlace
  /\ \A p, q \in Procs : place[p] # 0 /\ place[p] = place[q] => p = q
  /\ \A p \in Procs : place[p] # 0 => Alive(p)

\* The election thread runs only once the main thread is done with the Monarch.
VoteAfterMain == \A p \in Procs : vote[p] # "none" => main[p] \in Settled

\* Who is king, at every location that goes on to look for a Monarch.
KingKnown ==
  /\ \A p \in Procs : main[p] \in Early \cup Ended \cup {"readd", "readdCallbacks"}
                        => ~isKing[p]
  /\ \A p \in Procs : vote[p] \in {"open", "wait", "elect", "electCallbacks"}
                        => ~isKing[p]
  /\ \A p \in Procs : isKing[p] => monarch[p] \in {p, Own}
  /\ \A p \in Procs : main[p] \in Ended => monarch[p] = None
  /\ \A p \in Procs : monarch[p] \in Procs => main[monarch[p]] # "unborn"

\* A process that has found itself stays the first in line until it leaves it.
KingFirst == \A p \in Procs : monarch[p] = p /\ place[p] # 0 => FirstInLine(p)

-----------------------------------------------------------------------------
\* The line of registrations stays in order, and the election thread comes last.
LEMMA LineStep ==
  ASSUME TypeOK, LineOrdered, VoteAfterMain, Next \/ UNCHANGED vars
  PROVE  LineOrdered' /\ VoteAfterMain'
<1>t. /\ DOMAIN main = Procs /\ DOMAIN vote = Procs
      /\ place \in [Procs -> Nat] /\ nextPlace \in Nat \ {0}
  BY Zenon DEF TypeOK
<1> USE DEF comVars, courtVars, cmdVars, managerVars
<1>1. ASSUME NEW p \in Procs, Start(p)
      PROVE  LineOrdered' /\ VoteAfterMain'
  BY <1>1, <1>t DEF LineOrdered, VoteAfterMain, Settled, Alive, Start, Goto
<1>2. ASSUME NEW p \in Procs, \E s \in Searches : CreateMonarch(p, s)
      PROVE  LineOrdered' /\ VoteAfterMain'
  BY <1>2, <1>t, SearchFacts
  DEF LineOrdered, VoteAfterMain, Settled, Alive, CreateMonarch, Throw, Gone,
      Goto, At
<1>3. ASSUME NEW p \in Procs, \E s \in Searches : CreateNullMonarch(p, s)
      PROVE  LineOrdered' /\ VoteAfterMain'
  BY <1>3, <1>t, SearchFacts
  DEF LineOrdered, VoteAfterMain, Settled, Alive, CreateNullMonarch, Gone, Goto,
      At
<1>4. ASSUME NEW p \in Procs, \E s \in Searches : CreateCallbacks(p, s)
      PROVE  LineOrdered' /\ VoteAfterMain'
  BY <1>4, <1>t, SearchFacts
  DEF LineOrdered, VoteAfterMain, Settled, Alive, CreateCallbacks, Throw, Gone,
      Goto, At, AfterCallbacks, AreWeTheKing, OwnTarget
<1>5. ASSUME NEW p \in Procs, ProposeCommandline(p)
      PROVE  LineOrdered' /\ VoteAfterMain'
  BY <1>5, <1>t, Zenon
  DEF LineOrdered, VoteAfterMain, Settled, Alive, ProposeCommandline,
      ExecuteCommandline, Goto
<1>6. ASSUME NEW p \in Procs, TakeReply(p)
      PROVE  LineOrdered' /\ VoteAfterMain'
  BY <1>6, <1>t, Zenon DEF LineOrdered, VoteAfterMain, Settled, Alive, TakeReply, Goto
<1>7. ASSUME NEW p \in Procs, ProposeFailed(p)
      PROVE  LineOrdered' /\ VoteAfterMain'
  BY <1>7, <1>t
  DEF LineOrdered, VoteAfterMain, Settled, Alive, ProposeFailed, Goto, OwnTarget
<1>8. ASSUME NEW p \in Procs, ExitGlommed(p)
      PROVE  LineOrdered' /\ VoteAfterMain'
  BY <1>8, <1>t DEF LineOrdered, VoteAfterMain, Settled, Alive, ExitGlommed, Gone
<1>9. ASSUME NEW p \in Procs, AddPeasant(p, "main", "create", "added")
      PROVE  LineOrdered' /\ VoteAfterMain'
  BY <1>9, <1>t, Zenon
  DEF LineOrdered, VoteAfterMain, Settled, Alive, AddPeasant, Goto, At, Enroll,
      AssignedId, NextPeasantId
<1>10. ASSUME NEW p \in Procs, AddPeasant(p, "vote", "electAdd", "electAdded")
      PROVE  LineOrdered' /\ VoteAfterMain'
  BY <1>10, <1>t, Zenon
  DEF LineOrdered, VoteAfterMain, Settled, Alive, AddPeasant, Goto, At, Enroll,
      AssignedId, NextPeasantId
<1>11. ASSUME NEW p \in Procs, AddFailed(p, "main", {"create", "added"}, "readd")
      PROVE  LineOrdered' /\ VoteAfterMain'
  BY <1>11, <1>t, Zenon DEF LineOrdered, VoteAfterMain, Settled, Alive, AddFailed, Goto, At
<1>12. ASSUME NEW p \in Procs, AddFailed(p, "vote", {"electAdd", "electAdded"}, "elect")
      PROVE  LineOrdered' /\ VoteAfterMain'
  BY <1>12, <1>t, Zenon DEF LineOrdered, VoteAfterMain, Settled, Alive, AddFailed, Goto, At
<1>13. ASSUME NEW p \in Procs, CreatePeasantThread(p)
      PROVE  LineOrdered' /\ VoteAfterMain'
  BY <1>13, <1>t, Zenon DEF LineOrdered, VoteAfterMain, Settled, Alive, CreatePeasantThread
<1>14. ASSUME NEW p \in Procs, StashCommandline(p)
      PROVE  LineOrdered' /\ VoteAfterMain'
  BY <1>14, <1>t, Zenon
  DEF LineOrdered, VoteAfterMain, Settled, Alive, StashCommandline,
      ExecuteCommandline, Goto
<1>15. ASSUME NEW p \in Procs, Startup(p)
      PROVE  LineOrdered' /\ VoteAfterMain'
  BY <1>15, <1>t, Zenon DEF LineOrdered, VoteAfterMain, Settled, Alive, Startup, Goto
<1>16. ASSUME NEW p \in Procs, OpenMonarch(p)
      PROVE  LineOrdered' /\ VoteAfterMain'
  BY <1>16, <1>t, Zenon DEF LineOrdered, VoteAfterMain, Settled, Alive, OpenMonarch, Goto
<1>17. ASSUME NEW p \in Procs, MonarchDied(p)
      PROVE  LineOrdered' /\ VoteAfterMain'
  BY <1>17, <1>t, Zenon DEF LineOrdered, VoteAfterMain, Settled, Alive, MonarchDied, Goto
<1>18. ASSUME NEW p \in Procs, WaitInterrupted(p)
      PROVE  LineOrdered' /\ VoteAfterMain'
  BY <1>18, <1>t, Zenon
  DEF LineOrdered, VoteAfterMain, Settled, Alive, WaitInterrupted, Goto
<1>19. ASSUME NEW p \in Procs, ElectionDone(p)
      PROVE  LineOrdered' /\ VoteAfterMain'
  BY <1>19, <1>t, Zenon DEF LineOrdered, VoteAfterMain, Settled, Alive, ElectionDone, Goto
<1>20. ASSUME NEW p \in Procs, CloseWindow(p)
      PROVE  LineOrdered' /\ VoteAfterMain'
  BY <1>20, <1>t, Zenon
  DEF LineOrdered, VoteAfterMain, Settled, Alive, CloseWindow, SignalClose, Goto
<1>21. ASSUME NEW p \in Procs, Destroy(p)
      PROVE  LineOrdered' /\ VoteAfterMain'
  BY <1>21, <1>t
  DEF LineOrdered, VoteAfterMain, Settled, Alive, Destroy, SignalClose, Goto
<1>22. ASSUME NEW p \in Procs, Join(p)
      PROVE  LineOrdered' /\ VoteAfterMain'
  BY <1>22, <1>t DEF LineOrdered, VoteAfterMain, Settled, Alive, Join, Gone
<1>23. ASSUME NEW p \in Procs, Kill(p)
      PROVE  LineOrdered' /\ VoteAfterMain'
  BY <1>23, <1>t, SMTT(20) DEF LineOrdered, VoteAfterMain, Settled, Alive, Kill, Gone
<1>24. CASE UNCHANGED vars
  BY <1>24, Zenon DEF LineOrdered, VoteAfterMain, Settled, Alive, vars
<1> QED
  BY <1>1, <1>2, <1>3, <1>4, <1>5, <1>6, <1>7, <1>8, <1>9, <1>10, <1>11,
     <1>12, <1>13, <1>14, <1>15, <1>16, <1>17, <1>18, <1>19, <1>20, <1>21, <1>22, <1>23, <1>24, Zenon
  DEF Next, MainStep, VoteStep, Environment

\* _createCallbacks finds out rightly who is king.
LEMMA CallbacksKing ==
  ASSUME TypeOK, LineOrdered, VoteAfterMain, KingKnown, KingFirst,
         NEW p \in Procs, NEW s \in Searches, CreateCallbacks(p, s)
  PROVE KingKnown' /\ KingFirst'
<1> USE DEF comVars, courtVars, cmdVars, managerVars
<1>t. /\ DOMAIN main = Procs /\ DOMAIN vote = Procs /\ DOMAIN isKing = Procs
      /\ place \in [Procs -> Nat] /\ nextPlace \in Nat \ {0}
      /\ monarch \in [Procs -> Procs \cup {None, Own}]
  BY Zenon DEF TypeOK
<1>1. CASE ~MonarchAnswers(p)
  <2>1. At(p, s.t) = s.found /\ Throw(p, s.t, s.failed)
    BY <1>1, Zenon DEF CreateCallbacks
  <2>2. CASE s.failed = "crashed"
    <3>1. /\ main' = [main EXCEPT ![p] = "crashed"] /\ vote' = [vote EXCEPT ![p] = "none"]
          /\ place' = [place EXCEPT ![p] = 0] /\ monarch' = [monarch EXCEPT ![p] = None]
          /\ isKing' = [isKing EXCEPT ![p] = FALSE]
      BY <2>1, <2>2, Zenon DEF Throw, Gone
    <3> QED BY <3>1, <1>t, ProcsAssumption, Zenon
      DEF KingKnown, KingFirst, FirstInLine, InLine, Early, Ended, Settled, Alive
  <2>3. CASE s.failed # "crashed"
    <3>1. Goto(p, s.t, s.failed) /\ UNCHANGED <<place, monarch, isKing>>
      BY <2>1, <2>3, Zenon DEF Throw
    <3> QED BY <2>1, <2>3, <3>1, <1>t, SearchFacts, ProcsAssumption
      DEF Goto, At, VoteAfterMain, KingKnown, KingFirst, FirstInLine, InLine, Early, Ended, Settled
  <2> QED BY <2>2, <2>3, Zenon
<1>2. CASE MonarchAnswers(p)
  <2>1. /\ isKing' = [isKing EXCEPT ![p] = monarch[p] \in {p, Own}]
        /\ UNCHANGED <<place, monarch>>
        /\ Goto(p, s.t, AfterCallbacks(s, monarch[p] \in {p, Own}))
    BY <1>2, Zenon DEF CreateCallbacks, AreWeTheKing
  <2>2. KingFirst'
    BY <2>1, Zenon DEF KingFirst, FirstInLine, InLine
  <2>3. CASE s.t = "main"
    <3>1. /\ main[p] \notin Settled \cup Ended /\ vote[p] = "none"
      BY <2>3, SearchFacts, Zenon DEF CreateCallbacks, At, VoteAfterMain, Settled, Ended
    <3>2. PICK loc \in {"create", "propose"} : 
            /\ main' = [main EXCEPT ![p] = loc] /\ vote' = vote
            /\ loc = "propose" => monarch[p] \notin {p, Own}
      BY <2>1, <2>3, SearchFacts, Zenon DEF Goto, AfterCallbacks
    <3> QED BY <1>t, <2>1, <2>2, <3>1, <3>2, ProcsAssumption, Zenon
      DEF KingKnown, Early, Ended
  <2>4. CASE s.t = "vote"
    <3>1. main[p] \in Settled /\ main' = main /\ vote' = [vote EXCEPT ![p] = "electAdd"]
      BY <2>1, <2>4, SearchFacts, Zenon
      DEF CreateCallbacks, At, VoteAfterMain, AfterCallbacks, Goto
    <3> QED BY <1>t, <2>1, <2>2, <3>1, ProcsAssumption, Zenon
      DEF KingKnown, Early, Ended, Settled
  <2> QED BY <2>3, <2>4, SearchFacts, Zenon
<1> QED BY <1>1, <1>2, Zenon

\* A king is the first in line for as long as it is registered.
LEMMA KingStep ==
  ASSUME TypeOK, LineOrdered, VoteAfterMain, KingKnown, KingFirst,
         Next \/ UNCHANGED vars
  PROVE  KingKnown' /\ KingFirst'
<1>t. /\ DOMAIN main = Procs /\ DOMAIN vote = Procs /\ DOMAIN isKing = Procs
      /\ place \in [Procs -> Nat] /\ nextPlace \in Nat \ {0}
      /\ monarch \in [Procs -> Procs \cup {None, Own}]
  BY Zenon DEF TypeOK
<1> USE DEF comVars, courtVars, cmdVars, managerVars
<1>1. ASSUME NEW p \in Procs, Start(p)
      PROVE  KingKnown' /\ KingFirst'
  BY <1>1, <1>t, ProcsAssumption
  DEF LineOrdered, VoteAfterMain, KingKnown, KingFirst,
         FirstInLine, InLine, Early, Ended, Settled, Alive, MonarchAnswers, Start, Goto
<1>2. ASSUME NEW p \in Procs, \E s \in Searches : CreateMonarch(p, s)
      PROVE  KingKnown' /\ KingFirst'
  BY <1>2, <1>t, ProcsAssumption, SearchFacts
  DEF LineOrdered, VoteAfterMain, KingKnown, KingFirst,
         FirstInLine, InLine, Early, Ended, Settled, Alive, MonarchAnswers, CreateMonarch, Throw, Gone, Goto, At
<1>3. ASSUME NEW p \in Procs, \E s \in Searches : CreateNullMonarch(p, s)
      PROVE  KingKnown' /\ KingFirst'
  BY <1>3, <1>t, ProcsAssumption, SearchFacts
  DEF LineOrdered, VoteAfterMain, KingKnown, KingFirst,
         FirstInLine, InLine, Early, Ended, Settled, Alive, MonarchAnswers, CreateNullMonarch, Gone, Goto, At
<1>4. ASSUME NEW p \in Procs, \E s \in Searches : CreateCallbacks(p, s)
      PROVE  KingKnown' /\ KingFirst'
  BY <1>4, CallbacksKing, Zenon
<1>5. ASSUME NEW p \in Procs, ProposeCommandline(p)
      PROVE  KingKnown' /\ KingFirst'
  BY <1>5, <1>t, ProcsAssumption, Zenon
  DEF LineOrdered, VoteAfterMain, KingKnown, KingFirst,
         FirstInLine, InLine, Early, Ended, Settled, Alive, MonarchAnswers, ProposeCommandline, ExecuteCommandline, Goto
<1>6. ASSUME NEW p \in Procs, TakeReply(p)
      PROVE  KingKnown' /\ KingFirst'
  BY <1>6, <1>t, ProcsAssumption, Zenon
  DEF LineOrdered, VoteAfterMain, KingKnown, KingFirst,
         FirstInLine, InLine, Early, Ended, Settled, Alive, MonarchAnswers, TakeReply, Goto
<1>7. ASSUME NEW p \in Procs, ProposeFailed(p)
      PROVE  KingKnown' /\ KingFirst'
  BY <1>7, <1>t, ProcsAssumption
  DEF LineOrdered, VoteAfterMain, KingKnown, KingFirst,
         FirstInLine, InLine, Early, Ended, Settled, Alive, MonarchAnswers, ProposeFailed, Goto, OwnTarget
<1>8. ASSUME NEW p \in Procs, ExitGlommed(p)
      PROVE  KingKnown' /\ KingFirst'
  BY <1>8, <1>t, ProcsAssumption, Zenon
  DEF LineOrdered, VoteAfterMain, KingKnown, KingFirst,
         FirstInLine, InLine, Early, Ended, Settled, Alive, MonarchAnswers, ExitGlommed, Gone
<1>9. ASSUME NEW p \in Procs, AddPeasant(p, "main", "create", "added")
      PROVE  KingKnown' /\ KingFirst'
  BY <1>9, <1>t, ProcsAssumption, Zenon
  DEF LineOrdered, VoteAfterMain, KingKnown, KingFirst,
         FirstInLine, InLine, Early, Ended, Settled, Alive, MonarchAnswers, AddPeasant, Goto, At, Enroll, AssignedId, NextPeasantId
<1>10. ASSUME NEW p \in Procs, AddPeasant(p, "vote", "electAdd", "electAdded")
      PROVE  KingKnown' /\ KingFirst'
  BY <1>10, <1>t, ProcsAssumption, SMTT(20)
  DEF LineOrdered, VoteAfterMain, KingKnown, KingFirst,
         FirstInLine, InLine, Early, Ended, Settled, Alive, MonarchAnswers, AddPeasant, Goto, At, Enroll, AssignedId, NextPeasantId
<1>11. ASSUME NEW p \in Procs, AddFailed(p, "main", {"create", "added"}, "readd")
      PROVE  KingKnown' /\ KingFirst'
  BY <1>11, <1>t, ProcsAssumption
  DEF LineOrdered, VoteAfterMain, KingKnown, KingFirst,
         FirstInLine, InLine, Early, Ended, Settled, Alive, MonarchAnswers, AddFailed, Goto, At
<1>12. ASSUME NEW p \in Procs, AddFailed(p, "vote", {"electAdd", "electAdded"}, "elect")
      PROVE  KingKnown' /\ KingFirst'
  BY <1>12, <1>t, ProcsAssumption
  DEF LineOrdered, VoteAfterMain, KingKnown, KingFirst,
         FirstInLine, InLine, Early, Ended, Settled, Alive, MonarchAnswers, AddFailed, Goto, At
<1>13. ASSUME NEW p \in Procs, CreatePeasantThread(p)
      PROVE  KingKnown' /\ KingFirst'
  BY <1>13, <1>t, ProcsAssumption, Zenon
  DEF LineOrdered, VoteAfterMain, KingKnown, KingFirst,
         FirstInLine, InLine, Early, Ended, Settled, Alive, MonarchAnswers, CreatePeasantThread
<1>14. ASSUME NEW p \in Procs, StashCommandline(p)
      PROVE  KingKnown' /\ KingFirst'
  BY <1>14, <1>t, ProcsAssumption, Zenon
  DEF LineOrdered, VoteAfterMain, KingKnown, KingFirst,
         FirstInLine, InLine, Early, Ended, Settled, Alive, MonarchAnswers, StashCommandline, ExecuteCommandline, Goto
<1>15. ASSUME NEW p \in Procs, Startup(p)
      PROVE  KingKnown' /\ KingFirst'
  BY <1>15, <1>t, ProcsAssumption, Zenon
  DEF LineOrdered, VoteAfterMain, KingKnown, KingFirst,
         FirstInLine, InLine, Early, Ended, Settled, Alive, MonarchAnswers, Startup, Goto
<1>16. ASSUME NEW p \in Procs, OpenMonarch(p)
      PROVE  KingKnown' /\ KingFirst'
  BY <1>16, <1>t, ProcsAssumption, Zenon
  DEF LineOrdered, VoteAfterMain, KingKnown, KingFirst,
         FirstInLine, InLine, Early, Ended, Settled, Alive, MonarchAnswers, OpenMonarch, Goto
<1>17. ASSUME NEW p \in Procs, MonarchDied(p)
      PROVE  KingKnown' /\ KingFirst'
  BY <1>17, <1>t, ProcsAssumption, Zenon
  DEF LineOrdered, VoteAfterMain, KingKnown, KingFirst,
         FirstInLine, InLine, Early, Ended, Settled, Alive, MonarchAnswers, MonarchDied, Goto
<1>18. ASSUME NEW p \in Procs, WaitInterrupted(p)
      PROVE  KingKnown' /\ KingFirst'
  BY <1>18, <1>t, ProcsAssumption, Zenon
  DEF LineOrdered, VoteAfterMain, KingKnown, KingFirst,
         FirstInLine, InLine, Early, Ended, Settled, Alive, MonarchAnswers, WaitInterrupted, Goto
<1>19. ASSUME NEW p \in Procs, ElectionDone(p)
      PROVE  KingKnown' /\ KingFirst'
  BY <1>19, <1>t, ProcsAssumption, Zenon
  DEF LineOrdered, VoteAfterMain, KingKnown, KingFirst,
         FirstInLine, InLine, Early, Ended, Settled, Alive, MonarchAnswers, ElectionDone, Goto
<1>20. ASSUME NEW p \in Procs, CloseWindow(p)
      PROVE  KingKnown' /\ KingFirst'
  BY <1>20, <1>t, ProcsAssumption, Zenon
  DEF LineOrdered, VoteAfterMain, KingKnown, KingFirst,
         FirstInLine, InLine, Early, Ended, Settled, Alive, MonarchAnswers, CloseWindow, SignalClose, Goto
<1>21. ASSUME NEW p \in Procs, Destroy(p)
      PROVE  KingKnown' /\ KingFirst'
  BY <1>21, <1>t, ProcsAssumption, Zenon
  DEF LineOrdered, VoteAfterMain, KingKnown, KingFirst,
         FirstInLine, InLine, Early, Ended, Settled, Alive, MonarchAnswers, Destroy, SignalClose, Goto
<1>22. ASSUME NEW p \in Procs, Join(p)
      PROVE  KingKnown' /\ KingFirst'
  BY <1>22, <1>t, ProcsAssumption, Zenon
  DEF LineOrdered, VoteAfterMain, KingKnown, KingFirst,
         FirstInLine, InLine, Early, Ended, Settled, Alive, MonarchAnswers, Join, Gone
<1>23. ASSUME NEW p \in Procs, Kill(p)
      PROVE  KingKnown' /\ KingFirst'
  BY <1>23, <1>t, ProcsAssumption, SMTT(20)
  DEF LineOrdered, VoteAfterMain, KingKnown, KingFirst,
         FirstInLine, InLine, Early, Ended, Settled, Alive, MonarchAnswers, Kill, Gone
<1>24. CASE UNCHANGED vars
  BY <1>24, Zenon DEF LineOrdered, VoteAfterMain, KingKnown, KingFirst,
         FirstInLine, InLine, Early, Ended, Settled, Alive, MonarchAnswers, vars
<1> QED
  BY <1>1, <1>2, <1>3, <1>4, <1>5, <1>6, <1>7, <1>8, <1>9, <1>10, <1>11,
     <1>12, <1>13, <1>14, <1>15, <1>16, <1>17, <1>18, <1>19, <1>20, <1>21, <1>22, <1>23, <1>24, Zenon
  DEF Next, MainStep, VoteStep, Environment

-----------------------------------------------------------------------------
(* Ids and tables                                                          *)

\* Ids: a process has none before its Peasant exists, and a table lists only
\* processes that have one.
IdsKnown ==
  /\ \A p \in Procs : main[p] \in Early => id[p] = 0
  /\ \A m \in Procs : \A k \in DOMAIN peasants[m] : main[peasants[m][k]] \notin Early

-----------------------------------------------------------------------------
\* Steps that give no id and only take peasants off the tables.
LEMMA IdShrink ==
  ASSUME TypeOK, IdsKnown, NextIdAbove, TableAgrees,
         UNCHANGED <<id, nextId>>,
         \A q \in Procs : /\ DOMAIN peasants'[q] \subseteq DOMAIN peasants[q]
                          /\ \A k \in DOMAIN peasants'[q] : peasants'[q][k] = peasants[q][k],
         \A q \in Procs : main'[q] \in Early => main[q] \in Early,
         \A q \in Procs : main[q] = "dead" \/ main[q] = "crashed" => main'[q] = main[q]
  PROVE  IdsKnown' /\ NextIdAbove' /\ TableAgrees'
<1>1. \A q \in Procs : \A k \in DOMAIN peasants[q] : peasants[q][k] \in Procs
  BY Zenon DEF TypeOK, IsTable
<1>2. IdsKnown'
  BY <1>1 DEF IdsKnown
<1>3. NextIdAbove'
  BY Zenon DEF NextIdAbove
<1>4. \A q \in Procs : Alive(q)' => Alive(q) \/ main[q] = "unborn"
  BY Zenon DEF Alive
<1>5. TableAgrees'
  BY <1>1, <1>4 DEF TableAgrees, IdsKnown, Early
<1> QED BY <1>2, <1>3, <1>5, Zenon

\* Steps that leave ids and tables alone.
LEMMA IdQuiet ==
  ASSUME TypeOK, IdsKnown, NextIdAbove, TableAgrees,
         UNCHANGED <<id, peasants, nextId>>,
         \A q \in Procs : main'[q] \in Early => main[q] \in Early,
         \A q \in Procs : main[q] = "dead" \/ main[q] = "crashed" => main'[q] = main[q]
  PROVE  IdsKnown' /\ NextIdAbove' /\ TableAgrees'
BY DEF TypeOK, IsTable, IdsKnown, NextIdAbove, TableAgrees, Early, Alive

\* The end of a process leaves the other tables right.
LEMMA IdGone ==
  ASSUME TypeOK, IdsKnown, NextIdAbove, TableAgrees, NEW p \in Procs, NEW how \in {"dead", "crashed"},
         Gone(p, how), id' = id
  PROVE  IdsKnown' /\ NextIdAbove' /\ TableAgrees'
<1>1. /\ DOMAIN peasants' = Procs /\ DOMAIN peasants'[p] = {}
      /\ \A q \in Procs \ {p} : peasants'[q] = peasants[q] /\ nextId'[q] = nextId[q]
  BY Zenon DEF TypeOK, Gone, EmptyTable
<1>2. main' = [main EXCEPT ![p] = how]
  BY Zenon DEF Gone
<1> QED BY <1>1, <1>2, Zenon
  DEF TypeOK, IsTable, IdsKnown, NextIdAbove, TableAgrees, Early, Alive

\* A failed call to the Monarch leaves ids and tables right.
LEMMA IdThrow ==
  ASSUME TypeOK, IdsKnown, NextIdAbove, TableAgrees, NEW p \in Procs, NEW s \in Searches,
         Throw(p, s.t, s.failed), At(p, s.t) = s.at \/ At(p, s.t) = s.found, VoteAfterMain
  PROVE  IdsKnown' /\ NextIdAbove' /\ TableAgrees'
<1>1. CASE s.failed = "crashed"
   BY <1>1, IdGone, Zenon DEF Throw
<1>2. CASE s.failed # "crashed"
  <2>1. /\ UNCHANGED <<id, peasants, nextId>>
        /\ \A q \in Procs : main'[q] \in Early => main[q] \in Early
        /\ \A q \in Procs : main[q] = "dead" \/ main[q] = "crashed" => main'[q] = main[q]
    BY <1>2, SearchFacts, Zenon DEF Throw, Goto, At, courtVars, TypeOK, Early
  <2> QED BY <2>1, IdQuiet, Zenon
<1> QED BY <1>1, <1>2, Zenon

\* Finding a Monarch leaves ids and tables right.
LEMMA CreateMonarchIds ==
  ASSUME TypeOK, VoteAfterMain, IdsKnown, NextIdAbove, TableAgrees, NEW p \in Procs, NEW s \in Searches,
         CreateMonarch(p, s) \/ CreateNullMonarch(p, s)
  PROVE  IdsKnown' /\ NextIdAbove' /\ TableAgrees'
<1>1. CASE Throw(p, s.t, s.failed) 
  BY <1>1, IdThrow, Zenon DEF CreateMonarch, CreateNullMonarch
<1>2. CASE Gone(p, "crashed") /\ id' = id
  BY <1>2, IdGone, Zenon
<1>3. CASE UNCHANGED <<id, peasants, nextId>> /\ Goto(p, s.t, s.found) /\ At(p, s.t) = s.at
  <2>1. /\ \A q \in Procs : main'[q] \in Early => main[q] \in Early
        /\ \A q \in Procs : main[q] = "dead" \/ main[q] = "crashed" => main'[q] = main[q]
    BY <1>3, SearchFacts DEF Goto, At, TypeOK, Early
  <2> QED BY <1>3, <2>1, IdQuiet, Zenon
<1> QED BY <1>1, <1>2, <1>3, Zenon DEF CreateMonarch, CreateNullMonarch, courtVars

\* A king takes the id that its own commandline asks for.
LEMMA CallbacksIds ==
  ASSUME TypeOK, VoteAfterMain, IdsKnown, NextIdAbove, TableAgrees, NEW p \in Procs, NEW s \in Searches,
         CreateCallbacks(p, s)
  PROVE  IdsKnown' /\ NextIdAbove' /\ TableAgrees'
<1>1. CASE ~MonarchAnswers(p)
  BY <1>1, IdThrow, Zenon DEF CreateCallbacks
<1>2. CASE MonarchAnswers(p)
  <2>1. /\ UNCHANGED <<peasants, nextId>>
        /\ Goto(p, s.t, AfterCallbacks(s, AreWeTheKing(p))) /\ At(p, s.t) = s.found
    BY <1>2, Zenon DEF CreateCallbacks, courtVars
  <2>2. /\ \A q \in Procs : main'[q] \in Early => main[q] \in Early
        /\ \A q \in Procs : main[q] = "dead" \/ main[q] = "crashed" => main'[q] = main[q]
    BY <2>1, SearchFacts DEF Goto, At, TypeOK, Early, AfterCallbacks
  <2>3. CASE id' = id
    BY <2>1, <2>2, <2>3, IdQuiet, Zenon
  <2>4. CASE id' = [id EXCEPT ![p] = OwnTarget(p)] /\ s.at \in {"ctor", "repropose"} /\ AreWeTheKing(p)
    <3>1. main[p] \in Early /\ main' = [main EXCEPT ![p] = "create"]
      BY <2>1, <2>4, SearchFacts, Zenon DEF Goto, At, AfterCallbacks, Early
    <3> QED BY <2>1, <2>4, <3>1
      DEF TypeOK, IsTable, IdsKnown, NextIdAbove, TableAgrees, Early, Alive
  <2> QED BY <1>2, <2>3, <2>4, Zenon DEF CreateCallbacks
<1> QED BY <1>1, <1>2, Zenon

\* A proposal only takes dead peasants off the table.
LEMMA ProposeIds ==
  ASSUME TypeOK, IdsKnown, NextIdAbove, TableAgrees, NEW p \in Procs, ProposeCommandline(p)
  PROVE  IdsKnown' /\ NextIdAbove' /\ TableAgrees'
<1>1. PICK k : \/ peasants' = peasants
               \/ peasants' = [peasants EXCEPT ![monarch[p]] = Forget(@, k)]
  BY Zenon DEF ProposeCommandline
<1>2. /\ main' = [main EXCEPT ![p] = "reply"] /\ main[p] = "propose" /\ UNCHANGED <<id, nextId>>
  BY Zenon DEF ProposeCommandline, Goto
<1>3. /\ DOMAIN peasants' = Procs
      /\ \A m \in Procs : /\ DOMAIN peasants'[m] \subseteq DOMAIN peasants[m]
                          /\ \A i \in DOMAIN peasants'[m] : peasants'[m][i] = peasants[m][i]
  BY <1>1 DEF Forget, TypeOK
<1> QED BY <1>2, <1>3
  DEF TypeOK, IsTable, IdsKnown, NextIdAbove, TableAgrees, Early, Alive

\* AddPeasant files a peasant under its id, and raises the counter above it.
LEMMA AddPeasantIds ==
  ASSUME TypeOK, VoteAfterMain, IdsKnown, NextIdAbove, TableAgrees, NEW p \in Procs, 
         NEW t, NEW at, NEW next, AddPeasant(p, t, at, next),
         \/ t = "main" /\ at = "create" /\ next = "added" 
         \/ t = "vote" /\ at = "electAdd" /\ next = "electAdded"
  PROVE  IdsKnown' /\ NextIdAbove' /\ TableAgrees'
<1>1. /\ main[p] \notin Early \cup Ended
      /\ main'[p] \notin Early \cup Ended
      /\ \A q \in Procs \ {p} : main'[q] = main[q]
  BY Zenon DEF AddPeasant, Goto, At, VoteAfterMain, Settled, TypeOK, Early, Ended
<1>2. /\ \A q \in Procs : main'[q] \in Early => main[q] \in Early
      /\ \A q \in Procs : main[q] = "dead" \/ main[q] = "crashed" => main'[q] = main[q]
  BY <1>1, Zenon DEF Ended
<1>t. \A q \in Procs : \A k \in DOMAIN peasants[q] : peasants[q][k] \in Procs
  BY Zenon DEF TypeOK, IsTable
<1>3. CASE monarch[p] = Own
  <2>1. UNCHANGED <<peasants, nextId>>
    BY <1>3, Zenon DEF AddPeasant, courtVars
  <2>2. CASE id[p] # 0
    <3>1. id' = id
      BY <1>3, <2>2, Zenon DEF AddPeasant
    <3> QED BY <1>2, <2>1, <3>1, IdQuiet, Zenon
  <2>3. CASE id[p] = 0
    <3>0. id' = [id EXCEPT ![p] = 1]
      BY <1>3, <2>3, Zenon DEF AddPeasant
    <3>1. \A q \in Procs \ {p} : id'[q] = id[q] /\ (Alive(q)' <=> Alive(q))
      BY <1>1, <3>0, Zenon DEF Alive, TypeOK
    <3>2. \A q \in Procs : \A k \in DOMAIN peasants[q] : peasants[q][k] # p
      BY <1>1, <2>3 DEF TableAgrees, TypeOK, IsTable, Alive, Ended
    <3>3. NextIdAbove' /\ IdsKnown'
      BY <1>1, <1>2, <2>1, <3>0, Zenon DEF NextIdAbove, IdsKnown, TypeOK, IsTable
    <3>4. TableAgrees'
      BY <2>1, <3>1, <3>2 DEF TableAgrees, TypeOK, IsTable
    <3> QED BY <3>3, <3>4, Zenon
  <2> QED BY <2>1, <2>2, <2>3, Zenon
<1>4. CASE monarch[p] # Own
  <2> DEFINE m == monarch[p]
             a == AssignedId(m, p)
  <2>1. m \in Procs
    BY <1>4, Zenon DEF TypeOK, AddPeasant, MonarchAnswers
  <2>2. /\ a \in Nat \ {0} /\ NextPeasantId(m, p) \in Nat /\ a < NextPeasantId(m, p) /\ nextId[m] <= NextPeasantId(m, p)
        /\ id[p] # 0 => a = id[p]
    BY <2>1 DEF AssignedId, NextPeasantId, TypeOK
  <2>3. /\ id' = [id EXCEPT ![p] = a]
        /\ nextId' = [nextId EXCEPT ![m] = NextPeasantId(m, p)]
        /\ peasants' = [peasants EXCEPT ![m] = Put(@, a, p)]
    BY <1>4, Zenon DEF AddPeasant, Enroll
  <2> HIDE DEF m, a
  <2>4. /\ \A q \in Procs \ {m} : peasants'[q] = peasants[q] /\ nextId'[q] = nextId[q]
        /\ DOMAIN peasants'[m] = DOMAIN peasants[m] \cup {a}
        /\ \A i \in DOMAIN peasants'[m] : peasants'[m][i] = IF i = a THEN p ELSE peasants[m][i]
    BY <2>1, <2>3, Zenon DEF Put, TypeOK
  <2>5. NextIdAbove'
    BY <2>1, <2>2, <2>3, <2>4 DEF NextIdAbove, TypeOK, IsTable
  <2>6. \A q \in Procs \ {p} : id'[q] = id[q] /\ (Alive(q)' <=> Alive(q))
    BY <1>1, <2>3, Zenon DEF Alive, TypeOK
  <2>7. IdsKnown'
    <3>1. \A q \in Procs : main'[q] \in Early => id'[q] = 0
      BY <1>1, <1>2, <2>6, Zenon DEF IdsKnown
    <3>2. \A q \in Procs : \A k \in DOMAIN peasants'[q] :
            \/ peasants'[q][k] = p
            \/ k \in DOMAIN peasants[q] /\ peasants'[q][k] = peasants[q][k]
      BY <2>4, Zenon
    <3>3. \A q \in Procs : \A k \in DOMAIN peasants'[q] : main'[peasants'[q][k]] \notin Early
      BY <1>t, <1>1, <1>2, <3>2 DEF IdsKnown
    <3> QED BY <3>1, <3>3, Zenon DEF IdsKnown
  <2>8. \A q \in Procs : \A k \in DOMAIN peasants[q] : peasants[q][k] = p => id'[p] = k
    BY <1>1, <2>2, <2>3 DEF TableAgrees, TypeOK, IsTable, Alive, Ended
  <2>9. TableAgrees'
    <3>1. ASSUME NEW q \in Procs, NEW k \in DOMAIN peasants'[q], Alive(peasants[q][k])'
          PROVE  id'[peasants'[q][k]] = k
      <4>1. CASE q = m /\ k = a
        BY <2>2, <2>3, <2>4, <4>1 DEF TypeOK
      <4>2. CASE ~(q = m /\ k = a)
        <5>1. k \in DOMAIN peasants[q] /\ peasants'[q][k] = peasants[q][k]
          BY <2>4, <4>2, Zenon
        <5>2. CASE peasants[q][k] = p
          BY <2>8, <5>1, <5>2, Zenon
        <5>3. CASE peasants[q][k] # p
          BY <1>t, <2>6, <3>1, <5>1, <5>3, Zenon DEF TableAgrees
        <5> QED BY <5>2, <5>3, Zenon
      <4> QED BY <4>1, <4>2, Zenon
    <3> QED BY <3>1, Zenon DEF TableAgrees
  <2> QED BY <2>5, <2>7, <2>9, Zenon
<1> QED BY <1>3, <1>4, Zenon

\* Ids and tables stay right.
LEMMA IdStep ==
  ASSUME TypeOK, VoteAfterMain, KingKnown, IdsKnown, NextIdAbove, TableAgrees,
         Next \/ UNCHANGED vars
  PROVE  IdsKnown' /\ NextIdAbove' /\ TableAgrees'
<1>t. /\ DOMAIN main = Procs /\ DOMAIN vote = Procs
      /\ id \in [Procs -> Nat]
      /\ DOMAIN peasants = Procs
      /\ nextId \in [Procs -> Nat \ {0}]
      /\ \A p \in Procs : IsTable(peasants[p])
  BY Zenon DEF TypeOK
<1> USE DEF comVars, courtVars, cmdVars, managerVars
<1>1. ASSUME NEW p \in Procs, Start(p)
      PROVE  IdsKnown' /\ NextIdAbove' /\ TableAgrees'
  <2>1. /\ UNCHANGED <<id, peasants, nextId>>
        /\ main' = [main EXCEPT ![p] = "ctor"] /\ main[p] = "unborn"
    BY <1>1, Zenon DEF Start, Goto
  <2>2. /\ \A q \in Procs : main'[q] \in Early => main[q] \in Early
        /\ \A q \in Procs : main[q] = "dead" \/ main[q] = "crashed" => main'[q] = main[q]
    BY <1>t, <2>1, Zenon DEF Early
  <2> QED BY <2>1, <2>2, IdQuiet, Zenon
<1>2. ASSUME NEW p \in Procs, \E s \in Searches : CreateMonarch(p, s)
      PROVE  IdsKnown' /\ NextIdAbove' /\ TableAgrees'
  BY <1>2, CreateMonarchIds, Zenon
<1>3. ASSUME NEW p \in Procs, \E s \in Searches : CreateNullMonarch(p, s)
      PROVE  IdsKnown' /\ NextIdAbove' /\ TableAgrees'
  BY <1>3, CreateMonarchIds, Zenon
<1>4. ASSUME NEW p \in Procs, \E s \in Searches : CreateCallbacks(p, s)
      PROVE  IdsKnown' /\ NextIdAbove' /\ TableAgrees'
  BY <1>4, CallbacksIds, Zenon
<1>5. ASSUME NEW p \in Procs, ProposeCommandline(p)
      PROVE  IdsKnown' /\ NextIdAbove' /\ TableAgrees'
  BY <1>5, ProposeIds, Zenon
<1>6. ASSUME NEW p \in Procs, TakeReply(p)
      PROVE  IdsKnown' /\ NextIdAbove' /\ TableAgrees'
  BY <1>6, <1>t, ProcsAssumption
  DEF VoteAfterMain, KingKnown, IdsKnown, NextIdAbove, TableAgrees,
         Early, Ended, Settled, Alive, MonarchAnswers, IsTable, Forget, TakeReply, Goto
<1>7. ASSUME NEW p \in Procs, ProposeFailed(p)
      PROVE  IdsKnown' /\ NextIdAbove' /\ TableAgrees'
  BY <1>7, <1>t, ProcsAssumption
  DEF VoteAfterMain, KingKnown, IdsKnown, NextIdAbove, TableAgrees,
         Early, Ended, Settled, Alive, MonarchAnswers, IsTable, Forget, ProposeFailed, Goto, OwnTarget
<1>8. ASSUME NEW p \in Procs, ExitGlommed(p)
      PROVE  IdsKnown' /\ NextIdAbove' /\ TableAgrees'
  BY <1>8, IdGone, Zenon DEF ExitGlommed
<1>9. ASSUME NEW p \in Procs, AddPeasant(p, "main", "create", "added")
      PROVE  IdsKnown' /\ NextIdAbove' /\ TableAgrees'
  BY <1>9, AddPeasantIds, Zenon
<1>10. ASSUME NEW p \in Procs, AddPeasant(p, "vote", "electAdd", "electAdded")
      PROVE  IdsKnown' /\ NextIdAbove' /\ TableAgrees'
  BY <1>10, AddPeasantIds, Zenon
<1>11. ASSUME NEW p \in Procs, AddFailed(p, "main", {"create", "added"}, "readd")
      PROVE  IdsKnown' /\ NextIdAbove' /\ TableAgrees'
  <2>1. /\ UNCHANGED <<id, peasants, nextId>>
        /\ \A q \in Procs : main'[q] \in Early => main[q] \in Early
        /\ \A q \in Procs : main[q] = "dead" \/ main[q] = "crashed" => main'[q] = main[q]
    BY <1>11, <1>t, Zenon DEF Early, Settled, VoteAfterMain, AddFailed, Goto, At
  <2> QED BY <2>1, IdQuiet, Zenon
<1>12. ASSUME NEW p \in Procs, AddFailed(p, "vote", {"electAdd", "electAdded"}, "elect")
      PROVE  IdsKnown' /\ NextIdAbove' /\ TableAgrees'
  <2>1. /\ UNCHANGED <<id, peasants, nextId>>
        /\ \A q \in Procs : main'[q] \in Early => main[q] \in Early
        /\ \A q \in Procs : main[q] = "dead" \/ main[q] = "crashed" => main'[q] = main[q]
    BY <1>12, <1>t, Zenon DEF Early, Settled, VoteAfterMain, AddFailed, Goto, At
  <2> QED BY <2>1, IdQuiet, Zenon
<1>13. ASSUME NEW p \in Procs, CreatePeasantThread(p)
      PROVE  IdsKnown' /\ NextIdAbove' /\ TableAgrees'
  <2>1. /\ UNCHANGED <<id, peasants, nextId>>
        /\ \A q \in Procs : main'[q] \in Early => main[q] \in Early
        /\ \A q \in Procs : main[q] = "dead" \/ main[q] = "crashed" => main'[q] = main[q]
    BY <1>13, <1>t, Zenon DEF Early, Settled, VoteAfterMain, CreatePeasantThread
  <2> QED BY <2>1, IdQuiet, Zenon
<1>14. ASSUME NEW p \in Procs, StashCommandline(p)
      PROVE  IdsKnown' /\ NextIdAbove' /\ TableAgrees'
  <2>1. /\ UNCHANGED <<id, peasants, nextId>>
        /\ \A q \in Procs : main'[q] \in Early => main[q] \in Early
        /\ \A q \in Procs : main[q] = "dead" \/ main[q] = "crashed" => main'[q] = main[q]
    BY <1>14, <1>t, Zenon DEF Early, Settled, VoteAfterMain, StashCommandline, ExecuteCommandline, Goto
  <2> QED BY <2>1, IdQuiet, Zenon
<1>15. ASSUME NEW p \in Procs, Startup(p)
      PROVE  IdsKnown' /\ NextIdAbove' /\ TableAgrees'
  <2>1. /\ UNCHANGED <<id, peasants, nextId>>
        /\ \A q \in Procs : main'[q] \in Early => main[q] \in Early
        /\ \A q \in Procs : main[q] = "dead" \/ main[q] = "crashed" => main'[q] = main[q]
    BY <1>15, <1>t, Zenon DEF Early, Settled, VoteAfterMain, Startup, Goto
  <2> QED BY <2>1, IdQuiet, Zenon
<1>16. ASSUME NEW p \in Procs, OpenMonarch(p)
      PROVE  IdsKnown' /\ NextIdAbove' /\ TableAgrees'
  <2>1. /\ UNCHANGED <<id, peasants, nextId>>
        /\ \A q \in Procs : main'[q] \in Early => main[q] \in Early
        /\ \A q \in Procs : main[q] = "dead" \/ main[q] = "crashed" => main'[q] = main[q]
    BY <1>16, <1>t, Zenon DEF Early, Settled, VoteAfterMain, OpenMonarch, Goto
  <2> QED BY <2>1, IdQuiet, Zenon
<1>17. ASSUME NEW p \in Procs, MonarchDied(p)
      PROVE  IdsKnown' /\ NextIdAbove' /\ TableAgrees'
  <2>1. /\ UNCHANGED <<id, peasants, nextId>>
        /\ \A q \in Procs : main'[q] \in Early => main[q] \in Early
        /\ \A q \in Procs : main[q] = "dead" \/ main[q] = "crashed" => main'[q] = main[q]
    BY <1>17, <1>t, Zenon DEF Early, Settled, VoteAfterMain, MonarchDied, Goto
  <2> QED BY <2>1, IdQuiet, Zenon
<1>18. ASSUME NEW p \in Procs, WaitInterrupted(p)
      PROVE  IdsKnown' /\ NextIdAbove' /\ TableAgrees'
  <2>1. /\ UNCHANGED <<id, peasants, nextId>>
        /\ \A q \in Procs : main'[q] \in Early => main[q] \in Early
        /\ \A q \in Procs : main[q] = "dead" \/ main[q] = "crashed" => main'[q] = main[q]
    BY <1>18, <1>t, Zenon DEF Early, Settled, VoteAfterMain, WaitInterrupted, Goto
  <2> QED BY <2>1, IdQuiet, Zenon
<1>19. ASSUME NEW p \in Procs, ElectionDone(p)
      PROVE  IdsKnown' /\ NextIdAbove' /\ TableAgrees'
  <2>1. /\ UNCHANGED <<id, peasants, nextId>>
        /\ \A q \in Procs : main'[q] \in Early => main[q] \in Early
        /\ \A q \in Procs : main[q] = "dead" \/ main[q] = "crashed" => main'[q] = main[q]
    BY <1>19, <1>t, Zenon DEF Early, Settled, VoteAfterMain, ElectionDone, Goto
  <2> QED BY <2>1, IdQuiet, Zenon
<1>20. ASSUME NEW p \in Procs, CloseWindow(p)
      PROVE  IdsKnown' /\ NextIdAbove' /\ TableAgrees'
  <2>1. /\ main' = [main EXCEPT ![p] = "closing"] /\ main[p] = "window"
        /\ UNCHANGED <<id, nextId>>
    BY <1>20, Zenon DEF CloseWindow, Goto
  <2>2. \A q \in Procs : main'[q] \in Early => main[q] \in Early
    BY <1>t, <2>1, Zenon DEF Early
  <2>3. \A q \in Procs : main[q] = "dead" \/ main[q] = "crashed" => main'[q] = main[q]
    BY <1>t, <2>1, Zenon
  <2>4. \A q \in Procs : /\ DOMAIN peasants'[q] \subseteq DOMAIN peasants[q]
                         /\ \A k \in DOMAIN peasants'[q] : peasants'[q][k] = peasants[q][k]
    BY <1>20, <1>t, Zenon DEF CloseWindow, SignalClose, Forget
  <2> QED BY <2>1, <2>2, <2>3, <2>4, IdShrink, Zenon
<1>21. ASSUME NEW p \in Procs, Destroy(p)
      PROVE  IdsKnown' /\ NextIdAbove' /\ TableAgrees'
  <2>1. /\ main' = [main EXCEPT ![p] = "joining"] /\ main[p] = "closing"
        /\ UNCHANGED <<id, nextId>>
    BY <1>21, Zenon DEF Destroy, Goto
  <2>2. \A q \in Procs : main'[q] \in Early => main[q] \in Early
    BY <1>t, <2>1, Zenon DEF Early
  <2>3. \A q \in Procs : main[q] = "dead" \/ main[q] = "crashed" => main'[q] = main[q]
    BY <1>t, <2>1, Zenon
  <2>4. \A q \in Procs : /\ DOMAIN peasants'[q] \subseteq DOMAIN peasants[q]
                         /\ \A k \in DOMAIN peasants'[q] : peasants'[q][k] = peasants[q][k]
    BY <1>21, <1>t, Zenon DEF Destroy, SignalClose, Forget
  <2> QED BY <2>1, <2>2, <2>3, <2>4, IdShrink, Zenon
<1>22. ASSUME NEW p \in Procs, Join(p)
      PROVE  IdsKnown' /\ NextIdAbove' /\ TableAgrees'
  BY <1>22, IdGone, Zenon DEF Join
<1>23. ASSUME NEW p \in Procs, Kill(p)
      PROVE  IdsKnown' /\ NextIdAbove' /\ TableAgrees'
  BY <1>23, IdGone, Zenon DEF Kill
<1>24. CASE UNCHANGED vars
  BY <1>24, Zenon DEF VoteAfterMain, KingKnown, IdsKnown, NextIdAbove, TableAgrees,
         Early, Ended, Settled, Alive, MonarchAnswers, IsTable, Forget, vars
<1> QED
  BY <1>1, <1>2, <1>3, <1>4, <1>5, <1>6, <1>7, <1>8, <1>9, <1>10, <1>11,
     <1>12, <1>13, <1>14, <1>15, <1>16, <1>17, <1>18, <1>19, <1>20, <1>21, <1>22, <1>23, <1>24, Zenon
  DEF Next, MainStep, VoteStep, Environment

-----------------------------------------------------------------------------
(* Who is listed.                                                          *)

\* AddPeasant has been run for p by the Monarch it has now ...
Added(p) ==
  \/ main[p] = "added"
  \/ /\ main[p] \in {"stash", "startup", "window"}
     /\ vote[p] \in {"open", "wait", "electAdded"}

\* ... which is alive, and p's id is p's alone.
Covered(p) ==
  /\ Added(p)
  /\ monarch[p] \in Procs /\ Alive(monarch[p])
  /\ \A q \in Procs \ {p} : id[q] # id[p]

\* Such a process is in the table, and a process with a window has an id.
Listed ==
  /\ \A p \in Procs : main[p] \in Settled \cup {"added"} => id[p] # 0
  /\ \A p \in Procs : Covered(p) => /\ id[p] \in DOMAIN peasants[monarch[p]]
                                    /\ peasants[monarch[p]][id[p]] = p

-----------------------------------------------------------------------------
(* How often a commandline is run.                                         *)

Opened == {"window", "closing", "joining"}
Asking == {"ctorCallbacks", "reproposeCallbacks", "propose", "reply"}
Before == {"unborn", "ctor", "repropose", "create", "added", "readd",
           "readdCallbacks", "stash"}

\* The processes that have ended, and those among them that are not the monarch
\* that x is asking.
Dead == {q \in Procs : main[q] \in {"dead", "crashed"}}
Lost(x) == Dead \ {monarch[x]}

\* The windows that will run the commandline of x when they start up.
Waiting(x) == {w \in Procs : initial[w] = x /\ main[w] \notin Opened}

\* How often the commandline of x was run or will be.
Spent(x) == ran[x] + Cardinality(Waiting(x))

\* The bound on it.  A monarch that ends after it took the commandline of x, and
\* before x has its answer, is one more in Dead than x has counted in Lost.
Bound(x) ==
  CASE main[x] \in Asking -> IF main[x] = "reply" /\ reply[x] = Glom
                               THEN 1 + Cardinality(Lost(x))
                               ELSE Cardinality(Lost(x))
    [] main[x] \in Before -> Cardinality(Dead)
    [] OTHER -> 1 + Cardinality(Dead)

Counted ==
  /\ IsFiniteSet(Dead)
  /\ \A x \in Procs : IsFiniteSet(Waiting(x))
  /\ \A w \in Procs : main[w] \in Opened \cup {"startup"} => initial[w] # None
  /\ \A x \in Procs : main[x] \in {"propose", "reply"} => monarch[x] \in Procs
  /\ \A x \in Procs : Spent(x) <= Bound(x)

IInv == /\ TypeOK /\ LineOrdered /\ VoteAfterMain /\ KingKnown /\ KingFirst
        /\ IdsKnown /\ NextIdAbove /\ TableAgrees /\ Listed /\ Counted

-----------------------------------------------------------------------------
\* A step that adds no peasant, takes no living one off the table of a living
\* monarch, and gives an id to nobody who could be in a table.
Quiet ==
  /\ \A q \in Procs : \/ id'[q] = id[q]
                      \/ id[q] = 0 /\ main'[q] \notin Settled \cup {"added"}
  /\ \A q \in Procs : main'[q] \in Settled \cup {"added"}
                         => main[q] \in Settled \cup {"added"}
  /\ \A q \in Procs : Added(q)' => Added(q) /\ monarch'[q] = monarch[q]
  /\ \A q \in Procs : Alive(q)' => Alive(q)
  /\ \A m \in Procs : Alive(m)' =>
       \A k \in DOMAIN peasants[m] :
         Alive(peasants[m][k]) => /\ k \in DOMAIN peasants'[m]
                                  /\ peasants'[m][k] = peasants[m][k]

\* Such a step loses no window.
LEMMA ListedQuiet ==
  ASSUME TypeOK, Listed, Quiet
  PROVE  Listed'
<1>1. ASSUME NEW q \in Procs, Covered(q)' PROVE Covered(q)
  <2>1. /\ Added(q) /\ Added(q)' /\ monarch'[q] = monarch[q]
        /\ monarch[q] \in Procs /\ Alive(monarch[q])
    BY <1>1, Zenon DEF Covered, Quiet
  <2>2. id[q] # 0 /\ id'[q] = id[q]
    BY <2>1, Zenon DEF Added, Listed, Settled, Quiet
  <2>3. \A r \in Procs \ {q} : id[r] # id[q]
    BY <1>1, <2>2, Zenon DEF Covered, Quiet
  <2> QED BY <2>1, <2>3, Zenon DEF Covered
<1>2. ASSUME NEW q \in Procs, Covered(q)'
      PROVE  /\ id'[q] \in DOMAIN peasants'[monarch'[q]]
             /\ peasants'[monarch'[q]][id'[q]] = q
  <2>1. /\ id[q] \in DOMAIN peasants[monarch[q]]
        /\ peasants[monarch[q]][id[q]] = q
    BY <1>1, <1>2, Zenon DEF Listed
  <2>2. /\ monarch'[q] = monarch[q] /\ monarch[q] \in Procs /\ Alive(monarch[q])'
        /\ id'[q] = id[q] /\ Alive(q)
    BY <1>2, Zenon DEF Covered, Quiet, Added, Settled, Alive
  <2> QED BY <2>1, <2>2 DEF Quiet
<1>3. ASSUME NEW q \in Procs, main'[q] \in Settled \cup {"added"} PROVE id'[q] # 0
  BY <1>3, Zenon DEF Quiet, Listed
<1> QED BY <1>2, <1>3, Zenon DEF Listed

\* A window with an id of its own stays in the table of its living monarch.
LEMMA ListedStep ==
  ASSUME TypeOK, LineOrdered, VoteAfterMain, KingKnown, IdsKnown, Listed,
         Next \/ UNCHANGED vars
  PROVE  Listed'
<1>t. /\ DOMAIN main = Procs /\ DOMAIN vote = Procs /\ DOMAIN isKing = Procs
      /\ id \in [Procs -> Nat]
      /\ DOMAIN peasants = Procs
      /\ monarch \in [Procs -> Procs \cup {None, Own}]
  BY Zenon DEF TypeOK
<1> USE DEF comVars, courtVars, cmdVars, managerVars
<1>1. ASSUME NEW p \in Procs, Start(p)
      PROVE  Listed'
  <2>1. /\ main' = [main EXCEPT ![p] = "ctor"] /\ main[p] = "unborn"
        /\ UNCHANGED <<vote, monarch, id, peasants>>
    BY <1>1, Zenon DEF Start, Goto
  <2>2. ASSUME NEW q \in Procs, Covered(q)' PROVE Covered(q)
    <3>1. Added(q)
      BY <1>t, <2>1, <2>2, Zenon DEF Covered, Added
    <3>2. monarch[q] \in Procs /\ monarch[q] # p
      BY <2>1, <2>2, Zenon DEF Covered, KingKnown
    <3> QED BY <1>t, <2>1, <2>2, <3>1, <3>2, Zenon DEF Covered, Alive
  <2>3. \A q \in Procs : main'[q] \in Settled \cup {"added"} => main[q] = main'[q]
    BY <1>t, <2>1, Zenon DEF Settled
  <2> QED BY <2>1, <2>2, <2>3, Zenon DEF Listed
<1>2. ASSUME NEW p \in Procs, \E s \in Searches : CreateMonarch(p, s)
      PROVE  Listed'
  <2> PICK s \in Searches : CreateMonarch(p, s)
    BY <1>2, Zenon
  <2>1. /\ UNCHANGED id
        /\ \A q \in Procs \ {p} : /\ main'[q] = main[q] /\ vote'[q] = vote[q]
                                  /\ monarch'[q] = monarch[q] /\ peasants'[q] = peasants[q]
    BY <1>t DEF CreateMonarch, Throw, Gone, Goto
  <2>2. /\ ~Added(p) /\ ~Added(p)' /\ Alive(p)
        /\ main'[p] \in Settled \cup {"added"} => main[p] \in Settled
        /\ Alive(p)' => peasants'[p] = peasants[p]
    BY <1>t, SearchFacts DEF CreateMonarch, Throw, Gone, Goto, At, Added, VoteAfterMain, Settled, Alive
  <2>3. Quiet
    BY <1>t, <2>1, <2>2, Zenon DEF Quiet, Added, Alive
  <2> QED BY <2>3, ListedQuiet, Zenon
<1>3. ASSUME NEW p \in Procs, \E s \in Searches : CreateNullMonarch(p, s)
      PROVE  Listed'
  <2> PICK s \in Searches : CreateNullMonarch(p, s)
    BY <1>3, Zenon
  <2>1. /\ UNCHANGED id
        /\ \A q \in Procs \ {p} : /\ main'[q] = main[q] /\ vote'[q] = vote[q]
                                  /\ monarch'[q] = monarch[q] /\ peasants'[q] = peasants[q]
    BY <1>t, Zenon DEF CreateNullMonarch, Throw, Gone, Goto
  <2>2. /\ ~Added(p) /\ ~Added(p)' /\ Alive(p)
        /\ main'[p] \in Settled \cup {"added"} => main[p] \in Settled
        /\ Alive(p)' => peasants'[p] = peasants[p]
    BY <1>t, SearchFacts DEF CreateNullMonarch, Throw, Gone, Goto, At, Added, VoteAfterMain, Settled, Alive
  <2>3. Quiet
    BY <1>t, <2>1, <2>2, Zenon DEF Quiet, Added, Alive
  <2> QED BY <2>3, ListedQuiet, Zenon
<1>4. ASSUME NEW p \in Procs, \E s \in Searches : CreateCallbacks(p, s)
      PROVE  Listed'
  <2>1. Quiet
    BY <1>4, <1>t, ProcsAssumption, SearchFacts
    DEF Quiet, Added, VoteAfterMain, IdsKnown, KingKnown, Early, Ended, Settled,
        Alive, MonarchAnswers, Forget, CreateCallbacks, Throw, Gone, Goto, At, AfterCallbacks, AreWeTheKing, OwnTarget
  <2> QED BY <2>1, ListedQuiet, Zenon
<1>5. ASSUME NEW p \in Procs, ProposeCommandline(p)
      PROVE  Listed'
  <2>1. /\ main' = [main EXCEPT ![p] = "reply"] /\ main[p] = "propose"
        /\ UNCHANGED <<vote, monarch, id>>
    BY <1>5, Zenon DEF ProposeCommandline, Goto
  <2>2. \A q \in Procs : /\ Added(q)' => Added(q)
                         /\ Alive(q)' = Alive(q)
                         /\ main'[q] \in Settled \cup {"added"} => main[q] = main'[q]
    BY <1>t, <2>1, Zenon DEF Added, Alive, Settled
  <2>3. PICK k : \/ peasants' = peasants
                 \/ /\ ~Alive(peasants[monarch[p]][k])
                    /\ peasants' = [peasants EXCEPT ![monarch[p]] = Forget(@, k)]
    BY <1>5, Zenon DEF ProposeCommandline
  <2>4. \A m \in Procs : \A i \in DOMAIN peasants[m] :
          Alive(peasants[m][i]) => i \in DOMAIN peasants'[m] /\ peasants'[m][i] = peasants[m][i]
    BY <1>t, <2>3 DEF Forget
  <2>5. Quiet
    BY <2>1, <2>2, <2>4, Zenon DEF Quiet
  <2> QED BY <2>5, ListedQuiet, Zenon
<1>6. ASSUME NEW p \in Procs, TakeReply(p)
      PROVE  Listed'
  <2>1. Quiet
    BY <1>6, <1>t, ProcsAssumption, Zenon
    DEF Quiet, Added, VoteAfterMain, IdsKnown, KingKnown, Early, Ended, Settled,
        Alive, MonarchAnswers, Forget, TakeReply, Goto
  <2> QED BY <2>1, ListedQuiet, Zenon
<1>7. ASSUME NEW p \in Procs, ProposeFailed(p)
      PROVE  Listed'
  <2>1. Quiet
    BY <1>7, <1>t, ProcsAssumption
    DEF Quiet, Added, VoteAfterMain, IdsKnown, KingKnown, Early, Ended, Settled,
        Alive, MonarchAnswers, Forget, ProposeFailed, Goto, OwnTarget
  <2> QED BY <2>1, ListedQuiet, Zenon
<1>8. ASSUME NEW p \in Procs, ExitGlommed(p)
      PROVE  Listed'
  <2>1. Quiet
    BY <1>8, <1>t, ProcsAssumption, Zenon
    DEF Quiet, Added, VoteAfterMain, IdsKnown, KingKnown, Early, Ended, Settled,
        Alive, MonarchAnswers, Forget, ExitGlommed, Gone
  <2> QED BY <2>1, ListedQuiet, Zenon
<1>9. ASSUME NEW p \in Procs, AddPeasant(p, "main", "create", "added")
      PROVE  Listed'
  <2>1. /\ main' = [main EXCEPT ![p] = "added"] /\ vote' = vote /\ main[p] = "create"
        /\ monarch' = monarch
    BY <1>9, Zenon DEF AddPeasant, Goto, At
  <2>2. CASE monarch[p] = Own
    <3>1. peasants' = peasants
      BY <1>9, <2>2, Zenon DEF AddPeasant
    <3>2. /\ id' \in [Procs -> Nat] /\ id'[p] # 0
          /\ \A q \in Procs \ {p} : id'[q] = id[q]
          /\ id[p] # 0 => id'[p] = id[p]
      <4>1. CASE id[p] = 0
        BY <1>9, <1>t, <2>2, <4>1 DEF AddPeasant
      <4>2. CASE id[p] # 0
        BY <1>9, <1>t, <2>2, <4>2, Zenon DEF AddPeasant
      <4> QED BY <4>1, <4>2, Zenon
    <3>3. \A q \in Procs : Alive(q)' = Alive(q)
      BY <1>t, <2>1, Zenon DEF Alive
    <3>4. ~Covered(p)'
      BY <2>1, <2>2, ProcsAssumption, Zenon DEF Covered, Added
    <3>5. \A q \in Procs \ {p} : main'[q] = main[q] /\ monarch'[q] = monarch[q]
      BY <1>t, <2>1, Zenon
    <3>6. \A q \in Procs : main'[q] \in Settled \cup {"added"} => id'[q] # 0
      BY <3>2, <3>5, Zenon DEF Listed
    <3>7. ASSUME NEW q \in Procs \ {p}, Covered(q)' PROVE Covered(q)
      BY <2>1, <3>2, <3>3, <3>5, <3>7, <1>t DEF Covered, Added, Listed, Settled
    <3> QED BY <2>1, <3>1, <3>2, <3>4, <3>5, <3>6, <3>7, Zenon DEF Listed
  <2>3. CASE monarch[p] # Own
    <3> DEFINE m == monarch[p]
               a == AssignedId(m, p)
    <3>1. m \in Procs
      BY <1>9, <1>t, <2>3, Zenon DEF AddPeasant, MonarchAnswers
    <3>2. a \in Nat \ {0} /\ (id[p] # 0 => a = id[p])
      BY <3>1, Zenon DEF AssignedId, TypeOK
    <3>3. id' = [id EXCEPT ![p] = a] /\ peasants' = [peasants EXCEPT ![m] = Put(@, a, p)]
      BY <1>9, <2>3, Zenon DEF AddPeasant, Enroll
    <3> HIDE DEF a
    <3>4. /\ \A q \in Procs \ {m} : peasants'[q] = peasants[q]
          /\ DOMAIN peasants'[m] = DOMAIN peasants[m] \cup {a}
          /\ \A i \in DOMAIN peasants'[m] : peasants'[m][i] = IF i = a THEN p ELSE peasants[m][i]
      BY <1>t, <3>1, <3>3, Zenon DEF Put
    <3> QED BY <1>t, <2>1, <3>1, <3>2, <3>3, <3>4
      DEF Listed, Covered, Added, Settled, Alive
  <2> QED BY <2>2, <2>3, Zenon
<1>10. ASSUME NEW p \in Procs, AddPeasant(p, "vote", "electAdd", "electAdded")
      PROVE  Listed'
  BY <1>10, <1>t, ProcsAssumption
  DEF LineOrdered, VoteAfterMain, IdsKnown, KingKnown, Listed, Covered, Added,
         Early, Ended, Settled, Alive, MonarchAnswers, Forget, Put, AddPeasant, Goto, At, Enroll, AssignedId, NextPeasantId
<1>11. ASSUME NEW p \in Procs, AddFailed(p, "main", {"create", "added"}, "readd")
      PROVE  Listed'
  <2>1. Quiet
    BY <1>11, <1>t, ProcsAssumption, Zenon
    DEF Quiet, Added, VoteAfterMain, IdsKnown, KingKnown, Early, Ended, Settled,
        Alive, MonarchAnswers, Forget, AddFailed, Goto, At
  <2> QED BY <2>1, ListedQuiet, Zenon
<1>12. ASSUME NEW p \in Procs, AddFailed(p, "vote", {"electAdd", "electAdded"}, "elect")
      PROVE  Listed'
  <2>1. Quiet
    BY <1>12, <1>t, ProcsAssumption, Zenon
    DEF Quiet, Added, VoteAfterMain, IdsKnown, KingKnown, Early, Ended, Settled,
        Alive, MonarchAnswers, Forget, AddFailed, Goto, At
  <2> QED BY <2>1, ListedQuiet, Zenon
<1>13. ASSUME NEW p \in Procs, CreatePeasantThread(p)
      PROVE  Listed'
  <2>1. Quiet
    BY <1>13, <1>t, ProcsAssumption, Zenon
    DEF Quiet, Added, VoteAfterMain, IdsKnown, KingKnown, Early, Ended, Settled,
        Alive, MonarchAnswers, Forget, CreatePeasantThread
  <2> QED BY <2>1, ListedQuiet, Zenon
<1>14. ASSUME NEW p \in Procs, StashCommandline(p)
      PROVE  Listed'
  <2>1. Quiet
    BY <1>14, <1>t, ProcsAssumption, Zenon
    DEF Quiet, Added, VoteAfterMain, IdsKnown, KingKnown, Early, Ended, Settled,
        Alive, MonarchAnswers, Forget, StashCommandline, ExecuteCommandline, Goto
  <2> QED BY <2>1, ListedQuiet, Zenon
<1>15. ASSUME NEW p \in Procs, Startup(p)
      PROVE  Listed'
  <2>1. Quiet
    BY <1>15, <1>t, ProcsAssumption, Zenon
    DEF Quiet, Added, VoteAfterMain, IdsKnown, KingKnown, Early, Ended, Settled,
        Alive, MonarchAnswers, Forget, Startup, Goto
  <2> QED BY <2>1, ListedQuiet, Zenon
<1>16. ASSUME NEW p \in Procs, OpenMonarch(p)
      PROVE  Listed'
  <2>1. Quiet
    BY <1>16, <1>t, ProcsAssumption, Zenon
    DEF Quiet, Added, VoteAfterMain, IdsKnown, KingKnown, Early, Ended, Settled,
        Alive, MonarchAnswers, Forget, OpenMonarch, Goto
  <2> QED BY <2>1, ListedQuiet, Zenon
<1>17. ASSUME NEW p \in Procs, MonarchDied(p)
      PROVE  Listed'
  <2>1. Quiet
    BY <1>17, <1>t, ProcsAssumption, Zenon
    DEF Quiet, Added, VoteAfterMain, IdsKnown, KingKnown, Early, Ended, Settled,
        Alive, MonarchAnswers, Forget, MonarchDied, Goto
  <2> QED BY <2>1, ListedQuiet, Zenon
<1>18. ASSUME NEW p \in Procs, WaitInterrupted(p)
      PROVE  Listed'
  <2>1. Quiet
    BY <1>18, <1>t, ProcsAssumption, Zenon
    DEF Quiet, Added, VoteAfterMain, IdsKnown, KingKnown, Early, Ended, Settled,
        Alive, MonarchAnswers, Forget, WaitInterrupted, Goto
  <2> QED BY <2>1, ListedQuiet, Zenon
<1>19. ASSUME NEW p \in Procs, ElectionDone(p)
      PROVE  Listed'
  <2>1. Quiet
    BY <1>19, <1>t, ProcsAssumption, Zenon
    DEF Quiet, Added, VoteAfterMain, IdsKnown, KingKnown, Early, Ended, Settled,
        Alive, MonarchAnswers, Forget, ElectionDone, Goto
  <2> QED BY <2>1, ListedQuiet, Zenon
<1>20. ASSUME NEW p \in Procs, CloseWindow(p)
      PROVE  Listed'
  BY <1>20, <1>t, ProcsAssumption
  DEF LineOrdered, VoteAfterMain, IdsKnown, KingKnown, Listed, Covered, Added,
         Early, Ended, Settled, Alive, MonarchAnswers, Forget, Put, CloseWindow, SignalClose, Goto
<1>21. ASSUME NEW p \in Procs, Destroy(p)
      PROVE  Listed'
  BY <1>21, <1>t, ProcsAssumption
  DEF LineOrdered, VoteAfterMain, IdsKnown, KingKnown, Listed, Covered, Added,
         Early, Ended, Settled, Alive, MonarchAnswers, Forget, Put, Destroy, SignalClose, Goto
<1>22. ASSUME NEW p \in Procs, Join(p)
      PROVE  Listed'
  <2>1. Quiet
    BY <1>22, <1>t, ProcsAssumption, Zenon
    DEF Quiet, Added, VoteAfterMain, IdsKnown, KingKnown, Early, Ended, Settled,
        Alive, MonarchAnswers, Forget, Join, Gone
  <2> QED BY <2>1, ListedQuiet, Zenon
<1>23. ASSUME NEW p \in Procs, Kill(p)
      PROVE  Listed'
  <2>1. Quiet
    BY <1>23, <1>t, ProcsAssumption, Zenon
    DEF Quiet, Added, VoteAfterMain, IdsKnown, KingKnown, Early, Ended, Settled,
        Alive, MonarchAnswers, Forget, Kill, Gone
  <2> QED BY <2>1, ListedQuiet, Zenon
<1>24. CASE UNCHANGED vars
  BY <1>24
  DEF LineOrdered, VoteAfterMain, IdsKnown, KingKnown, Listed, Covered, Added,
         Early, Ended, Settled, Alive, MonarchAnswers, Forget, Put, vars
<1> QED
  BY <1>1, <1>2, <1>3, <1>4, <1>5, <1>6, <1>7, <1>8, <1>9, <1>10, <1>11,
     <1>12, <1>13, <1>14, <1>15, <1>16, <1>17, <1>18, <1>19, <1>20, <1>21, <1>22, <1>23, <1>24, Zenon
  DEF Next, MainStep, VoteStep, Environment

-----------------------------------------------------------------------------
\* The numbers that the bounds are made of.
LEMMA Sizes ==
  ASSUME IsFiniteSet(Dead), NEW x \in Procs
  PROVE  /\ Cardinality(Dead) \in Nat /\ Cardinality(Lost(x)) \in Nat
         /\ Cardinality(Lost(x)) <= Cardinality(Dead)
         /\ monarch[x] \in Dead => Cardinality(Dead) = 1 + Cardinality(Lost(x))
         /\ monarch[x] \notin Dead => Cardinality(Lost(x)) = Cardinality(Dead)
<1>1. Cardinality(Dead) \in Nat
  BY FS_CardinalityType, Zenon
<1>2. /\ IsFiniteSet(Lost(x))
      /\ Cardinality(Lost(x)) = IF monarch[x] \in Dead THEN Cardinality(Dead) - 1
                                                       ELSE Cardinality(Dead)
  BY FS_RemoveElement, Zenon DEF Lost
<1>3. Cardinality(Lost(x)) \in Nat
  BY <1>2, FS_CardinalityType, Zenon
<1> QED BY <1>1, <1>2, <1>3

\* No bound is above one run more than processes have ended.
LEMMA BoundRange ==
  ASSUME IsFiniteSet(Dead), NEW x \in Procs
  PROVE  /\ Cardinality(Dead) \in Nat
         /\ Bound(x) \in Nat /\ Bound(x) <= 1 + Cardinality(Dead)
BY Sizes DEF Bound

\* The bound of a process that does not move stays or grows with the dead.
LEMMA BoundKept ==
  ASSUME IsFiniteSet(Dead), IsFiniteSet(Dead)', Dead \subseteq Dead', NEW x \in Procs,
         main'[x] = main[x], monarch'[x] = monarch[x], reply'[x] = reply[x]
  PROVE  /\ Bound(x) \in Nat /\ Bound(x)' \in Nat
         /\ Bound(x) <= Bound(x)'
<1>1. Lost(x) \subseteq Lost(x)'
  BY Zenon DEF Lost
<1>2. IsFiniteSet(Lost(x))'
  BY FS_RemoveElement, Zenon DEF Lost
<1>3. /\ Cardinality(Dead) <= Cardinality(Dead')
      /\ Cardinality(Lost(x)) <= Cardinality(Lost(x)')
  BY <1>1, <1>2, FS_Subset, Zenon
<1>4. /\ Cardinality(Dead) \in Nat /\ Cardinality(Lost(x)) \in Nat
      /\ Cardinality(Dead)' \in Nat /\ Cardinality(Lost(x))' \in Nat
  BY <1>2, FS_CardinalityType, Sizes, Zenon
<1> QED BY <1>3, <1>4 DEF Bound

\* The bound of a process that moves without ending stays or grows as well.
Raised(p) ==
  \/ /\ main[p] \notin Asking /\ main'[p] \notin Asking
     /\ main'[p] \in Before => main[p] \in Before
  \/ /\ main[p] \in Before /\ main'[p] \in Asking \ {"reply"}
     /\ monarch'[p] \notin Dead
  \/ /\ main[p] \in Asking \ {"reply"}
     /\ \/ main'[p] \in Before
        \/ /\ main'[p] \in Asking /\ monarch'[p] = monarch[p]
           /\ main'[p] = "reply" => reply'[p] # Glom
  \/ /\ main[p] = "reply"
     /\ \/ main'[p] = "glommed"
        \/ main'[p] \in Before /\ (reply[p] # Glom \/ monarch[p] \in Dead)

LEMMA BoundRaised ==
  ASSUME IsFiniteSet(Dead), Dead' = Dead, NEW p \in Procs, Raised(p)
  PROVE  /\ Bound(p) \in Nat /\ Bound(p)' \in Nat
         /\ Bound(p) <= Bound(p)'
<1>1. /\ Cardinality(Dead) \in Nat /\ Cardinality(Lost(p)) \in Nat
      /\ Cardinality(Lost(p)) <= Cardinality(Dead)
      /\ monarch[p] \in Dead => Cardinality(Dead) = 1 + Cardinality(Lost(p))
  BY Sizes, Zenon
<1>2. /\ monarch'[p] = monarch[p] => Cardinality(Lost(p))' = Cardinality(Lost(p))
      /\ monarch'[p] \notin Dead => Cardinality(Lost(p))' = Cardinality(Dead)
  <2>1. monarch'[p] = monarch[p] => Lost(p)' = Lost(p)
    BY Zenon DEF Lost
  <2>2. monarch'[p] \notin Dead => Lost(p)' = Dead
    BY Zenon DEF Lost
  <2> QED BY <2>1, <2>2, Zenon
<1>3. Cardinality(Dead)' = Cardinality(Dead)
  BY Zenon
<1> QED BY <1>1, <1>2, <1>3 DEF Raised, Bound, Asking, Before

\* A step of p that ends no process and runs and stashes no commandline.
Silent(p) ==
  /\ UNCHANGED <<initial, ran>>
  /\ \A q \in Procs \ {p} : /\ main'[q] = main[q] /\ monarch'[q] = monarch[q]
                            /\ reply'[q] = reply[q]
  /\ main[p] \notin {"dead", "crashed"} /\ main'[p] \notin {"dead", "crashed"}
  /\ main'[p] \in Opened <=> main[p] \in Opened
  /\ main'[p] = "startup" => main[p] \in Opened \cup {"startup"}
  /\ main'[p] \in {"propose", "reply"} => monarch'[p] \in Procs
  /\ Raised(p)

\* How often a commandline was run is a number.
LEMMA SpentNumber ==
  ASSUME TypeOK, Counted, NEW x \in Procs
  PROVE  ran[x] \in Nat /\ Cardinality(Waiting(x)) \in Nat /\ Spent(x) \in Nat
<1>1. ran[x] \in Nat /\ IsFiniteSet(Waiting(x))
  BY Zenon DEF TypeOK, Counted
<1>2. Cardinality(Waiting(x)) \in Nat
  BY <1>1, FS_CardinalityType, Zenon
<1> QED BY <1>1, <1>2 DEF Spent

LEMMA SilentCounted ==
  ASSUME TypeOK, Counted, NEW p \in Procs, Silent(p)
  PROVE  Counted'
<1>1. Dead' = Dead /\ IsFiniteSet(Dead)
  BY Zenon DEF Silent, Dead, Counted
<1>2. \A x \in Procs : Waiting(x)' = Waiting(x)
  BY Zenon DEF Silent, Waiting
<1>3. ASSUME NEW x \in Procs PROVE Spent(x)' <= Bound(x)'
  <2>1. Spent(x)' = Spent(x)
    BY <1>2, Zenon DEF Spent, Silent
  <2>2. Bound(x) \in Nat /\ Bound(x)' \in Nat /\ Bound(x) <= Bound(x)'
    <3>1. CASE x = p
      BY <1>1, <3>1, BoundRaised, Zenon DEF Silent
    <3>2. CASE x # p
      BY <1>1, <3>2, BoundKept, Zenon DEF Silent
    <3> QED BY <3>1, <3>2, Zenon
  <2>3. Spent(x) \in Nat /\ Spent(x) <= Bound(x)
    BY SpentNumber, Zenon DEF Counted
  <2> QED BY <2>1, <2>2, <2>3
<1>4. \A w \in Procs : main'[w] \in Opened \cup {"startup"} => initial'[w] # None
  BY Zenon DEF Counted, Silent
<1>5. \A x \in Procs : main'[x] \in {"propose", "reply"} => monarch'[x] \in Procs
  BY Zenon DEF Counted, Silent
<1>6. IsFiniteSet(Dead)' /\ \A x \in Procs : IsFiniteSet(Waiting(x))'
  BY <1>1, <1>2, Zenon DEF Counted
<1> QED BY <1>3, <1>4, <1>5, <1>6, Zenon DEF Counted

\* A process that ends is one more dead, and runs nothing that it has stashed.
LEMMA GoneCounted ==
  ASSUME TypeOK, Counted, NEW p \in Procs, NEW how \in {"dead", "crashed"},
         Gone(p, how), UNCHANGED ran
  PROVE  Counted'
<1>t. /\ DOMAIN main = Procs /\ DOMAIN monarch = Procs /\ DOMAIN reply = Procs
      /\ DOMAIN initial = Procs
  BY Zenon DEF TypeOK
<1>1. /\ main' = [main EXCEPT ![p] = how] /\ monarch' = [monarch EXCEPT ![p] = None]
      /\ reply' = [reply EXCEPT ![p] = 0] /\ initial' = [initial EXCEPT ![p] = None]
  BY Zenon DEF Gone
<1>2. Dead' = Dead \cup {p} /\ Dead \subseteq Dead' /\ IsFiniteSet(Dead)
  BY <1>t, <1>1, Zenon DEF Dead, Counted
<1>3. IsFiniteSet(Dead)'
  BY <1>2, FS_AddElement, Zenon
<1>4. ASSUME NEW x \in Procs
      PROVE  /\ IsFiniteSet(Waiting(x))'
             /\ Cardinality(Waiting(x))' <= Cardinality(Waiting(x))
  <2>1. Waiting(x)' \in SUBSET Waiting(x)
    BY <1>t, <1>1, ProcsAssumption, Zenon DEF Waiting
  <2> QED BY <2>1, FS_Subset, Zenon DEF Counted
<1>5. ASSUME NEW x \in Procs PROVE Spent(x)' <= Bound(x)'
  <2>1. /\ Spent(x) \in Nat /\ Spent(x) <= Bound(x) /\ ran[x] \in Nat
        /\ Cardinality(Waiting(x)) \in Nat /\ ran'[x] = ran[x]
    BY SpentNumber, Zenon DEF Counted
  <2>2. Cardinality(Waiting(x))' \in Nat
    BY <1>4, FS_CardinalityType, Zenon
  <2>3. Spent(x)' <= Spent(x) /\ Spent(x)' \in Nat
    BY <1>4, <2>1, <2>2 DEF Spent
  <2>4. Bound(x) \in Nat /\ Bound(x)' \in Nat /\ Bound(x) <= Bound(x)'
    <3>1. CASE x # p
      <4>1. main'[x] = main[x] /\ monarch'[x] = monarch[x] /\ reply'[x] = reply[x]
        BY <1>t, <1>1, <3>1, Zenon
      <4> QED BY <1>2, <1>3, <4>1, BoundKept, Zenon
    <3>2. CASE x = p
      <4>1. Bound(x)' = 1 + Cardinality(Dead)'
        BY <1>t, <1>1, <3>2, Zenon DEF Bound, Asking, Before
      <4>2. Cardinality(Dead)' \in Nat /\ Cardinality(Dead) <= Cardinality(Dead')
        BY <1>2, <1>3, FS_CardinalityType, FS_Subset, Zenon
      <4> QED BY <1>2, <4>1, <4>2, BoundRange
    <3> QED BY <3>1, <3>2, Zenon
  <2> QED BY <2>1, <2>3, <2>4
<1>6. \A w \in Procs : main'[w] \in Opened \cup {"startup"} => initial'[w] # None
  BY <1>t, <1>1, Zenon DEF Counted, Opened
<1>7. \A x \in Procs : main'[x] \in {"propose", "reply"} => monarch'[x] \in Procs
  BY <1>t, <1>1, Zenon DEF Counted
<1> QED BY <1>3, <1>4, <1>5, <1>6, <1>7, Zenon DEF Counted

\* Peasant::ExecuteCommandline uses one of the runs that x may still have.
LEMMA ExecuteSpends ==
  ASSUME TypeOK, Counted, NEW w \in Procs, NEW x \in Procs, NEW p \in Procs,
         ExecuteCommandline(w, x), UNCHANGED <<monarch>>,
         main[p] \notin Opened, main'[p] \notin Opened,
         \A q \in Procs \ {p} : main'[q] = main[q]
  PROVE  /\ \A y \in Procs : IsFiniteSet(Waiting(y))'
         /\ \A y \in Procs \ {x} : Spent(y)' = Spent(y)
         /\ Spent(x)' \in Nat /\ Spent(x)' <= 1 + Spent(x)
         /\ initial'[w] # None
         /\ \A q \in Procs : initial[q] # None => initial'[q] # None
<1>t. DOMAIN initial = Procs /\ ran \in [Procs -> Nat]
      /\ initial \in [Procs -> Procs \cup {None}]
  BY Zenon DEF TypeOK
<1>0. /\ \A y \in Procs : IsFiniteSet(Waiting(y)) /\ Cardinality(Waiting(y)) \in Nat
      /\ ran[x] \in Nat
  BY SpentNumber, Zenon DEF Counted
<1>m. \A q \in Procs : main'[q] \in Opened <=> main[q] \in Opened
  BY Zenon
<1>1. CASE initial[w] = None
  <2>1. main[w] \notin Opened /\ ~Listening(w)
    BY <1>1, Zenon DEF Counted, Listening, Opened
  <2>2. initial' = [initial EXCEPT ![w] = x] /\ ran' = ran
    BY <1>1, <2>1, Zenon DEF ExecuteCommandline
  <2>3. Waiting(x)' = Waiting(x) \cup {w} /\ w \notin Waiting(x)
    BY <1>t, <1>1, <1>m, <2>1, <2>2, ProcsAssumption, Zenon DEF Waiting
  <2>4. \A y \in Procs \ {x} : Waiting(y)' = Waiting(y)
    BY <1>t, <1>1, <1>m, <2>1, <2>2, ProcsAssumption, Zenon DEF Waiting
  <2>5. /\ IsFiniteSet(Waiting(x))'
        /\ Cardinality(Waiting(x))' = Cardinality(Waiting(x)) + 1
    <3>1. /\ IsFiniteSet(Waiting(x) \cup {w})
          /\ Cardinality(Waiting(x) \cup {w})
               = IF w \in Waiting(x) THEN Cardinality(Waiting(x)) ELSE Cardinality(Waiting(x)) + 1
      BY <1>0, FS_AddElement, Zenon
    <3> QED BY <2>3, <3>1, Zenon
  <2>6. Spent(x)' \in Nat /\ Spent(x)' <= 1 + Spent(x)
    BY <1>0, <2>2, <2>5 DEF Spent
  <2>7. \A y \in Procs \ {x} : Spent(y)' = Spent(y)
    BY <2>2, <2>4, Zenon DEF Spent
  <2>8. /\ initial'[w] # None
        /\ \A q \in Procs : initial[q] # None => initial'[q] # None
    BY <1>t, <2>2, ProcsAssumption, Zenon
  <2> QED BY <1>0, <2>4, <2>5, <2>6, <2>7, <2>8, Zenon
<1>2. CASE initial[w] # None
  <2>1. initial' = initial
    BY <1>2, Zenon DEF ExecuteCommandline
  <2>2. \A y \in Procs : Waiting(y)' = Waiting(y)
    BY <1>m, <2>1, Zenon DEF Waiting
  <2>3. ran' = ran \/ ran' = [ran EXCEPT ![x] = @ + 1]
    BY Zenon DEF ExecuteCommandline
  <2>4. /\ ran'[x] \in Nat /\ ran'[x] <= 1 + ran[x]
        /\ \A y \in Procs \ {x} : ran'[y] = ran[y]
    BY <1>t, <2>3
  <2>5. Spent(x)' \in Nat /\ Spent(x)' <= 1 + Spent(x)
    BY <1>0, <2>2, <2>4 DEF Spent
  <2>6. \A y \in Procs \ {x} : Spent(y)' = Spent(y)
    BY <2>2, <2>4, Zenon DEF Spent
  <2> QED BY <1>0, <1>2, <2>1, <2>2, <2>5, <2>6, Zenon
<1> QED BY <1>1, <1>2, Zenon

\* The initial states.
LEMMA InitCounted ==
  ASSUME Init, TypeOK
  PROVE  Counted
<1>1. Dead = {}
  BY Zenon DEF Init, Dead
<1>2. \A x \in Procs : Waiting(x) = {}
  BY ProcsAssumption, Zenon DEF Init, Waiting
<1>3. ASSUME NEW x \in Procs PROVE Spent(x) <= Bound(x)
  <2>1. Spent(x) = 0
    BY <1>2, FS_EmptySet DEF Spent, Init
  <2> QED BY <1>1, <2>1, FS_EmptySet, BoundRange
<1>4. /\ \A w \in Procs : main[w] \notin Opened \cup {"startup"}
      /\ \A x \in Procs : main[x] \notin {"propose", "reply"}
  BY Zenon DEF Init, Opened
<1> QED BY <1>1, <1>2, <1>3, <1>4, FS_EmptySet, Zenon DEF Counted

\* A commandline is run at most once more than processes have ended.
LEMMA CountedStep ==
  ASSUME TypeOK, LineOrdered, VoteAfterMain, KingKnown, Counted,
         Next \/ UNCHANGED vars
  PROVE  Counted'
<1>t. /\ DOMAIN main = Procs /\ DOMAIN reply = Procs /\ DOMAIN vote = Procs
      /\ DOMAIN monarch = Procs /\ DOMAIN initial = Procs
      /\ DOMAIN peasants = Procs
  BY Zenon DEF TypeOK
<1> USE DEF comVars, courtVars, cmdVars, managerVars
<1>1. ASSUME NEW p \in Procs, Start(p)
      PROVE  Counted'
  <2>1. Silent(p)
    BY <1>1, <1>t, Zenon DEF Silent, Raised, Opened, Asking, Before, Start, Goto
  <2> QED BY <2>1, SilentCounted, Zenon
<1>2. ASSUME NEW p \in Procs, NEW s \in Searches, CreateMonarch(p, s)
      PROVE  Counted'
  <2>1. CASE InLine = {} /\ s.failed = "crashed" /\ Throw(p, s.t, s.failed)
    BY <2>1, GoneCounted, Zenon DEF Throw
  <2>2. CASE InLine = {} /\ s.failed # "crashed" /\ Throw(p, s.t, s.failed)
    <3>1. /\ Goto(p, s.t, s.failed) /\ At(p, s.t) = s.at
          /\ UNCHANGED <<initial, ran, monarch, reply>>
      BY <1>2, <2>2, Zenon DEF Throw, CreateMonarch
    <3>2. CASE s.t = "main"
      <4>1. Silent(p)
        BY <1>t, <2>2, <3>1, <3>2, SearchFacts, Zenon
        DEF Silent, Raised, Opened, Asking, Before, Goto, At
      <4> QED BY <4>1, SilentCounted, Zenon
    <3>3. CASE s.t = "vote"
      <4>1. main' = main /\ main[p] \in Settled
        BY <3>1, <3>3, SearchFacts, Zenon DEF Goto, At, VoteAfterMain
      <4>2. Silent(p)
        BY <1>t, <3>1, <4>1, Zenon
        DEF Silent, Raised, Opened, Asking, Before, Settled
      <4> QED BY <4>2, SilentCounted, Zenon
    <3> QED BY <3>2, <3>3, SearchFacts, Zenon
  <2>3. CASE \E q \in Procs : /\ FirstInLine(q)
                              /\ monarch' = [monarch EXCEPT ![p] = q]
                              /\ Goto(p, s.t, s.found)
                              /\ UNCHANGED <<cmdVars, reply>>
    <3>1. PICK q \in Procs : /\ FirstInLine(q)
                             /\ monarch' = [monarch EXCEPT ![p] = q]
                             /\ Goto(p, s.t, s.found)
                             /\ UNCHANGED <<cmdVars, reply>>
      BY <2>3, Zenon
    <3>2. At(p, s.t) = s.at /\ q \notin Dead
      BY <1>2, <3>1, Zenon DEF CreateMonarch, FirstInLine, LineOrdered, Alive, Dead
    <3>3. CASE s.t = "main"
      <4>1. Silent(p)
        BY <1>t, <3>1, <3>2, <3>3, SearchFacts, Zenon
        DEF Silent, Raised, Opened, Asking, Before, Goto, At
      <4> QED BY <4>1, SilentCounted, Zenon
    <3>4. CASE s.t = "vote"
      <4>1. main' = main /\ main[p] \in Settled
        BY <3>1, <3>2, <3>4, SearchFacts, Zenon DEF Goto, At, VoteAfterMain
      <4>2. Silent(p)
        BY <1>t, <3>1, <4>1, Zenon
        DEF Silent, Raised, Opened, Asking, Before, Settled
      <4> QED BY <4>2, SilentCounted, Zenon
    <3> QED BY <3>3, <3>4, SearchFacts, Zenon
  <2> QED BY <1>2, <2>1, <2>2, <2>3, Zenon DEF CreateMonarch
<1>3. ASSUME NEW p \in Procs, NEW s \in Searches, CreateNullMonarch(p, s)
      PROVE  Counted'
  <2>1. CASE ~IsolatedMode
    BY <1>3, <2>1, GoneCounted, Zenon DEF CreateNullMonarch
  <2>2. CASE IsolatedMode
    <3>1. /\ At(p, s.t) = s.at /\ Goto(p, s.t, s.found)
          /\ monarch' = [monarch EXCEPT ![p] = Own] /\ UNCHANGED <<initial, ran, reply>>
      BY <1>3, <2>2, Zenon DEF CreateNullMonarch
    <3>2. Own \notin Dead
      BY ProcsAssumption, Zenon DEF Dead
    <3>3. CASE s.t = "main"
      <4>1. Silent(p)
        BY <1>t, <3>1, <3>2, <3>3, SearchFacts, Zenon
        DEF Silent, Raised, Opened, Asking, Before, Goto, At
      <4> QED BY <4>1, SilentCounted, Zenon
    <3>4. CASE s.t = "vote"
      <4>1. main' = main /\ main[p] \in Settled
        BY <3>1, <3>4, SearchFacts, Zenon DEF Goto, At, VoteAfterMain
      <4>2. Silent(p)
        BY <1>t, <3>1, <4>1, Zenon
        DEF Silent, Raised, Opened, Asking, Before, Settled
      <4> QED BY <4>2, SilentCounted, Zenon
    <3> QED BY <3>3, <3>4, SearchFacts, Zenon
  <2> QED BY <2>1, <2>2, Zenon
<1>4. ASSUME NEW p \in Procs, NEW s \in Searches, CreateCallbacks(p, s)
      PROVE  Counted'
  <2>1. CASE ~MonarchAnswers(p) /\ s.failed = "crashed"
    BY <1>4, <2>1, GoneCounted, Zenon DEF CreateCallbacks, Throw
  <2>2. CASE ~MonarchAnswers(p) /\ s.failed # "crashed"
    <3>1. /\ Goto(p, s.t, s.failed) /\ At(p, s.t) = s.found
          /\ UNCHANGED <<initial, ran, monarch, reply>>
      BY <1>4, <2>2, Zenon DEF CreateCallbacks, Throw
    <3>2. CASE s.t = "main"
      <4>1. Silent(p)
        BY <1>t, <2>2, <3>1, <3>2, SearchFacts, Zenon
        DEF Silent, Raised, Opened, Asking, Before, Goto, At
      <4> QED BY <4>1, SilentCounted, Zenon
    <3>3. CASE s.t = "vote"
      <4>1. main' = main /\ main[p] \in Settled
        BY <3>1, <3>3, SearchFacts, Zenon DEF Goto, At, VoteAfterMain
      <4>2. Silent(p)
        BY <1>t, <3>1, <4>1, Zenon
        DEF Silent, Raised, Opened, Asking, Before, Settled
      <4> QED BY <4>2, SilentCounted, Zenon
    <3> QED BY <3>2, <3>3, SearchFacts, Zenon
  <2>3. CASE MonarchAnswers(p)
    <3>1. /\ Goto(p, s.t, AfterCallbacks(s, AreWeTheKing(p))) /\ At(p, s.t) = s.found
          /\ UNCHANGED <<initial, ran, monarch, reply>>
      BY <1>4, <2>3, Zenon DEF CreateCallbacks
    <3>2. CASE s.t = "main"
      <4>1. /\ main[p] \in {"ctorCallbacks", "reproposeCallbacks", "readdCallbacks"}
            /\ main' = [main EXCEPT ![p] = AfterCallbacks(s, AreWeTheKing(p))]
            /\ \/ AfterCallbacks(s, AreWeTheKing(p)) = "create"
               \/ /\ AfterCallbacks(s, AreWeTheKing(p)) = "propose"
                  /\ ~AreWeTheKing(p)
                  /\ main[p] # "readdCallbacks"
        BY <3>1, <3>2, SearchFacts, Zenon DEF Goto, At, AfterCallbacks
      <4>2. ~AreWeTheKing(p) => monarch[p] \in Procs
        BY <2>3, Zenon DEF AreWeTheKing, MonarchAnswers
      <4>3. Silent(p)
        BY <1>t, <3>1, <4>1, <4>2, Zenon
        DEF Silent, Raised, Opened, Asking, Before
      <4> QED BY <4>3, SilentCounted, Zenon
    <3>3. CASE s.t = "vote"
      <4>1. main' = main /\ main[p] \in Settled
        BY <3>1, <3>3, SearchFacts, Zenon DEF Goto, At, VoteAfterMain
      <4>2. Silent(p)
        BY <1>t, <3>1, <4>1, Zenon
        DEF Silent, Raised, Opened, Asking, Before, Settled
      <4> QED BY <4>2, SilentCounted, Zenon
    <3> QED BY <3>2, <3>3, SearchFacts, Zenon
  <2> QED BY <2>1, <2>2, <2>3, Zenon
<1>5. ASSUME NEW p \in Procs, ProposeCommandline(p)
      PROVE  Counted'
  <2>1. /\ main[p] = "propose" /\ main' = [main EXCEPT ![p] = "reply"]
        /\ monarch[p] \in Procs /\ UNCHANGED monarch
    BY <1>5, Zenon DEF ProposeCommandline, Goto
  <2>2. PICK k \in ResolveTarget(monarch[p], p) :
          \/ /\ k \in DOMAIN peasants[monarch[p]] /\ Alive(peasants[monarch[p]][k])
             /\ ExecuteCommandline(peasants[monarch[p]][k], p)
             /\ reply' = [reply EXCEPT ![p] = Glom]
          \/ /\ reply' = [reply EXCEPT ![p] = k] /\ UNCHANGED cmdVars
          \/ /\ reply' = [reply EXCEPT ![p] = 0] /\ UNCHANGED cmdVars
    BY <1>5, Zenon DEF ProposeCommandline
  <2>3. CASE UNCHANGED cmdVars /\ \/ reply' = [reply EXCEPT ![p] = k]
                                  \/ reply' = [reply EXCEPT ![p] = 0]
    <3>1. IsTable(peasants[monarch[p]]) /\ want[p] \in Ids \cup {NewWindow, AnyWindow}
      BY <2>1, Zenon DEF TypeOK
    <3>2. k \in Nat
      BY <3>1, TargetsAssumption DEF ResolveTarget, IsTable
    <3>3. reply'[p] # Glom /\ \A q \in Procs \ {p} : reply'[q] = reply[q]
      BY <1>t, <2>3, <3>2, TargetsAssumption, Zenon
    <3>4. Silent(p)
      BY <1>t, <2>1, <2>3, <3>3, Zenon DEF Silent, Raised, Opened, Asking, Before
    <3> QED BY <3>4, SilentCounted, Zenon
  <2>4. CASE /\ k \in DOMAIN peasants[monarch[p]] /\ Alive(peasants[monarch[p]][k])
             /\ ExecuteCommandline(peasants[monarch[p]][k], p)
             /\ reply' = [reply EXCEPT ![p] = Glom]
    <3> DEFINE w == peasants[monarch[p]][k]
    <3>1. w \in Procs
      BY <2>1, <2>4, Zenon DEF TypeOK, IsTable
    <3>2. /\ main[p] \notin Opened /\ main'[p] \notin Opened
          /\ \A q \in Procs \ {p} : main'[q] = main[q] /\ reply'[q] = reply[q]
          /\ reply'[p] = Glom /\ main'[p] = "reply"
      BY <1>t, <2>1, <2>4, Zenon DEF Opened
    <3>3. /\ \A y \in Procs : IsFiniteSet(Waiting(y))'
          /\ \A y \in Procs \ {p} : Spent(y)' = Spent(y)
          /\ Spent(p)' \in Nat /\ Spent(p)' <= 1 + Spent(p)
          /\ \A q \in Procs : initial[q] # None => initial'[q] # None
      BY <2>1, <2>4, <3>1, <3>2, ExecuteSpends, Zenon
    <3>4. Dead' = Dead /\ IsFiniteSet(Dead)
      BY <2>1, <3>2, Zenon DEF Dead, Counted
    <3>5. ASSUME NEW x \in Procs PROVE Spent(x)' <= Bound(x)'
      <4>1. Spent(x) \in Nat /\ Spent(x) <= Bound(x)
        BY SpentNumber, Zenon DEF Counted
      <4>2. CASE x # p
        <5>1. Bound(x) \in Nat /\ Bound(x)' \in Nat /\ Bound(x) <= Bound(x)'
          BY <2>1, <3>2, <3>4, <4>2, BoundKept, Zenon
        <5> QED BY <3>3, <4>1, <4>2, <5>1
      <4>3. CASE x = p
        <5>1. Bound(p) = Cardinality(Lost(p)) /\ Bound(p)' = 1 + Cardinality(Lost(p))'
          BY <2>1, <3>2, Zenon DEF Bound, Asking, Before
        <5>2. Cardinality(Lost(p))' = Cardinality(Lost(p)) /\ Cardinality(Lost(p)) \in Nat
          BY <2>1, <3>4, Sizes, Zenon DEF Lost
        <5> QED BY <3>3, <4>1, <4>3, <5>1, <5>2
      <4> QED BY <4>2, <4>3, Zenon
    <3>6. \A q \in Procs : main'[q] \in Opened \cup {"startup"} => initial'[q] # None
      BY <2>1, <3>2, <3>3, Zenon DEF Counted, Opened
    <3>7. \A x \in Procs : main'[x] \in {"propose", "reply"} => monarch'[x] \in Procs
      BY <2>1, <3>2, Zenon DEF Counted
    <3> QED BY <3>3, <3>4, <3>5, <3>6, <3>7, Zenon DEF Counted
  <2> QED BY <2>2, <2>3, <2>4, Zenon
<1>6. ASSUME NEW p \in Procs, TakeReply(p)
      PROVE  Counted'
  <2>1. Silent(p)
    BY <1>6, <1>t, Zenon DEF Silent, Raised, Opened, Asking, Before, TakeReply, Goto
  <2> QED BY <2>1, SilentCounted, Zenon
<1>7. ASSUME NEW p \in Procs, ProposeFailed(p)
      PROVE  Counted'
  <2>1. monarch[p] \in Dead
    BY <1>7, Zenon DEF ProposeFailed, Counted, KingKnown, Alive, Dead
  <2>2. /\ main[p] \in {"propose", "reply"} /\ UNCHANGED <<initial, ran>>
        /\ reply' = [reply EXCEPT ![p] = 0]
        /\ monarch' = monarch \/ monarch' = [monarch EXCEPT ![p] = Own]
        /\ \/ main' = [main EXCEPT ![p] = "create"]
           \/ main' = [main EXCEPT ![p] = "repropose"]
    BY <1>7, Zenon DEF ProposeFailed, Goto
  <2>3. Silent(p)
    BY <1>t, <2>1, <2>2, Zenon DEF Silent, Raised, Opened, Asking, Before
  <2> QED BY <2>3, SilentCounted, Zenon
<1>8. ASSUME NEW p \in Procs, ExitGlommed(p) \/ Join(p) \/ Kill(p)
      PROVE  Counted'
  BY <1>8, GoneCounted, Zenon DEF ExitGlommed, Join, Kill
<1>9. ASSUME NEW p \in Procs, \/ AddPeasant(p, "main", "create", "added")
                              \/ AddFailed(p, "main", {"create", "added"}, "readd")
                              \/ CreatePeasantThread(p)
                              \/ CloseWindow(p) \/ Destroy(p)
      PROVE  Counted'
  <2>1. /\ \E loc : /\ main' = [main EXCEPT ![p] = loc]
                    /\ \/ main[p] \in {"create", "added"} /\ loc \in {"added", "readd", "stash"}
                       \/ main[p] \in {"window", "closing"} /\ loc \in {"closing", "joining"}
        /\ UNCHANGED <<initial, ran, monarch, reply>>
    BY <1>9, Zenon
    DEF AddPeasant, AddFailed, CreatePeasantThread, CloseWindow, Destroy, Goto, At
  <2>2. Silent(p)
    BY <1>t, <2>1, Zenon DEF Silent, Raised, Opened, Asking, Before
  <2> QED BY <2>2, SilentCounted, Zenon
<1>10. ASSUME NEW p \in Procs, \/ AddPeasant(p, "vote", "electAdd", "electAdded")
                               \/ AddFailed(p, "vote", {"electAdd", "electAdded"}, "elect")
                               \/ OpenMonarch(p) \/ MonarchDied(p)
                               \/ WaitInterrupted(p) \/ ElectionDone(p)
      PROVE  Counted'
  <2>1. UNCHANGED <<main, initial, ran, monarch, reply>> /\ vote[p] # "none"
    BY <1>10, Zenon
    DEF AddPeasant, AddFailed, OpenMonarch, MonarchDied, WaitInterrupted,
        ElectionDone, Goto, At
  <2>2. Silent(p)
    BY <2>1, Zenon
    DEF Silent, Raised, Opened, Asking, Before, VoteAfterMain, Settled
  <2> QED BY <2>2, SilentCounted, Zenon
<1>11. ASSUME NEW p \in Procs, StashCommandline(p)
      PROVE  Counted'
  <2>1. /\ main[p] = "stash" /\ main' = [main EXCEPT ![p] = "startup"]
        /\ ExecuteCommandline(p, p) /\ UNCHANGED <<monarch, reply>>
    BY <1>11, Zenon DEF StashCommandline, Goto
  <2>2. /\ main[p] \notin Opened /\ main'[p] \notin Opened /\ main'[p] = "startup"
        /\ \A q \in Procs \ {p} : main'[q] = main[q]
    BY <1>t, <2>1, Zenon DEF Opened
  <2>3. /\ \A y \in Procs : IsFiniteSet(Waiting(y))'
        /\ \A y \in Procs \ {p} : Spent(y)' = Spent(y)
        /\ Spent(p)' \in Nat /\ Spent(p)' <= 1 + Spent(p)
        /\ initial'[p] # None
        /\ \A q \in Procs : initial[q] # None => initial'[q] # None
    BY <2>1, <2>2, ExecuteSpends, Zenon
  <2>4. Dead' = Dead /\ IsFiniteSet(Dead)
    BY <2>1, <2>2, Zenon DEF Dead, Counted
  <2>5. ASSUME NEW x \in Procs PROVE Spent(x)' <= Bound(x)'
    <3>1. Spent(x) \in Nat /\ Spent(x) <= Bound(x)
      BY SpentNumber, Zenon DEF Counted
    <3>2. CASE x # p
      <4>1. Bound(x) \in Nat /\ Bound(x)' \in Nat /\ Bound(x) <= Bound(x)'
        BY <2>1, <2>2, <2>4, <3>2, BoundKept, Zenon
      <4> QED BY <2>3, <3>1, <3>2, <4>1
    <3>3. CASE x = p
      <4>1. Bound(p) = Cardinality(Dead) /\ Bound(p)' = 1 + Cardinality(Dead)'
        BY <2>1, <2>2, Zenon DEF Bound, Asking, Before
      <4>2. Cardinality(Dead)' = Cardinality(Dead) /\ Cardinality(Dead) \in Nat
        BY <2>4, Sizes, Zenon
      <4> QED BY <2>3, <3>1, <3>3, <4>1, <4>2
    <3> QED BY <3>2, <3>3, Zenon
  <2>6. \A q \in Procs : main'[q] \in Opened \cup {"startup"} => initial'[q] # None
    BY <2>1, <2>2, <2>3, Zenon DEF Counted
  <2>7. \A x \in Procs : main'[x] \in {"propose", "reply"} => monarch'[x] \in Procs
    BY <2>1, <2>2, Zenon DEF Counted
  <2> QED BY <2>3, <2>4, <2>5, <2>6, <2>7, Zenon DEF Counted
<1>12. ASSUME NEW p \in Procs, Startup(p)
      PROVE  Counted'
  <2>0. PICK y \in Procs : y = initial[p]
    BY <1>12, Zenon DEF Startup, Counted, TypeOK
  <2>1. /\ main[p] = "startup" /\ main' = [main EXCEPT ![p] = "window"]
        /\ ran' = [ran EXCEPT ![y] = @ + 1] /\ UNCHANGED <<monarch, reply, initial>>
    BY <1>12, <2>0, Zenon DEF Startup, Goto
  <2>2. ran \in [Procs -> Nat]
    BY Zenon DEF TypeOK
  <2>3. Waiting(y)' = Waiting(y) \ {p} /\ p \in Waiting(y)
    BY <1>t, <2>0, <2>1, Zenon DEF Waiting, Opened
  <2>4. \A x \in Procs \ {y} : Waiting(x)' = Waiting(x)
    BY <1>t, <2>0, <2>1, Zenon DEF Waiting, Opened
  <2>5. /\ IsFiniteSet(Waiting(y))'
        /\ Cardinality(Waiting(y))' = Cardinality(Waiting(y)) - 1
        /\ Cardinality(Waiting(y)) \in Nat
    <3>1. IsFiniteSet(Waiting(y)) /\ Cardinality(Waiting(y)) \in Nat
      BY SpentNumber, Zenon DEF Counted
    <3>2. /\ IsFiniteSet(Waiting(y) \ {p})
          /\ Cardinality(Waiting(y) \ {p})
               = IF p \in Waiting(y) THEN Cardinality(Waiting(y)) - 1 ELSE Cardinality(Waiting(y))
      BY <3>1, FS_RemoveElement, Zenon
    <3> QED BY <2>3, <3>1, <3>2, Zenon
  <2>6. \A x \in Procs : Spent(x)' = Spent(x)
    BY <2>1, <2>2, <2>4, <2>5 DEF Spent
  <2>7. Dead' = Dead /\ IsFiniteSet(Dead)
    BY <1>t, <2>1, Zenon DEF Dead, Counted
  <2>8. ASSUME NEW x \in Procs PROVE Spent(x)' <= Bound(x)'
    <3>1. Spent(x) \in Nat /\ Spent(x) <= Bound(x)
      BY SpentNumber, Zenon DEF Counted
    <3>2. Bound(x) \in Nat /\ Bound(x)' \in Nat /\ Bound(x) <= Bound(x)'
      <4>1. CASE x # p
        BY <1>t, <2>1, <2>7, <4>1, BoundKept, Zenon
      <4>2. CASE x = p
        <5>1. Raised(p)
          BY <1>t, <2>1, Zenon DEF Raised, Asking, Before
        <5> QED BY <2>7, <4>2, <5>1, BoundRaised, Zenon
      <4> QED BY <4>1, <4>2, Zenon
    <3> QED BY <2>6, <3>1, <3>2
  <2>9. /\ \A q \in Procs : main'[q] \in Opened \cup {"startup"} => initial'[q] # None
        /\ \A x \in Procs : main'[x] \in {"propose", "reply"} => monarch'[x] \in Procs
    BY <1>t, <2>1, Zenon DEF Counted
  <2>10. \A x \in Procs : IsFiniteSet(Waiting(x))'
    BY <2>4, <2>5, Zenon DEF Counted
  <2> QED BY <2>7, <2>8, <2>9, <2>10, Zenon DEF Counted
<1>13. CASE UNCHANGED vars
  <2>1. UNCHANGED <<main, initial, ran, monarch, reply>>
    BY <1>13, Zenon DEF vars
  <2> QED BY <2>1, Zenon DEF Counted, Dead, Waiting, Spent, Bound, Lost
<1> QED
  BY <1>1, <1>2, <1>3, <1>4, <1>5, <1>6, <1>7, <1>8, <1>9, <1>10, <1>11,
     <1>12, <1>13, Zenon
  DEF Next, MainStep, VoteStep, Environment

-----------------------------------------------------------------------------
\* The initial states satisfy the inductive invariant.
LEMMA InitIInv == Init => IInv
<1> SUFFICES ASSUME Init PROVE IInv
  BY Zenon
<1>1. TypeOK
  BY Tables DEF Init, NextIdsInit, TypeOK, MainLocs, VoteLocs
<1>2. LineOrdered /\ VoteAfterMain /\ KingKnown /\ KingFirst
  BY ProcsAssumption DEF Init, LineOrdered, VoteAfterMain, KingKnown, KingFirst
<1>3. \A m \in Procs : DOMAIN peasants[m] = {}
  BY Zenon DEF Init, EmptyTable
<1>4. IdsKnown /\ NextIdAbove /\ TableAgrees /\ Listed
  BY <1>3, ProcsAssumption, Zenon
  DEF Init, IdsKnown, NextIdAbove, TableAgrees, Listed, Covered,
                               Added, Settled
<1>5. Counted
  BY <1>1, InitCounted, Zenon
<1> QED BY <1>1, <1>2, <1>4, <1>5, Zenon DEF IInv

\* Every step keeps the inductive invariant.
LEMMA Inductive == IInv /\ [Next]_vars => IInv'
BY TypeStep, LineStep, KingStep, IdStep, ListedStep, CountedStep, Zenon DEF IInv

\* Every value stays in its type, in every behaviour of the processes.
THEOREM TypeCorrect == Spec => []TypeOK
<1>1. IInv => TypeOK
  BY Zenon DEF IInv
<1> QED BY <1>1, InitIInv, Inductive, PTL DEF Spec

\* At most one registered process takes itself for the king (WindowManager's
\* _isKing), however many processes start, close and die.
THEOREM OneMonarch == Spec => []OneKing
<1>1. ASSUME IInv, NEW p \in Procs, NEW q \in Procs,
             isKing[p], monarch[p] # Own, place[p] # 0,
             isKing[q], monarch[q] # Own, place[q] # 0
      PROVE  p = q
  <2>1. monarch[p] = p /\ monarch[q] = q
    BY <1>1, Zenon DEF IInv, KingKnown
  <2>2. FirstInLine(p) /\ FirstInLine(q)
    BY <1>1, <2>1, Zenon DEF IInv, KingFirst
  <2>3. place[p] \in Nat /\ place[q] \in Nat /\ place[p] <= place[q] /\ place[q] <= place[p]
    BY <1>1, <2>2, Zenon DEF IInv, TypeOK, FirstInLine, InLine
  <2> QED BY <1>1, <2>3 DEF IInv, LineOrdered
<1>2. IInv => OneKing
  BY <1>1, Zenon DEF OneKing
<1> QED BY <1>2, InitIInv, Inductive, PTL DEF Spec

\* The id that Monarch::AddPeasant gives out next is above every id in the table.
THEOREM FreshIds == Spec => []NextIdAbove
<1>1. IInv => NextIdAbove
  BY Zenon DEF IInv
<1> QED BY <1>1, InitIInv, Inductive, PTL DEF Spec

\* A living process is in Monarch::_peasants under its own id only.
THEOREM TableRight == Spec => []TableAgrees
<1>1. IInv => TableAgrees
  BY Zenon DEF IInv
<1> QED BY <1>1, InitIInv, Inductive, PTL DEF Spec

\* Both hold of every Monarch's table and counter, through any succession.
THEOREM IdsAlwaysRight == Spec => []IdsRight
<1>1. NextIdAbove /\ TableAgrees => IdsRight
  BY Zenon DEF IdsRight
<1> QED BY <1>1, FreshIds, TableRight, PTL

\* A window that no other process shares its id with is in the table of the
\* monarch it waits on: an election loses no window.
THEOREM WindowsListed == Spec => []ListedUnlessIdShared
<1>1. IInv => ListedUnlessIdShared
  BY Zenon DEF IInv, Listed, Covered, Added,
         ListedUnlessIdShared
<1> QED BY <1>1, InitIInv, Inductive, PTL DEF Spec

\* A commandline is run at most once more than processes have ended, whatever
\* the number of processes: only a monarch that dies on it has it run again.
THEOREM RunsBounded == Spec => []RunsOncePerDeath
<1>1. IInv => RunsOncePerDeath
  <2> SUFFICES ASSUME IInv, NEW x \in Procs PROVE ran[x] <= 1 + Cardinality(Dead)
    BY Zenon DEF RunsOncePerDeath, Dead
  <2>1. /\ IsFiniteSet(Dead) /\ IsFiniteSet(Waiting(x)) /\ Spent(x) <= Bound(x)
        /\ ran[x] \in Nat
    BY Zenon DEF IInv, Counted, TypeOK
  <2>2. Cardinality(Waiting(x)) \in Nat
    BY <2>1, FS_CardinalityType, Zenon
  <2> HIDE DEF IInv
  <2> QED BY <2>1, <2>2, BoundRange DEF Spent
<1> QED BY <1>1, InitIInv, Inductive, PTL DEF Spec
=============================================================================
