------------------------------ MODULE Monarchy ------------------------------
(***************************************************************************)
(* The process model of the terminal (src/src/cascadia/Remoting).          *)
(*                                                                         *)
(* Every terminal process registers with COM as a server of the Monarch    *)
(* class, asks COM for a Monarch (the first process in the line of         *)
(* registrations hosts it), proposes its commandline to it, and then       *)
(* either exits, because another window took the commandline, or becomes a *)
(* window: a Peasant in the Monarch's table.  A peasant runs an election   *)
(* thread that waits for the death of the monarch and then registers with  *)
(* the next one.                                                           *)
(*                                                                         *)
(* A process has two threads, "main" and "vote" (the election thread), and *)
(* main[p] and vote[p] are where they are in WindowManager.cpp.  A         *)
(* call to another process takes effect there in one step, and its reply   *)
(* is a second step that fails when the other process has died in between. *)
(***************************************************************************)
EXTENDS Naturals, FiniteSets

CONSTANTS Procs,        \* the processes that may be started
          None,         \* no process
          Own,          \* the isolated Monarch a process makes for itself
          NewWindow,    \* the target "a new window"
          AnyWindow,    \* the target "the most recently used window"
          Glom,         \* the answer "another window took the commandline"
          Ids,          \* the window ids that a commandline may ask for (-w N)
          Targets,      \* the targets that commandlines of this instance have
          MaxCrashes,   \* bound: how many processes may be killed
          MaxAttempts,  \* proposals before the isolated mode (10 in the code)
          MayClose,     \* may the user close windows in this instance
          NullMonarch,  \* may create_instance give a null Monarch (GH#12774)
          IsolatedMode  \* Feature_IsolatedMonarchMode

ASSUME ProcsAssumption == None \notin Procs /\ Own \notin Procs /\ None # Own
ASSUME TargetsAssumption == /\ Ids \subseteq Nat \ {0}
                            /\ {NewWindow, AnyWindow, Glom} \cap Nat = {} /\ NewWindow # AnyWindow
                            /\ Targets \subseteq Ids \cup {NewWindow, AnyWindow}
ASSUME BoundsAssumption == /\ MaxCrashes \in Nat
                           /\ MaxAttempts \in Nat \ {0}
                           /\ MayClose \in BOOLEAN
                           /\ NullMonarch \in BOOLEAN
                           /\ IsolatedMode \in BOOLEAN

VARIABLES
  main,      \* where the main thread of each process is
  vote,      \* where its election thread is
  place,     \* place of each process in the line of registrations, 0 if none
  nextPlace, \* the place the next registration gets
  monarch,   \* _monarch: the process whose Monarch the proxy refers to
  isKing,    \* _isKing
  want,      \* what the process's commandline asks for (from its start to its end)
  attempts,  \* attempts of _proposeToMonarch
  reply,     \* the answer: Glom, or the id of the window to create (0: any id)
  id,        \* Peasant::_id, 0 while there is none
  initial,   \* Peasant::_initialArgs: whose commandline was stashed
  ran,       \* how often each process's commandline was run in a window
  dropped,   \* the commandlines that were accepted and then run by nobody
  peasants,  \* Monarch::_peasants: a table from ids to processes
  nextId,    \* Monarch::_nextPeasantID
  crashes    \* how many processes have been killed

comVars     == <<place, nextPlace>>
courtVars   == <<peasants, nextId>>
cmdVars     == <<initial, ran, dropped>>
managerVars == <<monarch, isKing, want, attempts, reply, id>>
vars == <<main, vote, comVars, courtVars, cmdVars, managerVars, crashes>>

MainLocs == {"unborn", "ctor", "ctorCallbacks", "propose", "reply", "repropose",
             "reproposeCallbacks", "create", "added", "readd", "readdCallbacks",
             "stash", "startup", "window", "closing", "joining",
             "glommed", "dead", "crashed"}
VoteLocs == {"none", "open", "wait", "elect", "electCallbacks", "electAdd",
             "electAdded", "done"}

\* A table from ids to processes.
IsTable(T) == /\ DOMAIN T \subseteq Nat \ {0}
              /\ \A k \in DOMAIN T : T[k] \in Procs
EmptyTable == [k \in {} |-> None]

-----------------------------------------------------------------------------
Alive(p) == main[p] \notin {"unborn", "dead", "crashed"}

InLine == {p \in Procs : place[p] # 0}
FirstInLine(p) == /\ place[p] # 0
                  /\ \A q \in InLine : place[p] <= place[q]

\* Can process p still call through its _monarch?
MonarchAnswers(p) == monarch[p] = Own \/ (monarch[p] \in Procs /\ Alive(monarch[p]))

\* Where thread t ("main" or "vote") of process p is, and where it goes.
At(p, t) == IF t = "main" THEN main[p] ELSE vote[p]
Goto(p, t, loc) ==
  /\ main' = IF t = "main" THEN [main EXCEPT ![p] = loc] ELSE main
  /\ vote' = IF t = "main" THEN vote ELSE [vote EXCEPT ![p] = loc]

Forget(table, k) == [i \in DOMAIN table \ {k} |-> table[i]]
Put(table, k, p) == [i \in DOMAIN table \cup {k} |-> IF i = k THEN p ELSE table[i]]

\* A process that ends takes its state and its registration with it.
\* (id keeps the id it had, for the properties.)
Gone(p, how) ==
  /\ main' = [main EXCEPT ![p] = how]
  /\ vote' = [vote EXCEPT ![p] = "none"]
  /\ place' = [place EXCEPT ![p] = 0]
  /\ monarch' = [monarch EXCEPT ![p] = None]
  /\ isKing' = [isKing EXCEPT ![p] = FALSE]
  /\ attempts' = [attempts EXCEPT ![p] = 0]
  /\ reply' = [reply EXCEPT ![p] = 0]
  /\ want' = [want EXCEPT ![p] = NewWindow]
  /\ initial' = [initial EXCEPT ![p] = None]
  /\ peasants' = [peasants EXCEPT ![p] = EmptyTable]
  /\ nextId' = [nextId EXCEPT ![p] = 1]

NextIdsInit == nextId = [p \in Procs |-> 1]

Init ==
  /\ main = [p \in Procs |-> "unborn"]
  /\ vote = [p \in Procs |-> "none"]
  /\ place = [p \in Procs |-> 0]
  /\ nextPlace = 1
  /\ monarch = [p \in Procs |-> None]
  /\ isKing = [p \in Procs |-> FALSE]
  /\ want = [p \in Procs |-> NewWindow]
  /\ attempts = [p \in Procs |-> 0]
  /\ reply = [p \in Procs |-> 0]
  /\ id = [p \in Procs |-> 0]
  /\ initial = [p \in Procs |-> None]
  /\ ran = [p \in Procs |-> 0]
  /\ dropped = {}
  /\ peasants = [p \in Procs |-> EmptyTable]
  /\ NextIdsInit
  /\ crashes = 0

-----------------------------------------------------------------------------
(* Starting, and finding the Monarch                                       *)

\* A user starts a terminal process; WindowManager's constructor registers it.
Start(p) ==
  /\ main[p] = "unborn"
  /\ \E w \in Targets : want' = [want EXCEPT ![p] = w]
  /\ place' = [place EXCEPT ![p] = nextPlace]
  /\ nextPlace' = nextPlace + 1
  /\ Goto(p, "main", "ctor")
  /\ UNCHANGED <<courtVars, cmdVars, monarch, isKing, attempts, reply, id, crashes>>

\* The places that call _createMonarchAndCallbacks: the location it continues
\* at with a Monarch in hand, and where an exception takes the thread.
Searches ==
  {[t |-> "main", at |-> "ctor",      found |-> "ctorCallbacks",      failed |-> "ctor"],
   [t |-> "main", at |-> "repropose", found |-> "reproposeCallbacks", failed |-> "crashed"],
   [t |-> "main", at |-> "readd",     found |-> "readdCallbacks",     failed |-> "create"],
   [t |-> "vote", at |-> "elect",     found |-> "electCallbacks",     failed |-> "elect"]}

\* An exception in a call to the Monarch: it is caught, except in the catch
\* block of _proposeToMonarch, where it ends the process.
Throw(p, t, failed) ==
  IF failed = "crashed"
    THEN /\ Gone(p, "crashed")
         /\ UNCHANGED <<id, ran, dropped>>
    ELSE /\ Goto(p, t, failed)
         /\ UNCHANGED <<place, monarch, isKing, attempts, reply, initial,
                        courtVars, want, id, ran, dropped>>

\* create_instance gives the Monarch hosted by the first process in line, and
\* throws when nobody is registered.
CreateMonarch(p, s) ==
  /\ At(p, s.t) = s.at
  /\ \/ \E q \in Procs :
          /\ FirstInLine(q)
          /\ monarch' = [monarch EXCEPT ![p] = q]
          /\ Goto(p, s.t, s.found)
          /\ UNCHANGED <<place, courtVars, cmdVars, isKing, want, attempts, reply, id>>
     \/ /\ InLine = {}
        /\ Throw(p, s.t, s.failed)
  /\ UNCHANGED <<nextPlace, crashes>>

\* create_instance gives null, twice: the process isolates itself, or (without
\* the feature, where nothing is thrown) goes on to call through the null.
CreateNullMonarch(p, s) ==
  /\ NullMonarch
  /\ At(p, s.t) = s.at
  /\ IF IsolatedMode
       THEN /\ monarch' = [monarch EXCEPT ![p] = Own]
            /\ Goto(p, s.t, s.found)
            /\ UNCHANGED <<place, courtVars, cmdVars, isKing, want, attempts, reply, id>>
       ELSE /\ Gone(p, "crashed")
            /\ UNCHANGED <<id, ran, dropped>>
  /\ UNCHANGED <<nextPlace, crashes>>

\* Mutant: the election does not add the peasant to the new monarch.
AfterCallbacksUnlisted(s, king) ==
  CASE s.at \in {"ctor", "repropose"} -> IF king THEN "create" ELSE "propose"
    [] s.at = "readd" -> "create"
    [] s.at = "elect" -> "electAdded"

\* Where a thread goes on to once it knows its monarch, king or not.
AfterCallbacks(s, king) ==
  CASE s.at \in {"ctor", "repropose"} -> IF king THEN "create" ELSE "propose"
    [] s.at = "readd" -> "create"
    [] s.at = "elect" -> "electAdd"

\* The id that a process creates its Peasant with when it is the king itself.
OwnTarget(p) == IF want[p] \in Ids THEN want[p] ELSE 0

\* Mutant: a process with any monarch at all takes itself for the king.
AreWeTheKingLoosely(p) == monarch[p] # None

\* The Monarch that the process talks to is in the process itself.
AreWeTheKing(p) == monarch[p] \in {p, Own}

CreateCallbacks(p, s) ==
  /\ At(p, s.t) = s.found
  /\ IF MonarchAnswers(p)
       THEN LET king == AreWeTheKing(p)
            IN /\ isKing' = [isKing EXCEPT ![p] = king]
               /\ Goto(p, s.t, AfterCallbacks(s, king))
               /\ id' = IF king /\ s.at \in {"ctor", "repropose"}
                          THEN [id EXCEPT ![p] = OwnTarget(p)] ELSE id
               /\ UNCHANGED <<place, courtVars, cmdVars, monarch, want, attempts, reply>>
       ELSE Throw(p, s.t, s.failed)
  /\ UNCHANGED <<nextPlace, crashes>>

-----------------------------------------------------------------------------
(* Proposing the commandline                                               *)

\* AppHost has subscribed to the peasant's ExecuteCommandlineRequested event.
Listening(w) == main[w] \in {"window", "closing"}

\* Peasant::ExecuteCommandline in window w with the commandline of process x:
\* the first one is stashed for the startup, any other goes to the listener.
ExecuteCommandline(w, x) ==
  /\ initial' = IF initial[w] = None THEN [initial EXCEPT ![w] = x] ELSE initial
  /\ ran' = IF Listening(w) THEN [ran EXCEPT ![x] = @ + 1] ELSE ran
  /\ dropped' = IF initial[w] # None /\ ~Listening(w) THEN dropped \cup {x} ELSE dropped

\* The ids that Monarch m may resolve the target of p to (0: none).  Only a
\* process that has seen that it is the king answers FindTargetWindowRequested;
\* before that, every commandline asks for a new window.  The choice of the
\* most recent window is abstracted to any window in the table.
ResolveTarget(m, p) ==
  CASE ~(isKing[m] /\ monarch[m] = m) -> {0}
    [] want[p] = NewWindow                  -> {0}
    [] want[p] = AnyWindow                  -> {0} \cup DOMAIN peasants[m]
    [] OTHER                          -> {want[p]}

\* Monarch::ProposeCommandline, run in the monarch's process.
ProposeCommandline(p) ==
  /\ main[p] = "propose"
  /\ monarch[p] \in Procs /\ Alive(monarch[p])
  /\ LET m == monarch[p]
     IN \E k \in ResolveTarget(m, p) :
          \/ /\ k \in DOMAIN peasants[m] /\ Alive(peasants[m][k])
             /\ ExecuteCommandline(peasants[m][k], p)
             /\ reply' = [reply EXCEPT ![p] = Glom]
             /\ UNCHANGED peasants
          \* _getPeasant finds it dead and takes it off the table
          \/ /\ k \in DOMAIN peasants[m] /\ ~Alive(peasants[m][k])
             /\ peasants' = [peasants EXCEPT ![m] = Forget(@, k)]
             /\ reply' = [reply EXCEPT ![p] = k]
             /\ UNCHANGED cmdVars
          \* it dies after _getPeasant, and ExecuteCommandline throws
          \/ /\ k \in DOMAIN peasants[m] /\ ~Alive(peasants[m][k])
             /\ reply' = [reply EXCEPT ![p] = 0]
             /\ UNCHANGED <<peasants, cmdVars>>
          \/ /\ k \notin DOMAIN peasants[m]
             /\ reply' = [reply EXCEPT ![p] = k]
             /\ UNCHANGED <<peasants, cmdVars>>
  /\ Goto(p, "main", "reply")
  /\ UNCHANGED <<comVars, nextId, monarch, isKing, want, attempts, id, crashes>>

\* Mutant: a process whose commandline was taken opens a window all the same.
TakeReplyTwice(p) ==
  /\ main[p] = "reply"
  /\ Alive(monarch[p])
  /\ Goto(p, "main", "create")
  /\ id' = IF reply[p] = Glom THEN id ELSE [id EXCEPT ![p] = reply[p]]
  /\ reply' = [reply EXCEPT ![p] = 0]
  /\ attempts' = [attempts EXCEPT ![p] = 0]
  /\ UNCHANGED <<comVars, courtVars, cmdVars, monarch, isKing, want, crashes>>

\* The answer arrives: exit, or create the Peasant with the given id.
TakeReply(p) ==
  /\ main[p] = "reply"
  /\ Alive(monarch[p])
  /\ Goto(p, "main", IF reply[p] = Glom THEN "glommed" ELSE "create")
  /\ id' = IF reply[p] = Glom THEN id ELSE [id EXCEPT ![p] = reply[p]]
  /\ reply' = [reply EXCEPT ![p] = 0]
  /\ attempts' = [attempts EXCEPT ![p] = 0]
  /\ UNCHANGED <<comVars, courtVars, cmdVars, monarch, isKing, want, crashes>>

\* Mutant: ask the same monarch again, dead as it is.
ProposeFailedAgain(p) ==
  /\ main[p] \in {"propose", "reply"}
  /\ ~Alive(monarch[p])
  /\ Goto(p, "main", "propose")
  /\ UNCHANGED <<comVars, courtVars, cmdVars, managerVars, crashes>>

\* The monarch died before or during the proposal: find the next one, or after
\* too many attempts go on with an isolated Monarch of one's own.
ProposeFailed(p) ==
  /\ main[p] \in {"propose", "reply"}
  /\ ~Alive(monarch[p])
  /\ reply' = [reply EXCEPT ![p] = 0]
  /\ IF attempts[p] + 1 >= MaxAttempts
       THEN /\ monarch' = [monarch EXCEPT ![p] = Own]
            /\ isKing' = [isKing EXCEPT ![p] = TRUE]
            /\ id' = [id EXCEPT ![p] = OwnTarget(p)]
            /\ attempts' = [attempts EXCEPT ![p] = 0]
            /\ Goto(p, "main", "create")
       ELSE /\ attempts' = [attempts EXCEPT ![p] = @ + 1]
            /\ Goto(p, "main", "repropose")
            /\ UNCHANGED <<monarch, isKing, id>>
  /\ UNCHANGED <<comVars, courtVars, cmdVars, want, crashes>>

\* main.cpp: a process whose commandline was taken exits without destructors.
ExitGlommed(p) ==
  /\ main[p] = "glommed"
  /\ Gone(p, "dead")
  /\ UNCHANGED <<nextPlace, ran, dropped, id, crashes>>

-----------------------------------------------------------------------------
(* Registering with the monarch                                            *)

\* The id that Monarch::AddPeasant gives a peasant, and the next id after it.
AssignedId(m, p) == IF id[p] = 0 THEN nextId[m] ELSE id[p]

\* Mutant: the counter is not raised above an id equal to it.
NextPeasantIdTooLow(m, p) ==
  IF id[p] = 0 THEN nextId[m] + 1
  ELSE IF nextId[m] < id[p] THEN id[p] + 1 ELSE nextId[m]

NextPeasantId(m, p) ==
  IF id[p] = 0 THEN nextId[m] + 1
  ELSE IF nextId[m] <= id[p] THEN id[p] + 1 ELSE nextId[m]

\* The peasant is filed under its id, whoever was there before.
Enroll(m, p) ==
  peasants' = [peasants EXCEPT ![m] = Put(@, AssignedId(m, p), p)]

\* Monarch::AddPeasant, called by _createOurPeasant and _performElection.  The
\* isolated Monarch has no other peasant: it gives id 1, or leaves a given one.
AddPeasant(p, t, at, next) ==
  /\ At(p, t) = at
  /\ MonarchAnswers(p)
  /\ IF monarch[p] = Own
       THEN /\ id' = IF id[p] = 0 THEN [id EXCEPT ![p] = 1] ELSE id
            /\ UNCHANGED courtVars
       ELSE LET m == monarch[p]
            IN /\ id' = [id EXCEPT ![p] = AssignedId(m, p)]
               /\ nextId' = [nextId EXCEPT ![m] = NextPeasantId(m, p)]
               /\ Enroll(m, p)
  /\ Goto(p, t, next)
  /\ UNCHANGED <<comVars, cmdVars, monarch, isKing, want, attempts, reply, crashes>>

AddFailed(p, t, locs, next) ==
  /\ At(p, t) \in locs
  /\ ~MonarchAnswers(p)
  /\ Goto(p, t, next)
  /\ UNCHANGED <<comVars, courtVars, cmdVars, managerVars, crashes>>

\* AddPeasant has returned in _createOurPeasant; a peasant (not a king) starts
\* its election thread.
CreatePeasantThread(p) ==
  /\ main[p] = "added"
  /\ MonarchAnswers(p)
  /\ main' = [main EXCEPT ![p] = "stash"]
  /\ vote' = IF isKing[p] THEN vote ELSE [vote EXCEPT ![p] = "open"]
  /\ UNCHANGED <<comVars, courtVars, cmdVars, managerVars, crashes>>

\* _peasant.ExecuteCommandline(args) with the process's own commandline.
StashCommandline(p) ==
  /\ main[p] = "stash"
  /\ ExecuteCommandline(p, p)
  /\ Goto(p, "main", "startup")
  /\ UNCHANGED <<comVars, courtVars, managerVars, crashes>>

\* AppHost::_HandleCommandlineArgs: the stashed commandline becomes the startup
\* actions of the window, and AppHost subscribes to the later ones.
Startup(p) ==
  /\ main[p] = "startup"
  /\ ran' = [ran EXCEPT ![initial[p]] = @ + 1]
  /\ Goto(p, "main", "window")
  /\ UNCHANGED <<comVars, courtVars, managerVars, initial, dropped, crashes>>

-----------------------------------------------------------------------------
(* The election thread                                                     *)

\* _waitOnMonarchThread opens the monarch's process, or finds it gone.
OpenMonarch(p) ==
  /\ vote[p] = "open"
  /\ Goto(p, "vote", IF MonarchAnswers(p) THEN "wait" ELSE "elect")
  /\ UNCHANGED <<comVars, courtVars, cmdVars, managerVars, crashes>>

\* Mutant: the thread ends when the monarch does.
MonarchDiedUnnoticed(p) ==
  /\ vote[p] = "wait"
  /\ ~MonarchAnswers(p)
  /\ Goto(p, "vote", "done")
  /\ UNCHANGED <<comVars, courtVars, cmdVars, managerVars, crashes>>

\* WaitForMultipleObjects on the monarch's process ...
MonarchDied(p) ==
  /\ vote[p] = "wait"
  /\ ~MonarchAnswers(p)
  /\ Goto(p, "vote", "elect")
  /\ UNCHANGED <<comVars, courtVars, cmdVars, managerVars, crashes>>

\* ... and on _monarchWaitInterrupt, which the destructor sets.
WaitInterrupted(p) ==
  /\ vote[p] = "wait"
  /\ main[p] = "joining"
  /\ Goto(p, "vote", "done")
  /\ UNCHANGED <<comVars, courtVars, cmdVars, managerVars, crashes>>

\* _performElection returns: the thread ends if this process is the king now.
ElectionDone(p) ==
  /\ vote[p] = "electAdded"
  /\ MonarchAnswers(p)
  /\ Goto(p, "vote", IF isKing[p] THEN "done" ELSE "open")
  /\ UNCHANGED <<comVars, courtVars, cmdVars, managerVars, crashes>>

-----------------------------------------------------------------------------
(* Closing a window, and being killed                                      *)

\* WindowManager::SignalClose: the peasant's id leaves the monarch's table.
SignalClose(p) ==
  peasants' = IF monarch[p] \in Procs /\ Alive(monarch[p])
                THEN [peasants EXCEPT ![monarch[p]] = Forget(@, id[p])]
                ELSE peasants

\* AppHost::LastTabClosed.
CloseWindow(p) ==
  /\ MayClose
  /\ main[p] = "window"
  /\ SignalClose(p)
  /\ Goto(p, "main", "closing")
  /\ UNCHANGED <<comVars, nextId, cmdVars, managerVars, crashes>>

\* ~WindowManager: revoke the registration, signal again, wake the thread.
Destroy(p) ==
  /\ main[p] = "closing"
  /\ place' = [place EXCEPT ![p] = 0]
  /\ SignalClose(p)
  /\ Goto(p, "main", "joining")
  /\ UNCHANGED <<nextPlace, nextId, cmdVars, managerVars, crashes>>

\* ~WindowManager joins the election thread, and the process ends.
Join(p) ==
  /\ main[p] = "joining"
  /\ vote[p] \in {"none", "done"}
  /\ Gone(p, "dead")
  /\ UNCHANGED <<nextPlace, ran, dropped, id, crashes>>

Kill(p) ==
  /\ Alive(p)
  /\ crashes < MaxCrashes
  /\ crashes' = crashes + 1
  /\ Gone(p, "dead")
  /\ UNCHANGED <<nextPlace, ran, dropped, id>>

-----------------------------------------------------------------------------
MainStep(p) ==
  \/ \E s \in Searches : s.t = "main" /\ (CreateMonarch(p, s) \/ CreateCallbacks(p, s))
  \/ ProposeCommandline(p)
  \/ TakeReply(p)
  \/ ProposeFailed(p)
  \/ ExitGlommed(p)
  \/ AddPeasant(p, "main", "create", "added")
  \/ AddFailed(p, "main", {"create", "added"}, "readd")
  \/ CreatePeasantThread(p)
  \/ StashCommandline(p)
  \/ Startup(p)
  \/ Destroy(p)
  \/ Join(p)

VoteStep(p) ==
  \/ \E s \in Searches : s.t = "vote" /\ (CreateMonarch(p, s) \/ CreateCallbacks(p, s))
  \/ OpenMonarch(p)
  \/ MonarchDied(p)
  \/ WaitInterrupted(p)
  \/ AddPeasant(p, "vote", "electAdd", "electAdded")
  \/ AddFailed(p, "vote", {"electAdd", "electAdded"}, "elect")
  \/ ElectionDone(p)

Environment(p) ==
  \/ Start(p)
  \/ CloseWindow(p)
  \/ Kill(p)
  \/ \E s \in Searches : CreateNullMonarch(p, s)

Next == \E p \in Procs : \/ MainStep(p)
                         \/ VoteStep(p)
                         \/ Environment(p)

Spec == Init /\ [][Next]_vars

\* Every thread that can take a step does so; no user has to start, close or
\* kill anything.
FairSpec == /\ Spec
            /\ \A p \in Procs : /\ WF_vars(MainStep(p))
                                /\ WF_vars(VoteStep(p))

-----------------------------------------------------------------------------
TypeOK ==
  /\ main \in [Procs -> MainLocs]
  /\ vote \in [Procs -> VoteLocs]
  /\ place \in [Procs -> Nat]
  /\ nextPlace \in Nat \ {0}
  /\ monarch \in [Procs -> Procs \cup {None, Own}]
  /\ isKing \in [Procs -> BOOLEAN]
  /\ want \in [Procs -> Ids \cup {NewWindow, AnyWindow}]
  /\ attempts \in [Procs -> Nat]
  /\ reply \in [Procs -> Nat \cup {Glom}]
  /\ id \in [Procs -> Nat]
  /\ initial \in [Procs -> Procs \cup {None}]
  /\ ran \in [Procs -> Nat]
  /\ dropped \subseteq Procs
  /\ DOMAIN peasants = Procs
  /\ \A p \in Procs : IsTable(peasants[p])
  /\ nextId \in [Procs -> Nat \ {0}]
  /\ crashes \in Nat

\* At most one process that is registered with COM takes itself for the king,
\* unless it isolated itself: the elections of concurrent processes agree.
OneKing ==
  \A p, q \in Procs :
    (/\ isKing[p] /\ monarch[p] # Own /\ place[p] # 0
     /\ isKing[q] /\ monarch[q] # Own /\ place[q] # 0) => p = q

\* The id counter of a Monarch is above every id in its table, also the ones
\* it was told by peasants of an earlier monarch: it never gives one out twice.
NextIdAbove ==
  \A m \in Procs : \A k \in DOMAIN peasants[m] : k < nextId[m]

\* A living process in a Monarch's table is there under the id it has itself.
TableAgrees ==
  \A m \in Procs : \A k \in DOMAIN peasants[m] :
    Alive(peasants[m][k]) => id[peasants[m][k]] = k

\* Through any succession of monarchs, the ids of a Monarch's table are those
\* that the windows have themselves, and the next id it gives out is none of
\* them (Monarch::AddPeasant).
IdsRight == NextIdAbove /\ TableAgrees

\* A window that its election thread takes for registered (the thread is about
\* to wait, or waits, for a monarch that is alive) is in that monarch's table,
\* as long as no other process ever had its id.
ListedUnlessIdShared ==
  \A p \in Procs :
    (/\ main[p] \in {"stash", "startup", "window"}
     /\ vote[p] \in {"open", "wait"}
     /\ monarch[p] \in Procs /\ Alive(monarch[p])
     /\ \A q \in Procs \ {p} : id[q] # id[p])
    => /\ id[p] \in DOMAIN peasants[monarch[p]]
       /\ peasants[monarch[p]][id[p]] = p

\* A commandline is run more than once only if the monarch it was proposed to
\* died on it: at most once more than processes have ended.
RunsOncePerDeath ==
  \A x \in Procs :
    ran[x] <= 1 + Cardinality({q \in Procs : main[q] \in {"dead", "crashed"}})

\* Every process that is started gets somewhere: its commandline is handed on
\* and it exits, or it has a window, or it is gone; it waits for no one forever.
StartupEnds ==
  \A p \in Procs :
    main[p] = "ctor" ~> main[p] \in {"window", "closing", "joining", "dead", "crashed"}

\* However the monarchs die, once nobody is killed or closed any more all the
\* windows (but the isolated ones) end up with one and the same living monarch.
EventuallyOneCourt ==
  <>[](\A p, q \in {r \in Procs : main[r] = "window" /\ monarch[r] # Own} :
         monarch[p] = monarch[q] /\ Alive(monarch[p]))

=============================================================================
