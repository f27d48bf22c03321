---------------------------- MODULE MonarchTables ----------------------------
(***************************************************************************)
(* One Monarch object and the threads that run its methods                 *)
(* (src/src/cascadia/Remoting/Monarch.cpp and Monarch.h).                  *)
(*                                                                         *)
(* The Monarch keeps two tables, _peasants (id -> window) and _mruPeasants *)
(* (the windows by the time of their last activation), each behind a       *)
(* shared_mutex.  Calls arrive on many threads: RPC threads for the other  *)
(* windows, background threads of the monarch's own process, and the UI    *)
(* thread of its own window.  The tables name windows in processes that    *)
(* may die at any moment, which a method finds out when it calls them.     *)
(*                                                                         *)
(* th[t] is the call that thread t runs: where it is and its locals.  The  *)
(* shared locks are held over several steps, exactly at the locations of   *)
(* HoldP and HoldM; a section under a unique lock makes no calls and is    *)
(* one step, which waits until nobody holds the lock.                      *)
(***************************************************************************)
EXTENDS Naturals, Sequences, FiniteSets

CONSTANTS Threads,   \* the threads that may run methods of the Monarch
          UI,        \* the one that is the UI thread of the monarch's window
          Windows,   \* the windows (Peasant objects) that may be opened
          Own,       \* the window of the monarch's own process
          None,      \* no window
          IdOf,      \* the id that each window has
          Calls,     \* the methods that this instance calls
          MaxCalls,  \* bound: how many of those calls are made
          MaxTime,   \* bound: how many activations there are
          MayKill,   \* may windows die without closing
          Queueing   \* does a waiting writer hold up new readers (SRWLOCK)

ASSUME ThreadsAssumption == UI \in Threads
ASSUME WindowsAssumption == /\ Own \in Windows /\ None \notin Windows
                            /\ IdOf \in [Windows -> Nat \ {0}]
                            /\ \A w \in Windows \ {Own} : IdOf[w] # IdOf[Own]
ASSUME TablesBoundsAssumption ==
  /\ MaxCalls \in Nat /\ MaxTime \in Nat
  /\ MayKill \in BOOLEAN /\ Queueing \in BOOLEAN
  /\ Calls \subseteq {"mru", "id", "name", "rename", "each", "layout", "quit"}

VARIABLES
  th,        \* the threads: location and locals of the call each one runs
  peasants,  \* _peasants
  mru,       \* _mruPeasants
  quitting,  \* _quitting
  life,      \* what has become of each window
  named,     \* the windows whose _WindowName is the one name of this instance
  told,      \* the windows that were told to quit
  failed,    \* the ways in which a method has failed beyond recovery
  clock,     \* the time of the last activation
  calls,     \* how many calls were made
  cover      \* for the properties: see Track

windowVars == <<life, named, told>>
boundVars  == <<clock, calls>>
vars == <<th, peasants, mru, quitting, windowVars, failed, boundVars, cover>>

Ids == {IdOf[w] : w \in Windows}

\* Mutant: _getMostRecentPeasantID clears old entries before it unlocks.
HoldMTooLong == {"mru", "mruAsk", "mruDrop", "mruForget"}

\* The locations at which a thread holds _peasantsMutex or _mruPeasantsMutex
\* shared, and those at which it waits to lock one of them uniquely.
HoldP == {"each", "call", "callUi"}
HoldM == {"mru", "mruAsk", "mruDrop"}
WantP == {"add", "closeErase", "drop", "mruDrop", "sweep"}
WantM == {"activateClear", "activateInsert", "closeMru", "forget", "mruForget", "sweepMru"}
Locs  == {"idle", "loop", "mruLock", "first", "get", "ask", "notify", "grant", "ownQuit"}
           \cup HoldP \cup HoldM \cup WantP \cup WantM

Kinds == {"none", "add", "activate", "close", "save"}
           \cup {"mru", "id", "name", "rename", "each", "layout", "quit"}

Idle == [pc |-> "idle", kind |-> "none",
         who |-> None,      \* the window the call comes from
         win |-> None,      \* the window the thread talks to
         key |-> 0,         \* the id it looks up: windowID, peasantID
         time |-> 0,        \* ActivatedTime of the activation
         at |-> 1,          \* the place in _mruPeasants
         todo |-> {},       \* the ids a loop over _peasants has yet to visit
         doomed |-> {},     \* peasantsToErase
         unfit |-> {}]      \* the ids that do not meet the selection criteria

-----------------------------------------------------------------------------
Alive(w) == life[w] # "dead"

At(t, loc) == th[t].pc = loc
Goto(t, loc) == th' = [th EXCEPT ![t].pc = loc]
Return(t) == th' = [th EXCEPT ![t] = Idle]

\* May a thread take a mutex uniquely: does nobody hold it?
FreeP == \A u \in Threads : th[u].pc \notin HoldP
FreeM == \A u \in Threads : th[u].pc \notin HoldM

\* May a thread take it shared?  A reader joins other readers, unless a writer
\* waits for them already.
SharedP == FreeP \/ ~Queueing \/ \A u \in Threads : th[u].pc \notin WantP
SharedM == FreeM \/ ~Queueing \/ \A u \in Threads : th[u].pc \notin WantM

Erase(table, keys) == [k \in DOMAIN table \ keys |-> table[k]]

Put(table, k, w) == [i \in DOMAIN table \cup {k} |-> IF i = k THEN w ELSE table[i]]

\* _clearOldMruEntries: the entries that stay keep their order.
Stay(keys) == {i \in 1..Len(mru) : mru[i].id \notin keys}
Nth(places, n) == CHOOSE i \in places : Cardinality({j \in places : j <= i}) = n
ClearOldMruEntries(keys) ==
  mru' = [n \in 1..Cardinality(Stay(keys)) |-> mru[Nth(Stay(keys), n)]]

Init ==
  /\ th = [t \in Threads |-> Idle]
  /\ peasants = [k \in {} |-> None]
  /\ mru = <<>>
  /\ quitting = FALSE
  /\ life = [w \in Windows |-> "new"]
  /\ named = {} /\ told = {} /\ failed = {}
  /\ clock = 0 /\ calls = 0
  /\ cover = [t \in Threads |-> {}]

\* A thread takes up one of the bounded calls.
Begin(t, kind) ==
  /\ At(t, "idle")
  /\ kind \in Calls
  /\ calls < MaxCalls
  /\ calls' = calls + 1
  /\ UNCHANGED clock

-----------------------------------------------------------------------------
(* AddPeasant, HandleActivatePeasant and SignalClose                       *)

\* A window registers.  An id asked for on a commandline (-w N) is given out
\* again as soon as its last window has left the table.
BeginAdd(t, w) ==
  /\ At(t, "idle")
  /\ life[w] = "new" /\ (w = Own <=> t = UI)
  /\ \A v \in Windows \ {w} :
       IdOf[v] = IdOf[w] => life[v] \in {"new", "closed", "leaving", "dead"}
  /\ life' = [life EXCEPT ![w] = "adding"]
  /\ th' = [th EXCEPT ![t].pc = "add", ![t].kind = "add", ![t].who = w]
  /\ UNCHANGED <<peasants, mru, quitting, named, told, failed, boundVars>>

\* It is put in the table, unless it died on one of the calls before that.  (No
\* AppHost is there yet to be notified of the monarch's own window.)
AddPeasant(t) ==
  LET w == th[t].who
  IN /\ At(t, "add")
     /\ FreeP
     /\ \/ /\ peasants' = Put(peasants, IdOf[w], w)
           /\ life' = [life EXCEPT ![w] = IF @ = "adding" THEN "open" ELSE @]
           /\ IF w = Own THEN Return(t) ELSE Goto(t, "notify")
        \/ /\ ~Alive(w)
           /\ Return(t)
           /\ UNCHANGED <<peasants, life>>
     /\ UNCHANGED <<mru, quitting, named, told, failed, boundVars>>

\* A window is activated, on a background thread.  It may have registered with
\* an earlier monarch only, and tell this one before it is added to its table.
BeginActivate(t, w) ==
  /\ At(t, "idle") /\ t # UI
  /\ life[w] \in {"new", "adding", "open"}
  /\ clock < MaxTime
  /\ clock' = clock + 1
  /\ th' = [th EXCEPT ![t].pc = "activateClear", ![t].kind = "activate",
                      ![t].who = w, ![t].time = clock + 1]
  /\ UNCHANGED <<peasants, mru, quitting, windowVars, failed, calls>>

ActivateClear(t) ==
  /\ At(t, "activateClear")
  /\ FreeM
  /\ ClearOldMruEntries({IdOf[th[t].who]})
  /\ Goto(t, "activateInsert")
  /\ UNCHANGED <<peasants, quitting, windowVars, failed, boundVars>>

\* Mutant: lower_bound with the comparison the wrong way around.
LowerBoundAscending(time) ==
  LET later == {i \in 1..Len(mru) : mru[i].time < time} IN Cardinality(later) + 1

\* std::lower_bound: the first place that does not hold a later activation.
LowerBound(time) ==
  CHOOSE i \in 1..(Len(mru) + 1) :
    /\ i <= Len(mru) => mru[i].time <= time
    /\ \A j \in 1..(i - 1) : mru[j].time > time

\* _doHandleActivatePeasant, the second critical section.
ActivateInsert(t) ==
  LET i == LowerBound(th[t].time)
  IN /\ At(t, "activateInsert")
     /\ FreeM
     /\ mru' = SubSeq(mru, 1, i - 1)
               \o <<[id |-> IdOf[th[t].who], time |-> th[t].time]>>
               \o SubSeq(mru, i, Len(mru))
     /\ Return(t)
     /\ UNCHANGED <<peasants, quitting, windowVars, failed, boundVars>>

\* A window signals that it closes: from LastTabClosed and, again, from the
\* destructor of its WindowManager.  (When the monarch's own process gets there
\* the Monarch goes with it.)
BeginClose(t, w) ==
  /\ At(t, "idle")
  /\ life[w] = "open" \/ (life[w] = "closed" /\ w # Own)
  /\ w = Own <=> t = UI
  /\ IF quitting
       THEN /\ life' = [life EXCEPT ![w] = IF @ = "open" THEN "closed" ELSE "dead"]
            /\ UNCHANGED th
       ELSE /\ life' = [life EXCEPT ![w] = IF @ = "open" THEN "closing" ELSE "leaving"]
            /\ th' = [th EXCEPT ![t].pc = "closeMru", ![t].kind = "close", ![t].who = w]
  /\ UNCHANGED <<peasants, mru, quitting, named, told, failed, boundVars>>

CloseMru(t) ==
  /\ At(t, "closeMru")
  /\ FreeM
  /\ ClearOldMruEntries({IdOf[th[t].who]})
  /\ Goto(t, "closeErase")
  /\ UNCHANGED <<peasants, quitting, windowVars, failed, boundVars>>

CloseErase(t) ==
  LET w == th[t].who
  IN /\ At(t, "closeErase")
     /\ FreeP
     /\ peasants' = Erase(peasants, {IdOf[w]})
     /\ life' = [life EXCEPT ![w] = IF @ = "closing" THEN "closed" ELSE "dead"]
     /\ IF w = Own THEN Return(t) ELSE Goto(t, "notify")
     /\ UNCHANGED <<mru, quitting, named, told, failed, boundVars>>

-----------------------------------------------------------------------------
(* _getPeasant, with which ProposeCommandline, SummonWindow and            *)
(* _renameRequested end                                                    *)

\* _getPeasant has returned w, or None.  The commandline goes to the window, or
\* it is summoned, which changes neither table; a rename that found nobody is
\* granted.
Found(t, w) ==
  IF th[t].kind = "rename" /\ w = None
    THEN th' = [th EXCEPT ![t].pc = "grant", ![t].win = None]
    ELSE Return(t)

\* ProposeCommandline or SummonWindow with an id.
BeginId(t) ==
  /\ Begin(t, "id")
  /\ \E k \in Ids : th' = [th EXCEPT ![t].pc = "get", ![t].kind = "id", ![t].key = k]
  /\ UNCHANGED <<peasants, mru, quitting, windowVars, failed>>

GetPeasant(t) ==
  /\ At(t, "get")
  /\ SharedP
  /\ IF th[t].key \in DOMAIN peasants
       THEN th' = [th EXCEPT ![t].pc = "ask", ![t].win = peasants[th[t].key]]
       ELSE Found(t, None)
  /\ UNCHANGED <<peasants, mru, quitting, windowVars, failed, boundVars>>

AskPeasant(t) ==
  /\ At(t, "ask")
  /\ IF Alive(th[t].win) THEN Found(t, th[t].win) ELSE Goto(t, "drop")
  /\ UNCHANGED <<peasants, mru, quitting, windowVars, failed, boundVars>>

DropPeasant(t) ==
  /\ At(t, "drop")
  /\ FreeP
  /\ peasants' = Erase(peasants, {th[t].key})
  /\ Goto(t, "forget")
  /\ UNCHANGED <<mru, quitting, windowVars, failed, boundVars>>

ForgetPeasant(t) ==
  /\ At(t, "forget")
  /\ FreeM
  /\ ClearOldMruEntries({th[t].key})
  /\ Found(t, None)
  /\ UNCHANGED <<peasants, quitting, windowVars, failed, boundVars>>

\* RequestRename, back in the window: it takes the name it was granted.
TakeName(t) ==
  /\ At(t, "grant")
  /\ named' = IF Alive(th[t].who) THEN named \cup {th[t].who} ELSE named
  /\ Return(t)
  /\ UNCHANGED <<peasants, mru, quitting, life, told, failed, boundVars>>

-----------------------------------------------------------------------------
(* _getMostRecentPeasantID                                                 *)

\* Windows of the other desktops and the quake window may be asked not to
\* count: unfit are the ids of those.
BeginMru(t) ==
  /\ Begin(t, "mru")
  /\ \E u \in SUBSET Ids :
       th' = [th EXCEPT ![t].pc = "mruLock", ![t].kind = "mru", ![t].unfit = u]
  /\ UNCHANGED <<peasants, mru, quitting, windowVars, failed>>

LockMru(t) ==
  /\ At(t, "mruLock")
  /\ SharedM
  /\ Goto(t, IF mru = <<>> THEN "first" ELSE "mru")
  /\ UNCHANGED <<peasants, mru, quitting, windowVars, failed, boundVars>>

\* "Just use the first one" of an unordered map.
FirstPeasant(t) ==
  /\ At(t, "first")
  /\ SharedP
  /\ \/ /\ DOMAIN peasants = {}
        /\ th' = [th EXCEPT ![t].pc = "get", ![t].unfit = {}]
     \/ \E k \in DOMAIN peasants :
          th' = [th EXCEPT ![t].pc = "get", ![t].unfit = {},
                           ![t].key = IF Alive(peasants[k]) THEN k ELSE 0]
  /\ UNCHANGED <<peasants, mru, quitting, windowVars, failed, boundVars>>

\* The loop is over, with the id of the window or 0; the caller looks it up.
LeaveMru(t, key) ==
  th' = [th EXCEPT ![t].pc = IF th[t].doomed = {} THEN "get" ELSE "mruForget",
                   ![t].key = key, ![t].win = None, ![t].at = 1, ![t].unfit = {}]

\* Mutant: the loop stops at the first window that is not in the table.
NextMruStopsAtMissing(t) ==
  /\ At(t, "mru")
  /\ \/ /\ th[t].at > Len(mru)
        /\ LeaveMru(t, 0)
     \/ /\ th[t].at <= Len(mru)
        /\ SharedP
        /\ LET k == mru[th[t].at].id
           IN IF k \in DOMAIN peasants
                THEN th' = [th EXCEPT ![t].pc = "mruAsk", ![t].win = peasants[k]]
                ELSE LeaveMru(t, 0)
  /\ UNCHANGED <<peasants, mru, quitting, windowVars, failed, boundVars>>

NextMru(t) ==
  /\ At(t, "mru")
  /\ \/ /\ th[t].at > Len(mru)
        /\ LeaveMru(t, 0)
     \/ /\ th[t].at <= Len(mru)
        /\ SharedP
        /\ LET k == mru[th[t].at].id
           IN th' = IF k \in DOMAIN peasants
                      THEN [th EXCEPT ![t].pc = "mruAsk", ![t].win = peasants[k]]
                      ELSE [th EXCEPT ![t].doomed = @ \cup {k}, ![t].at = @ + 1]
  /\ UNCHANGED <<peasants, mru, quitting, windowVars, failed, boundVars>>

\* GetPID, then the name and the desktop of the window.  When it dies between
\* the two the exception ends the call.
AskMru(t) ==
  LET k == mru[th[t].at].id
  IN /\ At(t, "mruAsk")
     /\ \/ /\ Alive(th[t].win)
           /\ IF k \in th[t].unfit
                THEN th' = [th EXCEPT ![t].pc = "mru", ![t].at = @ + 1, ![t].win = None]
                ELSE LeaveMru(t, k)
        \/ /\ ~Alive(th[t].win)
           /\ Goto(t, "mruDrop") \/ Return(t)
     /\ UNCHANGED <<peasants, mru, quitting, windowVars, failed, boundVars>>

DropMru(t) ==
  LET k == mru[th[t].at].id
  IN /\ At(t, "mruDrop")
     /\ FreeP
     /\ peasants' = Erase(peasants, {k})
     /\ th' = [th EXCEPT ![t].pc = "mru", ![t].doomed = @ \cup {k},
                         ![t].at = @ + 1, ![t].win = None]
     /\ UNCHANGED <<mru, quitting, windowVars, failed, boundVars>>

ForgetMru(t) ==
  /\ At(t, "mruForget")
  /\ FreeM
  /\ ClearOldMruEntries(th[t].doomed)
  /\ th' = [th EXCEPT ![t].pc = "get", ![t].doomed = {}]
  /\ UNCHANGED <<peasants, quitting, windowVars, failed, boundVars>>

-----------------------------------------------------------------------------
(* _forEachPeasant, and the methods that use it                            *)

\* "each" stands for the loops without a result: _identifyWindows,
\* SummonAllWindows, GetPeasantInfos and DoesQuakeWindowExist.  "name" is
\* ProposeCommandline or SummonWindow with a name, "layout" the saving of the
\* layouts, which runs in the background.
BeginLoop(t) ==
  /\ \E kind \in {"each", "name", "rename", "layout"}, w \in Windows \cup {None} :
       /\ Begin(t, kind)
       /\ kind = "rename" <=> w # None
       /\ kind = "rename" => life[w] = "open" /\ (w = Own <=> t = UI)
       /\ kind = "layout" => life[Own] = "open" /\ t # UI
       /\ th' = [th EXCEPT ![t].pc = "loop", ![t].kind = kind, ![t].who = w]
  /\ UNCHANGED <<peasants, mru, quitting, windowVars, failed>>

LockLoop(t) ==
  /\ At(t, "loop")
  /\ SharedP
  /\ th' = [th EXCEPT ![t].pc = "each", ![t].todo = DOMAIN peasants]
  /\ UNCHANGED <<peasants, mru, quitting, windowVars, failed, boundVars>>

\* What the caller of _forEachPeasant does next.  A quit has saved the layouts
\* and begins to tell the windows; or has told them, and comes to its own.
AfterLoop(t) ==
  LET l == th[t]
      clean == [l EXCEPT !.todo = {}, !.doomed = {}, !.win = None]
  IN CASE l.kind \in {"name", "rename"} ->
            /\ th' = [th EXCEPT ![t] = [clean EXCEPT !.pc = "get"]]
            /\ UNCHANGED quitting
       [] l.kind = "save" ->
            /\ th' = [th EXCEPT ![t] = [clean EXCEPT !.pc = "loop", !.kind = "quit"]]
            /\ quitting' = TRUE
       [] l.kind = "quit" ->
            /\ th' = [th EXCEPT ![t] = [clean EXCEPT !.pc = "ownQuit"]]
            /\ UNCHANGED quitting
       [] OTHER -> Return(t) /\ UNCHANGED quitting

\* The callback for the peasant of id k.  A dead one is noted for later.  The
\* layout is made on the window's UI thread: of the monarch's own window that
\* is UI, until LastTabClosed has revoked the handler.
VisitPeasant(t, k) ==
  LET w == peasants[k]
  IN /\ At(t, "each")
     /\ k \in th[t].todo
     /\ th' = IF Alive(w)
                THEN [th EXCEPT ![t].todo = @ \ {k}, ![t].win = w,
                        ![t].pc = IF /\ w = Own /\ th[t].kind \in {"layout", "save"}
                                     /\ life[Own] = "open"
                                    THEN "callUi" ELSE "call"]
                ELSE [th EXCEPT ![t].todo = @ \ {k}, ![t].doomed = @ \cup {k}]
     /\ UNCHANGED <<peasants, mru, quitting, windowVars, failed, boundVars>>

\* Mutant: the monarch's own window is told to quit like any other.
QuitWithOwn(t) ==
  told' = IF th[t].kind = "quit" THEN told \cup {th[t].win} ELSE told

\* The callback of _handleQuitAll leaves the monarch's own window for last.
QuitOthers(t) ==
  told' = IF th[t].kind = "quit" /\ th[t].win # Own THEN told \cup {th[t].win} ELSE told

\* The call returns; the loop of _lookupPeasantIdForName ends at a match.
PeasantAnswers(t) ==
  LET match == th[t].kind \in {"name", "rename"} /\ th[t].win \in named
  IN /\ At(t, "call") \/ (At(t, "callUi") /\ At(UI, "idle"))
     /\ Alive(th[t].win)
     /\ th' = [th EXCEPT ![t].pc = "each", ![t].win = None,
                         ![t].todo = IF match THEN {} ELSE @,
                         ![t].key = IF match THEN IdOf[th[t].win] ELSE @]
     /\ QuitOthers(t)
     /\ UNCHANGED <<peasants, mru, quitting, life, named, failed, boundVars>>

\* The window died during the call, which is not "the RPC server is
\* unavailable": the exception leaves _forEachPeasant.  Saving the layouts
\* catches it; a fire_and_forget coroutine does not, and ends the process.
PeasantDies(t) ==
  /\ At(t, "call")
  /\ ~Alive(th[t].win)
  /\ IF th[t].kind = "save" THEN AfterLoop(t) ELSE Return(t) /\ UNCHANGED quitting
  /\ failed' = IF th[t].kind = "quit" THEN failed \cup {"terminate"} ELSE failed
  /\ UNCHANGED <<peasants, mru, windowVars, boundVars>>

EndLoop(t) ==
  /\ At(t, "each")
  /\ th[t].todo = {}
  /\ IF th[t].doomed = {}
       THEN AfterLoop(t)
       ELSE Goto(t, "sweep") /\ UNCHANGED quitting
  /\ UNCHANGED <<peasants, mru, windowVars, failed, boundVars>>

\* Mutant: the loop throws out the windows it visited instead of the dead.
SweepAll(t) ==
  /\ At(t, "sweep")
  /\ FreeP
  /\ peasants' = Erase(peasants, DOMAIN peasants)
  /\ Goto(t, "sweepMru")
  /\ UNCHANGED <<mru, quitting, windowVars, failed, boundVars>>

Sweep(t) ==
  /\ At(t, "sweep")
  /\ FreeP
  /\ peasants' = Erase(peasants, th[t].doomed)
  /\ Goto(t, "sweepMru")
  /\ UNCHANGED <<mru, quitting, windowVars, failed, boundVars>>

SweepMru(t) ==
  /\ At(t, "sweepMru")
  /\ FreeM
  /\ ClearOldMruEntries(th[t].doomed)
  /\ Goto(t, "notify")
  /\ UNCHANGED <<peasants, quitting, windowVars, failed, boundVars>>

\* WindowCreated and WindowClosed: while the monarch's window is open, AppHost
\* counts the peasants.
Notify(t) ==
  /\ At(t, "notify")
  /\ life[Own] = "open" => SharedP
  /\ AfterLoop(t)
  /\ UNCHANGED <<peasants, mru, windowVars, failed, boundVars>>

\* _handleQuitAll, for a window that asked for it.  If it is there and layouts
\* are kept, the AppHost of the monarch's window has them saved first.
BeginQuit(t) ==
  /\ Begin(t, "quit") /\ t # UI
  /\ \E w \in Windows : life[w] \in {"open", "closing"}
  /\ \/ /\ "layout" \in Calls /\ life[Own] \notin {"new", "adding"}
        /\ th' = [th EXCEPT ![t].pc = "loop", ![t].kind = "save"]
        /\ UNCHANGED quitting
     \/ /\ th' = [th EXCEPT ![t].pc = "loop", ![t].kind = "quit"]
        /\ quitting' = TRUE
  /\ UNCHANGED <<peasants, mru, windowVars, failed>>

\* The monarch's own window is told last; it is asserted to be in the table.
QuitOwn(t) ==
  /\ At(t, "ownQuit")
  /\ SharedP
  /\ IF IdOf[Own] \in DOMAIN peasants
       THEN told' = told \cup {Own} /\ UNCHANGED failed
       ELSE failed' = failed \cup {"assert"} /\ UNCHANGED told
  /\ Return(t)
  /\ UNCHANGED <<peasants, mru, quitting, life, named, boundVars>>

-----------------------------------------------------------------------------
\* A process dies.  (Without the monarch's there is no Monarch to model.)
Kill(w) ==
  /\ MayKill
  /\ w # Own /\ Alive(w)
  /\ life' = [life EXCEPT ![w] = "dead"]
  /\ named' = named \ {w}
  /\ UNCHANGED <<th, peasants, mru, quitting, told, failed, boundVars>>

\* The steps of a call that a thread has begun.
Step(t) ==
  \/ AddPeasant(t) \/ ActivateClear(t) \/ ActivateInsert(t) \/ CloseMru(t) \/ CloseErase(t)
  \/ GetPeasant(t) \/ AskPeasant(t) \/ DropPeasant(t) \/ ForgetPeasant(t) \/ TakeName(t)
  \/ LockMru(t) \/ FirstPeasant(t) \/ NextMru(t) \/ AskMru(t) \/ DropMru(t) \/ ForgetMru(t)
  \/ LockLoop(t) \/ (\E k \in Ids : VisitPeasant(t, k)) \/ PeasantAnswers(t)
  \/ PeasantDies(t) \/ EndLoop(t) \/ Sweep(t) \/ SweepMru(t) \/ Notify(t) \/ QuitOwn(t)

Arrive(t) ==
  \/ \E w \in Windows : BeginAdd(t, w) \/ BeginActivate(t, w) \/ BeginClose(t, w)
  \/ BeginId(t) \/ BeginMru(t) \/ BeginLoop(t) \/ BeginQuit(t)

Listed(w) == IdOf[w] \in DOMAIN peasants /\ peasants[IdOf[w]] = w

\* cover[t]: the windows that have been open and in the tables, without a break,
\* since thread t locked _mruPeasants in _getMostRecentPeasantID, or _peasants
\* in the loop of _handleQuitAll.
Covering(t) == \/ th[t].pc \in HoldM
               \/ /\ th[t].kind = "quit"
                  /\ th[t].pc \in HoldP \cup {"sweep", "sweepMru", "notify", "ownQuit"}
Steady(t) == {w \in Windows : /\ life[w] = "open"
                              /\ Listed(w)
                              /\ \/ th[t].kind = "quit"
                                 \/ \E i \in 1..Len(mru) : mru[i].id = IdOf[w]}
Track ==
  cover' = [t \in Threads |-> IF ~Covering(t)' THEN {}
                              ELSE IF Covering(t) THEN cover[t] \cap Steady(t)'
                              ELSE Steady(t)']

Next == /\ \/ \E t \in Threads : Step(t) \/ Arrive(t)
           \/ \E w \in Windows : Kill(w)
        /\ Track

Spec == Init /\ [][Next]_vars

\* A thread that can go on does (every step of a call changes th).  Nobody has to
\* make a call.
FairSpec == Spec /\ \A t \in Threads : WF_th(Step(t))

-----------------------------------------------------------------------------
TypeOK ==
  /\ th \in [Threads -> [pc : Locs, kind : Kinds, who : Windows \cup {None},
                         win : Windows \cup {None}, key : Ids \cup {0}, time : Nat,
                         at : Nat \ {0}, todo : SUBSET Ids, doomed : SUBSET Ids,
                         unfit : SUBSET Ids]]
  /\ DOMAIN peasants \subseteq Ids
  /\ \A k \in DOMAIN peasants : peasants[k] \in Windows /\ IdOf[peasants[k]] = k
  /\ mru \in Seq([id : Ids, time : Nat])
  /\ quitting \in BOOLEAN
  /\ life \in [Windows -> {"new", "adding", "open", "closing", "closed", "leaving", "dead"}]
  /\ named \subseteq Windows /\ told \subseteq Windows
  /\ failed \subseteq {"assert", "terminate"}
  /\ clock \in Nat /\ calls \in Nat
  /\ cover \in [Threads -> SUBSET Windows]

\* _mruPeasants stays in the order of the activations, the latest first, in
\* whatever order the concurrent activations get to insert themselves.
MruSorted ==
  \A i, j \in 1..Len(mru) : i < j => mru[i].time >= mru[j].time

\* When the loop of _getMostRecentPeasantID ends, it has found a window if there
\* is one that is fit and was open and known all through the loop, and then one
\* that no such window comes before: whatever dies, closes, registers or is
\* activated meanwhile.
MostRecentFirst ==
  [][\A t \in Threads :
       th[t].pc \in HoldM /\ th'[t].pc \in {"get", "mruForget"} =>
         \A w \in cover[t] : IdOf[w] \notin th[t].unfit =>
           \E i \in 1..Len(mru) : /\ mru[i].id = th'[t].key
                                  /\ \A j \in 1..(i - 1) : mru[j].id # IdOf[w]]_vars

\* _peasants holds the windows that are open, no matter which others die and
\* are cleaned up meanwhile, if no other window has or had their id; and a window
\* that has signalled its close is not in it, unless everybody is quitting: no
\* thread puts it back.
OwnId(w) == \A v \in Windows \ {w} : IdOf[v] # IdOf[w]
TableFollowsWindows ==
  /\ \A w \in Windows : life[w] = "open" /\ OwnId(w) => Listed(w)
  /\ \A w \in Windows : life[w] \in {"closed", "leaving"} /\ Listed(w) => quitting

\* _handleQuitAll tells the monarch's own window last: by then some quit has
\* told every other window that was there when its loop began and is still.
OwnQuitsLast ==
  [][(Own \in told' \ told) =>
       \E t \in Threads : th[t].kind = "quit" /\ cover[t] \ {Own} \subseteq told]_vars

\* Every call on the Monarch returns: the nesting of the two mutexes, readers
\* that queue behind writers and calls under a lock leave nobody waiting.  Calls
\* are few, so that all threads are done again and again.
CallsEnd == []<>(\A t \in Threads : At(t, "idle"))

\* Every call returns as long as no thread is in GetAllWindowLayouts, or saves the
\* layouts for a window that closes.
OtherCallsEnd ==
  []<>(\/ \A t \in Threads : At(t, "idle")
       \/ \E t \in Threads : th[t].kind \in {"layout", "save"})

=============================================================================
