------------------------ MODULE MonarchTablesProofs ------------------------
(***************************************************************************)
(* Proofs about MonarchTables, for any threads and windows, any ids (also  *)
(* shared ones) and any number of calls and activations.                   *)
(*                                                                         *)
(* The inductive invariant IInv says of every thread what its locals mean  *)
(* (Local): a loop over a table has passed nothing that it should have     *)
(* seen, and what it means to throw out belongs to the dead.  The lemma    *)
(* StepKeeps says what a step has to show for that to stay: that it takes  *)
(* a lock before it changes a table, and keeps the dead dead.  There is a  *)
(* lemma "...Keeps" for every action.                                      *)
(***************************************************************************)
EXTENDS MonarchTables, TLAPS

-----------------------------------------------------------------------------
(* The inductive invariant.                                                *)

\* Zenon proves what follows, unless a step names another prover.
USE Zenon

Entry == [id : Ids, time : Nat]
Sorted(s) == \A i, j \in 1..Len(s) : i < j => s[i].time >= s[j].time

LEMMA Elements ==
  ASSUME NEW E, NEW s \in Seq(E)
  PROVE  Len(s) \in Nat /\ DOMAIN s = 1..Len(s) /\ \A i \in 1..Len(s) : s[i] \in E
BY SMT

LEMMA Times ==
  ASSUME NEW s \in Seq(Entry)
  PROVE  /\ Len(s) \in Nat
         /\ \A i \in 1..Len(s) : s[i] \in Entry /\ s[i].time \in Nat
<1>1. \A e \in Entry : e.time \in Nat
    BY SMT DEF Entry
<1> QED BY <1>1, Elements

Call == [pc : Locs, kind : Kinds, who : Windows \cup {None}, win : Windows \cup {None},
         key : Ids \cup {0}, time : Nat, at : Nat \ {0}, todo : SUBSET Ids,
         doomed : SUBSET Ids, unfit : SUBSET Ids]

\* A thread without a call has no locals.
Idling(l) == l.pc = "idle" => l = Idle

\* The loop over _mruPeasants has passed no window that is fit and was there all
\* along (C); what it asks is the window of the entry it has come to.
Scanning(l, C) ==
  /\ l.pc \notin HoldM => l.at = 1
  /\ l.pc \in {"mruLock", "mru", "mruAsk", "mruDrop"} => l.kind = "mru"
  /\ l.pc \in HoldM =>
       \A w \in C : IdOf[w] \notin l.unfit => \A j \in 1..(l.at - 1) : mru[j].id # IdOf[w]
  /\ l.pc \in {"mruAsk", "mruDrop"} =>
       /\ l.at \in 1..Len(mru)
       /\ l.win \in Windows /\ IdOf[l.win] = mru[l.at].id
       /\ \A w \in C : IdOf[w] = mru[l.at].id => l.win = w
  /\ l.pc = "mruDrop" => life[l.win] = "dead"

\* What a thread is about to take out of _peasants belongs to the dead.
Dropping(l) ==
  /\ l.pc \in {"ask", "drop"} => l.win \in Windows /\ IdOf[l.win] = l.key
  /\ l.pc = "drop" => life[l.win] = "dead"
  /\ l.pc \in {"loop", "each", "call", "callUi", "sweep"} =>
       \A k \in l.doomed : \E v \in Windows : IdOf[v] = k /\ life[v] = "dead"

\* The ids that a loop has yet to visit stay in _peasants.
Looping(l) == l.pc \in HoldP => l.todo \subseteq DOMAIN peasants

\* A quit has told, is about to visit or is telling every window that was there
\* when its loop began and is still (C).
Telling(l, C) ==
  /\ l.pc = "ownQuit" => l.kind = "quit"
  /\ l.pc \in {"call", "callUi"} => l.win \in Windows
  /\ l.kind = "quit" =>
       /\ l.pc # "callUi"
       /\ l.pc \in {"each", "call"} =>
            \A w \in C \ {Own} : \/ w \in told \/ IdOf[w] \in l.todo
                                 \/ l.pc = "call" /\ l.win = w
       /\ l.pc \in {"sweep", "sweepMru", "notify", "ownQuit"} =>
            \A w \in C \ {Own} : w \in told

\* The window for which a thread works is as far as the call.
Working(l) ==
  /\ l.pc = "grant" => l.kind = "rename"
  /\ l.kind = "rename" => l.who \in Windows
  /\ l.pc \in {"activateClear", "activateInsert"} => l.who \in Windows
  /\ l.pc = "add" => /\ l.kind = "add" /\ l.who \in Windows
                     /\ life[l.who] \in {"adding", "dead"}
  /\ l.pc \in {"closeMru", "closeErase"} => /\ l.kind = "close" /\ l.who \in Windows
                                            /\ life[l.who] \in {"closing", "leaving", "dead"}

Local(l, C) == /\ Idling(l) /\ Scanning(l, C) /\ Dropping(l)
               /\ Looping(l) /\ Telling(l, C) /\ Working(l)
Locals == \A t \in Threads : Local(th[t], cover[t])

\* No two threads add, or close, the same window.
Clash(l, m) == /\ l.who = m.who
               /\ \/ l.pc = "add" /\ m.pc = "add"
                  \/ l.pc \in {"closeMru", "closeErase"} /\ m.pc \in {"closeMru", "closeErase"}
OneEach == \A t, u \in Threads : Clash(th[t], th[u]) => t = u

\* Only a thread that watches has windows to cover, and those are in the tables.
Covered == \A t \in Threads : cover[t] \subseteq Steady(t) /\ (cover[t] # {} => Covering(t))

IInv == TypeOK /\ Locals /\ OneEach /\ Covered /\ MruSorted /\ TableFollowsWindows

-----------------------------------------------------------------------------
(* What every step has to show.                                            *)

TableOK == /\ DOMAIN peasants \subseteq Ids
           /\ \A k \in DOMAIN peasants : peasants[k] \in Windows /\ IdOf[peasants[k]] = k
LifeOK == life \in [Windows -> {"new", "adding", "open", "closing", "closed", "leaving", "dead"}]
FlagsOK == /\ quitting \in BOOLEAN
           /\ named \subseteq Windows /\ told \subseteq Windows
           /\ failed \subseteq {"assert", "terminate"}
           /\ clock \in Nat /\ calls \in Nat

LEMMA TypeParts ==
  TypeOK <=> /\ th \in [Threads -> Call] /\ TableOK /\ mru \in Seq(Entry) /\ LifeOK
             /\ FlagsOK /\ cover \in [Threads -> SUBSET Windows]
<1> QED BY DEF TypeOK, Call, TableOK, Entry, LifeOK, FlagsOK

\* Covering(t), of the locals.
Watching(l) == \/ l.pc \in HoldM
               \/ l.kind = "quit" /\ l.pc \in HoldP \cup {"sweep", "sweepMru", "notify", "ownQuit"}

\* What a thread with the locals l may cover.
Tracked(l, C) == /\ C # {} => Watching(l)
                 /\ \A w \in C : life[w] = "open" /\ Listed(w)

\* A step keeps what is known of a thread that does not take it.
LEMMA LocalStays ==
  ASSUME NEW l, NEW C, NEW D \in SUBSET C, Local(l, C),
         \A w \in Windows : life[w] = "dead" => life'[w] = "dead",
         told \subseteq told',
         mru' = mru \/ l.pc \notin HoldM,
         peasants' = peasants \/ l.pc \notin HoldP,
         Working(l)'
  PROVE  Local(l, D)'
<1>1. Idling(l)'
    BY DEF Local, Idling, Idle
<1>2. Scanning(l, D)'
  <2>1. CASE l.pc \in HoldM
    <3>1. mru' = mru
      BY <2>1
    <3>2. l.pc = "mruDrop" => life'[l.win] = "dead"
      BY DEF Local, Scanning
    <3> QED BY <2>1, <3>1, <3>2 DEF Local, Scanning
  <2>2. CASE l.pc \notin HoldM
    BY <2>2 DEF Local, Scanning, HoldM
  <2> QED BY <2>1, <2>2
<1>3. Dropping(l)'
    BY DEF Local, Dropping
<1>4. Looping(l)'
    BY DEF Local, Looping
<1>5. Telling(l, D)'
    BY DEF Local, Telling
<1> QED BY <1>1, <1>2, <1>3, <1>4, <1>5 DEF Local

\* The bookkeeping of Track: while a thread covers windows it only loses some.
LEMMA TrackCovers ==
  ASSUME Track
  PROVE  /\ cover' \in [Threads -> SUBSET Windows]
         /\ Covered'
         /\ \A t \in Threads : Covering(t) \/ ~Covering(t)' => cover'[t] \subseteq cover[t]
<1>1. cover' = [t \in Threads |-> IF ~Covering(t)' THEN {}
                                  ELSE IF Covering(t) THEN cover[t] \cap Steady(t)'
                                  ELSE Steady(t)']
    BY DEF Track
<1>2. \A t \in Threads : Steady(t)' \subseteq Windows
    BY DEF Steady
<1>3. ASSUME NEW t \in Threads
      PROVE  /\ cover'[t] \subseteq Steady(t)'
             /\ cover'[t] # {} => Covering(t)'
             /\ Covering(t) \/ ~Covering(t)' => cover'[t] \subseteq cover[t]
  <2>1. CASE ~Covering(t)'
    <3>1. cover'[t] = {}
      BY <1>1, <2>1
    <3> QED BY <2>1, <3>1
  <2>2. CASE Covering(t)' /\ Covering(t)
    <3>1. cover'[t] = cover[t] \cap Steady(t)'
      BY <1>1, <2>2
    <3> QED BY <2>2, <3>1
  <2>3. CASE Covering(t)' /\ ~Covering(t)
    <3>1. cover'[t] = Steady(t)'
      BY <1>1, <2>3
    <3> QED BY <2>3, <3>1
  <2> QED BY <2>1, <2>2, <2>3
<1>4. cover' \in [Threads -> SUBSET Windows]
  <2>1. \A t \in Threads : cover'[t] \in SUBSET Windows
    BY <1>2, <1>3
  <2>2. cover' = [t \in Threads |-> cover'[t]]
    BY <1>1
  <2> QED BY <2>1, <2>2
<1> QED BY <1>3, <1>4 DEF Covered

\* The locals of a thread after a step, by their names.
LEMMA LocalIs ==
  ASSUME NEW t, NEW l, NEW C, th'[t] = l, cover'[t] = C, Local(l, C)'
  PROVE  Local(th[t], cover[t])'
<1>1. Idling(th[t])'
    BY DEF Local, Idling
<1>2. Scanning(th[t], cover[t])'
    BY DEF Local, Scanning
<1>3. Dropping(th[t])'
    BY DEF Local, Dropping
<1>4. Looping(th[t])'
    BY DEF Local, Looping
<1>5. Telling(th[t], cover[t])'
    BY DEF Local, Telling
<1>6. Working(th[t])'
    BY DEF Local, Working
<1> QED BY <1>1, <1>2, <1>3, <1>4, <1>5, <1>6 DEF Local

\* A step of thread t, to the locals l.
LEMMA StepKeeps ==
  ASSUME IInv, Track, NEW t \in Threads, NEW l \in Call, th' = [th EXCEPT ![t] = l],
         TableOK', mru' \in Seq(Entry), LifeOK', FlagsOK',
         \A w \in Windows : life[w] = "dead" => life'[w] = "dead",
         told \subseteq told',
         mru' = mru \/ FreeM,
         peasants' = peasants \/ FreeP,
         \A u \in Threads \ {t} : Working(th[u])',
         \A u \in Threads \ {t} : ~Clash(l, th[u]),
         \A C \in SUBSET Windows :
           (Watching(th[t]) => C \subseteq cover[t]) /\ Tracked(l, C)' => Local(l, C)',
         MruSorted', TableFollowsWindows'
  PROVE  IInv'
<1>1. th \in [Threads -> Call] /\ Locals /\ OneEach /\ Covered
    BY TypeParts DEF IInv
<1>2. /\ th' \in [Threads -> Call] /\ th'[t] = l
      /\ \A u \in Threads \ {t} : th'[u] = th[u]
    BY <1>1
<1>3. /\ cover' \in [Threads -> SUBSET Windows]
      /\ Covered'
      /\ \A u \in Threads : Covering(u) \/ ~Covering(u)' => cover'[u] \subseteq cover[u]
    BY TrackCovers
<1>4. TypeOK'
    BY <1>2, <1>3 DEF TypeOK, Call, TableOK, Entry, LifeOK, FlagsOK
<1>5. ASSUME NEW u \in Threads \ {t} PROVE Local(th[u], cover[u])'
  <2>1. PICK m : m = th[u]
    OBVIOUS
  <2>2. PICK C : C = cover[u]
    OBVIOUS
  <2>3. PICK D : D = cover'[u]
    OBVIOUS
  <2>4. th'[u] = m
    BY <1>2, <2>1
  <2>5. D \in SUBSET C
    BY <1>3, <2>1, <2>2, <2>3, <2>4 DEF Covering
  <2>6. Local(m, C) /\ Working(m)'
    BY <1>1, <2>1, <2>2, <2>4 DEF Locals, Working
  <2>7. (mru' = mru \/ m.pc \notin HoldM) /\ (peasants' = peasants \/ m.pc \notin HoldP)
    BY <2>1 DEF FreeM, FreeP
  <2>8. Local(m, D)'
    BY <2>5, <2>6, <2>7, LocalStays
  <2> QED BY <2>3, <2>4, <2>8, LocalIs
<1>6. Local(th[t], cover[t])'
  <2>1. PICK C : C = cover'[t]
    OBVIOUS
  <2>2. C \in SUBSET Windows /\ (Watching(th[t]) => C \subseteq cover[t])
    BY <1>3, <2>1 DEF Covering, Watching
  <2>3. Tracked(l, C)'
    <3>1. C \subseteq Steady(t)' /\ (C # {} => Covering(t)')
      BY <1>3, <2>1 DEF Covered
    <3> QED BY <1>2, <3>1 DEF Tracked, Covering, Watching, Steady
  <2>4. Local(l, C)'
    BY <2>2, <2>3
  <2> QED BY <1>2, <2>1, <2>4, LocalIs
<1>7. Locals'
    BY <1>5, <1>6 DEF Locals
<1>8. OneEach'
  <2>1. ASSUME NEW u \in Threads, NEW v \in Threads, Clash(th'[u], th'[v]) PROVE u = v
    <3>1. CASE u = t
      BY <1>2, <2>1, <3>1
    <3>2. CASE v = t
      BY <1>2, <2>1, <3>2 DEF Clash
    <3>3. CASE u # t /\ v # t
      BY <1>1, <1>2, <2>1, <3>3 DEF OneEach
    <3> QED BY <3>1, <3>2, <3>3
  <2> QED BY <2>1 DEF OneEach, Clash
<1> QED BY <1>3, <1>4, <1>7, <1>8 DEF IInv

LEMMA TableSame ==
  ASSUME TableOK, TableFollowsWindows, peasants' = peasants, life' = life,
         quitting => quitting'
  PROVE  TableOK' /\ TableFollowsWindows'
<1>1. TableOK'
    BY DEF TableOK
<1>2. TableFollowsWindows'
    BY DEF TableFollowsWindows, Listed, OwnId
<1> QED BY <1>1, <1>2

\* A step that changes neither the tables nor the windows, and is not the begin
\* of an addition or a close.
LEMMA QuietStep ==
  ASSUME IInv, Track, NEW t \in Threads, NEW l \in Call, th' = [th EXCEPT ![t] = l],
         UNCHANGED <<peasants, mru, life>>, FlagsOK', told \subseteq told',
         quitting => quitting',
         l.pc \notin {"add", "closeMru", "closeErase"},
         \A C \in SUBSET Windows :
           (Watching(th[t]) => C \subseteq cover[t]) /\ Tracked(l, C) => Local(l, C)'
  PROVE  IInv'
<1>1. /\ th \in [Threads -> Call] /\ Locals /\ TableOK /\ mru \in Seq(Entry) /\ LifeOK
      /\ MruSorted /\ TableFollowsWindows
    BY TypeParts DEF IInv
<1>2. peasants' = peasants /\ mru' = mru /\ life' = life
    OBVIOUS
<1>3. mru' \in Seq(Entry) /\ LifeOK' /\ MruSorted'
    BY <1>1, <1>2 DEF LifeOK, MruSorted
<1>4. TableOK' /\ TableFollowsWindows'
    BY <1>1, <1>2, TableSame
<1>5. \A u \in Threads \ {t} : Working(th[u])'
  <2>1. \A u \in Threads \ {t} : th'[u] = th[u]
    BY <1>1
  <2> QED BY <1>1, <1>2, <2>1 DEF Locals, Local, Working
<1>6. \A u \in Threads \ {t} : ~Clash(l, th[u])
    BY DEF Clash
<1>7. \A C : Tracked(l, C)' => Tracked(l, C)
    BY <1>2 DEF Tracked, Listed, Watching
<1> QED BY <1>2, <1>3, <1>4, <1>5, <1>6, <1>7, StepKeeps

-----------------------------------------------------------------------------
(* Facts for the steps.                                                    *)

LEMMA Names ==
  /\ {"idle", "loop", "mruLock", "first", "get", "ask", "notify", "grant", "ownQuit"} \subseteq Locs
  /\ {"each", "call", "callUi", "mru", "mruAsk", "mruDrop"} \subseteq Locs
  /\ {"add", "closeErase", "drop", "sweep", "activateClear", "activateInsert"} \subseteq Locs
  /\ {"closeMru", "forget", "mruForget", "sweepMru"} \subseteq Locs
  /\ {"none", "add", "activate", "close", "save"} \subseteq Kinds
  /\ {"mru", "id", "name", "rename", "each", "layout", "quit"} \subseteq Kinds
<1> QED BY DEF Locs, HoldP, HoldM, WantP, WantM, Kinds

LEMMA Known ==
  ASSUME IInv, NEW t \in Threads
  PROVE  /\ th \in [Threads -> Call] /\ th[t] \in Call /\ Local(th[t], cover[t])
         /\ TableOK /\ mru \in Seq(Entry) /\ LifeOK /\ FlagsOK
         /\ MruSorted /\ TableFollowsWindows
<1>1. th \in [Threads -> Call] /\ Locals
    BY TypeParts DEF IInv
<1> QED BY <1>1, TypeParts DEF IInv, Locals

LEMMA IdleCall ==
  Idle \in Call
<1>1. "idle" \in Locs /\ "none" \in Kinds
    BY Names
<1>2. None \in Windows \cup {None} /\ 0 \in Ids \cup {0} /\ {} \in SUBSET Ids
    OBVIOUS
<1> QED BY <1>1, <1>2, SMT DEF Idle, Call

LEMMA IdleLocal ==
  ASSUME NEW C PROVE Local(Idle, C)'
<1>1. /\ Idle.pc = "idle" /\ Idle.kind = "none" /\ Idle.at = 1
    BY SMT DEF Idle
<1>2. Scanning(Idle, C)'
    BY <1>1 DEF Scanning, HoldM
<1>3. Idling(Idle)'
    BY DEF Idling, Idle
<1>4. Dropping(Idle)'
    BY <1>1 DEF Dropping
<1>5. Looping(Idle)'
    BY <1>1 DEF Looping, HoldP
<1>6. Telling(Idle, C)'
    BY <1>1 DEF Telling
<1>7. Working(Idle)'
    BY <1>1 DEF Working
<1> QED BY <1>2, <1>3, <1>4, <1>5, <1>6, <1>7 DEF Local

LEMMA IdleClash ==
  \A m : ~Clash(Idle, m)
<1>1. Idle.pc = "idle"
    BY SMT DEF Idle
<1> QED BY <1>1 DEF Clash

\* A thread that works for a window goes on where the window does not change.
LEMMA WorkOn ==
  ASSUME NEW l, Working(l),
         l.pc \in {"add", "closeMru", "closeErase"} =>
           life'[l.who] = life[l.who] \/ life'[l.who] = "dead"
  PROVE  Working(l)'
<1>1. l.pc = "add" => life'[l.who] \in {"adding", "dead"}
    BY DEF Working
<1>2. l.pc \in {"closeMru", "closeErase"} => life'[l.who] \in {"closing", "leaving", "dead"}
    BY DEF Working
<1> QED BY <1>1, <1>2 DEF Working

LEMMA WorkStays ==
  ASSUME IInv, NEW t \in Threads, NEW l, th' = [th EXCEPT ![t] = l],
         \A u \in Threads \ {t} : th[u].pc \in {"add", "closeMru", "closeErase"} =>
           life'[th[u].who] = life[th[u].who] \/ life'[th[u].who] = "dead"
  PROVE  \A u \in Threads \ {t} : Working(th[u])'
<1> SUFFICES ASSUME NEW u \in Threads \ {t} PROVE Working(th[u])'
    OBVIOUS
<1>1. th'[u] = th[u] /\ Working(th[u])
    BY Known DEF Local
<1>2. PICK m : m = th[u]
    OBVIOUS
<1>3. Working(m) /\ (m.pc \in {"add", "closeMru", "closeErase"} =>
                       life'[m.who] = life[m.who] \/ life'[m.who] = "dead")
    BY <1>1, <1>2
<1>4. Working(m)'
    BY <1>3, WorkOn
<1> QED BY <1>1, <1>2, <1>4 DEF Working

\* A step on the tables alone.
LEMMA TableStep ==
  ASSUME IInv, Track, NEW t \in Threads, NEW l \in Call, th' = [th EXCEPT ![t] = l],
         UNCHANGED <<quitting, windowVars, failed, boundVars>>,
         \/ peasants' = peasants /\ mru' \in Seq(Entry) /\ MruSorted' /\ FreeM
         \/ mru' = mru /\ TableOK' /\ TableFollowsWindows' /\ FreeP,
         \A u \in Threads \ {t} : ~Clash(l, th[u]),
         \A C \in SUBSET Windows :
           (Watching(th[t]) => C \subseteq cover[t]) /\ Tracked(l, C)' => Local(l, C)'
  PROVE  IInv'
<1>1. /\ quitting' = quitting /\ life' = life /\ named' = named /\ told' = told
      /\ failed' = failed /\ clock' = clock /\ calls' = calls
    BY DEF windowVars, boundVars
<1>2. LifeOK' /\ FlagsOK'
    BY <1>1, Known DEF LifeOK, FlagsOK
<1>3. \A u \in Threads \ {t} : Working(th[u])'
    BY <1>1, WorkStays
<1>4. mru' \in Seq(Entry) /\ MruSorted'
    BY Known DEF MruSorted
<1>5. TableOK' /\ TableFollowsWindows'
  <2>1. CASE peasants' = peasants
    <3>1. TableOK /\ TableFollowsWindows
      BY Known
    <3>2. quitting => quitting'
      BY <1>1, SMT
    <3> QED BY <1>1, <2>1, <3>1, <3>2, TableSame
  <2> QED BY <2>1
<1>6. (mru' = mru \/ FreeM) /\ (peasants' = peasants \/ FreeP)
    OBVIOUS
<1> QED BY <1>1, <1>2, <1>3, <1>4, <1>5, <1>6, StepKeeps

\* To throw out the ids of the dead keeps the table in step with the windows.
LEMMA EraseKeeps ==
  ASSUME NEW keys, TableOK, TableFollowsWindows, peasants' = Erase(peasants, keys),
         life' = life, quitting' = quitting,
         \A k \in keys : \E v \in Windows : IdOf[v] = k /\ life[v] = "dead"
  PROVE  TableOK' /\ TableFollowsWindows'
<1>1. /\ DOMAIN peasants' = DOMAIN peasants \ keys
      /\ \A k \in DOMAIN peasants' : peasants'[k] = peasants[k]
    BY DEF Erase
<1>2. TableOK'
    BY <1>1 DEF TableOK
<1>3. ASSUME NEW w \in Windows, life[w] = "open", OwnId(w) PROVE Listed(w)'
  <2>1. Listed(w)
    BY <1>3 DEF TableFollowsWindows
  <2>2. IdOf[w] \notin keys
    BY <1>3 DEF OwnId
  <2> QED BY <1>1, <2>1, <2>2 DEF Listed
<1>4. ASSUME NEW w \in Windows, Listed(w)' PROVE Listed(w)
    BY <1>1, <1>4 DEF Listed
<1> QED BY <1>2, <1>3, <1>4 DEF TableFollowsWindows, OwnId

-----------------------------------------------------------------------------
(* The steps that leave the list of activations as it is.                  *)

LEMMA Begins ==
  ASSUME IInv, NEW t \in Threads, At(t, "idle")
  PROVE  th[t] = Idle /\ ~Watching(th[t])
<1>1. th[t] = Idle
    BY Known DEF At, Local, Idling
<1>2. Idle.pc = "idle" /\ Idle.kind = "none"
    BY SMT DEF Idle
<1> QED BY <1>1, <1>2 DEF Watching, HoldM

LEMMA BegunFlags ==
  ASSUME IInv, NEW t \in Threads, NEW kind, Begin(t, kind), UNCHANGED <<windowVars, failed>>,
         quitting' \in BOOLEAN
  PROVE  FlagsOK'
<1>1. FlagsOK
    BY Known
<1>2. calls' \in Nat
    BY <1>1, SMT DEF Begin, FlagsOK
<1> QED BY <1>1, <1>2 DEF Begin, FlagsOK, windowVars

LEMMA BeginIdKeeps ==
  ASSUME IInv, Track, NEW t \in Threads, BeginId(t)
  PROVE  IInv'
<1>1. PICK k \in Ids : th' = [th EXCEPT ![t].pc = "get", ![t].kind = "id", ![t].key = k]
    BY DEF BeginId
<1>2. th[t] = Idle /\ th \in [Threads -> Call]
    BY Begins, Known DEF BeginId, Begin
<1>3. PICK l : l = [Idle EXCEPT !.pc = "get", !.kind = "id", !.key = k]
    OBVIOUS
<1>4. l \in Call /\ l.pc = "get" /\ l.kind = "id" /\ l.at = 1
  <2>1. "get" \in Locs /\ "id" \in Kinds /\ Idle \in Call
    BY Names, IdleCall
  <2> QED BY <1>3, <2>1 DEF Call, Idle
<1>5. th' = [th EXCEPT ![t] = l]
    BY <1>1, <1>2, <1>3
<1>6. \A C : Local(l, C)'
    BY <1>4 DEF Local, Idling, Scanning, Dropping, Looping, Telling, Working, HoldM, HoldP
<1>7. UNCHANGED <<peasants, mru, life, told, quitting>> /\ FlagsOK'
    BY BegunFlags, Known DEF BeginId, windowVars, FlagsOK
<1> QED BY <1>4, <1>5, <1>6, <1>7, QuietStep

LEMMA BeginMruKeeps ==
  ASSUME IInv, Track, NEW t \in Threads, BeginMru(t)
  PROVE  IInv'
<1>1. PICK u \in SUBSET Ids :
        th' = [th EXCEPT ![t].pc = "mruLock", ![t].kind = "mru", ![t].unfit = u]
    BY DEF BeginMru
<1>2. th[t] = Idle /\ th \in [Threads -> Call]
    BY Begins, Known DEF BeginMru, Begin
<1>3. PICK l : l = [Idle EXCEPT !.pc = "mruLock", !.kind = "mru", !.unfit = u]
    OBVIOUS
<1>4. l \in Call /\ l.pc = "mruLock" /\ l.kind = "mru" /\ l.at = 1
  <2>1. "mruLock" \in Locs /\ "mru" \in Kinds /\ Idle \in Call
    BY Names, IdleCall
  <2> QED BY <1>3, <2>1 DEF Call, Idle
<1>5. th' = [th EXCEPT ![t] = l]
    BY <1>1, <1>2, <1>3
<1>6. \A C : Local(l, C)'
    BY <1>4 DEF Local, Idling, Scanning, Dropping, Looping, Telling, Working, HoldM, HoldP
<1>7. UNCHANGED <<peasants, mru, life, told, quitting>> /\ FlagsOK'
    BY BegunFlags, Known DEF BeginMru, windowVars, FlagsOK
<1> QED BY <1>4, <1>5, <1>6, <1>7, QuietStep

LEMMA BeginLoopKeeps ==
  ASSUME IInv, Track, NEW t \in Threads, BeginLoop(t)
  PROVE  IInv'
<1>1. PICK kind \in {"each", "name", "rename", "layout"}, w \in Windows \cup {None} :
        /\ Begin(t, kind)
        /\ kind = "rename" <=> w # None
        /\ th' = [th EXCEPT ![t].pc = "loop", ![t].kind = kind, ![t].who = w]
    BY DEF BeginLoop
<1>2. th[t] = Idle /\ th \in [Threads -> Call]
    BY <1>1, Begins, Known DEF Begin
<1>3. PICK l : l = [Idle EXCEPT !.pc = "loop", !.kind = kind, !.who = w]
    OBVIOUS
<1>4. /\ l \in Call /\ l.pc = "loop" /\ l.kind = kind /\ l.who = w
      /\ l.at = 1 /\ l.doomed = {}
  <2>1. "loop" \in Locs /\ kind \in Kinds /\ Idle \in Call
    BY Names, IdleCall
  <2> QED BY <1>3, <2>1 DEF Call, Idle
<1>5. th' = [th EXCEPT ![t] = l]
    BY <1>1, <1>2, <1>3
<1>6. kind # "quit" /\ (kind = "rename" => w \in Windows)
    BY <1>1
<1>7. \A C : Local(l, C)'
    BY <1>4, <1>6
       DEF Local, Idling, Scanning, Dropping, Looping, Telling, Working, HoldM, HoldP
<1>8. UNCHANGED <<peasants, mru, life, told, quitting>> /\ FlagsOK'
    BY <1>1, BegunFlags, Known DEF BeginLoop, windowVars, FlagsOK
<1> QED BY <1>4, <1>5, <1>7, <1>8, QuietStep

LEMMA BeginQuitKeeps ==
  ASSUME IInv, Track, NEW t \in Threads, BeginQuit(t)
  PROVE  IInv'
<1>1. PICK kind \in {"save", "quit"} :
        th' = [th EXCEPT ![t].pc = "loop", ![t].kind = kind]
    BY DEF BeginQuit
<1>2. th[t] = Idle /\ th \in [Threads -> Call]
    BY Begins, Known DEF BeginQuit, Begin
<1>3. PICK l : l = [Idle EXCEPT !.pc = "loop", !.kind = kind]
    OBVIOUS
<1>4. /\ l \in Call /\ l.pc = "loop" /\ l.kind # "rename" /\ l.at = 1 /\ l.doomed = {}
  <2>1. "loop" \in Locs /\ kind \in Kinds /\ kind # "rename" /\ Idle \in Call
    BY Names, IdleCall
  <2> QED BY <1>3, <2>1 DEF Call, Idle
<1>5. th' = [th EXCEPT ![t] = l]
    BY <1>1, <1>2, <1>3
<1>6. \A C : Local(l, C)'
    BY <1>4 DEF Local, Idling, Scanning, Dropping, Looping, Telling, Working, HoldM, HoldP
<1>7. /\ UNCHANGED <<peasants, mru, life, told>> /\ (quitting => quitting')
      /\ quitting' \in BOOLEAN
  <2>1. UNCHANGED <<peasants, mru, life, told>> /\ (quitting' = quitting \/ quitting' = TRUE)
    BY DEF BeginQuit, windowVars
  <2>2. quitting \in BOOLEAN
    BY Known DEF FlagsOK
  <2>3. CASE quitting' = quitting
    BY <2>1, <2>2, <2>3
  <2>4. CASE quitting' = TRUE
    BY <2>1, <2>4
  <2> QED BY <2>1, <2>3, <2>4
<1>8. FlagsOK'
    BY <1>7, BegunFlags DEF BeginQuit
<1> QED BY <1>4, <1>5, <1>6, <1>7, <1>8, QuietStep

LEMMA BeginActivateKeeps ==
  ASSUME IInv, Track, NEW t \in Threads, NEW w \in Windows, BeginActivate(t, w)
  PROVE  IInv'
<1>1. th[t] = Idle /\ th \in [Threads -> Call] /\ FlagsOK
    BY Begins, Known DEF BeginActivate
<1>2. PICK l : l = [Idle EXCEPT !.pc = "activateClear", !.kind = "activate",
                                !.who = w, !.time = clock + 1]
    OBVIOUS
<1>3. /\ l \in Call /\ l.pc = "activateClear" /\ l.kind = "activate"
      /\ l.who = w /\ l.at = 1
  <2>1. "activateClear" \in Locs /\ "activate" \in Kinds /\ Idle \in Call
    BY Names, IdleCall
  <2>2. clock + 1 \in Nat
    BY <1>1, SMT DEF FlagsOK
  <2> QED BY <1>2, <2>1, <2>2 DEF Call, Idle
<1>4. th' = [th EXCEPT ![t] = l]
    BY <1>1, <1>2 DEF BeginActivate
<1>5. \A C : Local(l, C)'
    BY <1>3 DEF Local, Idling, Scanning, Dropping, Looping, Telling, Working, HoldM, HoldP
<1>6. UNCHANGED <<peasants, mru, life, told, quitting>> /\ FlagsOK'
  <2>1. clock' \in Nat
    BY <1>1, SMT DEF BeginActivate, FlagsOK
  <2> QED BY <1>1, <2>1 DEF BeginActivate, windowVars, FlagsOK
<1> QED BY <1>3, <1>4, <1>5, <1>6, QuietStep

\* The locals m at another location.
Moved(m, l, loc) ==
  /\ l.pc = loc /\ l.kind = m.kind /\ l.who = m.who /\ l.win = m.win /\ l.key = m.key
  /\ l.at = m.at /\ l.todo = m.todo /\ l.doomed = m.doomed /\ l.unfit = m.unfit

LEMMA Goes ==
  ASSUME IInv, NEW t \in Threads, NEW loc \in Locs, Goto(t, loc)
  PROVE  \E l \in Call : th' = [th EXCEPT ![t] = l] /\ Moved(th[t], l, loc)
<1>1. th \in [Threads -> Call] /\ th[t] \in Call
    BY Known
<1>2. PICK l : l = [th[t] EXCEPT !.pc = loc]
    OBVIOUS
<1>3. l \in Call /\ Moved(th[t], l, loc)
    BY <1>1, <1>2, SMT DEF Call, Moved
<1>4. th' = [th EXCEPT ![t] = l]
    BY <1>2 DEF Goto
<1> QED BY <1>3, <1>4

\* _getPeasant returns: the call is over, or a rename is granted.
LEMMA Founds ==
  ASSUME IInv, NEW t \in Threads, NEW w, Found(t, w), th[t].pc \notin HoldM
  PROVE  \E l \in Call : /\ th' = [th EXCEPT ![t] = l] /\ l.pc \in {"idle", "grant"}
                         /\ \A C : Local(l, C)'
<1>1. th \in [Threads -> Call] /\ th[t] \in Call /\ Local(th[t], cover[t])
    BY Known
<1>2. CASE th[t].kind = "rename" /\ w = None
  <2>1. PICK l : l = [th[t] EXCEPT !.pc = "grant", !.win = None]
    OBVIOUS
  <2>2. /\ l \in Call /\ l.pc = "grant"
        /\ l.kind = th[t].kind /\ l.who = th[t].who /\ l.at = th[t].at
    <3>1. "grant" \in Locs /\ None \in Windows \cup {None}
      BY Names
    <3> QED BY <1>1, <2>1, <3>1 DEF Call
  <2>3. th' = [th EXCEPT ![t] = l]
    BY <1>2, <2>1 DEF Found
  <2>4. l.kind = "rename" /\ l.who \in Windows /\ l.at = 1
    BY <1>1, <1>2, <2>2 DEF Local, Scanning, Working
  <2>5. \A C : Local(l, C)'
    BY <2>2, <2>4
       DEF Local, Idling, Scanning, Dropping, Looping, Telling, Working, HoldM, HoldP
  <2> QED BY <2>2, <2>3, <2>5
<1>3. CASE ~(th[t].kind = "rename" /\ w = None)
  <2>1. th' = [th EXCEPT ![t] = Idle] /\ Idle.pc = "idle"
    BY <1>3 DEF Found, Return, Idle
  <2> QED BY <2>1, IdleCall, IdleLocal
<1> QED BY <1>2, <1>3

\* The end of a step that leaves everything but the locals alone.
LEMMA LocalStep ==
  ASSUME IInv, Track, NEW t \in Threads, NEW l \in Call, th' = [th EXCEPT ![t] = l],
         UNCHANGED <<peasants, mru, quitting, windowVars, failed, boundVars>>,
         l.pc \notin {"add", "closeMru", "closeErase"},
         \A C \in SUBSET Windows :
           (Watching(th[t]) => C \subseteq cover[t]) /\ Tracked(l, C) => Local(l, C)'
  PROVE  IInv'
<1>1. /\ peasants' = peasants /\ mru' = mru /\ quitting' = quitting /\ life' = life
      /\ named' = named /\ told' = told /\ failed' = failed /\ clock' = clock /\ calls' = calls
    BY DEF windowVars, boundVars
<1>2. FlagsOK'
    BY <1>1, Known DEF FlagsOK
<1>3. quitting => quitting'
    BY <1>1, SMT
<1>4. UNCHANGED <<peasants, mru, life>> /\ told \subseteq told'
    BY <1>1
<1> QED BY <1>2, <1>3, <1>4, QuietStep

LEMMA GetPeasantKeeps ==
  ASSUME IInv, Track, NEW t \in Threads, GetPeasant(t)
  PROVE  IInv'
<1>1. /\ th \in [Threads -> Call] /\ th[t] \in Call /\ Local(th[t], cover[t]) /\ TableOK
      /\ th[t].pc = "get"
    BY Known DEF GetPeasant, At
<1>2. UNCHANGED <<peasants, mru, quitting, windowVars, failed, boundVars>>
    BY DEF GetPeasant
<1>3. CASE th[t].key \in DOMAIN peasants
  <2>1. PICK w : w = peasants[th[t].key]
    OBVIOUS
  <2>2. w \in Windows /\ IdOf[w] = th[t].key
    BY <1>1, <1>3, <2>1 DEF TableOK
  <2>3. PICK l : l = [th[t] EXCEPT !.pc = "ask", !.win = w]
    OBVIOUS
  <2>4. /\ l \in Call /\ l.pc = "ask" /\ l.win = w /\ l.key = th[t].key
        /\ l.kind = th[t].kind /\ l.who = th[t].who /\ l.at = th[t].at
    <3>1. "ask" \in Locs /\ w \in Windows \cup {None}
      BY <2>2, Names
    <3> QED BY <1>1, <2>3, <3>1 DEF Call
  <2>5. th' = [th EXCEPT ![t] = l]
    BY <1>3, <2>1, <2>3 DEF GetPeasant
  <2>6. l.at = 1 /\ (l.kind = "rename" => l.who \in Windows)
    BY <1>1, <2>4 DEF Local, Scanning, Working, HoldM
  <2>7. \A C : Local(l, C)'
    BY <2>2, <2>4, <2>6
       DEF Local, Idling, Scanning, Dropping, Looping, Telling, Working, HoldM, HoldP
  <2> QED BY <1>2, <2>4, <2>5, <2>7, LocalStep
<1>4. CASE th[t].key \notin DOMAIN peasants
  <2>1. Found(t, None) /\ th[t].pc \notin HoldM
    BY <1>1, <1>4 DEF GetPeasant, HoldM
  <2>2. PICK l \in Call : /\ th' = [th EXCEPT ![t] = l] /\ l.pc \in {"idle", "grant"}
                          /\ \A C : Local(l, C)'
    BY <2>1, Founds
  <2> QED BY <1>2, <2>2, LocalStep
<1> QED BY <1>3, <1>4

LEMMA AskPeasantKeeps ==
  ASSUME IInv, Track, NEW t \in Threads, AskPeasant(t)
  PROVE  IInv'
<1>1. Local(th[t], cover[t]) /\ th[t].pc = "ask"
    BY Known DEF AskPeasant, At
<1>2. UNCHANGED <<peasants, mru, quitting, windowVars, failed, boundVars>>
    BY DEF AskPeasant
<1>3. CASE Alive(th[t].win)
  <2>1. PICK w : w = th[t].win
    OBVIOUS
  <2>2. Found(t, w) /\ th[t].pc \notin HoldM
    BY <1>1, <1>3, <2>1 DEF AskPeasant, HoldM
  <2>3. PICK l \in Call : /\ th' = [th EXCEPT ![t] = l] /\ l.pc \in {"idle", "grant"}
                          /\ \A C : Local(l, C)'
    BY <2>2, Founds
  <2> QED BY <1>2, <2>3, LocalStep
<1>4. CASE ~Alive(th[t].win)
  <2>1. "drop" \in Locs /\ Goto(t, "drop") /\ life[th[t].win] = "dead"
    BY <1>4, Names DEF AskPeasant, Alive
  <2>2. PICK l \in Call : th' = [th EXCEPT ![t] = l] /\ Moved(th[t], l, "drop")
    BY <2>1, Goes
  <2>3. /\ l.pc = "drop" /\ l.at = 1 /\ l.win \in Windows /\ IdOf[l.win] = l.key
        /\ life[l.win] = "dead" /\ (l.kind = "rename" => l.who \in Windows)
    BY <1>1, <2>1, <2>2 DEF Moved, Local, Scanning, Dropping, Working, HoldM
  <2>4. life'[l.win] = "dead"
    BY <1>2, <2>3 DEF windowVars
  <2>5. \A C : Local(l, C)'
    BY <2>3, <2>4
       DEF Local, Idling, Scanning, Dropping, Looping, Telling, Working, HoldM, HoldP
  <2> QED BY <1>2, <2>2, <2>3, <2>5, LocalStep
<1> QED BY <1>3, <1>4

LEMMA DropPeasantKeeps ==
  ASSUME IInv, Track, NEW t \in Threads, DropPeasant(t)
  PROVE  IInv'
<1>1. Local(th[t], cover[t]) /\ th[t].pc = "drop" /\ TableOK /\ TableFollowsWindows
    BY Known DEF DropPeasant, At
<1>2. UNCHANGED <<quitting, windowVars, failed, boundVars>> /\ mru' = mru /\ FreeP
    BY DEF DropPeasant
<1>3. PICK keys : keys = {th[t].key}
    OBVIOUS
<1>4. TableOK' /\ TableFollowsWindows'
  <2>1. peasants' = Erase(peasants, keys) /\ life' = life /\ quitting' = quitting
    BY <1>3 DEF DropPeasant, windowVars
  <2>2. \A k \in keys : \E v \in Windows : IdOf[v] = k /\ life[v] = "dead"
    BY <1>1, <1>3 DEF Local, Dropping
  <2> QED BY <1>1, <2>1, <2>2, EraseKeeps
<1>5. "forget" \in Locs /\ Goto(t, "forget")
    BY Names DEF DropPeasant
<1>6. PICK l \in Call : th' = [th EXCEPT ![t] = l] /\ Moved(th[t], l, "forget")
    BY <1>5, Goes
<1>7. l.pc = "forget" /\ l.at = 1 /\ (l.kind = "rename" => l.who \in Windows)
    BY <1>1, <1>6 DEF Moved, Local, Scanning, Working, HoldM
<1>8. \A C : Local(l, C)'
    BY <1>7 DEF Local, Idling, Scanning, Dropping, Looping, Telling, Working, HoldM, HoldP
<1>9. \A u \in Threads \ {t} : ~Clash(l, th[u])
    BY <1>7 DEF Clash
<1> QED BY <1>2, <1>4, <1>6, <1>8, <1>9, TableStep

LEMMA TakeNameKeeps ==
  ASSUME IInv, Track, NEW t \in Threads, TakeName(t)
  PROVE  IInv'
<1>1. /\ UNCHANGED <<peasants, mru, life>> /\ told \subseteq told' /\ quitting' = quitting
      /\ th' = [th EXCEPT ![t] = Idle]
    BY DEF TakeName, Return
<1>2. Local(th[t], cover[t]) /\ th[t].pc = "grant" /\ FlagsOK
    BY Known DEF TakeName, At
<1>3. th[t].who \in Windows
    BY <1>2 DEF Local, Working
<1>4. named' \subseteq Windows
    BY <1>2, <1>3 DEF TakeName, FlagsOK
<1>5. FlagsOK'
    BY <1>2, <1>4 DEF TakeName, boundVars, FlagsOK
<1>6. quitting => quitting'
    BY <1>1, SMT
<1>7. Idle.pc = "idle"
    BY SMT DEF Idle
<1> QED BY <1>1, <1>5, <1>6, <1>7, IdleCall, IdleLocal, QuietStep

LEMMA LockMruKeeps ==
  ASSUME IInv, Track, NEW t \in Threads, LockMru(t)
  PROVE  IInv'
<1>1. Local(th[t], cover[t]) /\ th[t].pc = "mruLock"
    BY Known DEF LockMru, At
<1>2. UNCHANGED <<peasants, mru, quitting, windowVars, failed, boundVars>>
    BY DEF LockMru
<1>3. PICK loc : loc = IF mru = <<>> THEN "first" ELSE "mru"
    OBVIOUS
<1>4. loc \in {"first", "mru"} /\ loc \in Locs /\ Goto(t, loc)
    BY <1>3, Names DEF LockMru
<1>5. PICK l \in Call : th' = [th EXCEPT ![t] = l] /\ Moved(th[t], l, loc)
    BY <1>4, Goes
<1>6. l.pc \in {"first", "mru"} /\ l.at = 1 /\ l.kind = "mru"
    BY <1>1, <1>4, <1>5 DEF Moved, Local, Scanning, HoldM
<1>7. 1..(l.at - 1) = {}
    BY <1>6, SMT
<1>8. \A C : Scanning(l, C)'
    BY <1>6, <1>7 DEF Scanning, HoldM
<1>9. \A C : Local(l, C)'
    BY <1>6, <1>8 DEF Local, Idling, Dropping, Looping, Telling, Working, HoldP
<1> QED BY <1>2, <1>5, <1>6, <1>9, LocalStep

LEMMA FirstPeasantKeeps ==
  ASSUME IInv, Track, NEW t \in Threads, FirstPeasant(t)
  PROVE  IInv'
<1>1. /\ th \in [Threads -> Call] /\ th[t] \in Call /\ Local(th[t], cover[t]) /\ TableOK
      /\ th[t].pc = "first"
    BY Known DEF FirstPeasant, At
<1>2. UNCHANGED <<peasants, mru, quitting, windowVars, failed, boundVars>>
    BY DEF FirstPeasant
<1>3. "get" \in Locs /\ {} \in SUBSET Ids
    BY Names
<1>4. PICK l \in Call : /\ th' = [th EXCEPT ![t] = l] /\ l.pc = "get"
                        /\ l.kind = th[t].kind /\ l.who = th[t].who /\ l.at = th[t].at
  <2>1. CASE th' = [th EXCEPT ![t].pc = "get", ![t].unfit = {}]
    <3>1. PICK l : l = [th[t] EXCEPT !.pc = "get", !.unfit = {}]
      OBVIOUS
    <3>2. /\ l \in Call /\ l.pc = "get"
          /\ l.kind = th[t].kind /\ l.who = th[t].who /\ l.at = th[t].at
      BY <1>1, <1>3, <3>1 DEF Call
    <3>3. th' = [th EXCEPT ![t] = l]
      BY <2>1, <3>1
    <3> QED BY <3>2, <3>3
  <2>2. ASSUME NEW k \in DOMAIN peasants,
               th' = [th EXCEPT ![t].pc = "get", ![t].unfit = {},
                                ![t].key = IF Alive(peasants[k]) THEN k ELSE 0]
        PROVE  \E l \in Call : /\ th' = [th EXCEPT ![t] = l] /\ l.pc = "get"
                               /\ l.kind = th[t].kind /\ l.who = th[t].who /\ l.at = th[t].at
    <3>1. PICK i : i = IF Alive(peasants[k]) THEN k ELSE 0
      OBVIOUS
    <3>2. i \in Ids \cup {0}
      BY <1>1, <3>1 DEF TableOK
    <3>3. PICK l : l = [th[t] EXCEPT !.pc = "get", !.unfit = {}, !.key = i]
      OBVIOUS
    <3>4. /\ l \in Call /\ l.pc = "get"
          /\ l.kind = th[t].kind /\ l.who = th[t].who /\ l.at = th[t].at
      BY <1>1, <1>3, <3>2, <3>3 DEF Call
    <3>5. th' = [th EXCEPT ![t] = l]
      BY <2>2, <3>1, <3>3
    <3> QED BY <3>4, <3>5
  <2> QED BY <2>1, <2>2 DEF FirstPeasant
<1>5. l.at = 1 /\ (l.kind = "rename" => l.who \in Windows)
    BY <1>1, <1>4 DEF Local, Scanning, Working, HoldM
<1>6. \A C : Local(l, C)'
    BY <1>4, <1>5
       DEF Local, Idling, Scanning, Dropping, Looping, Telling, Working, HoldM, HoldP
<1> QED BY <1>2, <1>4, <1>6, LocalStep

\* The loop over _mruPeasants is over.
LEMMA Leaves ==
  ASSUME IInv, NEW t \in Threads, NEW key \in Ids \cup {0}, LeaveMru(t, key),
         th[t].pc \in HoldM
  PROVE  \E l \in Call : /\ th' = [th EXCEPT ![t] = l] /\ l.pc \in {"get", "mruForget"}
                         /\ l.key = key /\ \A C : Local(l, C)'
<1>1. /\ th \in [Threads -> Call] /\ th[t] \in Call /\ Local(th[t], cover[t])
    BY Known
<1>2. PICK loc : loc = IF th[t].doomed = {} THEN "get" ELSE "mruForget"
    OBVIOUS
<1>3. loc \in {"get", "mruForget"} /\ loc \in Locs /\ {} \in SUBSET Ids
    BY <1>2, Names
<1>4. PICK l : l = [th[t] EXCEPT !.pc = loc, !.key = key, !.win = None, !.at = 1, !.unfit = {}]
    OBVIOUS
<1>5. l \in Call /\ l.pc = loc /\ l.key = key /\ l.kind = th[t].kind /\ l.at = 1
  <2>1. 1 \in Nat \ {0}
    BY SMT
  <2> QED BY <1>1, <1>3, <1>4, <2>1 DEF Call
<1>6. th' = [th EXCEPT ![t] = l]
    BY <1>2, <1>4 DEF LeaveMru
<1>7. l.kind = "mru"
    BY <1>1, <1>5 DEF Local, Scanning, HoldM
<1>8. \A C : Local(l, C)'
    BY <1>3, <1>5, <1>7
       DEF Local, Idling, Scanning, Dropping, Looping, Telling, Working, HoldM, HoldP
<1> QED BY <1>3, <1>5, <1>6, <1>8

\* The loop over _mruPeasants goes on to the next entry.
LEMMA Advances ==
  ASSUME IInv, NEW t \in Threads, th[t].pc \in HoldM, NEW l,
         l.pc = "mru", l.kind = th[t].kind, l.unfit = th[t].unfit, l.at = th[t].at + 1,
         mru' = mru, NEW C \in SUBSET cover[t],
         \A w \in C : IdOf[w] \notin l.unfit => mru[th[t].at].id # IdOf[w]
  PROVE  Local(l, C)'
<1>1. th[t] \in Call /\ Local(th[t], cover[t])
    BY Known
<1>2. PICK i \in Nat \ {0} : i = th[t].at
    BY <1>1 DEF Call
<1>3. l.kind = "mru"
    BY <1>1 DEF Local, Scanning, HoldM
<1>4. \A j \in 1..(l.at - 1) : j = i \/ j \in 1..(i - 1)
  <2>1. l.at = i + 1
    BY <1>2
  <2> QED BY <2>1, SMT
<1>5. ASSUME NEW w \in C, IdOf[w] \notin l.unfit, NEW j \in 1..(l.at - 1)
      PROVE  mru[j].id # IdOf[w]
  <2>1. CASE j = i
    BY <1>2, <1>5, <2>1
  <2>2. CASE j \in 1..(i - 1)
    BY <1>1, <1>2, <1>5, <2>2 DEF Local, Scanning
  <2> QED BY <1>4, <2>1, <2>2
<1>6. Scanning(l, C)'
    BY <1>3, <1>5 DEF Scanning, HoldM
<1> QED BY <1>3, <1>6 DEF Local, Idling, Dropping, Looping, Telling, Working, HoldP

LEMMA NextMruKeeps ==
  ASSUME IInv, Track, NEW t \in Threads, NextMru(t)
  PROVE  IInv'
<1>1. /\ th \in [Threads -> Call] /\ th[t] \in Call /\ Local(th[t], cover[t])
      /\ TableOK /\ mru \in Seq(Entry) /\ th[t].pc = "mru"
    BY Known DEF NextMru, At
<1>2. UNCHANGED <<peasants, mru, quitting, windowVars, failed, boundVars>>
    BY DEF NextMru
<1>3. th[t].pc \in HoldM /\ Watching(th[t])
    BY <1>1 DEF HoldM, Watching
<1>4. CASE th[t].at > Len(mru)
  <2>1. LeaveMru(t, 0) \/ th[t].at <= Len(mru)
    BY DEF NextMru
  <2>2. LeaveMru(t, 0)
    <3>1. Len(mru) \in Nat /\ th[t].at \in Nat
      BY <1>1, Times DEF Call
    <3>2. ~(th[t].at <= Len(mru))
      BY <1>4, <3>1, SMT
    <3> QED BY <2>1, <3>2
  <2>3. PICK l \in Call : /\ th' = [th EXCEPT ![t] = l] /\ l.pc \in {"get", "mruForget"}
                          /\ l.key = 0 /\ \A C : Local(l, C)'
    <3>1. 0 \in Ids \cup {0}
      OBVIOUS
    <3> QED BY <1>3, <2>2, <3>1, Leaves
  <2> QED BY <1>2, <2>3, LocalStep
<1>5. CASE th[t].at <= Len(mru) /\ ~(th[t].at > Len(mru))
  <2>1. PICK k : k = mru[th[t].at].id
    OBVIOUS
  <2>2. th[t].at \in 1..Len(mru)
    <3>1. Len(mru) \in Nat /\ th[t].at \in Nat \ {0}
      BY <1>1, Times DEF Call
    <3> QED BY <1>5, <3>1, SMT
  <2>3. k \in Ids
    <3>1. mru[th[t].at] \in Entry
      BY <1>1, <2>2, Elements
    <3> QED BY <2>1, <3>1 DEF Entry
  <2>4. th' = IF k \in DOMAIN peasants
                THEN [th EXCEPT ![t].pc = "mruAsk", ![t].win = peasants[k]]
                ELSE [th EXCEPT ![t].doomed = @ \cup {k}, ![t].at = @ + 1]
    BY <1>5, <2>1 DEF NextMru
  <2>5. CASE k \in DOMAIN peasants
    <3>1. PICK w : w = peasants[k]
      OBVIOUS
    <3>2. w \in Windows /\ IdOf[w] = k
      BY <1>1, <2>5, <3>1 DEF TableOK
    <3>3. PICK l : l = [th[t] EXCEPT !.pc = "mruAsk", !.win = w]
      OBVIOUS
    <3>4. /\ l \in Call /\ l.pc = "mruAsk" /\ l.win = w
          /\ l.kind = th[t].kind /\ l.at = th[t].at /\ l.unfit = th[t].unfit
      <4>1. "mruAsk" \in Locs /\ w \in Windows \cup {None}
        BY <3>2, Names
      <4> QED BY <1>1, <3>3, <4>1 DEF Call
    <3>5. th' = [th EXCEPT ![t] = l]
      BY <2>4, <2>5, <3>1, <3>3
    <3>6. ASSUME NEW C \in SUBSET Windows, C \subseteq cover[t], Tracked(l, C)
          PROVE  Local(l, C)'
      <4>1. \A v \in C : IdOf[v] = k => w = v
        BY <3>1, <3>6 DEF Tracked, Listed
      <4>2. l.kind = "mru"
        BY <1>1, <3>4 DEF Local, Scanning
      <4>3. \A v \in C : IdOf[v] \notin l.unfit => \A j \in 1..(l.at - 1) : mru[j].id # IdOf[v]
        BY <1>1, <1>3, <3>4, <3>6 DEF Local, Scanning
      <4>4. mru' = mru
        BY <1>2
      <4>5. l.at \in 1..Len(mru) /\ mru[l.at].id = k
        BY <2>1, <2>2, <3>4
      <4>6. Scanning(l, C)'
        BY <3>2, <3>4, <4>1, <4>2, <4>3, <4>4, <4>5 DEF Scanning, HoldM
      <4> QED BY <3>4, <4>2, <4>6
                 DEF Local, Idling, Dropping, Looping, Telling, Working, HoldP
    <3> QED BY <1>2, <1>3, <3>4, <3>5, <3>6, LocalStep
  <2>6. CASE k \notin DOMAIN peasants
    <3>1. PICK l : l = [th[t] EXCEPT !.doomed = @ \cup {k}, !.at = @ + 1]
      OBVIOUS
    <3>2. /\ l \in Call /\ l.pc = "mru"
          /\ l.kind = th[t].kind /\ l.at = th[t].at + 1 /\ l.unfit = th[t].unfit
      <4>1. th[t].at + 1 \in Nat \ {0}
        BY <1>1, SMT DEF Call
      <4>2. th[t].doomed \cup {k} \in SUBSET Ids
        BY <1>1, <2>3 DEF Call
      <4> QED BY <1>1, <3>1, <4>1, <4>2 DEF Call
    <3>3. th' = [th EXCEPT ![t] = l]
      BY <2>4, <2>6, <3>1
    <3>4. ASSUME NEW C \in SUBSET Windows, C \subseteq cover[t], Tracked(l, C)
          PROVE  Local(l, C)'
      <4>1. \A v \in C : mru[th[t].at].id # IdOf[v]
        BY <2>1, <2>6, <3>4 DEF Tracked, Listed
      <4>2. C \in SUBSET cover[t] /\ mru' = mru
        BY <1>2, <3>4
      <4> QED BY <1>3, <3>2, <4>1, <4>2, Advances
    <3>5. l.pc \notin {"add", "closeMru", "closeErase"}
      BY <3>2
    <3> QED BY <1>2, <1>3, <3>2, <3>3, <3>4, <3>5, LocalStep
  <2> QED BY <2>5, <2>6
<1>6. th[t].at > Len(mru) \/ (th[t].at <= Len(mru) /\ ~(th[t].at > Len(mru)))
    BY DEF NextMru
<1> QED BY <1>4, <1>5, <1>6

LEMMA AskMruKeeps ==
  ASSUME IInv, Track, NEW t \in Threads, AskMru(t)
  PROVE  IInv'
<1>1. /\ th \in [Threads -> Call] /\ th[t] \in Call /\ Local(th[t], cover[t])
      /\ mru \in Seq(Entry) /\ th[t].pc = "mruAsk"
    BY Known DEF AskMru, At
<1>2. UNCHANGED <<peasants, mru, quitting, windowVars, failed, boundVars>> /\ mru' = mru
    BY DEF AskMru
<1>3. th[t].pc \in HoldM /\ Watching(th[t])
    BY <1>1 DEF HoldM, Watching
<1>4. PICK k : k = mru[th[t].at].id
    OBVIOUS
<1>5. th[t].at \in 1..Len(mru) /\ k \in Ids
  <2>1. th[t].at \in 1..Len(mru)
    BY <1>1 DEF Local, Scanning
  <2>2. mru[th[t].at] \in Entry
    BY <1>1, <2>1, Elements
  <2> QED BY <1>4, <2>1, <2>2 DEF Entry
<1>6. CASE Alive(th[t].win) /\ k \in th[t].unfit
  <2>1. PICK l : l = [th[t] EXCEPT !.pc = "mru", !.at = @ + 1, !.win = None]
    OBVIOUS
  <2>2. /\ l \in Call /\ l.pc = "mru"
        /\ l.kind = th[t].kind /\ l.at = th[t].at + 1 /\ l.unfit = th[t].unfit
    <3>1. th[t].at + 1 \in Nat \ {0}
      BY <1>1, SMT DEF Call
    <3>2. "mru" \in Locs /\ None \in Windows \cup {None}
      BY Names
    <3> QED BY <1>1, <2>1, <3>1, <3>2 DEF Call
  <2>3. th' = [th EXCEPT ![t] = l]
    BY <1>4, <1>6, <2>1 DEF AskMru
  <2>4. ASSUME NEW C \in SUBSET Windows, C \subseteq cover[t] PROVE Local(l, C)'
    <3>1. C \in SUBSET cover[t]
      BY <2>4
    <3>2. \A w \in C : IdOf[w] \notin l.unfit => mru[th[t].at].id # IdOf[w]
      BY <1>4, <1>6, <2>2
    <3> QED BY <1>2, <1>3, <2>2, <3>1, <3>2, Advances
  <2>5. l.pc \notin {"add", "closeMru", "closeErase"}
    BY <2>2
  <2> QED BY <1>2, <1>3, <2>2, <2>3, <2>4, <2>5, LocalStep
<1>7. CASE LeaveMru(t, k)
  <2>1. PICK l \in Call : /\ th' = [th EXCEPT ![t] = l] /\ l.pc \in {"get", "mruForget"}
                          /\ l.key = k /\ \A C : Local(l, C)'
    <3>1. k \in Ids \cup {0}
      BY <1>5
    <3> QED BY <1>3, <1>7, <3>1, Leaves
  <2> QED BY <1>2, <2>1, LocalStep
<1>8. CASE ~Alive(th[t].win) /\ Goto(t, "mruDrop")
  <2>1. "mruDrop" \in Locs /\ life[th[t].win] = "dead"
    BY <1>8, Names DEF Alive
  <2>2. PICK l \in Call : th' = [th EXCEPT ![t] = l] /\ Moved(th[t], l, "mruDrop")
    BY <1>8, <2>1, Goes
  <2>3. /\ l.pc = "mruDrop" /\ l.at = th[t].at /\ l.win = th[t].win
        /\ l.unfit = th[t].unfit /\ l.kind = "mru"
    BY <1>1, <2>2 DEF Moved, Local, Scanning
  <2>4. life'[l.win] = "dead"
    BY <1>2, <2>1, <2>3 DEF windowVars
  <2>5. ASSUME NEW C \in SUBSET Windows, C \subseteq cover[t] PROVE Local(l, C)'
    <3>1. \A v \in C : IdOf[v] \notin l.unfit => \A j \in 1..(l.at - 1) : mru[j].id # IdOf[v]
      BY <1>1, <1>3, <2>3, <2>5 DEF Local, Scanning
    <3>2. /\ l.at \in 1..Len(mru) /\ l.win \in Windows /\ IdOf[l.win] = mru[l.at].id
          /\ \A w \in C : IdOf[w] = mru[l.at].id => l.win = w
      BY <1>1, <2>3, <2>5 DEF Local, Scanning
    <3>3. Scanning(l, C)'
      BY <1>2, <2>3, <2>4, <3>1, <3>2 DEF Scanning, HoldM
    <3> QED BY <2>3, <3>3 DEF Local, Idling, Dropping, Looping, Telling, Working, HoldP
  <2>6. l.pc \notin {"add", "closeMru", "closeErase"}
    BY <2>3
  <2> QED BY <1>2, <1>3, <2>2, <2>5, <2>6, LocalStep
<1>9. CASE Return(t)
  <2>1. th' = [th EXCEPT ![t] = Idle] /\ Idle.pc = "idle"
    BY <1>9 DEF Return, Idle
  <2> QED BY <1>2, <2>1, IdleCall, IdleLocal, LocalStep
<1> QED BY <1>4, <1>6, <1>7, <1>8, <1>9 DEF AskMru

LEMMA DropMruKeeps ==
  ASSUME IInv, Track, NEW t \in Threads, DropMru(t)
  PROVE  IInv'
<1>1. /\ th \in [Threads -> Call] /\ th[t] \in Call /\ Local(th[t], cover[t])
      /\ mru \in Seq(Entry) /\ TableOK /\ TableFollowsWindows /\ th[t].pc = "mruDrop"
    BY Known DEF DropMru, At
<1>2. UNCHANGED <<quitting, windowVars, failed, boundVars>> /\ mru' = mru /\ FreeP
    BY DEF DropMru
<1>3. th[t].pc \in HoldM /\ Watching(th[t])
    BY <1>1 DEF HoldM, Watching
<1>4. PICK k : k = mru[th[t].at].id
    OBVIOUS
<1>5. /\ th[t].win \in Windows /\ IdOf[th[t].win] = k /\ life[th[t].win] = "dead"
      /\ \A w \in cover[t] : IdOf[w] = k => th[t].win = w
    BY <1>1, <1>4 DEF Local, Scanning
<1>6. TableOK' /\ TableFollowsWindows'
  <2>1. PICK keys : keys = {k}
    OBVIOUS
  <2>2. peasants' = Erase(peasants, keys) /\ life' = life /\ quitting' = quitting
    BY <1>4, <2>1 DEF DropMru, windowVars
  <2>3. \A i \in keys : \E v \in Windows : IdOf[v] = i /\ life[v] = "dead"
    BY <1>5, <2>1
  <2> QED BY <1>1, <2>2, <2>3, EraseKeeps
<1>7. PICK l : l = [th[t] EXCEPT !.pc = "mru", !.doomed = @ \cup {k}, !.at = @ + 1, !.win = None]
    OBVIOUS
<1>8. /\ l \in Call /\ l.pc = "mru"
      /\ l.kind = th[t].kind /\ l.at = th[t].at + 1 /\ l.unfit = th[t].unfit
  <2>1. th[t].at + 1 \in Nat \ {0}
    BY <1>1, SMT DEF Call
  <2>2. th[t].doomed \cup {k} \in SUBSET Ids
    BY <1>1, <1>5 DEF Call, Ids
  <2>3. "mru" \in Locs /\ None \in Windows \cup {None}
    BY Names
  <2> QED BY <1>1, <1>7, <2>1, <2>2, <2>3 DEF Call
<1>9. th' = [th EXCEPT ![t] = l]
    BY <1>4, <1>7 DEF DropMru
<1>10. ASSUME NEW C \in SUBSET Windows, C \subseteq cover[t], Tracked(l, C)' PROVE Local(l, C)'
  <2>1. C \in SUBSET cover[t]
    BY <1>10
  <2>2. \A w \in C : life[w] = "open"
    BY <1>2, <1>10 DEF Tracked, windowVars
  <2>3. \A w \in C : mru[th[t].at].id # IdOf[w]
    BY <1>4, <1>5, <2>1, <2>2
  <2> QED BY <1>2, <1>3, <1>8, <2>1, <2>3, Advances
<1>11. \A u \in Threads \ {t} : ~Clash(l, th[u])
    BY <1>8 DEF Clash
<1> QED BY <1>2, <1>3, <1>6, <1>8, <1>9, <1>10, <1>11, TableStep

LEMMA LockLoopKeeps ==
  ASSUME IInv, Track, NEW t \in Threads, LockLoop(t)
  PROVE  IInv'
<1>1. /\ th \in [Threads -> Call] /\ th[t] \in Call /\ Local(th[t], cover[t])
      /\ TableOK /\ th[t].pc = "loop"
    BY Known DEF LockLoop, At
<1>2. /\ UNCHANGED <<peasants, mru, quitting, windowVars, failed, boundVars>>
      /\ life' = life /\ peasants' = peasants
    BY DEF LockLoop, windowVars
<1>3. PICK l : l = [th[t] EXCEPT !.pc = "each", !.todo = DOMAIN peasants]
    OBVIOUS
<1>4. /\ l \in Call /\ l.pc = "each" /\ l.todo = DOMAIN peasants /\ l.doomed = th[t].doomed
      /\ l.kind = th[t].kind /\ l.who = th[t].who /\ l.at = th[t].at
  <2>1. "each" \in Locs /\ DOMAIN peasants \in SUBSET Ids
    BY <1>1, Names DEF TableOK
  <2> QED BY <1>1, <1>3, <2>1 DEF Call
<1>5. th' = [th EXCEPT ![t] = l]
    BY <1>3 DEF LockLoop
<1>6. /\ l.at = 1 /\ (l.kind = "rename" => l.who \in Windows)
      /\ \A k \in l.doomed : \E v \in Windows : IdOf[v] = k /\ life[v] = "dead"
    BY <1>1, <1>4 DEF Local, Scanning, Dropping, Working, HoldM
<1>7. ASSUME NEW C \in SUBSET Windows, Tracked(l, C) PROVE Local(l, C)'
  <2>1. \A w \in C : IdOf[w] \in l.todo
    BY <1>4, <1>7 DEF Tracked, Listed
  <2>2. Telling(l, C)'
    BY <1>4, <2>1 DEF Telling
  <2>3. Dropping(l)' /\ Looping(l)'
    BY <1>2, <1>4, <1>6 DEF Dropping, Looping
  <2> QED BY <1>4, <1>6, <2>2, <2>3 DEF Local, Idling, Scanning, Working, HoldM
<1>8. l.pc \notin {"add", "closeMru", "closeErase"}
    BY <1>4
<1> QED BY <1>2, <1>4, <1>5, <1>7, <1>8, LocalStep

LEMMA VisitPeasantKeeps ==
  ASSUME IInv, Track, NEW t \in Threads, NEW k, VisitPeasant(t, k)
  PROVE  IInv'
<1>1. /\ th \in [Threads -> Call] /\ th[t] \in Call /\ Local(th[t], cover[t])
      /\ TableOK /\ th[t].pc = "each" /\ k \in th[t].todo
    BY Known DEF VisitPeasant, At
<1>2. /\ UNCHANGED <<peasants, mru, quitting, windowVars, failed, boundVars>>
      /\ life' = life /\ peasants' = peasants /\ told' = told
    BY DEF VisitPeasant, windowVars
<1>3. PICK w : w = peasants[k]
    OBVIOUS
<1>4. /\ k \in DOMAIN peasants /\ w \in Windows /\ IdOf[w] = k /\ k \in Ids
      /\ th[t].todo \subseteq DOMAIN peasants
    BY <1>1, <1>3 DEF Local, Looping, TableOK, HoldP
<1>5. /\ th[t].at = 1 /\ (th[t].kind = "rename" => th[t].who \in Windows)
      /\ \A i \in th[t].doomed : \E v \in Windows : IdOf[v] = i /\ life[v] = "dead"
      /\ th[t].todo \in SUBSET Ids /\ th[t].doomed \in SUBSET Ids
    BY <1>1 DEF Local, Scanning, Dropping, Working, HoldM, Call
<1>6. ASSUME NEW C \in SUBSET Windows, Watching(th[t]) => C \subseteq cover[t],
             \A v \in C : life[v] = "open" /\ Listed(v), th[t].kind = "quit"
      PROVE  \A v \in C \ {Own} : v \in told \/ IdOf[v] \in th[t].todo \ {k} \/ v = w
  <2>1. Watching(th[t])
    BY <1>1, <1>6 DEF Watching, HoldP
  <2>2. \A v \in C \ {Own} : v \in told \/ IdOf[v] \in th[t].todo
    BY <1>1, <1>6, <2>1 DEF Local, Telling
  <2>3. \A v \in C : IdOf[v] = k => v = w
    BY <1>3, <1>6 DEF Listed
  <2> QED BY <2>2, <2>3
<1>7. CASE Alive(w)
  <2>1. PICK loc : loc = IF w = Own /\ th[t].kind \in {"layout", "save"} /\ life[Own] = "open"
                           THEN "callUi" ELSE "call"
    OBVIOUS
  <2>2. loc \in {"call", "callUi"} /\ loc \in Locs /\ (th[t].kind = "quit" => loc = "call")
    BY <2>1, Names
  <2>3. PICK l : l = [th[t] EXCEPT !.todo = @ \ {k}, !.win = w, !.pc = loc]
    OBVIOUS
  <2>4. /\ l \in Call /\ l.pc = loc /\ l.win = w /\ l.todo = th[t].todo \ {k}
        /\ l.kind = th[t].kind /\ l.who = th[t].who /\ l.at = th[t].at /\ l.doomed = th[t].doomed
    <3>1. th[t].todo \ {k} \in SUBSET Ids /\ w \in Windows \cup {None}
      BY <1>4, <1>5
    <3> QED BY <1>1, <2>2, <2>3, <3>1 DEF Call
  <2>5. th' = [th EXCEPT ![t] = l]
    BY <1>3, <1>7, <2>1, <2>3 DEF VisitPeasant
  <2>6. ASSUME NEW C \in SUBSET Windows, Watching(th[t]) => C \subseteq cover[t], Tracked(l, C)
        PROVE  Local(l, C)'
    <3>1. l.kind = "quit" =>
            l.pc = "call" /\ \A v \in C \ {Own} : v \in told' \/ IdOf[v] \in l.todo \/ l.win = v
      BY <1>2, <1>6, <2>2, <2>4, <2>6 DEF Tracked
    <3>2. Telling(l, C)'
      BY <1>4, <2>2, <2>4, <3>1 DEF Telling
    <3>3. Dropping(l)'
      BY <1>2, <1>5, <2>2, <2>4 DEF Dropping
    <3>4. Looping(l)'
      BY <1>2, <1>4, <2>4 DEF Looping
    <3> QED BY <1>5, <2>2, <2>4, <3>2, <3>3, <3>4
            DEF Local, Idling, Scanning, Working, HoldM
  <2>7. l.pc \notin {"add", "closeMru", "closeErase"}
    BY <2>2, <2>4
  <2> QED BY <1>2, <2>4, <2>5, <2>6, <2>7, LocalStep
<1>8. CASE ~Alive(w)
  <2>1. PICK l : l = [th[t] EXCEPT !.todo = @ \ {k}, !.doomed = @ \cup {k}]
    OBVIOUS
  <2>2. /\ l \in Call /\ l.pc = "each" /\ l.todo = th[t].todo \ {k}
        /\ l.kind = th[t].kind /\ l.who = th[t].who /\ l.at = th[t].at
        /\ l.doomed = th[t].doomed \cup {k}
    <3>1. th[t].todo \ {k} \in SUBSET Ids /\ th[t].doomed \cup {k} \in SUBSET Ids
      BY <1>4, <1>5
    <3> QED BY <1>1, <2>1, <3>1 DEF Call
  <2>3. th' = [th EXCEPT ![t] = l]
    BY <1>3, <1>8, <2>1 DEF VisitPeasant
  <2>4. life[w] = "dead"
    BY <1>8 DEF Alive
  <2>5. ASSUME NEW C \in SUBSET Windows, Watching(th[t]) => C \subseteq cover[t], Tracked(l, C)
        PROVE  Local(l, C)'
    <3>1. w \notin C
      BY <2>4, <2>5 DEF Tracked
    <3>2. l.kind = "quit" => \A v \in C \ {Own} : v \in told' \/ IdOf[v] \in l.todo
      BY <1>2, <1>6, <2>2, <2>5, <3>1 DEF Tracked
    <3>3. Telling(l, C)'
      BY <2>2, <3>2 DEF Telling
    <3>4. \A i \in l.doomed : \E v \in Windows : IdOf[v] = i /\ life[v] = "dead"
      BY <1>4, <1>5, <2>2, <2>4
    <3>5. Dropping(l)'
      BY <1>2, <2>2, <3>4 DEF Dropping
    <3>6. Looping(l)'
      BY <1>2, <1>4, <2>2 DEF Looping
    <3> QED BY <1>5, <2>2, <3>3, <3>5, <3>6
            DEF Local, Idling, Scanning, Working, HoldM
  <2>6. l.pc \notin {"add", "closeMru", "closeErase"}
    BY <2>2
  <2> QED BY <1>2, <2>2, <2>3, <2>5, <2>6, LocalStep
<1> QED BY <1>7, <1>8

LEMMA PeasantAnswersKeeps ==
  ASSUME IInv, Track, NEW t \in Threads, PeasantAnswers(t)
  PROVE  IInv'
<1>1. /\ th \in [Threads -> Call] /\ th[t] \in Call /\ Local(th[t], cover[t])
      /\ th[t].pc \in {"call", "callUi"} /\ FlagsOK
    BY Known DEF PeasantAnswers, At
<1>2. UNCHANGED <<peasants, mru, life>> /\ quitting' = quitting
    BY DEF PeasantAnswers
<1>3. PICK todo, key :
        /\ th' = [th EXCEPT ![t].pc = "each", ![t].win = None, ![t].todo = todo, ![t].key = key]
        /\ todo \subseteq th[t].todo /\ key \in Ids \cup {0}
        /\ th[t].kind = "quit" => todo = th[t].todo
  <2>1. PICK match : match = (th[t].kind \in {"name", "rename"} /\ th[t].win \in named)
    OBVIOUS
  <2>2. PICK todo : todo = IF match THEN {} ELSE th[t].todo
    OBVIOUS
  <2>3. PICK key : key = IF match THEN IdOf[th[t].win] ELSE th[t].key
    OBVIOUS
  <2>4. th[t].win \in Windows /\ th[t].key \in Ids \cup {0}
    BY <1>1 DEF Local, Telling, Call
  <2>5. key \in Ids \cup {0}
    BY <2>3, <2>4 DEF Ids
  <2>6. todo \subseteq th[t].todo
    BY <2>2
  <2>7. th[t].kind = "quit" => todo = th[t].todo
    BY <2>1, <2>2
  <2>8. th' = [th EXCEPT ![t].pc = "each", ![t].win = None, ![t].todo = todo, ![t].key = key]
    BY <2>1, <2>2, <2>3 DEF PeasantAnswers
  <2> QED BY <2>5, <2>6, <2>7, <2>8
<1>4. PICK l : l = [th[t] EXCEPT !.pc = "each", !.win = None, !.todo = todo, !.key = key]
    OBVIOUS
<1>5. /\ l \in Call /\ l.pc = "each" /\ l.todo = todo /\ l.doomed = th[t].doomed
      /\ l.kind = th[t].kind /\ l.who = th[t].who /\ l.at = th[t].at
  <2>1. "each" \in Locs /\ None \in Windows \cup {None}
    BY Names
  <2>2. todo \in SUBSET Ids
    BY <1>1, <1>3 DEF Call
  <2> QED BY <1>1, <1>3, <1>4, <2>1, <2>2 DEF Call
<1>6. th' = [th EXCEPT ![t] = l]
    BY <1>3, <1>4
<1>7. /\ l.at = 1 /\ (l.kind = "rename" => l.who \in Windows)
      /\ \A k \in l.doomed : \E v \in Windows : IdOf[v] = k /\ life[v] = "dead"
      /\ todo \subseteq DOMAIN peasants /\ th[t].win \in Windows
    BY <1>1, <1>3, <1>5
       DEF Local, Scanning, Dropping, Looping, Telling, Working, HoldM, HoldP
<1>8. /\ told' \subseteq Windows /\ told \subseteq told'
      /\ l.kind = "quit" => \A w \in Windows \ {Own} : th[t].win = w => w \in told'
    BY <1>1, <1>5, <1>7 DEF PeasantAnswers, QuitOthers, FlagsOK
<1>9. FlagsOK'
    BY <1>1, <1>2, <1>8 DEF PeasantAnswers, boundVars, FlagsOK
<1>10. ASSUME NEW C \in SUBSET Windows, Watching(th[t]) => C \subseteq cover[t], Tracked(l, C)
       PROVE  Local(l, C)'
  <2>1. ASSUME l.kind = "quit", NEW w \in C \ {Own} PROVE w \in told' \/ IdOf[w] \in l.todo
    <3>1. Watching(th[t]) /\ todo = th[t].todo
      BY <1>1, <1>3, <1>5, <2>1 DEF Watching, HoldP
    <3>2. w \in told \/ IdOf[w] \in th[t].todo \/ th[t].win = w
      BY <1>1, <1>5, <1>10, <2>1, <3>1 DEF Local, Telling
    <3> QED BY <1>5, <1>8, <2>1, <3>1, <3>2
  <2>2. Telling(l, C)'
    BY <1>5, <2>1 DEF Telling
  <2>3. Dropping(l)'
    BY <1>2, <1>5, <1>7 DEF Dropping
  <2>4. Looping(l)'
    BY <1>2, <1>5, <1>7 DEF Looping
  <2> QED BY <1>5, <1>7, <2>2, <2>3, <2>4 DEF Local, Idling, Scanning, Working, HoldM
<1>11. quitting => quitting'
    BY <1>2, SMT
<1>12. l.pc \notin {"add", "closeMru", "closeErase"}
    BY <1>5
<1> QED BY <1>2, <1>5, <1>6, <1>8, <1>9, <1>10, <1>11, <1>12, QuietStep

\* The locals m without those of the loop.
Cleared(m, loc, kind) ==
  [m EXCEPT !.todo = {}, !.doomed = {}, !.win = None, !.pc = loc, !.kind = kind]

LEMMA ClearedCall ==
  ASSUME NEW m \in Call, NEW loc \in Locs, NEW kind \in Kinds, NEW l, l = Cleared(m, loc, kind)
  PROVE  /\ l \in Call /\ l.pc = loc /\ l.kind = kind /\ l.who = m.who /\ l.at = m.at
         /\ l.doomed = {}
<1>1. None \in Windows \cup {None} /\ {} \in SUBSET Ids
    OBVIOUS
<1> QED BY <1>1 DEF Call, Cleared

\* What follows a loop: the locals are cleared, and a quit has told everybody.
LEMMA After ==
  ASSUME IInv, NEW t \in Threads, AfterLoop(t), th[t].pc \notin HoldM, told' = told,
         th[t].kind = "quit" => Watching(th[t]) /\ \A w \in cover[t] \ {Own} : w \in told
  PROVE  /\ \E l \in Call :
              /\ th' = [th EXCEPT ![t] = l] /\ l.pc \in {"idle", "get", "loop", "ownQuit"}
              /\ \A C \in SUBSET Windows :
                   (Watching(th[t]) => C \subseteq cover[t]) => Local(l, C)'
         /\ quitting' \in BOOLEAN /\ (quitting => quitting')
<1>1. /\ th \in [Threads -> Call] /\ th[t] \in Call /\ Local(th[t], cover[t])
      /\ quitting \in BOOLEAN
    BY Known DEF FlagsOK
<1>2. th[t].at = 1 /\ (th[t].kind = "rename" => th[t].who \in Windows)
    BY <1>1 DEF Local, Scanning, Working
<1>3. CASE th[t].kind \in {"name", "rename"}
  <2>1. PICK l : l = Cleared(th[t], "get", th[t].kind)
    OBVIOUS
  <2>2. th' = [th EXCEPT ![t] = l] /\ quitting' = quitting
    BY <1>1, <1>3, <2>1 DEF AfterLoop, Cleared
  <2>3. th[t].kind \in Kinds /\ "get" \in Locs
    BY <1>1, Names DEF Call
  <2>4. /\ l \in Call /\ l.pc = "get" /\ l.kind = th[t].kind /\ l.who = th[t].who /\ l.at = 1
    BY <1>1, <1>2, <2>1, <2>3, ClearedCall, SMT
  <2>5. \A C : Local(l, C)'
    BY <1>2, <2>4
       DEF Local, Idling, Scanning, Dropping, Looping, Telling, Working, HoldM, HoldP
  <2>6. quitting' \in BOOLEAN /\ (quitting => quitting')
    BY <1>1, <2>2, SMT
  <2> QED BY <2>2, <2>4, <2>5, <2>6
<1>4. CASE th[t].kind = "save"
  <2>1. PICK l : l = Cleared(th[t], "loop", "quit")
    OBVIOUS
  <2>2. th' = [th EXCEPT ![t] = l] /\ quitting' = TRUE
    BY <1>4, <2>1 DEF AfterLoop, Cleared
  <2>3. "quit" \in Kinds /\ "loop" \in Locs
    BY Names
  <2>4. /\ l \in Call /\ l.pc = "loop" /\ l.kind = "quit" /\ l.at = 1 /\ l.doomed = {}
    BY <1>1, <1>2, <2>1, <2>3, ClearedCall, SMT
  <2>5. \A C : Local(l, C)'
    BY <2>4
       DEF Local, Idling, Scanning, Dropping, Looping, Telling, Working, HoldM, HoldP
  <2>6. quitting' \in BOOLEAN /\ (quitting => quitting')
    BY <2>2
  <2> QED BY <2>2, <2>4, <2>5, <2>6
<1>5. CASE th[t].kind = "quit"
  <2>1. PICK l : l = Cleared(th[t], "ownQuit", "quit")
    OBVIOUS
  <2>2. th' = [th EXCEPT ![t] = l] /\ quitting' = quitting
    BY <1>1, <1>5, <2>1 DEF AfterLoop, Cleared
  <2>3. "quit" \in Kinds /\ "ownQuit" \in Locs
    BY Names
  <2>4. /\ l \in Call /\ l.pc = "ownQuit" /\ l.kind = "quit" /\ l.at = 1
    BY <1>1, <1>2, <2>1, <2>3, ClearedCall, SMT
  <2>5. ASSUME NEW C \in SUBSET Windows, Watching(th[t]) => C \subseteq cover[t]
        PROVE  Local(l, C)'
    <3>1. \A w \in C \ {Own} : w \in told'
      BY <1>5, <2>5
    <3>2. Telling(l, C)'
      BY <2>4, <3>1 DEF Telling
    <3> QED BY <2>4, <3>2
            DEF Local, Idling, Scanning, Dropping, Looping, Working, HoldM, HoldP
  <2>6. quitting' \in BOOLEAN /\ (quitting => quitting')
    BY <1>1, <2>2, SMT
  <2> QED BY <2>2, <2>4, <2>5, <2>6
<1>6. CASE th[t].kind \notin {"name", "rename", "save", "quit"}
  <2>1. th' = [th EXCEPT ![t] = Idle] /\ quitting' = quitting
    BY <1>6 DEF AfterLoop, Return
  <2>2. Idle.pc = "idle"
    BY SMT DEF Idle
  <2>3. quitting' \in BOOLEAN /\ (quitting => quitting')
    BY <1>1, <2>1, SMT
  <2> QED BY <2>1, <2>2, <2>3, IdleCall, IdleLocal
<1> QED BY <1>3, <1>4, <1>5, <1>6

\* A step that ends a loop so.
LEMMA AfterStep ==
  ASSUME IInv, Track, NEW t \in Threads, AfterLoop(t), th[t].pc \notin HoldM,
         UNCHANGED <<peasants, mru, windowVars, boundVars>>,
         failed' \subseteq {"assert", "terminate"},
         th[t].kind = "quit" => Watching(th[t]) /\ \A w \in cover[t] \ {Own} : w \in told
  PROVE  IInv'
<1>1. /\ UNCHANGED <<peasants, mru, life>> /\ told' = told /\ named' = named
      /\ clock' = clock /\ calls' = calls /\ told \subseteq told'
    BY DEF windowVars, boundVars
<1>2. /\ \E l \in Call :
           /\ th' = [th EXCEPT ![t] = l] /\ l.pc \in {"idle", "get", "loop", "ownQuit"}
           /\ \A C \in SUBSET Windows :
                (Watching(th[t]) => C \subseteq cover[t]) => Local(l, C)'
      /\ quitting' \in BOOLEAN /\ (quitting => quitting')
    BY <1>1, After
<1>3. FlagsOK'
    BY <1>1, <1>2, Known DEF FlagsOK
<1>4. PICK l \in Call :
           /\ th' = [th EXCEPT ![t] = l] /\ l.pc \in {"idle", "get", "loop", "ownQuit"}
           /\ \A C \in SUBSET Windows :
                (Watching(th[t]) => C \subseteq cover[t]) => Local(l, C)'
    BY <1>2
<1>5. l.pc \notin {"add", "closeMru", "closeErase"}
    BY <1>4
<1> QED BY <1>1, <1>2, <1>3, <1>4, <1>5, QuietStep

LEMMA PeasantDiesKeeps ==
  ASSUME IInv, Track, NEW t \in Threads, PeasantDies(t)
  PROVE  IInv'
<1>1. th[t].pc \notin HoldM /\ UNCHANGED <<peasants, mru, windowVars, boundVars>>
    BY DEF PeasantDies, At, HoldM
<1>2. failed' \subseteq {"assert", "terminate"} /\ FlagsOK
    BY Known DEF PeasantDies, FlagsOK
<1>3. CASE th[t].kind = "save"
  <2>1. AfterLoop(t) /\ th[t].kind # "quit"
    BY <1>3 DEF PeasantDies
  <2> QED BY <1>1, <1>2, <2>1, AfterStep
<1>4. CASE th[t].kind # "save"
  <2>1. th' = [th EXCEPT ![t] = Idle] /\ quitting' = quitting /\ Idle.pc = "idle"
    BY <1>4 DEF PeasantDies, Return, Idle
  <2>2. UNCHANGED <<peasants, mru, life>> /\ told \subseteq told'
    BY <1>1 DEF windowVars
  <2>3. FlagsOK'
    BY <1>1, <1>2, <2>1 DEF windowVars, boundVars, FlagsOK
  <2>4. quitting => quitting'
    BY <2>1, SMT
  <2> QED BY <2>1, <2>2, <2>3, <2>4, IdleCall, IdleLocal, QuietStep
<1> QED BY <1>3, <1>4

LEMMA EndLoopKeeps ==
  ASSUME IInv, Track, NEW t \in Threads, EndLoop(t)
  PROVE  IInv'
<1>1. /\ th[t] \in Call /\ Local(th[t], cover[t]) /\ th[t].pc = "each" /\ th[t].todo = {}
      /\ FlagsOK
    BY Known DEF EndLoop, At
<1>2. /\ th[t].pc \notin HoldM
      /\ UNCHANGED <<peasants, mru, windowVars, boundVars>> /\ failed' = failed
    BY <1>1 DEF EndLoop, HoldM
<1>3. th[t].kind = "quit" => Watching(th[t]) /\ \A w \in cover[t] \ {Own} : w \in told
    BY <1>1 DEF Watching, HoldP, Local, Telling
<1>4. CASE th[t].doomed = {}
  <2>1. AfterLoop(t) /\ failed' \subseteq {"assert", "terminate"}
    BY <1>1, <1>2, <1>4 DEF EndLoop, FlagsOK
  <2> QED BY <1>2, <1>3, <2>1, AfterStep
<1>5. CASE th[t].doomed # {}
  <2>1. "sweep" \in Locs /\ Goto(t, "sweep") /\ quitting' = quitting
    BY <1>5, Names DEF EndLoop
  <2>2. PICK l \in Call : th' = [th EXCEPT ![t] = l] /\ Moved(th[t], l, "sweep")
    BY <2>1, Goes
  <2>3. /\ l.pc = "sweep" /\ l.at = 1 /\ l.kind = th[t].kind
        /\ l.kind = "rename" => l.who \in Windows
        /\ \A k \in l.doomed : \E v \in Windows : IdOf[v] = k /\ life[v] = "dead"
    BY <1>1, <2>2 DEF Moved, Local, Scanning, Dropping, Working, HoldM
  <2>4. UNCHANGED <<peasants, mru, quitting, windowVars, failed, boundVars>>
    BY <1>2, <2>1
  <2>5. life' = life /\ told' = told
    BY <2>4 DEF windowVars
  <2>6. ASSUME NEW C \in SUBSET Windows, Watching(th[t]) => C \subseteq cover[t]
        PROVE  Local(l, C)'
    <3>1. l.kind = "quit" => \A w \in C \ {Own} : w \in told'
      BY <1>3, <2>3, <2>5, <2>6
    <3>2. Telling(l, C)'
      BY <2>3, <3>1 DEF Telling
    <3>3. Dropping(l)'
      BY <2>3, <2>5 DEF Dropping
    <3> QED BY <2>3, <3>2, <3>3 DEF Local, Idling, Scanning, Looping, Working, HoldM, HoldP
  <2>7. l.pc \notin {"add", "closeMru", "closeErase"}
    BY <2>3
  <2> QED BY <2>2, <2>4, <2>6, <2>7, LocalStep
<1> QED BY <1>4, <1>5

\* A thread that sweeps goes on, having told whom it had told.
LEMMA Sweeps ==
  ASSUME IInv, NEW t \in Threads, th[t].pc \in {"sweep", "sweepMru"},
         NEW loc \in {"sweepMru", "notify"}, Goto(t, loc), told' = told
  PROVE  \E l \in Call :
           /\ th' = [th EXCEPT ![t] = l] /\ l.pc = loc
           /\ \A u \in Threads \ {t} : ~Clash(l, th[u])
           /\ \A C \in SUBSET Windows :
                (Watching(th[t]) => C \subseteq cover[t]) => Local(l, C)'
<1>1. Local(th[t], cover[t]) /\ loc \in Locs
    BY Known, Names
<1>2. PICK l \in Call : th' = [th EXCEPT ![t] = l] /\ Moved(th[t], l, loc)
    BY <1>1, Goes
<1>3. /\ l.pc = loc /\ l.at = 1 /\ l.kind = th[t].kind
      /\ l.kind = "rename" => l.who \in Windows
    BY <1>1, <1>2 DEF Moved, Local, Scanning, Working, HoldM
<1>4. ASSUME NEW C \in SUBSET Windows, Watching(th[t]) => C \subseteq cover[t]
      PROVE  Local(l, C)'
  <2>1. ASSUME l.kind = "quit" PROVE \A w \in C \ {Own} : w \in told'
    <3>1. Watching(th[t])
      BY <1>3, <2>1 DEF Watching
    <3> QED BY <1>1, <1>3, <1>4, <2>1, <3>1 DEF Local, Telling
  <2>2. Telling(l, C)'
    BY <1>3, <2>1 DEF Telling
  <2> QED BY <1>3, <2>2
          DEF Local, Idling, Scanning, Dropping, Looping, Working, HoldM, HoldP
<1>5. \A u \in Threads \ {t} : ~Clash(l, th[u])
    BY <1>3 DEF Clash
<1> QED BY <1>2, <1>3, <1>4, <1>5

LEMMA SweepKeeps ==
  ASSUME IInv, Track, NEW t \in Threads, Sweep(t)
  PROVE  IInv'
<1>1. Local(th[t], cover[t]) /\ th[t].pc = "sweep" /\ TableOK /\ TableFollowsWindows
    BY Known DEF Sweep, At
<1>2. /\ UNCHANGED <<quitting, windowVars, failed, boundVars>> /\ mru' = mru /\ FreeP
      /\ told' = told
    BY DEF Sweep, windowVars
<1>3. PICK keys : keys = th[t].doomed
    OBVIOUS
<1>4. TableOK' /\ TableFollowsWindows'
  <2>1. peasants' = Erase(peasants, keys) /\ life' = life /\ quitting' = quitting
    BY <1>3 DEF Sweep, windowVars
  <2>2. \A k \in keys : \E v \in Windows : IdOf[v] = k /\ life[v] = "dead"
    BY <1>1, <1>3 DEF Local, Dropping
  <2> QED BY <1>1, <2>1, <2>2, EraseKeeps
<1>5. Goto(t, "sweepMru")
    BY DEF Sweep
<1>6. PICK l \in Call :
        /\ th' = [th EXCEPT ![t] = l] /\ l.pc = "sweepMru"
        /\ \A u \in Threads \ {t} : ~Clash(l, th[u])
        /\ \A C \in SUBSET Windows :
             (Watching(th[t]) => C \subseteq cover[t]) => Local(l, C)'
    BY <1>1, <1>2, <1>5, Sweeps
<1> QED BY <1>2, <1>4, <1>6, TableStep

LEMMA NotifyKeeps ==
  ASSUME IInv, Track, NEW t \in Threads, Notify(t)
  PROVE  IInv'
<1>1. Local(th[t], cover[t]) /\ th[t].pc = "notify" /\ FlagsOK
    BY Known DEF Notify, At
<1>2. /\ AfterLoop(t) /\ th[t].pc \notin HoldM
      /\ UNCHANGED <<peasants, mru, windowVars, boundVars>>
      /\ failed' \subseteq {"assert", "terminate"}
    BY <1>1 DEF Notify, HoldM, FlagsOK
<1>3. th[t].kind = "quit" => Watching(th[t]) /\ \A w \in cover[t] \ {Own} : w \in told
    BY <1>1 DEF Watching, Local, Telling
<1> QED BY <1>2, <1>3, AfterStep

LEMMA QuitOwnKeeps ==
  ASSUME IInv, Track, NEW t \in Threads, QuitOwn(t)
  PROVE  IInv'
<1>1. /\ UNCHANGED <<peasants, mru, life>> /\ quitting' = quitting
      /\ th' = [th EXCEPT ![t] = Idle] /\ Idle.pc = "idle"
    BY DEF QuitOwn, Return, Idle
<1>2. FlagsOK /\ Own \in Windows
    BY Known, WindowsAssumption
<1>3. /\ told \subseteq told' /\ told' \subseteq Windows
      /\ failed' \subseteq {"assert", "terminate"}
    BY <1>2 DEF QuitOwn, FlagsOK
<1>4. FlagsOK'
    BY <1>1, <1>2, <1>3 DEF QuitOwn, boundVars, FlagsOK
<1>5. quitting => quitting'
    BY <1>1, SMT
<1> QED BY <1>1, <1>3, <1>4, <1>5, IdleCall, IdleLocal, QuietStep

TableFree == peasants' = peasants \/ FreeP
Lives == {"new", "adding", "open", "closing", "closed", "leaving", "dead"}

\* A step of thread t that has to do with the life of window w.
LEMMA LifeStep ==
  ASSUME IInv, Track, NEW t \in Threads, NEW l \in Call, th' = [th EXCEPT ![t] = l],
         NEW w \in Windows, NEW new, life' = [life EXCEPT ![w] = new],
         new \in Lives, life[w] = "dead" => new = "dead",
         UNCHANGED <<mru, quitting, named, told, failed, boundVars>>,
         TableFree, TableOK', TableFollowsWindows',
         \A u \in Threads \ {t} :
           th[u].pc \in {"add", "closeMru", "closeErase"} /\ th[u].who = w => new = "dead",
         \A u \in Threads \ {t} : ~Clash(l, th[u]),
         \A C : Local(l, C)'
  PROVE  IInv'
<1>1. /\ th \in [Threads -> Call] /\ mru \in Seq(Entry) /\ LifeOK /\ FlagsOK /\ MruSorted
    BY Known
<1>2. life'[w] = new /\ \A v \in Windows \ {w} : life'[v] = life[v]
    BY <1>1 DEF LifeOK
<1>3. LifeOK'
    BY <1>1 DEF LifeOK, Lives
<1>4. FlagsOK' /\ mru' \in Seq(Entry) /\ MruSorted' /\ mru' = mru
    BY <1>1 DEF FlagsOK, MruSorted, boundVars
<1>5. \A v \in Windows : life[v] = "dead" => life'[v] = "dead"
    BY <1>2
<1>6. \A u \in Threads \ {t} : Working(th[u])'
  <2>1. \A u \in Threads \ {t} : th[u].pc \in {"add", "closeMru", "closeErase"} =>
          life'[th[u].who] = life[th[u].who] \/ life'[th[u].who] = "dead"
    <3> SUFFICES ASSUME NEW u \in Threads \ {t}, th[u].pc \in {"add", "closeMru", "closeErase"}
                 PROVE  life'[th[u].who] = life[th[u].who] \/ life'[th[u].who] = "dead"
      OBVIOUS
    <3>1. th[u].who \in Windows
      BY Known DEF Local, Working
    <3> QED BY <1>2, <3>1
  <2> QED BY <2>1, WorkStays
<1>7. told \subseteq told'
    OBVIOUS
<1> QED BY <1>3, <1>4, <1>5, <1>6, <1>7, StepKeeps DEF TableFree

\* Nobody else adds, or closes, the window of this thread.
LEMMA WorksAlone ==
  ASSUME IInv, NEW t \in Threads, NEW u \in Threads \ {t}, th[u].who = th[t].who
  PROVE  /\ ~(th[t].pc = "add" /\ th[u].pc = "add")
         /\ ~(/\ th[t].pc \in {"closeMru", "closeErase"}
              /\ th[u].pc \in {"closeMru", "closeErase"})
<1> QED BY DEF IInv, OneEach, Clash

\* Windows that neither come to be open nor to be closed.
LEMMA TableLife ==
  ASSUME TableOK, TableFollowsWindows, peasants' = peasants, quitting' = quitting,
         \A v \in Windows : life'[v] = "open" => life[v] = "open",
         \A v \in Windows : life'[v] \in {"closed", "leaving"} =>
           life[v] \in {"closed", "leaving"} \/ quitting
  PROVE  TableOK' /\ TableFollowsWindows'
<1>1. TableOK'
    BY DEF TableOK
<1>2. \A v \in Windows : Listed(v)' <=> Listed(v)
    BY DEF Listed
<1>3. \A v \in Windows : life'[v] = "open" /\ OwnId(v) => Listed(v)'
    BY <1>2 DEF TableFollowsWindows
<1>4. \A v \in Windows : life'[v] \in {"closed", "leaving"} /\ Listed(v)' => quitting
    BY <1>2 DEF TableFollowsWindows
<1>5. quitting => quitting'
    BY SMT
<1> QED BY <1>1, <1>3, <1>4, <1>5 DEF TableFollowsWindows, OwnId

LEMMA BeginAddKeeps ==
  ASSUME IInv, Track, NEW t \in Threads, NEW w \in Windows, BeginAdd(t, w)
  PROVE  IInv'
<1>1. /\ th[t] = Idle /\ th \in [Threads -> Call] /\ LifeOK /\ TableOK /\ TableFollowsWindows
      /\ life[w] = "new"
    BY Begins, Known DEF BeginAdd
<1>2. /\ life' = [life EXCEPT ![w] = "adding"] /\ peasants' = peasants
      /\ UNCHANGED <<mru, quitting, named, told, failed, boundVars>>
    BY DEF BeginAdd
<1>3. PICK l : l = [Idle EXCEPT !.pc = "add", !.kind = "add", !.who = w]
    OBVIOUS
<1>4. l \in Call /\ l.pc = "add" /\ l.kind = "add" /\ l.who = w /\ l.at = 1
  <2>1. "add" \in Locs /\ "add" \in Kinds /\ Idle \in Call
    BY Names, IdleCall
  <2> QED BY <1>3, <2>1 DEF Call, Idle
<1>5. th' = [th EXCEPT ![t] = l]
    BY <1>1, <1>3 DEF BeginAdd
<1>6. life'[w] = "adding" /\ \A v \in Windows \ {w} : life'[v] = life[v]
    BY <1>1, <1>2 DEF LifeOK
<1>7. \A C : Local(l, C)'
    BY <1>4, <1>6
       DEF Local, Idling, Scanning, Dropping, Looping, Telling, Working, HoldM, HoldP
<1>8. TableOK' /\ TableFollowsWindows'
  <2>1. /\ \A v \in Windows : life'[v] = "open" => life[v] = "open"
        /\ \A v \in Windows : life'[v] \in {"closed", "leaving"} =>
                                life[v] \in {"closed", "leaving"}
    BY <1>6
  <2>2. quitting' = quitting
    BY <1>2
  <2> QED BY <1>1, <1>2, <2>1, <2>2, TableLife
<1>9. \A u \in Threads : th[u].who = w => th[u].pc \notin {"add", "closeMru", "closeErase"}
    BY <1>1, Known DEF Local, Working
<1>10. \A u \in Threads \ {t} : ~Clash(l, th[u])
    BY <1>4, <1>9 DEF Clash
<1>11. TableFree /\ "adding" \in Lives
    BY <1>2 DEF TableFree, Lives
<1> QED BY <1>1, <1>2, <1>4, <1>5, <1>7, <1>8, <1>9, <1>10, <1>11, LifeStep

LEMMA BeginCloseKeeps ==
  ASSUME IInv, Track, NEW t \in Threads, NEW w \in Windows, BeginClose(t, w)
  PROVE  IInv'
<1>1. /\ th[t] = Idle /\ th \in [Threads -> Call] /\ LifeOK /\ TableOK /\ TableFollowsWindows
      /\ life[w] \in {"open", "closed"}
    BY Begins, Known DEF BeginClose
<1>2. peasants' = peasants /\ UNCHANGED <<mru, quitting, named, told, failed, boundVars>>
    BY DEF BeginClose
<1>3. \A u \in Threads : th[u].who = w => th[u].pc \notin {"add", "closeMru", "closeErase"}
    BY <1>1, Known DEF Local, Working
<1>4. quitting' = quitting
    BY <1>2
<1>5. CASE quitting
  <2>1. PICK new : new = IF life[w] = "open" THEN "closed" ELSE "dead"
    OBVIOUS
  <2>2. new \in {"closed", "dead"} /\ life' = [life EXCEPT ![w] = new] /\ th' = th
    BY <1>5, <2>1 DEF BeginClose
  <2>3. th' = [th EXCEPT ![t] = Idle]
    BY <1>1, <2>2
  <2>4. life'[w] = new /\ \A v \in Windows \ {w} : life'[v] = life[v]
    BY <1>1, <2>2 DEF LifeOK
  <2>5. TableOK' /\ TableFollowsWindows'
    <3>1. /\ \A v \in Windows : life'[v] = "open" => life[v] = "open"
          /\ \A v \in Windows : life'[v] \in {"closed", "leaving"} =>
               life[v] \in {"closed", "leaving"} \/ quitting
      BY <1>5, <2>2, <2>4
    <3> QED BY <1>1, <1>2, <1>4, <3>1, TableLife
  <2>6. new \in Lives /\ TableFree
    BY <1>2, <2>2 DEF Lives, TableFree
  <2>7. life[w] = "dead" => new = "dead"
    BY <1>1
  <2> QED BY <1>2, <1>3, <2>2, <2>3, <2>5, <2>6,
             <2>7, IdleCall, IdleLocal, IdleClash, LifeStep
<1>6. CASE ~quitting
  <2>1. PICK new : new = IF life[w] = "open" THEN "closing" ELSE "leaving"
    OBVIOUS
  <2>2. /\ new \in {"closing", "leaving"} /\ life' = [life EXCEPT ![w] = new]
        /\ new = "leaving" => life[w] = "closed"
        /\ th' = [th EXCEPT ![t].pc = "closeMru", ![t].kind = "close", ![t].who = w]
    BY <1>1, <1>6, <2>1 DEF BeginClose
  <2>3. PICK l : l = [Idle EXCEPT !.pc = "closeMru", !.kind = "close", !.who = w]
    OBVIOUS
  <2>4. l \in Call /\ l.pc = "closeMru" /\ l.kind = "close" /\ l.who = w /\ l.at = 1
    <3>1. "closeMru" \in Locs /\ "close" \in Kinds /\ Idle \in Call
      BY Names, IdleCall
    <3> QED BY <2>3, <3>1 DEF Call, Idle
  <2>5. th' = [th EXCEPT ![t] = l]
    BY <1>1, <2>2, <2>3
  <2>6. life'[w] = new /\ \A v \in Windows \ {w} : life'[v] = life[v]
    BY <1>1, <2>2 DEF LifeOK
  <2>7. life'[l.who] \in {"closing", "leaving", "dead"}
    BY <2>2, <2>4, <2>6
  <2>8. \A C : Local(l, C)'
    BY <2>4, <2>7
       DEF Local, Idling, Scanning, Dropping, Looping, Telling, Working, HoldM, HoldP
  <2>9. TableOK' /\ TableFollowsWindows'
    <3>1. /\ \A v \in Windows : life'[v] = "open" => life[v] = "open"
          /\ \A v \in Windows : life'[v] \in {"closed", "leaving"} =>
               life[v] \in {"closed", "leaving"} \/ quitting
      BY <2>2, <2>6
    <3> QED BY <1>1, <1>2, <1>4, <3>1, TableLife
  <2>10. new \in Lives /\ TableFree
    BY <1>2, <2>2 DEF Lives, TableFree
  <2>11. life[w] = "dead" => new = "dead"
    BY <1>1
  <2>12. \A u \in Threads \ {t} : ~Clash(l, th[u])
    BY <1>3, <2>4 DEF Clash
  <2> QED BY <1>2, <1>3, <2>2, <2>4, <2>5, <2>8, <2>9, <2>10, <2>11, <2>12, LifeStep
<1> QED BY <1>5, <1>6

\* A window's call goes on to notify AppHost, or is over.
LEMMA Notifies ==
  ASSUME IInv, NEW t \in Threads, NEW w, IF w = Own THEN Return(t) ELSE Goto(t, "notify"),
         th[t].pc \notin HoldM, th[t].kind \in {"add", "close"}
  PROVE  \E l \in Call : /\ th' = [th EXCEPT ![t] = l]
                         /\ \A u \in Threads \ {t} : ~Clash(l, th[u])
                         /\ \A C : Local(l, C)'
<1>1. Local(th[t], cover[t]) /\ "notify" \in Locs
    BY Known, Names
<1>2. CASE w = Own
  <2>1. th' = [th EXCEPT ![t] = Idle]
    BY <1>2 DEF Return
  <2> QED BY <2>1, IdleCall, IdleLocal, IdleClash
<1>3. CASE w # Own
  <2>1. PICK l \in Call : th' = [th EXCEPT ![t] = l] /\ Moved(th[t], l, "notify")
    BY <1>1, <1>3, Goes
  <2>2. l.pc = "notify" /\ l.at = 1 /\ l.kind \in {"add", "close"}
    BY <1>1, <2>1 DEF Moved, Local, Scanning
  <2>3. \A C : Local(l, C)'
    BY <2>2 DEF Local, Idling, Scanning, Dropping, Looping, Telling, Working, HoldM, HoldP
  <2>4. \A u \in Threads \ {t} : ~Clash(l, th[u])
    BY <2>2 DEF Clash
  <2> QED BY <2>1, <2>3, <2>4
<1> QED BY <1>2, <1>3

LEMMA AddPeasantKeeps ==
  ASSUME IInv, Track, NEW t \in Threads, AddPeasant(t)
  PROVE  IInv'
<1>1. /\ Local(th[t], cover[t]) /\ th[t].pc = "add" /\ LifeOK /\ TableOK /\ TableFollowsWindows
    BY Known DEF AddPeasant, At
<1>2. FreeP /\ UNCHANGED <<mru, quitting, named, told, failed, boundVars>>
    BY DEF AddPeasant
<1>3. PICK w \in Windows : w = th[t].who
    BY <1>1 DEF Local, Working
<1>4. life[w] \in {"adding", "dead"} /\ th[t].kind = "add"
    BY <1>1, <1>3 DEF Local, Working
<1>5. CASE Return(t) /\ UNCHANGED <<peasants, life>>
  <2>1. th' = [th EXCEPT ![t] = Idle] /\ Idle.pc = "idle"
    BY <1>5 DEF Return, Idle
  <2>2. UNCHANGED <<peasants, mru, quitting, windowVars, failed, boundVars>>
    BY <1>2, <1>5 DEF windowVars
  <2> QED BY <2>1, <2>2, IdleCall, IdleLocal, LocalStep
<1>6. CASE /\ peasants' = Put(peasants, IdOf[w], w)
           /\ life' = [life EXCEPT ![w] = IF @ = "adding" THEN "open" ELSE @]
           /\ IF w = Own THEN Return(t) ELSE Goto(t, "notify")
  <2>1. PICK new : new = IF life[w] = "adding" THEN "open" ELSE life[w]
    OBVIOUS
  <2>2. /\ life' = [life EXCEPT ![w] = new] /\ new \in {"open", "dead"}
        /\ life[w] = "dead" => new = "dead"
    BY <1>4, <1>6, <2>1
  <2>3. life'[w] = new /\ \A v \in Windows \ {w} : life'[v] = life[v]
    BY <1>1, <2>2 DEF LifeOK
  <2>4. PICK k : k = IdOf[w]
    OBVIOUS
  <2>5. /\ DOMAIN peasants' = DOMAIN peasants \cup {k}
        /\ peasants'[k] = w /\ \A i \in DOMAIN peasants \ {k} : peasants'[i] = peasants[i]
    BY <1>6, <2>4 DEF Put
  <2>6. TableOK'
    <3>1. k \in Ids
      BY <2>4 DEF Ids
    <3> QED BY <1>1, <2>4, <2>5, <3>1 DEF TableOK
  <2>7. ASSUME NEW v \in Windows, life'[v] = "open", OwnId(v) PROVE Listed(v)'
    <3>1. CASE v = w
      BY <2>4, <2>5, <3>1 DEF Listed
    <3>2. CASE v # w
      <4>1. Listed(v) /\ IdOf[v] # k
        BY <1>1, <2>3, <2>4, <2>7, <3>2 DEF TableFollowsWindows, OwnId
      <4> QED BY <2>5, <4>1 DEF Listed
    <3> QED BY <3>1, <3>2
  <2>8. ASSUME NEW v \in Windows, life'[v] \in {"closed", "leaving"}, Listed(v)' PROVE quitting
    <3>1. v # w
      BY <2>2, <2>3, <2>8
    <3>2. IdOf[v] # k
      BY <2>5, <2>8, <3>1 DEF Listed
    <3>3. Listed(v)
      BY <2>5, <2>8, <3>2 DEF Listed
    <3> QED BY <1>1, <2>3, <2>8, <3>1, <3>3 DEF TableFollowsWindows
  <2>9. TableFollowsWindows'
    <3>1. quitting => quitting'
      BY <1>2, SMT
    <3> QED BY <2>7, <2>8, <3>1 DEF TableFollowsWindows, OwnId
  <2>10. PICK l \in Call : /\ th' = [th EXCEPT ![t] = l]
                           /\ \A u \in Threads \ {t} : ~Clash(l, th[u])
                           /\ \A C : Local(l, C)'
    <3>1. th[t].pc \notin HoldM /\ th[t].kind \in {"add", "close"}
      BY <1>1, <1>4 DEF HoldM
    <3>2. IF w = Own THEN Return(t) ELSE Goto(t, "notify")
      BY <1>6
    <3> QED BY <3>1, <3>2, Notifies
  <2>11. ASSUME NEW u \in Threads \ {t}, th[u].pc \in {"add", "closeMru", "closeErase"},
                th[u].who = w
         PROVE  new = "dead"
    <3>1. th[u].pc # "add"
      BY <1>1, <1>3, <2>11, WorksAlone
    <3>2. life[w] \in {"closing", "leaving", "dead"}
      BY <2>11, <3>1, Known DEF Local, Working
    <3> QED BY <1>4, <2>2, <3>2
  <2>12. new \in Lives
    BY <2>2 DEF Lives
  <2>13. /\ \A u \in Threads \ {t} :
              th[u].pc \in {"add", "closeMru", "closeErase"} /\ th[u].who = w => new = "dead"
         /\ TableFree /\ life' = [life EXCEPT ![w] = new] /\ (life[w] = "dead" => new = "dead")
         /\ th' = [th EXCEPT ![t] = l]
    BY <1>2, <2>2, <2>10, <2>11 DEF TableFree
  <2>14. (\A u \in Threads \ {t} : ~Clash(l, th[u])) /\ \A C : Local(l, C)'
    BY <2>10
  <2> QED BY <1>2, <2>6, <2>9, <2>12, <2>13, <2>14, LifeStep
<1> QED BY <1>3, <1>5, <1>6 DEF AddPeasant

LEMMA CloseEraseKeeps ==
  ASSUME IInv, Track, NEW t \in Threads, CloseErase(t)
  PROVE  IInv'
<1>1. /\ Local(th[t], cover[t]) /\ th[t].pc = "closeErase"
      /\ LifeOK /\ TableOK /\ TableFollowsWindows
    BY Known DEF CloseErase, At
<1>2. FreeP /\ UNCHANGED <<mru, quitting, named, told, failed, boundVars>>
    BY DEF CloseErase
<1>3. PICK w \in Windows : w = th[t].who
    BY <1>1 DEF Local, Working
<1>4. life[w] \in {"closing", "leaving", "dead"} /\ th[t].kind = "close"
    BY <1>1, <1>3 DEF Local, Working
<1>5. PICK new : new = IF life[w] = "closing" THEN "closed" ELSE "dead"
    OBVIOUS
<1>6. /\ life' = [life EXCEPT ![w] = new] /\ new \in {"closed", "dead"}
      /\ life[w] = "dead" => new = "dead"
    BY <1>3, <1>5 DEF CloseErase
<1>7. life'[w] = new /\ \A v \in Windows \ {w} : life'[v] = life[v]
    BY <1>1, <1>6 DEF LifeOK
<1>8. /\ DOMAIN peasants' = DOMAIN peasants \ {IdOf[w]}
      /\ \A k \in DOMAIN peasants' : peasants'[k] = peasants[k]
    BY <1>3 DEF CloseErase, Erase
<1>9. TableOK'
    BY <1>1, <1>8 DEF TableOK
<1>10. ASSUME NEW v \in Windows, life'[v] = "open", OwnId(v) PROVE Listed(v)'
  <2>1. v # w
    BY <1>6, <1>7, <1>10
  <2>2. Listed(v) /\ IdOf[v] # IdOf[w]
    BY <1>1, <1>7, <1>10, <2>1 DEF TableFollowsWindows, OwnId
  <2> QED BY <1>8, <2>2 DEF Listed
<1>11. ASSUME NEW v \in Windows, life'[v] \in {"closed", "leaving"}, Listed(v)' PROVE quitting
  <2>1. v # w /\ Listed(v)
    BY <1>8, <1>11 DEF Listed
  <2> QED BY <1>1, <1>7, <1>11, <2>1 DEF TableFollowsWindows
<1>12. TableFollowsWindows'
  <2>1. quitting => quitting'
    BY <1>2, SMT
  <2> QED BY <1>10, <1>11, <2>1 DEF TableFollowsWindows, OwnId
<1>13. PICK l \in Call : /\ th' = [th EXCEPT ![t] = l]
                         /\ \A u \in Threads \ {t} : ~Clash(l, th[u])
                         /\ \A C : Local(l, C)'
  <2>1. th[t].pc \notin HoldM /\ th[t].kind \in {"add", "close"}
    BY <1>1, <1>4 DEF HoldM
  <2>2. IF w = Own THEN Return(t) ELSE Goto(t, "notify")
    BY <1>3 DEF CloseErase
  <2> QED BY <2>1, <2>2, Notifies
<1>14. ASSUME NEW u \in Threads \ {t}, th[u].pc \in {"add", "closeMru", "closeErase"},
              th[u].who = w
       PROVE  new = "dead"
  <2>1. th[u].pc = "add"
    BY <1>1, <1>3, <1>14, WorksAlone
  <2>2. life[w] \in {"adding", "dead"}
    BY <1>14, <2>1, Known DEF Local, Working
  <2> QED BY <1>4, <1>6, <2>2
<1>15. new \in Lives
    BY <1>6 DEF Lives
<1>16. /\ \A u \in Threads \ {t} :
            th[u].pc \in {"add", "closeMru", "closeErase"} /\ th[u].who = w => new = "dead"
       /\ TableFree /\ life' = [life EXCEPT ![w] = new] /\ (life[w] = "dead" => new = "dead")
       /\ th' = [th EXCEPT ![t] = l]
    BY <1>2, <1>6, <1>13, <1>14 DEF TableFree
<1>17. (\A u \in Threads \ {t} : ~Clash(l, th[u])) /\ \A C : Local(l, C)'
    BY <1>13
<1> QED BY <1>2, <1>9, <1>12, <1>15, <1>16, <1>17, LifeStep

LEMMA KillKeeps ==
  ASSUME IInv, Track, NEW w \in Windows, Kill(w)
  PROVE  IInv'
<1>1. PICK t \in Threads : t = UI
    BY ThreadsAssumption
<1>2. /\ th \in [Threads -> Call] /\ mru \in Seq(Entry) /\ LifeOK /\ FlagsOK /\ TableOK
      /\ MruSorted /\ TableFollowsWindows /\ th[t] \in Call /\ Local(th[t], cover[t])
    BY Known
<1>3. /\ life' = [life EXCEPT ![w] = "dead"] /\ named' = named \ {w}
      /\ th' = th /\ peasants' = peasants /\ mru' = mru /\ quitting' = quitting /\ told' = told
      /\ failed' = failed /\ clock' = clock /\ calls' = calls
    BY DEF Kill, boundVars
<1>4. life'[w] = "dead" /\ \A v \in Windows \ {w} : life'[v] = life[v]
    BY <1>2, <1>3 DEF LifeOK
<1>5. LifeOK' /\ FlagsOK' /\ mru' \in Seq(Entry) /\ MruSorted'
    BY <1>2, <1>3 DEF LifeOK, FlagsOK, MruSorted
<1>6. TableOK' /\ TableFollowsWindows'
  <2>1. /\ \A v \in Windows : life'[v] = "open" => life[v] = "open"
        /\ \A v \in Windows : life'[v] \in {"closed", "leaving"} =>
                                life[v] \in {"closed", "leaving"}
    BY <1>4
  <2> QED BY <1>2, <1>3, <2>1, TableLife
<1>7. PICK l \in Call : l = th[t]
    BY <1>2
<1>8. th' = [th EXCEPT ![t] = l]
    BY <1>2, <1>3, <1>7
<1>9. /\ \A v \in Windows : life[v] = "dead" => life'[v] = "dead"
      /\ \A v \in Windows : life'[v] = life[v] \/ life'[v] = "dead"
    BY <1>4
<1>10. ASSUME NEW u \in Threads
       PROVE  th[u].pc \in {"add", "closeMru", "closeErase"} =>
                life'[th[u].who] = life[th[u].who] \/ life'[th[u].who] = "dead"
    BY <1>9, Known DEF Local, Working
<1>11. \A u \in Threads \ {t} : Working(th[u])'
    BY <1>8, <1>10, WorkStays
<1>12. Working(l)'
    BY <1>2, <1>7, <1>10, WorkOn DEF Local
<1>13. \A u \in Threads \ {t} : ~Clash(l, th[u])
    BY <1>7, WorksAlone DEF Clash
<1>14. ASSUME NEW C \in SUBSET Windows, Watching(th[t]) => C \subseteq cover[t], Tracked(l, C)'
       PROVE  Local(l, C)'
  <2>1. PICK D : D = cover[t]
    OBVIOUS
  <2>2. C \in SUBSET D
    BY <1>7, <1>14, <2>1 DEF Tracked, Watching
  <2>3. Local(l, D)
    BY <1>2, <1>7, <2>1
  <2>4. told \subseteq told'
    BY <1>3
  <2> QED BY <1>3, <1>9, <1>12, <2>2, <2>3, <2>4, LocalStays
<1>15. told \subseteq told'
    BY <1>3
<1> QED BY <1>3, <1>5, <1>6, <1>8, <1>9, <1>11, <1>13, <1>14, <1>15, StepKeeps

-----------------------------------------------------------------------------
(* Steps that leave a loop, and the steps that tell a window to quit.      *)

\* A step of thread t leaves the others where they are.
LEMMA AfterOthers ==
  ASSUME IInv, NEW t \in Threads, AfterLoop(t), NEW u \in Threads \ {t}
  PROVE  th'[u] = th[u]
<1>1. th \in [Threads -> Call]
    BY Known
<1>2. CASE th[t].kind \in {"name", "rename"}
    BY <1>1, <1>2 DEF AfterLoop
<1>3. CASE th[t].kind = "save"
    BY <1>1, <1>3 DEF AfterLoop
<1>4. CASE th[t].kind = "quit"
    BY <1>1, <1>4 DEF AfterLoop
<1>5. CASE th[t].kind \notin {"name", "rename", "save", "quit"}
    BY <1>1, <1>5 DEF AfterLoop, Return
<1> QED BY <1>2, <1>3, <1>4, <1>5

LEMMA OthersStay ==
  ASSUME IInv, NEW t \in Threads, Step(t) \/ Arrive(t), NEW u \in Threads \ {t}
  PROVE  th'[u] = th[u]
<1>1. th \in [Threads -> Call]
    BY Known
<1>2. CASE Arrive(t)
  <2>1. ASSUME NEW w \in Windows, BeginAdd(t, w) PROVE th'[u] = th[u]
    BY <1>1, <2>1 DEF BeginAdd
  <2>2. ASSUME NEW w \in Windows, BeginActivate(t, w) PROVE th'[u] = th[u]
    BY <1>1, <2>2 DEF BeginActivate
  <2>3. ASSUME NEW w \in Windows, BeginClose(t, w) PROVE th'[u] = th[u]
    BY <1>1, <2>3 DEF BeginClose
  <2>4. CASE BeginId(t) \/ BeginMru(t)
    BY <1>1, <2>4 DEF BeginId, BeginMru
  <2>5. CASE BeginLoop(t) \/ BeginQuit(t)
    BY <1>1, <2>5 DEF BeginLoop, BeginQuit
  <2> QED BY <1>2, <2>1, <2>2, <2>3, <2>4, <2>5 DEF Arrive
<1>3. CASE Step(t)
  <2>1. CASE AddPeasant(t) \/ ActivateClear(t) \/ ActivateInsert(t)
    BY <1>1, <2>1 DEF AddPeasant, ActivateClear, ActivateInsert, Goto, Return
  <2>2. CASE CloseMru(t) \/ CloseErase(t)
    BY <1>1, <2>2 DEF CloseMru, CloseErase, Goto, Return
  <2>3. CASE GetPeasant(t) \/ AskPeasant(t) \/ DropPeasant(t)
    BY <1>1, <2>3 DEF GetPeasant, AskPeasant, DropPeasant, Found, Goto, Return
  <2>4. CASE ForgetPeasant(t) \/ TakeName(t)
    BY <1>1, <2>4 DEF ForgetPeasant, TakeName, Found, Return
  <2>5. CASE LockMru(t) \/ FirstPeasant(t)
    BY <1>1, <2>5 DEF LockMru, FirstPeasant, Goto
  <2>6. CASE NextMru(t)
    <3>1. CASE LeaveMru(t, 0)
      BY <1>1, <3>1 DEF LeaveMru
    <3>2. CASE mru[th[t].at].id \in DOMAIN peasants /\ ~LeaveMru(t, 0)
      BY <1>1, <2>6, <3>2 DEF NextMru
    <3>3. CASE mru[th[t].at].id \notin DOMAIN peasants /\ ~LeaveMru(t, 0)
      BY <1>1, <2>6, <3>3 DEF NextMru
    <3> QED BY <3>1, <3>2, <3>3
  <2>7. CASE AskMru(t) \/ DropMru(t) \/ ForgetMru(t)
    BY <1>1, <2>7 DEF AskMru, DropMru, ForgetMru, LeaveMru, Goto, Return
  <2>8. ASSUME NEW k \in Ids, VisitPeasant(t, k) PROVE th'[u] = th[u]
    BY <1>1, <2>8 DEF VisitPeasant
  <2>9. CASE LockLoop(t) \/ PeasantAnswers(t) \/ PeasantDies(t)
    BY <1>1, <2>9, AfterOthers DEF LockLoop, PeasantAnswers, PeasantDies, Return
  <2>10. CASE EndLoop(t) \/ Sweep(t) \/ SweepMru(t)
    BY <1>1, <2>10, AfterOthers DEF EndLoop, Sweep, SweepMru, Goto
  <2>11. CASE Notify(t) \/ QuitOwn(t)
    BY <1>1, <2>11, AfterOthers DEF Notify, QuitOwn, Return
  <2> QED BY <1>3, <2>1, <2>2, <2>3, <2>4, <2>5, <2>6, <2>7, <2>8, <2>9, <2>10,
             <2>11 DEF Step
<1> QED BY <1>2, <1>3

\* The steps of the loop over _mruPeasants.
LEMMA LoopSteps ==
  ASSUME NEW t \in Threads, Step(t) \/ Arrive(t), th[t].pc \in HoldM
  PROVE  NextMru(t) \/ AskMru(t) \/ DropMru(t)
<1>1. th[t].pc \in {"mru", "mruAsk", "mruDrop"}
    BY DEF HoldM
<1>2. ~Arrive(t)
    BY <1>1 DEF Arrive, BeginAdd, BeginActivate, BeginClose, BeginId, BeginMru, BeginLoop,
                       BeginQuit, Begin, At
<1>3. ~(AddPeasant(t) \/ ActivateClear(t) \/ ActivateInsert(t) \/ CloseMru(t) \/ CloseErase(t))
    BY <1>1 DEF AddPeasant, ActivateClear, ActivateInsert, CloseMru, CloseErase, At
<1>4. ~(GetPeasant(t) \/ AskPeasant(t) \/ DropPeasant(t) \/ ForgetPeasant(t) \/ TakeName(t))
    BY <1>1 DEF GetPeasant, AskPeasant, DropPeasant, ForgetPeasant, TakeName, At
<1>5. ~(LockMru(t) \/ FirstPeasant(t) \/ ForgetMru(t) \/ LockLoop(t) \/ PeasantDies(t))
    BY <1>1 DEF LockMru, FirstPeasant, ForgetMru, LockLoop, PeasantDies, At
<1>6. ~(\E k \in Ids : VisitPeasant(t, k)) /\ ~PeasantAnswers(t)
    BY <1>1 DEF VisitPeasant, PeasantAnswers, At
<1>7. ~(EndLoop(t) \/ Sweep(t) \/ SweepMru(t) \/ Notify(t) \/ QuitOwn(t))
    BY <1>1 DEF EndLoop, Sweep, SweepMru, Notify, QuitOwn, At
<1> QED BY <1>2, <1>3, <1>4, <1>5, <1>6, <1>7 DEF Step

\* What MostRecentFirst says of a step of thread t that leaves the loop.
Recent(t) ==
  th[t].pc \in HoldM /\ th'[t].pc \in {"get", "mruForget"} =>
    \A w \in cover[t] : IdOf[w] \notin th[t].unfit =>
      \E i \in 1..Len(mru) : /\ mru[i].id = th'[t].key
                             /\ \A j \in 1..(i - 1) : mru[j].id # IdOf[w]

\* At the end of the list no fit window can have been passed; it would be listed.
LEMMA NextRecent ==
  ASSUME IInv, NEW t \in Threads, NextMru(t)
  PROVE  Recent(t)
<1>1. /\ th \in [Threads -> Call] /\ th[t] \in Call /\ Local(th[t], cover[t])
      /\ mru \in Seq(Entry) /\ th[t].pc = "mru"
    BY Known DEF NextMru, At
<1>2. CASE th[t].at > Len(mru)
  <2>1. ASSUME NEW w \in cover[t], IdOf[w] \notin th[t].unfit PROVE FALSE
    <3>1. PICK i \in 1..Len(mru) : mru[i].id = IdOf[w]
      <4>1. w \in Steady(t) /\ th[t].kind # "quit"
        BY <1>1 DEF IInv, Covered, Local, Scanning
      <4> QED BY <4>1 DEF Steady
    <3>2. i \in 1..(th[t].at - 1)
      <4>1. Len(mru) \in Nat /\ th[t].at \in Nat
        BY <1>1, Times DEF Call
      <4> QED BY <1>2, <4>1, SMT
    <3> QED BY <1>1, <2>1, <3>1, <3>2 DEF Local, Scanning, HoldM
  <2> QED BY <2>1 DEF Recent
<1>3. CASE ~(th[t].at > Len(mru))
  <2>1. th'[t].pc \in {"mru", "mruAsk"}
    <3>1. PICK k : k = mru[th[t].at].id
      OBVIOUS
    <3>2. th' = IF k \in DOMAIN peasants
                  THEN [th EXCEPT ![t].pc = "mruAsk", ![t].win = peasants[k]]
                  ELSE [th EXCEPT ![t].doomed = @ \cup {k}, ![t].at = @ + 1]
      BY <1>3, <3>1 DEF NextMru
    <3>3. CASE k \in DOMAIN peasants
      BY <1>1, <3>2, <3>3 DEF Call
    <3>4. CASE k \notin DOMAIN peasants
      <4>1. PICK l : l = [th[t] EXCEPT !.doomed = @ \cup {k}, !.at = @ + 1]
        OBVIOUS
      <4>2. l.pc = "mru"
        BY <1>1, <4>1 DEF Call
      <4>3. th' = [th EXCEPT ![t] = l]
        BY <3>2, <3>4, <4>1
      <4> QED BY <1>1, <4>2, <4>3
    <3> QED BY <3>3, <3>4
  <2> QED BY <2>1 DEF Recent
<1> QED BY <1>2, <1>3

\* The window that is found stands where the loop has come to.
LEMMA AskRecent ==
  ASSUME IInv, NEW t \in Threads, AskMru(t)
  PROVE  Recent(t)
<1>1. /\ th \in [Threads -> Call] /\ th[t] \in Call /\ Local(th[t], cover[t])
      /\ th[t].pc = "mruAsk"
    BY Known DEF AskMru, At
<1>2. PICK k : k = mru[th[t].at].id
    OBVIOUS
<1>3. CASE LeaveMru(t, k)
  <2>1. th'[t].key = k
    <3>1. PICK loc : loc = IF th[t].doomed = {} THEN "get" ELSE "mruForget"
      OBVIOUS
    <3>2. PICK l : l = [th[t] EXCEPT !.pc = loc, !.key = k, !.win = None, !.at = 1, !.unfit = {}]
      OBVIOUS
    <3>3. l.key = k
      BY <1>1, <3>2 DEF Call
    <3>4. th' = [th EXCEPT ![t] = l]
      BY <1>3, <3>1, <3>2 DEF LeaveMru
    <3> QED BY <1>1, <3>3, <3>4
  <2>2. th[t].at \in 1..Len(mru) /\ mru[th[t].at].id = th'[t].key
    BY <1>1, <1>2, <2>1 DEF Local, Scanning
  <2>3. \A w \in cover[t] : IdOf[w] \notin th[t].unfit =>
          \A j \in 1..(th[t].at - 1) : mru[j].id # IdOf[w]
    BY <1>1 DEF Local, Scanning, HoldM
  <2> QED BY <2>2, <2>3 DEF Recent
<1>4. CASE Alive(th[t].win) /\ k \in th[t].unfit
  <2>1. PICK l : l = [th[t] EXCEPT !.pc = "mru", !.at = @ + 1, !.win = None]
    OBVIOUS
  <2>2. l.pc = "mru"
    BY <1>1, <2>1 DEF Call
  <2>3. th' = [th EXCEPT ![t] = l]
    BY <1>2, <1>4, <2>1 DEF AskMru
  <2> QED BY <1>1, <2>2, <2>3 DEF Recent
<1>5. CASE Goto(t, "mruDrop")
  <2>1. th'[t].pc = "mruDrop"
    BY <1>1, <1>5 DEF Goto, Call
  <2> QED BY <2>1 DEF Recent
<1>6. CASE Return(t)
  <2>1. th'[t].pc = "idle"
    BY <1>1, <1>6 DEF Return, Idle
  <2> QED BY <2>1 DEF Recent
<1> QED BY <1>2, <1>3, <1>4, <1>5, <1>6 DEF AskMru

LEMMA DropRecent ==
  ASSUME IInv, NEW t \in Threads, DropMru(t)
  PROVE  Recent(t)
<1>1. th \in [Threads -> Call] /\ th[t] \in Call
    BY Known
<1>2. PICK k : k = mru[th[t].at].id
    OBVIOUS
<1>3. PICK l : l = [th[t] EXCEPT !.pc = "mru", !.doomed = @ \cup {k}, !.at = @ + 1, !.win = None]
    OBVIOUS
<1>4. l.pc = "mru"
    BY <1>1, <1>3 DEF Call
<1>5. th' = [th EXCEPT ![t] = l]
    BY <1>2, <1>3 DEF DropMru
<1> QED BY <1>1, <1>4, <1>5 DEF Recent

LEMMA StepRecent ==
  IInv /\ [Next]_vars => [\A t \in Threads : Recent(t)]_vars
<1> SUFFICES ASSUME IInv, Next, NEW t \in Threads PROVE Recent(t)
    OBVIOUS
<1>1. th \in [Threads -> Call]
    BY Known
<1>2. ASSUME th'[t] = th[t] PROVE Recent(t)
  <2>1. th[t].pc \in HoldM => th[t].pc \notin {"get", "mruForget"}
    BY DEF HoldM
  <2> QED BY <1>2, <2>1 DEF Recent
<1>3. ASSUME NEW w \in Windows, Kill(w) PROVE Recent(t)
    BY <1>2, <1>3 DEF Kill
<1>4. ASSUME NEW u \in Threads, Step(u) \/ Arrive(u), u # t PROVE Recent(t)
    BY <1>2, <1>4, OthersStay
<1>5. ASSUME Step(t) \/ Arrive(t) PROVE Recent(t)
  <2>1. CASE th[t].pc \in HoldM
    BY <1>5, <2>1, LoopSteps, NextRecent, AskRecent, DropRecent
  <2>2. CASE th[t].pc \notin HoldM
    BY <2>2 DEF Recent
  <2> QED BY <2>1, <2>2
<1> QED BY <1>3, <1>4, <1>5 DEF Next

\* Only QuitOwn tells the monarch's own window.
LEMMA ToldOwn ==
  ASSUME IInv, NEW t \in Threads, Step(t) \/ Arrive(t), Own \in told' \ told
  PROVE  QuitOwn(t)
<1>1. ~Arrive(t)
    BY DEF Arrive, BeginAdd, BeginActivate, BeginClose, BeginId, BeginMru, BeginLoop,
                 BeginQuit, windowVars
<1>2. ~(AddPeasant(t) \/ ActivateClear(t) \/ ActivateInsert(t) \/ CloseMru(t) \/ CloseErase(t))
    BY DEF AddPeasant, ActivateClear, ActivateInsert, CloseMru, CloseErase, windowVars
<1>3. ~(GetPeasant(t) \/ AskPeasant(t) \/ DropPeasant(t) \/ ForgetPeasant(t) \/ TakeName(t))
    BY DEF GetPeasant, AskPeasant, DropPeasant, ForgetPeasant, TakeName, windowVars
<1>4. ~(LockMru(t) \/ FirstPeasant(t) \/ NextMru(t) \/ AskMru(t) \/ DropMru(t) \/ ForgetMru(t))
    BY DEF LockMru, FirstPeasant, NextMru, AskMru, DropMru, ForgetMru, windowVars
<1>5. ~(LockLoop(t) \/ PeasantDies(t)) /\ ~(\E k \in Ids : VisitPeasant(t, k))
    BY DEF LockLoop, PeasantDies, VisitPeasant, windowVars
<1>6. ~PeasantAnswers(t)
    BY DEF PeasantAnswers, QuitOthers
<1>7. ~(EndLoop(t) \/ Sweep(t) \/ SweepMru(t) \/ Notify(t))
    BY DEF EndLoop, Sweep, SweepMru, Notify, windowVars
<1> QED BY <1>1, <1>2, <1>3, <1>4, <1>5, <1>6, <1>7 DEF Step

-----------------------------------------------------------------------------
(* The list of activations, and the steps that change it.                  *)

INSTANCE FiniteSetTheorems
INSTANCE SequenceTheorems

Rank(P, i) == Cardinality({j \in P : j <= i})

\* The members of a set of places are numbered by their rank, in order.
LEMMA Ranks ==
  ASSUME NEW m \in Nat, NEW P \in SUBSET (1..m)
  PROVE  /\ IsFiniteSet(P) /\ Cardinality(P) \in Nat
         /\ \A i \in P : Rank(P, i) \in 1..Cardinality(P)
         /\ \A i, j \in P : i < j => Rank(P, i) < Rank(P, j)
         /\ \A n \in 1..Cardinality(P) : \E i \in P : Rank(P, i) = n
<1> DEFINE Upto(i) == {j \in P : j <= i}
           r == [i \in P |-> Rank(P, i)]
<1>1. IsFiniteSet(1..m) /\ P \subseteq 1..m
    BY FS_Interval, SMT
<1>2. IsFiniteSet(P) /\ Cardinality(P) \in Nat
    BY <1>1, FS_Subset, FS_CardinalityType
<1>3. ASSUME NEW i \in P
      PROVE  /\ IsFiniteSet(Upto(i)) /\ Cardinality(Upto(i)) \in 1..Cardinality(P)
             /\ i \in Upto(i)
  <2>1. Upto(i) \in SUBSET P /\ i \in Upto(i)
    BY <1>1, SMT
  <2>2. IsFiniteSet(Upto(i)) /\ Cardinality(Upto(i)) <= Cardinality(P)
    BY <1>2, <2>1, FS_Subset
  <2>3. Cardinality(Upto(i)) \in Nat /\ Cardinality(Upto(i)) # 0
    BY <2>1, <2>2, FS_CardinalityType, FS_EmptySet
  <2> QED BY <1>2, <2>1, <2>2, <2>3, SMT
<1>4. ASSUME NEW i \in P, NEW j \in P, i < j
      PROVE  Cardinality(Upto(i)) < Cardinality(Upto(j))
  <2>1. Upto(i) \in SUBSET Upto(j) /\ j \in Upto(j) /\ j \notin Upto(i)
    <3>1. /\ \A x \in P : x <= i => x <= j
          /\ j <= j /\ ~(j <= i)
      BY <1>1, <1>4, SMT
    <3> QED BY <3>1
  <2>2. Cardinality(Upto(i)) <= Cardinality(Upto(j)) /\ Cardinality(Upto(i)) # Cardinality(Upto(j))
    BY <1>3, <2>1, FS_Subset
  <2>3. Cardinality(Upto(i)) \in 1..Cardinality(P) /\ Cardinality(Upto(j)) \in 1..Cardinality(P)
    BY <1>3
  <2> QED BY <1>2, <2>2, <2>3, SMT
<1>5. \A i \in P : Rank(P, i) = Cardinality(Upto(i))
    BY DEF Rank
<1> HIDE DEF Upto
<1>6. \A i, j \in P : i < j => Rank(P, i) < Rank(P, j)
    BY <1>4, <1>5
<1>7. \A i \in P : Rank(P, i) \in 1..Cardinality(P)
    BY <1>3, <1>5
<1>8. r \in Injection(P, 1..Cardinality(P))
  <2>1. r \in [P -> 1..Cardinality(P)]
    BY <1>7
  <2>2. \A i, j \in P : Rank(P, i) = Rank(P, j) => i = j
    <3>1. \A i, j \in P : i < j \/ j < i \/ i = j
      BY <1>1, SMT
    <3>2. \A i, j \in P : i < j => Rank(P, i) # Rank(P, j)
      BY <1>2, <1>6, <1>7, SMT
    <3> QED BY <3>1, <3>2
  <2> QED BY <2>1, <2>2 DEF Injection, IsInjective
<1>9. IsFiniteSet(1..Cardinality(P)) /\ Cardinality(1..Cardinality(P)) = Cardinality(P)
    BY <1>2, FS_Interval, SMT
<1>10. r \in Surjection(P, 1..Cardinality(P))
    BY <1>8, <1>9, FS_Injection
<1>11. \A n \in 1..Cardinality(P) : \E i \in P : Rank(P, i) = n
    BY <1>10 DEF Surjection
<1> QED BY <1>2, <1>6, <1>7, <1>11

\* Entries of a sorted list that keep their order are sorted.
LEMMA ClearSorted ==
  ASSUME NEW keys, mru \in Seq(Entry), MruSorted, ClearOldMruEntries(keys)
  PROVE  mru' \in Seq(Entry) /\ MruSorted'
<1>1. PICK s \in Seq(Entry) : s = mru
    OBVIOUS
<1>2. PICK P : P = Stay(keys)
    OBVIOUS
<1>3. PICK m : m = Cardinality(P)
    OBVIOUS
<1>4. PICK q : q = mru'
    OBVIOUS
<1>5. Len(s) \in Nat /\ \A i \in 1..Len(s) : s[i] \in Entry
    BY Times
<1>6. P \in SUBSET (1..Len(s))
    BY <1>1, <1>2 DEF Stay
<1>7. /\ m \in Nat /\ \A n \in 1..m : \E i \in P : Rank(P, i) = n
      /\ \A i, j \in P : i < j => Rank(P, i) < Rank(P, j)
    BY <1>3, <1>5, <1>6, Ranks
<1> DEFINE f == [n \in 1..m |-> Nth(P, n)]
<1>8. \A n \in 1..m : f[n] \in P /\ Rank(P, f[n]) = n
    BY <1>7 DEF Nth, Rank
<1>9. q = [n \in 1..m |-> s[f[n]]]
  <2>1. mru' = [n \in 1..Cardinality(Stay(keys)) |-> mru[Nth(Stay(keys), n)]]
    BY DEF ClearOldMruEntries
  <2>2. q = [n \in 1..m |-> s[Nth(P, n)]]
    BY <1>1, <1>2, <1>3, <1>4, <2>1, SMT
  <2>3. \A n \in 1..m : f[n] = Nth(P, n)
    OBVIOUS
  <2> HIDE DEF f
  <2> QED BY <2>2, <2>3, SMT
<1> HIDE DEF f
<1>10. \A n \in 1..m : f[n] \in 1..Len(s) /\ s[f[n]] \in Entry
    BY <1>5, <1>6, <1>8
<1>11. \A a, b \in 1..m : a < b => f[a] < f[b]
  <2> SUFFICES ASSUME NEW a \in 1..m, NEW b \in 1..m, a < b, ~(f[a] < f[b])
               PROVE  FALSE
    OBVIOUS
  <2>1. f[a] \in Nat /\ f[b] \in Nat
    BY <1>5, <1>10, SMT
  <2>2. f[b] < f[a] \/ f[b] = f[a]
    BY <2>1, SMT
  <2>3. b < a \/ b = a
    BY <1>7, <1>8, <2>2
  <2> QED BY <1>7, <2>3, SMT
<1>12. q \in Seq(Entry) /\ Len(q) = m
  <2>1. q \in [1..m -> Entry]
    BY <1>9, <1>10
  <2> QED BY <1>7, <2>1, SMT
<1>13. ASSUME NEW a \in 1..m, NEW b \in 1..m, a < b
       PROVE  q[a].time >= q[b].time
  <2>1. f[a] < f[b] /\ q[a] = s[f[a]] /\ q[b] = s[f[b]]
    BY <1>9, <1>11, <1>13
  <2>2. Sorted(s)
    BY <1>1 DEF MruSorted, Sorted
  <2> QED BY <1>10, <2>1, <2>2 DEF Sorted
<1>14. Sorted(q)
    BY <1>12, <1>13 DEF Sorted
<1> QED BY <1>4, <1>12, <1>14 DEF MruSorted, Sorted

\* std::lower_bound finds its place in a sorted list.
LEMMA LowerBoundRight ==
  ASSUME NEW s \in Seq(Entry), s = mru, MruSorted, NEW time \in Nat
  PROVE  /\ LowerBound(time) \in 1..(Len(s) + 1)
         /\ \A j \in 1..(LowerBound(time) - 1) : s[j].time > time
         /\ \A j \in LowerBound(time)..Len(s) : s[j].time <= time
<1>1. PICK P : P = {i \in 1..Len(s) : s[i].time > time}
    OBVIOUS
<1>2. PICK k : k = Cardinality(P)
    OBVIOUS
<1>3. Len(s) \in Nat /\ \A i \in 1..Len(s) : s[i].time \in Nat
    BY Times
<1>4. Sorted(s)
    BY DEF MruSorted, Sorted
<1>5. P \in SUBSET (1..Len(s)) /\ \A i \in 1..Len(s) : i \in P <=> s[i].time > time
    BY <1>1
<1>6. \A i \in P : \A j \in 1..i : j \in P
  <2> SUFFICES ASSUME NEW i \in P, NEW j \in 1..i PROVE j \in P
    OBVIOUS
  <2>1. i \in 1..Len(s) /\ j \in 1..Len(s) /\ (j = i \/ j < i)
    BY <1>3, <1>5, SMT
  <2>2. s[j].time >= s[i].time \/ j = i
    BY <1>4, <2>1 DEF Sorted
  <2>3. s[i].time > time /\ s[i].time \in Nat /\ s[j].time \in Nat
    BY <1>3, <1>5, <2>1
  <2>4. s[j].time > time
    BY <2>2, <2>3, SMT
  <2> QED BY <1>5, <2>1, <2>4
<1>7. \A i \in P : Rank(P, i) = i
  <2> TAKE i \in P
  <2>1. {j \in P : j <= i} = 1..i /\ i \in Nat
    <3>1. i \in Nat /\ (\A j \in P : j <= i => j \in 1..i) /\ \A j \in 1..i : j <= i
      BY <1>3, <1>5, SMT
    <3> QED BY <1>6, <3>1
  <2>2. Cardinality(1..i) = i
    BY <2>1, FS_Interval, SMT
  <2> QED BY <2>1, <2>2 DEF Rank
<1>8. k \in Nat /\ P = 1..k
  <2>1. /\ k \in Nat /\ \A i \in P : Rank(P, i) \in 1..k
        /\ \A n \in 1..k : \E i \in P : Rank(P, i) = n
    BY <1>2, <1>3, <1>5, Ranks
  <2> QED BY <1>7, <2>1
<1>9. k <= Len(s)
  <2>1. k = 0 \/ k \in 1..Len(s)
    BY <1>5, <1>8, SMT
  <2> QED BY <1>3, <2>1, SMT
<1>10. k + 1 \in 1..(Len(s) + 1) /\ \A j \in 1..((k + 1) - 1) : j \in P
    BY <1>3, <1>8, <1>9, SMT
<1>11. k + 1 <= Len(s) => s[k + 1].time <= time
  <2> SUFFICES ASSUME k + 1 <= Len(s) PROVE s[k + 1].time <= time
    OBVIOUS
  <2>1. k + 1 \notin P /\ k + 1 \in 1..Len(s)
    BY <1>3, <1>8, SMT
  <2>2. ~(s[k + 1].time > time) /\ s[k + 1].time \in Nat
    BY <1>3, <1>5, <2>1
  <2> QED BY <2>2, SMT
<1>12. \A j \in 1..((k + 1) - 1) : s[j].time > time
    BY <1>5, <1>10
<1>13. PICK b : b = LowerBound(time)
    OBVIOUS
<1>14. /\ b \in 1..(Len(s) + 1)
       /\ b <= Len(s) => s[b].time <= time
       /\ \A j \in 1..(b - 1) : s[j].time > time
  <2> DEFINE Fits(x) == /\ x <= Len(s) => s[x].time <= time
                        /\ \A j \in 1..(x - 1) : s[j].time > time
  <2>1. b = CHOOSE x \in 1..(Len(s) + 1) : Fits(x)
    BY <1>13 DEF LowerBound
  <2>2. Fits(k + 1)
    BY <1>11, <1>12
  <2> HIDE DEF Fits
  <2>3. b \in 1..(Len(s) + 1) /\ Fits(b)
    BY <1>10, <2>1, <2>2
  <2> QED BY <2>3 DEF Fits
<1>15. ASSUME NEW j \in b..Len(s) PROVE s[j].time <= time
  <2>1. b <= Len(s) /\ b \in 1..Len(s) /\ j \in 1..Len(s) /\ (j = b \/ b < j)
    BY <1>3, <1>14, SMT
  <2>2. s[b].time >= s[j].time \/ j = b
    BY <1>4, <2>1 DEF Sorted
  <2>3. s[b].time <= time /\ s[b].time \in Nat /\ s[j].time \in Nat
    BY <1>3, <1>14, <2>1
  <2> QED BY <2>2, <2>3, SMT
<1> QED BY <1>13, <1>14, <1>15

\* The entries of two lists, one after the other.
LEMMA Joins ==
  ASSUME NEW z \in Seq(Entry), NEW y \in Seq(Entry), NEW q, q = z \o y
  PROVE  /\ q \in Seq(Entry) /\ Len(q) = Len(z) + Len(y)
         /\ \A n \in 1..Len(z) : q[n] = z[n]
         /\ \A n \in 1..Len(y) : q[Len(z) + n] = y[n]
<1>1. /\ q \in Seq(Entry) /\ Len(q) = Len(z) + Len(y)
      /\ \A n \in 1..(Len(z) + Len(y)) :
           q[n] = IF n <= Len(z) THEN z[n] ELSE y[n - Len(z)]
    BY ConcatProperties
<1>2. /\ \A n \in 1..Len(z) : n \in 1..(Len(z) + Len(y)) /\ n <= Len(z)
      /\ \A n \in 1..Len(y) : /\ Len(z) + n \in 1..(Len(z) + Len(y))
                               /\ ~(Len(z) + n <= Len(z)) /\ (Len(z) + n) - Len(z) = n
  <2>1. Len(z) \in Nat /\ Len(y) \in Nat
    BY Times
  <2>2. \A c, d \in Nat :
          /\ \A n \in 1..c : n \in 1..(c + d) /\ n <= c
          /\ \A n \in 1..d : c + n \in 1..(c + d) /\ ~(c + n <= c) /\ (c + n) - c = n
    BY SMT
  <2> QED BY <2>1, <2>2
<1>3. ASSUME NEW n \in 1..Len(z) PROVE q[n] = z[n]
    BY <1>1, <1>2
<1>4. ASSUME NEW n \in 1..Len(y) PROVE q[Len(z) + n] = y[n]
  <2>1. q[Len(z) + n] = y[(Len(z) + n) - Len(z)]
    BY <1>1, <1>2
  <2> QED BY <1>2, <2>1
<1> QED BY <1>1, <1>3, <1>4

\* A sorted list stays sorted when an entry is put at its lower bound.
LEMMA InsertSorted ==
  ASSUME mru \in Seq(Entry), MruSorted, NEW e \in Entry,
         mru' = SubSeq(mru, 1, LowerBound(e.time) - 1) \o <<e>>
                  \o SubSeq(mru, LowerBound(e.time), Len(mru))
  PROVE  mru' \in Seq(Entry) /\ MruSorted'
<1>1. PICK s \in Seq(Entry) : s = mru
    OBVIOUS
<1>2. PICK i : i = LowerBound(e.time)
    OBVIOUS
<1>3. PICK q : q = mru'
    OBVIOUS
<1>4. /\ e.time \in Nat /\ Len(s) \in Nat
      /\ \A n \in 1..Len(s) : s[n] \in Entry /\ s[n].time \in Nat
  <2>1. e.time \in Nat
    BY SMT DEF Entry
  <2> QED BY <2>1, Times
<1>5. /\ i \in 1..(Len(s) + 1) /\ \A j \in 1..(i - 1) : s[j].time > e.time
      /\ \A j \in i..Len(s) : s[j].time <= e.time
    BY <1>1, <1>2, <1>4, LowerBoundRight
<1>6. q = SubSeq(s, 1, i - 1) \o <<e>> \o SubSeq(s, i, Len(s))
    BY <1>1, <1>2, <1>3
<1>7. /\ q \in Seq(Entry) /\ Len(q) = Len(s) + 1
      /\ \A n \in 1..(i - 1) : q[n] = s[n]
      /\ q[i] = e
      /\ \A n \in (i + 1)..(Len(s) + 1) : q[n] = s[n - 1]
  <2>1. PICK x : x = SubSeq(s, 1, i - 1)
    OBVIOUS
  <2>2. PICK y : y = SubSeq(s, i, Len(s))
    OBVIOUS
  <2>3. x \in Seq(Entry) /\ Len(x) = i - 1 /\ \A n \in 1..(i - 1) : x[n] = s[n]
    BY <1>4, <1>5, <2>1, SMT
  <2>4. y \in Seq(Entry) /\ Len(y) = Len(s) - i + 1 /\ \A n \in 1..Len(y) : y[n] = s[i + n - 1]
    BY <1>4, <1>5, <2>2, SMT
  <2>5. PICK z : z = x \o <<e>>
    OBVIOUS
  <2>6. z \in Seq(Entry) /\ Len(z) = i /\ z[i] = e /\ \A n \in 1..(i - 1) : z[n] = s[n]
    <3>1. PICK o : o = <<e>>
      OBVIOUS
    <3>2. o \in Seq(Entry) /\ Len(o) = 1 /\ o[1] = e /\ 1 \in 1..1
      BY <3>1, SMT
    <3>3. /\ z \in Seq(Entry) /\ Len(z) = Len(x) + Len(o)
          /\ \A n \in 1..Len(x) : z[n] = x[n]
          /\ \A n \in 1..Len(o) : z[Len(x) + n] = o[n]
      <4>1. x \in Seq(Entry) /\ o \in Seq(Entry) /\ z = x \o o
        BY <2>3, <2>5, <3>1, <3>2
      <4> QED BY <4>1, Joins, SMT
    <3>4. (i - 1) + 1 = i
      BY <1>4, <1>5, SMT
    <3> QED BY <2>3, <3>2, <3>3, <3>4
  <2>7. q = z \o y
    BY <1>6, <2>1, <2>2, <2>5
  <2>8. /\ q \in Seq(Entry) /\ Len(q) = Len(z) + Len(y)
        /\ \A n \in 1..Len(z) : q[n] = z[n]
        /\ \A n \in 1..Len(y) : q[Len(z) + n] = y[n]
    <3>1. z \in Seq(Entry) /\ y \in Seq(Entry)
      BY <2>4, <2>6
    <3> QED BY <2>7, <3>1, Joins, SMT
  <2>9. ASSUME NEW n \in (i + 1)..(Len(s) + 1) PROVE q[n] = s[n - 1]
    <3>1. n - i \in 1..Len(y) /\ i + (n - i) = n /\ i + (n - i) - 1 = n - 1
      BY <1>4, <1>5, <2>4, SMT
    <3>2. q[i + (n - i)] = y[n - i] /\ y[n - i] = s[i + (n - i) - 1]
      BY <2>4, <2>6, <2>8, <3>1
    <3> QED BY <3>1, <3>2
  <2>10. Len(q) = Len(s) + 1 /\ i \in 1..i /\ \A n \in 1..(i - 1) : n \in 1..i
    BY <1>4, <1>5, <2>4, <2>6, <2>8, SMT
  <2> QED BY <2>6, <2>8, <2>9, <2>10
<1>8. ASSUME NEW a \in 1..(Len(s) + 1), NEW b \in 1..(Len(s) + 1), a < b
      PROVE  q[a].time >= q[b].time
  <2>1. CASE b < i
    <3>1. a \in 1..(i - 1) /\ b \in 1..(i - 1) /\ a \in 1..Len(s) /\ b \in 1..Len(s)
      BY <1>4, <1>5, <1>8, <2>1, SMT
    <3>2. q[a] = s[a] /\ q[b] = s[b]
      BY <1>7, <3>1
    <3> QED BY <1>1, <1>8, <3>1, <3>2 DEF MruSorted
  <2>2. CASE b = i
    <3>1. q[a] = s[a] /\ q[b] = e /\ a \in 1..Len(s) /\ s[a].time > e.time
      BY <1>4, <1>5, <1>7, <1>8, <2>2, SMT
    <3> QED BY <1>4, <3>1, SMT
  <2>3. CASE a = i
    <3>1. q[a] = e /\ q[b] = s[b - 1] /\ b - 1 \in 1..Len(s) /\ s[b - 1].time <= e.time
      BY <1>4, <1>5, <1>7, <1>8, <2>3, SMT
    <3> QED BY <1>4, <3>1, SMT
  <2>4. CASE a < i /\ i < b
    <3>1. /\ a \in 1..(i - 1) /\ a \in 1..Len(s)
          /\ b \in (i + 1)..(Len(s) + 1) /\ b - 1 \in i..Len(s) /\ b - 1 \in 1..Len(s)
      BY <1>4, <1>5, <1>8, <2>4, SMT
    <3>2. /\ q[a] = s[a] /\ s[a].time > e.time /\ s[a].time \in Nat /\ e.time \in Nat
          /\ q[b] = s[b - 1] /\ s[b - 1].time <= e.time /\ s[b - 1].time \in Nat
      BY <1>4, <1>5, <1>7, <3>1
    <3>3. \A x, y, z \in Nat : x > y /\ z <= y => x >= z
      BY SMT
    <3> QED BY <3>2, <3>3
  <2>5. CASE i < a
    <3>1. /\ a \in (i + 1)..(Len(s) + 1) /\ a - 1 \in 1..Len(s)
          /\ b \in (i + 1)..(Len(s) + 1) /\ b - 1 \in 1..Len(s) /\ a - 1 < b - 1
      BY <1>4, <1>5, <1>8, <2>5, SMT
    <3>2. q[a] = s[a - 1] /\ q[b] = s[b - 1]
      BY <1>7, <3>1
    <3> QED BY <1>1, <3>1, <3>2 DEF MruSorted
  <2> QED BY <1>4, <1>5, <1>8, <2>1, <2>2, <2>3, <2>4, <2>5, SMT
<1>9. Sorted(q)
    BY <1>7, <1>8 DEF Sorted
<1> QED BY <1>3, <1>7, <1>9 DEF MruSorted, Sorted

\* A step that only takes entries out of the list.
LEMMA ClearStep ==
  ASSUME IInv, Track, NEW t \in Threads, NEW l \in Call, th' = [th EXCEPT ![t] = l],
         NEW keys, ClearOldMruEntries(keys), FreeM,
         UNCHANGED <<peasants, quitting, windowVars, failed, boundVars>>,
         \A u \in Threads \ {t} : ~Clash(l, th[u]),
         \A C \in SUBSET Windows :
           (Watching(th[t]) => C \subseteq cover[t]) /\ Tracked(l, C)' => Local(l, C)'
  PROVE  IInv'
<1>1. mru \in Seq(Entry) /\ MruSorted
    BY Known
<1>2. mru' \in Seq(Entry) /\ MruSorted'
    BY <1>1, ClearSorted
<1>3. peasants' = peasants /\ UNCHANGED <<quitting, windowVars, failed, boundVars>>
    OBVIOUS
<1> QED BY <1>2, <1>3, TableStep

LEMMA ActivateClearKeeps ==
  ASSUME IInv, Track, NEW t \in Threads, ActivateClear(t)
  PROVE  IInv'
<1>1. Local(th[t], cover[t]) /\ th[t].pc = "activateClear"
    BY Known DEF ActivateClear, At
<1>2. PICK l \in Call : th' = [th EXCEPT ![t] = l] /\ Moved(th[t], l, "activateInsert")
  <2>1. "activateInsert" \in Locs /\ Goto(t, "activateInsert")
    BY Names DEF ActivateClear
  <2> QED BY <2>1, Goes
<1>3. l.pc = "activateInsert" /\ l.at = 1 /\ l.who \in Windows /\ l.kind = th[t].kind
    BY <1>1, <1>2 DEF Moved, Local, Scanning, Working, HoldM
<1>4. \A C : Local(l, C)'
    BY <1>1, <1>3
       DEF Local, Idling, Scanning, Dropping, Looping, Telling, Working, HoldM, HoldP
<1>5. \A u \in Threads \ {t} : ~Clash(l, th[u])
    BY <1>3 DEF Clash
<1> QED BY <1>2, <1>4, <1>5, ClearStep DEF ActivateClear

LEMMA ActivateInsertKeeps ==
  ASSUME IInv, Track, NEW t \in Threads, ActivateInsert(t)
  PROVE  IInv'
<1>1. /\ Local(th[t], cover[t]) /\ th[t].pc = "activateInsert"
      /\ mru \in Seq(Entry) /\ MruSorted /\ th[t] \in Call
    BY Known DEF ActivateInsert, At
<1>2. PICK e : e = [id |-> IdOf[th[t].who], time |-> th[t].time]
    OBVIOUS
<1>3. e \in Entry /\ e.time = th[t].time
  <2>1. IdOf[th[t].who] \in Ids
    BY <1>1 DEF Local, Working, Ids
  <2>2. th[t].time \in Nat
    BY <1>1, SMT DEF Call
  <2> QED BY <1>2, <2>1, <2>2 DEF Entry
<1>4. mru' = SubSeq(mru, 1, LowerBound(e.time) - 1) \o <<e>>
               \o SubSeq(mru, LowerBound(e.time), Len(mru))
    BY <1>2, <1>3 DEF ActivateInsert
<1>5. mru' \in Seq(Entry) /\ MruSorted'
    BY <1>1, <1>3, <1>4, InsertSorted
<1>6. /\ peasants' = peasants /\ UNCHANGED <<quitting, windowVars, failed, boundVars>>
      /\ FreeM /\ th' = [th EXCEPT ![t] = Idle]
    BY DEF ActivateInsert, Return
<1> QED BY <1>5, <1>6, IdleCall, IdleLocal, IdleClash, TableStep

LEMMA ForgetPeasantKeeps ==
  ASSUME IInv, Track, NEW t \in Threads, ForgetPeasant(t)
  PROVE  IInv'
<1>1. /\ Found(t, None) /\ th[t].pc \notin HoldM /\ FreeM
      /\ UNCHANGED <<peasants, quitting, windowVars, failed, boundVars>>
    BY DEF ForgetPeasant, At, HoldM
<1>2. PICK l \in Call : /\ th' = [th EXCEPT ![t] = l] /\ l.pc \in {"idle", "grant"}
                        /\ \A C : Local(l, C)'
    BY <1>1, Founds
<1>3. \A u \in Threads \ {t} : ~Clash(l, th[u])
    BY <1>2 DEF Clash
<1>4. PICK keys : keys = {th[t].key}
    OBVIOUS
<1>5. ClearOldMruEntries(keys)
    BY <1>4 DEF ForgetPeasant
<1> QED BY <1>1, <1>2, <1>3, <1>5, ClearStep

LEMMA ForgetMruKeeps ==
  ASSUME IInv, Track, NEW t \in Threads, ForgetMru(t)
  PROVE  IInv'
<1>1. /\ th \in [Threads -> Call] /\ th[t] \in Call /\ Local(th[t], cover[t])
      /\ th[t].pc = "mruForget"
    BY Known DEF ForgetMru, At
<1>2. PICK keys : keys = th[t].doomed
    OBVIOUS
<1>3. /\ ClearOldMruEntries(keys) /\ FreeM
      /\ UNCHANGED <<peasants, quitting, windowVars, failed, boundVars>>
    BY <1>2 DEF ForgetMru
<1>4. PICK l : l = [th[t] EXCEPT !.pc = "get", !.doomed = {}]
    OBVIOUS
<1>5. /\ l \in Call /\ l.pc = "get"
      /\ l.kind = th[t].kind /\ l.who = th[t].who /\ l.at = th[t].at
  <2>1. "get" \in Locs /\ {} \in SUBSET Ids
    BY Names
  <2> QED BY <1>1, <1>4, <2>1 DEF Call
<1>6. th' = [th EXCEPT ![t] = l]
    BY <1>4 DEF ForgetMru
<1>7. l.at = 1 /\ (l.kind = "rename" => l.who \in Windows)
    BY <1>1, <1>5 DEF Local, Scanning, Working, HoldM
<1>8. \A C : Local(l, C)'
    BY <1>5, <1>7
       DEF Local, Idling, Scanning, Dropping, Looping, Telling, Working, HoldM, HoldP
<1>9. \A u \in Threads \ {t} : ~Clash(l, th[u])
    BY <1>5 DEF Clash
<1> QED BY <1>3, <1>5, <1>6, <1>8, <1>9, ClearStep

LEMMA SweepMruKeeps ==
  ASSUME IInv, Track, NEW t \in Threads, SweepMru(t)
  PROVE  IInv'
<1>1. /\ th[t].pc = "sweepMru" /\ Goto(t, "notify") /\ told' = told /\ FreeM
      /\ UNCHANGED <<peasants, quitting, windowVars, failed, boundVars>>
    BY DEF SweepMru, At, windowVars
<1>2. PICK l \in Call :
        /\ th' = [th EXCEPT ![t] = l] /\ l.pc = "notify"
        /\ \A u \in Threads \ {t} : ~Clash(l, th[u])
        /\ \A C \in SUBSET Windows :
             (Watching(th[t]) => C \subseteq cover[t]) => Local(l, C)'
    BY <1>1, Sweeps
<1>3. PICK keys : keys = th[t].doomed
    OBVIOUS
<1>4. ClearOldMruEntries(keys)
    BY <1>3 DEF SweepMru
<1> QED BY <1>1, <1>2, <1>4, ClearStep

LEMMA CloseMruKeeps ==
  ASSUME IInv, Track, NEW t \in Threads, CloseMru(t)
  PROVE  IInv'
<1>1. Local(th[t], cover[t]) /\ th[t].pc = "closeMru"
    BY Known DEF CloseMru, At
<1>2. PICK keys : keys = {IdOf[th[t].who]}
    OBVIOUS
<1>3. /\ ClearOldMruEntries(keys) /\ FreeM /\ life' = life
      /\ UNCHANGED <<peasants, quitting, windowVars, failed, boundVars>>
    BY <1>2 DEF CloseMru, windowVars
<1>4. "closeErase" \in Locs /\ Goto(t, "closeErase")
    BY Names DEF CloseMru
<1>5. PICK l \in Call : th' = [th EXCEPT ![t] = l] /\ Moved(th[t], l, "closeErase")
    BY <1>4, Goes
<1>6. /\ l.pc = "closeErase" /\ l.at = 1 /\ l.kind = "close" /\ l.who \in Windows
      /\ life'[l.who] \in {"closing", "leaving", "dead"} /\ l.who = th[t].who
    BY <1>1, <1>3, <1>5 DEF Moved, Local, Scanning, Working, HoldM
<1>7. \A C : Local(l, C)'
    BY <1>6 DEF Local, Idling, Scanning, Dropping, Looping, Telling, Working, HoldM, HoldP
<1>8. \A u \in Threads \ {t} : ~Clash(l, th[u])
    BY <1>1, <1>6, WorksAlone DEF Clash
<1> QED BY <1>3, <1>5, <1>7, <1>8, ClearStep

-----------------------------------------------------------------------------
(* The theorems.                                                           *)

LEMMA InitIInv ==
  Init => IInv
<1> SUFFICES ASSUME Init PROVE IInv
    OBVIOUS
<1>1. \A t \in Threads : th[t] = Idle /\ cover[t] = {}
    BY DEF Init
<1>2. TypeOK
  <2>1. th \in [Threads -> Call] /\ cover \in [Threads -> SUBSET Windows]
    BY IdleCall DEF Init
  <2>2. DOMAIN peasants = {}
    BY DEF Init
  <2>3. TableOK /\ LifeOK
    BY <2>2 DEF Init, TableOK, LifeOK
  <2>4. mru \in Seq(Entry) /\ clock \in Nat /\ calls \in Nat
    BY SMT DEF Init
  <2>5. FlagsOK
    BY <2>4 DEF Init, FlagsOK
  <2> QED BY <2>1, <2>3, <2>4, <2>5, TypeParts
<1>3. Locals
  <2>1. Idle.pc = "idle" /\ Idle.kind = "none" /\ Idle.at = 1
    BY SMT DEF Idle
  <2>2. Local(Idle, {})
    BY <2>1 DEF Local, Idling, Scanning, Dropping, Looping, Telling, Working, HoldM, HoldP
  <2> QED BY <1>1, <2>2 DEF Locals
<1>4. OneEach /\ Covered
    BY <1>1, IdleClash DEF OneEach, Covered
<1>5. MruSorted
  <2>1. 1..Len(mru) = {}
    BY SMT DEF Init
  <2> QED BY <2>1 DEF MruSorted
<1>6. TableFollowsWindows
    BY DEF Init, TableFollowsWindows
<1> QED BY <1>2, <1>3, <1>4, <1>5, <1>6 DEF IInv

LEMMA Unchanged ==
  ASSUME IInv, UNCHANGED vars
  PROVE  IInv'
<1>1. /\ th' = th /\ peasants' = peasants /\ mru' = mru /\ quitting' = quitting /\ life' = life
      /\ named' = named /\ told' = told /\ failed' = failed /\ clock' = clock /\ calls' = calls
      /\ cover' = cover
    BY DEF vars, windowVars, boundVars
<1>2. TypeOK'
    BY <1>1 DEF IInv, TypeOK
<1>3. Locals'
  <2> SUFFICES ASSUME NEW t \in Threads PROVE Local(th[t], cover[t])'
    BY DEF Locals
  <2>1. Local(th[t], cover[t])
    BY DEF IInv, Locals
  <2>2. PICK l, C : l = th[t] /\ C = cover[t]
    OBVIOUS
  <2>3. Local(l, C) /\ C \in SUBSET C /\ Working(l)'
    BY <1>1, <2>1, <2>2 DEF Local, Working
  <2>4. told \subseteq told' /\ \A w \in Windows : life[w] = "dead" => life'[w] = "dead"
    BY <1>1
  <2>5. Local(l, C)'
    BY <1>1, <2>3, <2>4, LocalStays
  <2> QED BY <1>1, <2>2, <2>5, LocalIs
<1>4. OneEach'
    BY <1>1 DEF IInv, OneEach, Clash
<1>5. Covered'
  <2>1. \A t \in Threads : Steady(t)' = Steady(t) /\ (Covering(t)' <=> Covering(t))
    BY <1>1 DEF Covering, Steady, Listed
  <2> QED BY <1>1, <2>1 DEF IInv, Covered
<1>6. MruSorted'
    BY <1>1 DEF IInv, MruSorted
<1>7. TableFollowsWindows'
  <2>1. quitting => quitting'
    BY <1>1, SMT
  <2> QED BY <1>1, <2>1, TableSame, TypeParts DEF IInv
<1> QED BY <1>2, <1>3, <1>4, <1>5, <1>6, <1>7 DEF IInv

LEMMA Inductive ==
  IInv /\ [Next]_vars => IInv'
<1> SUFFICES ASSUME IInv, [Next]_vars PROVE IInv'
    OBVIOUS
<1>1. CASE UNCHANGED vars
    BY <1>1, Unchanged
<1>2. CASE Next
  <2>1. Track
    BY <1>2 DEF Next
  <2>2. ASSUME NEW w \in Windows, Kill(w) PROVE IInv'
    BY <2>1, <2>2, KillKeeps
  <2>3. ASSUME NEW t \in Threads, Arrive(t) PROVE IInv'
    <3>1. ASSUME NEW w \in Windows, BeginAdd(t, w) PROVE IInv'
      BY <2>1, <3>1, BeginAddKeeps
    <3>2. ASSUME NEW w \in Windows, BeginActivate(t, w) PROVE IInv'
      BY <2>1, <3>2, BeginActivateKeeps
    <3>3. ASSUME NEW w \in Windows, BeginClose(t, w) PROVE IInv'
      BY <2>1, <3>3, BeginCloseKeeps
    <3>4. CASE BeginId(t) \/ BeginMru(t)
      BY <2>1, <3>4, BeginIdKeeps, BeginMruKeeps
    <3>5. CASE BeginLoop(t) \/ BeginQuit(t)
      BY <2>1, <3>5, BeginLoopKeeps, BeginQuitKeeps
    <3> QED BY <2>3, <3>1, <3>2, <3>3, <3>4, <3>5 DEF Arrive
  <2>4. ASSUME NEW t \in Threads, Step(t) PROVE IInv'
    <3>1. CASE AddPeasant(t) \/ ActivateClear(t) \/ ActivateInsert(t)
      BY <2>1, <3>1, AddPeasantKeeps, ActivateClearKeeps, ActivateInsertKeeps
    <3>2. CASE CloseMru(t) \/ CloseErase(t)
      BY <2>1, <3>2, CloseMruKeeps, CloseEraseKeeps
    <3>3. CASE GetPeasant(t) \/ AskPeasant(t) \/ DropPeasant(t)
      BY <2>1, <3>3, GetPeasantKeeps, AskPeasantKeeps, DropPeasantKeeps
    <3>4. CASE ForgetPeasant(t) \/ TakeName(t)
      BY <2>1, <3>4, ForgetPeasantKeeps, TakeNameKeeps
    <3>5. CASE LockMru(t) \/ FirstPeasant(t) \/ NextMru(t)
      BY <2>1, <3>5, LockMruKeeps, FirstPeasantKeeps, NextMruKeeps
    <3>6. CASE AskMru(t) \/ DropMru(t) \/ ForgetMru(t)
      BY <2>1, <3>6, AskMruKeeps, DropMruKeeps, ForgetMruKeeps
    <3>7. ASSUME NEW k \in Ids, VisitPeasant(t, k) PROVE IInv'
      BY <2>1, <3>7, VisitPeasantKeeps
    <3>8. CASE LockLoop(t) \/ PeasantAnswers(t) \/ PeasantDies(t)
      BY <2>1, <3>8, LockLoopKeeps, PeasantAnswersKeeps, PeasantDiesKeeps
    <3>9. CASE EndLoop(t) \/ Sweep(t) \/ SweepMru(t)
      BY <2>1, <3>9, EndLoopKeeps, SweepKeeps, SweepMruKeeps
    <3>10. CASE Notify(t) \/ QuitOwn(t)
      BY <2>1, <3>10, NotifyKeeps, QuitOwnKeeps
    <3> QED BY <2>4, <3>1, <3>2, <3>3, <3>4, <3>5, <3>6, <3>7, <3>8, <3>9, <3>10 DEF Step
  <2> QED BY <1>2, <2>2, <2>3, <2>4 DEF Next
<1> QED BY <1>1, <1>2

\* Every method of the Monarch keeps, at every step and beside any other calls, what
\* the next one relies on: the loops hold their locks over what they walk, what is
\* about to be thrown out belongs to a dead window, and no window is added or
\* closed by two threads at once.
THEOREM Invariance ==
  Spec => []IInv
<1> QED BY InitIInv, Inductive, PTL DEF Spec

\* The locals of every call and both tables keep their types: the ids in the
\* tables are ids of windows, and _peasants maps each to a window that has it.
THEOREM TypeCorrect ==
  Spec => []TypeOK
<1>1. IInv => TypeOK
    BY DEF IInv
<1> QED BY <1>1, Invariance, PTL

\* _mruPeasants is sorted, the latest activation first, whenever nobody is in the
\* middle of changing it: _clearOldMruEntries and lower_bound keep it so, in
\* whatever order the activations take the lock.
THEOREM AlwaysSorted ==
  Spec => []MruSorted
<1>1. IInv => MruSorted
    BY DEF IInv
<1> QED BY <1>1, Invariance, PTL

\* _peasants holds every open window whose id is its own, whatever dead windows
\* the loops throw out meanwhile; a window that has signalled its close is not
\* put back, unless everybody is quitting.
THEOREM TablesFollow ==
  Spec => []TableFollowsWindows
<1>1. IInv => TableFollowsWindows
    BY DEF IInv
<1> QED BY <1>1, Invariance, PTL

\* _getMostRecentPeasantID returns the most recent of the windows that are fit and
\* stay open and known while its loop runs, or a window that is ahead of it: it
\* passes no such window over, and comes back empty-handed only if there is none,
\* though entries of the dead are skipped and taken out of the other table on the
\* way.
THEOREM RecentFound ==
  Spec => MostRecentFirst
<1>1. IInv /\ [Next]_vars => [\A t \in Threads : Recent(t)]_vars
    BY StepRecent
<1> QED BY <1>1, Invariance, PTL DEF Spec, MostRecentFirst, Recent

\* The monarch's own window is told to quit only when the loop of some
\* _handleQuitAll has told every other window that was in the table from its start
\* and is still open there, however many quits run at once and whichever windows
\* die, close or register during the loop.
THEOREM OwnLast ==
  Spec => OwnQuitsLast
<1>1. ASSUME IInv, Next, Own \in told' \ told
      PROVE  \E t \in Threads : th[t].kind = "quit" /\ cover[t] \ {Own} \subseteq told
  <2>1. PICK t \in Threads : Step(t) \/ Arrive(t)
    BY <1>1 DEF Next, Kill
  <2>2. th[t].pc = "ownQuit" /\ Local(th[t], cover[t])
    BY <1>1, <2>1, ToldOwn, Known DEF QuitOwn, At
  <2> QED BY <2>2 DEF Local, Telling
<1>2. IInv /\ [Next]_vars =>
        [(Own \in told' \ told) =>
           \E t \in Threads : th[t].kind = "quit" /\ cover[t] \ {Own} \subseteq told]_vars
    BY <1>1
<1> QED BY <1>2, Invariance, PTL DEF Spec, OwnQuitsLast

=============================================================================
