------------------------------ MODULE ConsoleIo ------------------------------
(***************************************************************************)
(* The console server's blocking requests: client threads that read the    *)
(* console's input or write while output is suspended, the wait blocks     *)
(* that stand for them (WaitBlock, WaitQueue), the input buffer, the input *)
(* handles and the processes that own them.                                *)
(*                                                                         *)
(* One io thread serves the clients' requests; the input thread and the    *)
(* window thread run beside it.  Each works under the console lock, so an  *)
(* action is one stretch with the lock held.  A request that has to wait   *)
(* takes two: the API routine decides under the lock to wait, the lock is  *)
(* released, and only then is the wait block queued, without the lock.     *)
(* `parked` is the request between the two.                                *)
(***************************************************************************)
EXTENDS Integers, FiniteSets, SequencesExt

CONSTANTS
    Procs,      \* client processes; also the name of a process's own input handle
    Threads,    \* client threads, each with at most one request outstanding
    Owner,      \* the process of a thread
    Extras,     \* input handles opened with CONIN$, which other processes may inherit
    Rooms,      \* how many events or characters the client's buffer holds
    Batches,    \* the events written at once
    Reasons,    \* what can suspend output: "pause", and "select" or "scroll"
    MaxEvents,  \* bound on the events kept in the input buffer
    None

ASSUME ClientsAssumption == /\ IsFiniteSet(Threads) /\ None \notin Threads
                            /\ Owner \in [Threads -> Procs]

Handles == Procs \cup Extras
Reads == {"direct", "raw", "cooked"}
Chars == {"char", "enter"}  \* the other events: mouse, focus, a key going up
Idle == [kind |-> "idle"]

VARIABLES
    attached,   \* processes in the process list
    open,       \* input handles that exist
    pending,    \* handles with the rest of a line left for the next read
    readCount,  \* per handle, the reads waiting through it
    req,        \* per thread, the request it waits in
    inQ,        \* the input buffer's wait queue
    outQ,       \* the output wait queue
    procQ,      \* per process, its own wait queue
    parked,     \* the request the io thread is about to queue
    storage,    \* the events in the input buffer
    suspended,  \* what suspends output
    line,       \* the input buffer is in line mode
    slot,       \* the console's one reference to a line read in progress
    late,       \* history: writes parked while output was being unblocked
    failed      \* an assertion ended the host

server == <<attached, open, line>>
queues == <<req, inQ, outQ, procQ, readCount>>
vars == <<server, queues, pending, parked, storage, suspended, slot, late, failed>>

Waiting(t) == req[t] # Idle
IsRead(t) == req[t].kind \in Reads

Init ==
    /\ attached = {} /\ open = {} /\ pending = {}
    /\ readCount = [h \in Handles |-> 0]
    /\ req = [t \in Threads |-> Idle]
    /\ inQ = <<>> /\ outQ = <<>>
    /\ procQ = [p \in Procs |-> <<>>]
    /\ parked = None
    /\ storage = <<>> /\ suspended = {} /\ line = TRUE
    /\ slot = None /\ late = {} /\ failed = FALSE

-----------------------------------------------------------------------------
(* Wait blocks.                                                            *)

\* The position of the n-th element of s that is in K; 0 if there are fewer.
Nth(s, K, n) ==
    LET At == {i \in 1..Len(s) : s[i] \in K}
    IN IF Cardinality(At) < n THEN 0
       ELSE CHOOSE i \in At : Cardinality({j \in At : j <= i}) = n

\* The queue q of threads after those of S have left it.
Without(q, S) ==
    [n \in 1..Cardinality({i \in 1..Len(q) : q[i] \in Threads \ S}) |->
        q[Nth(q, Threads \ S, n)]]

\* Mutant: a block answered through one queue stays in its process's queue.
AnswerObjectOnly(S) ==
    /\ req' = [t \in Threads |-> IF t \in S THEN Idle ELSE req[t]]
    /\ inQ' = Without(inQ, S)
    /\ outQ' = Without(outQ, S)
    /\ readCount' = [h \in Handles |->
          readCount[h] - Cardinality({t \in S : IsRead(t) /\ req[t].handle = h})]
    /\ UNCHANGED procQ

\* The requests of S are answered: each block is deleted, leaves both its
\* queues, and its read data gives back its count on the handle.
Answer(S) ==
    /\ req' = [t \in Threads |-> IF t \in S THEN Idle ELSE req[t]]
    /\ inQ' = Without(inQ, S)
    /\ outQ' = Without(outQ, S)
    /\ procQ' = [p \in Procs |-> Without(procQ[p], S)]
    /\ readCount' = [h \in Handles |->
          readCount[h] - Cardinality({t \in S : IsRead(t) /\ req[t].handle = h})]

\* Mutant: only the read itself clears the reference, not its end by a notification.
ClearSlotKept(S) == slot' = slot

\* Answering a line read clears the console's reference to a line read.
ClearSlot(S) == slot' = IF \E t \in S : req[t].kind = "cooked" THEN None ELSE slot

\* Which waiting reads a termination reason ends.
EndedBy(reason) ==
    CASE reason = "CtrlC" -> {"cooked"}
      [] reason = "CtrlBreak" -> {"raw", "cooked"}
      [] reason = "HandleClosing" -> Reads
      [] reason = "ThreadDying" -> Reads \cup {"write"}

\* The blocks of a queue that a notification of all of them ends.
Ended(q, reason) == {t \in ToSet(q) : req[t].kind \in EndedBy(reason)}

\* A line read asserts, whenever it is notified, that no rest of a line is
\* left on its handle.
Asserts(S, left) == \E t \in S : req[t].kind = "cooked" /\ req[t].handle \in left

\* Mutant: a new block goes to the front of its object's queue.
CreateWaitFront ==
    /\ ~failed /\ parked # None
    /\ procQ' = [procQ EXCEPT ![Owner[parked]] = Append(@, parked)]
    /\ IF IsRead(parked)
       THEN inQ' = <<parked>> \o inQ /\ UNCHANGED outQ
       ELSE outQ' = <<parked>> \o outQ /\ UNCHANGED inQ
    /\ parked' = None
    /\ UNCHANGED <<server, req, readCount, pending, storage, suspended, slot, late, failed>>

\* s_CreateWait: the parked request is queued for its process and its object.
CreateWait ==
    /\ ~failed /\ parked # None
    /\ procQ' = [procQ EXCEPT ![Owner[parked]] = Append(@, parked)]
    /\ IF IsRead(parked)
       THEN inQ' = Append(inQ, parked) /\ UNCHANGED outQ
       ELSE outQ' = Append(outQ, parked) /\ UNCHANGED inQ
    /\ parked' = None
    /\ UNCHANGED <<server, req, readCount, pending, storage, suspended, slot, late, failed>>

\* The API routine of thread t found it has to wait.
Park(t, request) ==
    /\ parked' = t
    /\ req' = [req EXCEPT ![t] = request]
    /\ readCount' = IF request.kind \in Reads
                    THEN [readCount EXCEPT ![request.handle] = @ + 1] ELSE readCount
    /\ UNCHANGED <<inQ, outQ, procQ>>

-----------------------------------------------------------------------------
(* Taking events from the input buffer.                                    *)

DropTo(s, i) == SubSeq(s, i + 1, Len(s))

\* What request r leaves of the events s.  Reading characters discards what
\* is not one.
Rest(r, s) ==
    CASE r.kind = "direct" -> DropTo(s, r.room)
      [] r.kind = "raw" -> IF Nth(s, Chars, r.room) = 0 THEN <<>> ELSE DropTo(s, Nth(s, Chars, r.room))
      [] r.kind = "cooked" -> IF Nth(s, {"enter"}, 1) = 0 THEN <<>> ELSE DropTo(s, Nth(s, {"enter"}, 1))

\* Whether the events s satisfy r: any event, a character, a line.
Satisfied(r, s) ==
    CASE r.kind = "direct" -> s # <<>>
      [] r.kind = "raw" -> Nth(s, Chars, 1) # 0
      [] r.kind = "cooked" -> Nth(s, {"enter"}, 1) # 0

\* A woken direct read returns whatever there is, even nothing.
SatisfiedWoken(r, s) == r.kind = "direct" \/ Satisfied(r, s)

-----------------------------------------------------------------------------
(* Requests: the io thread, when no request is parked.                     *)

Free == parked = None /\ ~failed

\* Thread t can send a request through handle h.
CanAsk(t, h) ==
    /\ Free
    /\ ~Waiting(t)
    /\ Owner[t] \in attached
    /\ h \in open \cap ({Owner[t]} \cup Extras)

\* A line read is over: of a line longer than the client's buffer the rest
\* stays with the handle.
SavePendingInput(handles) == pending' \in {pending, pending \cup handles}

Read(t, h, kind, room) ==
    LET r == [kind |-> kind, handle |-> h, room |-> room]
    IN /\ CanAsk(t, h)
       /\ storage' = Rest(r, storage)
       /\ IF Satisfied(r, storage)
          THEN /\ slot' = IF kind = "cooked" THEN None ELSE slot
               /\ SavePendingInput({h : k \in {kind} \cap {"cooked"}})
               /\ UNCHANGED <<queues, parked>>
          ELSE /\ Park(t, r)
               /\ slot' = IF kind = "cooked" THEN t ELSE slot
               /\ UNCHANGED pending
       /\ UNCHANGED <<server, suspended, late, failed>>

\* A peek is the same but leaves the events, unless it had to wait: a woken
\* block does not know it was a peek.
GetConsoleInput(t, h, room) == Read(t, h, "direct", room)

\* ReadConsole in character mode and in line mode.
ReadCharacterInput(t, h, room) == ~line /\ h \notin pending /\ Read(t, h, "raw", room)
ReadLineInput(t, h) == line /\ h \notin pending /\ Read(t, h, "cooked", 1)

\* ReadConsole on a handle that holds the rest of a line, when it takes all.
ReadPendingInput(t, h) ==
    /\ CanAsk(t, h)
    /\ h \in pending
    /\ pending' = pending \ {h}
    /\ UNCHANGED <<server, queues, parked, storage, suspended, slot, late, failed>>

\* WriteConsole, when it may not write now.
WriteConsole(t) ==
    /\ CanAsk(t, Owner[t])
    /\ suspended # {}
    /\ Park(t, [kind |-> "write"])
    /\ UNCHANGED <<server, pending, storage, suspended, slot, late, failed>>

FlushConsoleInputBuffer ==
    /\ Free /\ attached # {}
    /\ storage' = <<>>
    /\ UNCHANGED <<server, queues, pending, parked, suspended, slot, late, failed>>

\* SetConsoleActiveScreenBuffer drops the events that are not keys.
SetActiveScreenBuffer ==
    /\ Free /\ attached # {}
    /\ storage' = SelectSeq(storage, LAMBDA e : e # "other")
    /\ UNCHANGED <<server, queues, pending, parked, suspended, slot, late, failed>>

SetConsoleInputMode ==
    /\ Free /\ attached # {}
    /\ line' = ~line
    /\ UNCHANGED <<attached, open, queues, pending, parked, storage, suspended, slot, late, failed>>

-----------------------------------------------------------------------------
(* Processes and handles.                                                  *)

Connect(p) ==
    /\ Free
    /\ p \notin attached
    /\ attached' = attached \cup {p}
    /\ open' = open \cup {p}
    /\ UNCHANGED <<line, queues, pending, parked, storage, suspended, slot, late, failed>>

CreateObject(h) ==
    /\ Free /\ attached # {}
    /\ h \in Extras \ open
    /\ open' = open \cup {h}
    /\ UNCHANGED <<attached, line, queues, pending, parked, storage, suspended, slot, late, failed>>

\* _CloseInputHandle, with the further requests `dying` that end with it.
\* If reads wait through the handle, all reads of the input buffer are told
\* it is closing.  The last handle takes the contents and the mode with it.
CloseInputHandle(h, dying) ==
    LET closing == IF readCount[h] # 0 THEN Ended(inQ, "HandleClosing") ELSE {}
        left == readCount[h] - Cardinality({t \in closing : req[t].handle = h})
        ended == closing \cup dying
    IN /\ pending' = pending \ {h}
       /\ Answer(ended)
       /\ ClearSlot(ended)
       /\ late' = late \ ended
       /\ failed' = (Asserts(ended, pending \ {h}) \/ left > 0)
       /\ open' = open \ {h}
       /\ IF open' = {}
          THEN storage' = <<>> /\ line' = TRUE
          ELSE UNCHANGED <<storage, line>>

CloseObject(h) ==
    /\ Free
    /\ h \in Extras \cap open
    /\ CloseInputHandle(h, {})
    /\ UNCHANGED <<attached, parked, suspended>>

\* Mutant: the process's wait queue is dropped without telling its blocks.
DisconnectQuiet(p) ==
    /\ Free
    /\ p \in attached
    /\ attached' = attached \ {p}
    /\ CloseInputHandle(p, {})
    /\ UNCHANGED <<parked, suspended>>

\* A process is gone: its input handle is destroyed, then its wait queue,
\* which tells the blocks still in it that their thread is dying.
Disconnect(p) ==
    /\ Free
    /\ p \in attached
    /\ attached' = attached \ {p}
    /\ CloseInputHandle(p, Ended(procQ[p], "ThreadDying"))
    /\ UNCHANGED <<parked, suspended>>

-----------------------------------------------------------------------------
(* The input and window threads.                                           *)

\* Mutant: only the first block of the output queue is woken.
ResumedFirst(left) == IF left = {} /\ outQ # <<>> THEN {Head(outQ)} ELSE {}

\* UnblockWriteConsole: with nothing left to suspend it, output resumes for
\* every block in the output queue.
Resumed(left) == IF left = {} THEN ToSet(outQ) ELSE {}
Missed(left) == IF left = {} /\ parked # None /\ ~IsRead(parked) THEN {parked} ELSE {}

\* Events are stored and the first waiting read is woken, while the writes of
\* `resumed` are answered; `fails`: an assertion of the caller failed.
Store(events, resumed, fails) ==
    LET first == IF inQ = <<>> THEN {} ELSE {Head(inQ)}
        served == {t \in first : SatisfiedWoken(req[t], events)}
        lines == {t \in served : req[t].kind = "cooked"}
    IN /\ storage' = IF first = {} THEN events ELSE Rest(req[Head(inQ)], events)
       /\ Len(storage') <= MaxEvents
       /\ Answer(served \cup resumed)
       /\ ClearSlot(served)
       /\ SavePendingInput({req[t].handle : t \in lines})
       /\ failed' = (fails \/ Asserts(first, pending))

\* InputBuffer::Write and Prepend: a key resumes output that Pause suspended
\* and is then dropped; what is left is stored, or, if `handled`, it is keys
\* whose repetition VT input mode suppresses.  Prepend asserts that it stores
\* something.
WriteEvents(batch, front, handled) ==
    LET key == IF "pause" \in suspended THEN Nth(batch, Chars, 1) ELSE 0
        kept == IF key = 0 THEN batch ELSE RemoveAt(batch, key)
        left == IF key = 0 THEN suspended ELSE suspended \ {"pause"}
        resumed == IF key = 0 THEN {} ELSE Resumed(left)
        events == IF handled THEN storage ELSE IF front THEN kept \o storage ELSE storage \o kept
    IN /\ ~failed
       /\ handled => ToSet(batch) \subseteq Chars
       /\ suspended' = left
       /\ late' = (late \ resumed) \cup (IF key = 0 THEN {} ELSE Missed(left))
       /\ IF kept = <<>>
          THEN Answer(resumed) /\ UNCHANGED <<pending, storage, slot, failed>>
          ELSE Store(events, resumed, front /\ handled)
       /\ UNCHANGED <<server, parked>>

\* The input thread writes what the user does; WriteConsoleInput, when it
\* appends, does the same.
Type(batch, handled) == WriteEvents(batch, FALSE, handled)

\* WriteConsoleInput, when it prepends: a client's request, so the io thread
\* runs it.
WriteConsoleInput(batch, handled) ==
    /\ Free /\ attached # {}
    /\ WriteEvents(batch, TRUE, handled)

\* The mouse in VT input mode: the sequence is stored whatever Pause says.
HandleTerminalInput ==
    /\ ~failed
    /\ Store(Append(storage, "char"), {}, FALSE)
    /\ UNCHANGED <<server, parked, suspended, late>>

\* Ctrl+C and Ctrl+Break end the reads they interrupt, and resume output that
\* Pause suspended.
CtrlKey(reason) ==
    LET ended == Ended(inQ, reason)
        left == suspended \ {"pause"}
        resumed == IF "pause" \in suspended THEN Resumed(left) ELSE {}
    IN /\ ~failed
       /\ storage' = IF reason = "CtrlBreak" THEN <<>> ELSE storage
       /\ suspended' = left
       /\ Answer(ended \cup resumed)
       /\ ClearSlot(ended)
       /\ late' = (late \ resumed) \cup (IF "pause" \in suspended THEN Missed(left) ELSE {})
       /\ failed' = Asserts(ended, pending)
       /\ UNCHANGED <<server, pending, parked>>

\* The Pause key, the start of a selection, the scroll bar grabbed.
Suspend(reason) ==
    /\ ~failed /\ reason \notin suspended
    /\ reason = "pause" => line
    /\ suspended' = suspended \cup {reason}
    /\ UNCHANGED <<server, queues, pending, parked, storage, slot, late, failed>>

\* The selection is cleared, the scroll bar is let go.
Unblock(reason) ==
    /\ ~failed /\ reason \in suspended \ {"pause"}
    /\ suspended' = suspended \ {reason}
    /\ Answer(Resumed(suspended'))
    /\ late' = (late \ Resumed(suspended')) \cup Missed(suspended')
    /\ UNCHANGED <<server, pending, parked, storage, slot, failed>>

-----------------------------------------------------------------------------
IoThread ==
    \/ CreateWait
    \/ \E t \in Threads, h \in Handles :
          \/ \E n \in Rooms : GetConsoleInput(t, h, n) \/ ReadCharacterInput(t, h, n)
          \/ ReadLineInput(t, h)
          \/ ReadPendingInput(t, h)
    \/ \E t \in Threads : WriteConsole(t)
    \/ FlushConsoleInputBuffer
    \/ SetActiveScreenBuffer
    \/ SetConsoleInputMode
    \/ \E batch \in Batches, handled \in BOOLEAN : WriteConsoleInput(batch, handled)
    \/ \E p \in Procs : Connect(p) \/ Disconnect(p)
    \/ \E h \in Extras : CreateObject(h) \/ CloseObject(h)

OtherThreads ==
    \/ \E batch \in Batches, handled \in BOOLEAN : Type(batch, handled)
    \/ HandleTerminalInput
    \/ \E reason \in {"CtrlC", "CtrlBreak"} : CtrlKey(reason)
    \/ \E reason \in Reasons : Suspend(reason) \/ Unblock(reason)

Next == IoThread \/ OtherThreads

Spec == Init /\ [][Next]_vars
FairSpec == Spec /\ WF_vars(CreateWait)

-----------------------------------------------------------------------------
Count(q, t) == Cardinality({i \in 1..Len(q) : q[i] = t})

\* Every waiting request is either about to be queued or stands exactly once
\* in the queue of its object and exactly once in the queue of its process,
\* and nothing else stands in a queue: whichever side ends a block first, the
\* other never sees it again (WaitBlock's destructor).
Registered ==
    \A t \in Threads :
       LET here == IF Waiting(t) /\ t # parked THEN 1 ELSE 0
       IN /\ Count(inQ, t) = (IF here = 1 /\ IsRead(t) THEN 1 ELSE 0)
          /\ Count(outQ, t) = (IF here = 1 /\ ~IsRead(t) THEN 1 ELSE 0)
          /\ \A p \in Procs : Count(procQ[p], t) = (IF p = Owner[t] THEN here ELSE 0)

\* Until the host fails, a waiting read's handle and process exist, and every
\* handle counts the reads that wait through it: what the assertions on the
\* read count in the notify routines and in _CloseInputHandle rely on.
ReadsCounted ==
    ~failed =>
       /\ \A h \in Handles : readCount[h] = Cardinality({t \in Threads : IsRead(t) /\ req[t].handle = h})
       /\ \A t \in Threads : Waiting(t) => Owner[t] \in attached
       /\ \A t \in Threads : IsRead(t) => req[t].handle \in open

\* The console's reference to a line read never outlives the read, although
\* line reads of several threads overwrite and clear the one reference.
SlotLive == slot # None => req[slot].kind = "cooked"

\* A write waits although nothing suspends output only if output was
\* unblocked between the moment the write found it suspended and the moment
\* its block was queued.
MissedOnlyInGap == suspended = {} => ToSet(outQ) \subseteq late

\* While the user keeps typing lines that Pause does not swallow, every
\* waiting read is answered, however many other reads come and go.
TypeLine == "pause" \notin suspended /\ Type(<<"enter">>, FALSE)
TypingServes == []<><<TypeLine>>_vars => \A t \in Threads : IsRead(t) ~> ~IsRead(t)
=============================================================================
