------------------------------- MODULE Conpty -------------------------------
(***************************************************************************)
(* A terminal's connection to a pseudoconsole, and the console host at the *)
(* other end of its three pipes                                            *)
(* (src/src/cascadia/TerminalConnection/ConptyConnection.cpp,              *)
(* src/src/winconpty/winconpty.cpp, src/src/host/VtIo.cpp,                 *)
(* PtySignalInputThread.cpp, VtInputThread.cpp, srvinit.cpp).              *)
(*                                                                         *)
(* The terminal has its UI thread and the connection's output thread.  The *)
(* host has the thread that serves the clients (io), the threads that read *)
(* the signal pipe (sig) and the input pipe (vin), the thread of the       *)
(* pseudo window (con) and the render thread (ren); one of them runs the   *)
(* rundown (end) when the host ends.  A section under the console lock is  *)
(* one step unless it waits for a pipe.  Only one host is followed at a    *)
(* time: a restart waits here until the old host is gone.                  *)
(***************************************************************************)
EXTENDS Naturals, Sequences

CONSTANTS Clients,      \* the processes that may attach to the console
          Root,         \* the one that the connection launches
          Inbound,      \* {TRUE}: a connection handed off by a running host,
                        \* {FALSE}: one that starts its own
          MayFail,      \* may the steps of Start fail
          MaxOps,       \* bound: the user's calls of Resize, ShowHide, ... and
                        \* the clients that clients start
          MaxWrites,    \* bound: writes of the clients
          MaxSessions,  \* bound: starts of the connection
          MaxCrashes,   \* bound: crashes of the host
          OutCap        \* chunks that the output pipe holds

ASSUME ConptyAssumption ==
  /\ Root \in Clients
  /\ Inbound \cup {MayFail} \subseteq BOOLEAN
  /\ {MaxOps, MaxWrites, MaxSessions, MaxCrashes, OutCap} \subseteq Nat
  /\ OutCap > 0

\* ConnectionState
NotConnected == 0
Connecting   == 1
Connected    == 2
Closing      == 3
Closed       == 4
Failed       == 5

VARIABLES
  state,      \* _connectionState
  ui,         \* where the UI thread is
  session,    \* which start of the connection this is
  again,      \* is this Close followed by a Start
  conn,       \* _rows and _cols, _initialVisibility, _initialParentHwnd
  want,       \* for the properties: the last values the connection accepted
  out,        \* where the output thread is
  got,        \* what its ReadFile returned
  shown,      \* for the properties: the writes whose frame reached the terminal
  hpc,        \* the write end of the signal pipe (_hPC)
  ref,        \* the console's reference handle (in _hPC)
  inPipe,     \* the write end of the input pipe
  outPipe,    \* the read end of the output pipe
  sigPipe,    \* packets in the signal pipe
  inQ,        \* what is in the input pipe
  outQ,       \* chunks in the output pipe
  host,       \* "none", "up" or "exited"
  booted,     \* VtIo::_initialized, and the signal thread exists
  lock,       \* who holds the console lock over several steps
  io, sig, vin, con, ren,  \* where the host's threads are
  end,        \* where RundownAndExit is
  inited,     \* CONSOLE_INITIALIZED
  engine,     \* the VT engine's handle: "none", "on" or "broken"
  linked,     \* _consoleConnected
  looking,    \* _lookingForCursorPosition
  live,       \* size, visibility and owner of the host's window
  early,      \* _earlyResize, _initialShowHide, _earlyReparent
  closeSent,  \* _closeEventSent
  dirty,      \* has the engine something to paint
  client,     \* the client processes
  procs,      \* ProcessHandleList
  written,    \* number of writes of the clients
  ops,        \* number of calls of the user and of clients' children
  crashes     \* number of crashes of the host

call    == <<ui, session, again, conn, want, ops>>
reader  == <<out, got, shown>>
handles == <<hpc, ref, inPipe, outPipe>>
pipes   == <<sigPipe, inQ, outQ>>
threads == <<io, sig, vin, con, ren, end>>
console == <<inited, linked, looking, live, early, closeSent>>
paint   == <<engine, dirty>>
guests  == <<client, procs, written>>
server  == <<host, booted, lock, threads, console, paint, crashes>>
vars == <<state, call, reader, handles, pipes, server, guests>>

Settings == {"size", "show", "owner"}
None == 2  \* no early packet

Frame(n) == [kind |-> "frame", upto |-> n]
Query(k) == [kind |-> k, upto |-> 0]
Packet(k, v) == [kind |-> k, value |-> v]

\* The threads and the console of a host, new or gone.
NewThreads ==
  /\ io' = "read" /\ sig' = "none" /\ vin' = "none" /\ con' = "none" /\ ren' = "idle"
  /\ end' = "none"
  /\ booted' = FALSE /\ lock' = "none"
NewConsole(size, look) ==
  /\ inited' = FALSE /\ looking' = look /\ closeSent' = FALSE
  /\ live' = [k \in Settings |-> IF k = "size" THEN size ELSE 0]
  /\ early' = [k \in Settings |-> None]
  /\ engine' = "none" /\ dirty' = FALSE

Init ==
  /\ state = NotConnected
  /\ ui = "idle" /\ session = 0 /\ again = FALSE
  /\ conn = [k \in Settings |-> 0] /\ want = [k \in Settings |-> 0]
  /\ out = "none" /\ got = Query("none") /\ shown = 0
  /\ hpc \in Inbound /\ ref = hpc /\ inPipe = hpc /\ outPipe = hpc
  /\ sigPipe = <<>> /\ inQ = <<>> /\ outQ = <<>>
  /\ host = IF hpc THEN "up" ELSE "none"
  /\ booted = FALSE /\ lock = "none"
  /\ io = "read" /\ sig = "none" /\ vin = "none" /\ con = "none" /\ ren = "idle"
  /\ end = "none"
  /\ inited = FALSE /\ linked = FALSE /\ looking = FALSE /\ closeSent = FALSE
  /\ live = [k \in Settings |-> 0] /\ early = [k \in Settings |-> None]
  /\ engine = "none" /\ dirty = FALSE
  /\ client = [c \in Clients |-> IF hpc /\ c = Root THEN "launched" ELSE "none"]
  /\ procs = {} /\ written = 0 /\ ops = 0 /\ crashes = 0

-----------------------------------------------------------------------------
(* The connection: ConptyConnection on the UI thread                       *)

\* _transitionToState: only up.
Toward(s) == IF s < state THEN state ELSE s

Go(from, to) == ui = from /\ ui' = to

\* A packet written to the signal pipe.  With the host gone the write fails, and
\* the caller gets an exception.
Send(packets) == sigPipe' = IF host = "up" THEN sigPipe \o packets ELSE sigPipe

\* ControlCore::Initialize calls Start.
Start ==
  /\ Go("idle", "create")
  /\ state = NotConnected
  /\ state' = Connecting
  /\ session' = 1
  /\ UNCHANGED <<again, conn, want, ops, reader, handles, pipes, server, guests>>

\* The packets that tell a new host where its window is.
InitialPackets(all) ==
  (IF all THEN <<Packet("size", conn["size"])>> ELSE <<>>)
  \o (IF all \/ conn["owner"] # 0 THEN <<Packet("owner", conn["owner"])>> ELSE <<>>)
  \o (IF conn["show"] # 0 THEN <<Packet("show", conn["show"])>> ELSE <<>>)

\* _CreatePseudoConsoleAndPipes.  A restarted connection asks the host to
\* inherit the cursor.
CreateHost ==
  /\ Go("create", "launch")
  /\ ~inPipe
  /\ hpc' = TRUE /\ ref' = TRUE /\ inPipe' = TRUE /\ outPipe' = TRUE
  /\ sigPipe' = InitialPackets(FALSE) /\ inQ' = <<>> /\ outQ' = <<>>
  /\ host' = "up"
  /\ NewThreads
  /\ NewConsole(conn["size"], session > 1)
  /\ linked' = FALSE
  /\ client' = [c \in Clients |-> "none"] /\ procs' = {}
  /\ written' = 0 /\ shown' = 0
  /\ UNCHANGED <<state, session, again, conn, want, ops, out, got, crashes>>

\* The host and its client are there already.
AdoptHost ==
  /\ Go("create", "thread")
  /\ inPipe /\ host = "up"
  /\ Send(InitialPackets(TRUE))
  /\ UNCHANGED <<state, session, again, conn, want, ops, reader, handles, inQ, outQ, server,
                 guests>>

\* _LaunchAttachedClient
Launch ==
  /\ Go("launch", "thread")
  /\ host = "up"
  /\ client' = [client EXCEPT ![Root] = "launched"]
  /\ UNCHANGED <<state, session, again, conn, want, ops, reader, handles, pipes, server,
                 procs, written>>

\* Mutant: the reference handle is kept.
StartReadingHeld ==
  /\ Go("thread", "connect")
  /\ ref' = ref
  /\ out' = "loop"
  /\ UNCHANGED <<state, session, again, conn, want, ops, got, shown, hpc, inPipe, outPipe,
                 pipes, server, guests>>

\* ConptyReleasePseudoConsole, and the output thread begins.
StartReading ==
  /\ Go("thread", "connect")
  /\ ref' = FALSE
  /\ out' = "loop"
  /\ UNCHANGED <<state, session, again, conn, want, ops, got, shown, hpc, inPipe, outPipe,
                 pipes, server, guests>>

Connect ==
  /\ Go("connect", "idle")
  /\ state' = Toward(Connected)
  /\ UNCHANGED <<session, again, conn, want, ops, reader, handles, pipes, server, guests>>

\* A step of Start throws, before or after the reference was released.
StartFailed ==
  /\ \/ ui = "create" /\ IF inPipe THEN host # "up" ELSE MayFail
     \/ ui = "launch" /\ (MayFail \/ host # "up")
     \/ ui = "thread" /\ MayFail
  /\ ui' = "idle"
  /\ state' = Toward(Failed)
  /\ hpc' = FALSE /\ ref' = FALSE
  /\ UNCHANGED <<session, again, conn, want, ops, reader, inPipe, outPipe, pipes, server,
                 guests>>

\* Calls of the user, when no other call is running.
Op == ui = "idle" /\ ops < MaxOps /\ ops' = ops + 1

Resize == \E v \in {0, 1} :
  /\ Op /\ v # want["size"]
  /\ conn' = [conn EXCEPT !["size"] = v] /\ want' = [want EXCEPT !["size"] = v]
  /\ Send(IF state = Connected THEN <<Packet("size", v)>> ELSE <<>>)
  /\ UNCHANGED <<state, ui, session, again, reader, handles, inQ, outQ, server, guests>>

ShowHide == \E v \in {0, 1} :
  /\ Op /\ v # want["show"]
  /\ conn' = IF state = Connected THEN conn ELSE [conn EXCEPT !["show"] = v]
  /\ want' = [want EXCEPT !["show"] = v]
  /\ Send(IF state = Connected THEN <<Packet("show", v)>> ELSE <<>>)
  /\ UNCHANGED <<state, ui, session, again, reader, handles, inQ, outQ, server, guests>>

ReparentWindow == \E v \in {0, 1} :
  /\ Op /\ v # want["owner"]
  /\ conn' = IF state < Connecting THEN [conn EXCEPT !["owner"] = v] ELSE conn
  /\ want' = IF state \in {NotConnected, Connected} THEN [want EXCEPT !["owner"] = v] ELSE want
  /\ Send(IF state = Connected THEN <<Packet("owner", v)>> ELSE <<>>)
  /\ UNCHANGED <<state, ui, session, again, reader, handles, inQ, outQ, server, guests>>

ClearBuffer ==
  /\ Op
  /\ state = Connected
  /\ Send(<<Packet("clear", 0)>>)
  /\ UNCHANGED <<state, ui, session, again, conn, want, reader, handles, inQ, outQ, server,
                 guests>>

WriteInput ==
  /\ Op
  /\ state = Connected
  /\ inQ' = IF host = "up" THEN Append(inQ, "key") ELSE inQ
  /\ UNCHANGED <<state, ui, session, again, conn, want, reader, handles, sigPipe, outQ,
                 server, guests>>

-----------------------------------------------------------------------------
(* Close                                                                   *)

\* Mutant: the pipes to the host are kept.
CloseHeld ==
  /\ Go("idle", IF out = "none" THEN "clean" ELSE "cancel")
  /\ again' \in (IF state >= Closed /\ session < MaxSessions THEN BOOLEAN ELSE {FALSE})
  /\ state' = Toward(Closing)
  /\ UNCHANGED <<session, conn, want, ops, reader, handles, pipes, server, guests>>

\* ControlCore::Close, or SendCharEvent once the connection has ended: Enter
\* closes and starts it.  _hPC.reset() does not wait for the host.
Close ==
  /\ Go("idle", IF out = "none" THEN "clean" ELSE "cancel")
  /\ again' \in (IF state >= Closed /\ session < MaxSessions THEN BOOLEAN ELSE {FALSE})
  /\ state' = Toward(Closing)
  /\ hpc' = FALSE /\ ref' = FALSE /\ inPipe' = FALSE
  /\ UNCHANGED <<session, conn, want, ops, reader, outPipe, pipes, server, guests>>

\* Mutant: Close() waits one second only.
WaitOnce ==
  /\ Go("cancel", "clean")
  /\ out' = IF out = "read" THEN "ended" ELSE out
  /\ UNCHANGED <<state, session, again, conn, want, ops, got, shown, handles, pipes, server,
                 guests>>

\* CancelSynchronousIo reaches the thread only inside ReadFile; the thread then
\* finds the connection closing.  Close() waits a second for the end of the thread
\* and tries again.
Wait ==
  /\ Go("cancel", IF out \in {"read", "ended"} THEN "clean" ELSE "cancel")
  /\ out' = IF out = "read" THEN "ended" ELSE out
  /\ UNCHANGED <<state, session, again, conn, want, ops, got, shown, handles, pipes, server,
                 guests>>

Clean ==
  /\ Go("clean", IF again THEN "restart" ELSE "closed")
  /\ outPipe' = FALSE
  /\ out' = (IF out = "ended" THEN "none" ELSE out) /\ got' = Query("none")
  /\ state' = Toward(Closed)
  /\ UNCHANGED <<session, again, conn, want, ops, shown, hpc, ref, inPipe, pipes, server,
                 guests>>

\* Start of a connection that has ended: _resetConnectionState.
Restart ==
  /\ Go("restart", "create")
  /\ host # "up"
  /\ state' = Connecting
  /\ session' = session + 1 /\ again' = FALSE
  /\ UNCHANGED <<conn, want, ops, reader, handles, pipes, server, guests>>

-----------------------------------------------------------------------------
(* _OutputThread                                                           *)

Move(from, to) == out = from /\ out' = to

ReadFile ==
  /\ Move("loop", "read")
  /\ UNCHANGED <<state, call, got, shown, handles, pipes, server, guests>>

\* Data, or a broken pipe.  The thread looks first whether Close() has begun.
ReadReturns ==
  /\ out = "read"
  /\ \/ /\ outQ # <<>>
        /\ got' = Head(outQ) /\ outQ' = Tail(outQ)
        /\ out' = IF state >= Closing THEN "ended" ELSE "handle"
     \/ /\ outQ = <<>> /\ host # "up"
        /\ out' = IF state >= Closing THEN "ended" ELSE "report"
        /\ UNCHANGED <<got, outQ>>
  /\ UNCHANGED <<state, call, shown, handles, sigPipe, inQ, server, guests>>

\* The TerminalOutput handlers.  The terminal answers a question about the cursor
\* with WriteInput, which drops the answer unless the connection is connected.
Handle ==
  /\ Move("handle", IF got.kind = "ask" /\ state = Connected THEN "answer" ELSE "loop")
  /\ shown' = IF got.kind = "frame" THEN got.upto ELSE shown
  /\ got' = Query("none")
  /\ UNCHANGED <<state, call, handles, pipes, server, guests>>

Answer ==
  /\ Move("answer", "loop")
  /\ inQ' = IF inPipe /\ host = "up" THEN Append(inQ, "position") ELSE inQ
  /\ UNCHANGED <<state, call, got, shown, handles, sigPipe, outQ, server, guests>>

\* _LastConPtyClientDisconnected: the state says whether the root client failed ...
Report ==
  /\ Move("report", "message")
  /\ state' \in {Toward(Closed), Toward(Failed)}
  /\ UNCHANGED <<call, got, shown, handles, pipes, server, guests>>

\* ... and a message says how it ended.
Message ==
  /\ Move("message", "ended")
  /\ UNCHANGED <<state, call, got, shown, handles, pipes, server, guests>>

-----------------------------------------------------------------------------
(* The host: VtIo and the driver's io thread                               *)

Up == host = "up"
Free == lock = "none"
terminal == <<state, call, reader, handles>>

\* _Flush of the VT engine: waits while the pipe is full, and gives the handle up
\* when nobody can read it any more.
Flush(chunk) ==
  \/ /\ engine = "broken"
     /\ UNCHANGED <<engine, outQ>>
  \/ /\ engine # "broken" /\ ~outPipe
     /\ engine' = "broken" /\ outQ' = outQ
  \/ /\ engine # "broken" /\ outPipe /\ Len(outQ) < OutCap
     /\ engine' = "on" /\ outQ' = Append(outQ, chunk)

\* ConsoleCreateIoThread after it has started the io thread: VtIo::Initialize and
\* CreateAndStartSignalThread.
Boot ==
  /\ Up /\ ~booted
  /\ booted' = TRUE /\ sig' = "read"
  /\ UNCHANGED <<terminal, pipes, host, lock, io, vin, con, ren, end, console, paint,
                 crashes, guests>>

\* ConsoleHandleConnectionRequest.  The first client makes the io thread start
\* the thread of the pseudo window and, without the lock, wait for it.
ServeConnect(c) ==
  /\ Up /\ io = "read" /\ Free /\ client[c] = "launched"
  /\ procs' = procs \cup {c}
  /\ client' = [client EXCEPT ![c] = "attached"]
  /\ IF inited THEN UNCHANGED <<io, con>> ELSE io' = "wait" /\ con' = "start"
  /\ UNCHANGED <<terminal, pipes, host, booted, lock, sig, vin, ren, end, console, paint,
                 crashes, written>>

\* ConsoleInputThreadProcWin32 and CreatePseudoWindow
CreateWindow ==
  /\ Up /\ con = "start" /\ Free
  /\ con' = "done"
  /\ live' = [live EXCEPT !["owner"] = IF early["owner"] = None THEN 0 ELSE early["owner"]]
  /\ UNCHANGED <<terminal, pipes, host, booted, lock, io, sig, vin, ren, end, inited,
                 linked, looking, early, closeSent, paint, crashes, guests>>

\* The io thread locks the console again for CreateIoHandlers and StartIfNeeded,
\* which do nothing when VtIo has not been initialized.
WindowCreated ==
  /\ Up /\ io = "wait" /\ con = "done" /\ Free
  /\ IF booted THEN io' = "mode" /\ lock' = "io" /\ inited' = inited
               ELSE io' = "read" /\ lock' = lock /\ inited' = TRUE
  /\ UNCHANGED <<terminal, pipes, host, booted, sig, vin, con, ren, end, linked, looking,
                 live, early, closeSent, paint, crashes, guests>>

\* Mutant: what came early is forgotten.
ConnectConsoleAfresh ==
  /\ io' = "read" /\ vin' = "read" /\ lock' = "none"
  /\ inited' = TRUE /\ linked' = TRUE
  /\ live' = live

\* The end of StartIfNeeded: the input thread begins, and ConnectConsole applies
\* what came early.
ConnectConsole ==
  /\ io' = "read" /\ vin' = "read" /\ lock' = "none"
  /\ inited' = TRUE /\ linked' = TRUE
  /\ live' = [k \in Settings |->
                IF k # "owner" /\ early[k] # None THEN early[k] ELSE live[k]]

\* RequestWin32Input
RequestMode ==
  /\ Up /\ io = "mode"
  /\ Flush(Query("mode"))
  /\ IF looking THEN io' = "ask" /\ UNCHANGED <<vin, lock, inited, linked, live>>
                ELSE ConnectConsole
  /\ UNCHANGED <<terminal, sigPipe, inQ, host, booted, sig, con, ren, end, looking, early,
                 closeSent, dirty, crashes, guests>>

RequestCursor ==
  /\ Up /\ io = "ask"
  /\ Flush(Query("ask"))
  /\ io' = "look"
  /\ UNCHANGED <<terminal, sigPipe, inQ, host, booted, lock, sig, vin, con, ren, end,
                 console, dirty, crashes, guests>>

\* DoReadInput on the io thread, until the position arrives.  When the pipe is
\* broken the loop goes on for ever.
LookForCursor ==
  /\ Up /\ io = "look" /\ inQ # <<>>
  /\ inQ' = Tail(inQ)
  /\ looking' = (Head(inQ) # "position")
  /\ IF looking' THEN UNCHANGED <<io, vin, lock, inited, linked, live>> ELSE ConnectConsole
  /\ UNCHANGED <<terminal, sigPipe, outQ, host, booted, sig, con, ren, end, early,
                 closeSent, paint, crashes, guests>>

\* A client's write changes the buffer.
ServeWrite(c) ==
  /\ Up /\ io = "read" /\ Free /\ inited /\ client[c] \in {"attached", "told"}
  /\ written < MaxWrites
  /\ written' = written + 1 /\ dirty' = TRUE
  /\ UNCHANGED <<terminal, pipes, host, booted, lock, threads, console, engine, crashes,
                 client, procs>>

\* ConsoleClientDisconnectRoutine, RemoveConsole
ServeDisconnect(c) ==
  /\ Up /\ io = "read" /\ Free /\ client[c] = "exited"
  /\ procs' = procs \ {c}
  /\ client' = [client EXCEPT ![c] = "gone"]
  /\ UNCHANGED <<terminal, pipes, server, written>>

\* RundownAndExit, by thread t: the first caller ends the process, the others sleep.
Rundown == end' = IF end = "none" THEN "wait" ELSE end

\* ERROR_PIPE_NOT_CONNECTED: no client and no reference is left.
ServeEnd ==
  /\ Up /\ io = "read"
  /\ ~ref /\ \A c \in Clients : client[c] \in {"none", "gone"}
  /\ io' = "gone"
  /\ Rundown
  /\ UNCHANGED <<terminal, pipes, host, booted, lock, sig, vin, con, ren, console, paint,
                 crashes, guests>>

\* Mutant: no last frame is painted.
NoLastFrame ==
  /\ Up /\ end = "wait" /\ ren = "idle" /\ Free
  /\ ren' = "gone"
  /\ end' = "exit" /\ lock' = lock
  /\ UNCHANGED <<terminal, pipes, host, booted, io, sig, vin, con, console, paint, crashes,
                 guests>>

\* TriggerTeardown: the render thread completes its frame and is disabled, and one
\* last frame is painted under the console lock.
LastFrame ==
  /\ Up /\ end = "wait" /\ ren = "idle" /\ Free
  /\ ren' = "gone"
  /\ IF engine = "on" THEN end' = "flush" /\ lock' = "end" ELSE end' = "exit" /\ lock' = lock
  /\ UNCHANGED <<terminal, pipes, host, booted, io, sig, vin, con, console, paint, crashes,
                 guests>>

LastFlush ==
  /\ Up /\ end = "flush"
  /\ Flush(Frame(written))
  /\ end' = "exit" /\ lock' = "none" /\ dirty' = FALSE
  /\ UNCHANGED <<terminal, sigPipe, inQ, host, booted, io, sig, vin, con, ren, console,
                 crashes, guests>>

\* ExitProcess: the pipes lose their ends, and clients that were about to
\* attach fail.
HostEnds ==
  /\ host' = "exited"
  /\ NewThreads
  /\ NewConsole(0, FALSE)
  /\ client' = [c \in Clients |-> IF client[c] = "none" THEN "none" ELSE "gone"]
  /\ procs' = {}
  /\ sigPipe' = <<>> /\ inQ' = <<>>
  /\ UNCHANGED <<terminal, outQ, linked, written>>

Exit ==
  /\ Up /\ end = "exit"
  /\ HostEnds
  /\ UNCHANGED crashes

Crash ==
  /\ Up /\ crashes < MaxCrashes
  /\ crashes' = crashes + 1
  /\ HostEnds

-----------------------------------------------------------------------------
(* The host's other threads                                                *)

\* VtIo::SendCloseEvent, then the unlock that has the clients told: the thread
\* ends, or the host does.
SendCloseEvent ==
  /\ Free
  /\ closeSent' = TRUE
  /\ IF closeSent
       THEN UNCHANGED <<end, client>>
       ELSE IF procs = {}
              THEN Rundown /\ client' = client
              ELSE /\ client' = [c \in Clients |->
                         IF c \in procs /\ client[c] = "attached" THEN "told" ELSE client[c]]
                   /\ end' = end
  /\ UNCHANGED <<inited, linked, looking, live, early, paint, procs, written>>

\* PtySignalInputThread::_InputThread: _DoResizeWindow, _DoShowHide,
\* _DoSetWindowParent, _DoClearBuffer
ReadSignal ==
  /\ Up /\ sig = "read" /\ Free /\ sigPipe # <<>>
  /\ sigPipe' = Tail(sigPipe)
  /\ LET m == Head(sigPipe) IN
       IF m.kind = "clear"
         THEN UNCHANGED <<live, early>> /\ dirty' = (dirty \/ linked)
         ELSE /\ IF linked
                   THEN live' = [live EXCEPT ![m.kind] = m.value] /\ early' = early
                   ELSE early' = [early EXCEPT ![m.kind] = m.value] /\ live' = live
              /\ dirty' = dirty
  /\ UNCHANGED <<terminal, inQ, outQ, host, booted, lock, threads, inited, linked, looking,
                 closeSent, engine, crashes, guests>>

\* The pipe is broken: _Shutdown.
SignalClosed ==
  /\ Up /\ sig = "read" /\ sigPipe = <<>> /\ ~hpc
  /\ sig' = "gone"
  /\ SendCloseEvent
  /\ UNCHANGED <<terminal, pipes, host, booted, lock, io, vin, con, ren, crashes>>

\* VtInputThread::_InputThread
ReadInput ==
  /\ Up /\ vin = "read" /\ Free /\ inQ # <<>>
  /\ inQ' = Tail(inQ)
  /\ UNCHANGED <<terminal, sigPipe, outQ, server, guests>>

\* The pipe is broken: CloseInput.
InputClosed ==
  /\ Up /\ vin = "read" /\ inQ = <<>> /\ ~inPipe
  /\ vin' = "gone"
  /\ SendCloseEvent
  /\ UNCHANGED <<terminal, pipes, host, booted, lock, io, sig, con, ren, crashes>>

\* The render thread paints a frame, and flushes it under the console lock.
PaintFrame ==
  /\ Up /\ ren = "idle" /\ Free /\ dirty /\ engine = "on"
  /\ ren' = "flush" /\ lock' = "ren"
  /\ UNCHANGED <<terminal, pipes, host, booted, io, sig, vin, con, end, console, paint,
                 crashes, guests>>

FlushFrame ==
  /\ Up /\ ren = "flush"
  /\ Flush(Frame(written))
  /\ ren' = "idle" /\ lock' = "none" /\ dirty' = FALSE
  /\ UNCHANGED <<terminal, sigPipe, inQ, host, booted, io, sig, vin, con, end, console,
                 crashes, guests>>

-----------------------------------------------------------------------------
(* The clients                                                             *)

\* An attached client starts another.
Spawn(c) ==
  /\ Up /\ client[c] = "none"
  /\ \E p \in Clients : client[p] = "attached"
  /\ client' = [client EXCEPT ![c] = "launched"]
  /\ ops < MaxOps /\ ops' = ops + 1
  /\ UNCHANGED <<state, ui, session, again, conn, want, reader, handles, pipes, server,
                 procs, written>>

ClientExits(c) ==
  /\ client[c] \in {"launched", "attached", "told"}
  /\ client' = [client EXCEPT ![c] = IF client[c] = "launched" THEN "gone" ELSE "exited"]
  /\ UNCHANGED <<terminal, pipes, server, procs, written>>

-----------------------------------------------------------------------------
UiStep ==
  \/ CreateHost \/ AdoptHost \/ Launch \/ StartReading \/ Connect \/ StartFailed
  \/ Wait \/ Clean \/ Restart
OutputStep ==
  \/ ReadFile \/ ReadReturns \/ Handle \/ Answer \/ Report \/ Message
ServeStep ==
  \/ WindowCreated \/ RequestMode \/ RequestCursor \/ LookForCursor
  \/ ServeEnd
  \/ \E c \in Clients : ServeConnect(c) \/ ServeDisconnect(c)
SignalStep == ReadSignal \/ SignalClosed
InputStep == ReadInput \/ InputClosed
PaintStep == PaintFrame \/ FlushFrame
EndStep == LastFrame \/ LastFlush \/ Exit
UserStep ==
  \/ Start \/ Close \/ Resize \/ ShowHide \/ ReparentWindow \/ ClearBuffer \/ WriteInput
ClientStep == \E c \in Clients : ServeWrite(c) \/ Spawn(c) \/ ClientExits(c)

Next ==
  \/ UserStep \/ UiStep \/ OutputStep
  \/ Boot \/ ServeStep \/ CreateWindow \/ SignalStep \/ InputStep \/ PaintStep \/ EndStep
  \/ ClientStep \/ Crash

Spec == Init /\ [][Next]_vars

\* Threads inside a call go on.  A client that has been told to close is ended
\* by the system; users and clients need do nothing.
Fairness ==
  /\ WF_vars(UiStep) /\ WF_vars(OutputStep)
  /\ WF_vars(Boot) /\ WF_vars(ServeStep) /\ WF_vars(CreateWindow)
  /\ WF_vars(SignalStep) /\ WF_vars(InputStep) /\ WF_vars(PaintStep) /\ WF_vars(EndStep)
  /\ \A c \in Clients : WF_vars(client[c] = "told" /\ ClientExits(c))

FairSpec == Spec /\ Fairness

-----------------------------------------------------------------------------
(* Properties                                                              *)

\* No handler of the connection runs after Close() has returned (GH#13880).
NoCallAfterClose == ui \in {"closed", "restart", "create", "launch"} => out = "none"

\* When the output thread finds the pipe broken, everything that the clients wrote
\* has been given to the handlers, unless the host crashed or its VT never began.
OutputComplete ==
  out = "report" /\ crashes = 0 /\ linked => shown = written

\* Close() returns whatever the host is doing, and then the host ends and its
\* clients with it, unless it is looking for the cursor or a client attached after
\* the others were told.
CloseEnds ==
  ui = "cancel" ~>
     \/ ui = "restart"
     \/ ui = "closed" /\ (host = "up" => looking \/ \E c \in procs : closeSent /\ client[c] = "attached")

\* When the last client of a connection has gone, or the host has crashed, the
\* connection says so.
EndReported ==
  (state = Connected /\ (host # "up" \/ (~looking /\ \A c \in Clients : client[c] \in {"none", "exited", "gone"})))
     ~> state > Connected

\* A host that has nothing left to read has the size that the connection last
\* accepted, and before a restart also the visibility.
SettingsArrive ==
  (state = Connected /\ host = "up" /\ linked /\ sigPipe = <<>>)
     => \A k \in {"size"} \cup (IF session = 1 THEN {"show"} ELSE {}) : live[k] = want[k]
=============================================================================
