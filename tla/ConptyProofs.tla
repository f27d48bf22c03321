----------------------------- MODULE ConptyProofs ---------------------------
(***************************************************************************)
(* Proofs about a connection and its console host, for any set of clients, *)
(* number of calls, writes and restarts, and capacity of the output pipe:  *)
(* no handler runs after Close(), all output is delivered before the end   *)
(* is reported, and the host learns the settings.                          *)
(*                                                                         *)
(* The argument follows the pipes.  As long as _hPC is held the host can   *)
(* neither be told to close nor lose a pipe (Held), so that it ends only   *)
(* when the io thread does (Serving), after a last frame.  What the        *)
(* clients wrote last is then in the newest frame on its way, or yet to be *)
(* painted (Delivery); in the same way the newest packet of a kind on its  *)
(* way carries the setting the connection last accepted (Signalled).       *)
(***************************************************************************)
EXTENDS Conpty, TLAPS

Chunks == [kind : {"frame", "mode", "ask", "none"}, upto : Nat]
Packets == [kind : Settings \cup {"clear"}, value : {0, 1}]
States == NotConnected .. Failed

\* The types that the proofs need.
TypeOK ==
  /\ state \in States
  /\ ui \in {"idle", "create", "launch", "thread", "connect", "cancel", "clean",
             "restart", "closed"}
  /\ session \in Nat
  /\ conn \in [Settings -> {0, 1}] /\ want \in [Settings -> {0, 1}]
  /\ out \in {"none", "loop", "read", "handle", "answer", "report", "message",
              "ended"}
  /\ got \in Chunks /\ shown \in Nat
  /\ sigPipe \in Seq(Packets) /\ outQ \in Seq(Chunks)
  /\ live \in [Settings -> {0, 1}] /\ early \in [Settings -> {0, 1, None}]
  /\ written \in Nat /\ crashes \in Nat

-----------------------------------------------------------------------------
(* The newest item of a kind in a pipe.                                    *)

Has(q, k) == \E i \in 1 .. Len(q) : q[i].kind = k

\* The newest item of kind k in q is m; if there is none, the receiver knows.
Newest(q, k, m, known) ==
  IF Has(q, k)
    THEN \E i \in 1 .. Len(q) : /\ q[i] = m
                                /\ \A j \in (i + 1) .. Len(q) : q[j].kind # k
    ELSE known

-----------------------------------------------------------------------------
(* The inductive invariant.                                                *)

\* Where the output thread can be while a call runs on the UI thread.
Threads ==
  /\ ui \in {"create", "launch", "thread", "restart", "closed"} => out = "none"
  /\ ui = "clean" => out \in {"none", "ended"}
  /\ state = NotConnected => ui = "idle" /\ out = "none"
  /\ out \notin {"handle", "ended"} => got.kind # "frame"

\* _hPC is held until Close() or a failed Start, and the pipes with it.
Held ==
  /\ hpc => inPipe /\ outPipe
  /\ ui \in {"launch", "thread"} => hpc
  /\ ui \in {"cancel", "clean", "restart", "closed"} => ~hpc /\ ~inPipe
  /\ ui = "create" \/ state = NotConnected => (inPipe => hpc)
  /\ out \in {"loop", "read", "handle", "answer"} /\ state < Closing => hpc

\* The console is initialized before its host is linked, and only once.  As
\* long as _hPC is held, the host begins to end only when no client can write
\* any more, and paints until then.
Serving ==
  host = "up" =>
    /\ io \in {"wait", "mode", "ask", "look"} => ~inited
    /\ linked => inited
    /\ hpc => /\ end # "none" => io = "gone"
              /\ engine # "broken"
              /\ linked \/ io \in {"ask", "look"} => engine = "on"

\* The newest frame shows all writes.
Painted == Newest(outQ, "frame", Frame(written),
                  IF got.kind = "frame" THEN got.upto = written ELSE shown = written)

\* Either there is something to paint, or all has been painted.
Delivery ==
  /\ hpc /\ crashes = 0 =>
       /\ host = "up" /\ (linked \/ ~inited) => dirty \/ Painted
       /\ linked /\ (host # "up" \/ end = "exit") => Painted
  /\ out = "report" => host # "up" /\ OutputComplete

\* The host has the setting k, or the newest packet of that kind brings it.
Told(k) == Newest(sigPipe, k, Packet(k, want[k]),
                  IF ~linked /\ early[k] # None THEN early[k] = want[k]
                                                ELSE live[k] = want[k])

\* A session whose host has been given its settings.
Running == host = "up" /\ (ui \in {"launch", "thread", "connect"} \/ state = Connected)

\* Only the first session keeps to the visibility that was asked for.
Kept == {"size"} \cup (IF session <= 1 THEN {"show"} ELSE {})

Signalled ==
  /\ conn["size"] = want["size"]
  /\ session <= 1 /\ (ui = "create" \/ state = NotConnected) => conn["show"] = want["show"]
  /\ state = NotConnected => session = 0
  /\ (ui = "create" \/ state = NotConnected) /\ inPipe /\ host = "up" =>
        /\ sigPipe = <<>>
        /\ \A k \in Settings : live[k] = 0 /\ early[k] = None
  /\ Running => \A k \in Kept : Told(k)

\* A restart comes after a first session.
Sessions ==
  /\ session = 0 => /\ ui \in {"idle", "clean", "closed"} /\ out = "none"
                    /\ ui = "idle" => state = NotConnected
  /\ again => session >= 1
  /\ ui = "restart" => again

IInv ==
  /\ TypeOK /\ Threads /\ Held /\ Serving /\ Delivery /\ Sessions /\ Signalled

-----------------------------------------------------------------------------
(* Sequences.                                                              *)

\* An item appended to a pipe is the newest of its kind ...
LEMMA NewestAppended ==
  ASSUME NEW S, NEW q \in Seq(S), NEW m \in S, NEW known
  PROVE  Newest(Append(q, m), m.kind, m, known)
<1> DEFINE r == Append(q, m)
<1>1. Len(r) = Len(q) + 1 /\ r[Len(q) + 1] = m /\ Len(q) \in Nat
  OBVIOUS
<1>2. Has(r, m.kind)
  BY <1>1 DEF Has
<1> HIDE DEF r
<1>3. \E i \in 1 .. Len(r) : /\ r[i] = m
                             /\ \A j \in (i + 1) .. Len(r) : r[j].kind # m.kind
  BY <1>1
<1> QED BY <1>2, <1>3, Zenon DEF Newest, r

\* ... and leaves the newest one of another kind.
LEMMA NewestPassed ==
  ASSUME NEW S, NEW q \in Seq(S), NEW x \in S, NEW k, x.kind # k, NEW m,
         NEW known, Newest(q, k, m, known)
  PROVE  Newest(Append(q, x), k, m, known)
<1> DEFINE r == Append(q, x)
<1>1. /\ Len(q) \in Nat /\ Len(r) = Len(q) + 1 /\ r[Len(q) + 1] = x
      /\ \A i \in 1 .. Len(q) : r[i] = q[i]
  OBVIOUS
<1> HIDE DEF r
<1>2. Has(r, k) <=> Has(q, k)
  BY <1>1 DEF Has
<1>3. CASE Has(q, k)
  <2>1. PICK i \in 1 .. Len(q) : /\ q[i] = m
                                 /\ \A j \in (i + 1) .. Len(q) : q[j].kind # k
    BY <1>3, Zenon DEF Newest
  <2>2. /\ i \in 1 .. Len(r) /\ r[i] = m
        /\ \A j \in (i + 1) .. Len(r) : r[j].kind # k
    BY <1>1, <2>1
  <2> QED BY <1>2, <1>3, <2>2, Zenon DEF Newest, r
<1>4. CASE ~Has(q, k)
  BY <1>2, <1>4, Zenon DEF Newest, r
<1> QED BY <1>3, <1>4, Zenon

\* Taking the oldest item leaves the newest one, or makes it known.
LEMMA NewestTaken ==
  ASSUME NEW S, NEW q \in Seq(S), q # <<>>, NEW k, NEW m, m.kind = k, NEW known, NEW after,
         Newest(q, k, m, known),
         Head(q).kind = k /\ Head(q) = m => after,
         Head(q).kind # k /\ known => after
  PROVE  Newest(Tail(q), k, m, after)
<1> DEFINE r == Tail(q)
<1>1. /\ Len(q) \in Nat /\ Len(q) > 0 /\ Len(r) = Len(q) - 1
      /\ Head(q) = q[1]
      /\ \A i \in 1 .. Len(r) : r[i] = q[i + 1]
  OBVIOUS
<1> HIDE DEF r
<1>2. CASE Has(r, k)
  <2>1. PICK i \in 1 .. Len(r) : r[i].kind = k
    BY <1>2, Zenon DEF Has
  <2>2. Has(q, k)
    <3>1. i + 1 \in 1 .. Len(q) /\ q[i + 1].kind = k
      BY <1>1, <2>1
    <3> QED BY <3>1, Zenon DEF Has
  <2>3. PICK j \in 1 .. Len(q) : /\ q[j] = m
                                 /\ \A l \in (j + 1) .. Len(q) : q[l].kind # k
    BY <2>2, Zenon DEF Newest
  <2>4. j # 1
    BY <1>1, <2>1, <2>3
  <2>5. /\ j - 1 \in 1 .. Len(r) /\ r[j - 1] = m
        /\ \A l \in j .. Len(r) : r[l].kind # k
    BY <1>1, <2>3, <2>4
  <2>6. (j - 1) + 1 = j
    BY <2>3
  <2> QED BY <1>2, <2>5, <2>6, Zenon DEF Newest, r
<1>3. CASE ~Has(r, k)
  <2>1. \A i \in 1 .. Len(r) : r[i].kind # k
    BY <1>3, Zenon DEF Has
  <2>2. \A i \in 2 .. Len(q) : q[i].kind # k
    <3>1. ASSUME NEW i \in 2 .. Len(q) PROVE q[i].kind # k
      <4>1. i - 1 \in 1 .. Len(r) /\ (i - 1) + 1 = i
        BY <1>1
      <4> QED BY <4>1, <1>1, <2>1, Zenon
    <3> QED BY <3>1, Zenon
  <2>3. CASE Head(q).kind = k
    <3>1. Has(q, k)
      BY <1>1, <2>3 DEF Has
    <3>2. PICK j \in 1 .. Len(q) : /\ q[j] = m
                                   /\ \A l \in (j + 1) .. Len(q) : q[l].kind # k
      BY <3>1, Zenon DEF Newest
    <3>3. CASE j = 1
      BY <1>1, <1>3, <2>3, <3>2, <3>3, Zenon DEF Newest, r
    <3>4. CASE j # 1
      BY <1>1, <2>2, <3>2, <3>4
    <3> QED BY <3>3, <3>4, Zenon
  <2>4. CASE Head(q).kind # k
    <3>1. ~Has(q, k)
      BY <1>1, <2>2, <2>4 DEF Has
    <3> QED BY <1>3, <2>4, <3>1, Zenon DEF Newest, r
  <2> QED BY <2>3, <2>4, Zenon
<1> QED BY <1>2, <1>3, Zenon

-----------------------------------------------------------------------------
(* Types.                                                                  *)

LEMMA ChunkTypes ==
  /\ \A n \in Nat : Frame(n) \in Chunks
  /\ Query("mode") \in Chunks /\ Query("ask") \in Chunks /\ Query("none") \in Chunks
  BY Zenon DEF Frame, Query, Chunks

LEMMA FlushType ==
  ASSUME outQ \in Seq(Chunks), NEW chunk \in Chunks, Flush(chunk)
  PROVE  outQ' \in Seq(Chunks)
  BY DEF Flush

LEMMA SendType ==
  ASSUME sigPipe \in Seq(Packets), NEW packets \in Seq(Packets), Send(packets)
  PROVE  sigPipe' \in Seq(Packets)
  BY DEF Send

\* The first packets of a session.
LEMMA InitialType ==
  ASSUME conn \in [Settings -> {0, 1}], NEW all \in BOOLEAN
  PROVE  InitialPackets(all) \in Seq(Packets)
<1>1. \A k \in Settings : Packet(k, conn[k]) \in Packets
  BY Zenon DEF Packet, Packets
<1>2. \A k \in Settings : <<Packet(k, conn[k])>> \in Seq(Packets)
  BY <1>1
<1>3. << >> \in Seq(Packets)
  OBVIOUS
<1> QED BY <1>2, <1>3 DEF InitialPackets, Settings

\* Each step keeps the variables in their types.
LEMMA TypeStep ==
  TypeOK /\ [Next]_vars => TypeOK'
<1> SUFFICES ASSUME TypeOK, [Next]_vars
             PROVE  TypeOK'
  BY Zenon
<1> USE DEF call, reader, handles, pipes, server, threads, console, paint,
   guests, terminal
<1> USE DEF TypeOK, States, NotConnected, Connecting, Connected, Closing,
   Closed, Failed
<1>1. CASE Start
  BY <1>1 DEF Start, Go
<1>2. CASE Close
  BY <1>2 DEF Close, Go, Toward
<1>3. CASE Resize
  <2> PICK v \in {0, 1} :
         /\ conn' \in {conn, [conn EXCEPT !["size"] = v]}
         /\ want' \in {want, [want EXCEPT !["size"] = v]}
         /\ Send(IF state = Connected THEN <<Packet("size", v)>> ELSE <<>>)
    BY <1>3, Zenon DEF Resize
  <2>1. sigPipe' \in Seq(Packets)
    <3> HIDE DEF TypeOK
    <3>1. Packet("size", v) \in Packets
      BY Zenon DEF Packet, Packets, Settings
    <3>2. <<Packet("size", v)>> \in Seq(Packets) /\ <<>> \in Seq(Packets)
      BY <3>1
    <3>3. sigPipe \in Seq(Packets)
      BY Zenon DEF TypeOK
    <3> QED BY <3>2, <3>3, SendType, Zenon
  <2>2. conn' \in [Settings -> {0, 1}] /\ want' \in [Settings -> {0, 1}]
    OBVIOUS
  <2>3. UNCHANGED <<state, ui, session, reader, outQ, live, early, written, crashes>>
    BY <1>3, Zenon DEF Resize, Op
  <2> QED BY <2>1, <2>2, <2>3, Zenon
<1>4. CASE ShowHide
  <2> PICK v \in {0, 1} :
         /\ conn' \in {conn, [conn EXCEPT !["show"] = v]}
         /\ want' \in {want, [want EXCEPT !["show"] = v]}
         /\ Send(IF state = Connected THEN <<Packet("show", v)>> ELSE <<>>)
    BY <1>4, Zenon DEF ShowHide
  <2>1. sigPipe' \in Seq(Packets)
    <3> HIDE DEF TypeOK
    <3>1. Packet("show", v) \in Packets
      BY Zenon DEF Packet, Packets, Settings
    <3>2. <<Packet("show", v)>> \in Seq(Packets) /\ <<>> \in Seq(Packets)
      BY <3>1
    <3>3. sigPipe \in Seq(Packets)
      BY Zenon DEF TypeOK
    <3> QED BY <3>2, <3>3, SendType, Zenon
  <2>2. conn' \in [Settings -> {0, 1}] /\ want' \in [Settings -> {0, 1}]
    OBVIOUS
  <2>3. UNCHANGED <<state, ui, session, reader, outQ, live, early, written, crashes>>
    BY <1>4, Zenon DEF ShowHide, Op
  <2> QED BY <2>1, <2>2, <2>3, Zenon
<1>5. CASE ReparentWindow
  <2> PICK v \in {0, 1} :
         /\ conn' \in {conn, [conn EXCEPT !["owner"] = v]}
         /\ want' \in {want, [want EXCEPT !["owner"] = v]}
         /\ Send(IF state = Connected THEN <<Packet("owner", v)>> ELSE <<>>)
    BY <1>5, Zenon DEF ReparentWindow
  <2>1. sigPipe' \in Seq(Packets)
    <3> HIDE DEF TypeOK
    <3>1. Packet("owner", v) \in Packets
      BY Zenon DEF Packet, Packets, Settings
    <3>2. <<Packet("owner", v)>> \in Seq(Packets) /\ <<>> \in Seq(Packets)
      BY <3>1
    <3>3. sigPipe \in Seq(Packets)
      BY Zenon DEF TypeOK
    <3> QED BY <3>2, <3>3, SendType, Zenon
  <2>2. conn' \in [Settings -> {0, 1}] /\ want' \in [Settings -> {0, 1}]
    OBVIOUS
  <2>3. UNCHANGED <<state, ui, session, reader, outQ, live, early, written, crashes>>
    BY <1>5, Zenon DEF ReparentWindow, Op
  <2> QED BY <2>1, <2>2, <2>3, Zenon
<1>6. CASE ClearBuffer
  <2>0. Send(<<Packet("clear", 0)>>)
    BY <1>6, Zenon DEF ClearBuffer
  <2>1. sigPipe' \in Seq(Packets)
    <3> HIDE DEF TypeOK
    <3>1. Packet("clear", 0) \in Packets
      BY Zenon DEF Packet, Packets, Settings
    <3>2. <<Packet("clear", 0)>> \in Seq(Packets) /\ <<>> \in Seq(Packets)
      BY <3>1
    <3>3. sigPipe \in Seq(Packets)
      BY Zenon DEF TypeOK
    <3> QED BY <3>2, <3>3, <2>0, SendType, Zenon
  <2>2. conn' \in [Settings -> {0, 1}] /\ want' \in [Settings -> {0, 1}]
    BY <1>6, Zenon DEF ClearBuffer
  <2>3. UNCHANGED <<state, ui, session, reader, outQ, live, early, written, crashes>>
    BY <1>6, Zenon DEF ClearBuffer, Op
  <2> QED BY <2>1, <2>2, <2>3, Zenon
<1>7. CASE WriteInput
  BY <1>7, Zenon DEF WriteInput, Op
<1>8. CASE CreateHost
  <2>1. sigPipe' \in Seq(Packets)
    BY <1>8, InitialType, Zenon DEF CreateHost
  <2>2. live' \in [Settings -> {0, 1}] /\ early' \in [Settings -> {0, 1, None}]
    BY <1>8, Zenon DEF CreateHost, NewConsole, Settings
  <2>3. ui' = "launch" /\ outQ' = <<>> /\ written' = 0 /\ shown' = 0
        /\ UNCHANGED <<state, session, conn, want, out, got, crashes>>
    BY <1>8, Zenon DEF CreateHost, Go
  <2> QED BY <2>1, <2>2, <2>3
<1>9. CASE AdoptHost
  <2>1. sigPipe' \in Seq(Packets)
    <3>1. InitialPackets(TRUE) \in Seq(Packets)
      BY InitialType, Zenon
    <3> QED BY <1>9, <3>1, SendType, Zenon DEF AdoptHost
  <2> QED BY <1>9, <2>1, Zenon DEF AdoptHost, Go
<1>10. CASE Launch
  BY <1>10, Zenon DEF Launch, Go
<1>11. CASE StartReading
  BY <1>11, Zenon DEF StartReading, Go
<1>12. CASE Connect
  BY <1>12 DEF Connect, Go, Toward
<1>13. CASE StartFailed
  BY <1>13 DEF StartFailed, Toward
<1>14. CASE Wait
  BY <1>14, Zenon DEF Wait, Go
<1>15. CASE Clean
  <2>1. got' \in Chunks
    BY <1>15, Zenon DEF Clean, Query, Chunks
  <2> QED BY <1>15, <2>1 DEF Clean, Go, Toward
<1>16. CASE Restart
  BY <1>16 DEF Restart, Go
<1>17. CASE ReadFile
  BY <1>17, Zenon DEF ReadFile, Move
<1>18. CASE ReadReturns
  <2>1. got' \in Chunks /\ outQ' \in Seq(Chunks)
    <3>1. outQ # <<>> => Head(outQ) \in Chunks /\ Tail(outQ) \in Seq(Chunks)
      OBVIOUS
    <3> QED BY <1>18, <3>1, Zenon DEF ReadReturns
  <2> QED BY <1>18, <2>1, Zenon DEF ReadReturns
<1>19. CASE Handle
  <2>1. got' \in Chunks /\ shown' \in Nat
    BY <1>19, Zenon DEF Handle, Query, Chunks
  <2> QED BY <1>19, <2>1, Zenon DEF Handle, Move
<1>20. CASE Answer
  BY <1>20, Zenon DEF Answer, Move
<1>21. CASE Report
  BY <1>21 DEF Report, Move, Toward
<1>22. CASE Message
  BY <1>22, Zenon DEF Message, Move
<1>23. CASE Boot
  BY <1>23, Zenon DEF Boot, Up
<1>24. CASE WindowCreated
  BY <1>24, Zenon DEF WindowCreated, Up, Free
<1>25. CASE RequestMode
  <2>1. Flush(Query("mode")) /\ Query("mode") \in Chunks
    BY <1>25, ChunkTypes, Zenon DEF RequestMode
  <2>2. outQ' \in Seq(Chunks)
    BY <2>1, FlushType, Zenon
  <2> QED BY <1>25, <2>2, Zenon DEF RequestMode, ConnectConsole
<1>26. CASE RequestCursor
  <2>1. Flush(Query("ask")) /\ Query("ask") \in Chunks
    BY <1>26, ChunkTypes, Zenon DEF RequestCursor
  <2>2. outQ' \in Seq(Chunks)
    BY <2>1, FlushType, Zenon
  <2> QED BY <1>26, <2>2, Zenon DEF RequestCursor
<1>27. CASE LookForCursor
  BY <1>27, Zenon DEF LookForCursor, Up, ConnectConsole
<1>28. CASE ServeEnd
  BY <1>28, Zenon DEF ServeEnd, Up, Rundown
<1>29. ASSUME NEW c \in Clients, ServeConnect(c) PROVE TypeOK'
  BY <1>29, Zenon DEF ServeConnect, Up, Free
<1>30. ASSUME NEW c \in Clients, ServeDisconnect(c) PROVE TypeOK'
  BY <1>30, Zenon DEF ServeDisconnect, Up, Free
<1>31. CASE CreateWindow
  BY <1>31, Zenon DEF CreateWindow, Up, Free
<1>32. CASE ReadSignal
  <2>1. Head(sigPipe) \in Packets /\ sigPipe' \in Seq(Packets)
    BY <1>32 DEF ReadSignal
  <2>2. Head(sigPipe).kind \in Settings \cup {"clear"} /\ Head(sigPipe).value \in {0, 1}
    BY <2>1, Zenon DEF Packets
  <2>3. live' \in [Settings -> {0, 1}] /\ early' \in [Settings -> {0, 1, None}]
    BY <1>32, <2>2, Zenon DEF ReadSignal
  <2> QED BY <1>32, <2>1, <2>3, Zenon DEF ReadSignal
<1>33. CASE SignalClosed
  BY <1>33, Zenon DEF SignalClosed, Up, SendCloseEvent, Free, Rundown
<1>34. CASE ReadInput
  BY <1>34, Zenon DEF ReadInput, Up, Free
<1>35. CASE InputClosed
  BY <1>35, Zenon DEF InputClosed, Up, SendCloseEvent, Free, Rundown
<1>36. CASE PaintFrame
  BY <1>36, Zenon DEF PaintFrame, Up, Free
<1>37. CASE FlushFrame
  <2>1. Flush(Frame(written)) /\ Frame(written) \in Chunks
    BY <1>37, ChunkTypes, Zenon DEF FlushFrame
  <2>2. outQ' \in Seq(Chunks)
    BY <2>1, FlushType, Zenon
  <2> QED BY <1>37, <2>2, Zenon DEF FlushFrame
<1>38. CASE LastFrame
  BY <1>38, Zenon DEF LastFrame, Up, Free
<1>39. CASE LastFlush
  <2>1. Flush(Frame(written)) /\ Frame(written) \in Chunks
    BY <1>39, ChunkTypes, Zenon DEF LastFlush
  <2>2. outQ' \in Seq(Chunks)
    BY <2>1, FlushType, Zenon
  <2> QED BY <1>39, <2>2, Zenon DEF LastFlush
<1>40. CASE Exit
  <2>1. live' \in [Settings -> {0, 1}] /\ early' \in [Settings -> {0, 1, None}]
    BY <1>40, Zenon DEF Exit, HostEnds, NewConsole, Settings
  <2>2. sigPipe' = <<>> /\ crashes' \in Nat
    BY <1>40, Zenon DEF Exit, HostEnds
  <2>3. UNCHANGED <<terminal, outQ, written>>
    BY <1>40, Zenon DEF Exit, HostEnds
  <2> QED BY <2>1, <2>2, <2>3
<1>41. ASSUME NEW c \in Clients, ServeWrite(c) PROVE TypeOK'
  BY <1>41 DEF ServeWrite, Up, Free
<1>42. ASSUME NEW c \in Clients, Spawn(c) PROVE TypeOK'
  BY <1>42, Zenon DEF Spawn, Up
<1>43. ASSUME NEW c \in Clients, ClientExits(c) PROVE TypeOK'
  BY <1>43, Zenon DEF ClientExits
<1>44. CASE Crash
  <2>1. live' \in [Settings -> {0, 1}] /\ early' \in [Settings -> {0, 1, None}]
    BY <1>44, Zenon DEF Crash, HostEnds, NewConsole, Settings
  <2>2. sigPipe' = <<>> /\ crashes' \in Nat
    BY <1>44 DEF Crash, HostEnds
  <2>3. UNCHANGED <<terminal, outQ, written>>
    BY <1>44, Zenon DEF Crash, HostEnds
  <2> QED BY <2>1, <2>2, <2>3
<1>45. CASE UNCHANGED vars
  BY <1>45, Zenon DEF vars
<1> QED BY <1>1, <1>2, <1>3, <1>4, <1>5, <1>6, <1>7, <1>8, <1>9, <1>10, <1>11,
   <1>12, <1>13, <1>14, <1>15, <1>16, <1>17, <1>18, <1>19, <1>20, <1>21, <1>22,
   <1>23, <1>24, <1>25, <1>26, <1>27, <1>28, <1>29, <1>30, <1>31, <1>32, <1>33,
   <1>34, <1>35, <1>36, <1>37, <1>38, <1>39, <1>40, <1>41, <1>42, <1>43, <1>44,
   <1>45, Zenon DEF Next, UserStep, UiStep, OutputStep, ServeStep, SignalStep,
   InputStep, PaintStep, EndStep, ClientStep

-----------------------------------------------------------------------------
(* The steps of the invariant.                                             *)

\* Each step keeps the output thread away from a closed connection.
LEMMA ThreadsStep ==
  TypeOK /\ Threads /\ [Next]_vars => Threads'
<1> SUFFICES ASSUME TypeOK, Threads, [Next]_vars
             PROVE  Threads'
  BY Zenon
<1> USE DEF call, reader, handles, pipes, server, threads, console, paint,
   guests, terminal
<1> USE DEF Threads, TypeOK, States, Query, NotConnected, Connecting,
   Connected, Closing, Closed, Failed
<1>1. CASE Start
  BY <1>1 DEF Start, Go
<1>2. CASE Close
  BY <1>2 DEF Close, Go, Toward
<1>3. CASE Resize
  BY <1>3, Zenon DEF Resize, Op, Send
<1>4. CASE ShowHide
  BY <1>4, Zenon DEF ShowHide, Op, Send
<1>5. CASE ReparentWindow
  BY <1>5, Zenon DEF ReparentWindow, Op, Send
<1>6. CASE ClearBuffer
  BY <1>6, Zenon DEF ClearBuffer, Op, Send
<1>7. CASE WriteInput
  BY <1>7, Zenon DEF WriteInput, Op
<1>8. CASE CreateHost
  BY <1>8, Zenon DEF CreateHost, Go, NewThreads, NewConsole
<1>9. CASE AdoptHost
  BY <1>9, Zenon DEF AdoptHost, Go, Send
<1>10. CASE Launch
  BY <1>10, Zenon DEF Launch, Go
<1>11. CASE StartReading
  BY <1>11, Zenon DEF StartReading, Go
<1>12. CASE Connect
  BY <1>12 DEF Connect, Go, Toward
<1>13. CASE StartFailed
  BY <1>13, Zenon DEF StartFailed, Toward
<1>14. CASE Wait
  BY <1>14, Zenon DEF Wait, Go
<1>15. CASE Clean
  BY <1>15 DEF Clean, Go, Toward
<1>16. CASE Restart
  BY <1>16 DEF Restart, Go
<1>17. CASE ReadFile
  BY <1>17, Zenon DEF ReadFile, Move
<1>18. CASE ReadReturns
  BY <1>18, Zenon DEF ReadReturns
<1>19. CASE Handle
  BY <1>19, Zenon DEF Handle, Move
<1>20. CASE Answer
  BY <1>20, Zenon DEF Answer, Move
<1>21. CASE Report
  BY <1>21 DEF Report, Move, Toward
<1>22. CASE Message
  BY <1>22, Zenon DEF Message, Move
<1>23. CASE Boot
  BY <1>23, Zenon DEF Boot, Up
<1>24. CASE WindowCreated
  BY <1>24, Zenon DEF WindowCreated, Up, Free
<1>25. CASE RequestMode
  BY <1>25, Zenon DEF RequestMode, Up, Flush, ConnectConsole
<1>26. CASE RequestCursor
  BY <1>26, Zenon DEF RequestCursor, Up, Flush
<1>27. CASE LookForCursor
  BY <1>27, Zenon DEF LookForCursor, Up, ConnectConsole
<1>28. CASE ServeEnd
  BY <1>28, Zenon DEF ServeEnd, Up, Rundown
<1>29. ASSUME NEW c \in Clients, ServeConnect(c) PROVE Threads'
  BY <1>29, Zenon DEF ServeConnect, Up, Free
<1>30. ASSUME NEW c \in Clients, ServeDisconnect(c) PROVE Threads'
  BY <1>30, Zenon DEF ServeDisconnect, Up, Free
<1>31. CASE CreateWindow
  BY <1>31, Zenon DEF CreateWindow, Up, Free
<1>32. CASE ReadSignal
  BY <1>32, Zenon DEF ReadSignal, Up, Free
<1>33. CASE SignalClosed
  BY <1>33, Zenon DEF SignalClosed, Up, SendCloseEvent, Free, Rundown
<1>34. CASE ReadInput
  BY <1>34, Zenon DEF ReadInput, Up, Free
<1>35. CASE InputClosed
  BY <1>35, Zenon DEF InputClosed, Up, SendCloseEvent, Free, Rundown
<1>36. CASE PaintFrame
  BY <1>36, Zenon DEF PaintFrame, Up, Free
<1>37. CASE FlushFrame
  BY <1>37, Zenon DEF FlushFrame, Up, Flush
<1>38. CASE LastFrame
  BY <1>38, Zenon DEF LastFrame, Up, Free
<1>39. CASE LastFlush
  BY <1>39, Zenon DEF LastFlush, Up, Flush
<1>40. CASE Exit
  BY <1>40, Zenon DEF Exit, Up, HostEnds, NewThreads, NewConsole
<1>41. ASSUME NEW c \in Clients, ServeWrite(c) PROVE Threads'
  BY <1>41, Zenon DEF ServeWrite, Up, Free
<1>42. ASSUME NEW c \in Clients, Spawn(c) PROVE Threads'
  BY <1>42, Zenon DEF Spawn, Up
<1>43. ASSUME NEW c \in Clients, ClientExits(c) PROVE Threads'
  BY <1>43, Zenon DEF ClientExits
<1>44. CASE Crash
  BY <1>44, Zenon DEF Crash, Up, HostEnds, NewThreads, NewConsole
<1>45. CASE UNCHANGED vars
  BY <1>45, Zenon DEF vars
<1> QED BY <1>1, <1>2, <1>3, <1>4, <1>5, <1>6, <1>7, <1>8, <1>9, <1>10, <1>11,
   <1>12, <1>13, <1>14, <1>15, <1>16, <1>17, <1>18, <1>19, <1>20, <1>21, <1>22,
   <1>23, <1>24, <1>25, <1>26, <1>27, <1>28, <1>29, <1>30, <1>31, <1>32, <1>33,
   <1>34, <1>35, <1>36, <1>37, <1>38, <1>39, <1>40, <1>41, <1>42, <1>43, <1>44,
   <1>45, Zenon DEF Next, UserStep, UiStep, OutputStep, ServeStep, SignalStep,
   InputStep, PaintStep, EndStep, ClientStep

\* Each step keeps the pipes with _hPC.
LEMMA HeldStep ==
  TypeOK /\ Threads /\ Held /\ [Next]_vars => Held'
<1> SUFFICES ASSUME TypeOK, Threads, Held, [Next]_vars
             PROVE  Held'
  BY Zenon
<1> USE DEF call, reader, handles, pipes, server, threads, console, paint,
   guests, terminal
<1> USE DEF Held, Threads, TypeOK, States, NotConnected, Connecting, Connected,
   Closing, Closed, Failed
<1>1. CASE Start
  BY <1>1, Zenon DEF Start, Go
<1>2. CASE Close
  BY <1>2 DEF Close, Go, Toward
<1>3. CASE Resize
  BY <1>3 DEF Resize, Op, Send
<1>4. CASE ShowHide
  BY <1>4 DEF ShowHide, Op, Send
<1>5. CASE ReparentWindow
  BY <1>5 DEF ReparentWindow, Op, Send
<1>6. CASE ClearBuffer
  BY <1>6, Zenon DEF ClearBuffer, Op, Send
<1>7. CASE WriteInput
  BY <1>7, Zenon DEF WriteInput, Op
<1>8. CASE CreateHost
  BY <1>8, Zenon DEF CreateHost, Go, NewThreads, NewConsole
<1>9. CASE AdoptHost
  BY <1>9, Zenon DEF AdoptHost, Go, Send
<1>10. CASE Launch
  BY <1>10, Zenon DEF Launch, Go
<1>11. CASE StartReading
  BY <1>11, Zenon DEF StartReading, Go
<1>12. CASE Connect
  BY <1>12 DEF Connect, Go, Toward
<1>13. CASE StartFailed
  BY <1>13 DEF StartFailed, Toward
<1>14. CASE Wait
  BY <1>14, Zenon DEF Wait, Go
<1>15. CASE Clean
  BY <1>15, Zenon DEF Clean, Go, Toward
<1>16. CASE Restart
  BY <1>16, Zenon DEF Restart, Go
<1>17. CASE ReadFile
  BY <1>17, Zenon DEF ReadFile, Move
<1>18. CASE ReadReturns
  BY <1>18, Zenon DEF ReadReturns
<1>19. CASE Handle
  BY <1>19, Zenon DEF Handle, Move
<1>20. CASE Answer
  BY <1>20, Zenon DEF Answer, Move
<1>21. CASE Report
  BY <1>21 DEF Report, Move, Toward
<1>22. CASE Message
  BY <1>22, Zenon DEF Message, Move
<1>23. CASE Boot
  BY <1>23, Zenon DEF Boot, Up
<1>24. CASE WindowCreated
  BY <1>24, Zenon DEF WindowCreated, Up, Free
<1>25. CASE RequestMode
  BY <1>25, Zenon DEF RequestMode, Up, Flush, ConnectConsole
<1>26. CASE RequestCursor
  BY <1>26, Zenon DEF RequestCursor, Up, Flush
<1>27. CASE LookForCursor
  BY <1>27, Zenon DEF LookForCursor, Up, ConnectConsole
<1>28. CASE ServeEnd
  BY <1>28, Zenon DEF ServeEnd, Up, Rundown
<1>29. ASSUME NEW c \in Clients, ServeConnect(c) PROVE Held'
  BY <1>29, Zenon DEF ServeConnect, Up, Free
<1>30. ASSUME NEW c \in Clients, ServeDisconnect(c) PROVE Held'
  BY <1>30, Zenon DEF ServeDisconnect, Up, Free
<1>31. CASE CreateWindow
  BY <1>31, Zenon DEF CreateWindow, Up, Free
<1>32. CASE ReadSignal
  BY <1>32, Zenon DEF ReadSignal, Up, Free
<1>33. CASE SignalClosed
  BY <1>33, Zenon DEF SignalClosed, Up, SendCloseEvent, Free, Rundown
<1>34. CASE ReadInput
  BY <1>34, Zenon DEF ReadInput, Up, Free
<1>35. CASE InputClosed
  BY <1>35, Zenon DEF InputClosed, Up, SendCloseEvent, Free, Rundown
<1>36. CASE PaintFrame
  BY <1>36, Zenon DEF PaintFrame, Up, Free
<1>37. CASE FlushFrame
  BY <1>37, Zenon DEF FlushFrame, Up, Flush
<1>38. CASE LastFrame
  BY <1>38, Zenon DEF LastFrame, Up, Free
<1>39. CASE LastFlush
  BY <1>39, Zenon DEF LastFlush, Up, Flush
<1>40. CASE Exit
  BY <1>40, Zenon DEF Exit, Up, HostEnds, NewThreads, NewConsole
<1>41. ASSUME NEW c \in Clients, ServeWrite(c) PROVE Held'
  BY <1>41, Zenon DEF ServeWrite, Up, Free
<1>42. ASSUME NEW c \in Clients, Spawn(c) PROVE Held'
  BY <1>42, Zenon DEF Spawn, Up
<1>43. ASSUME NEW c \in Clients, ClientExits(c) PROVE Held'
  BY <1>43, Zenon DEF ClientExits
<1>44. CASE Crash
  BY <1>44, Zenon DEF Crash, Up, HostEnds, NewThreads, NewConsole
<1>45. CASE UNCHANGED vars
  BY <1>45, Zenon DEF vars
<1> QED BY <1>1, <1>2, <1>3, <1>4, <1>5, <1>6, <1>7, <1>8, <1>9, <1>10, <1>11,
   <1>12, <1>13, <1>14, <1>15, <1>16, <1>17, <1>18, <1>19, <1>20, <1>21, <1>22,
   <1>23, <1>24, <1>25, <1>26, <1>27, <1>28, <1>29, <1>30, <1>31, <1>32, <1>33,
   <1>34, <1>35, <1>36, <1>37, <1>38, <1>39, <1>40, <1>41, <1>42, <1>43, <1>44,
   <1>45, ZenonT(30) DEF Next, UserStep, UiStep, OutputStep, ServeStep, SignalStep,
   InputStep, PaintStep, EndStep, ClientStep

\* Each step of the host keeps its threads in order.
LEMMA ServingStep ==
  TypeOK /\ Held /\ Serving /\ [Next]_vars => Serving'
<1> SUFFICES ASSUME TypeOK, Held, Serving, [Next]_vars
             PROVE  Serving'
  BY Zenon
<1> USE DEF call, reader, handles, pipes, server, threads, console, paint,
   guests, terminal
<1> USE DEF Serving, Held
<1>1. CASE Start
  BY <1>1, Zenon DEF Start, Go
<1>2. CASE Close
  BY <1>2, Zenon DEF Close, Go, Toward
<1>3. CASE Resize
  BY <1>3 DEF Resize, Op, Send
<1>4. CASE ShowHide
  BY <1>4 DEF ShowHide, Op, Send
<1>5. CASE ReparentWindow
  BY <1>5 DEF ReparentWindow, Op, Send
<1>6. CASE ClearBuffer
  BY <1>6, Zenon DEF ClearBuffer, Op, Send
<1>7. CASE WriteInput
  BY <1>7, Zenon DEF WriteInput, Op
<1>8. CASE CreateHost
  BY <1>8, Zenon DEF CreateHost, Go, NewThreads, NewConsole
<1>9. CASE AdoptHost
  BY <1>9, Zenon DEF AdoptHost, Go, Send
<1>10. CASE Launch
  BY <1>10, Zenon DEF Launch, Go
<1>11. CASE StartReading
  BY <1>11, Zenon DEF StartReading, Go
<1>12. CASE Connect
  BY <1>12, Zenon DEF Connect, Go, Toward
<1>13. CASE StartFailed
  BY <1>13, Zenon DEF StartFailed, Toward
<1>14. CASE Wait
  BY <1>14, Zenon DEF Wait, Go
<1>15. CASE Clean
  BY <1>15, Zenon DEF Clean, Go, Toward
<1>16. CASE Restart
  BY <1>16, Zenon DEF Restart, Go
<1>17. CASE ReadFile
  BY <1>17, Zenon DEF ReadFile, Move
<1>18. CASE ReadReturns
  BY <1>18, Zenon DEF ReadReturns
<1>19. CASE Handle
  BY <1>19, Zenon DEF Handle, Move
<1>20. CASE Answer
  BY <1>20, Zenon DEF Answer, Move
<1>21. CASE Report
  BY <1>21, Zenon DEF Report, Move, Toward
<1>22. CASE Message
  BY <1>22, Zenon DEF Message, Move
<1>23. CASE Boot
  BY <1>23, Zenon DEF Boot, Up
<1>24. CASE WindowCreated
  BY <1>24, Zenon DEF WindowCreated, Up, Free
<1>25. CASE RequestMode
  BY <1>25, Zenon DEF RequestMode, Up, Flush, ConnectConsole
<1>26. CASE RequestCursor
  BY <1>26, Zenon DEF RequestCursor, Up, Flush
<1>27. CASE LookForCursor
  BY <1>27, Zenon DEF LookForCursor, Up, ConnectConsole
<1>28. CASE ServeEnd
  BY <1>28, Zenon DEF ServeEnd, Up, Rundown
<1>29. ASSUME NEW c \in Clients, ServeConnect(c) PROVE Serving'
  BY <1>29, Zenon DEF ServeConnect, Up, Free
<1>30. ASSUME NEW c \in Clients, ServeDisconnect(c) PROVE Serving'
  BY <1>30, Zenon DEF ServeDisconnect, Up, Free
<1>31. CASE CreateWindow
  BY <1>31, Zenon DEF CreateWindow, Up, Free
<1>32. CASE ReadSignal
  BY <1>32, Zenon DEF ReadSignal, Up, Free
<1>33. CASE SignalClosed
  BY <1>33, Zenon DEF SignalClosed, Up, SendCloseEvent, Free, Rundown
<1>34. CASE ReadInput
  BY <1>34, Zenon DEF ReadInput, Up, Free
<1>35. CASE InputClosed
  BY <1>35, Zenon DEF InputClosed, Up, SendCloseEvent, Free, Rundown
<1>36. CASE PaintFrame
  BY <1>36, Zenon DEF PaintFrame, Up, Free
<1>37. CASE FlushFrame
  BY <1>37, Zenon DEF FlushFrame, Up, Flush
<1>38. CASE LastFrame
  BY <1>38, Zenon DEF LastFrame, Up, Free
<1>39. CASE LastFlush
  BY <1>39, Zenon DEF LastFlush, Up, Flush
<1>40. CASE Exit
  BY <1>40, Zenon DEF Exit, Up, HostEnds, NewThreads, NewConsole
<1>41. ASSUME NEW c \in Clients, ServeWrite(c) PROVE Serving'
  BY <1>41, Zenon DEF ServeWrite, Up, Free
<1>42. ASSUME NEW c \in Clients, Spawn(c) PROVE Serving'
  BY <1>42, Zenon DEF Spawn, Up
<1>43. ASSUME NEW c \in Clients, ClientExits(c) PROVE Serving'
  BY <1>43, Zenon DEF ClientExits
<1>44. CASE Crash
  BY <1>44, Zenon DEF Crash, Up, HostEnds, NewThreads, NewConsole
<1>45. CASE UNCHANGED vars
  BY <1>45, Zenon DEF vars
<1> QED BY <1>1, <1>2, <1>3, <1>4, <1>5, <1>6, <1>7, <1>8, <1>9, <1>10, <1>11,
   <1>12, <1>13, <1>14, <1>15, <1>16, <1>17, <1>18, <1>19, <1>20, <1>21, <1>22,
   <1>23, <1>24, <1>25, <1>26, <1>27, <1>28, <1>29, <1>30, <1>31, <1>32, <1>33,
   <1>34, <1>35, <1>36, <1>37, <1>38, <1>39, <1>40, <1>41, <1>42, <1>43, <1>44,
   <1>45, Zenon DEF Next, UserStep, UiStep, OutputStep, ServeStep, SignalStep,
   InputStep, PaintStep, EndStep, ClientStep

\* Each step counts the sessions.
LEMMA SessionsStep ==
  TypeOK /\ Threads /\ Sessions /\ [Next]_vars => Sessions'
<1> SUFFICES ASSUME TypeOK, Threads, Sessions, [Next]_vars
             PROVE  Sessions'
  BY Zenon
<1> USE DEF call, reader, handles, pipes, server, threads, console, paint,
   guests, terminal
<1> USE DEF Sessions, Threads, TypeOK, States, NotConnected, Connecting,
   Connected, Closing, Closed, Failed
<1>1. CASE Start
  BY <1>1 DEF Start, Go
<1>2. CASE Close
  <2>1. ui = "idle" /\ session' = session /\ out' = out
    BY <1>2, Zenon DEF Close, Go
  <2>2. ui' \in {"clean", "cancel"} /\ (out = "none" => ui' = "clean")
    BY <1>2, Zenon DEF Close, Go
  <2>3. session = 0 => again' = FALSE
    BY <1>2, <2>1 DEF Close
  <2> QED BY <2>1, <2>2, <2>3
<1>3. CASE Resize
  BY <1>3 DEF Resize, Op, Send
<1>4. CASE ShowHide
  BY <1>4 DEF ShowHide, Op, Send
<1>5. CASE ReparentWindow
  BY <1>5 DEF ReparentWindow, Op, Send
<1>6. CASE ClearBuffer
  BY <1>6, Zenon DEF ClearBuffer, Op, Send
<1>7. CASE WriteInput
  BY <1>7, Zenon DEF WriteInput, Op
<1>8. CASE CreateHost
  BY <1>8, Zenon DEF CreateHost, Go, NewThreads, NewConsole
<1>9. CASE AdoptHost
  BY <1>9, Zenon DEF AdoptHost, Go, Send
<1>10. CASE Launch
  BY <1>10, Zenon DEF Launch, Go
<1>11. CASE StartReading
  BY <1>11, Zenon DEF StartReading, Go
<1>12. CASE Connect
  BY <1>12, Zenon DEF Connect, Go, Toward
<1>13. CASE StartFailed
  BY <1>13, Zenon DEF StartFailed, Toward
<1>14. CASE Wait
  BY <1>14, Zenon DEF Wait, Go
<1>15. CASE Clean
  BY <1>15 DEF Clean, Go, Toward
<1>16. CASE Restart
  BY <1>16 DEF Restart, Go
<1>17. CASE ReadFile
  BY <1>17, Zenon DEF ReadFile, Move
<1>18. CASE ReadReturns
  BY <1>18, Zenon DEF ReadReturns
<1>19. CASE Handle
  BY <1>19, Zenon DEF Handle, Move
<1>20. CASE Answer
  BY <1>20, Zenon DEF Answer, Move
<1>21. CASE Report
  BY <1>21, Zenon DEF Report, Move, Toward
<1>22. CASE Message
  BY <1>22, Zenon DEF Message, Move
<1>23. CASE Boot
  BY <1>23, Zenon DEF Boot, Up
<1>24. CASE WindowCreated
  BY <1>24, Zenon DEF WindowCreated, Up, Free
<1>25. CASE RequestMode
  BY <1>25, Zenon DEF RequestMode, Up, Flush, ConnectConsole
<1>26. CASE RequestCursor
  BY <1>26, Zenon DEF RequestCursor, Up, Flush
<1>27. CASE LookForCursor
  BY <1>27, Zenon DEF LookForCursor, Up, ConnectConsole
<1>28. CASE ServeEnd
  BY <1>28, Zenon DEF ServeEnd, Up, Rundown
<1>29. ASSUME NEW c \in Clients, ServeConnect(c) PROVE Sessions'
  BY <1>29, Zenon DEF ServeConnect, Up, Free
<1>30. ASSUME NEW c \in Clients, ServeDisconnect(c) PROVE Sessions'
  BY <1>30, Zenon DEF ServeDisconnect, Up, Free
<1>31. CASE CreateWindow
  BY <1>31, Zenon DEF CreateWindow, Up, Free
<1>32. CASE ReadSignal
  BY <1>32, Zenon DEF ReadSignal, Up, Free
<1>33. CASE SignalClosed
  BY <1>33, Zenon DEF SignalClosed, Up, SendCloseEvent, Free, Rundown
<1>34. CASE ReadInput
  BY <1>34, Zenon DEF ReadInput, Up, Free
<1>35. CASE InputClosed
  BY <1>35, Zenon DEF InputClosed, Up, SendCloseEvent, Free, Rundown
<1>36. CASE PaintFrame
  BY <1>36, Zenon DEF PaintFrame, Up, Free
<1>37. CASE FlushFrame
  BY <1>37, Zenon DEF FlushFrame, Up, Flush
<1>38. CASE LastFrame
  BY <1>38, Zenon DEF LastFrame, Up, Free
<1>39. CASE LastFlush
  BY <1>39, Zenon DEF LastFlush, Up, Flush
<1>40. CASE Exit
  BY <1>40, Zenon DEF Exit, Up, HostEnds, NewThreads, NewConsole
<1>41. ASSUME NEW c \in Clients, ServeWrite(c) PROVE Sessions'
  BY <1>41, Zenon DEF ServeWrite, Up, Free
<1>42. ASSUME NEW c \in Clients, Spawn(c) PROVE Sessions'
  BY <1>42, Zenon DEF Spawn, Up
<1>43. ASSUME NEW c \in Clients, ClientExits(c) PROVE Sessions'
  BY <1>43, Zenon DEF ClientExits
<1>44. CASE Crash
  BY <1>44, Zenon DEF Crash, Up, HostEnds, NewThreads, NewConsole
<1>45. CASE UNCHANGED vars
  BY <1>45, Zenon DEF vars
<1> QED BY <1>1, <1>2, <1>3, <1>4, <1>5, <1>6, <1>7, <1>8, <1>9, <1>10, <1>11,
   <1>12, <1>13, <1>14, <1>15, <1>16, <1>17, <1>18, <1>19, <1>20, <1>21, <1>22,
   <1>23, <1>24, <1>25, <1>26, <1>27, <1>28, <1>29, <1>30, <1>31, <1>32, <1>33,
   <1>34, <1>35, <1>36, <1>37, <1>38, <1>39, <1>40, <1>41, <1>42, <1>43, <1>44,
   <1>45, ZenonT(30) DEF Next, UserStep, UiStep, OutputStep, ServeStep, SignalStep,
   InputStep, PaintStep, EndStep, ClientStep

\* Painted depends on the output only.
LEMMA PaintedSame ==
  UNCHANGED <<outQ, got, shown, written>> => (Painted' <=> Painted)
  BY Zenon DEF Painted

\* Each step leaves what was written to be painted, on its way, or shown.
LEMMA DeliveryStep ==
  TypeOK /\ Threads /\ Held /\ Serving /\ Delivery /\ [Next]_vars => Delivery'
<1> SUFFICES ASSUME TypeOK, Threads, Held, Serving, Delivery, [Next]_vars
             PROVE  Delivery'
  BY Zenon
<1> USE DEF call, reader, handles, pipes, server, threads, console, paint,
   guests, terminal
<1> USE DEF TypeOK, Threads, Held, Serving, Delivery, OutputComplete
<1>1. CASE Start
  BY <1>1, PaintedSame, Zenon DEF Start, Go
<1>2. CASE Close
  BY <1>2, PaintedSame, Zenon DEF Close, Go, Toward
<1>3. CASE Resize
  BY <1>3, PaintedSame DEF Resize, Op, Send
<1>4. CASE ShowHide
  BY <1>4, PaintedSame DEF ShowHide, Op, Send
<1>5. CASE ReparentWindow
  BY <1>5, PaintedSame DEF ReparentWindow, Op, Send
<1>6. CASE ClearBuffer
  BY <1>6, PaintedSame, Zenon DEF ClearBuffer, Op, Send
<1>7. CASE WriteInput
  BY <1>7, PaintedSame, Zenon DEF WriteInput, Op
<1>8. CASE CreateHost
  <2>1. Painted'
    <3>1. /\ outQ' = <<>> /\ written' = 0 /\ shown' = 0 /\ got' = got
          /\ got.kind # "frame"
      BY <1>8, Zenon DEF CreateHost, Go
    <3> QED BY <3>1 DEF Painted, Newest, Has
  <2>2. out' = "none" /\ linked' = FALSE
    BY <1>8, Zenon DEF CreateHost, Go
  <2> QED BY <2>1, <2>2, Zenon
<1>9. CASE AdoptHost
  BY <1>9, PaintedSame, Zenon DEF AdoptHost, Go, Send
<1>10. CASE Launch
  BY <1>10, PaintedSame, Zenon DEF Launch, Go
<1>11. CASE StartReading
  BY <1>11, PaintedSame, Zenon DEF StartReading, Go
<1>12. CASE Connect
  BY <1>12, PaintedSame, Zenon DEF Connect, Go, Toward
<1>13. CASE StartFailed
  BY <1>13, PaintedSame, Zenon DEF StartFailed, Toward
<1>14. CASE Wait
  BY <1>14, PaintedSame, Zenon DEF Wait, Go
<1>15. CASE Clean
  <2>1. ~hpc' /\ out' # "report"
    BY <1>15, Zenon DEF Clean, Go
  <2> QED BY <2>1, Zenon
<1>16. CASE Restart
  BY <1>16, PaintedSame, Zenon DEF Restart, Go
<1>17. CASE ReadFile
  BY <1>17, PaintedSame, Zenon DEF ReadFile, Move
<1>18. CASE ReadReturns
  <2>1. /\ out = "read" /\ out' \in {"ended", "handle", "report"}
        /\ UNCHANGED <<hpc, crashes, host, linked, inited, dirty, end, shown, written>>
    BY <1>18, Zenon DEF ReadReturns
  <2>2. got.kind # "frame"
    BY <2>1, Zenon
  <2>3. CASE outQ # <<>>
    <3>1. got' = Head(outQ) /\ outQ' = Tail(outQ) /\ out' # "report"
      BY <1>18, <2>3, Zenon DEF ReadReturns
    <3>2. ASSUME Painted PROVE Painted'
      <4> DEFINE after == IF Head(outQ).kind = "frame"
                            THEN Head(outQ).upto = written ELSE shown = written
      <4>1. Newest(outQ, "frame", Frame(written), shown = written)
        BY <3>2, <2>2, Zenon DEF Painted
      <4>2. Frame(written).kind = "frame" /\ Frame(written).upto = written
        BY Zenon DEF Frame
      <4>3. outQ \in Seq(Chunks)
        BY Zenon
      <4>4. /\ Head(outQ).kind = "frame" /\ Head(outQ) = Frame(written) => after
            /\ Head(outQ).kind # "frame" /\ shown = written => after
        BY <4>2, Zenon
      <4>5. Newest(Tail(outQ), "frame", Frame(written), after)
        <5> HIDE DEF after, TypeOK
        <5> QED BY <2>3, <4>1, <4>2, <4>3, <4>4, NewestTaken, Zenon
      <4> QED BY <4>5, <3>1, <2>1, Zenon DEF Painted
    <3> QED BY <2>1, <3>1, <3>2, Zenon
  <2>4. CASE outQ = <<>>
    <3>1. UNCHANGED <<got, outQ>> /\ host # "up"
          /\ out' = IF state >= Closing THEN "ended" ELSE "report"
      BY <1>18, <2>4, Zenon DEF ReadReturns
    <3>2. Painted' <=> Painted
      BY <3>1, <2>1, PaintedSame, Zenon
    <3>3. Painted => shown = written
      BY <2>2, <2>4 DEF Painted, Newest, Has
    <3>4. state < Closing => hpc
      BY <2>1, Zenon
    <3> QED BY <2>1, <3>1, <3>2, <3>3, <3>4 DEF Closing, States
  <2> QED BY <2>3, <2>4, Zenon
<1>19. CASE Handle
  <2>1. /\ UNCHANGED <<hpc, crashes, host, linked, inited, dirty, end, written, outQ>>
        /\ out' # "report"
        /\ shown' = (IF got.kind = "frame" THEN got.upto ELSE shown)
        /\ got' = Query("none")
    BY <1>19, Zenon DEF Handle, Move
  <2>2. got'.kind # "frame"
    BY <2>1, Zenon DEF Query
  <2>3. Painted => Painted'
    BY <2>1, <2>2, Zenon DEF Painted
  <2> QED BY <2>1, <2>3, Zenon
<1>20. CASE Answer
  BY <1>20, PaintedSame, Zenon DEF Answer, Move
<1>21. CASE Report
  BY <1>21, PaintedSame, Zenon DEF Report, Move, Toward
<1>22. CASE Message
  BY <1>22, PaintedSame, Zenon DEF Message, Move
<1>23. CASE Boot
  BY <1>23, PaintedSame, Zenon DEF Boot, Up
<1>24. CASE WindowCreated
  BY <1>24, PaintedSame, Zenon DEF WindowCreated, Up, Free
<1>25. CASE RequestMode
  <2>1. /\ UNCHANGED <<hpc, crashes, host, dirty, end, got, shown, written, out>>
        /\ Flush(Query("mode")) /\ host = "up"
        /\ io \in {"mode", "ask", "look"}
    BY <1>25, Zenon DEF RequestMode, Up
  <2>2. Painted => Painted'
    <3>1. CASE outQ' = outQ
      BY <2>1, <3>1, PaintedSame, Zenon
    <3>2. CASE outQ' = Append(outQ, Query("mode"))
      <4>1. Query("mode") \in Chunks /\ Query("mode").kind # "frame"
        BY ChunkTypes, Zenon DEF Query
      <4> QED BY <2>1, <3>2, <4>1, NewestPassed, Zenon DEF Painted
    <3> QED BY <2>1, <3>1, <3>2, Zenon DEF Flush
  <2> QED BY <1>25, <2>1, <2>2 DEF RequestMode, ConnectConsole
<1>26. CASE RequestCursor
  <2>1. /\ UNCHANGED <<hpc, crashes, host, dirty, end, got, shown, written, out>>
        /\ Flush(Query("ask")) /\ host = "up"
        /\ io \in {"mode", "ask", "look"}
    BY <1>26, Zenon DEF RequestCursor, Up
  <2>2. Painted => Painted'
    <3>1. CASE outQ' = outQ
      BY <2>1, <3>1, PaintedSame, Zenon
    <3>2. CASE outQ' = Append(outQ, Query("ask"))
      <4>1. Query("ask") \in Chunks /\ Query("ask").kind # "frame"
        BY ChunkTypes, Zenon DEF Query
      <4> QED BY <2>1, <3>2, <4>1, NewestPassed, Zenon DEF Painted
    <3> QED BY <2>1, <3>1, <3>2, Zenon DEF Flush
  <2> QED BY <1>26, <2>1, <2>2 DEF RequestCursor, ConnectConsole
<1>27. CASE LookForCursor
  BY <1>27, PaintedSame, Zenon DEF LookForCursor, Up, ConnectConsole
<1>28. CASE ServeEnd
  BY <1>28, PaintedSame, Zenon DEF ServeEnd, Up, Rundown
<1>29. ASSUME NEW c \in Clients, ServeConnect(c) PROVE Delivery'
  BY <1>29, PaintedSame, Zenon DEF ServeConnect, Up, Free
<1>30. ASSUME NEW c \in Clients, ServeDisconnect(c) PROVE Delivery'
  BY <1>30, PaintedSame, Zenon DEF ServeDisconnect, Up, Free
<1>31. CASE CreateWindow
  BY <1>31, PaintedSame, Zenon DEF CreateWindow, Up, Free
<1>32. CASE ReadSignal
  BY <1>32, PaintedSame, Zenon DEF ReadSignal, Up, Free
<1>33. CASE SignalClosed
  BY <1>33, PaintedSame, Zenon DEF SignalClosed, Up, SendCloseEvent, Free, Rundown
<1>34. CASE ReadInput
  BY <1>34, PaintedSame, Zenon DEF ReadInput, Up, Free
<1>35. CASE InputClosed
  BY <1>35, PaintedSame, Zenon DEF InputClosed, Up, SendCloseEvent, Free, Rundown
<1>36. CASE PaintFrame
  BY <1>36, PaintedSame, Zenon DEF PaintFrame, Up, Free
<1>37. CASE FlushFrame
  <2>1. /\ UNCHANGED <<hpc, crashes, host, linked, inited, got, shown, written, out>>
        /\ Flush(Frame(written)) /\ host = "up"
    BY <1>37, Zenon DEF FlushFrame, Up
  <2>2. hpc => Painted'
    <3>1. ASSUME hpc PROVE outQ' = Append(outQ, Frame(written))
      BY <2>1, <3>1, Zenon DEF Flush
    <3>2. Frame(written) \in Chunks /\ Frame(written).kind = "frame"
      BY ChunkTypes, Zenon DEF Frame
    <3>3. \A known : Newest(Append(outQ, Frame(written)), "frame", Frame(written), known)
      BY <3>2, NewestAppended
    <3> QED BY <2>1, <3>1, <3>3, Zenon DEF Painted
  <2> QED BY <2>1, <2>2, Zenon
<1>38. CASE LastFrame
  BY <1>38, PaintedSame, Zenon DEF LastFrame, Up, Free
<1>39. CASE LastFlush
  <2>1. /\ UNCHANGED <<hpc, crashes, host, linked, inited, got, shown, written, out>>
        /\ Flush(Frame(written)) /\ host = "up"
    BY <1>39, Zenon DEF LastFlush, Up
  <2>2. hpc => Painted'
    <3>1. ASSUME hpc PROVE outQ' = Append(outQ, Frame(written))
      BY <2>1, <3>1, Zenon DEF Flush
    <3>2. Frame(written) \in Chunks /\ Frame(written).kind = "frame"
      BY ChunkTypes, Zenon DEF Frame
    <3>3. \A known : Newest(Append(outQ, Frame(written)), "frame", Frame(written), known)
      BY <3>2, NewestAppended
    <3> QED BY <2>1, <3>1, <3>3, Zenon DEF Painted
  <2> QED BY <2>1, <2>2, Zenon
<1>40. CASE Exit
  BY <1>40, PaintedSame, Zenon DEF Exit, Up, HostEnds, NewThreads, NewConsole
<1>41. ASSUME NEW c \in Clients, ServeWrite(c) PROVE Delivery'
  <2>1. /\ UNCHANGED <<hpc, crashes, host, linked, inited, end, out>>
        /\ dirty' = TRUE /\ io = "read" /\ host = "up"
    BY <1>41, Zenon DEF ServeWrite, Up
  <2>2. hpc => end = "none"
    BY <2>1, Zenon
  <2> QED BY <2>1, <2>2, Zenon
<1>42. ASSUME NEW c \in Clients, Spawn(c) PROVE Delivery'
  BY <1>42, PaintedSame, Zenon DEF Spawn, Up
<1>43. ASSUME NEW c \in Clients, ClientExits(c) PROVE Delivery'
  BY <1>43, PaintedSame, Zenon DEF ClientExits
<1>44. CASE Crash
  BY <1>44, PaintedSame DEF Crash, Up, HostEnds, NewThreads, NewConsole
<1>45. CASE UNCHANGED vars
  BY <1>45, PaintedSame, Zenon DEF vars
<1> QED BY <1>1, <1>2, <1>3, <1>4, <1>5, <1>6, <1>7, <1>8, <1>9, <1>10, <1>11,
   <1>12, <1>13, <1>14, <1>15, <1>16, <1>17, <1>18, <1>19, <1>20, <1>21, <1>22,
   <1>23, <1>24, <1>25, <1>26, <1>27, <1>28, <1>29, <1>30, <1>31, <1>32, <1>33,
   <1>34, <1>35, <1>36, <1>37, <1>38, <1>39, <1>40, <1>41, <1>42, <1>43, <1>44,
   <1>45, ZenonT(30) DEF Next, UserStep, UiStep, OutputStep, ServeStep, SignalStep,
   InputStep, PaintStep, EndStep, ClientStep

\* Told depends on the signal pipe and on the two ends.
LEMMA ToldSame ==
  ASSUME NEW k, sigPipe' = sigPipe, want'[k] = want[k], linked' <=> linked,
         early'[k] = early[k], live'[k] = live[k]
  PROVE  Told(k)' <=> Told(k)
  BY Zenon DEF Told

\* A packet sent is the newest one, and the others stay the newest.
LEMMA ToldSent ==
  ASSUME TypeOK, host = "up", NEW j \in Settings \cup {"clear"}, NEW v \in {0, 1},
         Send(<<Packet(j, v)>>), UNCHANGED <<linked, early, live>>,
         NEW k \in Settings,
         j = k => want'[k] = v,
         j # k => want'[k] = want[k] /\ Told(k)
  PROVE  Told(k)'
<1>1. Packet(j, v) \in Packets /\ Packet(j, v).kind = j
  BY Zenon DEF Packet, Packets
<1>2. sigPipe \in Seq(Packets)
  BY Zenon DEF TypeOK
<1>3. sigPipe' = Append(sigPipe, Packet(j, v))
  BY <1>1, <1>2 DEF Send
<1>4. CASE j = k
  <2>1. \A known : Newest(Append(sigPipe, Packet(j, v)), j, Packet(j, v), known)
    BY <1>1, <1>2, NewestAppended, Zenon
  <2> QED BY <1>3, <1>4, <2>1, Zenon DEF Told
<1>5. CASE j # k
  <2>1. Newest(Append(sigPipe, Packet(j, v)), k, Packet(k, want[k]),
               IF ~linked /\ early[k] # None THEN early[k] = want[k]
                                             ELSE live[k] = want[k])
    BY <1>1, <1>2, <1>5, NewestPassed, Zenon DEF Told
  <2> QED BY <1>3, <1>5, <2>1, Zenon DEF Told
<1> QED BY <1>4, <1>5, Zenon

\* A packet that the host has read is known to it.
LEMMA ToldRead ==
  ASSUME TypeOK, ReadSignal, NEW k \in Settings, Told(k)
  PROVE  Told(k)'
<1> DEFINE m == Head(sigPipe)
           known == IF ~linked /\ early[k] # None THEN early[k] = want[k]
                                                  ELSE live[k] = want[k]
           after == IF ~linked /\ early'[k] # None THEN early'[k] = want[k]
                                                   ELSE live'[k] = want[k]
<1>1. /\ sigPipe # <<>> /\ sigPipe \in Seq(Packets)
      /\ sigPipe' = Tail(sigPipe) /\ want' = want /\ linked' = linked
  BY Zenon DEF ReadSignal, TypeOK, terminal, call
<1>2. m \in Packets
  BY <1>1
<1>3. m.kind \in Settings \cup {"clear"} /\ m.value \in {0, 1}
  BY <1>2, Zenon DEF Packets
<1>4. m = Packet(k, want[k]) => m.kind = k /\ m.value = want[k]
  BY DEF Packet
<1>5. m.kind # k => early'[k] = early[k] /\ live'[k] = live[k]
  BY <1>3, Zenon DEF ReadSignal, TypeOK
<1>6. m.kind = k => IF linked THEN live'[k] = m.value ELSE early'[k] = m.value
  BY <1>3, Zenon DEF ReadSignal, TypeOK, Settings
<1>7. /\ m.kind = k /\ m = Packet(k, want[k]) => after
      /\ m.kind # k /\ known => after
  <2> HIDE DEF m
  <2> QED BY <1>3, <1>4, <1>5, <1>6 DEF None
<1>8. Newest(sigPipe, k, Packet(k, want[k]), known)
  BY Zenon DEF Told
<1>9. Packet(k, want[k]).kind = k
  BY Zenon DEF Packet
<1>10. Newest(Tail(sigPipe), k, Packet(k, want[k]), after)
  <2> HIDE DEF known, after
  <2> QED BY <1>1, <1>7, <1>8, <1>9, NewestTaken, Zenon
<1> QED BY <1>1, <1>10, Zenon DEF Told

\* ConnectConsole takes over what came early.
LEMMA ToldConnected ==
  ASSUME ConnectConsole, ~linked, UNCHANGED <<sigPipe, want, early>>,
         NEW k \in {"size", "show"}, Told(k)
  PROVE  Told(k)'
  BY Zenon DEF ConnectConsole, Told, Settings

\* A new host is created with the size, and told the rest; one that is
\* there already is told everything.
LEMMA ToldFirst ==
  ASSUME TypeOK, NEW all \in BOOLEAN, sigPipe' = InitialPackets(all),
         want' = want,
         NEW k \in {"size", "show"}, conn[k] = want[k], early'[k] = None,
         live'[k] = IF k = "size" /\ ~all THEN conn["size"] ELSE 0
  PROVE  Told(k)'
<1> DEFINE P(j) == Packet(j, conn[j])
           s0 == << >>
           s1 == IF all THEN Append(s0, P("size")) ELSE s0
           s2 == IF all \/ conn["owner"] # 0 THEN Append(s1, P("owner")) ELSE s1
           s3 == IF conn["show"] # 0 THEN Append(s2, P("show")) ELSE s2
           known == live'[k] = want[k]
<1>1. \A j \in Settings : P(j) \in Packets /\ P(j).kind = j
  BY Zenon DEF TypeOK, Packet, Packets
<1>2. P("size") \in Packets /\ P("owner") \in Packets /\ P("show") \in Packets
      /\ P("size").kind = "size" /\ P("owner").kind = "owner"
      /\ P("show").kind = "show"
  BY <1>1, Zenon DEF Settings
<1> HIDE DEF P
<1>3. /\ s0 \in Seq(Packets) /\ s1 \in Seq(Packets) /\ s2 \in Seq(Packets)
      /\ s3 \in Seq(Packets)
  BY <1>2
<1>4. sigPipe' = s3
  <2>1. \A x \in Packets : \A s \in Seq(Packets) : /\ s \o <<x>> = Append(s, x)
                                                   /\ s \o << >> = s
    OBVIOUS
  <2>2. sigPipe' = ((IF all THEN <<P("size")>> ELSE <<>>)
                     \o (IF all \/ conn["owner"] # 0 THEN <<P("owner")>> ELSE <<>>))
                   \o (IF conn["show"] # 0 THEN <<P("show")>> ELSE <<>>)
    BY Zenon DEF InitialPackets, P
  <2>3. (IF all THEN <<P("size")>> ELSE <<>>) = s1
    BY <1>2
  <2>4. (s1 \o (IF all \/ conn["owner"] # 0 THEN <<P("owner")>> ELSE <<>>)) = s2
    <3> HIDE DEF s1
    <3> QED BY <1>2, <1>3, <2>1, Zenon
  <2>5. (s2 \o (IF conn["show"] # 0 THEN <<P("show")>> ELSE <<>>)) = s3
    <3> HIDE DEF s2
    <3> QED BY <1>2, <1>3, <2>1, Zenon
  <2> HIDE DEF s1, s2, s3
  <2> QED BY <2>2, <2>3, <2>4, <2>5, Zenon
<1>5. Newest(s3, k, P(k), known)
  <2>1. \A x : Newest(s0, x, P(k), known) <=> known
    BY DEF Newest, Has
  <2>2. CASE k = "size"
    <3>1. Newest(s1, "size", P("size"), known)
      <4>1. CASE all
        <5>1. Newest(Append(s0, P("size")), "size", P("size"), known)
          <6> HIDE DEF s0, known
          <6> QED BY <1>2, <1>3, NewestAppended, Zenon
        <5> QED BY <4>1, <5>1, Zenon
      <4>2. CASE ~all
        BY <4>2, <2>1, <2>2, Zenon
      <4> QED BY <4>1, <4>2, Zenon
    <3>2. Newest(s2, "size", P("size"), known)
      <4> HIDE DEF s1
      <4> QED BY <3>1, <1>2, <1>3, NewestPassed, Zenon
    <3>3. Newest(s3, "size", P("size"), known)
      <4> HIDE DEF s2
      <4> QED BY <3>2, <1>2, <1>3, NewestPassed, Zenon
    <3> QED BY <2>2, <3>3, Zenon
  <2>3. CASE k = "show"
    <3>1. CASE conn["show"] # 0
      <4> HIDE DEF s2
      <4>1. Newest(Append(s2, P("show")), "show", P("show"), known)
        BY <1>2, <1>3, NewestAppended
      <4> QED BY <2>3, <3>1, <4>1, Zenon
    <3>2. CASE conn["show"] = 0
      <4>1. Newest(s0, "show", P("show"), known)
        BY <2>1, <2>3, <3>2, Zenon
      <4>2. Newest(s1, "show", P("show"), known)
        <5> HIDE DEF s0
        <5> QED BY <4>1, <1>2, <1>3, NewestPassed, Zenon
      <4>3. Newest(s2, "show", P("show"), known)
        <5> HIDE DEF s1
        <5> QED BY <4>2, <1>2, <1>3, NewestPassed, Zenon
      <4> HIDE DEF s2
      <4> QED BY <2>3, <3>2, <4>3, Zenon
    <3> QED BY <3>1, <3>2, Zenon
  <2> QED BY <2>2, <2>3, Zenon
<1> HIDE DEF s3
<1> QED BY <1>4, <1>5, Zenon DEF Told, P

\* Each step leaves the settings on their way, or known to the host.
LEMMA SignalledStep ==
  TypeOK /\ Threads /\ Held /\ Serving /\ Sessions /\ Signalled /\ [Next]_vars => Signalled'
<1> SUFFICES ASSUME TypeOK, Threads, Held, Serving, Sessions, Signalled, [Next]_vars
             PROVE  Signalled'
  BY Zenon
<1> USE DEF call, reader, handles, pipes, server, threads, console, paint,
   guests, terminal
<1> USE DEF TypeOK, Threads, Held, Serving, Sessions, Signalled, Running, Kept,
   States, NotConnected, Connecting, Connected, Closing, Closed, Failed
<1>1. CASE Start
  BY <1>1, ToldSame DEF Start, Go
<1>2. CASE Close
  BY <1>2, ToldSame DEF Close, Go, Toward
<1>3. CASE Resize
  <2>1. PICK v \in {0, 1} :
          /\ Send(IF state = Connected THEN <<Packet("size", v)>> ELSE <<>>)
          /\ conn' = [conn EXCEPT !["size"] = v]
          /\ want' = [want EXCEPT !["size"] = v]
    BY <1>3, Zenon DEF Resize
  <2>2. /\ ui = "idle"
        /\ UNCHANGED <<state, ui, session, inPipe, host, linked, early, live>>
    BY <1>3, Zenon DEF Resize, Op
  <2>3. state # Connected => sigPipe' = sigPipe
    BY <2>1 DEF Send
  <2>4. ASSUME state = Connected, host = "up", NEW k \in Kept PROVE Told(k)'
    <3>1. /\ Send(<<Packet("size", v)>>) /\ k \in Settings /\ Told(k)
          /\ k = "size" => want'[k] = v
          /\ k # "size" => want'[k] = want[k]
      BY <2>1, <2>2, <2>4, Zenon DEF Settings
    <3> QED BY <2>2, <2>4, <3>1, ToldSent, Zenon DEF Settings
  <2> QED BY <2>1, <2>2, <2>3, <2>4 DEF Settings
<1>4. CASE ShowHide
  <2>1. PICK v \in {0, 1} :
          /\ Send(IF state = Connected THEN <<Packet("show", v)>> ELSE <<>>)
          /\ conn' = (IF state = Connected THEN conn ELSE [conn EXCEPT !["show"] = v])
          /\ want' = [want EXCEPT !["show"] = v]
    BY <1>4, Zenon DEF ShowHide
  <2>2. /\ ui = "idle"
        /\ UNCHANGED <<state, ui, session, inPipe, host, linked, early, live>>
    BY <1>4, Zenon DEF ShowHide, Op
  <2>3. state # Connected => sigPipe' = sigPipe
    BY <2>1 DEF Send
  <2>4. ASSUME state = Connected, host = "up", NEW k \in Kept PROVE Told(k)'
    <3>1. /\ Send(<<Packet("show", v)>>) /\ k \in Settings /\ Told(k)
          /\ k = "show" => want'[k] = v
          /\ k # "show" => want'[k] = want[k]
      BY <2>1, <2>2, <2>4, Zenon DEF Settings
    <3> QED BY <2>2, <2>4, <3>1, ToldSent, Zenon DEF Settings
  <2> QED BY <2>1, <2>2, <2>3, <2>4 DEF Settings
<1>5. CASE ReparentWindow
  <2>1. PICK v \in {0, 1} :
          /\ Send(IF state = Connected THEN <<Packet("owner", v)>> ELSE <<>>)
          /\ conn' \in {conn, [conn EXCEPT !["owner"] = v]}
          /\ want' \in {want, [want EXCEPT !["owner"] = v]}
    BY <1>5, Zenon DEF ReparentWindow
  <2>2. /\ ui = "idle"
        /\ UNCHANGED <<state, ui, session, inPipe, host, linked, early, live>>
    BY <1>5, Zenon DEF ReparentWindow, Op
  <2>3. state # Connected => sigPipe' = sigPipe
    BY <2>1 DEF Send
  <2>4. ASSUME state = Connected, host = "up", NEW k \in Kept PROVE Told(k)'
    <3>1. /\ Send(<<Packet("owner", v)>>) /\ k \in Settings /\ Told(k)
          /\ k # "owner" /\ want'[k] = want[k]
      BY <2>1, <2>2, <2>4, Zenon DEF Settings
    <3> QED BY <2>2, <2>4, <3>1, ToldSent DEF Settings
  <2> QED BY <2>1, <2>2, <2>3, <2>4 DEF Settings
<1>6. CASE ClearBuffer
  <2>1. /\ Send(<<Packet("clear", 0)>>) /\ state = Connected /\ ui = "idle"
        /\ UNCHANGED <<state, ui, session, conn, want, inPipe, host, linked, early, live>>
    BY <1>6, Zenon DEF ClearBuffer, Op
  <2>2. ASSUME host = "up", NEW k \in Kept PROVE Told(k)'
    <3>1. k \in Settings /\ Told(k) /\ k # "clear"
      BY <2>1, <2>2, Zenon DEF Settings
    <3> QED BY <2>1, <2>2, <3>1, ToldSent, Zenon DEF Settings
  <2> QED BY <2>1, <2>2
<1>7. CASE WriteInput
  BY <1>7, ToldSame, Zenon DEF WriteInput, Op
<1>8. CASE CreateHost
  <2>1. /\ ui = "create" /\ ui' = "launch" /\ state # NotConnected
        /\ sigPipe' = InitialPackets(FALSE) /\ linked' = FALSE
        /\ UNCHANGED <<state, session, conn, want>>
    BY <1>8, Zenon DEF CreateHost, Go
  <2>2. /\ \A k \in Settings : early'[k] = None
        /\ live'["size"] = conn["size"] /\ live'["show"] = 0
    BY <1>8, Zenon DEF CreateHost, NewConsole, Settings
  <2>3. \A k \in Kept : Told(k)'
    BY <2>1, <2>2, ToldFirst, Zenon DEF Settings
  <2> QED BY <2>1, <2>3, Zenon
<1>9. CASE AdoptHost
  <2>1. /\ ui = "create" /\ ui' = "thread" /\ state # NotConnected /\ host = "up"
        /\ inPipe /\ sigPipe' = sigPipe \o InitialPackets(TRUE)
        /\ UNCHANGED <<state, session, conn, want, linked, early, live>>
    BY <1>9, Zenon DEF AdoptHost, Go, Send
  <2>2. /\ sigPipe = <<>>
        /\ \A k \in Settings : live[k] = 0 /\ early[k] = None
    BY <2>1, Zenon
  <2>3. sigPipe' = InitialPackets(TRUE)
    <3>1. InitialPackets(TRUE) \in Seq(Packets)
      BY InitialType, Zenon
    <3> QED BY <2>1, <2>2, <3>1
  <2>4. \A k \in Kept : Told(k)'
    BY <2>1, <2>2, <2>3, ToldFirst, Zenon DEF Settings
  <2> QED BY <2>1, <2>4, Zenon
<1>10. CASE Launch
  BY <1>10, ToldSame, Zenon DEF Launch, Go
<1>11. CASE StartReading
  BY <1>11, ToldSame, Zenon DEF StartReading, Go
<1>12. CASE Connect
  BY <1>12, ToldSame DEF Connect, Go, Toward
<1>13. CASE StartFailed
  BY <1>13, ToldSame DEF StartFailed, Toward
<1>14. CASE Wait
  BY <1>14, ToldSame, Zenon DEF Wait, Go
<1>15. CASE Clean
  BY <1>15, ToldSame DEF Clean, Go, Toward
<1>16. CASE Restart
  BY <1>16, ToldSame DEF Restart, Go
<1>17. CASE ReadFile
  BY <1>17, ToldSame, Zenon DEF ReadFile, Move
<1>18. CASE ReadReturns
  BY <1>18, ToldSame, Zenon DEF ReadReturns
<1>19. CASE Handle
  BY <1>19, ToldSame, Zenon DEF Handle, Move
<1>20. CASE Answer
  BY <1>20, ToldSame, Zenon DEF Answer, Move
<1>21. CASE Report
  BY <1>21, ToldSame DEF Report, Move, Toward
<1>22. CASE Message
  BY <1>22, ToldSame, Zenon DEF Message, Move
<1>23. CASE Boot
  BY <1>23, ToldSame, Zenon DEF Boot, Up
<1>24. CASE WindowCreated
  BY <1>24, ToldSame, Zenon DEF WindowCreated, Up, Free
<1>25. CASE RequestMode
  <2>1. /\ UNCHANGED <<state, ui, session, conn, want, inPipe, host, sigPipe, early>>
        /\ host = "up" /\ ~linked
    BY <1>25, Zenon DEF RequestMode, Up
  <2>2. CASE UNCHANGED <<linked, live>>
    BY <2>1, <2>2, ToldSame, Zenon
  <2>3. CASE ConnectConsole
    <3>1. \A k \in Kept : Told(k) => Told(k)'
      BY <2>1, <2>3, ToldConnected, Zenon
    <3>2. (\A k \in Settings : live[k] = 0 /\ early[k] = None)
             => \A k \in Settings : live'[k] = 0
      BY <2>3, Zenon DEF ConnectConsole
    <3> QED BY <2>1, <3>1, <3>2, Zenon
  <2> QED BY <1>25, <2>2, <2>3, Zenon DEF RequestMode
<1>26. CASE RequestCursor
  BY <1>26, ToldSame, Zenon DEF RequestCursor, Up, Flush
<1>27. CASE LookForCursor
  <2>1. /\ UNCHANGED <<state, ui, session, conn, want, inPipe, host, sigPipe, early>>
        /\ host = "up" /\ ~linked
    BY <1>27, Zenon DEF LookForCursor, Up
  <2>2. CASE UNCHANGED <<linked, live>>
    BY <2>1, <2>2, ToldSame, Zenon
  <2>3. CASE ConnectConsole
    <3>1. \A k \in Kept : Told(k) => Told(k)'
      BY <2>1, <2>3, ToldConnected, Zenon
    <3>2. (\A k \in Settings : live[k] = 0 /\ early[k] = None)
             => \A k \in Settings : live'[k] = 0
      BY <2>3, Zenon DEF ConnectConsole
    <3> QED BY <2>1, <3>1, <3>2, Zenon
  <2> QED BY <1>27, <2>2, <2>3, Zenon DEF LookForCursor
<1>28. CASE ServeEnd
  BY <1>28, ToldSame, Zenon DEF ServeEnd, Up, Rundown
<1>29. ASSUME NEW c \in Clients, ServeConnect(c) PROVE Signalled'
  BY <1>29, ToldSame, Zenon DEF ServeConnect, Up, Free
<1>30. ASSUME NEW c \in Clients, ServeDisconnect(c) PROVE Signalled'
  BY <1>30, ToldSame, Zenon DEF ServeDisconnect, Up, Free
<1>31. CASE CreateWindow
  BY <1>31, ToldSame DEF CreateWindow, Up, Free
<1>32. CASE ReadSignal
  <2>1. UNCHANGED <<state, ui, session, conn, want, inPipe, host>>
        /\ sigPipe # <<>> /\ host = "up"
    BY <1>32, Zenon DEF ReadSignal, Up
  <2>2. \A k \in Kept : Told(k) => Told(k)'
    BY <1>32, ToldRead, Zenon DEF Settings
  <2> QED BY <2>1, <2>2, Zenon
<1>33. CASE SignalClosed
  BY <1>33, ToldSame, Zenon DEF SignalClosed, Up, SendCloseEvent, Free, Rundown
<1>34. CASE ReadInput
  BY <1>34, ToldSame, Zenon DEF ReadInput, Up, Free
<1>35. CASE InputClosed
  BY <1>35, ToldSame, Zenon DEF InputClosed, Up, SendCloseEvent, Free, Rundown
<1>36. CASE PaintFrame
  BY <1>36, ToldSame, Zenon DEF PaintFrame, Up, Free
<1>37. CASE FlushFrame
  BY <1>37, ToldSame, Zenon DEF FlushFrame, Up, Flush
<1>38. CASE LastFrame
  BY <1>38, ToldSame, Zenon DEF LastFrame, Up, Free
<1>39. CASE LastFlush
  BY <1>39, ToldSame, Zenon DEF LastFlush, Up, Flush
<1>40. CASE Exit
  BY <1>40, ToldSame, Zenon DEF Exit, Up, HostEnds, NewThreads, NewConsole
<1>41. ASSUME NEW c \in Clients, ServeWrite(c) PROVE Signalled'
  BY <1>41, ToldSame, Zenon DEF ServeWrite, Up, Free
<1>42. ASSUME NEW c \in Clients, Spawn(c) PROVE Signalled'
  BY <1>42, ToldSame, Zenon DEF Spawn, Up
<1>43. ASSUME NEW c \in Clients, ClientExits(c) PROVE Signalled'
  BY <1>43, ToldSame, Zenon DEF ClientExits
<1>44. CASE Crash
  BY <1>44, ToldSame, Zenon DEF Crash, Up, HostEnds, NewThreads, NewConsole
<1>45. CASE UNCHANGED vars
  BY <1>45, ToldSame, Zenon DEF vars
<1> QED BY <1>1, <1>2, <1>3, <1>4, <1>5, <1>6, <1>7, <1>8, <1>9, <1>10, <1>11,
   <1>12, <1>13, <1>14, <1>15, <1>16, <1>17, <1>18, <1>19, <1>20, <1>21, <1>22,
   <1>23, <1>24, <1>25, <1>26, <1>27, <1>28, <1>29, <1>30, <1>31, <1>32, <1>33,
   <1>34, <1>35, <1>36, <1>37, <1>38, <1>39, <1>40, <1>41, <1>42, <1>43, <1>44,
   <1>45, Zenon DEF Next, UserStep, UiStep, OutputStep, ServeStep, SignalStep,
   InputStep, PaintStep, EndStep, ClientStep

-----------------------------------------------------------------------------
(* The theorems.                                                           *)

\* The initial states satisfy the invariant.
LEMMA InitHolds == Init => IInv
<1> SUFFICES ASSUME Init PROVE IInv
  BY Zenon
<1> USE DEF Init
<1>1. TypeOK
  BY ChunkTypes DEF TypeOK, States, NotConnected, Failed
<1>2. Threads
  BY Zenon DEF Threads, Query
<1>3. Held
  BY Zenon DEF Held
<1>4. Serving
  BY Zenon DEF Serving
<1>5. Delivery
  <2>1. Painted
    BY DEF Painted, Newest, Has, Query
  <2> QED BY <2>1, Zenon DEF Delivery
<1>6. Sessions
  BY Zenon DEF Sessions
<1>7. Signalled
  BY DEF Signalled, Running, Settings, NotConnected, Connected
<1> QED BY <1>1, <1>2, <1>3, <1>4, <1>5, <1>6, <1>7, Zenon DEF IInv

\* The inductive invariant holds in every state.
THEOREM Invariance == Spec => []IInv
<1>1. Init => IInv
  BY InitHolds, Zenon
<1>2. IInv /\ [Next]_vars => IInv'
  BY TypeStep, ThreadsStep, HeldStep, ServingStep, DeliveryStep, SessionsStep,
     SignalledStep, Zenon DEF IInv
<1> QED BY <1>1, <1>2, PTL DEF Spec

\* Close() returns only when the output thread has ended, and no session
\* begins before.
THEOREM ClosedQuiet == Spec => []NoCallAfterClose
<1>1. IInv => NoCallAfterClose
  BY Zenon DEF IInv, Threads, NoCallAfterClose
<1> QED BY <1>1, Invariance, PTL

\* All that the clients wrote has reached the terminal when the output thread
\* finds the pipe broken.
THEOREM OutputDelivered == Spec => []OutputComplete
<1>1. IInv => OutputComplete
  BY Zenon DEF IInv, Delivery, OutputComplete
<1> QED BY <1>1, Invariance, PTL

\* A host that has read all its signals has the settings of the connection.
THEOREM SettingsDelivered == Spec => []SettingsArrive
<1>1. IInv => SettingsArrive
  <2> SUFFICES ASSUME IInv, state = Connected, host = "up", linked, sigPipe = <<>>,
                      NEW k \in {"size"} \cup (IF session = 1 THEN {"show"} ELSE {})
               PROVE  live[k] = want[k]
    BY Zenon DEF SettingsArrive
  <2>1. Told(k)
    BY DEF IInv, Signalled, Running, Kept
  <2> QED BY <2>1 DEF Told, Newest, Has
<1> QED BY <1>1, Invariance, PTL
=============================================================================
