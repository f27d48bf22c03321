-------------------------- MODULE CoalescingProofs --------------------------
(***************************************************************************)
(* Two mechanisms that let many requests share one execution: throttled    *)
(* functions (ThrottledFunc) and the render thread (RenderThread).  Of     *)
(* both the question is whether a request can fall between two executions. *)
(*                                                                         *)
(* ThrottledFunc: for any finite set of callers, any flavours and any      *)
(* number of calls.  Each invariant of the runs is strengthened to say     *)
(* where the one cycle is and what the place means for the count of runs;  *)
(* IInv is their conjunction.  RenderThread: for any notifiers; RenderInv  *)
(* adds where the thread can be while painting is off.                     *)
(***************************************************************************)
EXTENDS ThrottledFunc, RenderThread, FiniteSetTheorems, TLAPS

Busy == {c \in Callers : caller[c] \in {"edge", "func"}}

\* The cycle, once its caller has left.
Handed == (IF timer THEN 1 ELSE 0) + queued + entered + lambdas
            + (IF leading /\ disp = "func" THEN 1 ELSE 0)

\* Where the cycle is: with one caller, handed on, or nowhere.
Carried ==
    owner = "open" =>
      /\ lost => pending # None
      /\ IF pending # None /\ ~lost
         THEN \/ Handed = 1 /\ Busy = {}
              \/ Handed = 0 /\ \E c \in Callers : Busy = {c}
         ELSE Handed = 0 /\ Busy = {}

\* What the place of the cycle means for the runs: a leading function has run
\* and waits for its timer, a trailing one has been timed and waits for its run.
Ahead == timer \/ disp = "func" \/ \E c \in Callers : caller[c] = "func"
Behind == queued + entered + lambdas > 0
Rated ==
    owner = "open" =>
      IF lost THEN starts - expiries \in (IF leading THEN {0, 1} ELSE {0, -1})
      ELSE starts - expiries = IF leading THEN (IF Ahead THEN 1 ELSE 0)
                               ELSE (IF Behind THEN -1 ELSE 0)

\* A trailing function has the latest arguments before it or behind it, and
\* flush() leaves none before it.
Latest ==
    ~leading =>
      /\ pending # None => pending = calls
      /\ pending = None => ran = calls
      /\ owner \in {"func", "flushed"} => pending = None

IInv == TypeOK /\ Carried /\ Rated /\ Latest

-----------------------------------------------------------------------------
\* The parts of the type invariant that the leaves use.
LEMMA Types ==
    ASSUME TypeOK
    PROVE  /\ queued \in Nat /\ entered \in Nat /\ running \in Nat
           /\ lambdas \in Nat /\ starts \in Nat /\ expiries \in Nat
           /\ MaxCalls \in Nat /\ calls \in Nat /\ pending \in Nat /\ ran \in Nat
           /\ pending <= calls /\ ran <= calls
           /\ leading \in BOOLEAN /\ onPool \in BOOLEAN
  BY ThrottledAssumption DEF TypeOK, leading, onPool, None

\* The types through the two helpers of the edges.
LEMMA EnqueueTypes ==
    ASSUME TypeOK, TryEnqueue
    PROVE  lambdas' \in Nat /\ lost' \in BOOLEAN
<1>1. lambdas' \in Nat
  BY Types DEF TryEnqueue
<1>2. lost' \in BOOLEAN
  BY Zenon DEF TryEnqueue
<1> QED BY <1>1, <1>2, Zenon

LEMMA StartTypes ==
    ASSUME TypeOK, StartFunc
    PROVE  starts' \in Nat /\ ran' \in 0 .. calls /\ pending' \in None .. calls
  BY Types DEF StartFunc, None

\* Every operation keeps the types.
LEMMA TypeStep == TypeOK /\ [Next]_vars => TypeOK'
<1> SUFFICES ASSUME TypeOK, [Next]_vars PROVE TypeOK'
  BY Zenon
<1> USE Types, ThrottledAssumption
<1>1. ASSUME NEW c \in Callers, Emplace(c) PROVE TypeOK'
  BY <1>1 DEF TypeOK, Emplace, None
<1>2. CASE ModifyPending
  BY <1>2 DEF TypeOK, ModifyPending, None
<1>3. ASSUME NEW c \in Callers, LeadingEdge(c) PROVE TypeOK'
  <2>1. CASE leading /\ onPool
    BY <1>3, <2>1, StartTypes DEF TypeOK, LeadingEdge
  <2>2. CASE leading /\ ~onPool
    BY <1>3, <2>2, EnqueueTypes, Zenon DEF TypeOK, LeadingEdge
  <2>3. CASE ~leading
    BY <1>3, <2>3, Zenon DEF TypeOK, LeadingEdge
  <2> QED BY <2>1, <2>2, <2>3, Zenon
<1>4. ASSUME NEW c \in Callers, CallerFuncEnds(c) \/ CallerFuncThrows(c) PROVE TypeOK'
  BY <1>4 DEF TypeOK, CallerFuncEnds, CallerFuncThrows
<1>5. CASE Expire
  <2>1. timer' \in BOOLEAN
    BY <1>5, Zenon DEF Expire
  <2>2. /\ queued' \in Nat /\ expiries' \in Nat
        /\ UNCHANGED <<flavour, caller, calls, pending, entered, running, lambdas,
                       disp, open, owner, ran, starts, lost>>
    BY <1>5 DEF Expire
  <2> QED BY <2>1, <2>2, Zenon DEF TypeOK
<1>13. CASE TimerCallback
  BY <1>13 DEF TypeOK, TimerCallback
<1>14. CASE CallbackFuncEnds
  BY <1>14 DEF TypeOK, CallbackFuncEnds
<1>15. CASE ShutDown
  BY <1>15, Zenon DEF TypeOK, ShutDown
<1>11. CASE DispatchFuncEnds
  <2>1. timer' \in BOOLEAN
    BY <1>11, Zenon DEF DispatchFuncEnds
  <2> QED BY <1>11, <2>1, Zenon DEF TypeOK, DispatchFuncEnds
<1>6. CASE TrailingEdge
  <2>1. CASE leading
    BY <1>6, <2>1 DEF TypeOK, TrailingEdge, None
  <2>2. CASE ~leading /\ onPool
    BY <1>6, <2>2, StartTypes DEF TypeOK, TrailingEdge
  <2>3. CASE ~leading /\ ~onPool
    BY <1>6, <2>3, EnqueueTypes DEF TypeOK, TrailingEdge
  <2> QED BY <2>1, <2>2, <2>3, Zenon
<1>7. CASE Dispatch
  BY <1>7 DEF TypeOK, Dispatch, StartFunc, None
<1>8. CASE Flush \/ FlushWaited \/ FlushCheck \/ FlushFuncEnds
  BY <1>8 DEF TypeOK, Flush, FlushWaited, FlushCheck, FlushFuncEnds
<1>12. CASE Destroy \/ Destroyed
  BY <1>12, Zenon DEF TypeOK, Destroy, Destroyed
<1>16. CASE DestroyTimer
  <2>1. timer' \in BOOLEAN
    BY <1>16, Zenon DEF DestroyTimer
  <2>2. /\ queued' \in Nat /\ owner' = "draining"
        /\ UNCHANGED <<flavour, caller, calls, pending, entered, running, lambdas,
                       disp, open, ran, starts, expiries, lost>>
    BY <1>16, Zenon DEF DestroyTimer
  <2> QED BY <2>1, <2>2, Zenon DEF TypeOK
<1>9. CASE FlushEdge
  BY <1>9 DEF TypeOK, FlushEdge, StartFunc, None
<1>10. CASE UNCHANGED vars
  BY <1>10, Zenon DEF TypeOK, vars
<1> QED BY <1>1, <1>2, <1>3, <1>4, <1>5, <1>6, <1>7, <1>8, <1>9, <1>10, <1>11, <1>12, <1>13, <1>14,
           <1>15, <1>16, Zenon
        DEF Next, CallerStep, System, Owner

-----------------------------------------------------------------------------
\* The callers' part of the cycle: only Emplace and the callers' own steps
\* change who is busy.
LEMMA BusyStep ==
    ASSUME TypeOK, NEW c \in Callers, NEW at \in {"idle", "edge", "func"},
           caller' = [caller EXCEPT ![c] = at]
    PROVE  /\ at = "idle" => Busy' = Busy \ {c}
           /\ at # "idle" => Busy' = Busy \cup {c}
           /\ caller[c] # "idle" <=> c \in Busy
  BY Zenon DEF TypeOK, Busy

\* Every operation hands the one cycle on, ends it, or leaves it alone.
LEMMA CarriedStep == TypeOK /\ Carried /\ [Next]_vars => Carried'
<1> SUFFICES ASSUME TypeOK, Carried, [Next]_vars, owner' = "open" PROVE Carried'
  BY Zenon DEF Carried
<1> USE Types DEF None
<1>1. ASSUME NEW c \in Callers, Emplace(c) PROVE Carried'
  <2>1. CASE pending = None
    <3>1. Busy' = Busy \cup {c}
      BY <1>1, <2>1, BusyStep, Zenon DEF Emplace
    <3>2. Handed' = Handed
      BY <1>1, Zenon DEF Emplace, Handed, leading
    <3> QED BY <1>1, <2>1, <3>1, <3>2 DEF Carried, Emplace
  <2>2. CASE pending # None
    <3>1. Busy' = Busy /\ Handed' = Handed
      BY <1>1, <2>2, Zenon DEF Emplace, Busy, Handed, TypeOK, leading
    <3> QED BY <1>1, <2>2, <3>1 DEF Carried, Emplace
  <2> QED BY <2>1, <2>2, Zenon
<1>2. CASE ModifyPending
  <2>1. Busy' = Busy /\ Handed' = Handed
    BY <1>2, Zenon DEF ModifyPending, Busy, Handed, leading
  <2> QED BY <1>2, <2>1 DEF Carried, ModifyPending
<1>3. ASSUME NEW c \in Callers, LeadingEdge(c) PROVE Carried'
  <2>0. c \in Busy /\ owner = "open" /\ Handed = 0 /\ Busy = {c} /\ pending # None /\ ~lost
    BY <1>3, BusyStep, Zenon DEF LeadingEdge, Busy, Carried
  <2>1. CASE leading /\ onPool
    <3>1. Busy' = {c}
      BY <1>3, <2>0, <2>1, BusyStep, Zenon DEF LeadingEdge
    <3>2. Handed' = Handed
      BY <1>3, <2>1 DEF LeadingEdge, Handed, leading
    <3> QED BY <1>3, <2>0, <2>1, <3>1, <3>2, Zenon DEF Carried, LeadingEdge, StartFunc
  <2>2. CASE leading /\ ~onPool
    <3>1. Busy' = {}
      BY <1>3, <2>0, <2>2, BusyStep, Zenon DEF LeadingEdge
    <3>2. Handed' = IF open THEN 1 ELSE 0
      BY <1>3, <2>0, <2>2 DEF LeadingEdge, TryEnqueue, Handed, leading
    <3>3. lost' <=> ~open
      BY <1>3, <2>0, <2>2, Zenon DEF LeadingEdge, TryEnqueue
    <3> QED BY <1>3, <2>0, <2>2, <3>1, <3>2, <3>3, Zenon DEF Carried, LeadingEdge
  <2>3. CASE ~leading
    <3>1. Busy' = {}
      BY <1>3, <2>0, <2>3, BusyStep, Zenon DEF LeadingEdge
    <3>2. Handed' = 1
      BY <1>3, <2>0, <2>3 DEF LeadingEdge, Handed, leading
    <3> QED BY <1>3, <2>0, <2>3, <3>1, <3>2, Zenon DEF Carried, LeadingEdge
  <2> QED BY <2>1, <2>2, <2>3, Zenon
<1>4. ASSUME NEW c \in Callers, CallerFuncEnds(c) \/ CallerFuncThrows(c) PROVE Carried'
  <2>0. c \in Busy /\ owner = "open" /\ Handed = 0 /\ Busy = {c} /\ pending # None /\ ~lost
    BY <1>4, BusyStep, Zenon DEF CallerFuncEnds, CallerFuncThrows, Busy, Carried
  <2>1. Busy' = {}
    BY <1>4, <2>0, BusyStep, Zenon DEF CallerFuncEnds, CallerFuncThrows
  <2>2. CASE CallerFuncEnds(c)
    <3>1. Handed' = 1
      BY <2>0, <2>2 DEF CallerFuncEnds, Handed, leading
    <3> QED BY <2>0, <2>1, <2>2, <3>1, Zenon DEF Carried, CallerFuncEnds
  <2>3. CASE CallerFuncThrows(c)
    <3>1. Handed' = 0
      BY <2>0, <2>3, Zenon DEF CallerFuncThrows, Handed, leading
    <3> QED BY <2>0, <2>1, <2>3, <3>1, Zenon DEF Carried, CallerFuncThrows
  <2> QED BY <1>4, <2>2, <2>3, Zenon
<1>5. CASE Expire \/ TimerCallback \/ CallbackFuncEnds \/ ShutDown \/ UNCHANGED vars
  <2>1. Busy' = Busy /\ UNCHANGED <<owner, pending, lost>>
    BY <1>5, Zenon DEF Expire, TimerCallback, CallbackFuncEnds, ShutDown, vars, Busy
  <2>2. Handed' = Handed
    BY <1>5 DEF Expire, TimerCallback, CallbackFuncEnds, ShutDown, vars, Handed, leading
  <2> QED BY <2>1, <2>2, Zenon DEF Carried
<1>6. CASE TrailingEdge
  <2>3. Busy' = Busy /\ owner = "open" /\ entered > 0
    BY <1>6, Zenon DEF TrailingEdge, Busy
  <2>4. Handed > 0
    BY <2>3 DEF Handed
  <2>5. Busy = {} /\ Handed = 1 /\ pending # None /\ ~lost
    BY <2>3, <2>4 DEF Carried
  <2>6. ~timer /\ lambdas = 0 /\ queued = 0 /\ entered = 1 /\ ~(leading /\ disp = "func")
    BY <2>3, <2>5 DEF Handed
  <2>0. /\ Busy' = {} /\ owner = "open" /\ pending # None /\ ~lost
        /\ ~timer /\ lambdas = 0 /\ queued = 0 /\ entered = 1 /\ ~(leading /\ disp = "func")
    BY <2>3, <2>5, <2>6, Zenon
  <2>1. CASE leading \/ onPool
    <3>1. pending' = None /\ lost' = lost
      BY <1>6, <2>1, Zenon DEF TrailingEdge, StartFunc
    <3>2. Handed' = 0
      BY <1>6, <2>0, <2>1 DEF TrailingEdge, Handed, leading
    <3> QED BY <2>0, <3>1, <3>2, Zenon DEF Carried
  <2>2. CASE ~leading /\ ~onPool
    <3>1. pending' = pending /\ (lost' <=> ~open)
      BY <1>6, <2>0, <2>2, Zenon DEF TrailingEdge, TryEnqueue
    <3>2. Handed' = IF open THEN 1 ELSE 0
      BY <1>6, <2>0, <2>2 DEF TrailingEdge, TryEnqueue, Handed, leading
    <3> QED BY <2>0, <3>1, <3>2, Zenon DEF Carried
  <2> QED BY <2>1, <2>2, Zenon
<1>7. CASE Dispatch
  <2>3. Busy' = Busy /\ owner = "open" /\ lambdas > 0
    BY <1>7, Zenon DEF Dispatch, Busy
  <2>4. Handed > 0
    BY <2>3 DEF Handed
  <2>5. Busy = {} /\ Handed = 1 /\ pending # None /\ ~lost
    BY <2>3, <2>4 DEF Carried
  <2>6. ~timer /\ lambdas = 1 /\ queued = 0 /\ entered = 0
    BY <2>3, <2>5 DEF Handed
  <2>0. /\ Busy' = {} /\ owner = "open" /\ pending # None /\ ~lost
        /\ ~timer /\ lambdas = 1 /\ queued = 0 /\ entered = 0
    BY <2>3, <2>5, <2>6, Zenon
  <2>1. Handed' = (IF leading THEN 1 ELSE 0) /\ lost' = lost
    BY <1>7, <2>0 DEF Dispatch, Handed, leading
  <2>2. pending' = IF leading THEN pending ELSE None
    BY <1>7, <2>0, Zenon DEF Dispatch, StartFunc
  <2> QED BY <2>0, <2>1, <2>2, Zenon DEF Carried
<1>8. CASE DispatchFuncEnds
  <2>1. Busy' = Busy /\ UNCHANGED <<owner, pending, lost>>
    BY <1>8, Zenon DEF DispatchFuncEnds, Busy
  <2>2. CASE leading
    <3>1. ~timer
      BY <1>8, <2>1, <2>2 DEF DispatchFuncEnds, Carried, Handed
    <3>3. timer' /\ disp = "func" /\ disp' # "func" /\ leading' = leading
          /\ UNCHANGED <<queued, entered, lambdas>>
      BY <1>8, <2>2, Zenon DEF DispatchFuncEnds, leading
    <3>2. Handed' = Handed
      BY <2>2, <3>1, <3>3 DEF Handed
    <3> QED BY <2>1, <3>2, Zenon DEF Carried
  <2>3. CASE ~leading
    <3>1. timer' = timer
      BY <1>8, <2>3, Zenon DEF DispatchFuncEnds, TypeOK
    <3>2. Handed' = Handed
      BY <1>8, <2>3, <3>1, Zenon DEF DispatchFuncEnds, Handed, leading
    <3> QED BY <2>1, <3>2, Zenon DEF Carried
  <2> QED BY <2>2, <2>3, Zenon
<1>9. CASE Owner
  BY <1>9, Zenon DEF Owner, Flush, FlushWaited, FlushCheck, FlushEdge, FlushFuncEnds, Destroy,
                     DestroyTimer, Destroyed
<1> QED BY <1>1, <1>2, <1>3, <1>4, <1>5, <1>6, <1>7, <1>8, <1>9, Zenon
        DEF Next, CallerStep, System

-----------------------------------------------------------------------------
\* A caller in its edge or in _func has the cycle to itself ...
LEMMA WithCaller ==
    ASSUME TypeOK, Carried, owner = "open", NEW c \in Callers, caller[c] # "idle"
    PROVE  /\ ~lost /\ ~timer /\ queued = 0 /\ entered = 0 /\ lambdas = 0
           /\ ~(leading /\ disp = "func")
           /\ \A d \in Callers : d # c => caller[d] = "idle"
<1>1. c \in Busy
  BY Zenon DEF Busy, TypeOK
<1>2. ~lost /\ Handed = 0 /\ Busy = {c}
  BY <1>1, Zenon DEF Carried
<1>3. \A d \in Callers : d # c => caller[d] = "idle"
  BY <1>2, Zenon DEF Busy, TypeOK
<1>4. ~timer /\ queued = 0 /\ entered = 0 /\ lambdas = 0 /\ ~(leading /\ disp = "func")
  BY <1>2, Types DEF Handed
<1> QED BY <1>2, <1>3, <1>4, Zenon

\* ... and so has the timer, its callback, the closure or the dispatcher.
LEMMA WithoutCaller ==
    ASSUME TypeOK, Carried, owner = "open",
           timer \/ queued > 0 \/ entered > 0 \/ lambdas > 0 \/ (leading /\ disp = "func")
    PROVE  /\ ~lost /\ \A d \in Callers : caller[d] = "idle"
           /\ Handed = 1
<1>1. Handed > 0
  BY Types DEF Handed
<1>2. ~lost /\ Handed = 1 /\ Busy = {}
  BY <1>1, Types DEF Carried
<1>3. \A d \in Callers : caller[d] = "idle"
  BY <1>2, Zenon DEF Busy, TypeOK
<1> QED BY <1>2, <1>3, Zenon

\* Runs and expiries alternate along the way of the cycle.
LEMMA RatedStep == TypeOK /\ Carried /\ Rated /\ [Next]_vars => Rated'
<1> SUFFICES ASSUME TypeOK, Carried, Rated, [Next]_vars, owner' = "open" PROVE Rated'
  BY Zenon DEF Rated
<1> USE Types
<1>1. ASSUME NEW c \in Callers, Emplace(c) PROVE Rated'
  <2>1. Ahead' <=> Ahead
    BY <1>1, Zenon DEF Emplace, Ahead, TypeOK
  <2>2. (Behind' <=> Behind) /\ (leading' <=> leading)
    BY <1>1, Zenon DEF Emplace, Behind, leading
  <2> QED BY <1>1, <2>1, <2>2, Zenon DEF Emplace, Rated
<1>2. CASE ModifyPending \/ TimerCallback \/ CallbackFuncEnds \/ ShutDown \/ UNCHANGED vars
  <2>1. UNCHANGED <<starts, expiries, lost, owner, timer, disp, caller, flavour>>
    BY <1>2, Zenon DEF ModifyPending, TimerCallback, CallbackFuncEnds, ShutDown, vars
  <2>2. Behind' <=> Behind
    BY <1>2 DEF ModifyPending, TimerCallback, CallbackFuncEnds, ShutDown, vars, Behind
  <2>3. (Ahead' <=> Ahead) /\ (leading' <=> leading)
    BY <2>1, Zenon DEF Ahead, leading
  <2> QED BY <2>1, <2>2, <2>3, Zenon DEF Rated
<1>3. ASSUME NEW c \in Callers, LeadingEdge(c) PROVE Rated'
  <2>1. /\ owner = "open" /\ ~lost /\ ~timer /\ queued = 0 /\ entered = 0 /\ lambdas = 0
        /\ ~(leading /\ disp = "func")
        /\ \A d \in Callers : caller[d] # "func"
    BY <1>3, WithCaller, Zenon DEF LeadingEdge
  <2>2. starts - expiries = 0
    BY <2>1 DEF Rated, Ahead, Behind
  <2>3. CASE leading /\ onPool
    <3>1. Ahead' /\ leading' /\ ~lost' /\ starts' - expiries' = 1
      BY <1>3, <2>1, <2>2, <2>3 DEF LeadingEdge, StartFunc, Ahead, leading, TypeOK
    <3> QED BY <3>1, Zenon DEF Rated
  <2>4. CASE leading /\ ~onPool
    <3>1. ~Ahead' /\ leading' /\ starts' - expiries' = 0
      BY <1>3, <2>1, <2>2, <2>4, Zenon DEF LeadingEdge, TryEnqueue, Ahead, leading, TypeOK
    <3> QED BY <3>1, Zenon DEF Rated
  <2>5. CASE ~leading
    <3>1. ~Behind' /\ ~leading' /\ ~lost' /\ starts' - expiries' = 0
      BY <1>3, <2>1, <2>2, <2>5 DEF LeadingEdge, Behind, leading
    <3> QED BY <3>1, Zenon DEF Rated
  <2> QED BY <2>3, <2>4, <2>5, Zenon
<1>4. ASSUME NEW c \in Callers, CallerFuncEnds(c) \/ CallerFuncThrows(c) PROVE Rated'
  <2>1. owner = "open" /\ ~lost /\ queued = 0 /\ entered = 0 /\ lambdas = 0
    BY <1>4, WithCaller, Zenon DEF CallerFuncEnds, CallerFuncThrows
  <2>2. starts - expiries = (IF leading THEN 1 ELSE 0) /\ ~Behind
    BY <1>4, <2>1 DEF Rated, Ahead, Behind, CallerFuncEnds, CallerFuncThrows
  <2>3. UNCHANGED <<starts, expiries>> /\ (leading' <=> leading) /\ ~Behind' /\ (lost' \/ Ahead')
    BY <1>4, <2>1 DEF CallerFuncEnds, CallerFuncThrows, leading, Behind, Ahead
  <2> QED BY <2>2, <2>3, Zenon DEF Rated
<1>5. CASE Expire
  <2>1. owner = "open" /\ ~lost /\ timer /\ Handed = 1 /\ \A d \in Callers : caller[d] = "idle"
    BY <1>5, WithoutCaller, Zenon DEF Expire
  <2>2. queued = 0 /\ entered = 0 /\ lambdas = 0 /\ ~(leading /\ disp = "func")
    BY <2>1 DEF Handed
  <2>3. starts - expiries = IF leading THEN 1 ELSE 0
    BY <2>1, <2>2 DEF Rated, Ahead, Behind
  <2>4. /\ starts' = starts /\ expiries' = expiries + 1 /\ (leading' <=> leading)
        /\ Behind' /\ ~lost' /\ (leading => ~Ahead')
    BY <1>5, <2>1, <2>2 DEF Expire, leading, Behind, Ahead
  <2> QED BY <2>3, <2>4 DEF Rated
<1>6. CASE TrailingEdge
  <2>1. owner = "open" /\ ~lost /\ Handed = 1 /\ \A d \in Callers : caller[d] = "idle"
    BY <1>6, WithoutCaller, Zenon DEF TrailingEdge
  <2>2. ~timer /\ queued = 0 /\ entered = 1 /\ lambdas = 0 /\ ~(leading /\ disp = "func")
    BY <1>6, <2>1 DEF Handed, TrailingEdge
  <2>3. starts - expiries = IF leading THEN 0 ELSE -1
    BY <2>1, <2>2 DEF Rated, Ahead, Behind
  <2>4. CASE leading
    <3>1. UNCHANGED <<starts, expiries, timer, disp, caller>> /\ leading'
      BY <1>6, <2>4, Zenon DEF TrailingEdge, leading
    <3> QED BY <2>1, <2>2, <2>3, <2>4, <3>1, Zenon DEF Rated, Ahead
  <2>5. CASE ~leading /\ onPool
    <3>1. starts' = starts + 1 /\ expiries' = expiries /\ ~leading' /\ ~Behind'
      BY <1>6, <2>2, <2>5 DEF TrailingEdge, StartFunc, leading, Behind
    <3> QED BY <2>3, <2>5, <3>1 DEF Rated
  <2>6. CASE ~leading /\ ~onPool
    <3>1. UNCHANGED <<starts, expiries>> /\ ~leading' /\ (open => Behind')
      BY <1>6, <2>2, <2>6 DEF TrailingEdge, TryEnqueue, leading, Behind
    <3>2. ~open => lost'
      BY <1>6, <2>6, Zenon DEF TrailingEdge, TryEnqueue
    <3> QED BY <2>3, <2>6, <3>1, <3>2, Zenon DEF Rated
  <2> QED BY <2>4, <2>5, <2>6, Zenon
<1>7. CASE Dispatch
  <2>1. owner = "open" /\ ~lost /\ Handed = 1 /\ \A d \in Callers : caller[d] = "idle"
    BY <1>7, WithoutCaller, Zenon DEF Dispatch
  <2>2. ~timer /\ queued = 0 /\ entered = 0 /\ lambdas = 1 /\ disp = "idle"
    <3>1. lambdas > 0 /\ disp = "idle"
      BY <1>7, Zenon DEF Dispatch
    <3> QED BY <2>1, <3>1 DEF Handed
  <2>3. starts - expiries = IF leading THEN 0 ELSE -1
    BY <2>1, <2>2 DEF Rated, Ahead, Behind
  <2>4. /\ starts' = starts + 1 /\ expiries' = expiries /\ (leading' <=> leading)
        /\ Ahead' /\ ~Behind' /\ ~lost'
    BY <1>7, <2>1, <2>2 DEF Dispatch, StartFunc, leading, Behind, Ahead
  <2> QED BY <2>3, <2>4 DEF Rated
<1>8. CASE DispatchFuncEnds
  <2>1. /\ UNCHANGED <<starts, expiries, lost, owner>> /\ (leading' <=> leading)
        /\ (Behind' <=> Behind)
    BY <1>8, Zenon DEF DispatchFuncEnds, leading, Behind
  <2>2. leading => Ahead /\ Ahead'
    BY <1>8, Zenon DEF DispatchFuncEnds, Ahead
  <2> QED BY <2>1, <2>2, Zenon DEF Rated
<1>9. CASE Owner
  BY <1>9, Zenon DEF Owner, Flush, FlushWaited, FlushCheck, FlushEdge, FlushFuncEnds, Destroy,
                     DestroyTimer, Destroyed
<1> QED BY <1>1, <1>2, <1>3, <1>4, <1>5, <1>6, <1>7, <1>8, <1>9, Zenon
        DEF Next, CallerStep, System

\* The latest arguments are pending or have been run with.
LEMMA LatestStep == TypeOK /\ Latest /\ [Next]_vars => Latest'
<1> SUFFICES ASSUME TypeOK, Latest, [Next]_vars, ~leading PROVE Latest'
  <2>1. ASSUME NEW c \in Callers, Emplace(c) \/ CallerStep(c) PROVE flavour' = flavour
    BY <2>1, Zenon DEF CallerStep, Emplace, LeadingEdge, CallerFuncEnds, CallerFuncThrows
  <2>2. ASSUME System PROVE flavour' = flavour
    <3>1. CASE TrailingEdge
      BY <3>1, Zenon DEF TrailingEdge
    <3>2. CASE Dispatch
      BY <3>2, Zenon DEF Dispatch
    <3> QED BY <2>2, <3>1, <3>2, Zenon DEF System, Expire, TimerCallback, CallbackFuncEnds,
                                           DispatchFuncEnds
  <2>3. ASSUME Owner PROVE flavour' = flavour
    BY <2>3, Zenon DEF Owner, Flush, FlushWaited, FlushCheck, FlushEdge, FlushFuncEnds,
                       Destroy, DestroyTimer, Destroyed
  <2>4. ASSUME ModifyPending \/ ShutDown \/ UNCHANGED vars PROVE flavour' = flavour
    BY <2>4, Zenon DEF ModifyPending, ShutDown, vars
  <2>5. [Next]_vars => flavour' = flavour
    BY <2>1, <2>2, <2>3, <2>4, Zenon DEF Next
  <2> QED BY <2>5, Zenon DEF Latest, leading
<1> USE Types DEF None
<1>1. ASSUME NEW c \in Callers, Emplace(c) PROVE Latest'
  BY <1>1 DEF Emplace, Latest
<1>2. CASE ModifyPending
  BY <1>2 DEF ModifyPending, Latest
<1>3. ASSUME NEW c \in Callers, LeadingEdge(c) PROVE Latest'
  BY <1>3, Zenon DEF LeadingEdge, Latest
<1>4. ASSUME NEW c \in Callers, CallerFuncEnds(c) \/ CallerFuncThrows(c) PROVE Latest'
  BY <1>4, Zenon DEF CallerFuncEnds, CallerFuncThrows, Latest
<1>5. CASE Expire \/ TimerCallback \/ CallbackFuncEnds \/ DispatchFuncEnds
           \/ ShutDown \/ UNCHANGED vars
  BY <1>5, Zenon DEF Expire, TimerCallback, CallbackFuncEnds, DispatchFuncEnds, ShutDown, vars,
                     Latest
<1>6. CASE TrailingEdge
  BY <1>6, Zenon DEF TrailingEdge, StartFunc, Latest
<1>7. CASE Dispatch
  BY <1>7, Zenon DEF Dispatch, StartFunc, Latest
<1>8. CASE Flush \/ FlushWaited \/ FlushCheck \/ FlushFuncEnds
  BY <1>8, Zenon DEF Flush, FlushWaited, FlushCheck, FlushFuncEnds, Latest
<1>9. CASE FlushEdge
  BY <1>9, Zenon DEF FlushEdge, StartFunc, Latest
<1>10. CASE Destroy \/ DestroyTimer \/ Destroyed
  BY <1>10, Zenon DEF Destroy, DestroyTimer, Destroyed, Latest
<1> QED BY <1>1, <1>2, <1>3, <1>4, <1>5, <1>6, <1>7, <1>8, <1>9, <1>10, Zenon
        DEF Next, CallerStep, System, Owner

-----------------------------------------------------------------------------
LEMMA InitIInv == Init => IInv
<1> SUFFICES ASSUME Init PROVE IInv
  BY Zenon
<1>1. TypeOK
  <2>1. timer \in BOOLEAN /\ open \in BOOLEAN /\ lost \in BOOLEAN
    BY Zenon DEF Init
  <2>2. caller \in [Callers -> {"idle", "edge", "func"}]
    BY Zenon DEF Init
  <2>3. {queued, entered, running, lambdas, starts, expiries} \subseteq Nat
    BY DEF Init
  <2>4. calls \in 0 .. MaxCalls /\ pending \in None .. calls /\ ran \in 0 .. calls
    BY ThrottledAssumption DEF Init, None
  <2> QED BY <2>1, <2>2, <2>3, <2>4, Zenon DEF Init, TypeOK
<1>2. Carried
  BY DEF Init, Carried, Handed, Busy
<1>3. Rated
  BY DEF Init, Rated, Ahead, Behind
<1>4. Latest
  BY Zenon DEF Init, Latest
<1> QED BY <1>1, <1>2, <1>3, <1>4, Zenon DEF IInv

LEMMA Invariance == Spec => []IInv
<1>1. IInv /\ [Next]_vars => IInv'
  BY TypeStep, CarriedStep, RatedStep, LatestStep, Zenon DEF IInv
<1> QED BY <1>1, InitIInv, PTL DEF Spec

\* The counters stay naturals and the pending arguments those of a call.
THEOREM TypeCorrect == Spec => []TypeOK
<1>1. IInv => TypeOK
  BY Zenon DEF IInv
<1> QED BY <1>1, Invariance, PTL

\* However callers, timer, pool and dispatcher interleave, exactly one cycle
\* is under way while arguments are pending, and none otherwise: take() never
\* finds the storage empty.
THEOREM CycleUnique == Spec => []OneCycle
<1>1. ASSUME TypeOK, Carried PROVE OneCycle
  <2>1. Cardinality({}) = 0 /\ \A c \in Callers : Cardinality({c}) = 1
    BY FS_EmptySet, FS_Singleton, Zenon
  <2>2. owner = "open" => Cardinality(Busy) + Handed = IF pending # None /\ ~lost THEN 1 ELSE 0
    BY <1>1, <2>1 DEF Carried
  <2>3. owner = "open" => Cardinality(Busy) \in Nat
    BY <1>1, <2>1 DEF Carried
  <2>4. owner = "open" => Carriers = Cardinality(Busy) + Handed
    BY <1>1, <2>3, Types DEF Carriers, Busy, Handed
  <2> QED BY <2>2, <2>4, Zenon DEF OneCycle
<1> QED BY <1>1, Invariance, PTL DEF IInv

\* The function runs at most once per expiry of the timer.
THEOREM RateHeld == Spec => []RateLimited
<1>1. ASSUME TypeOK, Rated PROVE RateLimited
  BY <1>1, Types, Zenon DEF Rated, RateLimited
<1> QED BY <1>1, Invariance, PTL DEF IInv

\* flush() returns only when the function was started for the latest call.
THEOREM FlushAlwaysRuns == Spec => []FlushRuns
<1>1. ASSUME Latest PROVE FlushRuns
  BY <1>1, Zenon DEF Latest, FlushRuns
<1> QED BY <1>1, Invariance, PTL DEF IInv

-----------------------------------------------------------------------------
(* The render thread.                                                      *)

\* The tries that are left while a frame is painted.
TriesLeft == render \in {"frame", "lock", "paint"} => tries \in 1..MaxTries

\* Painting is disabled from the Disable on until it is enabled again; the one
\* frame that is begun meanwhile takes the thread back to the wait for that.
DisabledWhileQuiet ==
  /\ control = "wait" => ~enabled
  /\ quiet => ~enabled
  /\ ~quiet => frames = 0
  /\ frames # 0 => /\ frames = 1
                   /\ render \in {"frame", "lock", "paint", "end", "loop", "enabled", "ended"}

RenderInv == RenderTypeOK /\ TriesLeft /\ RequestRecorded /\ DisabledWhileQuiet

-----------------------------------------------------------------------------
LEMMA RenderInitially == RenderInit => RenderInv
<1> SUFFICES ASSUME RenderInit PROVE RenderInv
    OBVIOUS
<1>1. RenderTypeOK
  <2>1. tries \in 0..MaxTries /\ frames \in 0..2
    BY DEF RenderInit, MaxTries
  <2>2. notifier \in [Notifiers -> CallerLocs]
    BY DEF RenderInit, CallerLocs
  <2>3. /\ render \in RenderLocs /\ control \in ControlLocs
        /\ lock \in {"none", "render", "control"}
    BY DEF RenderInit, RenderLocs, ControlLocs
  <2>4. QED
    BY <2>1, <2>2, <2>3, Zenon DEF RenderInit, RenderTypeOK
<1>2. TriesLeft /\ RequestRecorded /\ DisabledWhileQuiet
    BY DEF RenderInit, TriesLeft, RequestRecorded, DisabledWhileQuiet
<1>3. QED
    BY <1>1, <1>2 DEF RenderInv

\* Steps of the render thread.
LEMMA RenderKeeps == RenderInv /\ RenderStep => RenderInv'
<1> SUFFICES ASSUME RenderInv, RenderStep PROVE RenderInv'
    OBVIOUS
<1> USE DEF RenderInv, RenderTypeOK, TriesLeft, RequestRecorded, DisabledWhileQuiet,
            MaxTries,
            RenderLocs, Go, events, flags, ghosts
<1>1. CASE CheckRunning
    BY <1>1 DEF CheckRunning
<1>2. CASE WaitEnabled
    BY <1>2 DEF WaitEnabled
<1>3. CASE TakeRequest
  <2>1. RenderTypeOK'
    <3>1. render' \in RenderLocs
      BY <1>3 DEF TakeRequest
    <3>2. requested' \in BOOLEAN
      BY <1>3 DEF TakeRequest
    <3>3. QED
      BY <1>3, <3>1, <3>2 DEF TakeRequest
  <2>2. TriesLeft'
    BY <1>3 DEF TakeRequest
  <2>3. RequestRecorded'
    BY <1>3 DEF TakeRequest
  <2>4. DisabledWhileQuiet'
    BY <1>3 DEF TakeRequest
  <2>5. QED
    BY <2>1, <2>2, <2>3, <2>4
<1>4. CASE Doze
    BY <1>4 DEF Doze
<1>5. CASE Sleep
    BY ZenonT(60), <1>5 DEF Sleep
<1>6. CASE Awake
    BY ZenonT(60), <1>6 DEF Awake
<1>7. CASE Drain
    BY ZenonT(60), <1>7 DEF Drain
<1>8. CASE Begin
  <2>1. RenderTypeOK'
    <3>1. render' \in RenderLocs
      BY <1>8 DEF Begin
    <3>2. completed' \in BOOLEAN
      BY <1>8 DEF Begin
    <3>3. tries' \in 0..MaxTries
      BY <1>8 DEF Begin
    <3>4. frames' \in 0..2
      BY <1>8 DEF Begin
    <3>5. QED
      BY <1>8, <3>1, <3>2, <3>3, <3>4 DEF Begin
  <2>2. TriesLeft'
    BY <1>8 DEF Begin
  <2>3. RequestRecorded'
    BY <1>8 DEF Begin
  <2>4. DisabledWhileQuiet'
    BY <1>8 DEF Begin
  <2>5. QED
    BY <2>1, <2>2, <2>3, <2>4
<1>9. CASE TryFrame
    BY <1>9 DEF TryFrame
<1>10. CASE LockConsole
    BY <1>10 DEF LockConsole
<1>11. CASE Paint
    BY ZenonT(60), <1>11 DEF Paint
<1>12. CASE FailPaint
  <2>1. RenderTypeOK'
    <3>1. render' \in RenderLocs
      BY <1>12 DEF FailPaint
    <3>2. enabled' \in BOOLEAN /\ dropped' \in BOOLEAN
      BY <1>12 DEF FailPaint
    <3>3. tries' \in 0..MaxTries
      BY <1>12 DEF FailPaint
    <3>4. QED
      BY <1>12, <3>1, <3>2, <3>3 DEF FailPaint
  <2>2. TriesLeft'
    BY <1>12 DEF FailPaint
  <2>3. RequestRecorded'
    BY <1>12 DEF FailPaint
  <2>4. DisabledWhileQuiet'
    BY <1>12 DEF FailPaint
  <2>5. QED
    BY <2>1, <2>2, <2>3, <2>4
<1>13. CASE End
    BY <1>13 DEF End
<1>14. QED
    BY <1>1, <1>2, <1>3, <1>4, <1>5, <1>6, <1>7, <1>8, <1>9, <1>10, <1>11, <1>12, <1>13
    DEF RenderStep

\* Steps of a notifier.
LEMMA NotifierKeeps ==
  ASSUME RenderInv, NEW n \in Notifiers, Invalidate(n) \/ NotifyStep(n)
  PROVE  RenderInv'
<1> USE DEF RenderInv, RenderTypeOK, TriesLeft, RequestRecorded, DisabledWhileQuiet,
            MaxTries,
            CallerLocs, Step, events, flags, ghosts
<1>1. CASE Invalidate(n)
    BY <1>1 DEF Invalidate
<1>2. CASE LoadWaiting(n)
    BY <1>2 DEF LoadWaiting
<1>3. CASE NotifyEvent(n)
    BY <1>3 DEF NotifyEvent
<1>4. CASE NotifyRequest(n)
    BY <1>4 DEF NotifyRequest
<1>5. QED
    BY <1>1, <1>2, <1>3, <1>4 DEF NotifyStep

\* Steps of the controlling thread.
LEMMA ControlKeeps ==
  ASSUME RenderInv, ControlStep \/ EnablePainting
                    \/ Disable \/ TriggerTeardown
  PROVE  RenderInv'
<1> USE DEF RenderInv, RenderTypeOK, TriesLeft, RequestRecorded, DisabledWhileQuiet,
            MaxTries,
            ControlLocs, Turn, events, flags, ghosts
<1>1. CASE EnablePainting
  <2>1. RenderTypeOK'
    <3>1. enabled' \in BOOLEAN /\ quiet' \in BOOLEAN
      BY <1>1 DEF EnablePainting
    <3>2. frames' \in 0..2
      BY <1>1 DEF EnablePainting
    <3>3. QED
      BY <1>1, <3>1, <3>2 DEF EnablePainting
  <2>2. TriesLeft'
    BY <1>1 DEF EnablePainting
  <2>3. RequestRecorded'
    BY <1>1 DEF EnablePainting
  <2>4. DisabledWhileQuiet'
    BY <1>1 DEF EnablePainting
  <2>5. QED
    BY <2>1, <2>2, <2>3, <2>4
<1>2. CASE Disable
  <2>1. RenderTypeOK'
    BY ZenonT(60), <1>2 DEF Disable
  <2>2. TriesLeft'
    BY <1>2 DEF Disable
  <2>3. RequestRecorded'
    BY <1>2 DEF Disable
  <2>4. DisabledWhileQuiet'
    BY <1>2 DEF Disable
  <2>5. QED
    BY <2>1, <2>2, <2>3, <2>4
<1>3. CASE TriggerTeardown
  <2>1. RenderTypeOK'
    BY ZenonT(60), <1>3 DEF TriggerTeardown
  <2>2. TriesLeft'
    BY <1>3 DEF TriggerTeardown
  <2>3. RequestRecorded'
    BY <1>3 DEF TriggerTeardown
  <2>4. DisabledWhileQuiet'
    BY <1>3 DEF TriggerTeardown
  <2>5. QED
    BY <2>1, <2>2, <2>3, <2>4
<1>4. CASE PaintCompleted
    BY <1>4 DEF PaintCompleted
<1>5. CASE TimeOut
    BY <1>5 DEF TimeOut
<1>6. CASE TeardownCompleted
    BY <1>6 DEF TeardownCompleted
<1>7. CASE FinalPaint
  <2>1. RenderTypeOK'
    BY ZenonT(60), <1>7 DEF FinalPaint
  <2>2. TriesLeft'
    BY <1>7 DEF FinalPaint
  <2>3. RequestRecorded'
    BY <1>7 DEF FinalPaint
  <2>4. DisabledWhileQuiet'
    BY <1>7 DEF FinalPaint
  <2>5. QED
    BY <2>1, <2>2, <2>3, <2>4
<1>8. CASE Rundown
    BY <1>8 DEF Rundown
<1>9. CASE Delete
    BY <1>9 DEF Delete
<1>10. CASE Stop
  <2>1. RenderTypeOK'
    BY ZenonT(60), <1>10 DEF Stop
  <2>2. TriesLeft'
    BY <1>10 DEF Stop
  <2>3. RequestRecorded'
    BY <1>10 DEF Stop
  <2>4. DisabledWhileQuiet'
    BY <1>10 DEF Stop
  <2>5. QED
    BY <2>1, <2>2, <2>3, <2>4
<1>11. CASE EnableLast
  <2>1. RenderTypeOK'
    <3>1. control' \in ControlLocs
      BY <1>11 DEF EnableLast
    <3>2. enabled' \in BOOLEAN /\ quiet' \in BOOLEAN
      BY <1>11 DEF EnableLast
    <3>3. frames' \in 0..2
      BY <1>11 DEF EnableLast
    <3>4. QED
      BY <1>11, <3>1, <3>2, <3>3 DEF EnableLast
  <2>2. TriesLeft'
    BY <1>11 DEF EnableLast
  <2>3. RequestRecorded'
    BY <1>11 DEF EnableLast
  <2>4. DisabledWhileQuiet'
    BY <1>11 DEF EnableLast
  <2>5. QED
    BY <2>1, <2>2, <2>3, <2>4
<1>12. CASE Signal
    BY <1>12 DEF Signal
<1>13. CASE Join
    BY <1>13 DEF Join
<1>14. QED
    BY <1>1, <1>2, <1>3, <1>4, <1>5, <1>6, <1>7, <1>8, <1>9, <1>10, <1>11, <1>12, <1>13
    DEF ControlStep

LEMMA RenderInductive == RenderInv /\ [RenderNext]_(renderVars) => RenderInv'
<1> SUFFICES ASSUME RenderInv, [RenderNext]_(renderVars) PROVE RenderInv'
    OBVIOUS
<1>1. CASE UNCHANGED renderVars
    BY <1>1 DEF renderVars, events, flags, ghosts, RenderInv,
                RenderTypeOK, TriesLeft, RequestRecorded,
                DisabledWhileQuiet
<1>2. CASE RenderNext
    BY <1>2, RenderKeeps, NotifierKeeps, ControlKeeps DEF RenderNext
<1>3. QED
    BY <1>1, <1>2

-----------------------------------------------------------------------------
\* Type correctness, for any set of notifiers.
THEOREM RenderTypes == RenderSpec => []RenderTypeOK
<1>1. RenderInv => RenderTypeOK
    BY DEF RenderInv
<1>2. QED
    BY <1>1, RenderInitially, RenderInductive, PTL DEF RenderSpec

\* NotifyPaint and _ThreadProc lose no request: what is dirty is about to be
\* asked for, recorded in a flag or an event, or about to be painted.
THEOREM RequestsRecorded == RenderSpec => []RequestRecorded
<1>1. RenderInv => RequestRecorded
    BY DEF RenderInv
<1>2. QED
    BY <1>1, RenderInitially, RenderInductive, PTL DEF RenderSpec

\* After WaitForPaintCompletionAndDisable has seen a frame completed, _ThreadProc
\* begins at most one more until EnablePainting.
THEOREM OneFrame == RenderSpec => []OneFrameAfterDisable
<1>1. RenderInv => OneFrameAfterDisable
    BY DEF RenderInv, RenderTypeOK, DisabledWhileQuiet, OneFrameAfterDisable
<1>2. QED
    BY <1>1, RenderInitially, RenderInductive, PTL DEF RenderSpec
=============================================================================
