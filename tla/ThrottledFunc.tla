---------------------------- MODULE ThrottledFunc ----------------------------
(***************************************************************************)
(* til::throttled_func (src/inc/til/throttled_func.h) and its copy for a   *)
(* WinRT dispatcher, ThrottledFunc (cascadia/WinRTUtils/inc).  Any thread  *)
(* may call; the function runs at most once per delay.  The call that      *)
(* finds nothing pending starts a cycle, and the cycle is handed on: from  *)
(* the caller to the one-shot timer of the thread pool, to a pool thread,  *)
(* in the dispatcher's flavours also through the dispatcher's queue, until *)
(* the pending mark is taken away again.                                   *)
(*                                                                         *)
(* The flavour (leading or trailing, on the pool or on a dispatcher) is a  *)
(* template parameter: it is chosen in Init and never changes.  The        *)
(* arguments of the n-th call are the number n.  A delay has no length:    *)
(* the timer may expire at any time once it is set.  The thread pool's     *)
(* timer and the dispatcher are external: they are modelled by the calls   *)
(* that the two headers make.                                              *)
(***************************************************************************)
EXTENDS Integers, FiniteSets

CONSTANTS
    Callers,    \* the threads that call
    Flavours,   \* flavours to check: {"leading", "trailing"} \X {"pool", ...}
    MaxCalls,   \* bound: calls in one behaviour
    MayClose    \* may the owner flush or destroy the object in this instance

ASSUME ThrottledAssumption ==
    /\ IsFiniteSet(Callers)
    /\ Flavours \subseteq {"leading", "trailing"} \X {"pool", "dispatcher"}
    /\ MaxCalls \in Nat
    /\ MayClose \in BOOLEAN

None == 0   \* no arguments: nothing is pending

VARIABLES
    flavour,    \* <<edge, executor>>
    caller,     \* where each calling thread is
    calls,      \* calls so far
    pending,    \* _pendingRunArgs / _isPending: whose arguments, or None
    timer,      \* is the timer set
    queued,     \* callbacks of the timer that wait for a pool thread
    entered,    \* pool threads inside _timer_callback, before _trailing_edge
    running,    \* pool threads that run _func
    lambdas,    \* closures in the dispatcher's queue
    disp,       \* the dispatcher's thread: "idle" or in "func"
    open,       \* does the dispatcher accept closures
    owner,      \* how far flush() and the destructor have come
    ran,        \* arguments of the latest run of _func
    starts,     \* runs of _func so far
    expiries,   \* expiries of the timer so far
    lost        \* did a cycle end without reaching the timer's callback

vars == <<flavour, caller, calls, pending, timer, queued, entered, running,
          lambdas, disp, open, owner, ran, starts, expiries, lost>>

leading == flavour[1] = "leading"
onPool == flavour[2] = "pool"

TypeOK ==
    /\ flavour \in Flavours
    /\ caller \in [Callers -> {"idle", "edge", "func"}]
    /\ calls \in 0 .. MaxCalls
    /\ pending \in None .. calls
    /\ timer \in BOOLEAN
    /\ {queued, entered, running, lambdas, starts, expiries} \subseteq Nat
    /\ disp \in {"idle", "func"}
    /\ open \in BOOLEAN
    /\ owner \in {"open", "wait", "check", "edge", "func", "flushed",
                  "closing", "draining", "dead"}
    /\ ran \in 0 .. calls
    /\ lost \in BOOLEAN

Init ==
    /\ flavour \in Flavours
    /\ caller = [c \in Callers |-> "idle"]
    /\ calls = 0
    /\ pending = None
    /\ timer = FALSE
    /\ queued = 0 /\ entered = 0 /\ running = 0
    /\ lambdas = 0
    /\ disp = "idle"
    /\ open = TRUE
    /\ owner = "open"
    /\ ran = 0 /\ starts = 0 /\ expiries = 0
    /\ lost = FALSE

-----------------------------------------------------------------------------
(* The storage, and the start of _func.                                    *)

\* _func begins to run with the pending arguments; the trailing flavours
\* take them out of the storage in the same step.  Only a callback that races
\* with flush() finds nothing to take; flush() is only used without arguments
\* (ApplicationState), where _func then just runs once more.
StartFunc ==
    /\ starts' = starts + 1
    /\ ran' = IF pending = None THEN ran ELSE pending
    /\ pending' = IF leading THEN pending ELSE None

\* TryEnqueue: a dispatcher that is shut down takes no more closures.
TryEnqueue ==
    /\ lambdas' = IF open THEN lambdas + 1 ELSE lambdas
    /\ lost' = (lost \/ ~open)

-----------------------------------------------------------------------------
(* Calls: operator() and Run, and modify_pending.                          *)

\* Mutant: the thread compares without exchanging, and a second caller
\* starts a cycle of its own.
EmplaceAlways(c) ==
    /\ caller[c] = "idle" /\ owner = "open" /\ calls < MaxCalls
    /\ calls' = calls + 1
    /\ pending' = calls + 1
    /\ caller' = [caller EXCEPT ![c] = "edge"]
    /\ UNCHANGED <<flavour, timer, queued, entered, running, lambdas, disp,
                   open, owner, ran, starts, expiries, lost>>

\* Mutant: the arguments are frozen once the closure is queued.
EmplaceStale(c) ==
    /\ caller[c] = "idle" /\ owner = "open" /\ calls < MaxCalls
    /\ calls' = calls + 1
    /\ pending' = IF lambdas > 0 THEN pending ELSE calls + 1
    /\ caller' = [caller EXCEPT ![c] = IF pending = None THEN "edge" ELSE @]
    /\ UNCHANGED <<flavour, timer, queued, entered, running, lambdas, disp,
                   open, owner, ran, starts, expiries, lost>>

\* Put the arguments in; whoever finds the storage empty starts a cycle.
Emplace(c) ==
    /\ caller[c] = "idle" /\ owner = "open" /\ calls < MaxCalls
    /\ calls' = calls + 1
    /\ pending' = calls + 1
    /\ caller' = [caller EXCEPT ![c] = IF pending = None THEN "edge" ELSE @]
    /\ UNCHANGED <<flavour, timer, queued, entered, running, lambdas, disp,
                   open, owner, ran, starts, expiries, lost>>

\* Change the pending arguments, if there are any.
ModifyPending ==
    /\ ~leading /\ owner = "open" /\ calls < MaxCalls
    /\ pending # None
    /\ calls' = calls + 1
    /\ pending' = calls + 1
    /\ UNCHANGED <<flavour, caller, timer, queued, entered, running, lambdas,
                   disp, open, owner, ran, starts, expiries, lost>>

\* Mutant: the leading flavour of the pool never sets the timer and leaves
\* the pending mark to the next call.
LeadingEdgeNoTimer(c) ==
    /\ caller[c] = "edge"
    /\ IF leading /\ onPool
       THEN /\ starts' = starts + 1 /\ ran' = pending /\ pending' = None
            /\ caller' = [caller EXCEPT ![c] = "idle"]
            /\ UNCHANGED <<timer, lambdas, lost>>
       ELSE /\ caller' = [caller EXCEPT ![c] = "idle"]
            /\ IF leading
               THEN TryEnqueue /\ UNCHANGED timer
               ELSE timer' = TRUE /\ UNCHANGED <<lambdas, lost>>
            /\ UNCHANGED <<starts, ran, pending>>
    /\ UNCHANGED <<flavour, calls, queued, entered, running, disp, open,
                   owner, expiries>>

\* _leading_edge: the leading flavours run _func, here or on the dispatcher;
\* the trailing ones set the timer.
LeadingEdge(c) ==
    /\ caller[c] = "edge"
    /\ IF leading /\ onPool
       THEN /\ StartFunc
            /\ caller' = [caller EXCEPT ![c] = "func"]
            /\ UNCHANGED <<timer, lambdas, lost>>
       ELSE /\ caller' = [caller EXCEPT ![c] = "idle"]
            /\ IF leading
               THEN TryEnqueue /\ UNCHANGED timer
               ELSE timer' = TRUE /\ UNCHANGED <<lambdas, lost>>
            /\ UNCHANGED <<starts, ran, pending>>
    /\ UNCHANGED <<flavour, calls, queued, entered, running, disp, open,
                   owner, expiries>>

\* _func returns to _leading_edge, which sets the timer ...
CallerFuncEnds(c) ==
    /\ caller[c] = "func"
    /\ caller' = [caller EXCEPT ![c] = "idle"]
    /\ timer' = TRUE
    /\ UNCHANGED <<flavour, calls, pending, queued, entered, running, lambdas,
                   disp, open, owner, ran, starts, expiries, lost>>

\* ... or throws to the caller, past the timer.
CallerFuncThrows(c) ==
    /\ caller[c] = "func"
    /\ caller' = [caller EXCEPT ![c] = "idle"]
    /\ lost' = TRUE
    /\ UNCHANGED <<flavour, calls, pending, timer, queued, entered, running,
                   lambdas, disp, open, owner, ran, starts, expiries>>

-----------------------------------------------------------------------------
(* The thread pool's timer and its callback.                               *)

\* The one-shot timer expires.
Expire ==
    /\ timer
    /\ timer' = FALSE
    /\ queued' = queued + 1
    /\ expiries' = expiries + 1
    /\ UNCHANGED <<flavour, caller, calls, pending, entered, running, lambdas,
                   disp, open, owner, ran, starts, lost>>

\* A pool thread enters the callback.
TimerCallback ==
    /\ queued > 0
    /\ queued' = queued - 1
    /\ entered' = entered + 1
    /\ UNCHANGED <<flavour, caller, calls, pending, timer, running, lambdas,
                   disp, open, owner, ran, starts, expiries, lost>>

\* _trailing_edge: the leading flavours open the next cycle; the trailing
\* ones run _func, here or on the dispatcher.
TrailingEdge ==
    /\ entered > 0
    /\ entered' = entered - 1
    /\ CASE leading -> /\ pending' = None
                       /\ UNCHANGED <<ran, starts, running, lambdas, lost>>
         [] ~leading /\ onPool -> /\ StartFunc
                                  /\ running' = running + 1
                                  /\ UNCHANGED <<lambdas, lost>>
         [] OTHER -> /\ TryEnqueue
                     /\ UNCHANGED <<ran, starts, running, pending>>
    /\ UNCHANGED <<flavour, caller, calls, timer, queued, disp, open, owner,
                   expiries>>

\* _func ends on the pool; an exception is only logged.
CallbackFuncEnds ==
    /\ running > 0
    /\ running' = running - 1
    /\ UNCHANGED <<flavour, caller, calls, pending, timer, queued, entered,
                   lambdas, disp, open, owner, ran, starts, expiries, lost>>

-----------------------------------------------------------------------------
(* The dispatcher.                                                         *)

\* A closure runs; it does nothing once the last shared_ptr is gone.
Dispatch ==
    /\ lambdas > 0 /\ disp = "idle"
    /\ lambdas' = lambdas - 1
    /\ IF owner = "open"
       THEN StartFunc /\ disp' = "func"
       ELSE UNCHANGED <<starts, ran, pending, disp>>
    /\ UNCHANGED <<flavour, caller, calls, timer, queued, entered, running,
                   open, owner, expiries, lost>>

\* _func ends, or throws and is logged; the leading flavour sets the timer.
DispatchFuncEnds ==
    /\ disp = "func"
    /\ disp' = "idle"
    /\ timer' = (timer \/ leading)
    /\ UNCHANGED <<flavour, caller, calls, pending, queued, entered, running,
                   lambdas, open, owner, ran, starts, expiries, lost>>

\* The dispatcher shuts down, for instance when its window closes.
ShutDown ==
    /\ MayClose /\ ~onPool /\ open
    /\ open' = FALSE
    /\ UNCHANGED <<flavour, caller, calls, pending, timer, queued, entered,
                   running, lambdas, disp, owner, ran, starts, expiries, lost>>

-----------------------------------------------------------------------------
(* flush() and the destructor.  Nobody calls at the same time (the note on *)
(* flush, throttled_func.h 149-150).                                       *)

Quiet == \A c \in Callers : caller[c] = "idle"

\* WaitForThreadpoolTimerCallbacks(timer, true) cancels the callbacks that
\* have not started; a timer that is set stays set.
Flush ==
    /\ MayClose /\ onPool /\ owner = "open" /\ Quiet
    /\ owner' = "wait"
    /\ queued' = 0
    /\ UNCHANGED <<flavour, caller, calls, pending, timer, entered, running,
                   lambdas, disp, open, ran, starts, expiries, lost>>

\* ... and waits for those that have.
FlushWaited ==
    /\ owner = "wait" /\ entered = 0 /\ running = 0
    /\ owner' = "check"
    /\ UNCHANGED <<flavour, caller, calls, pending, timer, queued, entered,
                   running, lambdas, disp, open, ran, starts, expiries, lost>>

\* Mutant: flush() trusts the callbacks it has waited for.
FlushCheckNothing ==
    /\ owner = "check"
    /\ owner' = "flushed"
    /\ UNCHANGED <<flavour, caller, calls, pending, timer, queued, entered,
                   running, lambdas, disp, open, ran, starts, expiries, lost>>

FlushCheck ==
    /\ owner = "check"
    /\ owner' = IF pending # None THEN "edge" ELSE "flushed"
    /\ UNCHANGED <<flavour, caller, calls, pending, timer, queued, entered,
                   running, lambdas, disp, open, ran, starts, expiries, lost>>

\* flush() runs _trailing_edge itself.
FlushEdge ==
    /\ owner = "edge"
    /\ IF leading
       THEN pending' = None /\ owner' = "flushed" /\ UNCHANGED <<ran, starts>>
       ELSE StartFunc /\ owner' = "func"
    /\ UNCHANGED <<flavour, caller, calls, timer, queued, entered, running,
                   lambdas, disp, open, expiries, lost>>

FlushFuncEnds ==
    /\ owner = "func"
    /\ owner' = "flushed"
    /\ UNCHANGED <<flavour, caller, calls, pending, timer, queued, entered,
                   running, lambdas, disp, open, ran, starts, expiries, lost>>

\* The destructor: _storage is destroyed before _timer, which is declared
\* before it.  A dispatched _func holds a shared_ptr.
Destroy ==
    /\ MayClose /\ owner \in {"open", "flushed"} /\ Quiet /\ disp = "idle"
    /\ owner' = "closing"
    /\ UNCHANGED <<flavour, caller, calls, pending, timer, queued, entered,
                   running, lambdas, disp, open, ran, starts, expiries, lost>>

\* The timer is unset, its callbacks are cancelled ...
DestroyTimer ==
    /\ owner = "closing"
    /\ owner' = "draining"
    /\ timer' = FALSE
    /\ queued' = 0
    /\ UNCHANGED <<flavour, caller, calls, pending, entered, running, lambdas,
                   disp, open, ran, starts, expiries, lost>>

\* ... and those that run are waited for.
Destroyed ==
    /\ owner = "draining" /\ entered = 0 /\ running = 0
    /\ owner' = "dead"
    /\ UNCHANGED <<flavour, caller, calls, pending, timer, queued, entered,
                   running, lambdas, disp, open, ran, starts, expiries, lost>>

-----------------------------------------------------------------------------

CallerStep(c) == LeadingEdge(c) \/ CallerFuncEnds(c) \/ CallerFuncThrows(c)

System ==
    \/ Expire \/ TimerCallback \/ TrailingEdge \/ CallbackFuncEnds
    \/ Dispatch \/ DispatchFuncEnds

Owner ==
    \/ Flush \/ FlushWaited \/ FlushCheck \/ FlushEdge \/ FlushFuncEnds
    \/ Destroy \/ DestroyTimer \/ Destroyed

Next ==
    \/ \E c \in Callers : Emplace(c) \/ CallerStep(c)
    \/ ModifyPending
    \/ System
    \/ ShutDown
    \/ Owner

Spec == Init /\ [][Next]_vars

\* Threads inside the object, the pool and the dispatcher keep running.
Fairness ==
    /\ \A c \in Callers : WF_vars(CallerStep(c))
    /\ WF_vars(Expire) /\ WF_vars(TimerCallback) /\ WF_vars(TrailingEdge)
    /\ WF_vars(CallbackFuncEnds)
    /\ WF_vars(Dispatch) /\ WF_vars(DispatchFuncEnds)

FairSpec == Spec /\ Fairness

-----------------------------------------------------------------------------
(* Properties.                                                             *)

\* The places where a cycle can be on its way from emplace() to the end.
Carriers ==
    Cardinality({c \in Callers : caller[c] \in {"edge", "func"}})
        + (IF timer THEN 1 ELSE 0) + queued + entered + lambdas
        + (IF leading /\ disp = "func" THEN 1 ELSE 0)

\* While something is pending exactly one cycle is under way, and none
\* otherwise: no thread ever takes arguments that are not there (the
\* unchecked *_pendingRunArgs of take(), throttled_func.h 36), and pending
\* arguments are never left behind.  A cycle is lost only when the leading
\* _func throws or the dispatcher refuses the closure.
OneCycle ==
    owner = "open" =>
        Carriers = (IF pending # None /\ ~lost THEN 1 ELSE 0)

\* "Throttles invocations to the given `func` to not occur more often than
\* `delay`" (throttled_func.h 91): runs and expiries of the timer alternate.
RateLimited ==
    owner = "open" =>
        starts - expiries \in (IF leading THEN {0, 1} ELSE {0, -1})

\* After flush() the function has been started for the latest call: by
\* flush() itself, or by a callback that took the arguments away from it.
FlushRuns ==
    (owner = "flushed" /\ ~leading) => (ran = calls)

\* A trailing function runs with the arguments of the latest call: each call
\* is followed by a run with its arguments or with newer ones.
LatestRuns ==
    \A n \in 1 .. MaxCalls :
        (~leading /\ calls >= n) ~> (ran >= n \/ owner # "open" \/ ~open)

=============================================================================
