---------------------------- MODULE RenderThread ----------------------------
(***************************************************************************)
(* The thread that paints the frames of a terminal or console window, and  *)
(* the threads that ask it to                                              *)
(* (src/src/renderer/base/thread.cpp, renderer.cpp).                       *)
(*                                                                         *)
(* Any number of threads change the buffer, invalidate what they changed   *)
(* and call NotifyPaint.  One thread controls the renderer: it enables and *)
(* disables painting, and at the end tears it down and destroys it.  There *)
(* is one render engine.  The three Windows events are Booleans: event     *)
(* resets itself when it wakes the thread, enabled and completed stay as   *)
(* they are set.                                                           *)
(***************************************************************************)
EXTENDS Naturals

CONSTANTS Notifiers,    \* the threads that change the buffer
          MayFail,      \* may the engine fail to paint a frame
          MayDisable,   \* may painting be disabled and enabled again
          LockedDelete  \* is the renderer destroyed under the console lock
                        \* (RundownAndExit of a debug build)

ASSUME RenderAssumption == {MayFail, MayDisable, LockedDelete} \subseteq BOOLEAN

MaxTries == 3  \* maxRetriesForRenderEngine

VARIABLES
  render,       \* where the render thread is
  notifier,     \* where each notifier is
  control,      \* where the controlling thread is
  event,        \* _hEvent
  enabled,      \* _hPaintEnabledEvent
  completed,    \* _hPaintCompletedEvent
  keepRunning,  \* _fKeepRunning
  requested,    \* _fNextFrameRequested
  waiting,      \* _fWaiting
  destructing,  \* Renderer::_destructing
  tries,        \* tries of PaintFrame
  lock,         \* who holds the console lock over several steps
  dirty,        \* is part of the engine's picture invalid
  dropped,      \* for the properties: PaintFrame gave up on what is dirty
  quiet,        \* for the properties: painting was disabled and completed
  frames        \* for the properties: frames begun while it was

events == <<event, enabled, completed>>
flags  == <<keepRunning, requested, waiting, destructing>>
ghosts == <<dropped, quiet, frames>>
renderVars == <<render, notifier, control, events, flags, tries, lock, dirty, ghosts>>

RenderLocs == {"loop", "enabled", "first", "doze", "second", "sleep", "awake", "drain",
               "begin", "frame", "lock", "paint", "end", "ended"}
CallerLocs == {"idle", "load", "set", "store"}
ControlLocs == {"run", "wait", "teardown", "final", "rundown", "delete", "stop",
                "enable", "signal", "join", "exited"}

\* The constructors, and Initialize.
RenderInit ==
  /\ render = "loop"
  /\ notifier = [n \in Notifiers |-> "idle"]
  /\ control = "run"
  /\ event = FALSE /\ enabled = FALSE /\ completed = TRUE
  /\ keepRunning = TRUE /\ requested = FALSE /\ waiting = FALSE /\ destructing = FALSE
  /\ tries = 0
  /\ lock = "none"
  /\ dirty = FALSE
  /\ dropped = FALSE /\ quiet = FALSE /\ frames = 0

-----------------------------------------------------------------------------
(* _ThreadProc                                                             *)

\* Moves of the render thread between its waits.
Go(from, to) == render = from /\ render' = to

CheckRunning ==
  /\ Go("loop", IF keepRunning THEN "enabled" ELSE "ended")
  /\ UNCHANGED <<notifier, control, events, flags, tries, lock, dirty, ghosts>>

WaitEnabled ==
  /\ Go("enabled", "first")
  /\ enabled
  /\ UNCHANGED <<notifier, control, events, flags, tries, lock, dirty, ghosts>>

\* Mutant: the thread goes to sleep whatever the second exchange found.
TakeRequestBlindly ==
  /\ \/ Go("first", IF requested THEN "begin" ELSE "doze")
     \/ Go("second", "sleep")
  /\ requested' = FALSE
  /\ UNCHANGED <<notifier, control, events, keepRunning, waiting, destructing, tries, lock,
                 dirty, ghosts>>

\* _fNextFrameRequested.exchange(false), before and after _fWaiting is set.
TakeRequest ==
  /\ \/ Go("first", IF requested THEN "begin" ELSE "doze")
     \/ Go("second", IF requested THEN "awake" ELSE "sleep")
  /\ requested' = FALSE
  /\ UNCHANGED <<notifier, control, events, keepRunning, waiting, destructing, tries, lock,
                 dirty, ghosts>>

Doze ==
  /\ Go("doze", "second")
  /\ waiting' = TRUE
  /\ UNCHANGED <<notifier, control, events, keepRunning, requested, destructing, tries, lock,
                 dirty, ghosts>>

Sleep ==
  /\ Go("sleep", "awake")
  /\ event
  /\ event' = FALSE
  /\ UNCHANGED <<notifier, control, enabled, completed, flags, tries, lock, dirty, ghosts>>

Awake ==
  /\ Go("awake", "drain")
  /\ waiting' = FALSE
  /\ UNCHANGED <<notifier, control, events, keepRunning, requested, destructing, tries, lock,
                 dirty, ghosts>>

Drain ==
  /\ Go("drain", "begin")
  /\ event' = FALSE
  /\ UNCHANGED <<notifier, control, enabled, completed, flags, tries, lock, dirty, ghosts>>

\* ResetEvent(_hPaintCompletedEvent), WaitUntilCanRender.
Begin ==
  /\ Go("begin", "frame")
  /\ completed' = FALSE
  /\ tries' = MaxTries
  /\ frames' = IF quiet /\ frames < 2 THEN frames + 1 ELSE frames
  /\ UNCHANGED <<notifier, control, event, enabled, flags, lock, dirty, dropped, quiet>>

\* Renderer::PaintFrame looks at _destructing before every try ...
TryFrame ==
  /\ Go("frame", IF destructing THEN "end" ELSE "lock")
  /\ UNCHANGED <<notifier, control, events, flags, tries, lock, dirty, ghosts>>

\* ... and _PaintFrameForEngine locks the console.
LockConsole ==
  /\ Go("lock", "paint")
  /\ lock = "none"
  /\ lock' = "render"
  /\ UNCHANGED <<notifier, control, events, flags, tries, dirty, ghosts>>

\* The frame is painted.  An engine that is animating has NotifyPaint called,
\* which finds _fWaiting false here.
Paint ==
  /\ Go("paint", "end")
  /\ lock' = "none"
  /\ dirty' = FALSE /\ dropped' = FALSE
  /\ requested' \in {requested, TRUE}
  /\ UNCHANGED <<notifier, control, events, keepRunning, waiting, destructing, tries,
                 quiet, frames>>

\* The engine fails: try again, or give up and disable painting.
FailPaint ==
  /\ MayFail
  /\ Go("paint", IF tries = 1 THEN "end" ELSE "frame")
  /\ tries' = tries - 1
  /\ lock' = "none"
  /\ enabled' = IF tries = 1 THEN FALSE ELSE enabled
  /\ dropped' = (dropped \/ tries = 1)
  /\ UNCHANGED <<notifier, control, event, completed, flags, dirty, quiet, frames>>

\* SetEvent(_hPaintCompletedEvent).
End ==
  /\ Go("end", "loop")
  /\ completed' = TRUE
  /\ UNCHANGED <<notifier, control, event, enabled, flags, tries, lock, dirty, ghosts>>

RenderStep ==
  \/ CheckRunning \/ WaitEnabled \/ TakeRequest \/ Doze \/ Sleep \/ Awake \/ Drain
  \/ Begin \/ TryFrame \/ LockConsole \/ Paint \/ FailPaint \/ End

-----------------------------------------------------------------------------
(* The Trigger methods of the Renderer: invalidate, then NotifyPaint       *)

Step(n, from, to) == notifier[n] = from /\ notifier' = [notifier EXCEPT ![n] = to]

Invalidate(n) ==
  /\ Step(n, "idle", "load")
  /\ control \in {"run", "wait", "teardown", "final"}
  /\ lock = "none"
  /\ dirty' = TRUE
  /\ UNCHANGED <<render, control, events, flags, tries, lock, ghosts>>

LoadWaiting(n) ==
  /\ Step(n, "load", IF waiting THEN "set" ELSE "store")
  /\ UNCHANGED <<render, control, events, flags, tries, lock, dirty, ghosts>>

\* Mutant: nobody sets the event.
NotifyNobody(n) ==
  /\ Step(n, "set", "idle")
  /\ UNCHANGED <<render, control, events, flags, tries, lock, dirty, ghosts>>

NotifyEvent(n) ==
  /\ Step(n, "set", "idle")
  /\ event' = TRUE
  /\ UNCHANGED <<render, control, enabled, completed, flags, tries, lock, dirty, ghosts>>

NotifyRequest(n) ==
  /\ Step(n, "store", "idle")
  /\ requested' = TRUE
  /\ UNCHANGED <<render, control, events, keepRunning, waiting, destructing, tries, lock,
                 dirty, ghosts>>

-----------------------------------------------------------------------------
(* EnablePainting, WaitForPaintCompletionAndDisable and TriggerTeardown    *)

Turn(from, to) == control = from /\ control' = to

EnablePainting ==
  /\ control = "run"
  /\ enabled' = TRUE /\ quiet' = FALSE /\ frames' = 0
  /\ UNCHANGED <<render, notifier, control, event, completed, flags, tries, lock, dirty, dropped>>

Disable ==
  /\ MayDisable
  /\ Turn("run", "wait")
  /\ enabled' = FALSE
  /\ UNCHANGED <<render, notifier, event, completed, flags, tries, lock, dirty, ghosts>>

PaintCompleted ==
  /\ Turn("wait", "run")
  /\ completed
  /\ quiet' = TRUE
  /\ UNCHANGED <<render, notifier, events, flags, tries, lock, dirty, dropped, frames>>

\* dwTimeoutMs have passed.
TimeOut ==
  /\ Turn("wait", "run")
  /\ ~completed
  /\ UNCHANGED <<render, notifier, events, flags, tries, lock, dirty, ghosts>>

TriggerTeardown ==
  /\ Turn("run", "teardown")
  /\ enabled' = FALSE
  /\ UNCHANGED <<render, notifier, event, completed, flags, tries, lock, dirty, ghosts>>

TeardownCompleted ==
  /\ Turn("teardown", "final")
  /\ completed
  /\ UNCHANGED <<render, notifier, events, flags, tries, lock, dirty, ghosts>>

\* One final paint on the caller's thread, if the engine asks for it.
FinalPaint ==
  /\ Turn("final", "rundown")
  /\ \/ /\ lock = "none"
        /\ dirty' = FALSE /\ dropped' = FALSE
     \/ UNCHANGED <<dirty, dropped>>
  /\ UNCHANGED <<render, notifier, events, flags, tries, lock, quiet, frames>>

\* RundownAndExit, before the renderer is deleted.
Rundown ==
  /\ Turn("rundown", "delete")
  /\ IF LockedDelete
       THEN lock = "none" /\ lock' = "control"
       ELSE UNCHANGED lock
  /\ UNCHANGED <<render, notifier, events, flags, tries, dirty, ghosts>>

\* ~Renderer and ~RenderThread.
Delete ==
  /\ Turn("delete", "stop")
  /\ destructing' = TRUE
  /\ UNCHANGED <<render, notifier, events, keepRunning, requested, waiting, tries, lock, dirty,
                 ghosts>>

\* Mutant: the destructor forgets to stop the loop.
StopNothing ==
  /\ Turn("stop", "enable")
  /\ UNCHANGED <<render, notifier, events, flags, tries, lock, dirty, ghosts>>

Stop ==
  /\ Turn("stop", "enable")
  /\ keepRunning' = FALSE
  /\ UNCHANGED <<render, notifier, events, requested, waiting, destructing, tries, lock, dirty,
                 ghosts>>

EnableLast ==
  /\ Turn("enable", "signal")
  /\ enabled' = TRUE /\ quiet' = FALSE /\ frames' = 0
  /\ UNCHANGED <<render, notifier, event, completed, flags, tries, lock, dirty, dropped>>

Signal ==
  /\ Turn("signal", "join")
  /\ event' = TRUE
  /\ UNCHANGED <<render, notifier, enabled, completed, flags, tries, lock, dirty, ghosts>>

Join ==
  /\ Turn("join", "exited")
  /\ render = "ended"
  /\ UNCHANGED <<render, notifier, events, flags, tries, lock, dirty, ghosts>>

-----------------------------------------------------------------------------
NotifyStep(n) == LoadWaiting(n) \/ NotifyEvent(n) \/ NotifyRequest(n)

\* What the controlling thread does once it has begun to wait or to leave.
ControlStep ==
  \/ PaintCompleted \/ TimeOut \/ TeardownCompleted \/ FinalPaint \/ Rundown
  \/ Delete \/ Stop \/ EnableLast \/ Signal \/ Join

RenderNext ==
  \/ RenderStep
  \/ \E n \in Notifiers : Invalidate(n) \/ NotifyStep(n)
  \/ ControlStep
  \/ EnablePainting \/ Disable \/ TriggerTeardown

RenderSpec == RenderInit /\ [][RenderNext]_renderVars

\* Every thread goes on when it can; nobody has to change the buffer, and
\* nobody has to enable, disable or end anything.
RenderFairSpec ==
  /\ RenderSpec
  /\ WF_renderVars(RenderStep)
  /\ WF_renderVars(ControlStep)
  /\ \A n \in Notifiers : WF_renderVars(NotifyStep(n))

-----------------------------------------------------------------------------
RenderTypeOK ==
  /\ render \in RenderLocs
  /\ notifier \in [Notifiers -> CallerLocs]
  /\ control \in ControlLocs
  /\ event \in BOOLEAN /\ enabled \in BOOLEAN /\ completed \in BOOLEAN
  /\ keepRunning \in BOOLEAN /\ requested \in BOOLEAN
  /\ waiting \in BOOLEAN /\ destructing \in BOOLEAN
  /\ dirty \in BOOLEAN /\ dropped \in BOOLEAN /\ quiet \in BOOLEAN
  /\ tries \in 0..MaxTries
  /\ lock \in {"none", "render", "control"}
  /\ frames \in 0..2

\* What is dirty is never forgotten: a notifier is about to ask for a frame, or
\* the request is recorded in _fNextFrameRequested or _hEvent, or the render
\* thread is on its way to paint.  (Or the engine failed or is going away.)
RequestRecorded ==
  dirty => \/ \E n \in Notifiers : notifier[n] # "idle"
           \/ requested
           \/ event
           \/ render \in {"awake", "drain", "begin", "frame", "lock", "paint"}
           \/ dropped \/ destructing

\* Once WaitForPaintCompletionAndDisable has seen the paint completed, the thread
\* begins at most one more frame until painting is enabled again.
OneFrameAfterDisable == frames <= 1

\* As long as notifications keep coming, what is dirty gets painted, unless
\* painting is disabled or the renderer torn down.
FramesKeepComing ==
  []<>(\E n \in Notifiers : notifier[n] = "load") =>
    ((dirty /\ enabled) ~> (~dirty \/ ~enabled \/ control # "run"))

\* Destroying the renderer comes to an end, wherever the render thread is.
RundownEnds == control = "teardown" ~> control = "exited"

=============================================================================
