------------------------------ MODULE GLContext ------------------------------
(***************************************************************************)
(* One EXGL context (packages/expo-gl-cpp, packages/expo-gl): JavaScript   *)
(* puts GL commands into batches, a GL thread takes them over and performs *)
(* them.  The C++ code is common; how the GL thread is told to flush, how  *)
(* a context is destroyed and how a frame reaches the screen differ        *)
(* between iOS (a serial dispatch queue; a draw loop on the UI thread) and *)
(* Android (a thread with an event queue, interrupted and joined).         *)
(*                                                                         *)
(* A batch only matters for where it ends, so the backlog, a vector of     *)
(* batches that is always taken whole, is one sequence of commands.        *)
(***************************************************************************)
EXTENDS Integers, Sequences

CONSTANTS
  Platforms,   \* a subset of {"ios", "android"}: the builds considered
  MaxOps,      \* bound: commands issued
  MaxObjects,  \* bound: EXGL object ids handed out
  MaxDestroys  \* bound: calls of destroy

ASSUME PlatformsAssumption == Platforms \subseteq {"ios", "android"}
ASSUME BoundsAssumption == {MaxOps, MaxObjects, MaxDestroys} \subseteq Nat

VARIABLES
  platform,      \* the build, fixed
  context,       \* the EXGLContext in EXGLContextMap: not created yet, alive, deleted
  js,            \* the JS thread: [pc, op, done, gl]
  nextBatch,     \* commands of the batch JavaScript is filling
  backlog,       \* commands of the batches it has ended
  issued,        \* commands added so far, which numbers them
  nextObjectId,  \* EXGLContext::nextObjectId
  objects,       \* EXGL object ids that are mapped to a GL object
  native,        \* ids held by native code (EXGLObject, GLObject)
  futures,       \* ids given to JavaScript by addFutureToNextBatch
  supports,      \* supportsWebGL2 was computed
  redraw,        \* needsRedraw
  events,        \* the queue of the GL thread
  gl,            \* the GL thread: [pc, copy, event]
  performed,     \* history: number of the last command performed
  destroys,      \* calls of destroy so far
  view           \* frames on their way to the screen

vars == <<platform, context, js, nextBatch, backlog, issued, nextObjectId, objects, native, futures,
          supports, redraw, events, gl, performed, destroys, view>>
queueVars == <<nextBatch, backlog, issued>>
objectVars == <<nextObjectId, objects, native, futures>>
flagVars == <<supports, redraw>>

-----------------------------------------------------------------------------
(***************************************************************************)
(* Data.  A command is its kind, the object id it makes or uses (0: none), *)
(* and its number.  "get" stands for all calls that wait for an answer     *)
(* (getParameter, getError, flushEXP, readPixels ...), "bind" for all that *)
(* look an object up, "call" for the rest.                                 *)
(***************************************************************************)
Kinds == {"init", "call", "get", "create", "bind", "frame"}
Op == [kind : Kinds, obj : Nat, n : Nat]
Events == {"flush", "destroy"}
NoOp == [kind |-> "call", obj |-> 0, n |-> 0]

JSThread ==
  [pc : {"idle", "method", "flush", "wait", "hung"},
   op : Op,          \* the command of the method being called
   done : BOOLEAN,   \* the future (condition variable) of a blocking call
   gl : BOOLEAN]     \* getGl has got its first answer: the app has its gl object
GLThread ==
  [pc : {"ready", "swap", "run", "stopped"}, copy : Seq(Op), event : Events,
   interrupted : BOOLEAN]
\* drawn: the last command performed before the last blit (swap of buffers), shown: before what
\* is on the screen.
\* presented: _renderbufferPresented; drawing: draw has presented but not yet set that flag
View == [drawn : Nat, shown : Nat, presented : BOOLEAN, drawing : BOOLEAN]

TypeOK ==
  /\ platform \in Platforms
  /\ context \in {"none", "live", "deleted"}
  /\ js \in JSThread
  /\ nextBatch \in Seq(Op) /\ backlog \in Seq(Op)
  /\ {issued, nextObjectId, performed, destroys} \subseteq Nat
  /\ objects \subseteq Nat /\ native \subseteq Nat /\ futures \subseteq Nat
  /\ supports \in BOOLEAN /\ redraw \in BOOLEAN
  /\ events \in Seq(Events)
  /\ gl \in GLThread
  /\ view \in View

Init ==
  /\ platform \in Platforms
  /\ context = "none"
  /\ js = [pc |-> "idle", op |-> NoOp, done |-> FALSE, gl |-> FALSE]
  /\ nextBatch = <<>> /\ backlog = <<>>
  /\ issued = 0 /\ performed = 0 /\ nextObjectId = 1 /\ destroys = 0
  /\ objects = {} /\ native = {} /\ futures = {}
  /\ supports = FALSE /\ redraw = FALSE
  /\ events = <<>>
  /\ gl = [pc |-> "ready", copy |-> <<>>, event |-> "flush", interrupted |-> FALSE]
  /\ view = [drawn |-> 0, shown |-> 0, presented |-> TRUE, drawing |-> FALSE]

-----------------------------------------------------------------------------
(***************************************************************************)
(* The JS thread.                                                          *)
(***************************************************************************)
\* initialize: the context is created with the command that clears it, its flush method is
\* set, and the app is told (onSurfaceCreate)
Create ==
  /\ context = "none" /\ issued < MaxOps
  /\ context' = "live"
  /\ nextBatch' = <<[kind |-> "init", obj |-> 0, n |-> 1]>>
  /\ issued' = 1
  /\ UNCHANGED <<platform, js, backlog, objectVars, flagVars, events, gl, performed, destroys,
                 view>>

\* a WebGL method is called and finds its context; without one it returns at once.
\* The first call is getParameter(VERSION), in getGl
Enter(kind, obj) ==
  /\ js.pc = "idle" /\ context = "live"
  /\ js.gl \/ kind = "get"
  /\ issued < MaxOps
  /\ js' = [js EXCEPT !.pc = "method", !.done = FALSE,
                      !.op = [kind |-> kind, obj |-> obj, n |-> 0]]
  /\ UNCHANGED <<platform, context, queueVars, objectVars, flagVars, events, gl, performed,
                 destroys, view>>

EnterMethod ==
  \/ \E kind \in {"call", "get", "create", "frame"} : Enter(kind, 0)
  \/ \E obj \in 1..nextObjectId - 1 : Enter("bind", obj)

Numbered == [js.op EXCEPT !.n = issued + 1]

\* mutant: the command skips the batch
MutAddToBacklog ==
  /\ js.pc = "method" /\ js.op.kind \in {"call", "bind"}
  /\ context = "live"
  /\ backlog' = Append(backlog, Numbered)
  /\ issued' = issued + 1
  /\ js' = [js EXCEPT !.pc = "idle"]
  /\ UNCHANGED <<platform, context, nextBatch, objectVars, flagVars, events, gl, performed,
                 destroys, view>>

AddToNextBatch ==
  /\ js.pc = "method" /\ js.op.kind \in {"call", "bind"}
  /\ context = "live"
  /\ nextBatch' = Append(nextBatch, Numbered)
  /\ issued' = issued + 1
  /\ js' = [js EXCEPT !.pc = "idle"]
  /\ UNCHANGED <<platform, context, backlog, objectVars, flagVars, events, gl, performed,
                 destroys, view>>

\* the object id is given out now, and mapped when the command is performed
AddFutureToNextBatch ==
  /\ js.pc = "method" /\ js.op.kind = "create"
  /\ context = "live"
  /\ nextObjectId <= MaxObjects
  /\ nextBatch' = Append(nextBatch, [Numbered EXCEPT !.obj = nextObjectId])
  /\ issued' = issued + 1
  /\ nextObjectId' = nextObjectId + 1
  /\ futures' = futures \cup {nextObjectId}
  /\ js' = [js EXCEPT !.pc = "idle"]
  /\ UNCHANGED <<platform, context, backlog, objects, native, flagVars, events, gl, performed,
                 destroys, view>>

\* addBlockingToNextBatch, endFrameEXP: add the command and end the batch
EndNextBatch ==
  /\ js.pc = "method" /\ js.op.kind \in {"get", "frame"}
  /\ context = "live"
  /\ backlog' = backlog \o Append(nextBatch, Numbered)
  /\ nextBatch' = <<>>
  /\ issued' = issued + 1
  /\ js' = [js EXCEPT !.pc = "flush", !.op = Numbered]
  /\ UNCHANGED <<platform, context, objectVars, flagVars, events, gl, performed, destroys,
                 view>>

\* the context was destroyed after the method had found it: its command is lost, and an answer
\* never comes (undefined behaviour: the object is freed)
MethodOfDeleted ==
  /\ js.pc = "method" /\ context = "deleted"
  /\ js' = [js EXCEPT !.pc = IF js.op.kind = "get" THEN "hung" ELSE "idle"]
  /\ UNCHANGED <<platform, context, queueVars, objectVars, flagVars, events, gl, performed,
                 destroys, view>>

\* mutant: a flush that runs is taken for one that is still to come
MutCoalesceFlushes ==
  /\ js.pc = "flush"
  /\ js' = [js EXCEPT !.pc = IF js.op.kind = "get" THEN "wait" ELSE "idle"]
  /\ events' = IF gl.pc = "ready" THEN Append(events, "flush") ELSE events
  /\ UNCHANGED <<platform, context, queueVars, objectVars, flagVars, gl, performed, destroys,
                 view>>

\* flushOnGLThread; of a freed object, it may do nothing
FlushOnGLThread ==
  /\ js.pc = "flush"
  /\ js' = [js EXCEPT !.pc = IF js.op.kind = "get" THEN "wait" ELSE "idle"]
  /\ \/ events' = Append(events, "flush")
     \/ context = "deleted" /\ events' = events
  /\ UNCHANGED <<platform, context, queueVars, objectVars, flagVars, gl, performed, destroys,
                 view>>

\* mutant: it does not wait for the future
MutReturnAtOnce ==
  /\ js.pc = "wait"
  /\ js' = [js EXCEPT !.pc = "idle", !.gl = TRUE]
  /\ UNCHANGED <<platform, context, queueVars, objectVars, flagVars, events, gl, performed,
                 destroys, view>>

Return ==
  /\ js.pc = "wait" /\ js.done
  /\ js' = [js EXCEPT !.pc = "idle", !.gl = TRUE]
  /\ UNCHANGED <<platform, context, queueVars, objectVars, flagVars, events, gl, performed,
                 destroys, view>>

-----------------------------------------------------------------------------
(***************************************************************************)
(* The GL thread.                                                          *)
(***************************************************************************)
\* the next event: UEXGLContextFlush looks the context up, and does nothing without one
TakeEvent ==
  /\ gl.pc = "ready" /\ ~gl.interrupted /\ events # <<>>
  /\ events' = Tail(events)
  /\ gl' = [gl EXCEPT !.event = Head(events),
                      !.pc = IF context = "live" THEN "swap" ELSE "ready"]
  /\ UNCHANGED <<platform, context, js, queueVars, objectVars, flagVars, performed, destroys,
                 view>>

\* mutant: flush copies the backlog and does not clear it
MutCopyBacklog ==
  /\ gl.pc = "swap"
  /\ gl' = [gl EXCEPT !.pc = "run", !.copy = backlog]
  /\ UNCHANGED <<platform, context, js, queueVars, objectVars, flagVars, events, performed,
                 destroys, view>>

\* flush takes the whole backlog.  Nothing is left of it in a freed object
Swap ==
  /\ gl.pc = "swap"
  /\ gl' = [gl EXCEPT !.pc = "run", !.copy = backlog]
  /\ backlog' = <<>>
  /\ UNCHANGED <<platform, context, js, nextBatch, issued, objectVars, flagVars, events,
                 performed, destroys, view>>

\* one command.  What it writes to the context is lost if that was freed meanwhile
Perform ==
  LET op == Head(gl.copy)
      live == context = "live"
  IN /\ gl.pc = "run" /\ gl.copy # <<>>
     /\ gl' = [gl EXCEPT !.copy = Tail(gl.copy)]
     /\ performed' = op.n
     /\ objects' = IF live /\ op.kind = "create" THEN objects \cup {op.obj} ELSE objects
     /\ supports' = (supports \/ (live /\ op.kind = "init"))
     /\ redraw' = (redraw \/ (live /\ op.kind = "frame"))
     /\ js' = IF op.kind = "get" THEN [js EXCEPT !.done = TRUE] ELSE js
     /\ UNCHANGED <<platform, context, queueVars, nextObjectId, native, futures, events,
                    destroys, view>>

\* mutant: a frame is skipped when another flush is queued
MutSkipFrame ==
  /\ gl.pc = "run" /\ gl.copy = <<>> /\ gl.event = "flush"
  /\ gl' = [gl EXCEPT !.pc = "ready"]
  /\ redraw' = FALSE
  /\ view' = IF context = "live" /\ redraw /\ events = <<>>
             THEN [view EXCEPT !.drawn = performed, !.presented = platform = "android"]
             ELSE view
  /\ UNCHANGED <<platform, context, js, queueVars, objectVars, supports, events, performed,
                 destroys>>

\* after the commands of a flush, a frame that was ended is shown: Android swaps buffers, iOS
\* blits to the buffer that the draw loop presents
EndFlush ==
  /\ gl.pc = "run" /\ gl.copy = <<>> /\ gl.event = "flush"
  /\ gl' = [gl EXCEPT !.pc = "ready"]
  /\ \/ /\ context = "live" /\ redraw
        /\ redraw' = FALSE
        /\ view' = IF platform = "android"
                   THEN [view EXCEPT !.drawn = performed, !.shown = performed]
                   ELSE [view EXCEPT !.drawn = performed, !.presented = FALSE]
     \/ /\ ~(context = "live" /\ redraw)
        /\ UNCHANGED <<redraw, view>>
  /\ UNCHANGED <<platform, context, js, queueVars, objectVars, supports, events, performed,
                 destroys>>

\* UEXGLContextDestroy: with the object go its batches and its mapping
Delete ==
  /\ context' = IF context = "live" THEN "deleted" ELSE context
  /\ nextBatch' = <<>> /\ backlog' = <<>> /\ objects' = {}

\* iOS destroys the context on its GL queue, after a last flush
EndDestroy ==
  /\ gl.pc = "run" /\ gl.copy = <<>> /\ gl.event = "destroy"
  /\ gl' = [gl EXCEPT !.pc = "ready"]
  /\ Delete
  /\ UNCHANGED <<platform, js, issued, nextObjectId, native, futures, flagVars, events,
                 performed, destroys, view>>

\* take() throws although events may be left
Stop ==
  /\ gl.pc = "ready" /\ gl.interrupted
  /\ gl' = [gl EXCEPT !.pc = "stopped"]
  /\ UNCHANGED <<platform, context, js, queueVars, objectVars, flagVars, events, performed,
                 destroys, view>>

-----------------------------------------------------------------------------
(***************************************************************************)
(* Other threads.                                                          *)
(***************************************************************************)
\* mutant: iOS queues an event that its queue does not know
MutInterruptIOS ==
  /\ platform = "ios" /\ destroys < MaxDestroys
  /\ destroys' = destroys + 1
  /\ events' = Append(events, "interrupt")
  /\ UNCHANGED <<platform, context, js, queueVars, objectVars, flagVars, gl, performed, view>>

\* the view is removed, or destroyContextAsync is called.  On iOS this queues an event
DestroyIOS ==
  /\ platform = "ios" /\ destroys < MaxDestroys
  /\ destroys' = destroys + 1
  /\ events' = Append(events, "destroy")
  /\ UNCHANGED <<platform, context, js, queueVars, objectVars, flagVars, gl, performed, view>>

\* on Android it deletes the context at once, then interrupts the GL thread and joins it
DestroyAndroid ==
  /\ platform = "android" /\ destroys < MaxDestroys
  /\ ~gl.interrupted
  /\ destroys' = destroys + 1
  /\ Delete
  /\ gl' = [gl EXCEPT !.interrupted = TRUE]
  /\ UNCHANGED <<platform, js, issued, nextObjectId, native, futures, flagVars, events,
                 performed, view>>

\* mutant: the id is read and not reserved
MutNativeCreate ==
  /\ context = "live" /\ nextObjectId <= MaxObjects
  /\ native' = native \cup {nextObjectId}
  /\ UNCHANGED <<platform, context, js, queueVars, nextObjectId, objects, futures, flagVars,
                 events, gl, performed, destroys, view>>

\* objects of native code (camera textures): an id now, a GL object later and again, none at
\* the end
NativeCreate ==
  /\ context = "live" /\ nextObjectId <= MaxObjects
  /\ nextObjectId' = nextObjectId + 1
  /\ native' = native \cup {nextObjectId}
  /\ UNCHANGED <<platform, context, js, queueVars, objects, futures, flagVars, events, gl,
                 performed, destroys, view>>

NativeMap(obj) ==
  /\ context = "live" /\ obj \in native
  /\ objects' = objects \cup {obj}
  /\ UNCHANGED <<platform, context, js, queueVars, nextObjectId, native, futures, flagVars,
                 events, gl, performed, destroys, view>>

NativeDestroy(obj) ==
  /\ obj \in native
  /\ native' = native \ {obj}
  /\ objects' = objects \ {obj}
  /\ UNCHANGED <<platform, context, js, queueVars, nextObjectId, futures, flagVars, events, gl,
                 performed, destroys, view>>

\* the draw loop of iOS presents what was blitted, then notes that it has
Draw ==
  /\ platform = "ios" /\ context # "none"
  /\ ~view.presented /\ ~view.drawing
  /\ view' = [view EXCEPT !.shown = view.drawn, !.drawing = TRUE]
  /\ UNCHANGED <<platform, context, js, queueVars, objectVars, flagVars, events, gl, performed,
                 destroys>>

DrawEnded ==
  /\ view.drawing
  /\ view' = [view EXCEPT !.presented = TRUE, !.drawing = FALSE]
  /\ UNCHANGED <<platform, context, js, queueVars, objectVars, flagVars, events, gl, performed,
                 destroys>>

-----------------------------------------------------------------------------
JSStep ==
  \/ AddToNextBatch \/ AddFutureToNextBatch \/ EndNextBatch \/ MethodOfDeleted
  \/ FlushOnGLThread \/ Return
GLStep == TakeEvent \/ Swap \/ Perform \/ EndFlush \/ EndDestroy \/ Stop
UIStep == Draw \/ DrawEnded

Next ==
  \/ Create \/ EnterMethod
  \/ JSStep \/ GLStep \/ UIStep
  \/ DestroyIOS \/ DestroyAndroid
  \/ NativeCreate
  \/ \E obj \in native : NativeMap(obj) \/ NativeDestroy(obj)

Spec == Init /\ [][Next]_vars

\* a thread that has something to do goes on; the draw loop runs with the display.  Nothing
\* obliges the app to call a method, or anyone to destroy the context
Fairness == WF_vars(JSStep) /\ WF_vars(GLStep) /\ WF_vars(UIStep)
FairSpec == Spec /\ Fairness

-----------------------------------------------------------------------------
\* The context performs each command once, in the order JavaScript issued them, and a blocking
\* call returns only after its command (GLCommands).
Commands == INSTANCE GLCommands WITH
  open <- context = "live",
  waiting <- IF js.pc \in {"flush", "wait"} /\ js.op.kind = "get" THEN js.op.n ELSE 0
ImplementsCommands == Commands!Spec

\* When a command uses an object that an earlier one creates, that object is there: JavaScript
\* never needs to wait for it ("futures").
FuturesAreResolved ==
  gl.pc = "run" /\ gl.copy # <<>> /\ context = "live"
    => LET op == Head(gl.copy)
       IN op.kind = "bind" /\ op.obj \in futures => op.obj \in objects

\* The id of a future is not mapped before its command is performed (the assert in
\* addFutureToNextBatch), although native code takes ids from the same counter.
FutureIsUnmapped ==
  gl.pc = "run" /\ gl.copy # <<>> /\ Head(gl.copy).kind = "create"
    => Head(gl.copy).obj \notin objects

\* supportsWebGL2 is computed on the GL thread and read by methods on the JS thread: an app
\* that has its gl object never finds it unset, so no WebGL2 method is refused by mistake.
VersionIsKnown == js.gl /\ context = "live" => supports

\* While the context exists, a blocking call returns.
BlockingCallReturns == (js.pc = "wait") ~> (js.pc = "idle" \/ destroys > 0)

\* A frame that JavaScript ends is drawn, by the flush it asks for or by another one.
EndedFrameIsDrawn ==
  \A n \in 1..MaxOps :
    (js.pc = "flush" /\ js.op.kind = "frame" /\ js.op.n = n)
      ~> (view.drawn >= n \/ destroys > 0)

\* What is drawn is shown, while the context exists: blitting it tells the UI thread to present
\* it at its next draw (EXGLView.m).
DrawnFrameIsShown ==
  \A n \in 1..MaxOps : (view.drawn = n) ~> (view.shown >= n \/ destroys > 0)
=============================================================================
