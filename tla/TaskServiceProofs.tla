--------------------------- MODULE TaskServiceProofs ---------------------------
(***************************************************************************)
(* Theorems about TaskService, for any tasks and any bounds.               *)
(*                                                                         *)
(* An instance may get an event from three sides: executeTask gives it,    *)
(* setTaskManager hands over those that waited, flushQueuedEvents emits    *)
(* those that were kept.  That none comes twice follows from the numbers   *)
(* of events (one that is being executed is newer than all others), from   *)
(* when a manager is in a table (not before it is put there), and from the *)
(* queue being apart from what an instance holds until it is handed over.  *)
(* That the saved tasks are the registered ones unless saves overlap needs *)
(* to know that the one save under way is about to write the table.        *)
(***************************************************************************)
EXTENDS TaskService, SequenceTheorems, TLAPS

\* a process that does not run has no instances, executes nothing and saves nothing
Process ==
  ~up => /\ main.pc = "idle" /\ inst = [i \in Instances |-> NewInstance]
         /\ \A k \in Threads : Free(k)

\* the task manager of an instance was put in its table
WasPut(i) == inst[i].pc \notin {"new", "loading", "starting"}
Managers ==
  /\ \A k \in Kinds : managers[k] # None => WasPut(managers[k])
  /\ main.manager # None => WasPut(main.manager)

Held(i) == ToSet(inst[i].emitted) \cup ToSet(inst[i].buffer)

\* an event that is being executed is newer than all others
Older(e) == e.n <= nextEvent /\ (main.pc = "execute" => e.n < main.event.n)
Numbers ==
  /\ main.pc = "execute" => main.event.n = nextEvent
  /\ \A e \in ToSet(eventsQueue) : Older(e)
  /\ \A i \in Instances : \A e \in Held(i) : Older(e)

OnceIn(i) ==
  /\ ~WasPut(i) => inst[i].emitted = <<>> /\ inst[i].buffer = <<>>
  /\ inst[i].observed => inst[i].buffer = <<>>
  /\ IsInjective(inst[i].emitted) /\ IsInjective(inst[i].buffer)
  /\ ToSet(inst[i].emitted) \cap ToSet(inst[i].buffer) = {}
  /\ inst[i].pc = "put" => Held(i) \cap ToSet(eventsQueue) = {}
Once == IsInjective(eventsQueue) /\ \A i \in Instances : OnceIn(i)

EventInv == Managers /\ Numbers /\ Once

\* a save that met no other: it is the only one, and about to write the table
SaveInv ==
  up /\ ~overlapped =>
    /\ ~Saving => preferences = tasksTable
    /\ \A k \in Threads : \A tasks \in saving[k] : tasks = tasksTable
    /\ \A k, l \in Threads : Free(k) \/ Free(l) \/ k = l

\* The inductive invariant.
IInv ==
  /\ TypeOK /\ Process /\ EventInv
  /\ SaveInv /\ UndefinedTaskIsUnregistered

-----------------------------------------------------------------------------
(***************************************************************************)
(* The steps, by the part of the system that takes them.                   *)
(***************************************************************************)
JobStep(j) == StartJob(j) \/ JobTimeout(j) \/ CancelJob(j) \/ \E t \in Tasks : Broadcast(t, j)
HeadlessStep(i) == StartReactInstance(i) \/ LoadFailed(i) \/ Destroy(i) \/ CheckInvalidate(i)
ModuleStep(i) ==
  Launch(i) \/ SetTaskManager(i) \/ FlushQueuedEvents(i) \/ HostDestroy(i) \/ InstanceOver(i)
TaskStep(i) ==
  \/ \E e \in inst[i].running : Finish(i, e)
  \/ \E e \in inst[i].notified : UnregisterUndefined(i, e)
  \/ \E t \in Tasks : Register(i, t)
  \/ \E removed \in SUBSET Tasks : Unregister(i, removed)

LEMMA Steps ==
  ASSUME Next
  PROVE  \/ StartProcess \/ Crash \/ ExecuteTask \/ WriteToDisk
         \/ \E k \in Threads : Apply(k)
         \/ \E t \in Tasks : BroadcastError(t)
         \/ \E j \in Jobs : JobStep(j)
         \/ \E i \in Instances : HeadlessStep(i) \/ ModuleStep(i) \/ TaskStep(i)
<1>1. CASE StartProcess \/ Crash \/ ExecuteTask \/ WriteToDisk \/ \E k \in Threads : Apply(k)
  BY <1>1
<1>2. CASE \E t \in Tasks : BroadcastError(t) \/ \E j \in Jobs : Broadcast(t, j)
  BY <1>2 DEF JobStep
<1>3. CASE \E j \in Jobs : StartJob(j) \/ JobTimeout(j) \/ CancelJob(j)
  BY <1>3 DEF JobStep
<1>4. ASSUME NEW i \in Instances,
             \/ StartReactInstance(i) \/ LoadFailed(i) \/ Destroy(i) \/ Launch(i)
             \/ SetTaskManager(i) \/ FlushQueuedEvents(i) \/ CheckInvalidate(i)
             \/ HostDestroy(i) \/ InstanceOver(i)
      PROVE  HeadlessStep(i) \/ ModuleStep(i)
  BY <1>4 DEF HeadlessStep, ModuleStep
<1>5. ASSUME NEW i \in Instances,
             \/ \E e \in inst[i].running : Finish(i, e)
             \/ \E e \in inst[i].notified : UnregisterUndefined(i, e)
             \/ \E t \in Tasks : Register(i, t) \/ Unregister(i, {t})
             \/ Unregister(i, Tasks)
      PROVE  TaskStep(i)
  <2>1. \A t \in Tasks : {t} \in SUBSET Tasks
    OBVIOUS
  <2> QED BY <1>5, <2>1 DEF TaskStep
<1> QED BY <1>1, <1>2, <1>3, <1>4, <1>5 DEF Next

-----------------------------------------------------------------------------
(***************************************************************************)
(* Sequences of events.                                                    *)
(***************************************************************************)
LEMMA NoEvents ==
  <<>> \in Seq(Event) /\ ToSet(<<>>) = {} /\ IsInjective(<<>>)
<1>1. <<>> \in Seq(Event) /\ DOMAIN <<>> = {}
  OBVIOUS
<1> QED BY <1>1 DEF ToSet, IsInjective

LEMMA OneEvent ==
  ASSUME NEW e \in Event
  PROVE  <<e>> \in Seq(Event) /\ ToSet(<<e>>) = {e} /\ IsInjective(<<e>>)
<1>1. <<e>> \in Seq(Event) /\ DOMAIN <<e>> = {1} /\ <<e>>[1] = e
  OBVIOUS
<1> QED BY <1>1 DEF ToSet, IsInjective

LEMMA EventsType ==
  ASSUME NEW s \in Seq(Event)
  PROVE  ToSet(s) \subseteq Event
BY LenProperties, ElementOfSeq DEF ToSet

LEMMA ConcatEvents ==
  ASSUME NEW s \in Seq(Event), NEW t \in Seq(Event)
  PROVE  s \o t \in Seq(Event) /\ ToSet(s \o t) = ToSet(s) \cup ToSet(t)
<1>1. /\ s \o t \in Seq(Event) /\ Len(s) \in Nat /\ Len(t) \in Nat
      /\ DOMAIN s = 1..Len(s) /\ DOMAIN t = 1..Len(t)
      /\ DOMAIN (s \o t) = 1..Len(s) + Len(t)
      /\ \A i \in 1..Len(s) + Len(t) :
           (s \o t)[i] = IF i <= Len(s) THEN s[i] ELSE t[i - Len(s)]
  BY ConcatProperties, LenProperties
<1>2. ASSUME NEW i \in 1..Len(s) PROVE s[i] \in ToSet(s \o t)
  BY <1>1 DEF ToSet
<1>3. ASSUME NEW i \in 1..Len(t) PROVE t[i] \in ToSet(s \o t)
  <2>1. Len(s) + i \in 1..Len(s) + Len(t) /\ (s \o t)[Len(s) + i] = t[i]
    BY <1>1
  <2> QED BY <1>1, <2>1 DEF ToSet
<1>4. ASSUME NEW i \in 1..Len(s) + Len(t) PROVE (s \o t)[i] \in ToSet(s) \cup ToSet(t)
  <2>1. CASE i <= Len(s)
    BY <1>1, <2>1 DEF ToSet
  <2>2. CASE ~(i <= Len(s))
    <3>1. i - Len(s) \in 1..Len(t) /\ (s \o t)[i] = t[i - Len(s)]
      BY <1>1, <2>2
    <3> QED BY <1>1, <3>1 DEF ToSet
  <2> QED BY <2>1, <2>2
<1>5. ToSet(s) \subseteq ToSet(s \o t) /\ ToSet(t) \subseteq ToSet(s \o t)
  BY <1>1, <1>2, <1>3 DEF ToSet
<1>6. ToSet(s \o t) \subseteq ToSet(s) \cup ToSet(t)
  BY <1>1, <1>4 DEF ToSet
<1> QED BY <1>1, <1>5, <1>6

LEMMA ConcatOnce ==
  ASSUME NEW s \in Seq(Event), NEW t \in Seq(Event),
         IsInjective(s), IsInjective(t), ToSet(s) \cap ToSet(t) = {}
  PROVE  IsInjective(s \o t)
<1>1. /\ Len(s) \in Nat /\ Len(t) \in Nat
      /\ DOMAIN s = 1..Len(s) /\ DOMAIN t = 1..Len(t)
      /\ DOMAIN (s \o t) = 1..Len(s) + Len(t)
      /\ \A i \in 1..Len(s) + Len(t) :
           (s \o t)[i] = IF i <= Len(s) THEN s[i] ELSE t[i - Len(s)]
  BY ConcatProperties, LenProperties
<1>2. \A i \in 1..Len(s), j \in 1..Len(t) : s[i] # t[j]
  BY <1>1 DEF ToSet
<1>3. SUFFICES ASSUME NEW a \in 1..Len(s) + Len(t), NEW b \in 1..Len(s) + Len(t),
                      (s \o t)[a] = (s \o t)[b]
               PROVE  a = b
  BY <1>1 DEF IsInjective
<1>4. CASE a <= Len(s) /\ b <= Len(s)
  BY <1>1, <1>3, <1>4 DEF IsInjective
<1>5. CASE ~(a <= Len(s)) /\ ~(b <= Len(s))
  <2>1. a - Len(s) \in 1..Len(t) /\ b - Len(s) \in 1..Len(t)
    BY <1>1, <1>5
  <2>2. a - Len(s) = b - Len(s)
    BY <1>1, <1>3, <1>5, <2>1 DEF IsInjective
  <2> QED BY <1>1, <2>2
<1>6. CASE a <= Len(s) /\ ~(b <= Len(s))
  <2>1. a \in 1..Len(s) /\ b - Len(s) \in 1..Len(t)
    BY <1>1, <1>6
  <2> QED BY <1>1, <1>2, <1>3, <1>6, <2>1
<1>7. CASE ~(a <= Len(s)) /\ b <= Len(s)
  <2>1. b \in 1..Len(s) /\ a - Len(s) \in 1..Len(t)
    BY <1>1, <1>7
  <2> QED BY <1>1, <1>2, <1>3, <1>7, <2>1
<1> QED BY <1>4, <1>5, <1>6, <1>7

LEMMA AppendEvent ==
  ASSUME NEW s \in Seq(Event), NEW e \in Event
  PROVE  /\ Append(s, e) \in Seq(Event) /\ ToSet(Append(s, e)) = ToSet(s) \cup {e}
         /\ IsInjective(s) /\ e \notin ToSet(s) => IsInjective(Append(s, e))
<1>1. Append(s, e) = s \o <<e>>
  BY AppendIsConcat
<1>2. Append(s, e) \in Seq(Event) /\ ToSet(Append(s, e)) = ToSet(s) \cup {e}
  BY <1>1, OneEvent, ConcatEvents
<1>3. ASSUME IsInjective(s), e \notin ToSet(s) PROVE IsInjective(Append(s, e))
  <2>1. <<e>> \in Seq(Event) /\ IsInjective(<<e>>) /\ ToSet(s) \cap ToSet(<<e>>) = {}
    BY <1>3, OneEvent
  <2> QED BY <1>1, <1>3, <2>1, ConcatOnce
<1> QED BY <1>2, <1>3

-----------------------------------------------------------------------------
(***************************************************************************)
(* Types.                                                                  *)
(***************************************************************************)
LEMMA FirstTask == (CHOOSE t \in Tasks : TRUE) \in Tasks
BY TasksAssumption

LEMMA InitialTypes == Idle \in MainThread /\ NewJob \in Job /\ NewInstance \in Instance /\ Over \in Instance
<1>1. Idle \in MainThread
  BY FirstTask DEF Idle, MainThread, Event
<1>2. NewJob \in Job
  BY FirstTask DEF NewJob, Job
<1>3. NewInstance \in Instance
  BY NoEvents DEF NewInstance, Instance, Kinds
<1>4. Over \in Instance
  BY <1>3 DEF Over, NewInstance, Instance
<1> QED BY <1>1, <1>2, <1>3, <1>4

LEMMA GivenType ==
  ASSUME NEW r \in Instance, NEW body \in Seq(Event)
  PROVE  Given(r, body) \in Instance
<1>1. r.buffer \o body \in Seq(Event) /\ r.emitted \o body \in Seq(Event)
  BY ConcatEvents DEF Instance
<1>2. r.running \cup ToSet(body) \subseteq Event
  BY EventsType DEF Instance
<1>3. CASE r.pc = "over"
  BY <1>3 DEF Given
<1>4. CASE r.pc # "over" /\ ~r.observed
  BY <1>1, <1>4 DEF Given, Instance
<1>5. CASE r.pc # "over" /\ r.observed
  BY <1>1, <1>2, <1>5 DEF Given, Instance
<1> QED BY <1>3, <1>4, <1>5 DEF Instance

LEMMA JobsType ==
  ASSUME TypeOK, NEW j \in Jobs
  PROVE  /\ Ended(jobs[j]) \in Job
         /\ [jobs EXCEPT ![j] = Ended(@)] \in [Jobs -> Job]
         /\ \A id \in Nat : Cancelled(id) \in [Jobs -> Job]
<1>1. \A k \in Jobs : jobs[k] \in Job
  BY DEF TypeOK
<1>2. \A k \in Jobs : [jobs[k] EXCEPT !.state = "ended", !.timer = FALSE] \in Job
  BY <1>1 DEF Job
<1>3. \A k \in Jobs : [jobs[k] EXCEPT !.state = "lost", !.timer = FALSE] \in Job
  BY <1>1 DEF Job
<1> QED BY <1>1, <1>2, <1>3 DEF Ended, Cancelled, TypeOK

LEMMA ManagersForType ==
  ASSUME TypeOK
  PROVE  ManagersFor \subseteq {managers[k] : k \in Kinds} \cup {None}
BY DEF ManagersFor, TypeOK, Kinds

LEMMA BeginType ==
  ASSUME TypeOK, NEW t \in Tasks, NEW j \in Nat, BeginExecute(t, j)
  PROVE  main' \in MainThread /\ nextEvent' \in Nat
<1>1. nextEvent \in Nat /\ managers \in [Kinds -> Instances \cup {None}]
  BY DEF TypeOK
<1>2. PICK m \in ManagersFor :
        main' = [pc |-> "execute", event |-> [n |-> nextEvent + 1, task |-> t, job |-> j],
                 manager |-> m]
  BY DEF BeginExecute
<1>3. m \in Instances \cup {None}
  BY <1>1, ManagersForType
<1>4. [n |-> nextEvent + 1, task |-> t, job |-> j] \in Event
  BY <1>1 DEF Event
<1> QED BY <1>1, <1>2, <1>3, <1>4 DEF BeginExecute, MainThread

SaveTypeOK ==
  /\ {preferences, disk} \subseteq SUBSET Tasks
  /\ saving \in [Threads -> SUBSET SUBSET Tasks] /\ overlapped \in BOOLEAN

LEMMA SaveType ==
  ASSUME TypeOK, NEW k \in Threads, NEW tasks \in SUBSET Tasks,
         SaveTasks(k, tasks) \/ RewriteRecord(k) \/ UNCHANGED saveVars
  PROVE  SaveTypeOK'
<1>1. /\ preferences \in SUBSET Tasks /\ disk \in SUBSET Tasks
      /\ saving \in [Threads -> SUBSET SUBSET Tasks] /\ overlapped \in BOOLEAN
  BY DEF TypeOK
<1>2. CASE SaveTasks(k, tasks)
  BY <1>1, <1>2 DEF SaveTasks, SaveTypeOK, Saving
<1>3. CASE RewriteRecord(k)
  BY <1>1, <1>3 DEF RewriteRecord, SaveTypeOK, Saving
<1>4. CASE UNCHANGED saveVars
  BY <1>1, <1>4 DEF saveVars, SaveTypeOK
<1> QED BY <1>2, <1>3, <1>4

\* the list of events, before and after
LEMMA ListType ==
  ASSUME TypeOK, NEW e \in Event
  PROVE  /\ Added(e) \subseteq SUBSET Event
         /\ {(UNION events) \ {e}} \subseteq SUBSET Event
         /\ {list \ {e} : list \in events} \subseteq SUBSET Event
<1>1. \A list \in events : list \subseteq Event
  BY DEF TypeOK
<1>2. UNION events \subseteq Event
  <2>1. ASSUME NEW x \in UNION events PROVE x \in Event
    <3>1. PICK list \in events : x \in list
      OBVIOUS
    <3> QED BY <1>1, <3>1
  <2> QED BY <2>1
<1>3. (UNION events) \cup {e} \subseteq Event /\ (UNION events) \ {e} \subseteq Event
  BY <1>2
<1>4. \A list \in events : list \ {e} \subseteq Event
  BY <1>1
<1> QED BY <1>3, <1>4 DEF Added

LEMMA InitType == Init => TypeOK
<1> SUFFICES ASSUME Init PROVE TypeOK
  OBVIOUS
<1>1. inst \in [Instances -> Instance] /\ jobs \in [Jobs -> Job] /\ main \in MainThread
  BY InitialTypes DEF Init
<1>2. events \subseteq SUBSET Event /\ eventsQueue \in Seq(Event)
  BY NoEvents DEF Init
<1>3. managers \in [Kinds -> Instances \cup {None}] /\ appRecord \in Instances \cup {None}
  BY DEF Init
<1>4. up \in BOOLEAN /\ loader \in BOOLEAN
  BY DEF Init
<1>5. /\ {tasksTable, preferences, disk, renewed} \subseteq SUBSET Tasks
      /\ saving \in [Threads -> SUBSET SUBSET Tasks] /\ overlapped \in BOOLEAN
  BY DEF Init
<1>6. {nextJobId, nextEvent, changes} \subseteq Nat
  <2>1. nextJobId = 1 /\ nextEvent = 0 /\ changes = 0
    BY DEF Init
  <2> QED BY <2>1
<1> QED BY <1>1, <1>2, <1>3, <1>4, <1>5, <1>6 DEF TypeOK

\* what the actions make of the record of an instance
LEMMA UpdatesType ==
  ASSUME NEW r \in Instance
  PROVE  /\ \A pc \in {"starting", "put", "queue", "run", "detached"} :
              [r EXCEPT !.pc = pc] \in Instance
         /\ [r EXCEPT !.pc = "loading", !.kind = "headless"] \in Instance
         /\ [r EXCEPT !.pc = "starting", !.reachable = TRUE] \in Instance
         /\ \A b \in BOOLEAN : [r EXCEPT !.dying = b] \in Instance
         /\ r.checks > 0 => [r EXCEPT !.checks = @ - 1] \in Instance
         /\ \A R \in SUBSET Event : [r EXCEPT !.notified = R] \in Instance
         /\ \A E \in Seq(Event), R \in SUBSET Event :
              [r EXCEPT !.observed = TRUE, !.buffer = <<>>, !.emitted = E, !.running = R]
                \in Instance
         /\ \A R \in SUBSET Event, S \in SUBSET Event, n \in Nat :
              [r EXCEPT !.running = R, !.notified = S, !.checks = n] \in Instance
<1>1. <<>> \in Seq(Event)
  BY NoEvents
<1>2. \A pc \in {"starting", "put", "queue", "run", "detached"} : [r EXCEPT !.pc = pc] \in Instance
  BY DEF Instance
<1>3. [r EXCEPT !.pc = "loading", !.kind = "headless"] \in Instance
  BY DEF Instance, Kinds
<1>4. [r EXCEPT !.pc = "starting", !.reachable = TRUE] \in Instance
  BY DEF Instance
<1>5. \A b \in BOOLEAN : [r EXCEPT !.dying = b] \in Instance
  BY DEF Instance
<1>6. ASSUME r.checks > 0 PROVE [r EXCEPT !.checks = @ - 1] \in Instance
  <2>1. r.checks - 1 \in Nat
    BY <1>6 DEF Instance
  <2> QED BY <2>1 DEF Instance
<1>7. \A R \in SUBSET Event : [r EXCEPT !.notified = R] \in Instance
  BY DEF Instance
<1>8. \A E \in Seq(Event), R \in SUBSET Event :
        [r EXCEPT !.observed = TRUE, !.buffer = <<>>, !.emitted = E, !.running = R] \in Instance
  BY <1>1 DEF Instance
<1>9. \A R \in SUBSET Event, S \in SUBSET Event, n \in Nat :
        [r EXCEPT !.running = R, !.notified = S, !.checks = n] \in Instance
  BY DEF Instance
<1> QED BY <1>2, <1>3, <1>4, <1>5, <1>6, <1>7, <1>8, <1>9

\* the record that an action writes, as a whole
LEMMA WrittenRecord ==
  ASSUME inst \in [Instances -> Instance], NEW i \in Instances
  PROVE  /\ StartReactInstance(i) =>
              inst' = [inst EXCEPT ![i] = [inst[i] EXCEPT !.pc = "starting", !.reachable = TRUE]]
         /\ LoadApp(i) =>
              inst' = [inst EXCEPT ![i] = [inst[i] EXCEPT !.pc = "loading", !.kind = "headless"]]
         /\ Launch(i) => inst' = [inst EXCEPT ![i] = [inst[i] EXCEPT !.pc = "starting"]]
         /\ PutTaskManager(i) => inst' = [inst EXCEPT ![i] = [inst[i] EXCEPT !.pc = "put"]]
         /\ RemoveQueue(i) => inst' = [inst EXCEPT ![i] = [inst[i] EXCEPT !.pc = "run"]]
         /\ HostDestroy(i) => inst' = [inst EXCEPT ![i] = [inst[i] EXCEPT !.pc = "detached"]]
<1> QED
  BY DEF StartReactInstance, LoadApp, Launch, PutTaskManager, RemoveQueue, HostDestroy

LEMMA WrittenByFlush ==
  ASSUME inst \in [Instances -> Instance], NEW i \in Instances, FlushQueuedEvents(i)
  PROVE  inst' = [inst EXCEPT ![i] =
           [inst[i] EXCEPT !.observed = TRUE, !.buffer = <<>>,
                           !.emitted = inst[i].emitted \o inst[i].buffer,
                           !.running = inst[i].running \cup ToSet(inst[i].buffer)]]
BY DEF FlushQueuedEvents, Instance

LEMMA WrittenByFinish ==
  ASSUME inst \in [Instances -> Instance], NEW i \in Instances,
         NEW e \in inst[i].running, Finish(i, e)
  PROVE  \E S \in {inst[i].notified, inst[i].notified \cup {e}},
           n \in {inst[i].checks, inst[i].checks + 1} :
           inst' = [inst EXCEPT ![i] = [inst[i] EXCEPT !.running = inst[i].running \ {e},
                                                       !.notified = S, !.checks = n]]
BY DEF Finish

LEMMA WrittenByUnregister ==
  ASSUME inst \in [Instances -> Instance], NEW i \in Instances,
         NEW e \in inst[i].notified, UnregisterUndefined(i, e)
  PROVE  inst' = [inst EXCEPT ![i] = [inst[i] EXCEPT !.notified = inst[i].notified \ {e}]]
BY DEF UnregisterUndefined

\* what an action does not touch keeps its type
LEMMA InstType ==
  ASSUME TypeOK, NEW i \in Instances, NEW r \in Instance, inst' = [inst EXCEPT ![i] = r]
  PROVE  inst' \in [Instances -> Instance]
BY DEF TypeOK

LEMMA InstTypePc ==
  ASSUME TypeOK, NEW i \in Instances, NEW pc \in {"starting", "put", "run", "detached"},
         inst' = [inst EXCEPT ![i] = [inst[i] EXCEPT !.pc = pc]]
  PROVE  inst' \in [Instances -> Instance]
<1> DEFINE r == [inst[i] EXCEPT !.pc = pc]
<1>1. inst[i] \in Instance
  BY DEF TypeOK
<1>2. r \in Instance
  BY <1>1, UpdatesType
<1>3. inst' = [inst EXCEPT ![i] = r]
  OBVIOUS
<1> HIDE DEF r
<1> QED BY <1>2, <1>3, InstType

LEMMA TypeProcess == TypeOK /\ (StartProcess \/ Crash) => TypeOK'
<1> SUFFICES ASSUME TypeOK, StartProcess \/ Crash PROVE TypeOK'
  OBVIOUS
<1>1. CASE StartProcess
  <2>1. preferences \in SUBSET Tasks
    BY DEF TypeOK
  <2>2. tasksTable' \in SUBSET Tasks /\ preferences' \in SUBSET Tasks
    BY <1>1, <2>1 DEF StartProcess
  <2>3. up' \in BOOLEAN /\ overlapped' \in BOOLEAN
    BY <1>1 DEF StartProcess
  <2>4. UNCHANGED <<loader, disk, saving, renewed, eventVars, inst, main, jobVars, nextEvent, changes>>
    BY <1>1 DEF StartProcess
  <2> QED BY <2>2, <2>3, <2>4 DEF TypeOK, eventVars, jobVars
<1>2. CASE Crash
  <2>1. inst' \in [Instances -> Instance] /\ main' \in MainThread
    BY <1>2, InitialTypes DEF Crash
  <2>2. jobs' \in [Jobs -> Job]
    <3>1. \A j \in Jobs : jobs[j] \in Job
      BY DEF TypeOK
    <3>2. \A j \in Jobs : [jobs[j] EXCEPT !.state = "pending", !.timer = FALSE] \in Job
      BY <3>1 DEF Job
    <3> QED BY <1>2, <3>1, <3>2 DEF Crash
  <2>3. events' \subseteq SUBSET Event /\ eventsQueue' \in Seq(Event)
    BY <1>2, NoEvents DEF Crash
  <2>4. managers' \in [Kinds -> Instances \cup {None}] /\ appRecord' \in Instances \cup {None}
    BY <1>2 DEF Crash
  <2>5. /\ up' \in BOOLEAN /\ loader' \in BOOLEAN
        /\ {tasksTable, preferences, disk, renewed}' \subseteq SUBSET Tasks
        /\ saving' \in [Threads -> SUBSET SUBSET Tasks] /\ overlapped' \in BOOLEAN
    <3>1. disk \in SUBSET Tasks /\ loader \in BOOLEAN
      BY DEF TypeOK
    <3>2. /\ tasksTable' = {} /\ renewed' = {} /\ preferences' = disk /\ disk' = disk
          /\ up' = FALSE /\ loader' = loader /\ overlapped' = FALSE
          /\ saving' = [k \in Threads |-> {}]
      BY <1>2 DEF Crash
    <3> QED BY <3>1, <3>2
  <2>6. {nextJobId, nextEvent, changes}' \subseteq Nat
    <3>1. nextJobId' = 1 /\ nextEvent' = 0 /\ changes' = 0
      BY <1>2 DEF Crash
    <3> QED BY <3>1
  <2> QED BY <2>1, <2>2, <2>3, <2>4, <2>5, <2>6 DEF TypeOK
<1> QED BY <1>1, <1>2

LEMMA TypeSaves == TypeOK /\ (WriteToDisk \/ \E k \in Threads : Apply(k)) => TypeOK'
<1>1. ASSUME TypeOK, WriteToDisk PROVE TypeOK'
  BY <1>1 DEF WriteToDisk, TypeOK, eventVars, jobVars
<1>2. ASSUME TypeOK, NEW k \in Threads, Apply(k) PROVE TypeOK'
  <2>1. preferences' \in SUBSET Tasks /\ saving' \in [Threads -> SUBSET SUBSET Tasks]
    BY <1>2 DEF Apply, TypeOK
  <2> QED BY <1>2, <2>1 DEF Apply, TypeOK, eventVars, jobVars
<1> QED BY <1>1, <1>2

LEMMA TypeJobs ==
  ASSUME TypeOK, NEW j \in Jobs, JobStep(j)
  PROVE  TypeOK'
<1>0. jobs \in [Jobs -> Job] /\ jobs[j] \in Job /\ j \in Nat /\ nextJobId \in Nat
  BY DEF TypeOK, Jobs
<1>1. ASSUME NEW t \in Tasks, Broadcast(t, j) PROVE TypeOK'
  <2>1. Cancelled(nextJobId) \in [Jobs -> Job]
    BY <1>0, JobsType
  <2>2. [state |-> "pending", id |-> nextJobId, task |-> t, timer |-> FALSE] \in Job
    BY <1>0 DEF Job
  <2>3. jobs' \in [Jobs -> Job] /\ nextJobId' \in Nat
    BY <1>0, <1>1, <2>1, <2>2 DEF Broadcast
  <2> QED BY <1>1, <2>3 DEF Broadcast, TypeOK, tableVars, saveVars, eventVars
<1>2. CASE StartJob(j)
  <2>1. /\ [jobs[j] EXCEPT !.state = "ended"] \in Job
        /\ [jobs[j] EXCEPT !.state = "running", !.timer = TRUE] \in Job
    BY <1>0 DEF Job
  <2>2. \/ jobs' = [jobs EXCEPT ![j] = [jobs[j] EXCEPT !.state = "ended"]]
        \/ jobs' = [jobs EXCEPT ![j] = [jobs[j] EXCEPT !.state = "running", !.timer = TRUE]]
    BY <1>0, <1>2 DEF StartJob
  <2>3. jobs' \in [Jobs -> Job]
    BY <1>0, <2>1, <2>2
  <2>4. main' \in MainThread /\ nextEvent' \in Nat
    <3>1. CASE UNCHANGED <<main, nextEvent>>
      BY <3>1 DEF TypeOK
    <3>2. CASE BeginExecute(jobs[j].task, IF jobs[j].task \in Geofencing THEN 0 ELSE j)
      <4>1. jobs[j].task \in Tasks /\ (IF jobs[j].task \in Geofencing THEN 0 ELSE j) \in Nat
        BY <1>0 DEF Job
      <4> QED BY <3>2, <4>1, BeginType
    <3> QED BY <1>2, <3>1, <3>2 DEF StartJob
  <2> QED BY <1>2, <2>3, <2>4 DEF StartJob, TypeOK, tableVars, saveVars, eventVars
<1>3. CASE JobTimeout(j) \/ CancelJob(j)
  <2>1. jobs' \in [Jobs -> Job]
    BY <1>3, JobsType DEF JobTimeout, CancelJob
  <2> QED BY <1>3, <2>1 DEF JobTimeout, CancelJob, TypeOK, tableVars, saveVars, eventVars
<1> QED BY <1>1, <1>2, <1>3 DEF JobStep

LEMMA TypeExecute == TypeOK /\ ExecuteTask => TypeOK'
<1> SUFFICES ASSUME TypeOK, ExecuteTask PROVE TypeOK'
  OBVIOUS
<1>1. /\ main.event \in Event /\ main.manager \in Instances \cup {None}
      /\ eventsQueue \in Seq(Event)
      /\ inst \in [Instances -> Instance] /\ tasksTable \subseteq Tasks
  BY DEF TypeOK, MainThread
<1>2. /\ Added(main.event) \subseteq SUBSET Event
      /\ {list \ {main.event} : list \in events} \subseteq SUBSET Event
  BY <1>1, ListType
<1>3. Append(eventsQueue, main.event) \in Seq(Event) /\ <<>> \in Seq(Event)
  BY <1>1, AppendEvent, NoEvents
<1>4. Idle \in MainThread
  BY InitialTypes
<1>5. CASE ExecuteTaskWithManager
  <2>1. main.manager \in Instances
    BY <1>1, <1>5 DEF ExecuteTaskWithManager
  <2>2. Given(inst[main.manager], <<main.event>>) \in Instance
    BY <1>1, <2>1, OneEvent, GivenType
  <2>3. inst' = [inst EXCEPT ![main.manager] = Given(inst[main.manager], <<main.event>>)]
    BY <1>5 DEF ExecuteTaskWithManager
  <2>4. inst' \in [Instances -> Instance]
    BY <2>1, <2>2, <2>3, InstType
  <2> QED
    BY <1>2, <1>4, <1>5, <2>4 DEF ExecuteTaskWithManager, TypeOK, tableVars, saveVars, jobVars
<1>6. CASE QueueEvent
  BY <1>2, <1>3, <1>4, <1>6 DEF QueueEvent, TypeOK, tableVars, saveVars, jobVars
<1>7. CASE LoadAppRefused
  <2>1. tasksTable' \in SUBSET Tasks /\ 0 \in Threads
    BY <1>1, <1>7, BoundsAssumption DEF LoadAppRefused, Threads
  <2>2. SaveTypeOK'
    BY <1>7, <2>1, SaveType DEF LoadAppRefused
  <2>3. main' \in MainThread
    BY <1>7 DEF LoadAppRefused, TypeOK, MainThread
  <2>4. events' \subseteq SUBSET Event /\ eventsQueue' \in Seq(Event)
    BY <1>2, <1>3, <1>7 DEF LoadAppRefused
  <2>5. UNCHANGED <<up, loader, renewed, managers, appRecord, inst, jobVars, nextEvent, changes>>
    BY <1>7 DEF LoadAppRefused
  <2> QED BY <2>1, <2>2, <2>3, <2>4, <2>5 DEF TypeOK, jobVars, SaveTypeOK
<1>9. CASE EndRefused
  BY <1>2, <1>3, <1>4, <1>9 DEF EndRefused, TypeOK, tableVars, saveVars, jobVars
<1>8. ASSUME NEW i \in Instances, LoadApp(i) PROVE TypeOK'
  <2> DEFINE r == [inst[i] EXCEPT !.pc = "loading", !.kind = "headless"]
  <2>1. r \in Instance
    BY <1>1, UpdatesType
  <2>2. inst' \in [Instances -> Instance]
    <3>1. inst' = [inst EXCEPT ![i] = r]
      BY <1>1, <1>8, WrittenRecord
    <3> HIDE DEF r
    <3> QED BY <2>1, <3>1, InstType
  <2>3. appRecord' \in Instances \cup {None}
    BY <1>8 DEF LoadApp
  <2>4. events' \subseteq SUBSET Event /\ eventsQueue' \in Seq(Event) /\ main' \in MainThread
    BY <1>2, <1>3, <1>4, <1>8 DEF LoadApp
  <2>5. UNCHANGED <<up, loader, tableVars, managers, jobVars, nextEvent, changes>>
    BY <1>8 DEF LoadApp
  <2> QED BY <2>2, <2>3, <2>4, <2>5 DEF TypeOK, tableVars, saveVars, jobVars
<1> QED BY <1>5, <1>6, <1>7, <1>8, <1>9 DEF ExecuteTask

LEMMA TypeHeadless ==
  ASSUME TypeOK, NEW i \in Instances, HeadlessStep(i)
  PROVE  TypeOK'
<1>1. inst \in [Instances -> Instance] /\ inst[i] \in Instance
  BY DEF TypeOK
<1>2. Over \in Instance
  BY InitialTypes
<1>3. CASE StartReactInstance(i)
  <2>1. inst' \in [Instances -> Instance]
    <3> DEFINE r == [inst[i] EXCEPT !.pc = "starting", !.reachable = TRUE]
    <3>1. r \in Instance
      BY <1>1, UpdatesType
    <3>2. inst' = [inst EXCEPT ![i] = r]
      BY <1>1, <1>3, WrittenRecord
    <3> HIDE DEF r
    <3> QED BY <3>1, <3>2, InstType
  <2> QED BY <1>3, <2>1 DEF StartReactInstance, TypeOK, tableVars, saveVars, eventVars, jobVars
<1>4. CASE LoadFailed(i)
  <2>1. inst' \in [Instances -> Instance]
    BY <1>2, <1>4, InstType DEF LoadFailed
  <2>2. tasksTable' \in SUBSET Tasks /\ i \in Threads
    BY <1>4, BoundsAssumption DEF LoadFailed, Instances, Threads
  <2>3. SaveTypeOK'
    BY <1>4, <2>2, SaveType DEF LoadFailed
  <2> QED BY <1>4, <2>1, <2>2, <2>3, NoEvents DEF LoadFailed, TypeOK, jobVars, SaveTypeOK
<1>5. CASE Destroy(i)
  <2>1. inst' \in [Instances -> Instance]
    BY <1>2, <1>5, InstType DEF Destroy
  <2> QED BY <1>5, <2>1 DEF Destroy, TypeOK, tableVars, saveVars, eventVars, jobVars
<1>6. CASE CheckInvalidate(i)
  <2> DEFINE checked == [inst EXCEPT ![i].checks = @ - 1]
  <2>1. checked \in [Instances -> Instance]
    <3>1. [inst[i] EXCEPT !.checks = @ - 1] \in Instance
      BY <1>1, <1>6, UpdatesType DEF CheckInvalidate
    <3> QED BY <1>1, <3>1
  <2>2. ASSUME NEW k \in Instances
        PROVE  [checked EXCEPT ![k].dying = inst[k].reachable] \in [Instances -> Instance]
    <3>1. inst[k].reachable \in BOOLEAN
      BY <1>1 DEF Instance
    <3>2. [checked[k] EXCEPT !.dying = inst[k].reachable] \in Instance
      BY <2>1, <3>1, UpdatesType
    <3> QED BY <2>1, <3>2
  <2>3. inst' = checked \/ \E k \in Instances :
          inst' = [checked EXCEPT ![k].dying = inst[k].reachable]
    BY <1>6 DEF CheckInvalidate, TypeOK
  <2>4. inst' \in [Instances -> Instance]
    BY <2>1, <2>2, <2>3
  <2>5. appRecord' \in Instances \cup {None} /\ managers' \in [Kinds -> Instances \cup {None}]
    BY <1>6 DEF CheckInvalidate, TypeOK
  <2> QED BY <1>6, <2>4, <2>5 DEF CheckInvalidate, TypeOK, tableVars, saveVars, jobVars
<1> QED BY <1>3, <1>4, <1>5, <1>6 DEF HeadlessStep

LEMMA TypeModules ==
  ASSUME TypeOK, NEW i \in Instances, ModuleStep(i)
  PROVE  TypeOK'
<1>1. /\ inst \in [Instances -> Instance] /\ inst[i] \in Instance
      /\ managers \in [Kinds -> Instances \cup {None}] /\ eventsQueue \in Seq(Event)
  BY DEF TypeOK
<1>2. CASE Launch(i)
  <2>1. inst' \in [Instances -> Instance]
    <3>1. inst' = [inst EXCEPT ![i] = [inst[i] EXCEPT !.pc = "starting"]]
      BY <1>1, <1>2, WrittenRecord
    <3> QED BY <3>1, InstTypePc
  <2> QED BY <1>2, <2>1 DEF Launch, TypeOK, tableVars, saveVars, eventVars, jobVars
<1>3. CASE PutTaskManager(i)
  <2>1. inst' \in [Instances -> Instance]
    <3>1. inst' = [inst EXCEPT ![i] = [inst[i] EXCEPT !.pc = "put"]]
      BY <1>1, <1>3, WrittenRecord
    <3> QED BY <3>1, InstTypePc
  <2>2. managers' \in [Kinds -> Instances \cup {None}]
    BY <1>1, <1>3 DEF PutTaskManager
  <2> QED BY <1>3, <2>1, <2>2 DEF PutTaskManager, TypeOK, tableVars, saveVars, jobVars
<1>4. CASE ExecuteQueue(i)
  <2>1. Given(inst[i], eventsQueue) \in Instance
    BY <1>1, GivenType
  <2>2. [Given(inst[i], eventsQueue) EXCEPT !.pc = "queue"] \in Instance
    BY <2>1, UpdatesType
  <2>3. inst' \in [Instances -> Instance]
    BY <1>4, <2>2, InstType DEF ExecuteQueue
  <2> QED BY <1>4, <2>3 DEF ExecuteQueue, TypeOK, tableVars, saveVars, eventVars, jobVars
<1>5. CASE RemoveQueue(i)
  <2>1. inst' \in [Instances -> Instance]
    <3>1. inst' = [inst EXCEPT ![i] = [inst[i] EXCEPT !.pc = "run"]]
      BY <1>1, <1>5, WrittenRecord
    <3> QED BY <3>1, InstTypePc
  <2>2. i \in Threads /\ {} \in SUBSET Tasks
    BY BoundsAssumption DEF Instances, Threads
  <2>3. SaveTypeOK'
    BY <1>5, <2>2, SaveType DEF RemoveQueue
  <2> QED BY <1>5, <2>1, <2>3, NoEvents DEF RemoveQueue, TypeOK, jobVars, SaveTypeOK
<1>6. CASE FlushQueuedEvents(i)
  <2>1. inst[i].emitted \o inst[i].buffer \in Seq(Event)
        /\ inst[i].running \cup ToSet(inst[i].buffer) \in SUBSET Event
    BY <1>1, ConcatEvents, EventsType DEF Instance
  <2>2. inst' \in [Instances -> Instance]
    <3> DEFINE r == [inst[i] EXCEPT !.observed = TRUE, !.buffer = <<>>,
                                    !.emitted = inst[i].emitted \o inst[i].buffer,
                                    !.running = inst[i].running \cup ToSet(inst[i].buffer)]
    <3>1. r \in Instance
      BY <1>1, <2>1, UpdatesType
    <3>2. inst' = [inst EXCEPT ![i] = r]
      BY <1>1, <1>6, WrittenByFlush
    <3> HIDE DEF r
    <3> QED BY <3>1, <3>2, InstType
  <2> QED BY <1>6, <2>2 DEF FlushQueuedEvents, TypeOK, tableVars, saveVars, eventVars, jobVars
<1>7. CASE HostDestroy(i)
  <2>1. inst' \in [Instances -> Instance]
    <3>1. inst' = [inst EXCEPT ![i] = [inst[i] EXCEPT !.pc = "detached"]]
      BY <1>1, <1>7, WrittenRecord
    <3> QED BY <3>1, InstTypePc
  <2>2. managers' \in [Kinds -> Instances \cup {None}]
    BY <1>1, <1>7 DEF HostDestroy
  <2> QED BY <1>7, <2>1, <2>2 DEF HostDestroy, TypeOK, tableVars, saveVars, jobVars
<1>8. CASE InstanceOver(i)
  <2>1. inst' \in [Instances -> Instance]
    BY <1>8, InitialTypes, InstType DEF InstanceOver
  <2> QED BY <1>8, <2>1 DEF InstanceOver, TypeOK, tableVars, saveVars, eventVars, jobVars
<1> QED BY <1>2, <1>3, <1>4, <1>5, <1>6, <1>7, <1>8 DEF ModuleStep, SetTaskManager

LEMMA TypeTasks ==
  ASSUME TypeOK, NEW i \in Instances, TaskStep(i)
  PROVE  TypeOK'
<1>1. /\ inst \in [Instances -> Instance] /\ inst[i] \in Instance
      /\ tasksTable \in SUBSET Tasks /\ renewed \in SUBSET Tasks /\ changes \in Nat
      /\ jobs \in [Jobs -> Job]
  BY DEF TypeOK
<1>0. i \in Threads
  BY BoundsAssumption DEF Instances, Threads
<1>2. /\ inst[i].running \in SUBSET Event /\ inst[i].notified \in SUBSET Event
      /\ inst[i].checks \in Nat
  BY <1>1 DEF Instance
<1>3. ASSUME NEW e \in inst[i].running, Finish(i, e) PROVE TypeOK'
  <2>1. inst' \in [Instances -> Instance]
    <3>1. PICK S \in {inst[i].notified, inst[i].notified \cup {e}},
               n \in {inst[i].checks, inst[i].checks + 1} :
            inst' = [inst EXCEPT ![i] = [inst[i] EXCEPT !.running = inst[i].running \ {e},
                                                        !.notified = S, !.checks = n]]
      BY <1>1, <1>3, WrittenByFinish
    <3>2. S \in SUBSET Event /\ n \in Nat /\ inst[i].running \ {e} \in SUBSET Event
      BY <1>2
    <3> QED BY <1>1, <3>1, <3>2, UpdatesType, InstType
  <2>2. jobs' \in [Jobs -> Job]
    BY <1>1, <1>3, JobsType DEF Finish
  <2>3. events' \subseteq SUBSET Event
    <3>1. e \in Event
      BY <1>2
    <3> QED BY <1>3, <3>1, ListType DEF Finish
  <2> QED BY <1>3, <2>1, <2>2, <2>3 DEF Finish, TypeOK, tableVars, saveVars
<1>4. ASSUME NEW e \in inst[i].notified, UnregisterUndefined(i, e) PROVE TypeOK'
  <2>1. inst' \in [Instances -> Instance]
    <3>1. inst[i].notified \ {e} \in SUBSET Event
      BY <1>2
    <3> DEFINE r == [inst[i] EXCEPT !.notified = inst[i].notified \ {e}]
    <3>2. r \in Instance
      BY <1>1, <3>1, UpdatesType
    <3>3. inst' = [inst EXCEPT ![i] = r]
      BY <1>1, <1>4, WrittenByUnregister
    <3> HIDE DEF r
    <3> QED BY <3>2, <3>3, InstType
  <2>2. tasksTable' \in SUBSET Tasks /\ renewed' \in SUBSET Tasks
    BY <1>1, <1>4 DEF UnregisterUndefined
  <2>3. SaveTypeOK'
    BY <1>0, <1>4, <2>2, SaveType DEF UnregisterUndefined
  <2> QED
    BY <1>4, <2>1, <2>2, <2>3 DEF UnregisterUndefined, TypeOK, eventVars, jobVars, SaveTypeOK
<1>5. ASSUME NEW t \in Tasks, Register(i, t) PROVE TypeOK'
  <2>1. tasksTable' \in SUBSET Tasks /\ renewed' \in SUBSET Tasks /\ changes' \in Nat
    BY <1>1, <1>5 DEF Register
  <2>2. SaveTypeOK'
    BY <1>0, <1>5, <2>1, SaveType DEF Register
  <2> QED BY <1>5, <2>1, <2>2 DEF Register, TypeOK, eventVars, jobVars, SaveTypeOK
<1>6. ASSUME NEW removed \in SUBSET Tasks, Unregister(i, removed) PROVE TypeOK'
  <2>1. tasksTable' \in SUBSET Tasks /\ changes' \in Nat
    BY <1>1, <1>6 DEF Unregister
  <2>2. SaveTypeOK'
    BY <1>0, <1>6, <2>1, SaveType DEF Unregister
  <2> QED BY <1>1, <1>6, <2>1, <2>2 DEF Unregister, TypeOK, eventVars, jobVars, SaveTypeOK
<1> QED BY <1>3, <1>4, <1>5, <1>6 DEF TaskStep

LEMMA TypeStep == TypeOK /\ [Next]_vars => TypeOK'
<1> SUFFICES ASSUME TypeOK, [Next]_vars PROVE TypeOK'
  OBVIOUS
<1>1. ASSUME NEW t \in Tasks, BroadcastError(t) PROVE TypeOK'
  <2>1. main' \in MainThread /\ nextEvent' \in Nat
    BY <1>1, BeginType DEF BroadcastError
  <2> QED BY <1>1, <2>1 DEF BroadcastError, TypeOK, tableVars, saveVars, eventVars, jobVars
<1>2. CASE UNCHANGED vars
  BY <1>2 DEF vars, TypeOK
<1>3. CASE Next
  <2>1. ASSUME NEW j \in Jobs, JobStep(j) PROVE TypeOK'
    BY <2>1, TypeJobs
  <2>2. ASSUME NEW i \in Instances, HeadlessStep(i) \/ ModuleStep(i) \/ TaskStep(i) PROVE TypeOK'
    BY <2>2, TypeHeadless, TypeModules, TypeTasks
  <2> QED BY <1>1, <1>3, <2>1, <2>2, Steps, TypeProcess, TypeSaves, TypeExecute
<1> QED BY <1>2, <1>3

-----------------------------------------------------------------------------
(***************************************************************************)
(* Events: most actions leave them alone.                                  *)
(***************************************************************************)
Kept(i) ==
  /\ inst'[i].emitted = inst[i].emitted /\ inst'[i].buffer = inst[i].buffer
  /\ inst'[i].observed = inst[i].observed
  /\ WasPut(i) => WasPut(i)'
  /\ inst'[i].pc = "put" => inst[i].pc = "put"
Forgotten(i) == inst'[i] \in {NewInstance, Over} /\ (WasPut(i) => WasPut(i)')
Calm ==
  /\ UNCHANGED nextEvent /\ main' \in {main, Idle}
  /\ eventsQueue' \in {eventsQueue, <<>>}
  /\ \A k \in Kinds : managers'[k] \in {None, managers[k]}
  /\ \A i \in Instances : Kept(i) \/ Forgotten(i)

LEMMA ForgottenRecord ==
  \A r \in {NewInstance, Over} :
    /\ r.emitted = <<>> /\ r.buffer = <<>> /\ ~r.observed /\ r.pc \in {"new", "over"}
    /\ r.running = {} /\ r.notified = {}
BY DEF NewInstance, Over

LEMMA CalmStep ==
  ASSUME TypeOK, Managers, Numbers, Once, Calm
  PROVE  Managers' /\ Numbers' /\ Once'
<1>1. /\ \A k \in Kinds : managers[k] \in Instances \cup {None}
      /\ main.manager \in Instances \cup {None}
  BY DEF TypeOK, MainThread
<1>2. \A i \in Instances : WasPut(i) => WasPut(i)'
  BY DEF Calm, Kept, Forgotten
<1>0. Idle.pc = "idle" /\ Idle.manager = None
  BY DEF Idle
<1>3. Managers'
  <2>1. \A k \in Kinds :
          managers'[k] # None => inst'[managers'[k]].pc \notin {"new", "loading", "starting"}
    BY <1>1, <1>2 DEF Managers, Calm, WasPut
  <2>2. main'.manager # None => inst'[main'.manager].pc \notin {"new", "loading", "starting"}
    BY <1>0, <1>1, <1>2 DEF Managers, Calm, WasPut
  <2> QED BY <2>1, <2>2 DEF Managers, WasPut
<1>4. ToSet(eventsQueue') \subseteq ToSet(eventsQueue)
  BY NoEvents DEF Calm
<1>5. ASSUME NEW i \in Instances PROVE Held(i)' \subseteq Held(i) /\ OnceIn(i)'
  <2>1. CASE Kept(i)
    <3>1. Held(i)' = Held(i)
      BY <2>1 DEF Kept, Held
    <3> QED BY <1>4, <2>1, <3>1 DEF Kept, OnceIn, Once
  <2>2. CASE Forgotten(i)
    <3>1. /\ inst'[i].emitted = <<>> /\ inst'[i].buffer = <<>>
          /\ inst'[i].pc \in {"new", "over"}
      BY <2>2, ForgottenRecord DEF Forgotten
    <3>2. Held(i)' = {}
      BY <3>1, NoEvents DEF Held
    <3> QED BY <3>1, <3>2, NoEvents DEF OnceIn
  <2> QED BY <2>1, <2>2 DEF Calm
<1>6. Numbers'
  <2>1. \A e : Older(e) => Older(e)'
    BY <1>0 DEF Calm, Older
  <2> QED BY <1>0, <1>4, <1>5, <2>1 DEF Numbers, Calm
<1>7. Once'
  BY <1>5, NoEvents DEF Once, Calm
<1> QED BY <1>3, <1>6, <1>7

\* an action that writes one record
LEMMA KeptRecords ==
  ASSUME inst \in [Instances -> Instance], NEW i \in Instances, NEW r \in Instance,
         inst' = [inst EXCEPT ![i] = r],
         r.emitted = inst[i].emitted, r.buffer = inst[i].buffer, r.observed = inst[i].observed,
         WasPut(i) => r.pc \notin {"new", "loading", "starting"},
         r.pc = "put" => inst[i].pc = "put"
  PROVE  \A k \in Instances : Kept(k)
<1>1. inst'[i] = r /\ \A k \in Instances \ {i} : inst'[k] = inst[k]
  OBVIOUS
<1> QED BY <1>1 DEF Kept, WasPut

\* the check writes only what nothing here is about
LEMMA CheckKeeps ==
  ASSUME TypeOK, NEW i \in Instances, CheckInvalidate(i), NEW k \in Instances
  PROVE  /\ inst'[k].emitted = inst[k].emitted /\ inst'[k].buffer = inst[k].buffer
         /\ inst'[k].observed = inst[k].observed /\ inst'[k].pc = inst[k].pc
         /\ inst'[k].running = inst[k].running /\ inst'[k].notified = inst[k].notified
<1> DEFINE checked == [inst EXCEPT ![i].checks = @ - 1]
           Same(q, r) ==
             /\ q.emitted = r.emitted /\ q.buffer = r.buffer /\ q.observed = r.observed
             /\ q.pc = r.pc /\ q.running = r.running /\ q.notified = r.notified
<1>1. inst \in [Instances -> Instance] /\ inst[i] \in Instance
  BY DEF TypeOK
<1>2. inst' = checked \/ \E a \in Instances :
        inst' = [checked EXCEPT ![a].dying = inst[a].reachable]
  BY DEF CheckInvalidate, TypeOK
<1>3. checked \in [Instances -> Instance] /\ \A a \in Instances : Same(checked[a], inst[a])
  <2>1. [inst[i] EXCEPT !.checks = @ - 1] \in Instance
    BY <1>1, UpdatesType DEF CheckInvalidate
  <2>2. Same([inst[i] EXCEPT !.checks = @ - 1], inst[i])
    BY <1>1 DEF Instance
  <2>3. checked[i] = [inst[i] EXCEPT !.checks = @ - 1]
        /\ \A a \in Instances \ {i} : checked[a] = inst[a]
    BY <1>1
  <2>4. checked \in [Instances -> Instance]
    BY <1>1, <2>1
  <2> QED BY <2>2, <2>3, <2>4
<1> HIDE DEF checked
<1>4. CASE inst' = checked
  BY <1>3, <1>4
<1>5. ASSUME NEW a \in Instances, inst' = [checked EXCEPT ![a].dying = inst[a].reachable]
      PROVE  Same(inst'[k], inst[k])
  <2> DEFINE r == [checked[a] EXCEPT !.dying = inst[a].reachable]
  <2>1. Same(r, checked[a])
    BY <1>3 DEF Instance
  <2>2. inst' = [checked EXCEPT ![a] = r]
    BY <1>5
  <2> HIDE DEF r
  <2>3. inst'[a] = r /\ \A c \in Instances \ {a} : inst'[c] = checked[c]
    BY <1>3, <2>2
  <2> QED BY <1>3, <2>1, <2>3
<1> QED BY <1>2, <1>4, <1>5

LEMMA CalmHeadless ==
  ASSUME TypeOK, NEW i \in Instances, HeadlessStep(i)
  PROVE  Calm
<1>1. /\ inst \in [Instances -> Instance] /\ managers \in [Kinds -> Instances \cup {None}]
      /\ inst[i] \in Instance
  BY DEF TypeOK
<1>2. CASE StartReactInstance(i)
  <2> DEFINE r == [inst[i] EXCEPT !.pc = "starting", !.reachable = TRUE]
  <2>1. inst' = [inst EXCEPT ![i] = r] /\ r \in Instance /\ ~WasPut(i)
    BY <1>1, <1>2, WrittenRecord, UpdatesType DEF StartReactInstance, WasPut
  <2>2. /\ r.emitted = inst[i].emitted /\ r.buffer = inst[i].buffer
        /\ r.observed = inst[i].observed /\ r.pc = "starting"
    BY <1>1 DEF Instance
  <2>3. \A k \in Instances : Kept(k)
    <3> HIDE DEF r
    <3> QED BY <1>1, <2>1, <2>2, KeptRecords
  <2> QED BY <1>2, <2>3 DEF StartReactInstance, Calm, eventVars
<1>3. CASE LoadFailed(i) \/ Destroy(i)
  <2>1. inst' = [inst EXCEPT ![i] = Over]
    BY <1>3 DEF LoadFailed, Destroy
  <2>2. Forgotten(i)
    BY <1>1, <2>1 DEF Forgotten, WasPut, Over, NewInstance
  <2>3. \A k \in Instances \ {i} : Kept(k)
    BY <1>1, <2>1 DEF Kept, WasPut
  <2> QED BY <1>3, <2>2, <2>3 DEF LoadFailed, Destroy, Calm, eventVars
<1>4. CASE CheckInvalidate(i)
  <2>3. \A k \in Instances : Kept(k)
    BY <1>4, CheckKeeps DEF Kept, WasPut
  <2> QED BY <1>1, <1>4, <2>3 DEF CheckInvalidate, Calm
<1> QED BY <1>2, <1>3, <1>4 DEF HeadlessStep

LEMMA CalmModules ==
  ASSUME TypeOK, NEW i \in Instances,
         Launch(i) \/ RemoveQueue(i) \/ HostDestroy(i) \/ InstanceOver(i)
  PROVE  Calm
<1>1. /\ inst \in [Instances -> Instance] /\ managers \in [Kinds -> Instances \cup {None}]
      /\ inst[i] \in Instance
  BY DEF TypeOK
<1>2. CASE InstanceOver(i)
  <2>1. inst' = [inst EXCEPT ![i] = Over]
    BY <1>2 DEF InstanceOver
  <2>2. Forgotten(i)
    BY <1>1, <2>1 DEF Forgotten, WasPut, Over, NewInstance
  <2>3. \A k \in Instances \ {i} : Kept(k)
    BY <1>1, <2>1 DEF Kept, WasPut
  <2> QED BY <1>2, <2>2, <2>3 DEF InstanceOver, Calm, eventVars
<1>3. CASE Launch(i) \/ RemoveQueue(i) \/ HostDestroy(i)
  <2>1. PICK pc \in {"starting", "run", "detached"} :
          /\ inst' = [inst EXCEPT ![i] = [inst[i] EXCEPT !.pc = pc]]
          /\ WasPut(i) => pc # "starting"
    BY <1>1, <1>3, WrittenRecord DEF Launch, Fresh, RemoveQueue, HostDestroy, WasPut
  <2> DEFINE r == [inst[i] EXCEPT !.pc = pc]
  <2>2. /\ r \in Instance /\ r.emitted = inst[i].emitted /\ r.buffer = inst[i].buffer
        /\ r.observed = inst[i].observed /\ r.pc = pc
    <3>1. r \in Instance
      BY <1>1, UpdatesType
    <3>2. /\ r.emitted = inst[i].emitted /\ r.buffer = inst[i].buffer
          /\ r.observed = inst[i].observed /\ r.pc = pc
      BY <1>1 DEF Instance
    <3> HIDE DEF r
    <3> QED BY <3>1, <3>2
  <2>3. \A k \in Instances : Kept(k)
    <3>1. inst' = [inst EXCEPT ![i] = r]
      BY <2>1
    <3> HIDE DEF r
    <3> QED BY <1>1, <2>1, <2>2, <3>1, KeptRecords
  <2> QED
    BY <1>1, <1>3, <2>3 DEF Launch, RemoveQueue, HostDestroy, Calm, eventVars
<1> QED BY <1>2, <1>3

LEMMA CalmTasks ==
  ASSUME TypeOK, NEW i \in Instances, TaskStep(i)
  PROVE  Calm
<1>1. inst \in [Instances -> Instance] /\ inst[i] \in Instance
  BY DEF TypeOK
<1>2. ASSUME NEW e \in inst[i].running, Finish(i, e) PROVE Calm
  <2>1. PICK S \in {inst[i].notified, inst[i].notified \cup {e}},
             n \in {inst[i].checks, inst[i].checks + 1} :
          inst' = [inst EXCEPT ![i] = [inst[i] EXCEPT !.running = inst[i].running \ {e},
                                                      !.notified = S, !.checks = n]]
    BY <1>1, <1>2, WrittenByFinish
  <2> DEFINE r == [inst[i] EXCEPT !.running = inst[i].running \ {e}, !.notified = S, !.checks = n]
  <2>2. S \in SUBSET Event /\ n \in Nat /\ inst[i].running \ {e} \in SUBSET Event
    BY <1>1 DEF Instance
  <2>3. /\ r \in Instance /\ r.emitted = inst[i].emitted /\ r.buffer = inst[i].buffer
        /\ r.observed = inst[i].observed /\ r.pc = inst[i].pc
    <3>1. r \in Instance
      BY <1>1, <2>2, UpdatesType
    <3>2. /\ r.emitted = inst[i].emitted /\ r.buffer = inst[i].buffer
          /\ r.observed = inst[i].observed /\ r.pc = inst[i].pc
      BY <1>1 DEF Instance
    <3> HIDE DEF r
    <3> QED BY <3>1, <3>2
  <2>4. \A k \in Instances : Kept(k)
    <3>1. inst' = [inst EXCEPT ![i] = r]
      BY <2>1
    <3> HIDE DEF r
    <3> QED BY <1>1, <2>3, <3>1, KeptRecords DEF WasPut
  <2> QED BY <1>2, <2>4 DEF Finish, Calm
<1>3. ASSUME NEW e \in inst[i].notified, UnregisterUndefined(i, e) PROVE Calm
  <2> DEFINE r == [inst[i] EXCEPT !.notified = inst[i].notified \ {e}]
  <2>1. inst[i].notified \ {e} \in SUBSET Event
    BY <1>1 DEF Instance
  <2>2. /\ r \in Instance /\ r.emitted = inst[i].emitted /\ r.buffer = inst[i].buffer
        /\ r.observed = inst[i].observed /\ r.pc = inst[i].pc
    <3>1. r \in Instance
      BY <1>1, <2>1, UpdatesType
    <3>2. /\ r.emitted = inst[i].emitted /\ r.buffer = inst[i].buffer
          /\ r.observed = inst[i].observed /\ r.pc = inst[i].pc
      BY <1>1 DEF Instance
    <3> HIDE DEF r
    <3> QED BY <3>1, <3>2
  <2>3. \A k \in Instances : Kept(k)
    <3>1. inst' = [inst EXCEPT ![i] = r]
      BY <1>1, <1>3, WrittenByUnregister
    <3> HIDE DEF r
    <3> QED BY <1>1, <2>2, <3>1, KeptRecords DEF WasPut
  <2> QED BY <1>3, <2>3 DEF UnregisterUndefined, Calm, eventVars
<1>4. CASE (\E t \in Tasks : Register(i, t)) \/ \E removed \in SUBSET Tasks : Unregister(i, removed)
  BY <1>4 DEF Register, Unregister, Calm, Kept, WasPut, eventVars
<1> QED BY <1>2, <1>3, <1>4 DEF TaskStep

-----------------------------------------------------------------------------
(***************************************************************************)
(* Events: the actions that pass them on.                                  *)
(***************************************************************************)
LEMMA EventTypes ==
  ASSUME TypeOK
  PROVE  /\ eventsQueue \in Seq(Event) /\ ToSet(eventsQueue) \subseteq Event
         /\ nextEvent \in Nat /\ main.event \in Event
         /\ main.manager \in Instances \cup {None}
         /\ inst \in [Instances -> Instance]
         /\ \A i \in Instances :
              /\ inst[i] \in Instance
              /\ inst[i].emitted \in Seq(Event) /\ inst[i].buffer \in Seq(Event)
              /\ Held(i) \subseteq Event
<1>1. /\ eventsQueue \in Seq(Event) /\ nextEvent \in Nat /\ main \in MainThread
      /\ inst \in [Instances -> Instance]
  BY DEF TypeOK
<1>2. ASSUME NEW i \in Instances
      PROVE  /\ inst[i] \in Instance
             /\ inst[i].emitted \in Seq(Event) /\ inst[i].buffer \in Seq(Event)
  BY <1>1 DEF Instance
<1> QED BY <1>1, <1>2, EventsType DEF MainThread, Held

LEMMA BeginStep ==
  ASSUME TypeOK, EventInv, main.pc = "idle", NEW t \in Tasks, NEW j \in Nat,
         BeginExecute(t, j), UNCHANGED <<managers, eventsQueue, inst>>
  PROVE  EventInv'
<1>1. PICK m \in ManagersFor :
        main' = [pc |-> "execute", event |-> [n |-> nextEvent + 1, task |-> t, job |-> j],
                 manager |-> m]
  BY DEF BeginExecute
<1>2. nextEvent \in Nat /\ nextEvent' = nextEvent + 1
  BY EventTypes DEF BeginExecute
<1>3. main'.pc = "execute" /\ main'.event.n = nextEvent' /\ main'.manager = m
  BY <1>1, <1>2
<1>4. m # None => WasPut(m)
  BY ManagersForType DEF EventInv, Managers
<1>5. Managers'
  BY <1>3, <1>4 DEF EventInv, Managers, WasPut
<1>6. \A e \in Event : Older(e) => Older(e)'
  BY <1>2, <1>3 DEF Older, Event
<1>7. \A i \in Instances : Held(i)' = Held(i)
  BY DEF Held
<1>8. Numbers'
  BY <1>3, <1>6, <1>7, EventTypes DEF EventInv, Numbers
<1>9. Once'
  BY <1>7 DEF EventInv, Once, OnceIn, WasPut
<1> QED BY <1>5, <1>8, <1>9 DEF EventInv

LEMMA GivenOnce ==
  ASSUME NEW r \in Instance, NEW body \in Seq(Event), IsInjective(body),
         r.observed => r.buffer = <<>>,
         IsInjective(r.emitted), IsInjective(r.buffer),
         ToSet(r.emitted) \cap ToSet(r.buffer) = {},
         (ToSet(r.emitted) \cup ToSet(r.buffer)) \cap ToSet(body) = {}
  PROVE  LET g == Given(r, body)
         IN /\ g.pc = r.pc /\ g.observed = r.observed
            /\ g.observed => g.buffer = <<>>
            /\ IsInjective(g.emitted) /\ IsInjective(g.buffer)
            /\ ToSet(g.emitted) \cap ToSet(g.buffer) = {}
            /\ ToSet(g.emitted) \cup ToSet(g.buffer)
                 \subseteq ToSet(r.emitted) \cup ToSet(r.buffer) \cup ToSet(body)
            /\ ToSet(g.emitted) \ (g.running \cup g.notified)
                 \subseteq ToSet(r.emitted) \ (r.running \cup r.notified)
<1> DEFINE g == Given(r, body)
<1>0. SUFFICES /\ g.pc = r.pc /\ g.observed = r.observed
               /\ g.observed => g.buffer = <<>>
               /\ IsInjective(g.emitted) /\ IsInjective(g.buffer)
               /\ ToSet(g.emitted) \cap ToSet(g.buffer) = {}
               /\ ToSet(g.emitted) \cup ToSet(g.buffer)
                    \subseteq ToSet(r.emitted) \cup ToSet(r.buffer) \cup ToSet(body)
               /\ ToSet(g.emitted) \ (g.running \cup g.notified)
                    \subseteq ToSet(r.emitted) \ (r.running \cup r.notified)
  OBVIOUS
<1>1. r.emitted \in Seq(Event) /\ r.buffer \in Seq(Event)
  BY DEF Instance
<1>2. CASE r.pc = "over"
  <2>1. g = r
    BY <1>2 DEF Given
  <2> HIDE DEF g
  <2> QED BY <2>1
<1>3. CASE r.pc # "over" /\ ~r.observed
  <2>1. /\ g.pc = r.pc /\ g.observed = r.observed /\ g.emitted = r.emitted
        /\ g.buffer = r.buffer \o body /\ g.running = r.running /\ g.notified = r.notified
    BY <1>3 DEF Given, Instance
  <2>2. /\ IsInjective(r.buffer \o body)
        /\ ToSet(r.buffer \o body) = ToSet(r.buffer) \cup ToSet(body)
    BY <1>1, ConcatOnce, ConcatEvents
  <2> HIDE DEF g
  <2> QED BY <1>3, <2>1, <2>2
<1>4. CASE r.pc # "over" /\ r.observed
  <2>1. /\ g.pc = r.pc /\ g.observed = r.observed /\ g.emitted = r.emitted \o body
        /\ g.buffer = r.buffer /\ g.running = r.running \cup ToSet(body)
        /\ g.notified = r.notified
    BY <1>4 DEF Given, Instance
  <2>2. /\ IsInjective(r.emitted \o body)
        /\ ToSet(r.emitted \o body) = ToSet(r.emitted) \cup ToSet(body)
    BY <1>1, ConcatOnce, ConcatEvents
  <2> HIDE DEF g
  <2> QED BY <1>4, <2>1, <2>2
<1> HIDE DEF g
<1> QED BY <1>2, <1>3, <1>4 DEF Instance

\* executeTask gives the event to an instance, or puts it into the queue
LEMMA ExecuteStep ==
  ASSUME TypeOK, EventInv, ExecuteTask, ~EndRefused
  PROVE  EventInv'
<1>e. PICK e0 \in Event : e0 = main.event
  BY EventTypes
<1>0. main.pc = "execute" /\ nextEvent' = nextEvent /\ managers' = managers
  BY DEF ExecuteTask, ExecuteTaskWithManager, QueueEvent, LoadApp, LoadAppRefused
<1>1. main'.pc # "execute" /\ main'.manager = None
  <2>1. CASE LoadAppRefused
    BY <2>1, EventTypes DEF LoadAppRefused, TypeOK, MainThread
  <2>2. CASE main' = Idle
    BY <2>2 DEF Idle
  <2> QED
    BY <2>1, <2>2 DEF ExecuteTask, ExecuteTaskWithManager, QueueEvent, LoadApp
<1>2. /\ e0 \in Event /\ e0.n = nextEvent
      /\ e0 \notin ToSet(eventsQueue) /\ \A i \in Instances : e0 \notin Held(i)
  BY <1>e, <1>0, EventTypes DEF EventInv, Numbers, Older, Event
<1>3. \A e \in Event : Older(e) => Older(e)'
  BY <1>0, <1>1 DEF Older
<1>4. Older(e0)'
  BY <1>0, <1>1, <1>2, EventTypes DEF Older
<1>5. CASE ExecuteTaskWithManager
  <2>0. PICK i \in Instances : i = main.manager
    BY <1>5, EventTypes DEF ExecuteTaskWithManager
  <2> DEFINE g == Given(inst[i], <<e0>>)
  <2>1. WasPut(i) /\ eventsQueue' = eventsQueue
    BY <1>5, <2>0 DEF ExecuteTaskWithManager, EventInv, Managers
  <2>2. <<e0>> \in Seq(Event) /\ IsInjective(<<e0>>) /\ ToSet(<<e0>>) = {e0}
    BY <1>2, OneEvent
  <2>3. inst'[i] = g /\ \A k \in Instances \ {i} : inst'[k] = inst[k]
    BY <1>e, <1>5, <2>0, EventTypes DEF ExecuteTaskWithManager
  <2>4. /\ g.pc = inst[i].pc /\ g.observed = inst[i].observed
        /\ g.observed => g.buffer = <<>>
        /\ IsInjective(g.emitted) /\ IsInjective(g.buffer)
        /\ ToSet(g.emitted) \cap ToSet(g.buffer) = {}
        /\ ToSet(g.emitted) \cup ToSet(g.buffer) \subseteq Held(i) \cup {e0}
    <3>1. OnceIn(i) /\ inst[i] \in Instance
      BY <2>1, EventTypes DEF EventInv, Once
    <3>2. /\ inst[i].observed => inst[i].buffer = <<>>
          /\ IsInjective(inst[i].emitted) /\ IsInjective(inst[i].buffer)
          /\ ToSet(inst[i].emitted) \cap ToSet(inst[i].buffer) = {}
      BY <3>1 DEF OnceIn
    <3>3. (ToSet(inst[i].emitted) \cup ToSet(inst[i].buffer)) \cap ToSet(<<e0>>) = {}
      BY <1>2, <2>2 DEF Held
    <3> QED BY <2>2, <3>1, <3>2, <3>3, GivenOnce DEF Held
  <2> HIDE DEF g
  <2>5. Held(i)' \subseteq Held(i) \cup {e0}
    BY <2>3, <2>4 DEF Held
  <2>6. \A k \in Instances \ {i} : Held(k)' = Held(k)
    BY <2>3 DEF Held
  <2>7. \A k \in Instances : WasPut(k)' = WasPut(k)
    BY <2>3, <2>4 DEF WasPut
  <2>8. Managers'
    BY <1>0, <1>1, <2>7, EventTypes DEF EventInv, Managers, TypeOK
  <2>9. Numbers'
    <3>1. \A k \in Instances : \A e \in Held(k)' : Older(e)'
      BY <1>3, <1>4, <2>5, <2>6, EventTypes DEF EventInv, Numbers
    <3>2. \A e \in ToSet(eventsQueue') : Older(e)'
      BY <1>3, <2>1, EventTypes DEF EventInv, Numbers
    <3> QED BY <1>1, <3>1, <3>2 DEF Numbers
  <2>10. OnceIn(i)'
    <3>1. inst[i].pc = "put" => Held(i)' \cap ToSet(eventsQueue') = {}
      BY <1>2, <2>1, <2>5 DEF EventInv, Once, OnceIn
    <3> QED BY <2>1, <2>3, <2>4, <2>7, <3>1 DEF OnceIn
  <2>11. \A k \in Instances \ {i} : OnceIn(k)'
    BY <2>1, <2>3, <2>6, <2>7 DEF EventInv, Once, OnceIn
  <2> QED BY <2>1, <2>8, <2>9, <2>10, <2>11 DEF EventInv, Once
<1>6. CASE QueueEvent \/ LoadAppRefused \/ \E i \in Instances : LoadApp(i)
  <2>1. /\ eventsQueue' = Append(eventsQueue, e0)
        /\ \A k \in Instances : Kept(k)
    <3>1. ASSUME QueueEvent \/ LoadAppRefused PROVE \A k \in Instances : Kept(k)
      BY <3>1 DEF QueueEvent, LoadAppRefused, Kept, WasPut
    <3>2. ASSUME NEW i \in Instances, LoadApp(i)
          PROVE  \A k \in Instances : Kept(k)
      <4> DEFINE r == [inst[i] EXCEPT !.pc = "loading", !.kind = "headless"]
      <4>1. r \in Instance /\ inst[i] \in Instance
        BY EventTypes, UpdatesType
      <4>2. /\ r.emitted = inst[i].emitted /\ r.buffer = inst[i].buffer
            /\ r.observed = inst[i].observed /\ r.pc = "loading"
        BY <4>1 DEF Instance
      <4>3. inst' = [inst EXCEPT ![i] = r] /\ ~WasPut(i)
        BY <3>2, EventTypes, WrittenRecord DEF LoadApp, Fresh, WasPut
      <4> HIDE DEF r
      <4> QED BY <4>1, <4>2, <4>3, EventTypes, KeptRecords
    <3> QED BY <1>e, <1>6, <3>1, <3>2 DEF QueueEvent, LoadAppRefused, LoadApp
  <2>2. /\ IsInjective(eventsQueue')
        /\ ToSet(eventsQueue') = ToSet(eventsQueue) \cup {e0}
    BY <1>2, <2>1, AppendEvent, EventTypes DEF EventInv, Once
  <2>3. \A k \in Instances : Held(k)' = Held(k)
    BY <2>1 DEF Kept, Held
  <2>4. Managers'
    BY <1>0, <1>1, <2>1, EventTypes DEF EventInv, Managers, TypeOK, Kept
  <2>5. Numbers'
    BY <1>1, <1>3, <1>4, <2>2, <2>3, EventTypes DEF EventInv, Numbers
  <2>6. ASSUME NEW k \in Instances PROVE OnceIn(k)'
    <3>1. inst'[k].pc = "put" => Held(k)' \cap ToSet(eventsQueue') = {}
      BY <1>2, <2>1, <2>2, <2>3 DEF EventInv, Once, OnceIn, Kept
    <3> QED BY <2>1, <2>3, <3>1 DEF EventInv, Once, OnceIn, Kept
  <2> QED BY <2>2, <2>4, <2>5, <2>6 DEF EventInv, Once
<1> QED BY <1>5, <1>6 DEF ExecuteTask

LEMMA PutStep ==
  ASSUME TypeOK, EventInv, NEW i \in Instances, PutTaskManager(i)
  PROVE  EventInv'
<1>1. inst[i].kind \in Kinds /\ managers \in [Kinds -> Instances \cup {None}]
  BY EventTypes DEF TypeOK, Instance
<1>2. ~WasPut(i) /\ inst[i].emitted = <<>> /\ inst[i].buffer = <<>>
  BY DEF PutTaskManager, WasPut, EventInv, Once, OnceIn
<1>3. /\ inst'[i].pc = "put" /\ inst'[i].observed = inst[i].observed
      /\ inst'[i].emitted = <<>> /\ inst'[i].buffer = <<>>
      /\ \A k \in Instances \ {i} : inst'[k] = inst[k]
  <2> DEFINE r == [inst[i] EXCEPT !.pc = "put"]
  <2>1. /\ r.emitted = inst[i].emitted /\ r.buffer = inst[i].buffer
        /\ r.observed = inst[i].observed /\ r.pc = "put"
    BY EventTypes DEF Instance
  <2>2. inst' = [inst EXCEPT ![i] = r]
    BY EventTypes, WrittenRecord
  <2> HIDE DEF r
  <2> QED BY <1>2, <2>1, <2>2, EventTypes
<1>4. \A k \in Instances : WasPut(k) => WasPut(k)'
  BY <1>3 DEF WasPut
<1>5. WasPut(i)'
  BY <1>3 DEF WasPut
<1>6. UNCHANGED <<main, nextEvent, eventsQueue>>
  BY DEF PutTaskManager
<1>7. Managers'
  <2>1. \A k \in Kinds : managers'[k] = i \/ managers'[k] = managers[k]
    BY <1>1 DEF PutTaskManager
  <2>2. \A m \in Instances : m = i \/ WasPut(m) => inst'[m].pc \notin {"new", "loading", "starting"}
    BY <1>4, <1>5 DEF WasPut
  <2>3. ASSUME NEW k \in Kinds, managers'[k] # None
        PROVE  inst'[managers'[k]].pc \notin {"new", "loading", "starting"}
    BY <1>1, <2>1, <2>2, <2>3 DEF EventInv, Managers
  <2>4. main.manager # None => inst'[main.manager].pc \notin {"new", "loading", "starting"}
    BY <2>2, EventTypes DEF EventInv, Managers
  <2> QED BY <1>6, <2>3, <2>4 DEF Managers, WasPut
<1>8. Held(i)' = {} /\ \A k \in Instances \ {i} : Held(k)' = Held(k)
  BY <1>3, NoEvents DEF Held
<1>9. Numbers'
  BY <1>6, <1>8 DEF EventInv, Numbers, Older
<1>10. OnceIn(i)'
  BY <1>3, <1>8, NoEvents DEF OnceIn
<1>11. \A k \in Instances \ {i} : OnceIn(k)'
  BY <1>3, <1>6, <1>8 DEF EventInv, Once, OnceIn, WasPut
<1> QED BY <1>6, <1>7, <1>9, <1>10, <1>11 DEF EventInv, Once

\* setTaskManager hands over the events that waited
LEMMA QueueStep ==
  ASSUME TypeOK, EventInv, NEW i \in Instances, ExecuteQueue(i)
  PROVE  EventInv'
<1> DEFINE g == Given(inst[i], eventsQueue)
<1>1. UNCHANGED <<main, nextEvent, eventsQueue, managers>> /\ inst[i].pc = "put"
  BY DEF ExecuteQueue, eventVars
<1>2. WasPut(i) /\ OnceIn(i) /\ IsInjective(eventsQueue)
  BY <1>1 DEF WasPut, EventInv, Once
<1>3. /\ g \in Instance
      /\ g.observed => g.buffer = <<>>
      /\ IsInjective(g.emitted) /\ IsInjective(g.buffer)
      /\ ToSet(g.emitted) \cap ToSet(g.buffer) = {}
      /\ ToSet(g.emitted) \cup ToSet(g.buffer) \subseteq Held(i) \cup ToSet(eventsQueue)
  <2>1. inst[i] \in Instance /\ eventsQueue \in Seq(Event)
    BY EventTypes
  <2>2. /\ inst[i].observed => inst[i].buffer = <<>>
        /\ IsInjective(inst[i].emitted) /\ IsInjective(inst[i].buffer)
        /\ ToSet(inst[i].emitted) \cap ToSet(inst[i].buffer) = {}
        /\ (ToSet(inst[i].emitted) \cup ToSet(inst[i].buffer)) \cap ToSet(eventsQueue) = {}
    BY <1>1, <1>2 DEF OnceIn, Held
  <2> QED BY <1>2, <2>1, <2>2, GivenOnce, GivenType DEF Held
<1>4. /\ inst'[i].pc = "queue" /\ inst'[i].observed = g.observed
      /\ inst'[i].emitted = g.emitted /\ inst'[i].buffer = g.buffer
      /\ \A k \in Instances \ {i} : inst'[k] = inst[k]
  <2>1. inst' = [inst EXCEPT ![i] = [g EXCEPT !.pc = "queue"]]
    BY DEF ExecuteQueue
  <2> HIDE DEF g
  <2>2. /\ [g EXCEPT !.pc = "queue"].observed = g.observed
        /\ [g EXCEPT !.pc = "queue"].emitted = g.emitted
        /\ [g EXCEPT !.pc = "queue"].buffer = g.buffer
        /\ [g EXCEPT !.pc = "queue"].pc = "queue"
    BY <1>3 DEF Instance
  <2> DEFINE r == [g EXCEPT !.pc = "queue"]
  <2>3. inst' = [inst EXCEPT ![i] = r]
    BY <2>1
  <2> HIDE DEF r
  <2> QED BY <2>2, <2>3, EventTypes DEF r
<1> HIDE DEF g
<1>5. \A k \in Instances : WasPut(k) => WasPut(k)'
  BY <1>4 DEF WasPut
<1>6. Held(i)' \subseteq Held(i) \cup ToSet(eventsQueue)
  BY <1>3, <1>4 DEF Held
<1>7. \A k \in Instances \ {i} : Held(k)' = Held(k)
  BY <1>4 DEF Held
<1>8. Managers'
  BY <1>1, <1>5, EventTypes DEF EventInv, Managers, TypeOK, WasPut
<1>9. Numbers'
  BY <1>1, <1>6, <1>7 DEF EventInv, Numbers, Older
<1>10. OnceIn(i)'
  BY <1>3, <1>4 DEF OnceIn, WasPut
<1>11. \A k \in Instances \ {i} : OnceIn(k)'
  BY <1>1, <1>4, <1>7 DEF EventInv, Once, OnceIn, WasPut
<1> QED BY <1>1, <1>2, <1>8, <1>9, <1>10, <1>11 DEF EventInv, Once

\* what was kept is emitted
LEMMA FlushStep ==
  ASSUME TypeOK, EventInv, NEW i \in Instances, FlushQueuedEvents(i)
  PROVE  EventInv'
<1>1. UNCHANGED <<main, nextEvent, eventsQueue, managers>> /\ inst[i].pc \in {"run", "detached"}
  BY DEF FlushQueuedEvents, Runs, eventVars
<1>2. OnceIn(i)
  BY DEF EventInv, Once
<1>3. /\ inst'[i].pc = inst[i].pc /\ inst'[i].observed /\ inst'[i].buffer = <<>>
      /\ inst'[i].emitted = inst[i].emitted \o inst[i].buffer
      /\ \A k \in Instances \ {i} : inst'[k] = inst[k]
  <2> DEFINE r == [inst[i] EXCEPT !.observed = TRUE, !.buffer = <<>>,
                           !.emitted = inst[i].emitted \o inst[i].buffer,
                           !.running = inst[i].running \cup ToSet(inst[i].buffer)]
  <2>1. /\ r.emitted = inst[i].emitted \o inst[i].buffer /\ r.buffer = <<>>
        /\ r.observed = TRUE /\ r.pc = inst[i].pc
    BY EventTypes DEF Instance
  <2>2. inst' = [inst EXCEPT ![i] = r]
    BY EventTypes, WrittenByFlush
  <2> HIDE DEF r
  <2> QED BY <2>1, <2>2, EventTypes
<1>4. /\ IsInjective(inst[i].emitted \o inst[i].buffer)
      /\ ToSet(inst[i].emitted \o inst[i].buffer) = Held(i)
  BY <1>2, EventTypes, ConcatOnce, ConcatEvents DEF OnceIn, Held
<1>5. \A k \in Instances : WasPut(k)' = WasPut(k)
  BY <1>3 DEF WasPut
<1>6. \A k \in Instances : Held(k)' = Held(k)
  BY <1>3, <1>4, NoEvents DEF Held
<1>7. Managers'
  BY <1>1, <1>5, EventTypes DEF EventInv, Managers, TypeOK, WasPut
<1>8. Numbers'
  BY <1>1, <1>6 DEF EventInv, Numbers, Older
<1>9. OnceIn(i)'
  BY <1>1, <1>3, <1>4, NoEvents DEF OnceIn, WasPut
<1>10. \A k \in Instances \ {i} : OnceIn(k)'
  BY <1>1, <1>3, <1>6 DEF EventInv, Once, OnceIn, WasPut
<1> QED BY <1>1, <1>7, <1>8, <1>9, <1>10 DEF EventInv, Once

LEMMA CrashStep == Crash => EventInv'
<1> SUFFICES ASSUME Crash PROVE EventInv'
  OBVIOUS
<1>1. /\ main'.pc = "idle" /\ main'.manager = None
      /\ \A k \in Kinds : managers'[k] = None
      /\ eventsQueue' = <<>>
      /\ \A i \in Instances : inst'[i] = NewInstance
  BY DEF Crash, Idle
<1>2. \A i \in Instances : inst'[i].emitted = <<>> /\ inst'[i].buffer = <<>> /\ inst'[i].pc = "new"
  BY <1>1 DEF NewInstance
<1>3. \A i \in Instances : Held(i)' = {}
  BY <1>2, NoEvents DEF Held
<1>4. Managers' /\ Numbers'
  BY <1>1, <1>3, NoEvents DEF Managers, Numbers
<1>5. Once'
  BY <1>1, <1>2, <1>3, NoEvents DEF Once, OnceIn
<1> QED BY <1>4, <1>5 DEF EventInv

LEMMA EventStep == TypeOK /\ EventInv /\ [Next]_vars => EventInv'
<1> SUFFICES ASSUME TypeOK, EventInv, [Next]_vars PROVE EventInv'
  OBVIOUS
<1>1. ASSUME Calm PROVE EventInv'
  BY <1>1, CalmStep DEF EventInv
<1>2. ASSUME UNCHANGED <<main, nextEvent, eventsQueue, managers, inst>> PROVE Calm
  BY <1>2 DEF Calm, Kept, WasPut
<1>3. CASE UNCHANGED vars
  BY <1>1, <1>2, <1>3 DEF vars
<1>4. CASE StartProcess \/ WriteToDisk \/ \E k \in Threads : Apply(k)
  BY <1>1, <1>2, <1>4 DEF StartProcess, WriteToDisk, Apply, eventVars
<1>9. CASE EndRefused
  <2>1. Calm
    BY <1>9 DEF EndRefused, Calm, Kept, WasPut, tableVars, jobVars
  <2> QED BY <1>1, <2>1
<1>5. ASSUME NEW t \in Tasks, BroadcastError(t) PROVE EventInv'
  BY <1>5, BeginStep DEF BroadcastError, eventVars
<1>6. ASSUME NEW j \in Jobs, JobStep(j) PROVE EventInv'
  <2>1. CASE UNCHANGED <<main, nextEvent>>
    BY <1>1, <1>2, <1>6, <2>1
    DEF JobStep, StartJob, JobTimeout, CancelJob, Broadcast, eventVars
  <2>2. CASE StartJob(j) /\ ~UNCHANGED <<main, nextEvent>>
    <3>1. /\ main.pc = "idle" /\ UNCHANGED <<managers, eventsQueue, inst>>
          /\ BeginExecute(jobs[j].task, IF jobs[j].task \in Geofencing THEN 0 ELSE j)
      BY <2>2 DEF StartJob, eventVars
    <3>2. jobs[j].task \in Tasks /\ (IF jobs[j].task \in Geofencing THEN 0 ELSE j) \in Nat
      BY DEF TypeOK, Jobs, Job
    <3> QED BY <3>1, <3>2, BeginStep
  <2> QED BY <1>6, <2>1, <2>2 DEF JobStep, JobTimeout, CancelJob, Broadcast
<1>7. ASSUME NEW i \in Instances, HeadlessStep(i) \/ TaskStep(i) PROVE EventInv'
  BY <1>1, <1>7, CalmHeadless, CalmTasks
<1>8. ASSUME NEW i \in Instances, ModuleStep(i) PROVE EventInv'
  BY <1>1, <1>8, CalmModules, PutStep, QueueStep, FlushStep DEF ModuleStep, SetTaskManager
<1> QED BY <1>3, <1>4, <1>5, <1>6, <1>7, <1>8, <1>9, CrashStep, ExecuteStep, Steps

-----------------------------------------------------------------------------
(***************************************************************************)
(* The process and the tasks.                                              *)
(***************************************************************************)
LEMMA ProcessStep == TypeOK /\ Process /\ [Next]_vars => Process'
<1>a. Idle.pc = "idle"
  BY DEF Idle
<1>b. ASSUME Crash PROVE Process'
  BY <1>a, <1>b DEF Crash, Process, Free
<1>c. ASSUME Process, ~up, ~up', UNCHANGED <<main, inst, saving>> PROVE Process'
  BY <1>c DEF Process, Free
<1> SUFFICES ASSUME TypeOK, Process, [Next]_vars, ~up'
             PROVE  (~up /\ UNCHANGED <<main, inst, saving>>) \/ Crash
  BY <1>b, <1>c DEF Process
<1>1. CASE UNCHANGED vars
  BY <1>1 DEF vars
<1>2. CASE StartProcess \/ WriteToDisk
  BY <1>2 DEF StartProcess, WriteToDisk
<1>10. ASSUME NEW k \in Threads, Apply(k) PROVE FALSE
  BY <1>10 DEF Apply, Process
<1>3. CASE ExecuteTask
  BY <1>3
  DEF Process, ExecuteTask, ExecuteTaskWithManager, QueueEvent, LoadApp, LoadAppRefused, EndRefused
<1>4. ASSUME NEW t \in Tasks, BroadcastError(t) PROVE FALSE
  BY <1>4 DEF BroadcastError
<1>5. ASSUME NEW j \in Jobs, JobStep(j) PROVE ~up /\ UNCHANGED <<main, inst, saving>>
  BY <1>5 DEF JobStep, StartJob, JobTimeout, CancelJob, Broadcast, tableVars, saveVars
<1>6. ASSUME NEW i \in Instances, ~up
      PROVE  /\ inst[i].pc = "new" /\ ~inst[i].dying
             /\ inst[i].running = {} /\ inst[i].notified = {}
  BY <1>6 DEF Process, NewInstance
<1>7. ASSUME NEW i \in Instances, HeadlessStep(i) PROVE FALSE
  BY <1>6, <1>7 DEF HeadlessStep, StartReactInstance, LoadFailed, Destroy, CheckInvalidate, Runs
<1>8. ASSUME NEW i \in Instances, ModuleStep(i) PROVE FALSE
  <2>1. ~up
    BY <1>8
    DEF ModuleStep, SetTaskManager, Launch, PutTaskManager, ExecuteQueue, RemoveQueue,
        FlushQueuedEvents, HostDestroy, InstanceOver
  <2>2. inst[i].pc = "new"
    BY <1>6, <2>1
  <2> QED
    BY <1>8, <2>1, <2>2
    DEF ModuleStep, SetTaskManager, Launch, PutTaskManager, ExecuteQueue, RemoveQueue,
        FlushQueuedEvents, HostDestroy, InstanceOver, Runs
<1>9. ASSUME NEW i \in Instances, TaskStep(i) PROVE FALSE
  <2>1. ASSUME NEW e \in inst[i].running, Finish(i, e) PROVE FALSE
    BY <1>6, <2>1 DEF Finish, Runs
  <2>2. ASSUME NEW e \in inst[i].notified, UnregisterUndefined(i, e) PROVE FALSE
    BY <1>6, <2>2 DEF UnregisterUndefined, Runs
  <2>3. ASSUME NEW t \in Tasks, Register(i, t) PROVE FALSE
    BY <1>6, <2>3 DEF Register, Runs
  <2>4. ASSUME NEW removed \in SUBSET Tasks, Unregister(i, removed) PROVE FALSE
    BY <1>6, <2>4 DEF Unregister, Runs
  <2> QED BY <1>9, <2>1, <2>2, <2>3, <2>4 DEF TaskStep
<1> QED BY <1>1, <1>2, <1>3, <1>4, <1>5, <1>7, <1>8, <1>9, <1>10, Steps

\* a save of the table: whatever was under way, the new save is about to write the new table
LEMMA SavesTable ==
  ASSUME TypeOK, NEW k \in Threads, SaveTasks(k, tasksTable')
  PROVE  SaveInv'
<1>1. /\ saving' = [saving EXCEPT ![k] = {tasksTable'}]
      /\ saving \in [Threads -> SUBSET SUBSET Tasks]
      /\ overlapped' = Saving
  BY DEF SaveTasks, TypeOK
<1>2. SUFFICES ASSUME ~overlapped' PROVE SaveInv'
  BY DEF SaveInv
<1>3. \A l \in Threads : saving[l] = {}
  BY <1>1, <1>2 DEF Saving, Free
<1>4. saving'[k] = {tasksTable'} /\ \A l \in Threads \ {k} : saving'[l] = {}
  BY <1>1, <1>3
<1> QED BY <1>4 DEF SaveInv, Saving, Free

\* a save of the record that was read: what was saved is the table
LEMMA SavesRecord ==
  ASSUME TypeOK, SaveInv, NEW k \in Threads, RewriteRecord(k), UNCHANGED <<up, tasksTable>>
  PROVE  SaveInv'
<1>1. /\ saving' = [saving EXCEPT ![k] = {preferences}]
      /\ saving \in [Threads -> SUBSET SUBSET Tasks]
      /\ overlapped' = (overlapped \/ Saving)
  BY DEF RewriteRecord, TypeOK
<1>2. SUFFICES ASSUME up, ~overlapped' PROVE SaveInv'
  BY DEF SaveInv
<1>3. /\ \A l \in Threads : saving[l] = {}
      /\ preferences = tasksTable
  BY <1>1, <1>2 DEF SaveInv, Saving, Free
<1>4. saving'[k] = {tasksTable'} /\ \A l \in Threads \ {k} : saving'[l] = {}
  BY <1>1, <1>3
<1> QED BY <1>4 DEF SaveInv, Saving, Free

LEMMA SavesKept ==
  ASSUME SaveInv, UNCHANGED <<up, tasksTable, preferences, saving, overlapped>>
  PROVE  SaveInv'
BY DEF SaveInv, Saving, Free

LEMMA SavesApplied ==
  ASSUME TypeOK, SaveInv, NEW k \in Threads, Apply(k)
  PROVE  SaveInv'
<1>1. /\ UNCHANGED <<up, tasksTable, overlapped>>
      /\ preferences' \in saving[k] /\ saving[k] # {}
      /\ saving' = [saving EXCEPT ![k] = {}]
      /\ saving \in [Threads -> SUBSET SUBSET Tasks]
  BY DEF Apply, Free, TypeOK
<1>2. SUFFICES ASSUME up, ~overlapped PROVE SaveInv'
  BY <1>1 DEF SaveInv
<1>3. preferences' = tasksTable
  BY <1>1, <1>2 DEF SaveInv
<1>4. \A l \in Threads \ {k} : saving[l] = {}
  BY <1>1, <1>2 DEF SaveInv, Free
<1>5. \A l \in Threads : saving'[l] = {}
  BY <1>1, <1>4
<1> QED BY <1>1, <1>3, <1>5 DEF SaveInv, Saving, Free

LEMMA SavedStep == TypeOK /\ Process /\ SaveInv /\ [Next]_vars => SaveInv'
<1> SUFFICES ASSUME TypeOK, Process, SaveInv, [Next]_vars PROVE SaveInv'
  OBVIOUS
<1>0. 0 \in Threads /\ \A i \in Instances : i \in Threads
  BY BoundsAssumption DEF Instances, Threads
<1>1. ASSUME UNCHANGED <<up, tasksTable>>, UNCHANGED saveVars PROVE SaveInv'
  BY <1>1, SavesKept DEF saveVars
<1>2. CASE UNCHANGED vars
  BY <1>1, <1>2 DEF vars, saveVars
<1>3. CASE StartProcess
  BY <1>3 DEF StartProcess, Process, SaveInv, Saving, Free
<1>4. CASE Crash
  BY <1>4 DEF Crash, SaveInv
<1>5. CASE WriteToDisk
  BY <1>5, SavesKept DEF WriteToDisk
<1>6. ASSUME NEW k \in Threads, Apply(k) PROVE SaveInv'
  BY <1>6, SavesApplied
<1>7. CASE ExecuteTask
  <2>1. ASSUME LoadAppRefused PROVE SaveInv'
    <3>1. CASE SaveTasks(0, tasksTable')
      BY <1>0, <3>1, SavesTable
    <3>2. CASE main.event.task \notin tasksTable /\ UNCHANGED saveVars
      BY <1>1, <2>1, <3>2 DEF LoadAppRefused
    <3> QED BY <2>1, <3>1, <3>2 DEF LoadAppRefused
  <2>2. ASSUME ~LoadAppRefused PROVE SaveInv'
    BY <1>1, <1>7, <2>2
    DEF ExecuteTask, ExecuteTaskWithManager, QueueEvent, LoadApp, EndRefused, tableVars
  <2> QED BY <2>1, <2>2
<1>8. ASSUME NEW t \in Tasks, BroadcastError(t) PROVE SaveInv'
  BY <1>1, <1>8 DEF BroadcastError, tableVars
<1>9. ASSUME NEW j \in Jobs, JobStep(j) PROVE SaveInv'
  BY <1>1, <1>9 DEF JobStep, StartJob, JobTimeout, CancelJob, Broadcast, tableVars
<1>10. ASSUME NEW i \in Instances, HeadlessStep(i) PROVE SaveInv'
  <2>1. ASSUME LoadFailed(i) PROVE SaveInv'
    BY <1>0, <2>1, SavesTable DEF LoadFailed
  <2> QED
    BY <1>1, <1>10, <2>1
    DEF HeadlessStep, StartReactInstance, Destroy, CheckInvalidate, tableVars
<1>11. ASSUME NEW i \in Instances, ModuleStep(i) PROVE SaveInv'
  <2>1. ASSUME RemoveQueue(i) PROVE SaveInv'
    BY <1>0, <1>1, <2>1, SavesRecord DEF RemoveQueue
  <2> QED
    BY <1>1, <1>11, <2>1
    DEF ModuleStep, SetTaskManager, Launch, PutTaskManager, ExecuteQueue, FlushQueuedEvents,
        HostDestroy, InstanceOver, tableVars
<1>12. ASSUME NEW i \in Instances, TaskStep(i) PROVE SaveInv'
  <2>1. ASSUME NEW e \in inst[i].running, Finish(i, e) PROVE SaveInv'
    BY <1>1, <2>1 DEF Finish, tableVars
  <2>2. ASSUME NEW e \in inst[i].notified, UnregisterUndefined(i, e) PROVE SaveInv'
    <3>1. CASE SaveTasks(i, tasksTable')
      BY <1>0, <3>1, SavesTable
    <3>2. CASE e.task \notin tasksTable /\ UNCHANGED saveVars
      BY <1>1, <2>2, <3>2 DEF UnregisterUndefined
    <3> QED BY <2>2, <3>1, <3>2 DEF UnregisterUndefined
  <2>3. ASSUME NEW t \in Tasks, Register(i, t) PROVE SaveInv'
    BY <1>0, <2>3, SavesTable DEF Register
  <2>4. ASSUME NEW removed \in SUBSET Tasks, Unregister(i, removed) PROVE SaveInv'
    BY <1>0, <2>4, SavesTable DEF Unregister
  <2> QED BY <1>12, <2>1, <2>2, <2>3, <2>4 DEF TaskStep
<1> QED
  BY <1>2, <1>3, <1>4, <1>5, <1>6, <1>7, <1>8, <1>9, <1>10, <1>11, <1>12, Steps

\* the events that JavaScript has answered for
Answered(r) == ToSet(r.emitted) \ (r.running \cup r.notified)

\* an action that adds to them only what is defined or not registered, and to the tasks only
\* what the app registers
LEMMA AnsweredStep ==
  ASSUME UndefinedTaskIsUnregistered,
         tasksTable' \ renewed' \subseteq tasksTable \ renewed,
         \A i \in Instances : \A e \in Answered(inst'[i]) \ Answered(inst[i]) :
           e.task \in Defined \/ e.task \notin tasksTable'
  PROVE  UndefinedTaskIsUnregistered'
BY DEF UndefinedTaskIsUnregistered, Answered

LEMMA AnsweredInOne ==
  ASSUME inst \in [Instances -> Instance], NEW i \in Instances, NEW r,
         inst' = [inst EXCEPT ![i] = r], Answered(r) \subseteq Answered(inst[i])
  PROVE  \A k \in Instances : Answered(inst'[k]) \subseteq Answered(inst[k])
<1>1. inst'[i] = r /\ \A k \in Instances \ {i} : inst'[k] = inst[k]
  OBVIOUS
<1> QED BY <1>1

LEMMA AnsweredSame ==
  ASSUME NEW r, NEW q, q.emitted = r.emitted, q.running = r.running, q.notified = r.notified
  PROVE  Answered(q) = Answered(r)
BY DEF Answered

LEMMA AnsweredNone == Answered(Over) = {} /\ Answered(NewInstance) = {}
BY ForgottenRecord, NoEvents DEF Answered

LEMMA GivenAnswered ==
  ASSUME NEW r \in Instance, NEW body \in Seq(Event)
  PROVE  Answered(Given(r, body)) \subseteq Answered(r)
<1> DEFINE g == Given(r, body)
<1>1. CASE r.pc = "over"
  BY <1>1 DEF Given
<1>2. CASE r.pc # "over" /\ ~r.observed
  <2>1. g.emitted = r.emitted /\ g.running = r.running /\ g.notified = r.notified
    BY <1>2 DEF Given, Instance
  <2> QED BY <2>1 DEF Answered
<1>3. CASE r.pc # "over" /\ r.observed
  <2>1. /\ g.emitted = r.emitted \o body /\ g.running = r.running \cup ToSet(body)
        /\ g.notified = r.notified
    BY <1>3 DEF Given, Instance
  <2>2. ToSet(r.emitted \o body) = ToSet(r.emitted) \cup ToSet(body)
    BY ConcatEvents DEF Instance
  <2> QED BY <2>1, <2>2 DEF Answered
<1> QED BY <1>1, <1>2, <1>3 DEF Instance

LEMMA UndefinedTasks ==
  ASSUME TypeOK, UndefinedTaskIsUnregistered, NEW i \in Instances, TaskStep(i)
  PROVE  UndefinedTaskIsUnregistered'
<1>0. inst \in [Instances -> Instance] /\ inst[i] \in Instance
  BY EventTypes
<1>1. ASSUME NEW e \in inst[i].running, Finish(i, e) PROVE UndefinedTaskIsUnregistered'
  <2>1. PICK S \in {inst[i].notified, inst[i].notified \cup {e}},
             n \in {inst[i].checks, inst[i].checks + 1} :
          inst' = [inst EXCEPT ![i] = [inst[i] EXCEPT !.running = inst[i].running \ {e},
                                                      !.notified = S, !.checks = n]]
    BY <1>0, <1>1, WrittenByFinish
  <2> DEFINE r == [inst[i] EXCEPT !.running = inst[i].running \ {e}, !.notified = S, !.checks = n]
  <2>2. r.emitted = inst[i].emitted /\ r.running = inst[i].running \ {e} /\ r.notified = S
    BY <1>0 DEF Instance
  <2>3. inst' = [inst EXCEPT ![i] = r]
    BY <2>1
  <2> HIDE DEF r
  <2>4. inst'[i] = r /\ \A k \in Instances \ {i} : inst'[k] = inst[k]
    BY <1>0, <2>3
  <2>5. e.task \in Defined \/ inst'[i].notified = inst[i].notified \cup {e}
    BY <1>0, <1>1, <2>2, <2>4 DEF Finish, Instance
  <2>6. \A f \in Answered(inst'[i]) \ Answered(inst[i]) : f.task \in Defined
    BY <2>1, <2>2, <2>4, <2>5 DEF Answered
  <2>7. \A k \in Instances \ {i} : Answered(inst'[k]) \subseteq Answered(inst[k])
    BY <2>4
  <2>8. tasksTable' = tasksTable /\ renewed' = renewed
    BY <1>1 DEF Finish, tableVars
  <2> QED BY <2>6, <2>7, <2>8, AnsweredStep
<1>2. ASSUME NEW e \in inst[i].notified, UnregisterUndefined(i, e)
      PROVE  UndefinedTaskIsUnregistered'
  <2> DEFINE r == [inst[i] EXCEPT !.notified = inst[i].notified \ {e}]
  <2>1. /\ r.emitted = inst[i].emitted /\ r.running = inst[i].running
        /\ r.notified = inst[i].notified \ {e}
    BY <1>0 DEF Instance
  <2>2. inst' = [inst EXCEPT ![i] = r]
    BY <1>0, <1>2, WrittenByUnregister
  <2> HIDE DEF r
  <2>3. inst'[i] = r /\ \A k \in Instances \ {i} : inst'[k] = inst[k]
    BY <1>0, <2>2
  <2>4. tasksTable' = tasksTable \ {e.task} /\ renewed' = renewed \ {e.task}
    BY <1>2 DEF UnregisterUndefined
  <2>5. \A f \in Answered(inst'[i]) \ Answered(inst[i]) : f.task \notin tasksTable'
    BY <2>1, <2>3, <2>4 DEF Answered
  <2>6. \A k \in Instances \ {i} : Answered(inst'[k]) \subseteq Answered(inst[k])
    BY <2>3
  <2> QED BY <2>4, <2>5, <2>6, AnsweredStep
<1>3. ASSUME NEW t \in Tasks, Register(i, t) PROVE UndefinedTaskIsUnregistered'
  BY <1>3, AnsweredStep DEF Register
<1>4. ASSUME NEW removed \in SUBSET Tasks, Unregister(i, removed)
      PROVE  UndefinedTaskIsUnregistered'
  BY <1>4, AnsweredStep DEF Unregister
<1> QED BY <1>1, <1>2, <1>3, <1>4 DEF TaskStep

LEMMA UndefinedExecute ==
  ASSUME TypeOK, EventInv, UndefinedTaskIsUnregistered, ExecuteTask
  PROVE  UndefinedTaskIsUnregistered'
<1>1. tasksTable' \subseteq tasksTable /\ renewed' = renewed
  BY DEF ExecuteTask, ExecuteTaskWithManager, QueueEvent, LoadApp, LoadAppRefused, EndRefused,
         tableVars
<1>2. CASE QueueEvent \/ LoadAppRefused \/ EndRefused
  <2>1. inst' = inst
    BY <1>2 DEF QueueEvent, LoadAppRefused, EndRefused
  <2> QED BY <1>1, <2>1, AnsweredStep
<1>3. CASE ExecuteTaskWithManager
  <2>0. PICK i \in Instances : i = main.manager
    BY <1>3, EventTypes DEF ExecuteTaskWithManager
  <2>1. PICK e \in Event : e = main.event
    BY EventTypes
  <2> DEFINE g == Given(inst[i], <<e>>)
  <2>2. inst' = [inst EXCEPT ![i] = g]
    BY <1>3, <2>0, <2>1 DEF ExecuteTaskWithManager
  <2>3. Answered(g) \subseteq Answered(inst[i])
    BY <2>1, EventTypes, OneEvent, GivenAnswered
  <2> HIDE DEF g
  <2>4. \A k \in Instances : Answered(inst'[k]) \subseteq Answered(inst[k])
    BY <2>2, <2>3, EventTypes, AnsweredInOne
  <2> QED BY <1>1, <2>4, AnsweredStep
<1>4. ASSUME NEW i \in Instances, LoadApp(i) PROVE UndefinedTaskIsUnregistered'
  <2> DEFINE r == [inst[i] EXCEPT !.pc = "loading", !.kind = "headless"]
  <2>1. Answered(r) = Answered(inst[i])
    <3>1. /\ r.emitted = inst[i].emitted /\ r.running = inst[i].running
          /\ r.notified = inst[i].notified
      BY EventTypes DEF Instance
    <3> HIDE DEF r
    <3> QED BY <3>1, AnsweredSame
  <2>2. inst' = [inst EXCEPT ![i] = r]
    BY <1>4, EventTypes, WrittenRecord
  <2> HIDE DEF r
  <2>3. \A k \in Instances : Answered(inst'[k]) \subseteq Answered(inst[k])
    BY <2>1, <2>2, EventTypes, AnsweredInOne
  <2> QED BY <1>1, <2>3, AnsweredStep
<1> QED BY <1>2, <1>3, <1>4 DEF ExecuteTask

LEMMA UndefinedHeadless ==
  ASSUME TypeOK, UndefinedTaskIsUnregistered, NEW i \in Instances, HeadlessStep(i)
  PROVE  UndefinedTaskIsUnregistered'
<1>0. inst \in [Instances -> Instance] /\ inst[i] \in Instance
  BY EventTypes
<1>1. tasksTable' \subseteq tasksTable /\ renewed' = renewed
  BY DEF HeadlessStep, StartReactInstance, LoadFailed, Destroy, CheckInvalidate, tableVars, saveVars
<1>2. CASE StartReactInstance(i)
  <2> DEFINE r == [inst[i] EXCEPT !.pc = "starting", !.reachable = TRUE]
  <2>1. Answered(r) = Answered(inst[i])
    <3>1. /\ r.emitted = inst[i].emitted /\ r.running = inst[i].running
          /\ r.notified = inst[i].notified
      BY <1>0 DEF Instance
    <3> HIDE DEF r
    <3> QED BY <3>1, AnsweredSame
  <2>2. inst' = [inst EXCEPT ![i] = r]
    BY <1>0, <1>2, WrittenRecord
  <2> HIDE DEF r
  <2>3. \A k \in Instances : Answered(inst'[k]) \subseteq Answered(inst[k])
    BY <1>0, <2>1, <2>2, AnsweredInOne
  <2> QED BY <1>1, <2>3, AnsweredStep
<1>3. CASE LoadFailed(i) \/ Destroy(i)
  <2>1. inst' = [inst EXCEPT ![i] = Over]
    BY <1>3 DEF LoadFailed, Destroy
  <2>2. Answered(Over) \subseteq Answered(inst[i])
    BY AnsweredNone
  <2>3. \A k \in Instances : Answered(inst'[k]) \subseteq Answered(inst[k])
    BY <1>0, <2>1, <2>2, AnsweredInOne
  <2> QED BY <1>1, <2>3, AnsweredStep
<1>4. CASE CheckInvalidate(i)
  <2>1. \A k \in Instances : Answered(inst'[k]) = Answered(inst[k])
    BY <1>0, <1>4, CheckKeeps DEF Answered
  <2> QED BY <1>1, <2>1, AnsweredStep
<1> QED BY <1>2, <1>3, <1>4 DEF HeadlessStep

LEMMA UndefinedModules ==
  ASSUME TypeOK, EventInv, UndefinedTaskIsUnregistered, NEW i \in Instances, ModuleStep(i)
  PROVE  UndefinedTaskIsUnregistered'
<1>0. inst \in [Instances -> Instance] /\ inst[i] \in Instance
  BY EventTypes
<1>1. tasksTable' = tasksTable /\ renewed' = renewed
  BY DEF ModuleStep, SetTaskManager, Launch, PutTaskManager, ExecuteQueue, RemoveQueue,
         FlushQueuedEvents, HostDestroy, InstanceOver, tableVars, saveVars
<1>2. SUFFICES \E r : inst' = [inst EXCEPT ![i] = r] /\ Answered(r) \subseteq Answered(inst[i])
  BY <1>0, <1>1, AnsweredInOne, AnsweredStep
<1>3. CASE InstanceOver(i)
  BY <1>3, AnsweredNone DEF InstanceOver
<1>4. CASE Launch(i) \/ PutTaskManager(i) \/ RemoveQueue(i) \/ HostDestroy(i)
  <2>1. PICK pc \in {"starting", "put", "run", "detached"} :
          inst' = [inst EXCEPT ![i] = [inst[i] EXCEPT !.pc = pc]]
    BY <1>0, <1>4, WrittenRecord
  <2> DEFINE r == [inst[i] EXCEPT !.pc = pc]
  <2>2. r.emitted = inst[i].emitted /\ r.running = inst[i].running /\ r.notified = inst[i].notified
    BY <1>0 DEF Instance
  <2>3. inst' = [inst EXCEPT ![i] = r]
    BY <2>1
  <2> HIDE DEF r
  <2> QED BY <2>2, <2>3, AnsweredSame
<1>5. CASE ExecuteQueue(i)
  <2> DEFINE g == Given(inst[i], eventsQueue)
  <2>1. Answered(g) \subseteq Answered(inst[i]) /\ g \in Instance
    BY <1>0, EventTypes, GivenAnswered, GivenType
  <2> DEFINE r == [g EXCEPT !.pc = "queue"]
  <2>2. inst' = [inst EXCEPT ![i] = r]
    BY <1>5 DEF ExecuteQueue
  <2> HIDE DEF g
  <2>3. r.emitted = g.emitted /\ r.running = g.running /\ r.notified = g.notified
    BY <2>1 DEF Instance
  <2> HIDE DEF r
  <2> QED BY <2>1, <2>2, <2>3, AnsweredSame
<1>6. CASE FlushQueuedEvents(i)
  <2> DEFINE r == [inst[i] EXCEPT !.observed = TRUE, !.buffer = <<>>,
                           !.emitted = inst[i].emitted \o inst[i].buffer,
                           !.running = inst[i].running \cup ToSet(inst[i].buffer)]
  <2>1. /\ r.emitted = inst[i].emitted \o inst[i].buffer
        /\ r.running = inst[i].running \cup ToSet(inst[i].buffer)
        /\ r.notified = inst[i].notified
    BY <1>0 DEF Instance
  <2>2. inst' = [inst EXCEPT ![i] = r]
    BY <1>0, <1>6, WrittenByFlush
  <2>3. ToSet(inst[i].emitted \o inst[i].buffer) = ToSet(inst[i].emitted) \cup ToSet(inst[i].buffer)
    BY EventTypes, ConcatEvents
  <2> HIDE DEF r
  <2>4. Answered(r) \subseteq Answered(inst[i])
    BY <2>1, <2>3 DEF Answered
  <2> QED BY <2>2, <2>4
<1> QED BY <1>3, <1>4, <1>5, <1>6 DEF ModuleStep, SetTaskManager

LEMMA UndefinedStep ==
  ASSUME TypeOK, Process, EventInv, UndefinedTaskIsUnregistered, [Next]_vars
  PROVE  UndefinedTaskIsUnregistered'
<1>1. ASSUME UNCHANGED <<inst, renewed>>, tasksTable' \subseteq tasksTable
      PROVE  UndefinedTaskIsUnregistered'
  BY <1>1, AnsweredStep
<1>2. ASSUME inst' = [i \in Instances |-> NewInstance] PROVE UndefinedTaskIsUnregistered'
  <2>1. \A i \in Instances : ToSet(inst'[i].emitted) = {}
    BY <1>2, ForgottenRecord, NoEvents
  <2> QED BY <2>1 DEF UndefinedTaskIsUnregistered
<1>3. CASE UNCHANGED vars
  BY <1>1, <1>3 DEF vars
<1>4. CASE StartProcess
  BY <1>2, <1>4 DEF StartProcess, Process
<1>5. CASE Crash
  BY <1>2, <1>5 DEF Crash
<1>6. ASSUME NEW t \in Tasks, BroadcastError(t) PROVE UndefinedTaskIsUnregistered'
  BY <1>1, <1>6 DEF BroadcastError, tableVars, saveVars
<1>7. ASSUME NEW j \in Jobs, JobStep(j) PROVE UndefinedTaskIsUnregistered'
  BY <1>1, <1>7 DEF JobStep, StartJob, JobTimeout, CancelJob, Broadcast, tableVars, saveVars
<1>9. CASE WriteToDisk \/ \E k \in Threads : Apply(k)
  BY <1>1, <1>9 DEF WriteToDisk, Apply
<1>8. ASSUME NEW i \in Instances, HeadlessStep(i) \/ ModuleStep(i) \/ TaskStep(i)
      PROVE  UndefinedTaskIsUnregistered'
  BY <1>8, UndefinedHeadless, UndefinedModules, UndefinedTasks
<1> QED BY <1>3, <1>4, <1>5, <1>6, <1>7, <1>8, <1>9, UndefinedExecute, Steps

-----------------------------------------------------------------------------
(***************************************************************************)
(* The theorems.                                                           *)
(***************************************************************************)
LEMMA InitInv == Init => IInv
<1> SUFFICES ASSUME Init PROVE IInv
  OBVIOUS
<1>1. TypeOK
  BY InitType
<1>2. Process /\ SaveInv
  <2>1. Idle.pc = "idle"
    BY DEF Idle
  <2> QED BY <2>1 DEF Init, Process, SaveInv, Free
<1>3. /\ main.pc = "idle" /\ main.manager = None
      /\ \A k \in Kinds : managers[k] = None
      /\ eventsQueue = <<>>
      /\ \A i \in Instances : inst[i] = NewInstance
  BY DEF Init, Idle
<1>4. \A i \in Instances : inst[i].emitted = <<>> /\ inst[i].buffer = <<>> /\ inst[i].pc = "new"
  BY <1>3 DEF NewInstance
<1>5. \A i \in Instances : Held(i) = {}
  BY <1>4, NoEvents DEF Held
<1>6. Managers /\ Numbers
  BY <1>3, <1>5, NoEvents DEF Managers, Numbers
<1>7. Once
  BY <1>3, <1>4, <1>5, NoEvents DEF Once, OnceIn
<1>8. UndefinedTaskIsUnregistered
  BY <1>4, NoEvents DEF UndefinedTaskIsUnregistered
<1> QED BY <1>1, <1>2, <1>6, <1>7, <1>8 DEF IInv, EventInv

\* IInv is inductive.
THEOREM Inductive == Spec => []IInv
<1>1. IInv /\ [Next]_vars => IInv'
  <2> SUFFICES ASSUME IInv, [Next]_vars PROVE IInv'
    OBVIOUS
  <2>1. TypeOK /\ Process /\ EventInv /\ SaveInv /\ UndefinedTaskIsUnregistered
    BY DEF IInv
  <2>2. TypeOK' /\ Process'
    BY <2>1, TypeStep, ProcessStep
  <2>3. EventInv'
    BY <2>1, EventStep
  <2>4. SaveInv'
    BY <2>1, SavedStep
  <2>5. UndefinedTaskIsUnregistered'
    BY <2>1, UndefinedStep
  <2> QED BY <2>2, <2>3, <2>4, <2>5 DEF IInv
<1> QED BY <1>1, InitInv, PTL DEF Spec

\* Every variable keeps its type: no bound, no size of a table matters.
THEOREM TypeCorrect == Spec => []TypeOK
<1>1. IInv => TypeOK
  BY DEF IInv
<1> QED BY <1>1, Inductive, PTL

\* Once a save has met no other save and none is under way, the tasks in SharedPreferences are
\* the registered ones, whoever registered or unregistered them (saveTasksForAppWithId and
\* removeAppFromConfig follow each change of sTasksTable, and a new url leaves the tasks alone).
THEOREM TasksSaved == Spec => []RegisteredTasksAreSaved
<1>1. IInv => RegisteredTasksAreSaved
  BY DEF IInv, SaveInv, RegisteredTasksAreSaved
<1> QED BY <1>1, Inductive, PTL

\* A task for which JavaScript has no function is unregistered after its first event, until the
\* app registers it again.
THEOREM UndefinedGone == Spec => []UndefinedTaskIsUnregistered
<1>1. IInv => UndefinedTaskIsUnregistered
  BY DEF IInv
<1> QED BY <1>1, Inductive, PTL

\* No instance gets an event twice, however executeTask, setTaskManager and flushQueuedEvents
\* interleave.
THEOREM GivenOnlyOnce == Spec => []EventsAreGivenOnce
<1>1. IInv => EventsAreGivenOnce
  <2> SUFFICES ASSUME IInv, NEW i \in Instances
               PROVE  IsInjective(inst[i].emitted \o inst[i].buffer)
    BY DEF EventsAreGivenOnce
  <2>1. TypeOK /\ OnceIn(i)
    BY DEF IInv, EventInv, Once
  <2>2. inst[i].emitted \in Seq(Event) /\ inst[i].buffer \in Seq(Event)
    BY <2>1, EventTypes
  <2> QED BY <2>1, <2>2, ConcatOnce DEF OnceIn
<1> QED BY <1>1, Inductive, PTL
=============================================================================
