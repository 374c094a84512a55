---------------------------- MODULE TaskService ----------------------------
(***************************************************************************)
(* Background tasks of one app on Android (packages/expo-task-manager).    *)
(* The system broadcasts what happened to a task (a location, an alarm);   *)
(* its consumer schedules a job; the job, on the main thread, executes the *)
(* task: its event is given to the task manager of a React instance of the *)
(* app, or waits while a headless one is loaded.  JavaScript runs the task *)
(* and notifies the service, which finishes the job and, when nothing is   *)
(* left to do, destroys the headless instance two seconds later.           *)
(*                                                                         *)
(* The static tables of TaskService belong to the process and are used     *)
(* without locks by the main thread and by the threads of each React       *)
(* instance.  executeTask and setTaskManager are split where the other one *)
(* can come between, and every call that saves tasks is split before it    *)
(* writes SharedPreferences; any other call of the service is one step.    *)
(***************************************************************************)
EXTENDS Integers, Sequences, SequencesExt

CONSTANTS
  Tasks,         \* names of tasks
  Defined,       \* those that the app's JavaScript defines
  Geofencing,    \* those whose consumer watches geofences
  MaxJobs,       \* bound: jobs scheduled
  MaxInstances,  \* bound, in one process: React instances of the app
  MaxCalls       \* bound, in one process: executions of a task, and changes by the app of what
                 \* is registered, together

ASSUME TasksAssumption == Defined \subseteq Tasks /\ Geofencing \subseteq Tasks /\ Tasks # {}
ASSUME BoundsAssumption == {MaxJobs, MaxInstances, MaxCalls} \subseteq Nat

None == 0
Instances == 1..MaxInstances
Jobs == 1..MaxJobs
Threads == 0..MaxInstances  \* the main thread, and that of each instance (or of its loader)

VARIABLES
  up,          \* the process runs
  loader,      \* an app loader for headless apps is built in, fixed
  tasksTable,  \* sTasksTable
  preferences, \* the tasks in the record of the app in SharedPreferences, {} if there is none
  disk,        \* the same in the file behind it, which apply() writes later
  saving,      \* by thread: no record, or the one it is about to put in SharedPreferences
  overlapped,  \* history: the last save of the table met another save
  managers,    \* sTaskManagers, sHeadlessTaskManagers: by kind, the instance that is registered
  events,      \* sEvents: no entry, or the events in the list of the app
  eventsQueue, \* sEventsQueues
  appRecord,   \* sAppRecords
  inst,        \* the React instances
  main,        \* the main thread: idle, or in executeTask
  jobs,        \* the JobScheduler of the system
  nextJobId,   \* sCurrentJobId
  nextEvent,   \* event ids (random in the code) handed out so far
  changes,     \* registrations and unregistrations that the app asked for
  renewed      \* history: tasks registered by the app since they were reported as undefined

vars == <<up, loader, tasksTable, preferences, disk, saving, overlapped, managers, events,
          eventsQueue, appRecord, inst, main, jobs, nextJobId, nextEvent, changes, renewed>>
saveVars == <<preferences, disk, saving, overlapped>>
tableVars == <<tasksTable, renewed, saveVars>>
eventVars == <<managers, events, eventsQueue, appRecord>>
jobVars == <<jobs, nextJobId>>

-----------------------------------------------------------------------------
\* job: whose callback waits for the event, 0 if nobody's
Event == [n : Nat, task : Tasks, job : Nat]
Kinds == {"foreground", "headless"}
Job == [state : {"new", "pending", "running", "ended", "lost"}, id : Nat, task : Tasks,
        timer : BOOLEAN]
\* pc: loading (HeadlessAppLoader at work), starting (the context is being created), put and
\* queue (in setTaskManager), run, detached (its activity was destroyed), over.
\* reachable: the app record can destroy it; dying: it has
Instance ==
  [pc : {"new", "loading", "starting", "put", "queue", "run", "detached", "over"},
   kind : Kinds, reachable : BOOLEAN, dying : BOOLEAN,
   observed : BOOLEAN,       \* mEventsQueue was flushed
   buffer : Seq(Event),      \* mEventsQueue
   emitted : Seq(Event),     \* history: events given to JavaScript
   running : SUBSET Event,   \* tasks that JavaScript executes
   notified : SUBSET Event,  \* finished ones of tasks it does not define
   checks : Nat]             \* delayed checks whether the headless app can go
NewInstance ==
  [pc |-> "new", kind |-> "foreground", reachable |-> FALSE, dying |-> FALSE, observed |-> FALSE,
   buffer |-> <<>>, emitted |-> <<>>, running |-> {}, notified |-> {}, checks |-> 0]
Over == [NewInstance EXCEPT !.pc = "over"]
MainThread == [pc : {"idle", "execute", "refused"}, event : Event, manager : Instances \cup {None}]
Idle ==
  [pc |-> "idle", event |-> [n |-> 0, task |-> CHOOSE t \in Tasks : TRUE, job |-> 0],
   manager |-> None]
NewJob == [state |-> "new", id |-> 0, task |-> CHOOSE t \in Tasks : TRUE, timer |-> FALSE]

TypeOK ==
  /\ up \in BOOLEAN /\ loader \in BOOLEAN
  /\ {tasksTable, preferences, disk, renewed} \subseteq SUBSET Tasks
  /\ saving \in [Threads -> SUBSET SUBSET Tasks] /\ overlapped \in BOOLEAN
  /\ managers \in [Kinds -> Instances \cup {None}]
  /\ events \subseteq SUBSET Event /\ eventsQueue \in Seq(Event)
  /\ appRecord \in Instances \cup {None}
  /\ inst \in [Instances -> Instance]
  /\ main \in MainThread
  /\ jobs \in [Jobs -> Job]
  /\ {nextJobId, nextEvent, changes} \subseteq Nat

\* an earlier version of the app may have left tasks that this one does not define
Init ==
  /\ up = FALSE /\ loader \in BOOLEAN
  /\ tasksTable = {} /\ renewed = {}
  /\ preferences \in SUBSET Tasks /\ disk = preferences
  /\ saving = [k \in Threads |-> {}] /\ overlapped = FALSE
  /\ managers = [k \in Kinds |-> None]
  /\ events = {} /\ eventsQueue = <<>> /\ appRecord = None
  /\ inst = [i \in Instances |-> NewInstance]
  /\ main = Idle
  /\ jobs = [j \in Jobs |-> NewJob]
  /\ nextJobId = 1 /\ nextEvent = 0 /\ changes = 0

-----------------------------------------------------------------------------
(***************************************************************************)
(* The saved tasks.                                                        *)
(***************************************************************************)
\* a thread in the middle of a save does nothing else
Free(k) == saving[k] = {}
Saving == \E k \in Threads : ~Free(k)

\* saveTasksForAppWithId, removeAppFromConfig: thread k is about to put the tasks of the table ...
SaveTasks(k, tasks) ==
  /\ saving' = [saving EXCEPT ![k] = {tasks}]
  /\ overlapped' = Saving
  /\ UNCHANGED <<preferences, disk>>

\* ... or, maybeUpdateAppUrlForAppId, the whole record that it has read, with another url
RewriteRecord(k) ==
  /\ preferences # {}
  /\ saving' = [saving EXCEPT ![k] = {preferences}]
  /\ overlapped' = (overlapped \/ Saving)
  /\ UNCHANGED <<preferences, disk>>

\* apply(): the record in memory is replaced ...
Apply(k) ==
  /\ ~Free(k)
  /\ preferences' \in saving[k]
  /\ saving' = [saving EXCEPT ![k] = {}]
  /\ UNCHANGED <<up, loader, tasksTable, renewed, disk, overlapped, eventVars, inst, main, jobVars,
                 nextEvent, changes>>

\* ... and later the file, by a thread of Android
WriteToDisk ==
  /\ up /\ disk # preferences
  /\ disk' = preferences
  /\ UNCHANGED <<up, loader, tasksTable, renewed, preferences, saving, overlapped, eventVars, inst,
                 main, jobVars, nextEvent, changes>>

-----------------------------------------------------------------------------
(***************************************************************************)
(* The process and the system.                                             *)
(***************************************************************************)
\* the first TaskService of a process restores the tasks, without those whose consumer has
\* changed since, and saves what it has restored
StartProcess ==
  /\ ~up
  /\ up' = TRUE
  /\ tasksTable' \in SUBSET preferences
  /\ preferences' = tasksTable' /\ overlapped' = FALSE
  /\ UNCHANGED <<loader, disk, saving, renewed, eventVars, inst, main, jobVars, nextEvent, changes>>

\* all static tables go, and what is not in the file; the system runs again a job that was running
Crash ==
  /\ up /\ up' = FALSE
  /\ tasksTable' = {} /\ renewed' = {}
  /\ preferences' = disk /\ saving' = [k \in Threads |-> {}] /\ overlapped' = FALSE
  /\ managers' = [k \in Kinds |-> None]
  /\ events' = {} /\ eventsQueue' = <<>> /\ appRecord' = None
  /\ inst' = [i \in Instances |-> NewInstance]
  /\ main' = Idle
  /\ jobs' = [j \in Jobs |-> IF jobs[j].state = "running"
                             THEN [jobs[j] EXCEPT !.state = "pending", !.timer = FALSE]
                             ELSE jobs[j]]
  /\ nextJobId' = 1 /\ nextEvent' = 0 /\ changes' = 0
  /\ UNCHANGED <<loader, disk>>

\* jobFinished.  A timer or a callback of a job that is over does nothing
Ended(job) == [job EXCEPT !.state = "ended", !.timer = FALSE]

\* scheduleJob: an earlier job with the same id is cancelled
Cancelled(id) ==
  [j \in Jobs |-> IF jobs[j].state \in {"pending", "running"} /\ jobs[j].id = id
                  THEN [jobs[j] EXCEPT !.state = "lost", !.timer = FALSE] ELSE jobs[j]]

\* a broadcast for a registered task: its consumer schedules a job
Broadcast(t, j) ==
  /\ up /\ main.pc = "idle" /\ t \in tasksTable
  /\ jobs[j].state = "new"
  /\ jobs' = [Cancelled(nextJobId) EXCEPT
                ![j] = [state |-> "pending", id |-> nextJobId, task |-> t, timer |-> FALSE]]
  /\ nextJobId' = nextJobId + 1
  /\ UNCHANGED <<up, loader, tableVars, eventVars, inst, main, nextEvent, changes>>

\* getTaskManager: a foreground instance first.  References are weak: one to an instance that is
\* over may be gone
ManagersFor ==
  LET Read(k) == {managers[k]} \cup
                 (IF managers[k] # None /\ inst[managers[k]].pc = "over" THEN {None} ELSE {})
  IN UNION {IF m = None THEN Read("headless") ELSE {m} : m \in Read("foreground")}

\* executeTask up to its first table
BeginExecute(t, j) ==
  /\ nextEvent + changes < MaxCalls
  /\ nextEvent' = nextEvent + 1
  /\ \E m \in ManagersFor :
       main' = [pc |-> "execute", event |-> [n |-> nextEvent + 1, task |-> t, job |-> j],
                manager |-> m]

\* handleJob.  The job of an unregistered task ends at once; any other is finished by the
\* callback of the event, which geofencing does not give, or after 15 seconds
StartJob(j) ==
  /\ up /\ main.pc = "idle" /\ jobs[j].state = "pending"
  /\ \/ /\ jobs[j].task \notin tasksTable
        /\ jobs' = [jobs EXCEPT ![j].state = "ended"]
        /\ UNCHANGED <<main, nextEvent>>
     \/ /\ jobs[j].task \in tasksTable
        /\ jobs' = [jobs EXCEPT ![j].state = "running", ![j].timer = TRUE]
        /\ BeginExecute(jobs[j].task, IF jobs[j].task \in Geofencing THEN 0 ELSE j)
  /\ UNCHANGED <<up, loader, tableVars, eventVars, inst, nextJobId, changes>>

\* a geofencing error is reported without a job
BroadcastError(t) ==
  /\ up /\ main.pc = "idle" /\ t \in tasksTable \cap Geofencing
  /\ BeginExecute(t, 0)
  /\ UNCHANGED <<up, loader, tableVars, eventVars, inst, jobVars, changes>>

\* finishJobAfterTimeout, at any time after the start, so that it does not depend on the bounds
JobTimeout(j) ==
  /\ jobs[j].timer
  /\ jobs' = [jobs EXCEPT ![j] = Ended(@)]
  /\ UNCHANGED <<up, loader, tableVars, eventVars, inst, main, nextJobId, nextEvent, changes>>

\* cancelJob: the system stops the job, no consumer asks for it again
CancelJob(j) ==
  /\ up /\ main.pc = "idle" /\ jobs[j].state = "running"
  /\ jobs' = [jobs EXCEPT ![j] = Ended(@)]
  /\ UNCHANGED <<up, loader, tableVars, eventVars, inst, main, nextJobId, nextEvent, changes>>

-----------------------------------------------------------------------------
(***************************************************************************)
(* executeTask and the headless app.                                       *)
(***************************************************************************)
\* mutant: what waited is emitted as one event
MutGiven(r, body) ==
  CASE r.pc = "over" -> r
    [] r.pc # "over" /\ ~r.observed -> [r EXCEPT !.buffer = Append(@, body)]
    [] r.pc # "over" /\ r.observed -> [r EXCEPT !.emitted = Append(@, body),
                                                !.running = @ \cup ToSet(body)]

\* executeTaskWithBody: kept until JavaScript observes, then emitted
Given(r, body) ==
  CASE r.pc = "over" -> r
    [] r.pc # "over" /\ ~r.observed -> [r EXCEPT !.buffer = @ \o body]
    [] r.pc # "over" /\ r.observed -> [r EXCEPT !.emitted = @ \o body,
                                                !.running = @ \cup ToSet(body)]

\* instances are made in order
Fresh(i) == inst[i].pc = "new" /\ \A k \in 1..i - 1 : inst[k].pc # "new"

\* sEvents with one more event
Added(e) == {(UNION events) \cup {e}}

\* mutant: no return after the event was given
MutExecuteTaskWithManager ==
  /\ main.pc = "execute" /\ main.manager # None
  /\ main' = Idle
  /\ events' = Added(main.event)
  /\ inst' = [inst EXCEPT ![main.manager] = Given(@, <<main.event>>)]
  /\ eventsQueue' = Append(eventsQueue, main.event)
  /\ UNCHANGED <<up, loader, tableVars, managers, appRecord, jobVars, nextEvent, changes>>

ExecuteTaskWithManager ==
  /\ main.pc = "execute" /\ main.manager # None
  /\ main' = Idle
  /\ events' = Added(main.event)
  /\ inst' = [inst EXCEPT ![main.manager] = Given(@, <<main.event>>)]
  /\ UNCHANGED <<up, loader, tableVars, managers, eventsQueue, appRecord, jobVars, nextEvent,
                 changes>>

\* the event waits for a headless app that was already asked for
QueueEvent ==
  /\ main.pc = "execute" /\ main.manager = None /\ appRecord # None
  /\ main' = Idle
  /\ events' = Added(main.event)
  /\ eventsQueue' = Append(eventsQueue, main.event)
  /\ UNCHANGED <<up, loader, tableVars, managers, appRecord, inst, jobVars, nextEvent, changes>>

\* the event waits for one that is loaded now
LoadApp(i) ==
  /\ main.pc = "execute" /\ main.manager = None /\ appRecord = None
  /\ loader /\ Fresh(i)
  /\ main' = Idle
  /\ events' = Added(main.event)
  /\ eventsQueue' = Append(eventsQueue, main.event)
  /\ appRecord' = i
  /\ inst' = [inst EXCEPT ![i].pc = "loading", ![i].kind = "headless"]
  /\ UNCHANGED <<up, loader, tableVars, managers, jobVars, nextEvent, changes>>

\* no loader: the task is unregistered, if no other thread has done it ...
LoadAppRefused ==
  /\ main.pc = "execute" /\ main.manager = None /\ appRecord = None /\ ~loader
  /\ main' = [main EXCEPT !.pc = "refused"]
  /\ events' = Added(main.event)
  /\ eventsQueue' = Append(eventsQueue, main.event)
  /\ tasksTable' = tasksTable \ {main.event.task}
  /\ IF main.event.task \in tasksTable THEN SaveTasks(0, tasksTable') ELSE UNCHANGED saveVars
  /\ UNCHANGED <<up, loader, renewed, managers, appRecord, inst, jobVars, nextEvent, changes>>

\* ... and nothing waits.  The list of the events stays, empty perhaps
EndRefused ==
  /\ main.pc = "refused" /\ Free(0)
  /\ main' = Idle
  /\ events' = {list \ {main.event} : list \in events}
  /\ eventsQueue' = <<>>
  /\ UNCHANGED <<up, loader, tableVars, managers, appRecord, inst, jobVars, nextEvent, changes>>

\* startReactInstance: from now on the record can destroy it
StartReactInstance(i) ==
  /\ inst[i].pc = "loading"
  /\ inst' = [inst EXCEPT ![i].pc = "starting", ![i].reachable = TRUE]
  /\ UNCHANGED <<up, loader, tableVars, eventVars, main, jobVars, nextEvent, changes>>

\* mutant: its tasks stay in SharedPreferences
MutLoadFailed(i) ==
  /\ inst[i].pc = "loading"
  /\ inst' = [inst EXCEPT ![i] = Over]
  /\ events' = {} /\ eventsQueue' = <<>> /\ appRecord' = None
  /\ tasksTable' = {}
  /\ UNCHANGED <<up, loader, renewed, saveVars, managers, main, jobVars, nextEvent, changes>>

\* the app could not be loaded: everything about it is forgotten, its tasks too
LoadFailed(i) ==
  /\ inst[i].pc = "loading"
  /\ inst' = [inst EXCEPT ![i] = Over]
  /\ events' = {} /\ eventsQueue' = <<>> /\ appRecord' = None
  /\ tasksTable' = {} /\ SaveTasks(i, {})
  /\ UNCHANGED <<up, loader, renewed, managers, main, jobVars, nextEvent, changes>>

\* destroy was posted to the main thread
Destroy(i) ==
  /\ inst[i].dying /\ inst[i].pc # "over" /\ main.pc = "idle"
  /\ inst' = [inst EXCEPT ![i] = Over]
  /\ UNCHANGED <<up, loader, tableVars, eventVars, main, jobVars, nextEvent, changes>>

-----------------------------------------------------------------------------
(***************************************************************************)
(* A React instance: its native modules and its JavaScript.                *)
(***************************************************************************)
\* the user opens the app; a new instance only when the activity of the old one is destroyed
Launch(i) ==
  /\ up /\ main.pc = "idle" /\ Fresh(i)
  /\ \A k \in Instances : inst[k].kind = "foreground" => inst[k].pc \in {"new", "detached", "over"}
  /\ inst' = [inst EXCEPT ![i].pc = "starting"]
  /\ UNCHANGED <<up, loader, tableVars, eventVars, main, jobVars, nextEvent, changes>>

\* setTaskManager: first the manager is put in its table ...
PutTaskManager(i) ==
  /\ inst[i].pc = "starting"
  /\ inst' = [inst EXCEPT ![i].pc = "put"]
  /\ managers' = [managers EXCEPT ![inst[i].kind] = i]
  /\ UNCHANGED <<up, loader, tableVars, events, eventsQueue, appRecord, main, jobVars, nextEvent,
                 changes>>

\* ... then it gets the events that waited ...
ExecuteQueue(i) ==
  /\ inst[i].pc = "put"
  /\ inst' = [inst EXCEPT ![i] = [Given(@, eventsQueue) EXCEPT !.pc = "queue"]]
  /\ UNCHANGED <<up, loader, tableVars, eventVars, main, jobVars, nextEvent, changes>>

\* ... and the queue is removed.  The app may have been opened at another url than the saved one
RemoveQueue(i) ==
  /\ inst[i].pc = "queue"
  /\ inst' = [inst EXCEPT ![i].pc = "run"]
  /\ eventsQueue' = <<>>
  /\ \/ UNCHANGED saveVars
     \/ inst[i].kind = "foreground" /\ RewriteRecord(i)
  /\ UNCHANGED <<up, loader, tasksTable, renewed, managers, events, appRecord, main, jobVars,
                 nextEvent, changes>>

\* JavaScript and its native modules run, and call the service
Runs(i) == inst[i].pc \in {"run", "detached"} /\ Free(i)

\* flushQueuedEvents, a second after the first listener of JavaScript (startObserving)
FlushQueuedEvents(i) ==
  /\ Runs(i) /\ ~inst[i].observed
  /\ inst' = [inst EXCEPT ![i].observed = TRUE, ![i].buffer = <<>>,
                          ![i].emitted = @ \o inst[i].buffer,
                          ![i].running = @ \cup ToSet(inst[i].buffer)]
  /\ UNCHANGED <<up, loader, tableVars, eventVars, main, jobVars, nextEvent, changes>>

\* mutant: an undefined task is reported only with the last event
MutFinish(i, e) ==
  /\ Runs(i) /\ e \in inst[i].running
  /\ LET rest == (UNION events) \ {e}
     IN /\ events' = IF events = {} \/ rest = {} THEN {} ELSE {rest}
        /\ inst' = [inst EXCEPT
             ![i].running = @ \ {e},
             ![i].notified = IF e.task \in Defined \/ rest # {} THEN @ ELSE @ \cup {e},
             ![i].checks = IF events # {} /\ rest = {} THEN @ + 1 ELSE @]
  /\ jobs' = [j \in Jobs |-> IF j = e.job /\ jobs[j].state = "running"
                             THEN Ended(jobs[j]) ELSE jobs[j]]
  /\ UNCHANGED <<up, loader, tableVars, managers, eventsQueue, appRecord, main, nextJobId,
                 nextEvent, changes>>

\* the task function is done, or there is none: notifyTaskFinished
Finish(i, e) ==
  /\ Runs(i) /\ e \in inst[i].running
  /\ LET rest == (UNION events) \ {e}
     IN /\ events' = IF events = {} \/ rest = {} THEN {} ELSE {rest}
        /\ inst' = [inst EXCEPT
             ![i].running = @ \ {e},
             ![i].notified = IF e.task \in Defined THEN @ ELSE @ \cup {e},
             ![i].checks = IF events # {} /\ rest = {} THEN @ + 1 ELSE @]
  /\ jobs' = [j \in Jobs |-> IF j = e.job /\ jobs[j].state = "running"
                             THEN Ended(jobs[j]) ELSE jobs[j]]
  /\ UNCHANGED <<up, loader, tableVars, managers, eventsQueue, appRecord, main, nextJobId,
                 nextEvent, changes>>

\* a task that is not defined is unregistered after that, if it is registered
UnregisterUndefined(i, e) ==
  /\ Runs(i) /\ e \in inst[i].notified
  /\ inst' = [inst EXCEPT ![i].notified = @ \ {e}]
  /\ tasksTable' = tasksTable \ {e.task} /\ renewed' = renewed \ {e.task}
  /\ IF e.task \in tasksTable THEN SaveTasks(i, tasksTable') ELSE UNCHANGED saveVars
  /\ UNCHANGED <<up, loader, eventVars, main, jobVars, nextEvent, changes>>

\* the check: without events, the headless app is invalidated
CheckInvalidate(i) ==
  /\ Runs(i) /\ inst[i].checks > 0
  /\ LET checked == [inst EXCEPT ![i].checks = @ - 1]
     IN \/ /\ events = {} /\ appRecord # None
           /\ inst' = [checked EXCEPT ![appRecord].dying = inst[appRecord].reachable]
           /\ appRecord' = None
           /\ managers' = [managers EXCEPT !["headless"] = None]
        \/ /\ ~(events = {} /\ appRecord # None)
           /\ inst' = checked
           /\ UNCHANGED <<appRecord, managers>>
  /\ UNCHANGED <<up, loader, tableVars, events, eventsQueue, main, jobVars, nextEvent, changes>>

\* registerTask: nobody asks whether JavaScript defines the task
Register(i, t) ==
  /\ Runs(i)
  /\ nextEvent + changes < MaxCalls /\ changes' = changes + 1
  /\ tasksTable' = tasksTable \cup {t} /\ renewed' = renewed \cup {t}
  /\ SaveTasks(i, tasksTable')
  /\ UNCHANGED <<up, loader, eventVars, inst, main, jobVars, nextEvent>>

\* unregisterTask, of a registered task; unregisterAllTasksForAppId
Unregister(i, removed) ==
  /\ Runs(i) /\ (removed \subseteq tasksTable \/ removed = Tasks)
  /\ nextEvent + changes < MaxCalls /\ changes' = changes + 1
  /\ tasksTable' = tasksTable \ removed
  /\ SaveTasks(i, tasksTable')
  /\ UNCHANGED <<up, loader, renewed, eventVars, inst, main, jobVars, nextEvent>>

\* onHostDestroy: JavaScript may go on for a while
HostDestroy(i) ==
  /\ inst[i].pc = "run" /\ inst[i].kind = "foreground" /\ main.pc = "idle"
  /\ inst' = [inst EXCEPT ![i].pc = "detached"]
  /\ managers' = [managers EXCEPT !["foreground"] = None]
  /\ UNCHANGED <<up, loader, tableVars, events, eventsQueue, appRecord, main, jobVars, nextEvent,
                 changes>>

InstanceOver(i) ==
  /\ inst[i].pc = "detached"
  /\ inst' = [inst EXCEPT ![i] = Over]
  /\ UNCHANGED <<up, loader, tableVars, eventVars, main, jobVars, nextEvent, changes>>

-----------------------------------------------------------------------------
ExecuteTask ==
  \/ ExecuteTaskWithManager \/ QueueEvent \/ LoadAppRefused \/ EndRefused
  \/ \E i \in Instances : LoadApp(i)
SetTaskManager(i) == PutTaskManager(i) \/ ExecuteQueue(i) \/ RemoveQueue(i)

Next ==
  \/ StartProcess \/ Crash
  \/ WriteToDisk \/ \E k \in Threads : Apply(k)
  \/ \E t \in Tasks : BroadcastError(t) \/ \E j \in Jobs : Broadcast(t, j)
  \/ \E j \in Jobs : StartJob(j) \/ JobTimeout(j) \/ CancelJob(j)
  \/ ExecuteTask
  \/ \E i \in Instances :
       \/ StartReactInstance(i) \/ LoadFailed(i) \/ Destroy(i) \/ Launch(i)
       \/ SetTaskManager(i) \/ FlushQueuedEvents(i) \/ CheckInvalidate(i)
       \/ HostDestroy(i) \/ InstanceOver(i)
       \/ \E e \in inst[i].running : Finish(i, e)
       \/ \E e \in inst[i].notified : UnregisterUndefined(i, e)
       \/ \E t \in Tasks : Register(i, t) \/ Unregister(i, {t})
       \/ Unregister(i, Tasks)

Spec == Init /\ [][Next]_vars

\* The main thread goes on and its timers fire; a save goes on; a loader answers; an instance that
\* starts gets ready, and its JavaScript reports a task it does not define.  A task function need
\* not end, and nobody has to open the app or to start the process.
Fairness ==
  /\ WF_vars(ExecuteTask) /\ \A k \in Threads : WF_vars(Apply(k))
  /\ \A j \in Jobs : WF_vars(JobTimeout(j))
  /\ \A i \in Instances :
       /\ WF_vars(StartReactInstance(i) \/ LoadFailed(i))
       /\ WF_vars(SetTaskManager(i)) /\ WF_vars(FlushQueuedEvents(i))
       /\ WF_vars(\E e \in inst[i].running : e.task \notin Defined /\ Finish(i, e))
       /\ WF_vars(\E e \in inst[i].notified : UnregisterUndefined(i, e))
FairSpec == Spec /\ Fairness

-----------------------------------------------------------------------------
\* What is saved is what is registered, as long as no save met another: a task unregistered by
\* anyone (JavaScript, a headless app that cannot be loaded, the report of an undefined task) is
\* not in SharedPreferences any more, a registered one is.
RegisteredTasksAreSaved == up /\ ~Saving /\ ~overlapped => preferences = tasksTable

\* A task is put in SharedPreferences only while it is registered: once it is unregistered
\* (unregisterTaskAsync, unregisterAllTasksAsync, a load that fails), nothing saves it again.
UnregisteredStaysUnsaved ==
  [][up' => \A t \in preferences' \ preferences : t \in tasksTable']_vars

\* No instance gets an event twice, although executeTask runs while setTaskManager hands over
\* the events that waited.
EventsAreGivenOnce == \A i \in Instances : IsInjective(inst[i].emitted \o inst[i].buffer)

\* Once JavaScript has answered for a task that it does not define, the task is unregistered
\* (TaskManager.ts), and only the app, by registering it again, brings it back.
UndefinedTaskIsUnregistered ==
  \A i \in Instances : \A e \in ToSet(inst[i].emitted) \ (inst[i].running \cup inst[i].notified) :
    e.task \notin Defined => e.task \notin tasksTable \ renewed

\* A scheduled job is not cancelled by the scheduling of another: their ids differ.
JobIdsAreUnique == \A j \in Jobs : jobs[j].state # "lost"

\* An event in the queue is executed once a task manager is ready.
QueuedEventIsExecuted ==
  \A n \in 1..MaxCalls :
    (\E e \in ToSet(eventsQueue) : e.n = n) ~> ~(\E e \in ToSet(eventsQueue) : e.n = n)
=============================================================================
