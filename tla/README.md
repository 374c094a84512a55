# Expo: a verification project for the client's runtime

This directory holds TLA+ specifications of parts of the native runtime that loads Expo apps,
draws their graphics and runs their background tasks, TLC configurations that check them on
small instances, and proofs that TLAPS checks for every value of the constants. Every definition
is translated from the source (Objective-C, C++, Java, TypeScript); `PROJECT.json` names, under
`map`, the lines each definition stands for.

The repository is a monorepo: most of it is React Native, versioned copies of React Native,
generated code, native SDK modules that wrap one platform API each, documentation and release
tools. Its own *logic* - state that outlives one call, several actors, failures - is in few places.
Three of them are modelled: which revision of an app is run (the iOS kernel's loader), how
WebGL calls of JavaScript reach a GL thread (`expo-gl-cpp`, `expo-gl`), and how background tasks
wake an app (`expo-task-manager` on Android).

## 1. Inventory

### App loading (modelled)

| Part | State | Operations | Talks to |
|---|---|---|---|
| `EXAppLoader` | confirmed, optimistic and cached manifest, error, current fetcher, `_previousAppFetcherWaitingForBundle`, the one `_manifestResource`, `_shouldUseCacheOnly` | `request`, `requestFromCache`, `forceBundleReload`, `fetchManifestWithCacheBehavior`, `writeManifestToCache`, `fetchJSBundleWithManifest`; delegate methods of fetchers | fetchers (owns one or two), manifest and bundle resources, its delegate (`EXAppViewController` through `EXReactAppManager`) |
| `EXAppFetcherWithTimeout` | manifest, bundle, error, `_hasFinished`, a timer | start, time out, manifest and bundle answers, `_finishWithError` | loader |
| `EXAppFetcherCacheOnly` | manifest, bundle, error | start, cached manifest and bundle answers | loader |
| `EXAppFetcherDevelopmentMode` | manifest, bundle, error | start, `forceBundleReload` | loader, packager |
| `EXCachedResource`, `EXManifestResource`, `EXJavaScriptResource` | data, `canBeWrittenToCache`, `_shouldWriteToCacheWhenReady`; files on disk | load with one of five cache behaviours, verify, write | network, file system |
| `EXUpdatesManager`, `EXUpdates` | one `_manifestAppLoader` | `fetchUpdateAsync`, `checkForUpdateAsync`, `reload`, `reloadFromCache` | the running app, its loader |

What is hard: callbacks of several fetchers, of earlier requests too, reach the loader in any
order, and it never asks which fetcher is calling; one manifest resource is shared by all
requests; the bundle and the manifest are stored in two steps; a timeout makes two fetchers
work at once, one of them held by an ivar only; the process is killed at any time; a user
reloads at any time. Correct means: what the cache offers can be run; a verified cached app
starts whatever the network does; what the app is told about updates is true; every request
ends; the cache-only paths do not reach the network.

### GL contexts (modelled)

| Part | State | Operations | Talks to |
|---|---|---|---|
| `EXGLContext` (C++, one per GL view or headless context) | `nextBatch`, `backlog`, the map of object ids to GL objects, `nextObjectId` (atomic), `supportsWebGL2`, `needsRedraw` | WebGL methods on the JS thread: add a command, add one that returns a future, add one and wait for it, end a frame; `flush` on the GL thread | JavaScript, the platform's GL thread through `flushOnGLThread` |
| `UEXGLContext…` functions | the map of contexts, under a mutex | create, destroy, flush, objects of native code | the platform code |
| iOS `EXGLContext`, `EXGLView` | a serial dispatch queue; `_renderbufferPresented` | run on the queue, flush, destroy; blit (GL queue), draw (UI thread, display link) | C++ context, the screen |
| Android `GLContext` | an event queue and a thread that takes from it | run on the thread, flush with a swap of buffers, destroy (interrupt and join) | C++ context, the screen |

What is hard: three or four threads; commands pass through two vectors while flush events are queued
separately, so that one event may flush the batches of others; JavaScript uses the id of an object before
the object exists; fields written on one thread are read on another without a lock; a context may be
destroyed while a method is between finding it and using it. Correct means: commands are performed
once and in order; a blocking call returns, after its command; a future is resolved when it is used; a
frame that was ended is drawn, and shown.

### Background tasks on Android (modelled)

| Part | State | Operations | Talks to |
|---|---|---|---|
| `TaskService` | static tables of the process: tasks, managers (foreground and headless), events being executed, queued events, app records; saved tasks in SharedPreferences | restore at start, register, unregister, handle an intent, handle and cancel a job, execute a task, set a task manager, notify that a task has finished | everything below |
| `TaskManagerUtils` | the counter of job ids | schedule a job | JobScheduler |
| `TaskManagerInternalModule`, `TaskManagerModule` (one per React instance) | events kept until JavaScript observes | execute with body, flush, host destroyed | `TaskService`, JavaScript |
| `TaskManager.ts` | defined tasks | runs a task, notifies, unregisters an undefined one | modules |
| `HeadlessAppLoader`, `HeadlessAppRecord` | the React instance, once it was made | load, fail, invalidate | `TaskService` |
| consumers in `expo-location` | the task | schedule a job on a broadcast, execute the task in the job, with a callback (location) or without (geofencing) | `TaskService` |

What is hard: the tables are used without locks by the main thread and the threads of React instances; an event may
arrive before, while or after a manager is set; a foreground and a headless instance of one app come and
go on their own; the process is killed, and jobs and saved tasks are not; jobs must end although tasks may not.
Correct means: events are not repeated and not left behind; what is saved is what is registered; an undefined
task goes; every job ends.

### The rest of the kernel (not modelled)

- `EXErrorRecoveryManager`: per experience whether it has failed since it last finished loading, the time of that
  (persisted), an exponential backoff of automatic reloads. `AppLoader` has the flag the loader reads.
- `EXReactAppManager` and `EXAppViewController`: join the bridge that asks for its source with the loader that has
  the bundle, in any order; rebuild the bridge in a block queued on the main queue.
- `EXKernel`, `EXKernelAppRegistry`: records of apps, the visible one, one record per experience.
- `EXTaskService` and its headless apps on iOS: the same role as the Android service with other data (requests that
  call back once all their tasks are done).
- linking, notifications, sensors and screen orientation, the client's user interface, the Android kernel,
  the SDK packages (each wraps a platform API), React Native and its versioned copies, documentation and tools.

Section 6 says why. `PROJECT.json` lists all components, and under `hazards` what is hard to test in
the modelled ones, each at its line, with the property that would catch it.

## 2. Modules

| Module | What it holds |
|---|---|
| `AppLoader.tla` | the loader, its fetchers, the caches, the server, `fetchUpdateAsync`, restarts; its properties |
| `MCAppLoader.tla` | `AppLoader` for TLC, with the symmetry of fetcher identities |
| `AppLoaderProofs.tla` | theorems about `AppLoader`: types, confirmed manifests, timers; the invariant `IInv` |
| `AppLoaderEffects.tla` | lemmas: what each operator of `AppLoader` does to a device state |
| `AppLoaderSteps.tla` | lemmas: what each action of `AppLoader` does, one per action |
| `CacheOrderProofs.tla` | theorems about `AppLoader`: the order of what the cache holds, and limited requests |
| `LaunchProofs.tla` | theorem about `AppLoader`: a process until its first reload |
| `UndisturbedProofs.tla` | theorems about `AppLoader`: launches without reloads and update calls |
| `GLCommands.tla` | abstract: what a GL context promises to JavaScript |
| `GLContext.tla` | one GL context with its threads, for both platforms; implements `GLCommands` |
| `GLContextProofs.tla` | theorems about `GLContext`, the refinement among them |
| `TaskService.tla` | the Android task service, the instances of one app, the JobScheduler |
| `TaskServiceProofs.tla` | theorems about `TaskService` |

### How `AppLoader` corresponds to the code

**A callback is an action.** A block that runs when a network request, a verification or a timer
ends calls back and forth between fetcher and loader before it returns. Each of those methods is
an operator from a *device state* (a record of the variables a callback may touch) to the device
state after it, and is named after the method; an action composes them the way the code's calls
nest, and `Become` makes the result the next state. So `WithTimeoutFinish` is
`_finishWithError:`, `FallBackToCache` is `appLoader:…retainingCurrent:YES` with the `start` of
the new fetcher inside it, and `WithTimeoutBundle` writes the manifest after
`_finishWithError:` has returned, as the code does.

**Objects.** A fetcher is a record in `fetchers`, under an identity from `Fetchers`. It is alive
while the loader holds it (`fetcher`, `previous`), its timer retains its target, or the block of a
manifest request captures it; a bundle request holds it weakly. `Released` deallocates the rest,
at the end of each callback. The request of a deallocated fetcher goes on and still stores its
bundle (`kind = "none"` in `BundleArrives`).

**The shared resource.** The loader's `_manifestResource` is `loader.slot` (is there one, is its
data there); each request under way has a `resource` role: it is that one (`slot`), it was let go
after `writeManifestToCache` and will write itself when its data arrives (`write`), or neither.

**Data.** A manifest is its revision number, and the bundle of a revision has its own url.
`None` is nil. What a manifest asks for is a set of revisions: `DevRevs` (developer tools),
`ZeroTimeoutRevs`, `RecoveryOnlyRevs`, `RefusedRevs` (unreadable, no manifest for a supported SDK version, or
a verification that could not be made; an invalid signature alone does not refuse a manifest).

**Requests and answers.** A manifest request remembers the newest revision when it was sent and is
answered with any revision from that one to the newest now, so two requests may be answered
out of order. It may fail instead. The reading of a cached manifest (`cachedReads`) is a request of
its own because its verification is asynchronous; a reload does not cancel it.

**The host.** Whether the app is served from localhost (or is a debug build of a standalone app) is chosen in `Init`, among
`OnLocalhost`, and fixed (`localhost`). Such an app is always loaded in development mode.

**Restarts.** `Relaunch` kills the process between any two callbacks, or inside the callback of a
bundle request after the bundle was stored and before the manifest; only `disk` and the server
survive.

### Abstractions, and what they leave out

- A callback is atomic. The timer fires on the main thread and the network answers on the
  queue of NSURLSession without a lock, so two callbacks of one fetcher can interleave line by
  line. A module of one fetcher at that grain is left out.
- The data and the verification of a downloaded manifest are one step.
- Apps loaded from a local manifest (`initWithLocalManifest:`, the client's home app) are left out.
- One app, one loader, one `fetchUpdateAsync` call and one packager request at a time. An app is taken to run once the
  bridge was handed a manifest, unless the request failed with an error. `EXUpdates` compares the manifest it
  fetched with the one its bridge was created with, which need not be the last one that was loaded: `UpdateManifestArrives`
  leaves the outcome of the comparison open.
- `checkForUpdateAsync` changes no state (it fetches with `EXManifestDoNotCache`) and is left out.
- A callback needs two free fetcher identities (`Room`): the most any callback creates. Actions wait
  until there are two, which bounds how many fetchers of old requests coexist; four or five
  identities are enough for one reload with both fetchers of the first request still working.

### How `GLContext` corresponds to the code

**Threads.** `js.pc` is where the JS thread is inside a method: it has found its context (`method`), has ended
its batch and not yet asked for a flush (`flush`), waits for the answer of a blocking call (`wait`), or waits for one
that will not come (`hung`). `gl.pc` is the GL thread: `TakeEvent` looks the context up, `Swap` takes the backlog, `Perform`
is one command, `EndFlush` the swap of buffers or the blit. Destroying, native objects (camera textures) and the draw loop
are steps of other threads.

**Commands.** All WebGL methods fall into the few shapes of C++: add (`call`, or `bind` if it looks an object up), add a
future (`create`), add and wait (`get`), end a frame (`frame`), and the command of the constructor (`init`). Commands are
numbered as they are added; the numbers are history and let the refinement say which were performed. A batch matters only
for where it ends, so the backlog, a vector of batches that is always taken whole, is one sequence.

**Platforms.** `platform` is chosen in `Init`. On iOS destroy is an event of the serial queue, on Android it deletes the
context at once and interrupts the thread; on iOS a frame is blitted on the GL queue and presented by the draw loop, on
Android buffers are swapped.

**A freed context.** Using it is undefined behaviour. The model lets its commands be lost and its flush method do
nothing or something; properties are about a context that exists.

**Refinement.** `Commands == INSTANCE GLCommands WITH open <- context = "live", waiting <- …`: a command is issued when it
is added to a batch, performed by `Perform`, and waited for from the end of the batch until `Return`. All other steps stutter.

Left out: GL state, snapshots, layout and resizing, `EXGLContextNextId`, deletion of GL objects (ids are not unmapped by
`deleteTexture` and its like), and `initialize` being called again on Android.

### How `TaskService` corresponds to the code

**Steps.** `executeTask` (main thread) is two steps, the reading of the manager and the rest, or three when there is no
loader for headless apps (`LoadAppRefused`, `EndRefused`); `setTaskManager` (a thread of the React instance) is three: the manager
is put, the queue executed, the queue removed. These are the places where one of them can come between the steps of the other.

**Saves.** Every call that saves tasks is two steps: it changes the table and exports it (`SaveTasks`, a part of the action of the
call), and then puts what it has exported in SharedPreferences (`Apply`). `saving` is what each thread is about to put; the threads
are the main thread, and one for each instance and its loader. The last step of `setTaskManager` may find another url of the app than
the saved one: it then reads the whole record (`RewriteRecord`) and puts it back, tasks included. `apply()` changes the record in memory
(`preferences`); Android writes the file later (`WriteToDisk`). Every other call of the service is one step: the tables it uses are
touched by one statement or two, and what torn collections do is undefined.

**Registrations.** `registerTask` and its callers in JavaScript do not ask whether JavaScript defines the task, so `Register` takes
any. `renewed` (history) says which were registered since they were last reported as undefined.

**Instances.** A React instance is foreground (opened by the user) or headless (loaded for an event), and its fields are
those of its `TaskManagerInternalModule` and its JavaScript: events kept until it observes, events given (history), tasks that run, undefined tasks
that are still to be unregistered, delayed checks. `reachable` says that the app record holds the React instance manager: an
app invalidated earlier is never destroyed.

**The process.** `Crash` loses the static tables and the instances and keeps SharedPreferences and the JobScheduler, which runs
a started job again. `StartProcess` restores some of the saved tasks (those whose consumer has the saved version).
A crash loses what `apply()` has not written to the file.

**Jobs.** A job is new, pending, running (with its 15 second timer and perhaps a callback), ended or lost (cancelled by another with its id).
The timer may fire at any time after the start.

Left out: several apps (the tables are keyed by app and nothing crosses between keys, except that handlers of custom
broadcasts visit all), the app url itself (whether it has changed is a choice), the consumer classes of a task, deferred locations and regions.

## 3. Runs

`CHECK_DEADLOCK FALSE` in all runs: when requests have settled, JavaScript makes no call and no event comes, the system really
stops and waits, and the bounds then leave no step.

| Run | Instance | What it shows |
|---|---|---|
| `loader_launch` | three launches, no reload | the cache and the cached manifest can always be run; a verified cached app starts whatever fails; the delegate hears of each background update, which is then in the cache; no fetcher dies while it downloads |
| `loader_standalone` | standalone app with an embedded revision, one that is only checked for updates to recover from an error, one that is refused | the same for the embedded manifest, when the cached manifest is refused, when the launch does not check |
| `loader_reload` | a reload of a standalone app that embeds no revision (also from the cache, also recovering from an error) and an update call race with the first request; a revision has developer tools | a confirmed manifest has its bundle; timers end with their fetcher; a cache-only request stays offline; without an update call the cache never goes back to an older revision; until the reload the app is told of a confirmed manifest that is not the one it runs |
| `loader_live` | with fairness; served from localhost or not; revisions of which the first and the last have developer tools | a request settles, unless its cached manifest had developer tools (or its host is localhost) and the manifest it gets has none; the event of a background update comes; `fetchUpdateAsync` is answered |
| `gl_context` | both platforms, five commands, two objects, one destroy | the refinement of `GLCommands`; futures, the version flag; blocking calls return and ended frames are drawn |
| `task_service` | two tasks (a location task that is not defined, a geofencing task that is), two instances, one job, two calls (events or changes by the app), crashes | no event twice, while `setTaskManager` hands over the queue; saved and registered tasks agree once no save is under way, unless the last ones overlapped; undefined tasks go, and come back by a registration only |

Bounds of the loader: three or four revisions (cached, newer, newest: with two, a late answer could not be older than the
cache and newer than the bundle that runs), up to two relaunches (one to cache a revision and lose
the process, one to start from that cache, and the first start), one reload and one update call (two actors that
replace the manifest resource). `Init` starts from an empty cache and from every revision a device
may have cached, so one launch stands for any number of earlier ones.

Bounds of the GL context: five commands are the first (`init`, `get`, before the app has its context), and three more:
enough to create an object, use it and wait or end a frame in three batches, with each batch flushed by its own event, by an earlier one or by a
later one. Two ids are one of JavaScript's and one of native code. The proofs have no bound.

Bounds of the task service: two instances are a foreground and a headless one, or two of one kind in succession. Two calls
are two events, one in the queue and one on its way to it; or an event and a registration or unregistration by the app; or two of those.
One job is enough because the service treats each on its own; that two jobs meet is what `doc_job_ids` is about. The
bounds on calls and instances are for one process, and there may be any number of processes.

Some properties name how far they reach, and each limit is where the code stops providing them, not a
bound of a run:

- `CacheNeverRollsBack`: at most one reload and no update call in the process. With an update call, or with a third
  request, a late answer goes to a resource that was told to write itself before a newer one was written.
- `CacheOnlyStaysOffline`: at most one reload. With a second one, the cached manifest of an earlier request may be
  refused late, and the block that was waiting for it starts a fetcher that asks the network for the current request.
- `UpdateIsAnnounced`: until the first reload. After it, a fetcher of the earlier request may confirm its
  update while the loader's fetcher is another one, whose bundle runs and whose update it is not.
- `CachedAppStarts` is checked without reloads: a fetcher of the first request that fails
  after the reload sets the loader's error, although the cached app of the second could start.
- `CacheIsLoadable`, `CachedManifestHasBundle`, `AnnouncedIsStored` and `DownloadIsHeld` are checked without reloads and update calls;
  `doc_cached_manifest` shows how an update call breaks the second.
- `RequestSettlesOrLosesDevTools`: `doc_dev_manifest` shows the exception it names.
- `RegisteredTasksAreSaved`: as long as no save meets another. The service has no lock, and the
  older export may be put last; `doc_unregistered_task` shows one such case.
- `UndefinedTaskIsUnregistered`: until the app registers the task again, which it may although JavaScript has no definition.

Nothing in the repository promises more, so these limits are remarks here and hazards in `PROJECT.json`, not findings.

### Disagreements between the code and what it says

Each is a run that checks one property, the one a comment or the documentation states,
and finds a behaviour of the code that breaks it. `PROJECT.json` quotes the lines.

| Run | Property | The code |
|---|---|---|
| `doc_cached_manifest` | `CachedManifestHasBundle` | an update call and a launch share one manifest resource: the bundle of one writes the manifest of the other, whose bundle is not there |
| `doc_dev_manifest` | `RequestSettles` | the cached manifest has developer tools, the one the server sends now has not: the request stops at it in development mode, and nobody calls `forceBundleReload` |
| `doc_frame_shown` | `DrawnFrameIsShown` | the draw loop sets its flag after it has presented, and overwrites what a blit has set in between: the last frame stays off the screen |
| `doc_unregistered_task` | `UnregisteredStaysUnsaved` | the record of the app is read, given a new url and put back without a lock: a task unregistered by another thread in between is saved again |
| `doc_queued_event` | `QueuedEventIsExecuted` | a manager is set between the two steps of `executeTask`: the event waits in the queue of an app that runs |
| `doc_job_ids` | `JobIdsAreUnique` | job ids start again with the process, and scheduling a job cancels the one an earlier process has scheduled under its id |

Smaller disagreements met on the way, which have no run of their own:

- a background update that finishes after the fallback to the cache replaces `confirmedManifest`, the "manifest that is
  actually being used", while the older bundle runs;
- with remote updates disabled, `fetchJSBundleWithManifest` computes a cache behaviour, "if we've disabled updates, ignore all other
  settings and only use the cache", and passes on another one: the bundle may be downloaded. Disabled updates are in no run;
  the theorems hold for them too;
- after a failed bundle, `forceBundleReload` does not "reset status": it clears neither error;
- a reload between the two requests of `fetchUpdateAsync` makes the assertion in `fetchJSBundleWithManifest` fail, or, in
  a release build, leaves the promise unsettled;
- `didSwitchToAppFetcher:retainingCurrent:YES` is to be used "only if the current (calling) AppFetcher is still doing work", and a
  fetcher that has just failed is retained with it; `requestFromCache`, which is to "only use the most recently cached
  manifest", goes to the network when none can be read;
- the race of `doc_cached_manifest` the other way round announces an update as "now stored in the device's cache" whose manifest
  was not stored (`AnnouncedIsStored`, which `loader_launch` checks without update calls);
- a blocking GL call hangs for ever when its context is destroyed under it; a frame may contain commands issued after
  its end, when one flush takes both;
- two instances that are set at the same time both execute the queued events.

`loader_launch` checks `CachedManifestHasBundle`, `loader_live` `RequestSettlesOrLosesDevTools` and `task_service`
`RegisteredTasksAreSaved`: they show how far the statements that are refuted here are true.

### Fairness

`FairSpec` adds weak fairness for the answers only: to cached reads, to each fetcher, and to the update
call. NSURLSession answers a request or fails it after a timeout, a timer on the run loop fires, and a
verification ends. Failure is one of the answers, so nothing is said about the network working. Nothing
obliges the user to reload, the app to ask for updates, the server to publish, or the process to be
killed or to live. The liveness run uses no symmetry.

`GLContext!FairSpec` is weak fairness of each thread: the JS thread inside a method, the GL thread with an event or a command,
the UI thread with its display link. Operating systems schedule all three. Nothing obliges JavaScript to call a method or
anybody to destroy a context. `TaskService!FairSpec` is weak fairness of the main thread inside `executeTask`, of timers, of a loader (which loads or fails), of
an instance that starts, of a save, and of JavaScript reporting a task it does not define. A defined task need not finish. Only
`doc_queued_event` uses it; that a started job ends would be no more than the fairness of its timer, and no run says it.

## 4. Proofs

All proofs are for any value of the constants: any bounds (counters are unbounded), any fetchers, revisions and
policies, any set of platforms.

| Module | Theorem | Statement |
|---|---|---|
| `AppLoaderProofs` | `Inductive` | `IInv /\ [Next]_vars => IInv'` |
| | `TypeCorrect` | `Spec => []TypeOK` |
| | `ConfirmedManifestHasBundle` | `Spec => []ConfirmedHasBundle` |
| | `TimerRacesNothing` | `Spec => []TimerOnlyWhileUnanswered` |
| `CacheOrderProofs` | `CachedManifestNeverOlder` | `Spec => CacheNeverRollsBack`, an action property |
| | `LimitedRequestStaysOffline` | `Spec => []CacheOnlyStaysOffline` |
| `LaunchProofs` | `NewManifestIsAnnounced` | `Spec => []UpdateIsAnnounced` |
| `UndisturbedProofs` | `CacheAlwaysLoadable`, `FallbackHasBundle`, `AnnouncedUpdateIsStored`, `DownloadStaysHeld`, `CachedAppAlwaysStarts` | `Spec /\ []Undisturbed => []` of `CacheIsLoadable`, `CachedManifestHasBundle`, `AnnouncedIsStored`, `DownloadIsHeld`, `CachedAppStarts` |
| | `NeverDisturbed` | `Spec => []Undisturbed`, if `MaxReloads = 0` and `MaxUpdates = 0` |
| `GLContextProofs` | `Inductive` | `Spec => []IInv` |
| | `TypeCorrect`, `VersionKnown`, `FutureUnmapped`, `FuturesResolved` | `Spec => []` of `TypeOK`, `VersionIsKnown`, `FutureIsUnmapped`, `FuturesAreResolved` |
| | `Implementation` | `Spec => ImplementsCommands`: the refinement |
| `TaskServiceProofs` | `Inductive` | `Spec => []IInv` |
| | `TypeCorrect`, `TasksSaved`, `UndefinedGone`, `GivenOnlyOnce` | `Spec => []` of `TypeOK`, `RegisteredTasksAreSaved`, `UndefinedTaskIsUnregistered`, `EventsAreGivenOnce` |

### The loader: types, confirmed manifests, timers

Assumptions used: `BoundsAssumption` (bounds are naturals) and, for the initial cache,
`PoliciesAssumption` and `EnvironmentAssumption`, as far as types go.

`ConfirmedHasBundle` is not inductive: a fetcher confirms the manifest it holds because it has a
bundle, so the invariant must say of *every* fetcher, of old requests too, that the bundle it has is that
of its manifest and is on the device; that a bundle being requested is the one of the fetcher's
manifest (unless it was deallocated and only the request is left); that a fetcher waiting for a
manifest has no bundle yet; and that a running timer belongs to an unfinished `withTimeout` fetcher
without one; and that only a `cacheOnly` fetcher reads a cached manifest. That is `FetcherSafe`; `IInv` is `TypeOK` and `Device \in Safe`, where `Safe` is the set of
well-typed device states in which all fetchers, the confirmed manifest and the update call are safe. Since
bundles are never removed, storing one keeps all of it (`SetDisk`).

The proof follows the model. A few lemmas say that replacing one component of a device state by a safe
one keeps it in `Safe`; then there is one lemma per operator, in the order in which they call each
other (`UnlinkedSafe` … `FetchBundleWithManifest…`), one per action, and `Inductive` puts the actions
together. TLC checks the conclusions on the instances above; the theorems do not depend on them.

### The loader: effects and steps

The other properties relate several fetchers, the loader's resource, the delegate and the caches, and would need each operator to be
unfolded for each. Instead, `AppLoaderEffects` states for each operator what it does, as a predicate on the device states
before and after it (`Finished`, `FellBack`, `Written`, `BundleTaken`, ...), and proves once that the operator obeys it;
`AppLoaderSteps` does the same for each action (`TimeOutEffect`, `ManifestArrivesEffect`, ...), as a chain of such predicates
that ends in `Freed`, what `Become` deallocates. The invariants below are shown to pass through each predicate, and then
through each chain, and no proof looks into an operator again.

`Begin` (with `BeginStep`) is about the start of a process: until the first cached manifest is verified or refused, nothing else has begun.

### The loader: what the cache holds

`OrderInv` has two parts. `Past` says that neither the cache nor the loader's resource holds a revision that was not published;
it holds always. `Ordered`, for a process with at most two requests and no update call, says that at most one manifest request
has a resource that may still be written, that its answer will not be older than the cached manifest, that data the loader's
resource holds is not older either, and that a resource told to write itself when its data arrives (`Writing`) is the only one there is. `Budget` says how many reads
and how many fetchers that use the network there may be after one request and after two, and that `Writing` takes both requests;
it is what fails with a third.
Operators and callbacks that ask for nothing new are `Quiet` or move `Forward`; the start of a request is `Grown`.

`OfflineInv` says that all cached manifests that are still being read in a process of at most two requests are the same, and the one that was verified
if one was: so none of them is refused later, and no block of the first request starts a fetcher that uses the network for a limited second one.

### The loader: launches

`LaunchInv` describes a process that has made one request: at most one fetcher uses the network, it is the loader's
until it has finished, and the one that follows it reads the cache (`NetShape`, `CacheShape`) or is the one in development mode;
what is confirmed is what runs or was announced (`Told`). Update calls are allowed; they replace the resource, write the caches and start no fetcher.

`UndisturbedInv` is about launches without reloads and update calls. `Sound`: the cached manifests have their bundles
(`Loadable`); the loader's resource holds the manifest of the fetcher whose bundle is under way, which is held by the loader
(`Downloads`), so that `writeManifestToCache` writes the manifest of the bundle just stored; and an update is announced last, by the fetcher
that has stored it (`Announces`). `Starts`: a request with a cached manifest fails in development mode only. The hypothesis `[]Undisturbed`
is about whole behaviors, since what an earlier process left in the cache matters; any number of launches, publications and kills
is allowed. `NeverDisturbed` shows that it is a consequence of the bounds that `loader_launch` and `loader_standalone` use, so the
theorems cover these runs for every other constant.
TLC has checked `UndisturbedInv`, `LaunchInv` and `OrderInv` on the instances of the loader runs before they were proved.

### The GL context

`IInv` adds six parts to `TypeOK`. `Numbering` is the heart: the commands the GL thread still has to perform
(`gl.copy`), those in the backlog and those in the next batch carry the numbers from `performed + 1` to `issued` without a gap
(while the context exists; of a deleted one, only what was taken is left). `Phase` ties the program counters to the context,
`Waiting` says where the command of a blocking call is until it is performed, and that `done` is set only after; `Version` that the
`init` command is the first, so that an answer to the first blocking call comes after it; `Ids` that every id in use was given out by the
counter, that ids of futures and of native code are apart, and that each id is created by one command; `Futures` that a
command that uses a future comes after the one that creates it. Each action has a lemma per part that it can disturb.
`Implementation` maps `AddToNextBatch`, `EndNextBatch`, `Perform`, `Return`, `Create` and `Delete` to steps of `GLCommands`
and every other action to a stutter, using `IInv` for the number of the command performed (`Numbering`) and for the return
after the answer (`Waiting`).

### The task service

Assumptions used, for types: `TasksAssumption` (some task exists) and `BoundsAssumption` (the main thread is among the threads).

`RegisteredTasksAreSaved` speaks of the end of saves and needs `SaveInv` about their middle: unless two have overlapped, at most one
thread is saving, and it is about to put the tasks of the table. A rewrite of the record obeys it because what it has read is
the table then. `UndefinedTaskIsUnregistered` needs `Process`: a process
that does not run has no instances and no saves, so what a restart restores concerns none. `EventsAreGivenOnce` needs most of `IInv`:
`Numbers` says that an event being executed is newer than every event that waits or was given, so giving or queueing it
repeats nothing; `Managers` that an instance that can be found in a table, or was found by `executeTask`, was put there, so
an instance whose manager is still to be put holds nothing (`OnceIn`); and `OnceIn` that, while an instance is between the
first two steps of `setTaskManager`, the queue is apart from what `executeTask` has given it already, that what it keeps
is apart from what was emitted, and that it keeps nothing once it was flushed.

Most actions leave events alone, or forget those of an instance that ends: `Calm` says so, and `CalmStep` proves `EventInv`
for all of them. The others (`BeginStep`, `ExecuteStep`, `PutStep`, `QueueStep`, `FlushStep`, `CrashStep`) have a lemma each, on top of
lemmas about sequences (`ConcatOnce`) and about giving a sequence of events to an instance (`GivenOnce`).

### What is only model-checked

Every invariant and every action property of the passing runs is stated by a theorem. Liveness is not: `RequestSettlesOrLosesDevTools`, `BackgroundUpdateResolves`,
`FetchUpdateIsAnswered`, `BlockingCallReturns` and `EndedFrameIsDrawn` hold under weak fairness, whose proofs need
`ENABLED`, which is out of the prover's reach. The runs that refute a statement of the documentation are counterexamples and need no proof.
`CachedAppAlwaysStarts` says of a failed launch that it cannot be; that the launch comes to an end is `RequestSettlesOrLosesDevTools`.

## 5. Order of the work

The loader came first, as the most important decision of the client; then the GL context, whose protocol is the densest
concurrency of the repository and has an abstract specification worth refining; then the task service, with its restarts. What a continuation
would take next, in this order: `EXErrorRecoveryManager` with its clock; `EXReactAppManager` with an abstract loader in place of
`AppLoader` (the two together are beyond TLC); the iOS task service; one fetcher with the threads of its timer and of NSURLSession
interleaved statement by statement. Of the proofs, what is left is to weaken hypotheses where the code allows it: `DownloadIsHeld`
and `AnnouncedIsStored` after a reload, and `CacheIsLoadable` with reloads but no update calls; and what an instance of
`TaskService` holds when two are set at the same time.

## 6. Not modelled

- Error recovery, the bridge, the registry and the iOS task service: room and effort, not principle; see section 5.
- Data races proper (an unlocked dictionary in `EXKernelAppRegistry`, static Java collections, `std::unordered_map` read on the
  JS thread): what they do is undefined and no choice among the model's states describes it. The models interleave whole calls, and split
  them where the order of two calls matters.
- File formats, signatures, urls, JSON, GL state: data that no property depends on.
- React Native, its versioned copies and other vendored code; SDK packages that wrap one platform API without a protocol of
  their own; documentation and release tools.
