# A verification of entservices-xcast

XCast is the Thunder plugin that offers DIAL casting on a set-top box.  A
client (an app manager, a settings UI) registers the applications that may be
cast to and switches casting on and off; the plugin runs a gdial service
instance on the active network interface and turns what gdial is asked (launch,
hide, resume, stop, state) into notifications for its clients.

This directory holds TLA+ models of that plugin, the TLC configurations that
check them, and TLAPS proofs of the properties that do not depend on the size
of an instance.  Every definition that models code is listed, with its lines,
under `map` in `PROJECT.json`.

To check a run: `tlc -config <run>.cfg <module>.tla`.  To check the proofs:
`tlapm <module>_proofs.tla`.

## 1. The system

All of the plugin's logic is in `src/XCast/`.

| Component | State | Operations | Talks to |
|---|---|---|---|
| Plugin shell (`XCast.cpp`, `XCast.h`) | `_xcast`, `mConfigure`, its notification sink, the connection id | `Initialize`, `Deinitialize`, `Deactivated` | the implementation, by COM-RPC, possibly out of process |
| Locate-cast supervisor (`onLocateCastTimer`, `connectToGDialService`, `updateNWConnectivityStatus`, `startTimer`, `stopTimer`) | `m_locateCastTimer`, `m_activeInterfaceName`, `_networkManagerPlugin` | timer callback every 15 s until connected; network notifications | NetworkManager, `XCastManager::initialize` / `deinitialize` |
| Enablement policy (`SetEnabled`, `SetStandbyBehavior`, `SetFriendlyName`, `onPowerModeChanged`, `enableCastService`) | `m_xcastEnable`, `m_standbyBehavior`, `m_powerState`, `m_friendlyName`, and the decision's copies `xcastEnableCache`, `friendlyNameCache` | the setters, power and friendly-name notifications, each with a detached worker | `XCastManager`, PowerManager, System services |
| Dynamic application cache (`RegisterApplications`, `UnregisterApplications`, `updateDynamicAppCache`, `deleteFromDynamicAppCache`) | `m_appConfigCache` (a vector of malloced entries), `m_isDynamicRegistrationsRequired`, `m_appConfigMutex` | register, unregister, replay to a new instance | `XCastManager::registerApplications` |
| Lifecycle of the implementation (`Configure`, `Initialize`, `Deinitialize`, the restart worker) | `m_xcast_manager`, `XCastManager::_instance`, the registered sinks, `m_TimerMutexSync`, `_appManagerCallbackLock`, `m_is_restart_req` | start, teardown, teardown and start again after deep sleep | everything above |
| Notification registry and jobs (`Register`, `Unregister`, `dispatchEvent`, `Dispatch`) | `_xcastNotification`, `_adminLock`, references on sinks and on the implementation | subscription, one job of the worker pool per gdial request | the clients, the shell |
| `XCastManager` (`XCastManager.cpp`) | the gdial instance, the observer, names, UUID, standby mode | one mutex around each call | libgdial, RFC, files, device properties |
| Network standby mode | `m_networkStandbyMode` | PowerManager's notification, `SetNetworkStandbyMode` | PowerManager, `XCastManager` |
| Application state reporting | none | `SetApplicationState`, AppManager's state changes, AppActions | `XCastManager`, the application cache |

The parts share memory, not messages: the timer's thread, the threads of the
COM-RPC server, the threads that deliver NetworkManager, PowerManager,
AppManager and System notifications, the pool's threads and the detached
workers all read and write the statics of `XCastImplementation.cpp`.  The locks
are few and each covers a part: `m_TimerMutexSync` (the timer's callback up to
`stopTimer`, and `Configure(nullptr)`), `m_appConfigMutex` (parts of the cache
operations), `_appManagerCallbackLock` (the AppManager callback, and its
unregistration), `_adminLock` (the sinks) and the manager's own mutex.

What is hard, and what therefore must hold:

* *Locate-cast.*  Two threads create and destroy the instance with no lock in
  common.  They must not do so at once; the recorded interface must be the one
  the instance really uses; connecting must never be given up; every instance
  must be told the cached state.
* *Enablement.*  Several threads evaluate one policy and write one decision in
  three places.  What settles must be the policy's answer, and the instance
  must have been told it.
* *Application cache.*  Pointers are copied out of the lock and used after it.
  No entry may leak, be freed twice or be read after its release; a deletion
  must remove what was named and nothing else; gdial must end with the list
  that the cache holds.
* *Lifecycle.*  The manager is deleted while callbacks may be under way.  What
  the locks promise must be kept; a teardown must finish and must leave nothing
  running.
* *Events.*  Sinks come and go while jobs wait.  Each must be called once, with
  a reference held; the implementation must outlive its jobs.
* *Names and identity.*  The arguments of an instance come from globals, files
  and services that appear late and disagree.  All instances must show one
  identity, and each the names the manager answers with.
* *Network standby mode.*  The mode is copied by value on three ways (worker,
  `SetEnabled`, `initialize`) and written back on two, with no lock in common.
  What settles must be the device's mode, in the implementation and at gdial.

The full list of such hazards, each at its line, is under `hazards` in
`PROJECT.json`, with the properties that cover it.

## 2. The modules

| Module | Models | Composition |
|---|---|---|
| `GdialLink` | abstract: what the rest of the program may assume of the gdial instance | implemented by `LocateCast`, assumed by `CastEnable` |
| `LocateCast` | the supervisor: timer's callback and network notifications, step by step | its environment is the network, the platform and the RFC |
| `CastEnable` | the policy, its passes, the replay, the power workers' restart | takes the supervisor as `LinkUp`, `LinkDown` and a three-step replay |
| `AppCache` | the vector, the heap, the copies, the lock, the messages to gdial, the lookup for AppManager | takes the supervisor as `LinkUp`, `LinkDown`, `Replay`; the passes around it are in `CastEnable` |
| `XCastManager` | the manager's globals, its `initialize`, `deinitialize` and setters, the platform behind them | one action per operation; no next-state relation of its own |
| `NetworkStandby` | the callers of `XCastManager`: name setters, timer, restart, and the three ways of the network standby mode | extends `XCastManager` |
| `Lifecycle` | teardown and restart against every kind of callback and caller | takes the supervisor's callbacks by their uses of the manager |
| `Broadcast` | abstract: an event reaches the members of one moment, once | implemented by `EventDispatch` |
| `EventDispatch` | sinks, jobs, references, the shell's activation and release | stands alone |
| `LocateCast_proofs`, `CastEnable_proofs`, `AppCache_proofs`, `Lifecycle_proofs`, `EventDispatch_proofs`, `NetworkStandby_proofs` | theorems | extend the module they are named after |
| `CastEnablePolicy_proofs` | theorems about the decision, gdial and the lock | extends `CastEnable_proofs` |
| `SequenceLemmas` | facts about sequences, removals and sorting, for sequences of any length | extended by `AppCache_proofs` and `EventDispatch_proofs` |
| `MC...` | symmetry sets and the values of structured constants | extend the module they are named after |

### How the modules meet

`LocateCast` knows how an instance comes to be, `CastEnable` and `AppCache` what
it is told.  `GdialLink` is the specification between them: at most one instance; made
only while the RFC allows it; informed after it is made; and none that passes
for informed because its predecessor was.  `LocateCast` and `CastEnable` map their
state to it (`phase` and `informed`) and are shown to implement it, so what
`CastEnable` lets its environment do with the instance is within what `GdialLink`
lets happen.  `AppCache` has the same three environment actions, with the replay of
the applications in one step because `m_appConfigMutex` is held during it.  Only
`LocateCast` sees the RFC, what an attempt needs, and so progress (`LinkProgress`): `Create` and `Inform` under weak fairness,
written with their guards as `[]<>` formulas.

In the other direction the interface is looser, and deliberately so:
`CastEnable` and `AppCache` let the instance come and go at any moment, which is
more than the supervisor does.

`NetworkStandby` relies on two facts that are proved about `LocateCast`: no
instance exists when the timer connects, and the timer's callback and the
withdrawal of the instance exclude each other (`Exclusion`).

### How the state corresponds to the code

Variables bear the source's names where TLA+ allows it, and each is declared
with the member it stands for.  A thread inside an operation has a position
(`pc`, `cb`, `nm`, `timer`, `network`, `app`): a step ends where another thread
may come in and see the difference, that is at each shared access that no
common lock covers.  Code under one lock is one action when nothing it touches
can be seen without that lock.

* `LocateCast`: one action per statement of `onLocateCastTimer` that reads or
  writes shared state (`QueryNetworkManager`, `LookUpInterface`, `Connect`,
  `RecordInterface`, `stopTimer`, `PushCachedState`), and likewise of
  `updateNWConnectivityStatus` (`Deliver` is the whole of
  `onActiveInterfaceChange` / `onIPAddressChange` up to and including the test
  of `isActive()`).  `Connect` follows `XCastManager::initialize`: an existing
  instance is kept, a disabled RFC answers true without one.
  `m_activeInterfaceName` is static and outlives an activation, so `Init` lets
  it hold any earlier value.
* `CastEnable`: an operation is assignment, `Evaluate` and a pass; a pass is
  `TellManager`, `CacheFlag`, `CacheName`, the three effects of
  `enableCastService`.  A friendly name is a member of a small set.
  `Deinitialize` and `Initialize` appear as far as they change what the policy
  sees.  The caches, `m_powerState` and `m_is_restart_req` are globals that no
  teardown resets, so `Init` starts with whatever an earlier activation left.
* `AppCache`: an entry is an identity and a name; `Stored` is the cut to 63
  bytes that `strncpy` makes, `IdOf` the application id given with a name.
  `FoundName` is the lookup of `onAppLifecycleStateChanged`, which takes the lock
  once and changes nothing, so it is an operator and not an action.
  `deleteFromDynamicAppCache` is the exact algorithm (first index of each name,
  sort descending, erase one after the other) as operators on sequences.  An
  index past the end and a read of a freed entry are undefined behaviour; the
  model records which it was and stops.
* `Lifecycle`: `ptr` and `instance` are `m_xcast_manager` and
  `XCastManager::_instance` as serial numbers, so a dangling pointer is one that
  is not the instance.  A use of a null or dangling pointer is recorded with its
  user, and the model stops.  Only the manager's lifetime is modelled so; of the
  plugin handles only NetworkManager's, which the timer's callback may make
  again, and `getInstance` is one step.  `caller` stands for any operation of the
  COM-RPC interface: all test the pointer and use it without a lock.
* `XCastManager`: the five globals and the platform they are looked up in.
  `initialize` fills what is empty, in the code's order, and makes an instance
  as a record of what its arguments say; a setter changes the record, if there
  is one, and the global.  An empty string and a null pointer are `None`.  The
  RFC `WolWakeEnable` decides whether the mode is among the arguments at all;
  `wolwake` remembers that for the property and is not seen by any action.
* `NetworkStandby`: `OnNetworkStandbyModeChanged` assigns and starts a worker;
  the worker reads (`ReadMode`), tells (`TellManager`) and writes back
  (`StoreMode`); `SetEnabled` reads the old mode, polls, registers, compares and
  goes the same way; the timer reads the mode (`BeginConnect`) before the manager
  takes its lock (`Connect`).
* `EventDispatch`: `implRefs` counts the references on the implementation
  (`_xcast`, `mConfigure`, one per job), `sinkRefs` those of the list on each
  sink.

History variables (`raced`, `unsettled`, `restartOwed`, `overlap`, `repeated`,
`known`, `restarted`, `stray`, `lateApp`, `lateTimer`, `overtaken`, `missed`,
`identities`, `renamed`, `due`, `declined`, `pushed`, `crowd`) are read by no guard; they let a property say when it claims something.

What a property sets aside in this way the model still does.  Some of these
interleavings end badly for certain, and nothing in the repository promises
otherwise: two passes with different arguments that overlap, a write-back of an
older mode, a call that a deletion overtakes, a notification that outlives its
registration, a log of a copy whose entries another call frees.  The properties
that exclude one of them say that it is the only cause; they do not cover it, and
under `hazards` it stands without a property and with a note.

Definitions whose name is that of an action with a suffix after an underscore
(`Deliver_NoTimerTest`, `Freed_AfterErase`, ...) are not part of the
specification: each is the action or operator with a plausible bug, kept to
show that a property notices it.

## 3. The runs

Passing runs.

| Run | Asks | Bounds |
|---|---|---|
| `locate` | Do the two threads stay apart, does the record agree with gdial, is connecting never given up, is every instance informed, does a stable platform end connected, and do the threads implement `GdialLink` with its progress? | 3 environment changes |
| `enable` | After any operations of two threads, does a pass that ran alone leave the policy's decision in the caches, and the caches in gdial? Is the lock that is held across a pass always left? Is the instance seen here `GdialLink`'s? | 2 threads, 2 names, 4 calls |
| `apps` | Is every entry accounted for, is a deletion exact, is gdial's list current, are the entries of an application bounded by the registrations that met, and does the lookup serve whoever is registered and nobody else? | 2 threads, 4 calls, names that are short, too long, and repeated, with and without an id |
| `standby` | Does each instance show the manager's names and one identity? Do device, implementation and gdial agree on the mode once all is quiet? | 2 threads, 2 names, 2 identities, 4 calls or changes |
| `lifecycle` | What do the two locks of the teardown guarantee, when may a caller meet a destroyed manager, and does `Configure(nullptr)` get both locks and return? | 2 workers, one caller any number of times, 2 notifications or workers started |
| `events` | Exactly one call per due sink, references that cover each use, a dispatch of every job, and does it all amount to `Broadcast`? | 3 events, 3 sinks, 4 calls |

Why the bounds are enough.  `locate`: three changes are a loss, a return and a
spurious report in any order, at any position of both threads, with the initial
state of the environment free; the queue holds up to three notifications.  A
fourth change meets no position that three do not reach, and the safety
properties of this run are proved for every bound.  `enable`: four calls are
enough for two passes that overlap on two threads, each with a call behind it
that changes an input or the instance; the deep-sleep restart needs two power
calls and leaves two more.  Its invariants are also proved for every bound.  `apps`: two threads are enough for each pair of
operations to overlap, and four calls build a cache of up to six entries, with
a replay among them; the requests cover an entry that shares its name with
another request, a name that is cut when stored, and a repeated name.
`lifecycle`: `m_is_restart_req` may be set from the start, so two events are two
restarts at once, or a restart with a notification, or both notifications, each
against `Configure(nullptr)`, the timer and a caller; each safety property
blames one kind of user, and is about it and those who tear down.  `standby`:
four calls are two changes of the mode with two further ones of names, platform,
instance or restart between; its six invariants are proved for every bound.  `events`: three jobs are one running, one queued and one to come;
the shell's and two clients' sinks may be registered in every order.

Runs that show what the code does not do.  Each checks one claim of a comment,
an assertion or the product description, and TLC refutes it:

| Run | Claim | What happens |
|---|---|---|
| `locate_follows` | "Automatic reconnection and session recovery after network interruptions" (`PRODUCT.md:123`) | a notification that arrives while the timer is active is dropped, and the callback, which has asked already, connects to the old interface and stops the timer |
| `enable_reregister` | "Reenabling cast service after registering Applications" (`XCastImplementation.cpp:1463`) | the replay reads the cached flag while a registration has casting off and delivers it after casting is on again |
| `enable_deep_sleep` | "After DEEPSLEEP, restart xdial again for next transition" (`:694`) | the first restart unregisters the power handlers, and nothing registers them again |
| `lifecycle_callback` | "to prevent a use-after-free" (`XCastImplementation.h:358`) | the lock covers the unregistration only; a callback that waited for it runs during the deletion |
| `lifecycle_stays` | "Wait for all active power mode change threads to complete before destroying resources" (`:176`) | the wait ends after five seconds, a restart takes six, and makes a new manager afterwards |
| `events_last` | "It should have been the last reference we are releasing" and its assertion (`XCast.cpp:151`, `:154`) | a queued job still holds one |

While these models were written some more things came up that no run is spent
on.  `SetEnabled` falls back to `checkPowerAndNetworkStandbyStates` exactly when
there is no PowerManager handle, which the assertion at its head excludes
(`:661`); the model takes the release build, where the call changes nothing.  A
power worker looks at the current power state and not at its notification's, so
a deep sleep that is over by then starts no restart.  `Deinitialize` resets the
user's setting and not the cached decision, which the timer replays to the next
instance.  `UnregisterApplications` sends a copy of the cache made earlier, over
what others may have told gdial since; that is why `GdialListCurrent` is claimed
only where no such call has overlapped another.  A request that names an
application twice gives `deleteFromDynamicAppCache` the same index twice, and the
entry behind it goes as well, or the index leaves the vector: `DeletesWhatIsNamed`
and `LookupFindsRegistered` exclude repeated names, and `RangeNeedsRepetition` says
that only they lead there.  While a registration is repeated, its application is
for a moment not in the cache, and a lifecycle notification that comes then is
dropped (`BeingReplaced`).  Two registrations of one application at a time may leave
two entries, of which a deletion removes the first only: the application is then
found although it was unregistered (`crowd` is two; a third entry takes three
registrations at a time).  A name of more than 63 bytes is registered cut: it
cannot be unregistered, and without an id AppManager's full one does not match it; a request
with a long name and its cut form names one entry twice, and counts as a
repetition.
The network standby mode of a notification can be undone by the write-back of an
older worker, and a notification between `connectToGDialService`'s reading of the
mode and `initialize` reaches neither the old instance nor the new one: `raced`
marks both, and `ModeFollowsDevice` and `GdialFollowsMode` say that nothing else
separates the three.  An application's state that is reported while there is no instance is
lost: nothing keeps it (`XCastManager.cpp:425`).  A model name set after the first connection is shown, and
never gets into the default friendly name (`renamed`).

`CHECK_DEADLOCK FALSE` appears in every configuration because each instance may
come to rest: the bounds stop the environment, a torn-down plugin is finished,
and a model that has met undefined behaviour stops on purpose.

### Fairness

* `LocateCast`: weak fairness of the timer's thread (Thunder's timer repeats
  until it is stopped) and of the thread that delivers notifications.  None of
  the environment; `Reconnects` assumes a platform that ends up ready, and is
  not claimed for it otherwise.
* `CastEnable`, `EventDispatch`: weak fairness of work that has begun (each
  thread, each job, the replay).  Nobody is obliged to begin any.  Locks are
  waited for under weak fairness, because the calls are finitely many and each
  holder leaves.
* `Lifecycle`: weak fairness of the teardown and of the callbacks, strong
  fairness of `Configure(nullptr)` taking `m_TimerMutexSync`: the timer's
  callback takes that mutex again and again, but 15 seconds apart, so a waiting
  thread gets it.

### Assumptions about code that is not here

`IAppManager` names an application by the id it was registered with, or by its
name if it has none, and ids are unique.  Stopping a timer and unregistering a sink prevent new callbacks and do not wait
for one under way (`onLocateCastTimer` stops its own timer, so stopping cannot
wait); `TeardownFinishes` depends on the second, since `Deinitialize` unregisters
the AppManager sink with `_appManagerCallbackLock` held.  The pool runs jobs in any order, several at a time.  Sinks do not call
back into the implementation.  `gdialService::getInstance` either returns an
instance bound to the interface it was given or none.  Each call into
`XCastManager` is atomic with respect to the others because of its own mutex.
`ASSERT` does nothing, as in a release build.  Assignments of strings are taken
as atomic, which the code does not guarantee (see `hazards`).

## 4. The proofs

The theorems are of the form `Spec => []P` or `Spec => Abstract!Spec` and hold for
every value of the constants that meets the `ASSUME`s of the module.

* `LocateCast_proofs`: `TypeCorrect`, `Exclusion` (`HandlerExcludesTimer`),
  `Binding` (`BoundMatchesActive`), `NeverGivesUp` (`ConnectedOrTrying`),
  `ReplayIsComplete` (`Replayed`).  None of the four is inductive.  The
  invariant `IInv` states how the two threads divide the instance between them
  without a lock: the callback is before `stopTimer` only while the timer is
  active; a handler past its first test implies that it is not; with the timer
  active an instance exists only between its creation and `stopTimer`; and an
  instance that has not been told the cached state has the callback on its way
  to it.  From the first two follows that the handler can neither meet nor be
  overtaken by the callback; the other two say what each leaves for the other.
  `LinkIsImplemented` (`LinkPromise`) uses the same invariant: each action is a
  step of `GdialLink` or leaves its variables alone.
* `CastEnable_proofs`: `TypeCorrect`, by one lemma per helper (`Goto`, `Enter`,
  `Begin`, `Call`) and one step per action; and `LinkIsAssumed` (`LinkPromise`).
* `CastEnablePolicy_proofs`: `DecisionIsThePolicy` (`PolicyHonoured`),
  `GdialIsTold` (`GdialFollowsCache`), `RegistrationUnlocks`
  (`LockIsReleased`), for any number of threads.  The first two speak of quiet
  states only, so the invariant has to say who owes what while work is under
  way.  While the latest pass ran alone there is at most one pass (`AloneInv`).
  Unless an input changed without an evaluation, either a thread is on its way
  to one, or what the pass carries, and after it the cache, is the policy's
  answer, or is "off" with a registration on its way to turn casting on again
  (`FlagInv`, `NameInv`).  gdial holds what the pass or the caches hold, unless
  a replay is on its way (`ReplayInv`, `ToldInv`).  The steps are sorted by
  what they do to the passes (`Aside`, `Begins`, `Steady`), so that each kind
  is argued once.
* `SequenceLemmas`: what appending, removing an element, removing several and
  sorting do to a sequence of any length.  These are facts that need induction,
  and the library's induction theorems take an operator as a parameter, which
  no prover here instantiates.  `LeastElement` (every set of naturals that is not
  empty has a least element, from the well-foundedness of `<`) takes their place:
  the set is that of the lengths or positions at which the claim fails.  With it
  `SortedExists` shows that a set of numbers can be listed in order, `Removals`
  that a sequence of removals is defined while each stays within what is left,
  and `DescendingRemovals` what the erase loop of `deleteFromDynamicAppCache`
  rests on: descending indices stay valid while it runs, and take out exactly the
  elements they pointed at in the beginning.
* `AppCache_proofs`: `TypeCorrect`, `NoEntryLostOrFreedTwice`
  (`EntriesAccounted`), `FreedOnlyByOverlap` (`FreedNeedsOverlap`), `ErasesWithin`
  (`RangeNeedsRepetition`), `EntriesAreBounded` (`EntriesBoundedByOverlap`), `GdialToldTheCache`
  (`GdialListCurrent`), `RegisteredAreFound` (`LookupFindsRegistered`) and
  `DeletionIsExact` (`DeletesWhatIsNamed`), for any finite set of threads, any calls
  and applications and requests of any length.  Two lemmas say what the data
  operations do (`Registration`: a registration's entries are new and in the order
  of the request, or all it made before a failed malloc is lost; `Deletion`: by
  `DescendingRemovals`).  The invariant has a conjunct per question.  `Accounted`
  gives each entry one owner: the cache, one registration between its allocation
  and its append, or the leaked.  `LockHeld` says when `m_appConfigMutex` is held
  across steps, which is only while a registration tells gdial.  `Overlaps` turns
  the history variable into what it means: `"none"` leaves one thread busy, and
  without `"mixed"` an unregistration is alone.  From these follow `CopyLive` (a
  copy read without the lock is of entries the cache still owns), `Messages` and
  `Told` (what gdial was last told is the cache, or is being corrected by
  somebody), and `Findable` (whoever is registered has an entry, or a registration
  about to append one).  `Crowded` counts, without asking for an order of the calls:
  the registrations of an application that are about to append are at most
  `crowd`, and its entries in the cache together with those of them that have
  already deleted are too; so an append only moves one from the second to the
  first.  `Listed` follows it for the lookup: where `crowd` is one, a deletion
  leaves no entry of what it names.  `RequestHeld` ties a request to the entries made from it,
  so that a repetition is seen where it does harm.
* `Lifecycle_proofs`: `TypeCorrect`, `PointerFollowsSingleton`,
  `CallersOvertakenOnly` (`CallerSafe`), `PromptCallbacksSafe`
  (`PromptCallbackSafe`), `ConnectingSafe` (`ConnectSafe`) and `TeardownQuiet`
  (`QuietTeardown`), for any number of workers and notifications.  The first fact
  about the pointer, `PointerAgrees`, is not a property of a run, since everything
  else rests on it: until a use goes wrong, `m_xcast_manager` is null or the
  singleton, except at one thread's step from the deletion to the clearing.
  `Locks` says who holds the two mutexes, `SinkKept` and `CallbackFirst` that no
  teardown gets past its unregistration while a notification that was in time is
  inside, `CallbackFirst` that a timer callback in time holds its mutex before the
  teardown, `HostAlone` that without a restart only Host deletes the manager,
  `Quiet` that then nothing starts the timer again once Host has stopped it,
  `CallerFresh` that a call which was not
  overtaken has seen the present manager, and `Faults` collects, for each kind of
  user, the history that excuses it.
* `EventDispatch_proofs`: `TypeCorrect`; `JobsKeepAlive` (`OutlivesJobs`): no job
  runs on a destroyed implementation.  The invariant counts: `implRefs` is the
  number of the shell's references plus the number of jobs that are queued or
  running, and the implementation is alive as long as it is positive.  The steps
  rest on the library's facts about the cardinality of finite sets.
  `CalledExactlyOnce` (`ExactlyOnce`), `CallsAreReferenced`
  (`CallsOnlyReferenced`) and `BroadcastIsImplemented` (`BroadcastPromise`) rest
  on `DInv`, which says what a dispatch under way has
  done: the list has no sink twice and cannot change while `_adminLock` is held;
  what is left to call is a tail of it; and a sink has been called once if it is
  in the list and not in that tail, and not otherwise.  So when the tail is
  empty the sinks called are those in the list at that moment, and
  `FinishDispatch` maps to `Deliver`, the calls to stuttering.
* `NetworkStandby_proofs`: all six invariants of the run, for any number of
  threads.  `ManagerInv` is kept by every step of the manager, whoever takes it:
  an instance shows what the globals hold, since a setter changes both sides at
  once and `initialize` fills only empty ones (`InstanceInv`); an identity shown
  is `m_uuid`, which is never replaced once it is there (`IdentityInv`); the
  default name was made of the names that have not changed since
  (`DefaultInv`).  For the mode, `ModeInv` says that unless the last change raced,
  every copy in flight is the current mode (`CopiesCurrent`), which makes
  write-backs harmless, that the device has it too unless a change was missed
  (`DeviceInv`), and that a wake-enabled instance has it unless a thread that will
  tell it is on its way (`Pending`, `GdialInv`).

Every invariant and every safety action property that a passing run checks is
stated by one of these theorems.  Only model-checked are the liveness properties
`Reconnects`, `LinkProgress`, `TeardownFinishes` and `EventuallyDispatched`, which
need fairness and `ENABLED`, beyond the provers here; and the counterexamples
of the six runs that refute a claim, which are TLC's by nature.

## 5. Plan

Done, in this order: `LocateCast`, `CastEnable`, `AppCache`, `Lifecycle`,
`EventDispatch`; `GdialLink` between the first two; `XCastManager` and
`NetworkStandby`; `Broadcast`; the lookup in `AppCache`; the callers in
`Lifecycle`; the proofs of section 4.

To come:

1. What each handler of `LocateCast` and `Lifecycle` may never do, as action
   formulas that follow from the invariants proved.
2. Operator lemmas about `XCastManager`'s lookups (`OrElse`, `Identity`) beyond
   those that `NetworkStandby_proofs` needs.

## 6. Not modelled

* SHA-1 and the UUID's layout, JSON parsing, files and device properties, log
  texts: computations without interaction.
* `setPowerState`, `SetApplicationState`, the mapping of AppManager's states and
  the AppActions requests: one call is turned into another, and no state is kept.
  (The power change that the first asks for comes back as a notification, which
  `CastEnable` allows at any time.)
* The default list of applications and the friendly-name flag among gdial's
  arguments, which the RFC gives anew for each instance (the list keeps the last
  value it gave).
* `Deactivated`, which asks Thunder to deactivate the plugin and so leads to
  `Deinitialize`.
* `getWiFiInterface` and `getGDialInterfaceName`, which nothing calls.
* The application cache that a deactivation leaves to the next activation in the
  same process: `AppCache` starts with an empty one, and what registrations leave
  in it is reached by calls.
* gdial, NetworkManager, PowerManager, AppManager, System services and Thunder
  themselves: they appear as the environment of the module that talks to them.
* The build files, the workflows and the L1 tests.
