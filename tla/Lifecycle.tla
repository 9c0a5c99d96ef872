------------------------------ MODULE Lifecycle ------------------------------
(***************************************************************************)
(* The teardown of XCastImplementation against everything that may still   *)
(* be running: the locate-cast timer's callback, a network notification, a *)
(* lifecycle notification of the AppManager, a caller of the COM-RPC       *)
(* interface, and the power workers, which tear down and start again on    *)
(* their own when the device wakes from deep sleep.                        *)
(*                                                                         *)
(* What they share is m_xcast_manager, a plain static pointer to the       *)
(* singleton XCastManager::_instance, which shutdown deletes.  A use of    *)
(* the pointer when it is null or dangling is undefined; the model records *)
(* whose use it was and stops.  Uses and the deletion take the manager's   *)
(* own mutex, so each is one step.                                         *)
(*                                                                         *)
(* External: stopping the timer and unregistering a sink prevent new       *)
(* callbacks, and do not wait for one that has started (onLocateCastTimer  *)
(* stops its own timer).                                                   *)
(***************************************************************************)
EXTENDS Naturals

CONSTANTS
    Host,        \* the thread that calls Configure(nullptr)
    Workers,     \* power workers
    MaxEvents    \* bound on notifications and on workers started

ASSUME ActorAssumption == Host \notin Workers
ASSUME EventAssumption == MaxEvents \in Nat

Tearers == {Host} \cup Workers

VARIABLES
    ptr,          \* m_xcast_manager: a manager's serial number, 0 when null
    instance,     \* XCastManager::_instance, likewise
    serial,       \* managers made so far
    timerActive,
    timerLock,    \* m_TimerMutexSync: "free", "timer" or "host"
    callbackLock, \* _appManagerCallbackLock is held by a callback
    powerReg, networkReg, appReg,   \* the registered sinks
    nmHandle,     \* _networkManagerPlugin is held
    restartReq,   \* m_is_restart_req
    pc,           \* the position of each thread that may tear down
    timer,        \* of the timer's callback
    network,      \* of the network notification
    app,          \* of the lifecycle notification
    caller,       \* of a caller of the COM-RPC interface, or of a worker that
                  \* enters through it
    events,
    fault,        \* whose use of the manager was undefined
    (* history *)
    restarted,    \* a worker has begun to tear down
    stray,        \* a network notification outlived its registration
    lateApp,      \* this lifecycle notification got the lock after the
                  \* registration was withdrawn
    lateTimer,    \* this timer callback got its lock after Host's teardown
    overtaken     \* a deletion has fallen into this caller's work, or it began
                  \* before the pointer to the deleted manager was cleared

managerVars == <<ptr, instance, serial>>
sinkVars    == <<powerReg, networkReg, appReg, nmHandle>>
ghostVars   == <<restarted, stray, lateApp, lateTimer>>
callerVars  == <<caller, overtaken>>
vars == <<managerVars, timerActive, timerLock, callbackLock, sinkVars, restartReq,
          pc, timer, network, app, callerVars, events, fault, ghostVars>>

Positions == {"idle", "lock", "wait", "power", "network", "apps", "check", "stop",
              "shutdown", "null", "release", "done", "begin", "init", "observe", "pass",
              "use"}

TypeOK ==
    /\ ptr \in 0..serial /\ instance \in {0, serial} /\ serial \in Nat
    /\ timerActive \in BOOLEAN /\ callbackLock \in BOOLEAN
    /\ timerLock \in {"free", "timer", "host"}
    /\ powerReg \in BOOLEAN /\ networkReg \in BOOLEAN /\ appReg \in BOOLEAN
    /\ nmHandle \in BOOLEAN /\ restartReq \in BOOLEAN
    /\ pc \in [Tearers -> Positions]
    /\ timer \in {"idle", "lock", "connect", "stop", "check", "push"}
    /\ network \in {"idle", "test", "check", "use", "start"}
    /\ app \in {"idle", "lock", "check", "use"}
    /\ caller \in {"idle", "use"} /\ overtaken \in BOOLEAN
    /\ events \in 0..MaxEvents
    /\ fault \in {"none", "connect", "push", "network", "app", "teardown", "init",
                 "pass", "caller"}
    /\ restarted \in BOOLEAN /\ stray \in BOOLEAN
    /\ lateApp \in BOOLEAN /\ lateTimer \in BOOLEAN

\* Configure(service) has returned.  m_is_restart_req is static and reset by the
\* restart alone: a device that went to deep sleep before the plugin was last
\* deactivated has left it set.
Init ==
    /\ ptr = 1 /\ instance = 1 /\ serial = 1
    /\ timerActive = TRUE /\ timerLock = "free" /\ callbackLock = FALSE
    /\ powerReg \in BOOLEAN /\ networkReg = FALSE /\ appReg \in BOOLEAN
    /\ nmHandle = FALSE /\ restartReq \in BOOLEAN
    /\ pc = [d \in Tearers |-> "idle"]
    /\ timer = "idle" /\ network = "idle" /\ app = "idle"
    /\ caller = "idle" /\ overtaken = FALSE
    /\ events = 0 /\ fault = "none"
    /\ restarted = FALSE /\ stray = FALSE /\ lateApp = FALSE /\ lateTimer = FALSE

Goto(d, p) == pc' = [pc EXCEPT ![d] = p]

\* A thread goes on from a position, as long as no use was undefined.
Is(position, p) == fault = "none" /\ position = p
At(d, p)        == Is(pc[d], p)

NewEvent == events < MaxEvents /\ events' = events + 1

\* Using the manager; by names the user.
Use(by) == fault' = IF ptr # 0 /\ ptr = instance THEN "none" ELSE by

-----------------------------------------------------------------------------
(* Configure(nullptr), and Deinitialize, which the workers call as well. *)

Configure ==
    /\ At(Host, "idle")
    /\ Goto(Host, "lock")
    /\ UNCHANGED <<managerVars, timerActive, timerLock, callbackLock, sinkVars,
                   restartReq, timer, network, app, events, fault, ghostVars,
                   callerVars>>

\* Mutant: Deinitialize without m_TimerMutexSync.
LockTimerMutex_Not ==
    /\ At(Host, "lock")
    /\ Goto(Host, "wait")
    /\ UNCHANGED <<managerVars, timerActive, timerLock, callbackLock, sinkVars,
                   restartReq, timer, network, app, events, fault, ghostVars,
                   callerVars>>

LockTimerMutex ==
    /\ At(Host, "lock") /\ timerLock = "free"
    /\ timerLock' = "host"
    /\ Goto(Host, "wait")
    /\ UNCHANGED <<managerVars, timerActive, callbackLock, sinkVars, restartReq,
                   timer, network, app, events, fault, ghostVars, callerVars>>

\* Until no power worker is left, or five seconds have passed.  A restart takes
\* longer: it waits the five seconds for itself, and sleeps another.
WaitForWorkers(d) ==
    /\ At(d, "wait")
    /\ Goto(d, "power")
    /\ restarted' = (restarted \/ d \in Workers)
    /\ UNCHANGED <<managerVars, timerActive, timerLock, callbackLock, sinkVars,
                   restartReq, timer, network, app, events, fault, stray, lateApp,
                   lateTimer, callerVars>>

UnregisterPower(d) ==
    /\ At(d, "power")
    /\ powerReg' = FALSE
    /\ Goto(d, "network")
    /\ UNCHANGED <<managerVars, timerActive, timerLock, callbackLock, networkReg,
                   appReg, nmHandle, restartReq, timer, network, app, events, fault,
                   ghostVars, callerVars>>

UnregisterNetwork(d) ==
    /\ At(d, "network")
    /\ networkReg' = FALSE
    /\ stray' = (stray \/ network # "idle")
    /\ Goto(d, "apps")
    /\ UNCHANGED <<managerVars, timerActive, timerLock, callbackLock, powerReg,
                   appReg, nmHandle, restartReq, timer, network, app, events, fault,
                   restarted, lateApp, lateTimer, callerVars>>

\* Mutant: the callback's lock is not taken.
UnregisterAppManager_Unlocked(d) ==
    /\ At(d, "apps")
    /\ appReg' = FALSE
    /\ Goto(d, "check")
    /\ UNCHANGED <<managerVars, timerActive, timerLock, callbackLock, powerReg,
                   networkReg, nmHandle, restartReq, timer, network, app, events,
                   fault, ghostVars, callerVars>>

\* _appManagerCallbackLock is taken for this step alone.
UnregisterAppManager(d) ==
    /\ At(d, "apps") /\ ~callbackLock
    /\ appReg' = FALSE
    /\ Goto(d, "check")
    /\ UNCHANGED <<managerVars, timerActive, timerLock, callbackLock, powerReg,
                   networkReg, nmHandle, restartReq, timer, network, app, events,
                   fault, ghostVars, callerVars>>

CheckManager(d) ==
    /\ At(d, "check")
    /\ Goto(d, IF ptr # 0 THEN "stop" ELSE "release")
    /\ UNCHANGED <<managerVars, timerActive, timerLock, callbackLock, sinkVars,
                   restartReq, timer, network, app, events, fault, ghostVars,
                   callerVars>>

\* Mutant: the timer is not stopped.
StopTimer_Not(d) ==
    /\ At(d, "stop")
    /\ Goto(d, "shutdown")
    /\ UNCHANGED <<managerVars, timerActive, timerLock, callbackLock, sinkVars,
                   restartReq, timer, network, app, events, fault, ghostVars,
                   callerVars>>

StopTimer(d) ==
    /\ At(d, "stop")
    /\ timerActive' = FALSE
    /\ Goto(d, "shutdown")
    /\ UNCHANGED <<managerVars, timerLock, callbackLock, sinkVars, restartReq, timer,
                   network, app, events, fault, ghostVars, callerVars>>

\* XCastManager::shutdown deletes the singleton ...
Shutdown(d) ==
    /\ At(d, "shutdown")
    /\ Use("teardown")
    /\ instance' = 0
    /\ overtaken' = (caller = "use")
    /\ Goto(d, "null")
    /\ UNCHANGED <<ptr, serial, timerActive, timerLock, callbackLock, sinkVars,
                   restartReq, timer, network, app, events, ghostVars, caller>>

\* Mutant: the pointer is left as it is.
ClearManager_Not(d) ==
    /\ At(d, "null")
    /\ Goto(d, "release")
    /\ UNCHANGED <<managerVars, timerActive, timerLock, callbackLock, sinkVars,
                   restartReq, timer, network, app, events, fault, ghostVars, callerVars>>

\* ... and Deinitialize then clears the pointer.
ClearManager(d) ==
    /\ At(d, "null")
    /\ ptr' = 0
    /\ Goto(d, "release")
    /\ UNCHANGED <<instance, serial, timerActive, timerLock, callbackLock, sinkVars,
                   restartReq, timer, network, app, events, fault, ghostVars,
                   callerVars>>

\* The plugin handles are released.  Host also leaves its lock.
Release(d) ==
    /\ At(d, "release")
    /\ Goto(d, IF d = Host THEN "done" ELSE "init")
    /\ timerLock' = IF d = Host THEN "free" ELSE timerLock
    /\ nmHandle' = FALSE
    /\ UNCHANGED <<managerVars, timerActive, callbackLock, powerReg, networkReg,
                   appReg, restartReq, timer, network, app, events, fault, ghostVars,
                   callerVars>>

Deinitialize(d) ==
    \/ WaitForWorkers(d) \/ UnregisterPower(d) \/ UnregisterNetwork(d)
    \/ UnregisterAppManager(d) \/ CheckManager(d) \/ StopTimer(d) \/ Shutdown(d)
    \/ ClearManager(d) \/ Release(d)

-----------------------------------------------------------------------------
(* The power workers. *)

\* A notification starts a worker.
StartWorker(w) ==
    /\ NewEvent /\ powerReg /\ At(w, "idle")
    /\ Goto(w, "begin")
    /\ UNCHANGED <<managerVars, timerActive, timerLock, callbackLock, sinkVars,
                   restartReq, timer, network, app, fault, ghostVars, callerVars>>

\* It finds the device in deep sleep, or awake after one, or neither.
DecideRestart(w) ==
    /\ At(w, "begin")
    /\ \/ restartReq' = TRUE /\ Goto(w, "pass")
       \/ restartReq /\ Goto(w, "wait") /\ UNCHANGED restartReq
       \/ Goto(w, "pass") /\ UNCHANGED restartReq
    /\ UNCHANGED <<managerVars, timerActive, timerLock, callbackLock, sinkVars, timer,
                   network, app, events, fault, ghostVars, callerVars>>

\* Mutant: a manager of its own, which the singleton does not know.
MakeManager_Own(w) ==
    /\ At(w, "init")
    /\ ptr' = serial + 1
    /\ Goto(w, "observe")
    /\ UNCHANGED <<instance, serial, timerActive, timerLock, callbackLock, sinkVars,
                   restartReq, timer, network, app, events, fault, ghostVars,
                   callerVars>>

\* Initialize: the singleton, made if need be ...
MakeManager(w) ==
    /\ At(w, "init")
    /\ \/ /\ ptr = 0 /\ instance = 0
          /\ ptr' = serial + 1 /\ instance' = serial + 1 /\ serial' = serial + 1
          /\ Goto(w, "observe")
          /\ UNCHANGED restartReq
       \/ /\ ptr = 0 /\ instance # 0
          /\ ptr' = instance
          /\ Goto(w, "observe")
          /\ UNCHANGED <<instance, serial, restartReq>>
       \/ /\ ptr # 0
          /\ restartReq' = FALSE
          /\ Goto(w, "pass")
          /\ UNCHANGED managerVars
    /\ UNCHANGED <<timerActive, timerLock, callbackLock, sinkVars, timer, network,
                   app, events, fault, ghostVars, callerVars>>

\* ... is given its observer, and the timer started.  No sink is registered again.
Observe(w) ==
    /\ At(w, "observe")
    /\ Use("init")
    /\ timerActive' = TRUE
    /\ restartReq' = FALSE
    /\ Goto(w, "pass")
    /\ UNCHANGED <<managerVars, timerLock, callbackLock, sinkVars, timer, network,
                   app, events, ghostVars, callerVars>>

\* Unless m_standbyBehavior is set, enableCastService tests the pointer and then
\* uses it.
TestBeforePass(w) ==
    /\ At(w, "pass")
    /\ \/ Goto(w, "idle")
       \/ ptr # 0 /\ Goto(w, "use")
    /\ UNCHANGED <<managerVars, timerActive, timerLock, callbackLock, sinkVars,
                   restartReq, timer, network, app, events, fault, ghostVars,
                   callerVars>>

Pass(w) ==
    /\ At(w, "use")
    /\ Use("pass")
    /\ Goto(w, "idle")
    /\ UNCHANGED <<managerVars, timerActive, timerLock, callbackLock, sinkVars,
                   restartReq, timer, network, app, events, ghostVars, callerVars>>

Work(w) ==
    \/ DecideRestart(w) \/ Deinitialize(w) \/ MakeManager(w) \/ Observe(w)
    \/ TestBeforePass(w) \/ Pass(w)

-----------------------------------------------------------------------------
(* onLocateCastTimer. *)

TimerFires ==
    /\ Is(timer, "idle") /\ timerActive
    /\ timer' = "lock"
    /\ UNCHANGED <<managerVars, timerActive, timerLock, callbackLock, sinkVars,
                   restartReq, pc, network, app, events, fault, ghostVars,
                   callerVars>>

EnterCallback ==
    /\ Is(timer, "lock") /\ timerLock = "free"
    /\ timerLock' = "timer"
    /\ lateTimer' = (pc[Host] = "done")
    /\ timer' = "connect"
    /\ UNCHANGED <<managerVars, timerActive, callbackLock, sinkVars, restartReq, pc,
                   network, app, events, fault, restarted, stray, lateApp,
                   callerVars>>

\* InitializeNetworkManager.  NetworkManager may be missing, and Register fail.
HoldNetworkManager ==
    \/ ~nmHandle /\ nmHandle' = TRUE /\ networkReg' \in BOOLEAN
    \/ UNCHANGED <<nmHandle, networkReg>>

\* Mutant: the return for the retry keeps the lock.
Connect_KeepsLock ==
    /\ Is(timer, "connect")
    /\ HoldNetworkManager
    /\ \/ /\ timer' = "idle"
          /\ UNCHANGED <<timerLock, fault>>
       \/ /\ nmHandle'
          /\ Use("connect")
          /\ timer' = "stop"
          /\ UNCHANGED timerLock
    /\ UNCHANGED <<managerVars, timerActive, callbackLock, powerReg, appReg,
                   restartReq, pc, network, app, events, ghostVars, callerVars>>

\* connectToGDialService uses the manager, untested, once there is an interface.
Connect ==
    /\ Is(timer, "connect")
    /\ HoldNetworkManager
    /\ \/ /\ timer' = "idle"
          /\ timerLock' = "free"
          /\ UNCHANGED fault
       \/ /\ nmHandle'
          /\ Use("connect")
          /\ \/ timer' = "stop" /\ UNCHANGED timerLock
             \/ timer' = "idle" /\ timerLock' = "free"
    /\ UNCHANGED <<managerVars, timerActive, callbackLock, powerReg, appReg,
                   restartReq, pc, network, app, events, ghostVars, callerVars>>

StopOwnTimer ==
    /\ Is(timer, "stop")
    /\ timerActive' = FALSE
    /\ timerLock' = "free"
    /\ timer' = "check"
    /\ UNCHANGED <<managerVars, callbackLock, sinkVars, restartReq, pc, network, app,
                   events, fault, ghostVars, callerVars>>

CheckBeforeReplay ==
    /\ Is(timer, "check")
    /\ timer' = IF ptr # 0 THEN "push" ELSE "idle"
    /\ UNCHANGED <<managerVars, timerActive, timerLock, callbackLock, sinkVars,
                   restartReq, pc, network, app, events, fault, ghostVars,
                   callerVars>>

Replay ==
    /\ Is(timer, "push")
    /\ Use("push")
    /\ timer' = "idle"
    /\ UNCHANGED <<managerVars, timerActive, timerLock, callbackLock, sinkVars,
                   restartReq, pc, network, app, events, ghostVars, callerVars>>

Callback == EnterCallback \/ Connect \/ StopOwnTimer \/ CheckBeforeReplay \/ Replay

-----------------------------------------------------------------------------
(* updateNWConnectivityStatus, with a usable interface. *)

NetworkNotification ==
    /\ NewEvent /\ networkReg /\ Is(network, "idle")
    /\ network' = "test"
    /\ UNCHANGED <<managerVars, timerActive, timerLock, callbackLock, sinkVars,
                   restartReq, pc, timer, app, fault, ghostVars, callerVars>>

TestTimer ==
    /\ Is(network, "test")
    /\ network' \in IF timerActive THEN {"idle"} ELSE {"idle", "check"}
    /\ UNCHANGED <<managerVars, timerActive, timerLock, callbackLock, sinkVars,
                   restartReq, pc, timer, app, events, fault, ghostVars, callerVars>>

CheckBeforeStop ==
    /\ Is(network, "check")
    /\ network' = IF ptr # 0 THEN "use" ELSE "start"
    /\ UNCHANGED <<managerVars, timerActive, timerLock, callbackLock, sinkVars,
                   restartReq, pc, timer, app, events, fault, ghostVars, callerVars>>

StopGDialService ==
    /\ Is(network, "use")
    /\ Use("network")
    /\ network' = "start"
    /\ UNCHANGED <<managerVars, timerActive, timerLock, callbackLock, sinkVars,
                   restartReq, pc, timer, app, events, ghostVars, callerVars>>

StartTimer ==
    /\ Is(network, "start")
    /\ timerActive' = TRUE
    /\ network' = "idle"
    /\ UNCHANGED <<managerVars, timerLock, callbackLock, sinkVars, restartReq, pc,
                   timer, app, events, fault, ghostVars, callerVars>>

-----------------------------------------------------------------------------
(* onAppLifecycleStateChanged. *)

AppNotification ==
    /\ NewEvent /\ appReg /\ Is(app, "idle")
    /\ app' = "lock"
    /\ UNCHANGED <<managerVars, timerActive, timerLock, callbackLock, sinkVars,
                   restartReq, pc, timer, network, fault, ghostVars, callerVars>>

LockCallback ==
    /\ Is(app, "lock") /\ ~callbackLock
    /\ callbackLock' = TRUE
    /\ lateApp' = ~appReg
    /\ app' = "check"
    /\ UNCHANGED <<managerVars, timerActive, timerLock, sinkVars, restartReq, pc,
                   timer, network, events, fault, restarted, stray, lateTimer,
                   callerVars>>

\* No manager, an application that is not in the cache, or a state to skip.
CheckBeforeReport ==
    /\ Is(app, "check")
    /\ \/ /\ app' = "idle" /\ callbackLock' = FALSE
       \/ /\ ptr # 0
          /\ app' = "use"
          /\ UNCHANGED callbackLock
    /\ UNCHANGED <<managerVars, timerActive, timerLock, sinkVars, restartReq, pc,
                   timer, network, events, fault, ghostVars, callerVars>>

ReportAppState ==
    /\ Is(app, "use")
    /\ Use("app")
    /\ callbackLock' = FALSE
    /\ app' = "idle"
    /\ UNCHANGED <<managerVars, timerActive, timerLock, sinkVars, restartReq, pc,
                   timer, network, events, ghostVars, callerVars>>

AppCallback == LockCallback \/ CheckBeforeReport \/ ReportAppState

-----------------------------------------------------------------------------
(* A call of the COM-RPC interface, and SetNetworkStandbyMode and the pass that  *)
(* workers make: each tests the pointer and then uses it, without a lock.        *)

CallerTests ==
    /\ Is(caller, "idle") /\ ptr # 0
    /\ caller' = "use"
    /\ overtaken' = (\E d \in Tearers : pc[d] = "null")
    /\ UNCHANGED <<managerVars, timerActive, timerLock, callbackLock, sinkVars,
                   restartReq, pc, timer, network, app, events, fault, ghostVars>>

CallerUses ==
    /\ Is(caller, "use")
    /\ Use("caller")
    /\ caller' = "idle"
    /\ overtaken' = (overtaken /\ fault' # "none")
    /\ UNCHANGED <<managerVars, timerActive, timerLock, callbackLock, sinkVars,
                   restartReq, pc, timer, network, app, events, ghostVars>>

-----------------------------------------------------------------------------
Next ==
    \/ Configure \/ LockTimerMutex \/ Deinitialize(Host)
    \/ \E w \in Workers : StartWorker(w) \/ Work(w)
    \/ TimerFires \/ Callback
    \/ NetworkNotification \/ TestTimer \/ CheckBeforeStop \/ StopGDialService
    \/ StartTimer
    \/ AppNotification \/ AppCallback
    \/ CallerTests \/ CallerUses

Spec == Init /\ [][Next]_vars

\* The threads run.  Between two tries of the timer there are 15 seconds, so the
\* host cannot miss m_TimerMutexSync for ever, nor _appManagerCallbackLock, as
\* the notifications are few.
FairSpec ==
    /\ Spec
    /\ SF_vars(LockTimerMutex)
    /\ WF_vars(Deinitialize(Host))
    /\ WF_vars(Callback)
    /\ WF_vars(AppCallback)

-----------------------------------------------------------------------------
(* Properties. *)

\* A lifecycle notification that got _appManagerCallbackLock before the sink was
\* unregistered never meets a destroyed manager, whoever tears down: the lock
\* keeps the teardown at its unregistration.
PromptCallbackSafe == fault = "app" => lateApp

\* Configure(nullptr) and the timer's callback are kept apart by
\* m_TimerMutexSync: connecting meets a destroyed manager only after a restart,
\* which takes no lock, or when the callback waited for the teardown to end.
ConnectSafe == fault = "connect" => restarted \/ lateTimer

\* Without restarts and without network notifications that outlive their
\* registration, the teardown leaves neither a manager nor a running timer.
QuietTeardown ==
    pc[Host] = "done" /\ ~restarted /\ ~stray /\ ~networkReg =>
        ptr = 0 /\ instance = 0 /\ ~timerActive

\* A call meets a destroyed manager only if a teardown deletes it during the call,
\* or the call begins between the deletion and the clearing of the pointer:
\* however many teardowns and restarts there were, and however they overlapped,
\* they leave m_xcast_manager null or at a live manager.
CallerSafe == fault = "caller" => overtaken

\* Configure(nullptr) returns: neither lock it waits for is kept, and it holds
\* the one while it waits for the other without a deadlock.
TeardownFinishes == pc[Host] = "lock" ~> pc[Host] = "done" \/ fault # "none"

-----------------------------------------------------------------------------
(* What comments of the code say, and the code does not do. *)

\* "Serializes in-flight OnAppLifecycleStateChanged callbacks with
\* Deinitialize's teardown of m_xcast_manager/_appManagerPlugin to prevent a
\* use-after-free" (_appManagerCallbackLock).
CallbackSafe == fault # "app"

\* "Wait for all active power mode change threads to complete before destroying
\* resources" (Deinitialize): when Configure(nullptr) has torn down, no worker
\* is left that makes a new manager.
TornDownStaysDown == pc[Host] = "done" => ptr = 0
=============================================================================
