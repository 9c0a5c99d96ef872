-------------------------- MODULE Lifecycle_proofs --------------------------
(***************************************************************************)
(* Proofs about Lifecycle, for any number of power workers and of          *)
(* notifications.  The steps are taken thread by thread; each part of the  *)
(* inductive invariant has a lemma of its own.                             *)
(***************************************************************************)
EXTENDS Lifecycle, TLAPS

-----------------------------------------------------------------------------
(* The steps, by thread. *)

HostStep == Configure \/ LockTimerMutex

WorkerStep(w) ==
    \/ StartWorker(w) \/ DecideRestart(w) \/ MakeManager(w) \/ Observe(w)
    \/ TestBeforePass(w) \/ Pass(w)

TimerStep == TimerFires \/ Callback

NetworkStep ==
    \/ NetworkNotification \/ TestTimer \/ CheckBeforeStop \/ StopGDialService
    \/ StartTimer

AppStep == AppNotification \/ AppCallback

CallerStep == CallerTests \/ CallerUses

\* Each step is one of these.
LEMMA StepCases ==
    ASSUME [Next]_vars
    PROVE  \/ HostStep
           \/ \E d \in Tearers : Deinitialize(d)
           \/ \E w \in Workers : WorkerStep(w)
           \/ TimerStep \/ NetworkStep \/ AppStep \/ CallerStep
           \/ UNCHANGED vars
BY DEF Next, Work, HostStep, WorkerStep, TimerStep, NetworkStep, AppStep, CallerStep,
       Tearers

USE DEF managerVars, sinkVars, ghostVars, callerVars, Goto, Is, At, Use, NewEvent

-----------------------------------------------------------------------------
(* The inductive invariant. *)

\* The part of Configure(nullptr) in which Host holds m_TimerMutexSync.
Section == {"wait", "power", "network", "apps", "check", "stop", "shutdown", "null",
            "release"}

\* What follows the unregistration from the AppManager.
AfterApps == {"check", "stop", "shutdown", "null", "release", "done", "init", "observe"}

\* Host makes no pass and starts nothing; a worker takes no lock and does not end.
Places ==
    /\ pc[Host] \in {"idle", "lock", "done"} \cup Section
    /\ \A w \in Workers : pc[w] \notin {"lock", "done"}
    /\ ~restarted => \A w \in Workers : pc[w] \in {"idle", "begin", "wait", "pass", "use"}

\* Who holds which lock.
Locks ==
    /\ timerLock = "host" <=> pc[Host] \in Section
    /\ timerLock = "timer" <=> timer \in {"connect", "stop"}
    /\ callbackLock <=> app \in {"check", "use"}

\* The pointer and the singleton agree, but for the one thread that has deleted
\* the manager and has yet to clear the pointer.
PointerAgrees ==
    fault = "none" =>
        /\ \A d \in Tearers : pc[d] = "null" => instance = 0 /\ ptr # 0
        /\ (\A d \in Tearers : pc[d] # "null") => ptr = instance
        /\ \A d, e \in Tearers : pc[d] = "null" /\ pc[e] = "null" => d = e

\* A caller that was not overtaken will use a live manager.
CallerFresh ==
    fault = "none" /\ caller = "use" /\ ~overtaken => ptr # 0 /\ ptr = instance

\* While the AppManager sink is registered, nobody has got past its
\* unregistration; a prompt notification keeps it registered.
SinkKept ==
    /\ appReg => \A d \in Tearers : pc[d] \notin AfterApps
    /\ app \in {"check", "use"} /\ ~lateApp => appReg
    /\ app = "use" /\ ~lateApp => ptr # 0

\* Without a restart, Host alone deletes the manager.
HostAlone ==
    ~restarted =>
        /\ pc[Host] \notin {"null", "release", "done"} => ptr # 0 /\ ptr = instance
        /\ pc[Host] = "null" => instance = 0
        /\ pc[Host] \in {"release", "done"} => ptr = 0 /\ instance = 0

\* A prompt timer callback holds its lock before Host's teardown.
CallbackFirst ==
    timer \in {"connect", "stop"} /\ ~lateTimer => pc[Host] \in {"idle", "lock"}

\* Without a restart, nothing starts the timer again once Host has stopped it, but
\* a network notification that was under way, or a registration made after it.
Quiet ==
    ~restarted =>
        /\ networkReg => nmHandle
        /\ pc[Host] \in {"apps", "check", "stop", "shutdown", "null", "release"} =>
              ~networkReg
        /\ ~stray /\ ~networkReg =>
              /\ pc[Host] \in {"apps"} \cup AfterApps => network = "idle"
              /\ pc[Host] \in {"shutdown", "null", "release", "done"} => ~timerActive

\* What a use of the manager that went wrong says of the others.
Faults == PromptCallbackSafe /\ ConnectSafe /\ CallerSafe

IInv == /\ TypeOK /\ Places /\ Locks /\ PointerAgrees /\ CallerFresh /\ SinkKept
        /\ HostAlone /\ CallbackFirst /\ Quiet /\ Faults

-----------------------------------------------------------------------------
(* The types. *)

\* The Boolean variables.
Flags ==
    /\ timerActive \in BOOLEAN /\ callbackLock \in BOOLEAN
    /\ powerReg \in BOOLEAN /\ networkReg \in BOOLEAN /\ appReg \in BOOLEAN
    /\ nmHandle \in BOOLEAN /\ restartReq \in BOOLEAN
    /\ overtaken \in BOOLEAN /\ restarted \in BOOLEAN /\ stray \in BOOLEAN
    /\ lateApp \in BOOLEAN /\ lateTimer \in BOOLEAN

\* The others.
Values ==
    /\ ptr \in 0..serial /\ instance \in {0, serial} /\ serial \in Nat
    /\ timerLock \in {"free", "timer", "host"}
    /\ pc \in [Tearers -> Positions]
    /\ timer \in {"idle", "lock", "connect", "stop", "check", "push"}
    /\ network \in {"idle", "test", "check", "use", "start"}
    /\ app \in {"idle", "lock", "check", "use"}
    /\ caller \in {"idle", "use"}
    /\ events \in 0..MaxEvents
    /\ fault \in {"none", "connect", "push", "network", "app", "teardown", "init",
                 "pass", "caller"}

\* Together they are the type invariant.
LEMMA TypeParts == TypeOK <=> Flags /\ Values
BY DEF TypeOK, Flags, Values

\* Every step keeps the flags Boolean.
LEMMA FlagsStep == ASSUME Flags, [Next]_vars PROVE Flags'
<1>1. CASE HostStep
  <2>1. CASE Configure
    BY <2>1, ZenonT(30) DEF Flags, Configure
  <2>2. CASE LockTimerMutex
    BY <2>2, ZenonT(30) DEF Flags, LockTimerMutex
  <2>. QED BY <1>1, <2>1, <2>2 DEF HostStep
<1>2. ASSUME NEW d \in Tearers, Deinitialize(d) PROVE Flags'
  <2>1. CASE WaitForWorkers(d)
    BY <2>1, ZenonT(30) DEF Flags, WaitForWorkers
  <2>2. CASE UnregisterPower(d)
    BY <2>2, ZenonT(30) DEF Flags, UnregisterPower
  <2>3. CASE UnregisterNetwork(d)
    BY <2>3, ZenonT(30) DEF Flags, UnregisterNetwork
  <2>4. CASE UnregisterAppManager(d)
    BY <2>4, ZenonT(30) DEF Flags, UnregisterAppManager
  <2>5. CASE CheckManager(d)
    BY <2>5, ZenonT(30) DEF Flags, CheckManager
  <2>6. CASE StopTimer(d)
    BY <2>6, ZenonT(30) DEF Flags, StopTimer
  <2>7. CASE Shutdown(d)
    BY <2>7, ZenonT(30) DEF Flags, Shutdown
  <2>8. CASE ClearManager(d)
    BY <2>8, ZenonT(30) DEF Flags, ClearManager
  <2>9. CASE Release(d)
    BY <2>9, ZenonT(30) DEF Flags, Release
  <2>. QED BY <1>2, <2>1, <2>2, <2>3, <2>4, <2>5, <2>6, <2>7, <2>8, <2>9
           DEF Deinitialize
<1>3. ASSUME NEW w \in Workers, WorkerStep(w) PROVE Flags'
  <2>1. CASE StartWorker(w)
    BY <2>1, ZenonT(30) DEF Flags, StartWorker
  <2>2. CASE DecideRestart(w)
    BY <2>2, ZenonT(30) DEF Flags, DecideRestart
  <2>3. CASE MakeManager(w)
    <3>1. restartReq' = restartReq \/ restartReq' = FALSE
      BY <2>3, Zenon DEF MakeManager
    <3>2. restartReq' \in BOOLEAN
      BY <3>1, ZenonT(30) DEF Flags
    <3>. QED BY <2>3, <3>2, ZenonT(30) DEF Flags, MakeManager
  <2>4. CASE Observe(w)
    BY <2>4, ZenonT(30) DEF Flags, Observe
  <2>5. CASE TestBeforePass(w)
    BY <2>5, ZenonT(30) DEF Flags, TestBeforePass
  <2>6. CASE Pass(w)
    BY <2>6, ZenonT(30) DEF Flags, Pass
  <2>. QED BY <1>3, <2>1, <2>2, <2>3, <2>4, <2>5, <2>6 DEF WorkerStep
<1>4. CASE TimerStep
  <2>1. CASE TimerFires
    BY <2>1, ZenonT(30) DEF Flags, TimerFires
  <2>2. CASE EnterCallback
    BY <2>2, ZenonT(30) DEF Flags, EnterCallback
  <2>3. CASE Connect
    BY <2>3, ZenonT(30) DEF Flags, Connect, HoldNetworkManager
  <2>4. CASE StopOwnTimer
    BY <2>4, ZenonT(30) DEF Flags, StopOwnTimer
  <2>5. CASE CheckBeforeReplay
    BY <2>5, ZenonT(30) DEF Flags, CheckBeforeReplay
  <2>6. CASE Replay
    BY <2>6, ZenonT(30) DEF Flags, Replay
  <2>. QED BY <1>4, <2>1, <2>2, <2>3, <2>4, <2>5, <2>6 DEF TimerStep, Callback
<1>5. CASE NetworkStep
  <2>1. CASE NetworkNotification
    BY <2>1, ZenonT(30) DEF Flags, NetworkNotification
  <2>2. CASE TestTimer
    BY <2>2, ZenonT(30) DEF Flags, TestTimer
  <2>3. CASE CheckBeforeStop
    BY <2>3, ZenonT(30) DEF Flags, CheckBeforeStop
  <2>4. CASE StopGDialService
    BY <2>4, ZenonT(30) DEF Flags, StopGDialService
  <2>5. CASE StartTimer
    BY <2>5, ZenonT(30) DEF Flags, StartTimer
  <2>. QED BY <1>5, <2>1, <2>2, <2>3, <2>4, <2>5 DEF NetworkStep
<1>6. CASE AppStep
  <2>1. CASE AppNotification
    BY <2>1, ZenonT(30) DEF Flags, AppNotification
  <2>2. CASE LockCallback
    BY <2>2, ZenonT(30) DEF Flags, LockCallback
  <2>3. CASE CheckBeforeReport
    BY <2>3, ZenonT(30) DEF Flags, CheckBeforeReport
  <2>4. CASE ReportAppState
    BY <2>4, ZenonT(30) DEF Flags, ReportAppState
  <2>. QED BY <1>6, <2>1, <2>2, <2>3, <2>4 DEF AppStep, AppCallback
<1>7. CASE CallerStep
  <2>1. CASE CallerTests
    BY <2>1, ZenonT(30) DEF Flags, CallerTests
  <2>2. CASE CallerUses
    BY <2>2, ZenonT(30) DEF Flags, CallerUses
  <2>. QED BY <1>7, <2>1, <2>2 DEF CallerStep
<1>8. CASE UNCHANGED vars
  BY <1>8 DEF Flags, vars
<1>. QED BY <1>1, <1>2, <1>3, <1>4, <1>5, <1>6, <1>7, <1>8, StepCases

\* Every step keeps the others in their sets.
LEMMA ValuesStep == ASSUME Values, [Next]_vars PROVE Values'
<1>. USE EventAssumption DEF Values, Positions
<1>1. CASE HostStep
  BY <1>1 DEF HostStep, Configure, LockTimerMutex, Tearers
<1>2. ASSUME NEW d \in Tearers, Deinitialize(d) PROVE Values'
  BY <1>2 DEF Deinitialize, WaitForWorkers, UnregisterPower, UnregisterNetwork,
         UnregisterAppManager, CheckManager, StopTimer, Shutdown, ClearManager,
         Release
<1>3. ASSUME NEW w \in Workers, WorkerStep(w) PROVE Values'
  BY <1>3 DEF WorkerStep, StartWorker, DecideRestart, MakeManager, Observe,
         TestBeforePass, Pass, Tearers
<1>4. CASE TimerStep
  BY <1>4 DEF TimerStep, Callback, TimerFires, EnterCallback, Connect,
         HoldNetworkManager, StopOwnTimer, CheckBeforeReplay, Replay
<1>5. CASE NetworkStep
  BY <1>5 DEF NetworkStep, NetworkNotification, TestTimer, CheckBeforeStop,
         StopGDialService, StartTimer
<1>6. CASE AppStep
  BY <1>6 DEF AppStep, AppCallback, AppNotification, LockCallback,
         CheckBeforeReport, ReportAppState
<1>7. CASE CallerStep
  BY <1>7 DEF CallerStep, CallerTests, CallerUses
<1>8. CASE UNCHANGED vars
  BY <1>8 DEF vars
<1>. QED BY <1>1, <1>2, <1>3, <1>4, <1>5, <1>6, <1>7, <1>8, StepCases

\* Every step keeps the type invariant.
LEMMA TypeStep == ASSUME TypeOK, [Next]_vars PROVE TypeOK'
<1>1. Flags /\ Values
  BY TypeParts
<1>2. Flags' /\ Values'
  BY <1>1, FlagsStep, ValuesStep
<1>. QED BY <1>2 DEF TypeOK, Flags, Values

-----------------------------------------------------------------------------
(* What the threads leave alone. *)

\* The timer's callback, the notifications and the callers neither tear down nor
\* start again.
LEMMA OutsiderFrame ==
    ASSUME TimerStep \/ NetworkStep \/ AppStep \/ CallerStep
    PROVE  /\ UNCHANGED <<ptr, instance, serial, powerReg, appReg, restartReq, pc,
                          restarted, stray>>
           /\ fault = "none"
<1>1. CASE TimerStep
  BY <1>1 DEF TimerStep, TimerFires, Callback, EnterCallback, Connect, StopOwnTimer,
              CheckBeforeReplay, Replay
<1>2. CASE NetworkStep
  BY <1>2 DEF NetworkStep, NetworkNotification, TestTimer, CheckBeforeStop,
              StopGDialService, StartTimer
<1>3. CASE AppStep
  BY <1>3 DEF AppStep, AppNotification, AppCallback, LockCallback, CheckBeforeReport,
              ReportAppState
<1>4. CASE CallerStep
  BY <1>4 DEF CallerStep, CallerTests, CallerUses
<1>. QED BY <1>1, <1>2, <1>3, <1>4

\* A worker between its teardown and the next, which takes no lock and leaves
\* every registration and the other threads alone.
LEMMA WorkerFrame ==
    ASSUME NEW w \in Workers, WorkerStep(w)
    PROVE  /\ UNCHANGED <<timerLock, callbackLock, powerReg, networkReg, appReg,
                          nmHandle, timer, network, app, caller, overtaken,
                          restarted, stray, lateApp, lateTimer>>
           /\ fault = "none"
           /\ \E p \in Positions : Goto(w, p)
BY DEF WorkerStep, StartWorker, DecideRestart, MakeManager, Observe, TestBeforePass,
       Pass, Positions

\* A teardown leaves the other threads alone; it does not make a manager.
LEMMA DeinitializeFrame ==
    ASSUME NEW d \in Tearers, Deinitialize(d)
    PROVE  /\ UNCHANGED <<serial, callbackLock, restartReq, timer, network, app,
                          events, caller, lateApp, lateTimer>>
           /\ fault = "none"
BY DEF Deinitialize, WaitForWorkers, UnregisterPower, UnregisterNetwork,
       UnregisterAppManager, CheckManager, StopTimer, Shutdown, ClearManager, Release

\* Configure(nullptr), until it waits for the workers.
LEMMA HostFrame ==
    ASSUME HostStep
    PROVE  /\ UNCHANGED <<ptr, instance, serial, timerActive, callbackLock, powerReg,
                          networkReg, appReg, nmHandle, timer, network, app, caller,
                          overtaken, restarted, stray, lateApp, lateTimer, fault>>
           /\ fault = "none"
BY DEF HostStep, Configure, LockTimerMutex

-----------------------------------------------------------------------------
(* The parts of the invariant. *)

\* Host and the workers keep to their positions.
LEMMA PlacesStep == ASSUME IInv, [Next]_vars PROVE Places'
<1>. USE ActorAssumption DEF IInv, TypeOK, Places, Section, Tearers
<1>1. CASE HostStep
  BY <1>1 DEF HostStep, Configure, LockTimerMutex
<1>2. ASSUME NEW d \in Tearers, Deinitialize(d) PROVE Places'
  <2>1. CASE WaitForWorkers(d)
    BY <1>2, <2>1 DEF WaitForWorkers
  <2>2. CASE UnregisterPower(d)
    BY <1>2, <2>2 DEF UnregisterPower
  <2>3. CASE UnregisterNetwork(d)
    BY <1>2, <2>3 DEF UnregisterNetwork
  <2>4. CASE UnregisterAppManager(d)
    BY <1>2, <2>4 DEF UnregisterAppManager
  <2>5. CASE CheckManager(d)
    BY <1>2, <2>5 DEF CheckManager
  <2>6. CASE StopTimer(d)
    BY <1>2, <2>6 DEF StopTimer
  <2>7. CASE Shutdown(d)
    BY <1>2, <2>7 DEF Shutdown
  <2>8. CASE ClearManager(d)
    BY <1>2, <2>8 DEF ClearManager
  <2>9. CASE Release(d)
    BY <1>2, <2>9 DEF Release
  <2>. QED BY <1>2, <2>1, <2>2, <2>3, <2>4, <2>5, <2>6, <2>7, <2>8, <2>9
           DEF Deinitialize
<1>3. ASSUME NEW w \in Workers, WorkerStep(w) PROVE Places'
  BY <1>3 DEF WorkerStep, StartWorker, DecideRestart, MakeManager, Observe,
              TestBeforePass, Pass
<1>4. CASE TimerStep \/ NetworkStep \/ AppStep \/ CallerStep
  BY <1>4, OutsiderFrame
<1>5. CASE UNCHANGED vars
  BY <1>5 DEF vars
<1>. QED BY <1>1, <1>2, <1>3, <1>4, <1>5, StepCases

\* The locks have their holders.
LEMMA LocksStep == ASSUME IInv, [Next]_vars PROVE Locks'
<1>. USE ActorAssumption DEF IInv, TypeOK, Locks, Places, Section, Tearers
<1>1. CASE HostStep
  BY <1>1 DEF HostStep, Configure, LockTimerMutex
<1>2. ASSUME NEW d \in Tearers, Deinitialize(d) PROVE Locks'
  BY <1>2 DEF Deinitialize, WaitForWorkers, UnregisterPower, UnregisterNetwork,
              UnregisterAppManager, CheckManager, StopTimer, Shutdown, ClearManager,
              Release
<1>3. ASSUME NEW w \in Workers, WorkerStep(w) PROVE Locks'
  BY <1>3, WorkerFrame
<1>4. CASE TimerStep
  BY <1>4 DEF TimerStep, TimerFires, Callback, EnterCallback, Connect, StopOwnTimer,
              CheckBeforeReplay, Replay
<1>5. CASE NetworkStep
  BY <1>5 DEF NetworkStep, NetworkNotification, TestTimer, CheckBeforeStop,
              StopGDialService, StartTimer
<1>6. CASE AppStep
  BY <1>6 DEF AppStep, AppNotification, AppCallback, LockCallback, CheckBeforeReport,
              ReportAppState
<1>7. CASE CallerStep
  <2>1. UNCHANGED <<timerLock, callbackLock, timer, app>>
    BY <1>7, Zenon DEF CallerStep, CallerTests, CallerUses
  <2>. QED BY <1>7, <2>1, OutsiderFrame
<1>8. CASE UNCHANGED vars
  BY <1>8 DEF vars
<1>. QED BY <1>1, <1>2, <1>3, <1>4, <1>5, <1>6, <1>7, <1>8, StepCases

\* The pointer and the singleton agree.
LEMMA PointerStep == ASSUME IInv, [Next]_vars PROVE PointerAgrees'
<1>. USE ActorAssumption DEF IInv, TypeOK, Positions, PointerAgrees
<1>1. CASE HostStep
  BY <1>1 DEF HostStep, Configure, LockTimerMutex, Tearers
<1>2. ASSUME NEW d \in Tearers, Deinitialize(d) PROVE PointerAgrees'
  BY <1>2 DEF Deinitialize, WaitForWorkers, UnregisterPower, UnregisterNetwork,
              UnregisterAppManager, CheckManager, StopTimer, Shutdown, ClearManager,
              Release
<1>3. ASSUME NEW w \in Workers, WorkerStep(w) PROVE PointerAgrees'
  BY <1>3 DEF WorkerStep, StartWorker, DecideRestart, MakeManager, Observe,
              TestBeforePass, Pass, Tearers
<1>4. CASE TimerStep \/ NetworkStep \/ AppStep \/ CallerStep
  BY <1>4, OutsiderFrame
<1>5. CASE UNCHANGED vars
  BY <1>5 DEF vars
<1>. QED BY <1>1, <1>2, <1>3, <1>4, <1>5, StepCases

\* A caller keeps its manager until it is overtaken.
LEMMA CallerStays == ASSUME IInv, [Next]_vars PROVE CallerFresh'
<1>. USE DEF IInv, TypeOK, Positions, PointerAgrees, CallerFresh
<1>1. CASE HostStep
  BY <1>1, HostFrame
<1>2. ASSUME NEW d \in Tearers, Deinitialize(d) PROVE CallerFresh'
  BY <1>2 DEF Deinitialize, WaitForWorkers, UnregisterPower, UnregisterNetwork,
              UnregisterAppManager, CheckManager, StopTimer, Shutdown, ClearManager,
              Release
<1>3. ASSUME NEW w \in Workers, WorkerStep(w) PROVE CallerFresh'
  BY <1>3 DEF WorkerStep, StartWorker, DecideRestart, MakeManager, Observe,
              TestBeforePass, Pass
<1>4. CASE TimerStep \/ NetworkStep \/ AppStep
  <2>1. UNCHANGED <<caller, overtaken>>
    BY <1>4 DEF TimerStep, TimerFires, Callback, EnterCallback, Connect, StopOwnTimer,
                CheckBeforeReplay, Replay, NetworkStep, NetworkNotification, TestTimer,
                CheckBeforeStop, StopGDialService, StartTimer, AppStep,
                AppNotification, AppCallback, LockCallback, CheckBeforeReport,
                ReportAppState
  <2>. QED BY <1>4, <2>1, OutsiderFrame
<1>5. CASE CallerStep
  BY <1>5 DEF CallerStep, CallerTests, CallerUses
<1>6. CASE UNCHANGED vars
  BY <1>6 DEF vars
<1>. QED BY <1>1, <1>2, <1>3, <1>4, <1>5, <1>6, StepCases

\* A prompt notification keeps the registration, and with it the manager.
LEMMA SinkStep == ASSUME IInv, [Next]_vars PROVE SinkKept'
<1>. USE DEF IInv, TypeOK, Positions, SinkKept, AfterApps
<1>1. CASE HostStep
  BY <1>1, ActorAssumption DEF HostStep, Configure, LockTimerMutex, Tearers
<1>2. ASSUME NEW d \in Tearers, Deinitialize(d) PROVE SinkKept'
  <2>1. CASE UnregisterAppManager(d)
    <3>1. ~appReg' /\ app' = app
      BY <2>1, Zenon DEF UnregisterAppManager
    <3>2. app \notin {"check", "use"}
      BY <2>1 DEF UnregisterAppManager, Locks
    <3>. QED BY <3>1, <3>2
  <2>2. ASSUME Deinitialize(d), ~UnregisterAppManager(d) PROVE appReg' = appReg
    BY <2>2 DEF Deinitialize, WaitForWorkers, UnregisterPower, UnregisterNetwork,
                CheckManager, StopTimer, Shutdown, ClearManager, Release
  <2>3. CASE ~UnregisterAppManager(d)
    <3>1. UNCHANGED <<appReg, app, lateApp>>
      BY <1>2, <2>2, <2>3, DeinitializeFrame
    <3>2. appReg => pc' = [pc EXCEPT ![d] = pc'[d]] /\ pc'[d] \notin AfterApps /\ ptr' = ptr
      BY <1>2, <2>3 DEF Deinitialize, WaitForWorkers, UnregisterPower,
              UnregisterNetwork, CheckManager, StopTimer, Shutdown, ClearManager,
              Release
    <3>. QED BY <3>1, <3>2
  <2>. QED BY <2>1, <2>3
<1>3. ASSUME NEW w \in Workers, WorkerStep(w) PROVE SinkKept'
  BY <1>3 DEF WorkerStep, StartWorker, DecideRestart, MakeManager, Observe,
              TestBeforePass, Pass, Tearers
<1>4. CASE AppStep
  <2>1. CASE LockCallback
    <3>1. (~lateApp' <=> appReg) /\ app' = "check"
      BY <2>1, Zenon DEF LockCallback
    <3>. QED BY <1>4, <2>1, <3>1, OutsiderFrame
  <2>2. CASE ~LockCallback
    BY <1>4, <2>2 DEF AppStep, AppNotification, AppCallback, CheckBeforeReport,
                      ReportAppState
  <2>. QED BY <2>1, <2>2
<1>5. CASE TimerStep \/ NetworkStep \/ CallerStep
  <2>1. UNCHANGED <<app, lateApp>>
    BY <1>5 DEF TimerStep, TimerFires, Callback, EnterCallback, Connect, StopOwnTimer,
                CheckBeforeReplay, Replay, NetworkStep, NetworkNotification, TestTimer,
                CheckBeforeStop, StopGDialService, StartTimer, CallerStep, CallerTests,
                CallerUses
  <2>. QED BY <1>5, <2>1, OutsiderFrame
<1>6. CASE UNCHANGED vars
  BY <1>6 DEF vars
<1>. QED BY <1>1, <1>2, <1>3, <1>4, <1>5, <1>6, StepCases

\* Without a restart, the manager goes with Host's teardown.
LEMMA HostAloneStep == ASSUME IInv, [Next]_vars PROVE HostAlone'
<1>. USE ActorAssumption DEF IInv, TypeOK, Positions, HostAlone, Places, Section, Tearers
<1>1. CASE HostStep
  BY <1>1 DEF HostStep, Configure, LockTimerMutex
<1>2. ASSUME NEW d \in Tearers, Deinitialize(d) PROVE HostAlone'
  BY <1>2 DEF Deinitialize, WaitForWorkers, UnregisterPower, UnregisterNetwork,
              UnregisterAppManager, CheckManager, StopTimer, Shutdown, ClearManager,
              Release
<1>3. ASSUME NEW w \in Workers, WorkerStep(w) PROVE HostAlone'
  BY <1>3 DEF WorkerStep, StartWorker, DecideRestart, MakeManager, Observe,
              TestBeforePass, Pass
<1>4. CASE TimerStep \/ NetworkStep \/ AppStep \/ CallerStep
  BY <1>4, OutsiderFrame
<1>5. CASE UNCHANGED vars
  BY <1>5 DEF vars
<1>. QED BY <1>1, <1>2, <1>3, <1>4, <1>5, StepCases

\* A prompt timer callback keeps Host out.
LEMMA CallbackFirstStep == ASSUME IInv, [Next]_vars PROVE CallbackFirst'
<1>. USE ActorAssumption
     DEF IInv, TypeOK, Positions, CallbackFirst, Locks, Places, Section, Tearers
<1>1. CASE HostStep
  BY <1>1 DEF HostStep, Configure, LockTimerMutex
<1>2. ASSUME NEW d \in Tearers, Deinitialize(d) PROVE CallbackFirst'
  BY <1>2 DEF Deinitialize, WaitForWorkers, UnregisterPower, UnregisterNetwork,
              UnregisterAppManager, CheckManager, StopTimer, Shutdown, ClearManager,
              Release
<1>3. ASSUME NEW w \in Workers, WorkerStep(w) PROVE CallbackFirst'
  BY <1>3, WorkerFrame
<1>4. CASE TimerStep
  BY <1>4 DEF TimerStep, TimerFires, Callback, EnterCallback, Connect, StopOwnTimer,
              CheckBeforeReplay, Replay
<1>5. CASE NetworkStep \/ AppStep \/ CallerStep
  <2>1. UNCHANGED <<timer, lateTimer>>
    BY <1>5 DEF NetworkStep, NetworkNotification, TestTimer, CheckBeforeStop,
                StopGDialService, StartTimer, AppStep, AppNotification, AppCallback,
                LockCallback, CheckBeforeReport, ReportAppState, CallerStep,
                CallerTests, CallerUses
  <2>. QED BY <1>5, <2>1, OutsiderFrame
<1>6. CASE UNCHANGED vars
  BY <1>6 DEF vars
<1>. QED BY <1>1, <1>2, <1>3, <1>4, <1>5, <1>6, StepCases

\* Without a restart, the timer stays stopped.
LEMMA QuietStep == ASSUME IInv, [Next]_vars PROVE Quiet'
<1>. USE ActorAssumption DEF IInv, TypeOK, Positions, Quiet, AfterApps, Section, Tearers
<1>1. CASE HostStep
  BY <1>1, HostFrame DEF HostStep, Configure, LockTimerMutex
<1>2. ASSUME NEW d \in Tearers, Deinitialize(d) PROVE Quiet'
  <2>. SUFFICES ASSUME ~restarted' PROVE Quiet'
    OBVIOUS
  <2>1. ~restarted /\ d = Host
    BY <1>2 DEF Deinitialize, WaitForWorkers, UnregisterPower, UnregisterNetwork,
                UnregisterAppManager, CheckManager, StopTimer, Shutdown, ClearManager,
                Release, Places
  <2>2. CASE UnregisterNetwork(d)
    <3>1. ~networkReg' /\ network' = network /\ (stray' <=> stray \/ network # "idle")
      BY <2>2, Zenon DEF UnregisterNetwork
    <3>2. pc'[Host] = "apps"
      BY <2>1, <2>2 DEF UnregisterNetwork
    <3>. QED BY <2>1, <3>1, <3>2
  <2>3. CASE StopTimer(d)
    <3>1. ~timerActive' /\ UNCHANGED <<sinkVars, network, restarted, stray>>
      BY <2>3, Zenon DEF StopTimer
    <3>2. pc[Host] = "stop" /\ pc'[Host] = "shutdown"
      BY <2>1, <2>3 DEF StopTimer
    <3>. QED BY <2>1, <3>1, <3>2
  <2>4. CASE Release(d)
    <3>1. ~nmHandle' /\ UNCHANGED <<timerActive, networkReg, network, restarted, stray>>
      BY <2>4, Zenon DEF Release
    <3>2. pc[Host] = "release" /\ pc'[Host] = "done"
      BY <2>1, <2>4 DEF Release
    <3>. QED BY <2>1, <3>1, <3>2
  <2>5. CASE CheckManager(d)
    <3>1. UNCHANGED <<sinkVars, timerActive, network, restarted, stray>>
      BY <2>5, Zenon DEF CheckManager
    <3>2. pc[Host] = "check" /\ pc'[Host] = "stop"
      BY <2>1, <2>5 DEF CheckManager, HostAlone
    <3>. QED BY <2>1, <3>1, <3>2
  <2>6. CASE \/ WaitForWorkers(d) \/ UnregisterPower(d) \/ UnregisterAppManager(d)
             \/ Shutdown(d) \/ ClearManager(d)
    BY <2>1, <2>6 DEF WaitForWorkers, UnregisterPower, UnregisterAppManager, Shutdown,
                      ClearManager
  <2>. QED BY <1>2, <2>2, <2>3, <2>4, <2>5, <2>6 DEF Deinitialize
<1>3. ASSUME NEW w \in Workers, WorkerStep(w) PROVE Quiet'
  <2>. SUFFICES ASSUME ~restarted PROVE Quiet'
    BY <1>3, WorkerFrame
  <2>1. pc'[Host] = pc[Host]
    BY <1>3, WorkerFrame
  <2>2. timerActive' = timerActive
    BY <1>3 DEF WorkerStep, StartWorker, DecideRestart, MakeManager, Observe,
                TestBeforePass, Pass, Places
  <2>. QED BY <1>3, <2>1, <2>2, WorkerFrame
<1>4. CASE TimerStep
  BY <1>4 DEF TimerStep, TimerFires, Callback, EnterCallback, Connect,
              HoldNetworkManager, StopOwnTimer, CheckBeforeReplay, Replay, Places, Locks
<1>5. CASE NetworkStep
  BY <1>5 DEF NetworkStep, NetworkNotification, TestTimer, CheckBeforeStop,
              StopGDialService, StartTimer, Places
<1>6. CASE AppStep \/ CallerStep
  <2>1. UNCHANGED <<sinkVars, timerActive, network>>
    BY <1>6 DEF AppStep, AppNotification, AppCallback, LockCallback, CheckBeforeReport,
                ReportAppState, CallerStep, CallerTests, CallerUses
  <2>. QED BY <1>6, <2>1, OutsiderFrame
<1>7. CASE UNCHANGED vars
  BY <1>7 DEF vars
<1>. QED BY <1>1, <1>2, <1>3, <1>4, <1>5, <1>6, <1>7, StepCases

\* A use of the manager goes wrong only where it may.
LEMMA FaultsStep == ASSUME IInv, [Next]_vars PROVE Faults'
<1>. USE DEF IInv, TypeOK, Faults, PromptCallbackSafe, ConnectSafe, CallerSafe
<1>1. CASE HostStep
  BY <1>1, HostFrame
<1>2. ASSUME NEW d \in Tearers, Deinitialize(d) PROVE Faults'
  <2>1. fault' \in {"none", "teardown"}
    BY <1>2 DEF Deinitialize, WaitForWorkers, UnregisterPower, UnregisterNetwork,
                UnregisterAppManager, CheckManager, StopTimer, Shutdown, ClearManager,
                Release
  <2>. QED BY <2>1
<1>3. ASSUME NEW w \in Workers, WorkerStep(w) PROVE Faults'
  <2>1. fault' \in {"none", "init", "pass"}
    BY <1>3 DEF WorkerStep, StartWorker, DecideRestart, MakeManager, Observe,
                TestBeforePass, Pass
  <2>. QED BY <2>1
<1>4. CASE TimerStep
  <2>1. fault' \in {"none", "push"} \/ Connect
    BY <1>4 DEF TimerStep, TimerFires, Callback, EnterCallback, StopOwnTimer,
                CheckBeforeReplay, Replay
  <2>2. ASSUME Connect, ~restarted, ~lateTimer PROVE fault' = "none"
    <3>1. pc[Host] \in {"idle", "lock"}
      BY <2>2 DEF Connect, CallbackFirst
    <3>2. ptr # 0 /\ ptr = instance
      BY <2>2, <3>1 DEF HostAlone
    <3>. QED BY <2>2, <3>2 DEF Connect
  <2>3. Connect => fault' \in {"none", "connect"} /\ UNCHANGED <<restarted, lateTimer>>
    BY DEF Connect
  <2>. QED BY <2>1, <2>2, <2>3
<1>5. CASE NetworkStep
  <2>1. fault' \in {"none", "network"}
    BY <1>5 DEF NetworkStep, NetworkNotification, TestTimer, CheckBeforeStop,
                StopGDialService, StartTimer
  <2>. QED BY <2>1
<1>6. CASE AppStep
  <2>1. fault' = "none" \/ ReportAppState
    BY <1>6 DEF AppStep, AppNotification, AppCallback, LockCallback, CheckBeforeReport
  <2>2. ASSUME ReportAppState, ~lateApp PROVE fault' = "none"
    <3>1. appReg /\ ptr # 0
      BY <2>2 DEF ReportAppState, SinkKept
    <3>2. \A d \in Tearers : pc[d] # "null"
      BY <3>1 DEF SinkKept, AfterApps
    <3>3. ptr = instance
      BY <2>2, <3>2 DEF ReportAppState, PointerAgrees
    <3>. QED BY <2>2, <3>1, <3>3 DEF ReportAppState
  <2>3. ReportAppState => fault' \in {"none", "app"} /\ lateApp' = lateApp
    BY DEF ReportAppState
  <2>. QED BY <2>1, <2>2, <2>3
<1>7. CASE CallerStep
  <2>1. fault' = "none" \/ CallerUses
    BY <1>7 DEF CallerStep, CallerTests
  <2>2. ASSUME CallerUses, ~overtaken PROVE fault' = "none"
    BY <2>2 DEF CallerUses, CallerFresh
  <2>3. CallerUses => /\ fault' \in {"none", "caller"}
                      /\ overtaken /\ fault' # "none" => overtaken'
    BY Zenon DEF CallerUses
  <2>. QED BY <2>1, <2>2, <2>3
<1>8. CASE UNCHANGED vars
  BY <1>8 DEF vars
<1>. QED BY <1>1, <1>2, <1>3, <1>4, <1>5, <1>6, <1>7, <1>8, StepCases

-----------------------------------------------------------------------------
(* The theorems. *)

\* The invariant holds when Configure has returned.
LEMMA InvInit == Init => IInv
<1>. SUFFICES ASSUME Init PROVE IInv
  OBVIOUS
<1>1. TypeOK
  <2>1. Flags
    BY Zenon DEF Init, Flags
  <2>2. Values
    BY EventAssumption DEF Init, Values, Positions
  <2>. QED BY <2>1, <2>2 DEF TypeOK, Flags, Values
<1>2. ~restarted /\ ~stray /\ ~networkReg /\ ~callbackLock /\ fault = "none"
  BY Zenon DEF Init
<1>3. Places /\ Locks /\ CallbackFirst
  BY <1>2 DEF Init, Places, Locks, CallbackFirst, Section, Tearers
<1>4. PointerAgrees /\ CallerFresh /\ HostAlone
  BY DEF Init, PointerAgrees, CallerFresh, HostAlone, Tearers
<1>5. SinkKept
  BY DEF Init, SinkKept, AfterApps
<1>6. Quiet
  BY <1>2 DEF Init, Quiet, AfterApps, Tearers
<1>7. Faults
  BY <1>2 DEF Faults, PromptCallbackSafe, ConnectSafe, CallerSafe
<1>. QED BY <1>1, <1>3, <1>4, <1>5, <1>6, <1>7 DEF IInv

\* Every step keeps it.
LEMMA InvStep == IInv /\ [Next]_vars => IInv'
<1>. SUFFICES ASSUME IInv, [Next]_vars PROVE IInv'
  OBVIOUS
<1>1. TypeOK'
  BY TypeStep DEF IInv
<1>. QED BY <1>1, PlacesStep, LocksStep, PointerStep, CallerStays, SinkStep,
            HostAloneStep, CallbackFirstStep, QuietStep, FaultsStep DEF IInv

\* It holds always.
LEMMA Invariance == Spec => []IInv
BY InvInit, InvStep, PTL DEF Spec

\* The variables keep their types.
THEOREM TypeCorrect == Spec => []TypeOK
<1>1. IInv => TypeOK
  BY DEF IInv
<1>. QED BY <1>1, Invariance, PTL

\* As long as no use of the manager went wrong, m_xcast_manager is null or at the
\* singleton, but for the moment between its deletion and the clearing of the
\* pointer, and one thread at most is at that point: overlapping teardowns and
\* restarts never leave a dangling pointer behind, nor a second manager.
THEOREM PointerFollowsSingleton == Spec => []PointerAgrees
<1>1. IInv => PointerAgrees
  BY DEF IInv
<1>. QED BY <1>1, Invariance, PTL

\* A call meets a destroyed manager only if a teardown overtakes it (CallerSafe):
\* tested and used without a lock, the pointer is good whenever no deletion falls
\* between the test and the use.
THEOREM CallersOvertakenOnly == Spec => []CallerSafe
<1>1. IInv => CallerSafe
  BY DEF IInv, Faults
<1>. QED BY <1>1, Invariance, PTL

\* _appManagerCallbackLock does its work for a notification that gets it before
\* the sink is unregistered (PromptCallbackSafe): no teardown, Host's or a
\* worker's, gets past its unregistration until the notification has been served.
THEOREM PromptCallbacksSafe == Spec => []PromptCallbackSafe
<1>1. IInv => PromptCallbackSafe
  BY DEF IInv, Faults
<1>. QED BY <1>1, Invariance, PTL

\* m_TimerMutexSync does its work (ConnectSafe): connecting meets a destroyed
\* manager only after a restart, which does not take it, or when the callback
\* waited for the teardown to end.
THEOREM ConnectingSafe == Spec => []ConnectSafe
<1>1. IInv => ConnectSafe
  BY DEF IInv, Faults
<1>. QED BY <1>1, Invariance, PTL

\* Without restarts and stray notifications, Configure(nullptr) leaves neither a
\* manager nor a running timer, whatever the callbacks were doing (QuietTeardown).
THEOREM TeardownQuiet == Spec => []QuietTeardown
<1>1. IInv => QuietTeardown
  BY DEF IInv, HostAlone, Quiet, AfterApps, QuietTeardown
<1>. QED BY <1>1, Invariance, PTL
=============================================================================
