----------------------------- MODULE CastEnable -----------------------------
(***************************************************************************)
(* The enablement policy of XCastImplementation: when casting is on, under *)
(* which friendly name, and how the decision reaches gdial.                *)
(*                                                                         *)
(* Every operation that may change the decision evaluates the policy and   *)
(* then makes a pass, enableCastService: tell the manager, store the flag  *)
(* in xcastEnableCache, store the name in friendlyNameCache.  Nothing      *)
(* serialises the passes.  The locate-cast timer replays the two caches to *)
(* a new gdial instance.  A worker that sees the device wake from deep     *)
(* sleep restarts the implementation.  The threads are the callers of the  *)
(* COM-RPC interface and the detached workers of the notifications: an     *)
(* operation or a notification takes an idle one.                          *)
(*                                                                         *)
(* The build modelled is the release build, where ASSERT does nothing.     *)
(***************************************************************************)
EXTENDS Naturals, FiniteSets

CONSTANTS
    Threads,         \* callers and detached workers
    Names,           \* friendly names
    DefaultName,     \* the initial friendlyNameCache, "Living Room"
    NoThread,
    DefaultEnable,   \* XCAST_ENABLED_BY_DEFAULT
    DefaultStandby,  \* XCAST_ENABLED_BY_DEFAULT_IN_STANDBY
    Calls,           \* the operations and notifications of this instance
    MaxCalls         \* bound on their number

AllCalls == {"SetEnabled", "SetStandbyBehavior", "SetFriendlyName", "Register",
             "Unregister", "PowerMode", "Link"}

ASSUME NameAssumption    == DefaultName \in Names
ASSUME ThreadAssumption  == NoThread \notin Threads
ASSUME DefaultAssumption == DefaultEnable \in BOOLEAN /\ DefaultStandby \in BOOLEAN
ASSUME CallAssumption    == Calls \subseteq AllCalls /\ MaxCalls \in Nat

PowerStates == {"ON", "STANDBY", "DEEP_SLEEP"}

VARIABLES
    (* the inputs of the policy *)
    xcastEnable, standbyBehavior, powerState, friendlyName,
    (* what the passes leave for the timer *)
    xcastEnableCache, friendlyNameCache,
    (* XCastManager and gdial *)
    manager,       \* m_xcast_manager is not null
    link,          \* "up" while a gdial instance exists
    activation,    \* the instance's last activation
    shownName,     \* and friendly name
    push,          \* the timer callback's position after stopTimer
    pushFlag,      \* the flag it has read
    (* PowerManager *)
    devicePower, plugin, registered, restartReq,
    (* the threads *)
    pc,            \* each thread's position
    flag, name,    \* the arguments of its pass
    then,          \* what it does after its pass
    appLock,       \* the holder of m_appConfigMutex, if it is RegisterApplications
    dynamic,       \* m_isDynamicRegistrationsRequired
    calls,
    (* history *)
    raced,         \* the latest pass overlapped another, or a replay
    unsettled,     \* an input changed that no later pass has seen
    restartOwed    \* the device has been in deep sleep since the last restart

policyVars == <<xcastEnable, standbyBehavior, powerState, friendlyName>>
cacheVars  == <<xcastEnableCache, friendlyNameCache>>
gdialVars  == <<link, activation, shownName>>
pushVars   == <<push, pushFlag>>
powerVars  == <<devicePower, plugin, registered, restartReq, restartOwed>>
appVars    == <<appLock, dynamic>>
passVars   == <<flag, name, then>>
vars == <<policyVars, cacheVars, manager, gdialVars, pushVars, powerVars, pc,
          passVars, appVars, calls, raced, unsettled>>

Positions == {"idle", "poll", "evaluate", "manager", "cacheFlag", "cacheName",
              "apps", "tail", "power", "deinit", "shutdown", "reset", "init",
              "check", "evalPower"}

Continuations == {"idle", "register", "unregister", "unlock"}

TypeOK ==
    /\ xcastEnable \in BOOLEAN /\ standbyBehavior \in BOOLEAN
    /\ powerState \in PowerStates /\ friendlyName \in Names
    /\ xcastEnableCache \in BOOLEAN /\ friendlyNameCache \in Names
    /\ manager \in BOOLEAN
    /\ link \in {"up", "down"} /\ activation \in BOOLEAN /\ shownName \in Names
    /\ push \in {"idle", "apps", "read", "call"} /\ pushFlag \in BOOLEAN
    /\ devicePower \in PowerStates
    /\ plugin \in BOOLEAN /\ registered \in BOOLEAN /\ restartReq \in BOOLEAN
    /\ pc \in [Threads -> Positions]
    /\ flag \in [Threads -> BOOLEAN]
    /\ name \in [Threads -> Names]
    /\ then \in [Threads -> Continuations]
    /\ appLock \in Threads \cup {NoThread} /\ dynamic \in BOOLEAN
    /\ calls \in 0..MaxCalls
    /\ raced \in BOOLEAN /\ unsettled \in BOOLEAN /\ restartOwed \in BOOLEAN

-----------------------------------------------------------------------------
\* The condition under which SetEnabled, SetFriendlyName, the friendly name
\* worker and the tails of (Un)RegisterApplications turn casting on.
Policy == xcastEnable /\ (standbyBehavior \/ powerState = "ON")

\* A pass is under way from the evaluation it sends on.
InPass == {t \in Threads : pc[t] \in {"evalPower", "manager", "cacheFlag", "cacheName"}}

\* Configure has read the power state and registered, unless PowerManager could
\* not be reached or refused.  The friendly name it has read has not been passed.
\* The caches, m_powerState and m_is_restart_req are what the plugin's last
\* activation in this process, if there was one, has left in them.
Init ==
    /\ xcastEnable = DefaultEnable /\ standbyBehavior = DefaultStandby
    /\ devicePower \in PowerStates
    /\ plugin \in BOOLEAN /\ registered \in {FALSE, plugin}
    /\ powerState \in IF plugin THEN {devicePower} ELSE PowerStates
    /\ friendlyName \in Names
    /\ xcastEnableCache \in BOOLEAN /\ friendlyNameCache \in Names
    /\ manager = TRUE
    /\ link = "down" /\ activation = FALSE /\ shownName = DefaultName
    /\ push = "idle" /\ pushFlag = FALSE
    /\ restartReq \in BOOLEAN
    /\ pc = [t \in Threads |-> "idle"]
    /\ flag = [t \in Threads |-> FALSE]
    /\ name = [t \in Threads |-> DefaultName]
    /\ then = [t \in Threads |-> "idle"]
    /\ appLock = NoThread /\ dynamic = FALSE
    /\ calls = 0
    /\ raced = FALSE /\ unsettled = TRUE /\ restartOwed = FALSE

Goto(t, p) == pc' = [pc EXCEPT ![t] = p]

Call(c) == c \in Calls /\ calls < MaxCalls /\ calls' = calls + 1

\* Thread t is about to call enableCastService(n, f), and then to do c.
Enter(t, f, n, c) ==
    /\ flag' = [flag EXCEPT ![t] = f]
    /\ name' = [name EXCEPT ![t] = n]
    /\ then' = [then EXCEPT ![t] = c]
    /\ Goto(t, "manager")

\* History: thread t's pass begins.
Begin ==
    /\ raced' = (InPass # {} \/ push = "call")
    /\ unsettled' = FALSE

-----------------------------------------------------------------------------
(* The operations that change an input of the policy. *)

SetEnabled(t) ==
    /\ Call("SetEnabled") /\ pc[t] = "idle"
    /\ xcastEnable' \in BOOLEAN
    /\ Goto(t, IF xcastEnable' /\ ~registered THEN "poll" ELSE "evaluate")
    /\ UNCHANGED <<standbyBehavior, powerState, friendlyName, cacheVars, manager,
                   gdialVars, pushVars, powerVars, passVars, appVars, raced,
                   unsettled>>

\* checkPowerAndNetworkStandbyStates and registerPowerEventHandlers, either of
\* which may fail.
PollPowerManager(t) ==
    /\ pc[t] = "poll"
    /\ powerState' \in IF plugin THEN {powerState, devicePower} ELSE {powerState}
    /\ registered' \in IF plugin THEN {registered, TRUE} ELSE {registered}
    /\ Goto(t, "evaluate")
    /\ UNCHANGED <<xcastEnable, standbyBehavior, friendlyName, cacheVars, manager,
                   gdialVars, pushVars, devicePower, plugin, restartReq,
                   restartOwed, passVars, appVars, calls, raced, unsettled>>

\* No evaluation follows.
SetStandbyBehavior ==
    /\ Call("SetStandbyBehavior")
    /\ standbyBehavior' \in BOOLEAN
    /\ unsettled' = (unsettled \/ standbyBehavior' # standbyBehavior)
    /\ UNCHANGED <<xcastEnable, powerState, friendlyName, cacheVars, manager,
                   gdialVars, pushVars, powerVars, pc, passVars, appVars, raced>>

\* The caller of SetFriendlyName, and the worker that
\* onFriendlyNameUpdateHandler starts after the same assignment.
SetFriendlyName(t) ==
    /\ Call("SetFriendlyName") /\ pc[t] = "idle"
    /\ friendlyName' \in Names
    /\ Goto(t, "evaluate")
    /\ UNCHANGED <<xcastEnable, standbyBehavior, powerState, cacheVars, manager,
                   gdialVars, pushVars, powerVars, passVars, appVars, raced,
                   unsettled>>

Evaluate(t) ==
    /\ pc[t] = "evaluate"
    /\ Enter(t, Policy, friendlyName, "idle")
    /\ Begin
    /\ UNCHANGED <<policyVars, cacheVars, manager, gdialVars, pushVars, powerVars,
                   appVars, calls>>

-----------------------------------------------------------------------------
(* enableCastService. *)

TellManager(t) ==
    /\ pc[t] = "manager"
    /\ \/ /\ manager /\ link = "up"
          /\ activation' = flag[t]
          /\ shownName' = name[t]
       \/ /\ ~manager \/ link = "down"
          /\ UNCHANGED <<activation, shownName>>
    /\ Goto(t, "cacheFlag")
    /\ UNCHANGED <<policyVars, cacheVars, manager, link, pushVars, powerVars,
                   passVars, appVars, calls, raced, unsettled>>

CacheFlag(t) ==
    /\ pc[t] = "cacheFlag"
    /\ xcastEnableCache' = flag[t]
    /\ Goto(t, "cacheName")
    /\ UNCHANGED <<policyVars, friendlyNameCache, manager, gdialVars, pushVars,
                   powerVars, passVars, appVars, calls, raced, unsettled>>

\* Mutant: the flag is stored where the name belongs.
CacheName_WrongArgument(t) ==
    /\ pc[t] = "cacheName"
    /\ friendlyNameCache' = flag[t]
    /\ Goto(t, IF then[t] \in {"register", "unregister"} THEN "apps" ELSE "idle")
    /\ appLock' = IF then[t] = "unlock" THEN NoThread ELSE appLock
    /\ UNCHANGED <<policyVars, xcastEnableCache, manager, gdialVars, pushVars,
                   powerVars, passVars, dynamic, calls, raced, unsettled>>

CacheName(t) ==
    /\ pc[t] = "cacheName"
    /\ friendlyNameCache' = name[t]
    /\ Goto(t, IF then[t] \in {"register", "unregister"} THEN "apps" ELSE "idle")
    /\ appLock' = IF then[t] = "unlock" THEN NoThread ELSE appLock
    /\ UNCHANGED <<policyVars, xcastEnableCache, manager, gdialVars, pushVars,
                   powerVars, passVars, dynamic, calls, raced, unsettled>>

-----------------------------------------------------------------------------
(* RegisterApplications and UnregisterApplications: off, the application   *)
(* list, and on again if the policy says so.                               *)

\* Which of the two it is, is remembered in then.
DisableForApplications(t, c) ==
    /\ pc[t] = "idle"
    /\ Enter(t, FALSE, friendlyName, c)
    /\ Begin
    /\ UNCHANGED <<policyVars, cacheVars, manager, gdialVars, pushVars, powerVars,
                   appVars>>

RegisterApplications(t)   == Call("Register") /\ DisableForApplications(t, "register")
UnregisterApplications(t) == Call("Unregister") /\ DisableForApplications(t, "unregister")

\* The list is changed under m_appConfigMutex, which RegisterApplications then
\* holds until it returns.
UpdateApplications(t) ==
    /\ pc[t] = "apps"
    /\ appLock = NoThread
    /\ appLock' = IF then[t] = "register" THEN t ELSE NoThread
    /\ dynamic' = TRUE
    /\ Goto(t, "tail")
    /\ UNCHANGED <<policyVars, cacheVars, manager, gdialVars, pushVars, powerVars,
                   passVars, calls, raced, unsettled>>

\* Mutant: the early return when casting stays off keeps the lock.
ReenableAfterApplications_KeepsLock(t) ==
    /\ pc[t] = "tail"
    /\ \/ /\ Policy
          /\ Enter(t, TRUE, friendlyName, IF then[t] = "register" THEN "unlock" ELSE "idle")
          /\ Begin
       \/ /\ ~Policy
          /\ Goto(t, "idle")
          /\ UNCHANGED <<passVars, raced, unsettled>>
    /\ UNCHANGED <<policyVars, cacheVars, manager, gdialVars, pushVars, powerVars,
                   appVars, calls>>

ReenableAfterApplications(t) ==
    /\ pc[t] = "tail"
    /\ \/ /\ Policy
          /\ Enter(t, TRUE, friendlyName, IF then[t] = "register" THEN "unlock" ELSE "idle")
          /\ Begin
          /\ UNCHANGED appLock
       \/ /\ ~Policy
          /\ Goto(t, "idle")
          /\ appLock' = IF then[t] = "register" THEN NoThread ELSE appLock
          /\ UNCHANGED <<passVars, raced, unsettled>>
    /\ UNCHANGED <<policyVars, cacheVars, manager, gdialVars, pushVars, powerVars,
                   dynamic, calls>>

-----------------------------------------------------------------------------
(* PowerManager's notification and its worker. *)

\* The device changes its power state.  PowerManager tells the implementation
\* only while it is registered.
OnPowerModeChanged(t) ==
    /\ Call("PowerMode") /\ pc[t] = "idle"
    /\ devicePower' \in PowerStates \ {devicePower}
    /\ restartOwed' = (restartOwed \/ devicePower' = "DEEP_SLEEP")
    /\ \/ /\ registered /\ plugin
          /\ powerState' = devicePower'
          /\ Goto(t, "power")
       \/ /\ ~registered \/ ~plugin
          /\ UNCHANGED <<powerState, pc>>
    /\ UNCHANGED <<xcastEnable, standbyBehavior, friendlyName, cacheVars, manager,
                   gdialVars, pushVars, plugin, registered, restartReq, passVars,
                   appVars, raced, unsettled>>

PowerWorker(t) ==
    /\ pc[t] = "power"
    /\ Goto(t, IF powerState = "ON" /\ restartReq THEN "deinit" ELSE "check")
    /\ restartReq' = (restartReq \/ powerState = "DEEP_SLEEP")
    /\ UNCHANGED <<policyVars, cacheVars, manager, gdialVars, pushVars,
                   devicePower, plugin, registered, restartOwed, passVars,
                   appVars, calls, raced, unsettled>>

\* Deinitialize waits for the workers to finish, of which the caller is one:
\* after five seconds it goes on whatever they do.
UnregisterPowerHandlers(t) ==
    /\ pc[t] = "deinit"
    /\ registered' = (registered /\ ~plugin)
    /\ Goto(t, "shutdown")
    /\ UNCHANGED <<policyVars, cacheVars, manager, gdialVars, pushVars,
                   devicePower, plugin, restartReq, restartOwed, passVars,
                   appVars, calls, raced, unsettled>>

ShutDownManager(t) ==
    /\ pc[t] = "shutdown"
    /\ manager' = FALSE
    /\ link' = "down"
    /\ Goto(t, "reset")
    /\ UNCHANGED <<policyVars, cacheVars, activation, shownName, pushVars,
                   powerVars, passVars, appVars, calls, raced, unsettled>>

ResetStatics(t) ==
    /\ pc[t] = "reset"
    /\ plugin' = FALSE
    /\ xcastEnable' = DefaultEnable
    /\ standbyBehavior' = DefaultStandby
    /\ unsettled' = TRUE
    /\ Goto(t, "init")
    /\ UNCHANGED <<powerState, friendlyName, cacheVars, manager, gdialVars,
                   pushVars, devicePower, registered, restartReq, restartOwed,
                   passVars, appVars, calls, raced>>

\* Initialize makes a manager and starts the timer; no handler is registered.
Reinitialize(t) ==
    /\ pc[t] = "init"
    /\ manager' = TRUE
    /\ restartReq' = FALSE
    /\ restartOwed' = FALSE
    /\ Goto(t, "check")
    /\ UNCHANGED <<policyVars, cacheVars, gdialVars, pushVars, devicePower, plugin,
                   registered, passVars, appVars, calls, raced, unsettled>>

CheckStandbyBehavior(t) ==
    /\ pc[t] = "check"
    /\ \/ /\ ~standbyBehavior
          /\ Goto(t, "evalPower")
          /\ Begin
       \/ /\ standbyBehavior
          /\ Goto(t, "idle")
          /\ UNCHANGED <<raced, unsettled>>
    /\ UNCHANGED <<policyVars, cacheVars, manager, gdialVars, pushVars, powerVars,
                   passVars, appVars, calls>>

\* Mutant: the power state alone decides.
EvaluatePower_IgnoresUser(t) ==
    /\ pc[t] = "evalPower"
    /\ Enter(t, powerState = "ON", friendlyName, "idle")
    /\ UNCHANGED <<policyVars, cacheVars, manager, gdialVars, pushVars, powerVars,
                   appVars, calls, raced, unsettled>>

EvaluatePower(t) ==
    /\ pc[t] = "evalPower"
    /\ Enter(t, xcastEnable /\ powerState = "ON", friendlyName, "idle")
    /\ UNCHANGED <<policyVars, cacheVars, manager, gdialVars, pushVars, powerVars,
                   appVars, calls, raced, unsettled>>

-----------------------------------------------------------------------------
(* The timer's callback connects and replays (module LocateCast). *)

threadVars == <<pc, passVars, appVars>>

\* Mutant: the running instance is not looked for.
LinkUp_Anew ==
    /\ Call("Link")
    /\ manager /\ push = "idle"
    /\ link' = "up"
    /\ activation' = FALSE
    /\ shownName' = DefaultName
    /\ push' = "apps"
    /\ UNCHANGED <<policyVars, cacheVars, manager, pushFlag, powerVars, threadVars,
                   raced, unsettled>>

\* A new instance shows neither the flag nor the name it will be told.
LinkUp ==
    /\ Call("Link")
    /\ manager /\ link = "down" /\ push = "idle"
    /\ link' = "up"
    /\ activation' = FALSE
    /\ shownName' = DefaultName
    /\ push' = "apps"
    /\ UNCHANGED <<policyVars, cacheVars, manager, pushFlag, powerVars, threadVars,
                   raced, unsettled>>

LinkDown ==
    /\ Call("Link")
    /\ link = "up"
    /\ link' = "down"
    /\ UNCHANGED <<policyVars, cacheVars, manager, activation, shownName, pushVars,
                   powerVars, threadVars, raced, unsettled>>

\* The registrations go first, under m_appConfigMutex.
PushApplications ==
    /\ push = "apps"
    /\ dynamic => appLock = NoThread
    /\ push' = "read"
    /\ UNCHANGED <<policyVars, cacheVars, manager, gdialVars, pushFlag, powerVars,
                   threadVars, calls, raced, unsettled>>

\* Mutant: the user's setting is replayed, not the cached decision.
PushReadsFlag_User ==
    /\ push = "read"
    /\ pushFlag' = xcastEnable
    /\ push' = "call"
    /\ raced' = (raced \/ InPass # {})
    /\ UNCHANGED <<policyVars, cacheVars, manager, gdialVars, powerVars,
                   threadVars, calls, unsettled>>

\* The flag is passed by value ...
PushReadsFlag ==
    /\ push = "read"
    /\ pushFlag' = xcastEnableCache
    /\ push' = "call"
    /\ raced' = (raced \/ InPass # {})
    /\ UNCHANGED <<policyVars, cacheVars, manager, gdialVars, powerVars,
                   threadVars, calls, unsettled>>

\* ... and the name by reference.
PushTellsManager ==
    /\ push = "call"
    /\ push' = "idle"
    /\ \/ /\ link = "up"
          /\ activation' = pushFlag
          /\ shownName' = friendlyNameCache
       \/ /\ link = "down"
          /\ UNCHANGED <<activation, shownName>>
    /\ UNCHANGED <<policyVars, cacheVars, manager, link, pushFlag, powerVars,
                   threadVars, calls, raced, unsettled>>

Replay == PushApplications \/ PushReadsFlag \/ PushTellsManager

-----------------------------------------------------------------------------
\* A thread's new work.
Start(t) == \/ SetEnabled(t) \/ SetFriendlyName(t) \/ RegisterApplications(t)
            \/ UnregisterApplications(t) \/ OnPowerModeChanged(t)

\* The rest of the work it has begun.
Continue(t) ==
    \/ PollPowerManager(t) \/ Evaluate(t)
    \/ TellManager(t) \/ CacheFlag(t) \/ CacheName(t)
    \/ UpdateApplications(t) \/ ReenableAfterApplications(t)
    \/ PowerWorker(t) \/ UnregisterPowerHandlers(t) \/ ShutDownManager(t)
    \/ ResetStatics(t) \/ Reinitialize(t)
    \/ CheckStandbyBehavior(t) \/ EvaluatePower(t)

Next ==
    \/ \E t \in Threads : Start(t) \/ Continue(t)
    \/ SetStandbyBehavior \/ LinkUp \/ LinkDown
    \/ Replay

Spec == Init /\ [][Next]_vars

\* Work that has begun goes on; nothing obliges anyone to begin any.
FairSpec == Spec /\ WF_vars(Replay) /\ \A t \in Threads : WF_vars(Continue(t))

-----------------------------------------------------------------------------
(* Properties. *)

Calm == push = "idle" /\ \A t \in Threads : pc[t] = "idle"

\* Whenever all is quiet, the latest pass ran alone and no change of the inputs
\* is without a pass of its own, the cached decision is the policy's: each
\* operation that changes an input evaluates after the change, whatever runs
\* between the change and its pass.
PolicyHonoured ==
    Calm /\ ~raced /\ ~unsettled =>
        xcastEnableCache = Policy /\ friendlyNameCache = friendlyName

\* Whenever all is quiet and the latest pass ran alone, a running gdial instance
\* has been told what the caches hold, however its creation, its destruction
\* and the replay fell between the steps of the passes.
GdialFollowsCache ==
    Calm /\ ~raced /\ link = "up" =>
        activation = xcastEnableCache /\ shownName = friendlyNameCache

\* RegisterApplications leaves m_appConfigMutex, which it keeps across its second
\* pass, on both branches of its tail: its holder is always one that goes on
\* without waiting for anybody, so no caller and no replay waits for ever.
LockIsReleased ==
    appLock # NoThread =>
        \/ pc[appLock] = "tail" /\ then[appLock] = "register"
        \/ /\ pc[appLock] \in {"manager", "cacheFlag", "cacheName"}
           /\ then[appLock] = "unlock"

\* The mapping to GdialLink, of which this module sees whether an instance exists
\* and whether its replay is over.
Link == INSTANCE GdialLink
        WITH phase <- IF link = "up" THEN "serving" ELSE "seeking",
             informed <- link = "up" /\ push = "idle",
             allowed <- TRUE, available <- FALSE

\* The instance seen here, which the timer, the notifications and the restarts of
\* two threads make and end while passes and replays are under way, is the one
\* that module LocateCast keeps the promise of: never two, and none that counts
\* the replay of its predecessor as its own.
LinkPromise == Link!Spec

-----------------------------------------------------------------------------
(* What comments and assertions of the code say, and the code does not do. *)

\* "Reenabling cast service after registering Applications"
\* (RegisterApplications): with only registrations and replays going on and the
\* policy in favour, casting is on once all is quiet.
RegistrationReenables ==
    Calm /\ Policy /\ ~unsettled /\ link = "up" => activation

\* "After DEEPSLEEP, restart xdial again for next transition"
\* (threadPowerModeChangeEvent): a device whose notifications were registered at
\* the start is never awake and quiet with a deep sleep behind it and no restart.
RestartsAfterDeepSleep ==
    plugin /\ registered => [](Calm /\ devicePower = "ON" => ~restartOwed)
=============================================================================
