--------------------------- MODULE NetworkStandby ---------------------------
(***************************************************************************)
(* The callers of XCastManager: the clients that set the names, the        *)
(* locate-cast timer that makes the instances, the restart after deep      *)
(* sleep, and the network standby mode, which PowerManager notifies to the *)
(* implementation and which travels to gdial in arguments passed by value  *)
(* while m_networkStandbyMode goes on changing.                            *)
(*                                                                         *)
(* The threads are the workers of the notification and the callers of      *)
(* SetEnabled, of which this module keeps what concerns the mode; module   *)
(* CastEnable has the rest.  The timer and the teardown exclude each other *)
(* and no instance exists when the timer connects (LocateCast_proofs); the *)
(* restart's overlap with the timer is in module Lifecycle.                *)
(***************************************************************************)
EXTENDS XCastManager, Naturals

CONSTANTS
    Threads,
    MaxCalls    \* bound on the environment's and the clients' actions

ASSUME CallAssumption == MaxCalls \in Nat

VARIABLES
    (* PowerManager *)
    deviceMode,     \* the device's network standby mode
    plugin,         \* _powerManagerPlugin is held
    registered,     \* _registeredPowerEventHandlers
    (* the implementation *)
    mode,           \* m_networkStandbyMode
    manager,        \* m_xcast_manager is not null
    connecting,     \* the timer is about to call initialize ...
    connectArg,     \* ... with this mode
    pc,             \* each thread's position
    arg,            \* its networkStandbyMode
    old,            \* its currentNetworkStandbyMode
    calls,
    (* history *)
    raced,          \* the mode last changed while a copy of an older one was in use
    missed          \* the device changed its mode and could not say so

powerVars == <<deviceMode, plugin, registered>>
modeVars  == <<mode, raced, missed>>
timerVars == <<connecting, connectArg>>
vars == <<managerVars, powerVars, modeVars, manager, timerVars, pc, arg, old, calls>>

Positions == {"idle", "poll", "register", "compare", "read", "tell", "store"}

TypeOK ==
    /\ ManagerTypeOK
    /\ deviceMode \in BOOLEAN /\ plugin \in BOOLEAN /\ registered \in BOOLEAN
    /\ mode \in BOOLEAN /\ manager \in BOOLEAN
    /\ connecting \in BOOLEAN /\ connectArg \in BOOLEAN
    /\ pc \in [Threads -> Positions]
    /\ arg \in [Threads -> BOOLEAN] /\ old \in [Threads -> BOOLEAN]
    /\ calls \in 0..MaxCalls
    /\ raced \in BOOLEAN /\ missed \in BOOLEAN

\* Configure has asked PowerManager for the mode, which may fail and leave what the
\* last activation left, and registered, which may fail too.
Init ==
    /\ ManagerInit
    /\ deviceMode \in BOOLEAN /\ plugin \in BOOLEAN /\ registered \in {FALSE, plugin}
    /\ mode \in BOOLEAN
    /\ manager = TRUE /\ connecting = FALSE /\ connectArg = FALSE
    /\ pc = [t \in Threads |-> "idle"]
    /\ arg = [t \in Threads |-> FALSE] /\ old = [t \in Threads |-> FALSE]
    /\ calls = 0
    /\ raced = FALSE /\ missed = (mode # deviceMode)

Call == calls < MaxCalls /\ calls' = calls + 1

Goto(t, p) == pc' = [pc EXCEPT ![t] = p]

Step(t, from, to) == pc[t] = from /\ Goto(t, to)

\* Someone holds a copy of the mode that has yet to arrive at gdial or to be
\* written back.
Held == connecting \/ \E t \in Threads : pc[t] \in {"tell", "store"}

-----------------------------------------------------------------------------
(* The notification and its worker. *)

\* Mutant: the worker is started and the mode left to it.
OnNetworkStandbyModeChanged_NoAssignment(t) ==
    /\ Call /\ Step(t, "idle", "read") /\ registered /\ plugin
    /\ deviceMode' = ~deviceMode
    /\ UNCHANGED <<managerVars, plugin, registered, modeVars, manager, timerVars, arg, old>>

OnNetworkStandbyModeChanged(t) ==
    /\ Call /\ Step(t, "idle", "read") /\ registered /\ plugin
    /\ deviceMode' = ~deviceMode
    /\ mode' = deviceMode'
    /\ missed' = FALSE /\ raced' = Held
    /\ UNCHANGED <<managerVars, plugin, registered, manager, timerVars, arg, old>>

UnheardModeChange ==
    /\ Call /\ ~(registered /\ plugin)
    /\ deviceMode' = ~deviceMode
    /\ missed' = TRUE
    /\ UNCHANGED <<managerVars, plugin, registered, mode, raced, manager, timerVars,
                   pc, arg, old>>

\* networkStandbyModeChangeEvent, and the tail of SetEnabled, pass the mode by value.
ReadMode(t) ==
    /\ Step(t, "read", IF manager THEN "tell" ELSE "idle")
    /\ arg' = [arg EXCEPT ![t] = manager /\ mode]
    /\ UNCHANGED <<managerVars, powerVars, modeVars, manager, timerVars, old, calls>>

\* SetNetworkStandbyMode: first the manager ...
TellManager(t) ==
    /\ Step(t, "tell", "store")
    /\ IF manager THEN setNetworkStandbyMode(arg[t]) ELSE UNCHANGED managerVars
    /\ UNCHANGED <<powerVars, modeVars, manager, timerVars, arg, old, calls>>

\* ... then the argument is written back.  (A local is reset where its scope ends.)
StoreMode(t) ==
    /\ Step(t, "store", "idle")
    /\ mode' = arg[t]
    /\ arg' = [arg EXCEPT ![t] = FALSE]
    /\ UNCHANGED <<managerVars, powerVars, raced, missed, manager, timerVars, old, calls>>

-----------------------------------------------------------------------------
(* SetEnabled. *)

SetEnabled(t) ==
    /\ Call
    /\ \E enabled \in BOOLEAN :
          Step(t, "idle", IF enabled /\ ~registered THEN "poll" ELSE "compare")
    /\ old' = [old EXCEPT ![t] = mode]
    /\ UNCHANGED <<managerVars, powerVars, modeVars, manager, timerVars, arg>>

\* checkPowerAndNetworkStandbyStates, whose question may fail.
PollPowerManager(t) ==
    /\ Step(t, "poll", "register")
    /\ \/ /\ plugin
          /\ mode' = deviceMode
          /\ missed' = FALSE
          /\ raced' = IF mode = deviceMode THEN raced ELSE Held \/ old[t] # mode
       \/ UNCHANGED modeVars
    /\ UNCHANGED <<managerVars, powerVars, manager, timerVars, arg, old, calls>>

\* The device's mode may have changed since the poll.
registerPowerEventHandlers(t) ==
    /\ Step(t, "register", "compare")
    /\ registered' \in {registered, registered \/ plugin}
    /\ UNCHANGED <<managerVars, deviceMode, plugin, modeVars, manager, timerVars,
                   arg, old, calls>>

\* Mutant: a poll that changed the mode does not reach gdial.
CompareMode_NeverTells(t) ==
    /\ Step(t, "compare", "idle")
    /\ UNCHANGED <<managerVars, powerVars, modeVars, manager, timerVars, arg, old, calls>>

CompareMode(t) ==
    /\ Step(t, "compare", IF old[t] # mode THEN "read" ELSE "idle")
    /\ old' = [old EXCEPT ![t] = FALSE]
    /\ UNCHANGED <<managerVars, powerVars, modeVars, manager, timerVars, arg, calls>>

-----------------------------------------------------------------------------
(* The instances and the restart. *)

\* connectToGDialService reads the mode before initialize takes the manager's lock.
BeginConnect ==
    /\ manager /\ ~connecting /\ gdialCastObj = None
    /\ connecting' = TRUE /\ connectArg' = mode
    /\ UNCHANGED <<managerVars, powerVars, modeVars, manager, pc, arg, old, calls>>

Connect ==
    /\ connecting
    /\ initialize(connectArg)
    /\ connecting' = FALSE /\ connectArg' = FALSE
    /\ UNCHANGED <<powerVars, modeVars, manager, pc, arg, old, calls>>

Disconnect ==
    /\ Call /\ ~connecting /\ gdialCastObj # None
    /\ deinitialize
    /\ UNCHANGED <<powerVars, modeVars, manager, timerVars, pc, arg, old>>

\* Deinitialize of the restart.
Shutdown ==
    /\ Call /\ manager /\ ~connecting
    /\ deinitialize
    /\ manager' = FALSE /\ plugin' = FALSE
    /\ registered' = (registered /\ ~plugin)
    /\ UNCHANGED <<deviceMode, modeVars, timerVars, pc, arg, old>>

\* Initialize(m_networkStandbyMode) assigns the mode to itself.
Reinitialize ==
    /\ ~manager /\ manager' = TRUE
    /\ UNCHANGED <<managerVars, powerVars, modeVars, timerVars, pc, arg, old, calls>>

SetName ==
    /\ Call /\ manager
    /\ \E name \in MaybeName : setModelName(name) \/ setManufacturerName(name)
    /\ UNCHANGED <<powerVars, modeVars, manager, timerVars, pc, arg, old>>

PlatformStep ==
    /\ Call /\ PlatformChanges
    /\ UNCHANGED <<powerVars, modeVars, manager, timerVars, pc, arg, old>>

-----------------------------------------------------------------------------
Next ==
    \/ \E t \in Threads :
          \/ OnNetworkStandbyModeChanged(t) \/ ReadMode(t) \/ TellManager(t)
          \/ StoreMode(t) \/ SetEnabled(t) \/ PollPowerManager(t)
          \/ registerPowerEventHandlers(t) \/ CompareMode(t)
    \/ UnheardModeChange \/ BeginConnect \/ Connect \/ Disconnect
    \/ Shutdown \/ Reinitialize \/ SetName \/ PlatformStep

Spec == Init /\ [][Next]_vars

-----------------------------------------------------------------------------
(* Properties. *)

Quiet == ~connecting /\ \A t \in Threads : pc[t] = "idle"

\* Once all is quiet the implementation has the device's mode, unless the device
\* changed it unheard, or the last change fell while a copy of an older one was in
\* use: only then does a worker's write-back undo a newer notification.
ModeFollowsDevice == Quiet /\ ~raced /\ ~missed => mode = deviceMode

\* Once all is quiet an instance made with the wake feature has the
\* implementation's mode, however its creation, the workers and the restarts fell,
\* unless the last change of the mode fell while a copy of an older one was in use
\* (SetEnabled's own, too: it compares, and tells nothing if the mode is back).
GdialFollowsMode ==
    Quiet /\ ~raced /\ gdialCastObj # None =>
        (gdialCastObj.wolwake => gdialCastObj.standby = mode)
=============================================================================
