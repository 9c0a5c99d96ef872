----------------------------- MODULE LocateCast -----------------------------
(***************************************************************************)
(* The supervisor that keeps a gdial service instance on the network: the  *)
(* locate-cast timer, which retries until an interface and a gdial         *)
(* instance are available (onLocateCastTimer, XCastManager::initialize),   *)
(* and the NetworkManager notifications, which tear the instance down and  *)
(* start the timer again (updateNWConnectivityStatus).                     *)
(*                                                                         *)
(* One incarnation of the implementation is modelled, from Initialize on.  *)
(* The static m_activeInterfaceName outlives an incarnation, so Init lets  *)
(* it hold any earlier value.  Two threads act: the timer's thread, whose  *)
(* position in the callback is cb, and the thread that delivers the        *)
(* NetworkManager's notifications one at a time, whose position is nm.     *)
(***************************************************************************)
EXTENDS Naturals, Sequences

CONSTANT MaxChurn  \* bound on the environment's changes and spurious events

ASSUME ChurnAssumption == MaxChurn \in Nat

NoIface    == ""
MaybeIface == {"wlan0", "eth0", "ppp0", ""}
Types      == {"WIFI", "ETHERNET", ""}

Event == [kind : {"active", "address"}, iface : MaybeIface,
          ipv4Acquired : BOOLEAN, hasAddress : BOOLEAN]

VARIABLES
    (* the environment *)
    primary,       \* what GetPrimaryInterface answers, "" when it fails
    nmReady,       \* org.rdk.NetworkManager is active
    gdialReady,    \* gdialService::getInstance would succeed
    rfc,           \* the RFC XDial.Enable, read at every initialize
    churn,         \* environment changes so far
    events,        \* notifications the NetworkManager has sent
    (* the implementation *)
    nmHandle,      \* _networkManagerPlugin is held
    nmRegistered,  \* the NetworkManager accepted our notification sink
    timerActive,   \* m_locateCastTimer.isActive()
    cb,            \* the timer callback's position
    cbIface,       \* its local variable interface
    nm,            \* the notification thread's position
    nmEvent,       \* the notification it handles
    activeIf,      \* m_activeInterfaceName
    (* XCastManager and gdial *)
    gdial,         \* the -I interface of the gdial instance, "" if none
    declined,      \* the last initialize answered true because the RFC is off
    pushed         \* the instance has been told the cached enablement

envVars  == <<primary, nmReady, gdialReady, rfc, churn>>
nmVars   == <<nm, nmEvent>>
vars     == <<envVars, events, nmHandle, nmRegistered, timerActive, cb, cbIface,
              nmVars, activeIf, gdial, declined, pushed>>

CbPositions == {"idle", "query", "lookup", "connect", "record", "stop", "push"}
NmPositions == {"idle", "compare", "deinit", "start"}

TypeOK ==
    /\ primary \in MaybeIface
    /\ nmReady \in BOOLEAN
    /\ gdialReady \in BOOLEAN
    /\ rfc \in BOOLEAN
    /\ churn \in 0..MaxChurn
    /\ events \in Seq(Event)
    /\ nmHandle \in BOOLEAN
    /\ nmRegistered \in BOOLEAN
    /\ timerActive \in BOOLEAN
    /\ cb \in CbPositions
    /\ cbIface \in MaybeIface
    /\ nm \in NmPositions
    /\ nmEvent \in Event
    /\ activeIf \in Types
    /\ gdial \in MaybeIface
    /\ declined \in BOOLEAN
    /\ pushed \in BOOLEAN

-----------------------------------------------------------------------------
getInterfaceNameToType(i) ==
    CASE i = "wlan0" -> "WIFI"
      [] i = "eth0"  -> "ETHERNET"
      [] OTHER       -> ""

NullEvent == [kind |-> "active", iface |-> NoIface,
              ipv4Acquired |-> FALSE, hasAddress |-> FALSE]

\* Initialize() has just called startTimer.
Init ==
    /\ primary \in MaybeIface
    /\ nmReady \in BOOLEAN
    /\ gdialReady \in BOOLEAN
    /\ rfc \in BOOLEAN
    /\ churn = 0
    /\ events = <<>>
    /\ nmHandle = FALSE
    /\ nmRegistered = FALSE
    /\ timerActive = TRUE
    /\ cb = "idle"
    /\ cbIface = NoIface
    /\ nm = "idle"
    /\ nmEvent = NullEvent
    /\ activeIf \in Types
    /\ gdial = NoIface
    /\ declined = FALSE
    /\ pushed = FALSE

-----------------------------------------------------------------------------
(* The environment. *)

\* A notification reaches us only if the sink is registered.
Notify(e) == events' = IF nmRegistered THEN Append(events, e) ELSE events

EnvChange == churn < MaxChurn /\ churn' = churn + 1

implVars == <<nmHandle, nmRegistered, timerActive, cb, cbIface, nmVars,
              activeIf, gdial, declined, pushed>>

PrimaryChanges ==
    /\ EnvChange
    /\ \E i \in MaybeIface \ {primary} :
          /\ primary' = i
          /\ Notify([NullEvent EXCEPT !.iface = i])
    /\ UNCHANGED <<nmReady, gdialReady, rfc, implVars>>

AddressReport ==
    /\ EnvChange
    /\ \E e \in Event : e.kind = "address" /\ e.iface # NoIface /\ Notify(e)
    /\ UNCHANGED <<primary, nmReady, gdialReady, rfc, implVars>>

PlatformChanges ==
    /\ EnvChange
    /\ \/ ~nmReady /\ nmReady' = TRUE /\ UNCHANGED <<gdialReady, rfc>>
       \/ gdialReady' = ~gdialReady /\ UNCHANGED <<nmReady, rfc>>
       \/ rfc' = ~rfc /\ UNCHANGED <<nmReady, gdialReady>>
    /\ UNCHANGED <<primary, events, implVars>>

-----------------------------------------------------------------------------
(* The timer's thread: onLocateCastTimer.  TpTimer repeats until stopped,  *)
(* so a callback that returns with the timer active is a retry.            *)

cbRest == <<envVars, events, nmVars>>

TimerFires ==
    /\ cb = "idle"
    /\ timerActive
    /\ cb' = "query"
    /\ UNCHANGED <<cbRest, nmHandle, nmRegistered, timerActive, cbIface,
                   activeIf, gdial, declined, pushed>>

\* InitializeNetworkManager; a failed Register is only logged.
QueryNetworkManager ==
    /\ cb = "query"
    /\ \/ /\ ~nmHandle /\ nmReady
          /\ nmHandle' = TRUE
          /\ nmRegistered' \in BOOLEAN
          /\ cb' = "lookup"
       \/ /\ nmHandle
          /\ cb' = "lookup"
          /\ UNCHANGED <<nmHandle, nmRegistered>>
       \/ /\ ~nmHandle /\ ~nmReady
          /\ cb' = "idle"
          /\ UNCHANGED <<nmHandle, nmRegistered>>
    /\ UNCHANGED <<cbRest, timerActive, cbIface, activeIf, gdial, declined, pushed>>

\* Mutant: without a primary interface the callback gives up.
LookUpInterface_GivesUp ==
    /\ cb = "lookup"
    /\ cbIface' = primary
    /\ cb' = IF primary = NoIface THEN "idle" ELSE "connect"
    /\ timerActive' = (primary # NoIface)
    /\ UNCHANGED <<cbRest, nmHandle, nmRegistered, activeIf, gdial, declined,
                   pushed>>

LookUpInterface ==
    /\ cb = "lookup"
    /\ cbIface' = primary
    /\ cb' = IF primary = NoIface THEN "idle" ELSE "connect"
    /\ UNCHANGED <<cbRest, nmHandle, nmRegistered, timerActive, activeIf, gdial,
                   declined, pushed>>

\* Mutant: the result of getInstance is ignored.
Connect_IgnoresFailure ==
    /\ cb = "connect"
    /\ declined' = (~rfc /\ gdial = NoIface)
    /\ gdial' = IF rfc /\ gdial = NoIface /\ gdialReady THEN cbIface ELSE gdial
    /\ pushed' = (pushed /\ gdial' = gdial)
    /\ cb' = "record"
    /\ UNCHANGED <<cbRest, nmHandle, nmRegistered, timerActive, cbIface, activeIf>>

\* Mutant: the RFC is not asked.
Connect_NoRfc ==
    /\ cb = "connect"
    /\ \/ /\ gdialReady \/ gdial # NoIface
          /\ gdial' = IF gdial = NoIface THEN cbIface ELSE gdial
          /\ cb' = "record"
          /\ UNCHANGED cbIface
       \/ /\ ~gdialReady /\ gdial = NoIface
          /\ cb' = "idle"
          /\ cbIface' = NoIface
          /\ UNCHANGED gdial
    /\ UNCHANGED <<cbRest, nmHandle, nmRegistered, timerActive, activeIf, declined,
                   pushed>>

\* XCastManager::initialize: an existing instance is kept with its
\* arguments, and a disabled RFC answers true without an instance.
Connect ==
    /\ cb = "connect"
    /\ declined' = (~rfc /\ gdial = NoIface)
    /\ \/ /\ rfc /\ gdial = NoIface /\ gdialReady
          /\ gdial' = cbIface
          /\ pushed' = FALSE
          /\ cb' = "record"
          /\ UNCHANGED cbIface
       \/ /\ rfc /\ gdial = NoIface /\ ~gdialReady
          /\ cb' = "idle"
          /\ cbIface' = NoIface
          /\ UNCHANGED <<gdial, pushed>>
       \/ /\ ~rfc \/ gdial # NoIface
          /\ cb' = "record"
          /\ UNCHANGED <<cbIface, gdial, pushed>>
    /\ UNCHANGED <<cbRest, nmHandle, nmRegistered, timerActive, activeIf>>

\* Mutant: the interface's name is recorded, not its type.
RecordInterface_Name ==
    /\ cb = "record"
    /\ activeIf' = cbIface
    /\ cb' = "stop"
    /\ cbIface' = NoIface
    /\ UNCHANGED <<cbRest, nmHandle, nmRegistered, timerActive, gdial,
                   declined, pushed>>

RecordInterface ==
    /\ cb = "record"
    /\ activeIf' = getInterfaceNameToType(cbIface)
    /\ cb' = "stop"
    /\ cbIface' = NoIface
    /\ UNCHANGED <<cbRest, nmHandle, nmRegistered, timerActive, gdial,
                   declined, pushed>>

stopTimer ==
    /\ cb = "stop"
    /\ timerActive' = FALSE
    /\ cb' = "push"
    /\ UNCHANGED <<cbRest, nmHandle, nmRegistered, cbIface, activeIf, gdial,
                   declined, pushed>>

\* Mutant: an early return when a notification has restarted the timer, tested
\* the wrong way round.
PushCachedState_OnlyIfActive ==
    /\ cb = "push"
    /\ pushed' = (timerActive /\ gdial # NoIface)
    /\ cb' = "idle"
    /\ UNCHANGED <<cbRest, nmHandle, nmRegistered, timerActive, cbIface,
                   activeIf, gdial, declined>>

\* The cached registrations and enablement, outside m_TimerMutexSync.
PushCachedState ==
    /\ cb = "push"
    /\ pushed' = (gdial # NoIface)
    /\ cb' = "idle"
    /\ UNCHANGED <<cbRest, nmHandle, nmRegistered, timerActive, cbIface,
                   activeIf, gdial, declined>>

TimerThread == TimerFires \/ QueryNetworkManager \/ LookUpInterface \/ Connect
               \/ RecordInterface \/ stopTimer \/ PushCachedState

-----------------------------------------------------------------------------
(* The NetworkManager's thread: onActiveInterfaceChange, onIPAddressChange *)
(* and, for both, updateNWConnectivityStatus.                              *)

\* The event reaches updateNWConnectivityStatus with nwConnected TRUE.
Connected(e) == e.kind = "active" \/ (e.ipv4Acquired /\ e.hasAddress)

\* Its local variable status.
Usable(e) == Connected(e) /\ getInterfaceNameToType(e.iface) \in {"ETHERNET", "WIFI"}

nmRest == <<envVars, nmHandle, nmRegistered, cb, cbIface, activeIf, declined>>

\* Mutant: no test of isActive().
Deliver_NoTimerTest ==
    /\ nm = "idle"
    /\ events # <<>>
    /\ events' = Tail(events)
    /\ \/ /\ Usable(Head(events))
          /\ nm' = "compare"
          /\ nmEvent' = Head(events)
       \/ /\ ~Usable(Head(events))
          /\ UNCHANGED nmVars
    /\ UNCHANGED <<nmRest, timerActive, gdial, pushed>>

Deliver ==
    /\ nm = "idle"
    /\ events # <<>>
    /\ events' = Tail(events)
    /\ \/ /\ ~timerActive /\ Usable(Head(events))
          /\ nm' = "compare"
          /\ nmEvent' = Head(events)
       \/ /\ timerActive \/ ~Usable(Head(events))
          /\ UNCHANGED nmVars
    /\ UNCHANGED <<nmRest, timerActive, gdial, pushed>>

CompareInterface ==
    /\ nm = "compare"
    /\ nm' = IF \/ getInterfaceNameToType(nmEvent.iface) # activeIf
                \/ nmEvent.kind = "address"
             THEN "deinit" ELSE "idle"
    /\ nmEvent' = NullEvent
    /\ UNCHANGED <<nmRest, events, timerActive, gdial, pushed>>

\* Mutant: the instance is not destroyed before the timer restarts.
StopGDialService_KeepsInstance ==
    /\ nm = "deinit"
    /\ nm' = "start"
    /\ UNCHANGED <<nmRest, nmEvent, events, timerActive, gdial, pushed>>

StopGDialService ==
    /\ nm = "deinit"
    /\ gdial' = NoIface
    /\ pushed' = FALSE
    /\ nm' = "start"
    /\ UNCHANGED <<nmRest, nmEvent, events, timerActive>>

startTimer ==
    /\ nm = "start"
    /\ timerActive' = TRUE
    /\ nm' = "idle"
    /\ UNCHANGED <<nmRest, nmEvent, events, gdial, pushed>>

NotificationThread == Deliver \/ CompareInterface \/ StopGDialService \/ startTimer

-----------------------------------------------------------------------------
Environment == PrimaryChanges \/ AddressReport \/ PlatformChanges

Next == Environment \/ TimerThread \/ NotificationThread

Spec == Init /\ [][Next]_vars

\* Both threads are scheduled; nothing obliges the environment to act.
FairSpec == Spec /\ WF_vars(TimerThread) /\ WF_vars(NotificationThread)

-----------------------------------------------------------------------------
(* Properties. *)

\* A notification is acted on only while the timer is stopped and the timer's
\* callback is past stopTimer: the test of isActive() at the head of
\* updateNWConnectivityStatus excludes the two threads from each other with
\* no lock between them.
HandlerExcludesTimer ==
    nm \in {"compare", "deinit", "start"} => ~timerActive /\ cb \in {"idle", "push"}

\* The -I argument of the running gdial instance is the interface that
\* m_activeInterfaceName names: the comparison updateNWConnectivityStatus makes
\* against that name is a comparison against what gdial really uses.  (While
\* the callback is between initialize and the assignment, it is about to be.)
BoundMatchesActive ==
    gdial # NoIface =>
        \/ activeIf = getInterfaceNameToType(gdial)
        \/ cb = "record" /\ cbIface = gdial

\* Connecting is never given up: when neither thread is in the middle of its
\* work, either an instance runs or the timer will try again, except after an
\* initialize that the disabled RFC made answer true.
ConnectedOrTrying ==
    cb = "idle" /\ nm = "idle" => gdial # NoIface \/ timerActive \/ declined

\* Every instance gets the cached enablement replayed, including the one made
\* after a notification destroyed its predecessor in the middle of a replay.
Replayed ==
    gdial # NoIface /\ ~timerActive /\ cb = "idle" => pushed

\* Unless the RFC declined a connection, once the platform and the network stay
\* up, the retries and the teardowns end
\* with a running instance that has been told the cached enablement.
Reconnects ==
    []~declined /\ <>[](nmReady /\ gdialReady /\ rfc /\ primary # NoIface)
        => <>[](gdial # NoIface /\ pushed)

\* The mapping to GdialLink: an instance is being sought from the moment there is
\* none until one is made or the RFC declines.
Phase ==
    CASE gdial # NoIface -> "serving"
      [] gdial = NoIface /\ declined
         /\ (cb \in {"record", "stop"} \/ (~timerActive /\ nm # "start")) -> "declined"
      [] OTHER -> "seeking"

Available == nmReady /\ gdialReady /\ primary # NoIface

Link == INSTANCE GdialLink
        WITH phase <- Phase, informed <- pushed, allowed <- rfc, available <- Available

\* The two threads implement the abstract link: nothing they do between one
\* another's steps makes a second instance, loses one, or leaves a new instance
\* with the replay that its predecessor got.
LinkPromise == Link!Spec

\* And its progress: the retries of the timer end in an instance as soon as one
\* can be made and stays possible, and in its replay.
LinkProgress == Link!Progress

\* The claim "Automatic reconnection and session recovery after network
\* interruptions" (PRODUCT.md): once the network is stable and the
\* notifications are registered, gdial ends up on the primary interface when
\* that is one the program knows.
FollowsPrimary ==
    \A i \in {"wlan0", "eth0"} :
        []rfc /\ <>[](nmReady /\ gdialReady /\ nmRegistered /\ primary = i)
            => <>[](gdial = i)
=============================================================================
