-------------------------- MODULE LocateCast_proofs --------------------------
(***************************************************************************)
(* Proofs that the safety properties of LocateCast hold whatever the       *)
(* environment does.  The two threads share no lock: what keeps them apart *)
(* is that the timer is active exactly while the callback may still be     *)
(* before stopTimer, and that a handler gets past its first test only when *)
(* it is not.  IInv states that division of the instance's ownership.      *)
(***************************************************************************)
EXTENDS LocateCast, TLAPS

\* The positions of the callback in which it owns the instance.
Connecting == {"query", "lookup", "connect", "record", "stop"}

\* The callback is before stopTimer only while the timer is active.
ConnectingIsActive == cb \in Connecting => timerActive

\* With the timer active an instance exists only between its creation and
\* stopTimer, and a handler about to start the timer has destroyed it.
NoInstanceYet ==
    /\ timerActive /\ cb \notin {"record", "stop"} => gdial = NoIface
    /\ nm = "start" => gdial = NoIface
    /\ pushed => gdial # NoIface

\* What initialize has established at each later position of the callback.
Established ==
    /\ cb \in {"connect", "record"} => cbIface # NoIface
    /\ cb = "record" => gdial = cbIface \/ (gdial = NoIface /\ declined)
    /\ cb = "stop" => gdial # NoIface \/ declined

\* A stopped timer is explained by an instance, a handler or the RFC.
StoppedForAReason == ~timerActive => gdial # NoIface \/ declined \/ nm = "start"

IInv ==
    /\ TypeOK
    /\ HandlerExcludesTimer
    /\ ConnectingIsActive
    /\ NoInstanceYet
    /\ Established
    /\ StoppedForAReason
    /\ BoundMatchesActive
    /\ Replayed

\* The members of the enumerated sets, so that the steps need not expand them.
LEMMA Members ==
    /\ NullEvent \in Event
    /\ NoIface \in MaybeIface
    /\ {"idle", "query", "lookup", "connect", "record", "stop", "push"}
           \subseteq CbPositions
    /\ {"idle", "compare", "deinit", "start"} \subseteq NmPositions
    /\ \A i \in MaybeIface : getInterfaceNameToType(i) \in Types
BY DEF NullEvent, Event, MaybeIface, NoIface, CbPositions, NmPositions, Types,
       getInterfaceNameToType

\* TypeOK is inductive.
LEMMA TypeStep == TypeOK /\ [Next]_vars => TypeOK'
<1> USE DEF TypeOK
<1>1. ASSUME NEW e \in Event
      PROVE  TypeOK /\ Notify(e) => events' \in Seq(Event)
  BY DEF Notify
<1>2. TypeOK /\ PrimaryChanges => TypeOK'
  <2>1. ASSUME NEW i \in MaybeIface
        PROVE  [NullEvent EXCEPT !.iface = i] \in Event
    BY DEF NullEvent, Event
  <2>2. TypeOK /\ PrimaryChanges => events' \in Seq(Event)
    BY <1>1, <2>1 DEF PrimaryChanges
  <2>. QED
    BY <2>2, ChurnAssumption DEF PrimaryChanges, EnvChange, implVars, nmVars
<1>3. TypeOK /\ AddressReport => TypeOK'
  <2>1. TypeOK /\ AddressReport => events' \in Seq(Event)
    BY <1>1 DEF AddressReport
  <2>. QED
    BY <2>1, ChurnAssumption DEF AddressReport, EnvChange, implVars, nmVars
<1>4. TypeOK /\ PlatformChanges => TypeOK'
  <2>1. TypeOK /\ EnvChange => churn' \in 0..MaxChurn
    BY ChurnAssumption DEF EnvChange
  <2>2. TypeOK /\ PlatformChanges => {nmReady', gdialReady', rfc'} \subseteq BOOLEAN
    BY Zenon DEF PlatformChanges
  <2>. QED
    BY <2>1, <2>2 DEF PlatformChanges, implVars, nmVars
<1>5. TypeOK /\ TimerFires => TypeOK'
  BY Members DEF TimerFires, cbRest, envVars, nmVars
<1>6. TypeOK /\ QueryNetworkManager => TypeOK'
  BY Members DEF QueryNetworkManager, cbRest, envVars, nmVars
<1>7. TypeOK /\ LookUpInterface => TypeOK'
  BY Members DEF LookUpInterface, cbRest, envVars, nmVars
<1>8. TypeOK /\ Connect => TypeOK'
  BY Members DEF Connect, cbRest, envVars, nmVars
<1>9. TypeOK /\ RecordInterface => TypeOK'
  BY Members DEF RecordInterface, cbRest, envVars, nmVars
<1>10. TypeOK /\ stopTimer => TypeOK'
  BY Members DEF stopTimer, cbRest, envVars, nmVars
<1>11. TypeOK /\ PushCachedState => TypeOK'
  BY Members DEF PushCachedState, cbRest, envVars, nmVars
<1>12. TypeOK /\ Deliver => TypeOK'
  BY Members DEF Deliver, nmRest, envVars, nmVars
<1>13. TypeOK /\ CompareInterface => TypeOK'
  BY Members DEF CompareInterface, nmRest, envVars
<1>14. TypeOK /\ StopGDialService => TypeOK'
  BY Members DEF StopGDialService, nmRest, envVars
<1>15. TypeOK /\ startTimer => TypeOK'
  BY Members DEF startTimer, nmRest, envVars
<1>16. TypeOK /\ UNCHANGED vars => TypeOK'
  BY Members DEF vars, envVars, nmVars
<1>. QED
  BY <1>2, <1>3, <1>4, <1>5, <1>6, <1>7, <1>8, <1>9, <1>10, <1>11, <1>12,
     <1>13, <1>14, <1>15, <1>16
  DEF Next, Environment, TimerThread, NotificationThread

LEMMA TypeInit == Init => TypeOK
<1>1. Init => churn \in 0..MaxChurn
  BY ChurnAssumption DEF Init
<1>2. Init => events \in Seq(Event)
  BY DEF Init
<1>. QED
  BY <1>1, <1>2, Members, Zenon DEF Init, TypeOK

\* The division of ownership is inductive.
LEMMA InvariantStep == IInv /\ [Next]_vars => IInv'
<1> DEFINE Rest == /\ HandlerExcludesTimer
                   /\ ConnectingIsActive
                   /\ NoInstanceYet
                   /\ Established
                   /\ StoppedForAReason
                   /\ BoundMatchesActive
                   /\ Replayed
<1> USE DEF HandlerExcludesTimer, ConnectingIsActive, NoInstanceYet, Established,
            StoppedForAReason, BoundMatchesActive, Replayed, Connecting
<1>1. TypeOK /\ Rest /\ PrimaryChanges => Rest'
  BY DEF PrimaryChanges, implVars, nmVars
<1>2. TypeOK /\ Rest /\ AddressReport => Rest'
  BY DEF AddressReport, implVars, nmVars
<1>3. TypeOK /\ Rest /\ PlatformChanges => Rest'
  BY DEF PlatformChanges, implVars, nmVars
<1>4. TypeOK /\ Rest /\ TimerFires => Rest'
  BY DEF TimerFires, cbRest, envVars, nmVars
<1>5. TypeOK /\ Rest /\ QueryNetworkManager => Rest'
  BY DEF QueryNetworkManager, cbRest, envVars, nmVars
<1>6. TypeOK /\ Rest /\ LookUpInterface => Rest'
  BY DEF LookUpInterface, cbRest, envVars, nmVars
<1>7. TypeOK /\ Rest /\ Connect => Rest'
  <2>1. Connect => (declined' <=> ~rfc /\ gdial = NoIface)
    BY Zenon DEF Connect
  <2>2. TypeOK /\ Rest /\ Connect => timerActive /\ nm = "idle" /\ gdial = NoIface
    BY DEF Connect, TypeOK, NmPositions
  <2>3. Connect => pushed' = pushed \/ pushed' = FALSE
    BY DEF Connect
  <2>. QED
    BY <2>1, <2>2, <2>3 DEF Connect, cbRest, envVars, nmVars
<1>8. TypeOK /\ Rest /\ RecordInterface => Rest'
  BY DEF RecordInterface, cbRest, envVars, nmVars
<1>9. TypeOK /\ Rest /\ stopTimer => Rest'
  BY DEF stopTimer, cbRest, envVars, nmVars
<1>10. TypeOK /\ Rest /\ PushCachedState => Rest'
  <2>1. PushCachedState => (pushed' <=> gdial' # NoIface)
    BY Zenon DEF PushCachedState
  <2>2. PushCachedState => /\ cb = "push" /\ cb' = "idle"
                           /\ UNCHANGED <<timerActive, nm, gdial, declined, activeIf>>
    BY DEF PushCachedState, cbRest, nmVars
  <2>. QED
    BY <2>1, <2>2
<1>11. TypeOK /\ Rest /\ Deliver => Rest'
  <2>1. TypeOK /\ Rest => timerActive \/ cb \in {"idle", "push"}
    BY DEF TypeOK, CbPositions
  <2>2. Deliver => /\ nm = "idle" /\ nm' \in {"idle", "compare"}
                   /\ UNCHANGED <<timerActive, gdial, pushed, cb, cbIface,
                                  activeIf, declined>>
    BY DEF Deliver, nmRest, nmVars
  <2>3. Deliver => nm' = "idle" \/ ~timerActive
    BY DEF Deliver, nmVars
  <2>. QED
    BY <2>1, <2>2, <2>3
<1>12. TypeOK /\ Rest /\ CompareInterface => Rest'
  BY DEF CompareInterface, nmRest, envVars, nmVars
<1>13. TypeOK /\ Rest /\ StopGDialService => Rest'
  BY DEF StopGDialService, nmRest, envVars, nmVars
<1>14. TypeOK /\ Rest /\ startTimer => Rest'
  BY DEF startTimer, nmRest, envVars, nmVars
<1>15. TypeOK /\ Rest /\ UNCHANGED vars => Rest'
  BY DEF vars, envVars, nmVars
<1>. QED
  BY TypeStep, <1>1, <1>2, <1>3, <1>4, <1>5, <1>6, <1>7, <1>8, <1>9, <1>10, <1>11,
     <1>12, <1>13, <1>14, <1>15
  DEF IInv, Next, Environment, TimerThread, NotificationThread

LEMMA InvariantInit == Init => IInv
BY TypeInit DEF Init, IInv, HandlerExcludesTimer, ConnectingIsActive, NoInstanceYet,
   Established, StoppedForAReason, BoundMatchesActive, Replayed, Connecting

LEMMA Invariance == Spec => []IInv
BY InvariantInit, InvariantStep, PTL DEF Spec

\* Every variable keeps its type, for every bound on the environment.
THEOREM TypeCorrect == Spec => []TypeOK
BY TypeInit, TypeStep, PTL DEF Spec

\* The test of isActive() alone keeps the notification thread's teardown and the
\* timer callback's connection apart.
THEOREM Exclusion == Spec => []HandlerExcludesTimer
BY Invariance, PTL DEF IInv

\* m_activeInterfaceName always names the type of the interface that the running
\* instance was started on.
THEOREM Binding == Spec => []BoundMatchesActive
BY Invariance, PTL DEF IInv

\* The supervisor never stops without an instance, except when the RFC declined.
THEOREM NeverGivesUp == Spec => []ConnectedOrTrying
<1>1. IInv => ConnectedOrTrying
  BY DEF IInv, StoppedForAReason, ConnectedOrTrying
<1>. QED
  BY <1>1, Invariance, PTL

\* No instance is left without the cached enablement.
THEOREM ReplayIsComplete == Spec => []Replayed
BY Invariance, PTL DEF IInv
-----------------------------------------------------------------------------
(* LocateCast implements GdialLink. *)

\* The abstract variables that a step of one of the threads leaves alone.
LEMMA EnvironmentKept ==
    TimerThread \/ NotificationThread => UNCHANGED <<rfc, Available>>
BY DEF TimerThread, NotificationThread, TimerFires, QueryNetworkManager,
       LookUpInterface, Connect, RecordInterface, stopTimer, PushCachedState, Deliver,
       CompareInterface, StopGDialService, startTimer, cbRest, nmRest, envVars, Available

\* Every step is one of the abstract link's, or changes nothing of it.
LEMMA LinkStep == IInv /\ [Next]_vars => [Link!Next]_(Link!vars)
<1> SUFFICES ASSUME IInv, [Next]_vars PROVE [Link!Next]_(Link!vars)
  OBVIOUS
<1> USE DEF Link!Next, Link!vars, Link!env, Link!link
<1>1. /\ NoInstanceYet /\ HandlerExcludesTimer /\ Established /\ ConnectingIsActive
      /\ StoppedForAReason
      /\ cb \in CbPositions /\ nm \in NmPositions
  BY DEF IInv, TypeOK
<1>2. CASE Environment
  <2>1. UNCHANGED <<gdial, declined, cb, timerActive, nm, pushed>>
    BY <1>2 DEF Environment, PrimaryChanges, AddressReport, PlatformChanges, implVars,
                nmVars
  <2>. QED
    BY <2>1 DEF Phase, Link!EnvironmentStep
<1>3. CASE TimerThread
  <2>1. UNCHANGED Link!env
    BY <1>3, EnvironmentKept
  <2>2. CASE TimerFires \/ QueryNetworkManager \/ LookUpInterface
    <3>1. /\ UNCHANGED <<gdial, declined, nm, pushed, timerActive>>
          /\ cb \in {"idle", "query", "lookup"}
          /\ cb' \in {"idle", "query", "lookup", "connect"}
          /\ timerActive
      BY <1>1, <2>2 DEF TimerFires, QueryNetworkManager, LookUpInterface, cbRest, nmVars,
                        ConnectingIsActive, Connecting
    <3>. QED
      BY <3>1 DEF Phase, Link!EnvironmentStep
  <2>3. CASE Connect
    <3>1. /\ gdial = NoIface /\ ~pushed /\ timerActive /\ Phase = "seeking"
          /\ cbIface # NoIface /\ timerActive'
      BY <1>1, <2>3 DEF Connect, NoInstanceYet, Established, ConnectingIsActive,
                        Connecting, Phase
    <3>2. CASE rfc /\ gdialReady
      <4>1. gdial' = cbIface /\ pushed' = FALSE
        BY <2>3, <3>1, <3>2 DEF Connect
      <4>. QED
        BY <2>1, <3>1, <3>2, <4>1 DEF Phase, Link!Create
    <3>3. CASE rfc /\ ~gdialReady
      <4>1. gdial' = gdial /\ pushed' = pushed /\ cb' = "idle"
        BY <2>3, <3>1, <3>3 DEF Connect
      <4>. QED
        BY <3>1, <4>1 DEF Phase, Link!EnvironmentStep
    <3>4. CASE ~rfc
      <4>1. declined' /\ gdial' = gdial /\ pushed' = pushed /\ cb' = "record"
        BY <2>3, <3>1, <3>4 DEF Connect
      <4>. QED
        BY <2>1, <3>1, <3>4, <4>1 DEF Phase, Link!Decline
    <3>. QED
      BY <3>2, <3>3, <3>4
  <2>4. CASE RecordInterface \/ stopTimer
    <3>1. /\ UNCHANGED <<gdial, declined, nm, pushed>> /\ nm # "start"
          /\ cb \in {"record", "stop"} /\ (gdial # NoIface \/ declined)
          /\ (cb' = "stop" \/ (cb' = "push" /\ ~timerActive'))
      BY <1>1, <2>4 DEF RecordInterface, stopTimer, cbRest, nmVars, Established,
                        HandlerExcludesTimer, NmPositions
    <3>. QED
      BY <3>1 DEF Phase, Link!EnvironmentStep
  <2>5. CASE PushCachedState
    <3>1. /\ UNCHANGED <<gdial, declined, nm, timerActive>>
          /\ cb = "push" /\ cb' = "idle" /\ pushed' = (gdial # NoIface)
      BY <2>5 DEF PushCachedState, cbRest, nmVars
    <3>2. Phase' = Phase
      BY <3>1 DEF Phase
    <3>3. CASE gdial # NoIface
      <4>1. pushed' = TRUE /\ Phase = "serving"
        BY <3>1, <3>3 DEF Phase
      <4>. QED
        BY <2>1, <3>2, <4>1 DEF Link!Inform
    <3>4. CASE gdial = NoIface
      <4>1. pushed' = FALSE /\ pushed # TRUE
        BY <1>1, <3>1, <3>4 DEF NoInstanceYet
      <4>2. pushed = FALSE
        BY <4>1 DEF IInv, TypeOK
      <4>. QED
        BY <3>2, <4>1, <4>2 DEF Link!EnvironmentStep
    <3>. QED
      BY <3>3, <3>4
  <2>. QED
    BY <1>3, <2>2, <2>3, <2>4, <2>5 DEF TimerThread
<1>4. CASE NotificationThread
  <2>1. UNCHANGED Link!env
    BY <1>4, EnvironmentKept
  <2>2. CASE Deliver \/ CompareInterface
    <3>1. /\ UNCHANGED <<gdial, declined, cb, pushed, timerActive>>
          /\ nm # "start" /\ nm' # "start"
      BY <2>2 DEF Deliver, CompareInterface, nmRest, nmVars
    <3>. QED
      BY <3>1 DEF Phase, Link!EnvironmentStep
  <2>3. CASE StopGDialService
    <3>1. /\ UNCHANGED <<declined, cb, timerActive>> /\ nm = "deinit"
          /\ nm' = "start" /\ gdial' = NoIface /\ pushed' = FALSE
      BY <2>3 DEF StopGDialService, nmRest
    <3>2. Phase' = "seeking"
      BY <1>1, <3>1 DEF Phase, HandlerExcludesTimer
    <3>3. Phase \in {"serving", "declined"}
      BY <1>1, <3>1 DEF Phase, HandlerExcludesTimer, StoppedForAReason
    <3>. QED
      BY <2>1, <3>1, <3>2, <3>3 DEF Link!Withdraw
  <2>4. CASE startTimer
    <3>1. /\ UNCHANGED <<gdial, declined, cb, pushed>> /\ nm = "start" /\ nm' = "idle"
          /\ timerActive' /\ gdial = NoIface /\ cb \in {"idle", "push"}
      BY <1>1, <2>4 DEF startTimer, nmRest, NoInstanceYet, HandlerExcludesTimer
    <3>. QED
      BY <3>1 DEF Phase, Link!EnvironmentStep
  <2>. QED
    BY <1>4, <2>2, <2>3, <2>4 DEF NotificationThread
<1>5. CASE UNCHANGED vars
  <2>1. UNCHANGED <<gdial, declined, cb, timerActive, nm, pushed>>
    BY <1>5 DEF vars, nmVars
  <2>. QED
    BY <2>1 DEF Phase, Link!EnvironmentStep
<1>. QED
  BY <1>2, <1>3, <1>4, <1>5 DEF Next

\* The timer and the notification thread, whose only bond is isActive(), keep the
\* promise of GdialLink.
THEOREM LinkIsImplemented == Spec => LinkPromise
<1>1. Init => Link!Init
  BY Zenon DEF Init, Link!Init, Link!env, Phase, Available, NoIface
<1>. QED
  BY <1>1, LinkStep, Invariance, PTL DEF Spec, LinkPromise, Link!Spec
=============================================================================
