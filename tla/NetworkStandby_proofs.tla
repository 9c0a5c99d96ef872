------------------------ MODULE NetworkStandby_proofs ------------------------
(***************************************************************************)
(* Proofs about the names, the identity and the network standby mode, for  *)
(* any threads, names and number of calls.  Two invariants carry them:     *)
(* ManagerInv is kept by every operation of XCastManager, whoever calls    *)
(* it; ModeInv says where a copy of the mode may be and who is about to    *)
(* tell gdial.                                                             *)
(***************************************************************************)
EXTENDS NetworkStandby, TLAPS

\* Every step of the composition is one of these for the manager.
ManagerStep ==
    \/ \E b \in BOOLEAN : \/ gdialCastObj = None /\ initialize(b)
                          \/ setNetworkStandbyMode(b)
    \/ \E name \in MaybeName : setModelName(name) \/ setManufacturerName(name)
    \/ deinitialize \/ PlatformChanges \/ UNCHANGED managerVars

InstanceInv ==
    gdialCastObj # None =>
        /\ gdialCastObj.uuid = m_uuid
        /\ gdialCastObj.model = m_modelName
        /\ gdialCastObj.manufacturer = m_manufacturerName
        /\ gdialCastObj.friendly = m_defaultfriendlyName
        /\ m_defaultfriendlyName # None

IdentityInv == identities \subseteq {m_uuid} \ {None}

\* A default name that no setter has overtaken is of the present names, and a
\* later initialize will find no other ones.
DefaultInv ==
    m_defaultfriendlyName # None /\ ~renamed =>
        /\ m_defaultfriendlyName = <<m_modelName, m_manufacturerName>>
        /\ m_modelName = OrElse(m_modelName, properties[1])
        /\ m_manufacturerName = OrElse(m_manufacturerName, properties[2])

ManagerInv == InstanceInv /\ IdentityInv /\ DefaultInv

-----------------------------------------------------------------------------
(* The manager's operations. *)

\* What initialize computes is of the right types.
LEMMA Arguments ==
    ASSUME ManagerTypeOK
    PROVE  /\ Identity \in MaybeId
           /\ OrElse(m_modelName, properties[1]) \in MaybeName
           /\ OrElse(m_manufacturerName, properties[2]) \in MaybeName
  BY ManagerAssumption DEF ManagerTypeOK, Identity, getReceiverID, OrElse, MaybeId,
                           MaybeName, Defaults

\* Every operation of the manager keeps the types.
LEMMA ManagerTypes ==
    ASSUME ManagerTypeOK, ManagerStep
    PROVE  ManagerTypeOK'
<1>1. ASSUME NEW b \in BOOLEAN, initialize(b)
      PROVE  ManagerTypeOK'
  <2> DEFINE model == OrElse(m_modelName, properties[1])
             maker == OrElse(m_manufacturerName, properties[2])
  <2>1. /\ Identity \in MaybeId /\ model \in MaybeName /\ maker \in MaybeName
    BY Arguments
  <2>2. DefaultName(model, maker) \in Defaults
    BY <2>1 DEF ManagerTypeOK, DefaultName, OrElse, Defaults
  <2>3. CASE UNCHANGED managerVars
    BY <2>3 DEF ManagerTypeOK, managerVars, platformVars, nameVars
  <2>4. CASE ~UNCHANGED managerVars
    <3>1. /\ m_uuid' = Identity /\ m_modelName' = model /\ m_manufacturerName' = maker
          /\ m_defaultfriendlyName' = DefaultName(model, maker)
          /\ UNCHANGED <<deviceIdFile, deviceInfo, properties, wolRfc, renamed>>
      BY <1>1, <2>4 DEF initialize, platformVars
    <3>2. gdialCastObj' \in Instance \cup {None} /\ identities' \subseteq Ids
      <4>1. CASE UNCHANGED <<gdialCastObj, identities>>
        BY <4>1 DEF ManagerTypeOK
      <4>2. CASE /\ gdialCastObj' =
                      [uuid |-> Identity, model |-> model, manufacturer |-> maker,
                       friendly |-> DefaultName(model, maker), wolwake |-> wolRfc,
                       standby |-> wolRfc /\ b]
                 /\ identities' = identities \cup ({Identity} \ {None})
        BY <4>2, <2>1, <2>2 DEF ManagerTypeOK, Instance, MaybeId
      <4> QED
        BY <1>1, <2>4, <4>1, <4>2 DEF initialize
    <3> QED
      BY <2>1, <2>2, <3>1, <3>2 DEF ManagerTypeOK
  <2> QED
    BY <2>3, <2>4
<1>2. ASSUME NEW b \in BOOLEAN, setNetworkStandbyMode(b)
      PROVE  ManagerTypeOK'
  BY <1>2 DEF setNetworkStandbyMode, Tell, ManagerTypeOK, Instance, platformVars, nameVars
<1>3. ASSUME NEW name \in MaybeName, setModelName(name)
      PROVE  ManagerTypeOK'
  BY <1>3 DEF setModelName, Tell, ManagerTypeOK, Instance, platformVars
<1>4. ASSUME NEW name \in MaybeName, setManufacturerName(name)
      PROVE  ManagerTypeOK'
  BY <1>4 DEF setManufacturerName, Tell, ManagerTypeOK, Instance, platformVars
<1>5. CASE deinitialize
  BY <1>5 DEF deinitialize, ManagerTypeOK, platformVars, nameVars
<1>6. CASE PlatformChanges
  BY <1>6 DEF PlatformChanges, ManagerTypeOK, nameVars
<1>7. CASE UNCHANGED managerVars
  BY <1>7 DEF ManagerTypeOK, managerVars, platformVars, nameVars
<1> QED
  BY <1>1, <1>2, <1>3, <1>4, <1>5, <1>6, <1>7 DEF ManagerStep

\* Every operation of the manager keeps its invariant.
LEMMA ManagerInvariant ==
    ASSUME ManagerTypeOK, ManagerInv, ManagerStep
    PROVE  ManagerInv'
<1>1. ASSUME NEW b \in BOOLEAN, gdialCastObj = None, initialize(b)
      PROVE  ManagerInv'
  <2> DEFINE model == OrElse(m_modelName, properties[1])
             maker == OrElse(m_manufacturerName, properties[2])
             default == DefaultName(model, maker)
  <2>1. CASE UNCHANGED managerVars
    BY <2>1 DEF ManagerInv, InstanceInv, IdentityInv, DefaultInv, managerVars,
                platformVars, nameVars
  <2>2. CASE ~UNCHANGED managerVars
    <3>1. /\ m_uuid' = Identity /\ m_modelName' = model /\ m_manufacturerName' = maker
          /\ m_defaultfriendlyName' = default
          /\ UNCHANGED <<deviceIdFile, deviceInfo, properties, wolRfc, renamed>>
          /\ \/ /\ gdialCastObj' =
                     [uuid |-> Identity, model |-> model, manufacturer |-> maker,
                      friendly |-> default, wolwake |-> wolRfc,
                      standby |-> wolRfc /\ b]
                /\ identities' = identities \cup ({Identity} \ {None})
             \/ UNCHANGED <<gdialCastObj, identities>>
      BY <1>1, <2>2 DEF initialize, platformVars
    <3>2. default # None
      BY Arguments, ManagerAssumption DEF DefaultName, OrElse, Defaults
    <3>3. m_uuid # None => Identity = m_uuid
      BY DEF Identity, OrElse
    <3>4. IdentityInv'
      BY <3>1, <3>3 DEF ManagerInv, IdentityInv
    <3>5. DefaultInv'
      BY <3>1 DEF ManagerInv, DefaultInv, DefaultName, OrElse
    <3>6. InstanceInv'
      <4>1. CASE UNCHANGED <<gdialCastObj, identities>>
        BY <1>1, <4>1 DEF InstanceInv
      <4>2. CASE gdialCastObj' =
                     [uuid |-> Identity, model |-> model, manufacturer |-> maker,
                      friendly |-> default, wolwake |-> wolRfc,
                      standby |-> wolRfc /\ b]
        BY <3>1, <3>2, <4>2 DEF InstanceInv
      <4> QED
        BY <3>1, <4>1, <4>2
    <3> QED
      BY <3>4, <3>5, <3>6 DEF ManagerInv
  <2> QED
    BY <2>1, <2>2
<1>2. ASSUME NEW b \in BOOLEAN, setNetworkStandbyMode(b)
      PROVE  ManagerInv'
  <2>1. gdialCastObj' = None \/ (gdialCastObj # None /\
              gdialCastObj' = [gdialCastObj EXCEPT !.standby = b])
    BY <1>2 DEF setNetworkStandbyMode, Tell
  <2>2. UNCHANGED <<properties, nameVars, identities, renamed>>
    BY <1>2 DEF setNetworkStandbyMode, platformVars
  <2> QED
    BY <2>1, <2>2 DEF ManagerInv, InstanceInv, IdentityInv, DefaultInv, nameVars,
                      ManagerTypeOK, Instance
<1>3. ASSUME NEW name \in MaybeName, setModelName(name)
      PROVE  ManagerInv'
  <2>1. gdialCastObj' = None \/ (gdialCastObj # None /\
              gdialCastObj' = [gdialCastObj EXCEPT !.model = name])
    BY <1>3 DEF setModelName, Tell
  <2>2. /\ m_modelName' = name /\ renamed' = (m_defaultfriendlyName # None)
        /\ UNCHANGED <<properties, m_uuid, m_manufacturerName, m_defaultfriendlyName,
                       identities>>
    BY <1>3 DEF setModelName, platformVars
  <2> QED
    BY <2>1, <2>2 DEF ManagerInv, InstanceInv, IdentityInv, DefaultInv,
                      ManagerTypeOK, Instance
<1>4. ASSUME NEW name \in MaybeName, setManufacturerName(name)
      PROVE  ManagerInv'
  <2>1. gdialCastObj' = None \/ (gdialCastObj # None /\
              gdialCastObj' = [gdialCastObj EXCEPT !.manufacturer = name])
    BY <1>4 DEF setManufacturerName, Tell
  <2>2. /\ m_manufacturerName' = name /\ renamed' = (m_defaultfriendlyName # None)
        /\ UNCHANGED <<properties, m_uuid, m_modelName, m_defaultfriendlyName,
                       identities>>
    BY <1>4 DEF setManufacturerName, platformVars
  <2> QED
    BY <2>1, <2>2 DEF ManagerInv, InstanceInv, IdentityInv, DefaultInv,
                      ManagerTypeOK, Instance
<1>5. CASE deinitialize
  BY <1>5 DEF deinitialize, ManagerInv, InstanceInv, IdentityInv, DefaultInv,
              platformVars, nameVars
<1>6. CASE PlatformChanges
  BY <1>6 DEF PlatformChanges, ManagerInv, InstanceInv, IdentityInv, DefaultInv, nameVars
<1>7. CASE UNCHANGED managerVars
  BY <1>7 DEF ManagerInv, InstanceInv, IdentityInv, DefaultInv, managerVars,
              platformVars, nameVars
<1> QED
  BY <1>1, <1>2, <1>3, <1>4, <1>5, <1>6, <1>7 DEF ManagerStep

-----------------------------------------------------------------------------
(* The composition. *)

\* Thread t is about to tell gdial the mode: it has read it or will, or its
\* comparison will find that it has changed.
Pending(t) == pc[t] \in {"read", "tell"} \/ (pc[t] \in {"register", "compare"} /\ old[t] # mode)

NoStrayInstance ==
    /\ ~manager => gdialCastObj = None /\ ~connecting
    /\ connecting => gdialCastObj = None

\* No copy of the mode is an old one.
CopiesCurrent ==
    /\ connecting => connectArg = mode
    /\ \A t \in Threads : pc[t] \in {"tell", "store"} => arg[t] = mode

DeviceInv == ~missed => mode = deviceMode

GdialInv ==
    gdialCastObj # None /\ gdialCastObj.wolwake =>
        gdialCastObj.standby = mode \/ \E t \in Threads : Pending(t)

ModeInv == ~raced => CopiesCurrent /\ DeviceInv /\ GdialInv

IInv == TypeOK /\ NoStrayInstance /\ ManagerInv /\ ModeInv

LEMMA Start == Init => IInv
<1> SUFFICES ASSUME Init
             PROVE  IInv
  OBVIOUS
<1>0. ManagerInit
  BY DEF Init
<1>1. ManagerTypeOK /\ ManagerInv
  <2>1. ManagerTypeOK
    BY <1>0 DEF ManagerInit, ManagerTypeOK, MaybeId, MaybeName
  <2>2. ManagerInv
    BY <1>0 DEF ManagerInit, ManagerInv, InstanceInv, IdentityInv, DefaultInv
  <2> QED
    BY <2>1, <2>2
<1>2. mode \in BOOLEAN /\ registered \in BOOLEAN /\ missed \in BOOLEAN
  BY DEF Init
<1>3. TypeOK
  <2>1. /\ deviceMode \in BOOLEAN /\ plugin \in BOOLEAN /\ manager \in BOOLEAN
        /\ connecting \in BOOLEAN /\ connectArg \in BOOLEAN /\ raced \in BOOLEAN
    BY Zenon DEF Init
  <2>2. /\ pc \in [Threads -> Positions]
        /\ arg \in [Threads -> BOOLEAN] /\ old \in [Threads -> BOOLEAN]
    BY DEF Init, Positions
  <2>3. calls \in 0..MaxCalls
    BY CallAssumption DEF Init
  <2> QED
    BY <1>1, <1>2, <2>1, <2>2, <2>3 DEF TypeOK
<1>4. NoStrayInstance /\ CopiesCurrent /\ GdialInv
  BY DEF Init, ManagerInit, NoStrayInstance, CopiesCurrent, GdialInv
<1>5. DeviceInv
  BY Zenon DEF Init, DeviceInv
<1> QED
  BY <1>1, <1>3, <1>4, <1>5 DEF IInv, ModeInv

\* Every step is an operation of the manager or leaves it alone.
LEMMA OnlyOperations ==
    ASSUME TypeOK, NoStrayInstance, [Next]_vars
    PROVE  ManagerStep
<1>1. CASE UNCHANGED vars
  BY <1>1 DEF vars, ManagerStep
<1>2. ASSUME NEW t \in Threads, TellManager(t)
      PROVE  ManagerStep
  BY <1>2 DEF TellManager, TypeOK, ManagerStep
<1>3. CASE Connect
  BY <1>3 DEF Connect, TypeOK, NoStrayInstance, ManagerStep
<1>4. CASE Disconnect \/ Shutdown
  BY <1>4 DEF Disconnect, Shutdown, ManagerStep
<1>5. CASE SetName
  BY <1>5 DEF SetName, ManagerStep
<1>6. CASE PlatformStep
  BY <1>6 DEF PlatformStep, ManagerStep
<1>7. CASE UnheardModeChange \/ BeginConnect \/ Reinitialize
  BY <1>7 DEF UnheardModeChange, BeginConnect, Reinitialize, ManagerStep
<1>8. ASSUME NEW t \in Threads,
             \/ OnNetworkStandbyModeChanged(t) \/ ReadMode(t) \/ StoreMode(t)
             \/ SetEnabled(t) \/ PollPowerManager(t)
             \/ registerPowerEventHandlers(t) \/ CompareMode(t)
      PROVE  ManagerStep
  BY <1>8 DEF OnNetworkStandbyModeChanged, ReadMode, StoreMode, SetEnabled,
              PollPowerManager, registerPowerEventHandlers, CompareMode, ManagerStep
<1> QED
  BY <1>1, <1>2, <1>3, <1>4, <1>5, <1>6, <1>7, <1>8 DEF Next

\* Where a thread goes, and that no other thread moves.
LEMMA Moves ==
    ASSUME TypeOK, NEW t \in Threads, NEW from, NEW to \in Positions, Step(t, from, to)
    PROVE  /\ pc[t] = from /\ pc'[t] = to
           /\ \A u \in Threads : u # t => pc'[u] = pc[u]
           /\ pc' \in [Threads -> Positions]
  BY DEF TypeOK, Step, Goto

\* The operations leave the mode's variables and the instance alone where the code
\* does; what matters for the types is one line for each.
LEMMA Types ==
    ASSUME TypeOK, NoStrayInstance, [Next]_vars
    PROVE  TypeOK'
<1>1. ManagerTypeOK'
  BY OnlyOperations, ManagerTypes DEF TypeOK
<1>2. CASE UNCHANGED vars
  BY <1>1, <1>2 DEF TypeOK, vars, powerVars, modeVars, timerVars
<1>3. ASSUME NEW t \in Threads, OnNetworkStandbyModeChanged(t)
      PROVE  TypeOK'
  <2>1. deviceMode' \in BOOLEAN /\ mode' \in BOOLEAN /\ missed' \in BOOLEAN
    BY <1>3 DEF OnNetworkStandbyModeChanged
  <2>2. raced' \in BOOLEAN
    BY Zenon, <1>3 DEF OnNetworkStandbyModeChanged, Held
  <2>3. pc' \in [Threads -> Positions]
    BY <1>3, Moves DEF OnNetworkStandbyModeChanged, Positions
  <2>4. /\ calls' \in 0..MaxCalls
        /\ UNCHANGED <<plugin, registered, manager, connecting, connectArg, arg, old>>
    BY <1>3, CallAssumption DEF OnNetworkStandbyModeChanged, Call, TypeOK, timerVars
  <2> QED
    BY <1>1, <2>1, <2>2, <2>3, <2>4 DEF TypeOK
<1>4. ASSUME NEW t \in Threads, ReadMode(t)
      PROVE  TypeOK'
  BY <1>1, <1>4, Moves DEF ReadMode, TypeOK, powerVars, modeVars, timerVars, Positions
<1>5. ASSUME NEW t \in Threads, TellManager(t)
      PROVE  TypeOK'
  BY <1>1, <1>5, Moves DEF TellManager, TypeOK, powerVars, modeVars, timerVars, Positions
<1>6. ASSUME NEW t \in Threads, StoreMode(t)
      PROVE  TypeOK'
  BY <1>1, <1>6, Moves DEF StoreMode, TypeOK, powerVars, timerVars, Positions
<1>7. ASSUME NEW t \in Threads, SetEnabled(t)
      PROVE  TypeOK'
  BY <1>1, <1>7, Moves, CallAssumption
     DEF SetEnabled, TypeOK, Call, powerVars, modeVars, timerVars, Positions
<1>8. ASSUME NEW t \in Threads, PollPowerManager(t)
      PROVE  TypeOK'
  BY <1>1, <1>8, Moves
     DEF PollPowerManager, TypeOK, Held, powerVars, modeVars, timerVars, Positions
<1>9. ASSUME NEW t \in Threads, registerPowerEventHandlers(t)
      PROVE  TypeOK'
  BY <1>1, <1>9, Moves
     DEF registerPowerEventHandlers, TypeOK, modeVars, timerVars, Positions
<1>10. ASSUME NEW t \in Threads, CompareMode(t)
       PROVE  TypeOK'
  BY <1>1, <1>10, Moves
     DEF CompareMode, TypeOK, powerVars, modeVars, timerVars, Positions
<1>11. CASE UnheardModeChange
  BY <1>1, <1>11, CallAssumption DEF UnheardModeChange, TypeOK, Call, timerVars
<1>12. CASE BeginConnect \/ Connect
  BY <1>1, <1>12 DEF BeginConnect, Connect, TypeOK, powerVars, modeVars
<1>13. CASE Disconnect \/ SetName \/ PlatformStep
  BY <1>1, <1>13, CallAssumption
     DEF Disconnect, SetName, PlatformStep, TypeOK, Call, powerVars, modeVars, timerVars
<1>14. CASE Shutdown
  <2>1. registered' \in BOOLEAN /\ manager' \in BOOLEAN /\ plugin' \in BOOLEAN
    BY Zenon, <1>14 DEF Shutdown
  <2>2. /\ Call
        /\ UNCHANGED <<deviceMode, mode, raced, missed, connecting, connectArg, pc, arg, old>>
    BY Zenon, <1>14 DEF Shutdown, modeVars, timerVars
  <2> QED
    BY <1>1, <2>1, <2>2, CallAssumption DEF TypeOK, Call
<1>15. CASE Reinitialize
  BY <1>1, <1>15 DEF Reinitialize, TypeOK, powerVars, modeVars, timerVars
<1> QED
  BY <1>2, <1>3, <1>4, <1>5, <1>6, <1>7, <1>8, <1>9, <1>10, <1>11, <1>12, <1>13,
     <1>14, <1>15 DEF Next

\* No instance without a manager, and none while one is being made.
LEMMA NoStray ==
    ASSUME TypeOK, NoStrayInstance, [Next]_vars
    PROVE  NoStrayInstance'
<1>1. CASE UNCHANGED vars
  BY <1>1 DEF NoStrayInstance, vars, managerVars, timerVars
<1>2. ASSUME NEW t \in Threads,
             \/ OnNetworkStandbyModeChanged(t) \/ ReadMode(t) \/ StoreMode(t)
             \/ SetEnabled(t) \/ PollPowerManager(t)
             \/ registerPowerEventHandlers(t) \/ CompareMode(t)
      PROVE  NoStrayInstance'
  BY <1>2 DEF OnNetworkStandbyModeChanged, ReadMode, StoreMode, SetEnabled,
              PollPowerManager, registerPowerEventHandlers, CompareMode,
              NoStrayInstance, managerVars, timerVars
<1>3. ASSUME NEW t \in Threads, TellManager(t)
      PROVE  NoStrayInstance'
  BY <1>3 DEF TellManager, setNetworkStandbyMode, Tell, NoStrayInstance, managerVars,
              timerVars
<1>4. CASE UnheardModeChange \/ BeginConnect \/ Reinitialize \/ PlatformStep
  BY <1>4 DEF UnheardModeChange, BeginConnect, Reinitialize, PlatformStep,
              PlatformChanges, NoStrayInstance, managerVars, timerVars
<1>5. CASE Connect
  BY <1>5 DEF Connect, NoStrayInstance
<1>6. CASE Disconnect \/ Shutdown
  BY <1>6 DEF Disconnect, Shutdown, deinitialize, NoStrayInstance, timerVars
<1>7. CASE SetName
  BY <1>7 DEF SetName, setModelName, setManufacturerName, Tell, NoStrayInstance, timerVars
<1> QED
  BY <1>1, <1>2, <1>3, <1>4, <1>5, <1>6, <1>7 DEF Next

-----------------------------------------------------------------------------
(* The mode. *)

\* Steps that neither change a mode nor use a copy of one.
LEMMA Bystanders ==
    ASSUME TypeOK, ModeInv, UNCHANGED <<mode, raced, pc, arg, old>>,
           (missed' = missed /\ deviceMode' = deviceMode) \/ missed',
           connecting' => connecting /\ connectArg' = connectArg,
           gdialCastObj' # None =>
               /\ gdialCastObj # None
               /\ gdialCastObj'.wolwake = gdialCastObj.wolwake
               /\ gdialCastObj'.standby = gdialCastObj.standby
    PROVE  ModeInv'
  BY DEF ModeInv, CopiesCurrent, DeviceInv, GdialInv, Pending

LEMMA ModePreserved ==
    ASSUME IInv, [Next]_vars
    PROVE  ModeInv'
<1> USE DEF IInv
<1>1. CASE UNCHANGED vars
  BY <1>1 DEF ModeInv, CopiesCurrent, DeviceInv, GdialInv, Pending, vars, managerVars,
              modeVars, powerVars, timerVars
<1>2. ASSUME NEW t \in Threads, OnNetworkStandbyModeChanged(t)
      PROVE  ModeInv'
  <2>1. pc'[t] = "read" /\ \A u \in Threads : u # t => pc'[u] = pc[u]
    BY <1>2, Moves DEF OnNetworkStandbyModeChanged, Positions
  <2>2. mode' = deviceMode' /\ raced' = Held /\ UNCHANGED <<connecting, arg>>
    BY <1>2 DEF OnNetworkStandbyModeChanged, timerVars
  <2> QED
    BY <2>1, <2>2 DEF ModeInv, CopiesCurrent, DeviceInv, GdialInv, Pending, Held
<1>3. ASSUME NEW t \in Threads, ReadMode(t)
      PROVE  ModeInv'
  <2>1. /\ pc[t] = "read" /\ pc'[t] = IF manager THEN "tell" ELSE "idle"
        /\ \A u \in Threads : u # t => pc'[u] = pc[u]
    BY <1>3, Moves DEF ReadMode, Positions
  <2>2. UNCHANGED <<gdialCastObj, mode, raced, missed, deviceMode, connecting,
                    connectArg, old>>
    BY <1>3 DEF ReadMode, managerVars, powerVars, modeVars, timerVars
  <2>3. manager => arg'[t] = mode
    <3>1. arg'[t] = (manager /\ mode)
      BY <1>3 DEF ReadMode, TypeOK
    <3> QED
      BY Zenon, <3>1 DEF TypeOK
  <2>4. \A u \in Threads : u # t => arg'[u] = arg[u]
    BY <1>3 DEF ReadMode, TypeOK
  <2>5. ~raced => CopiesCurrent'
    BY <2>1, <2>2, <2>3, <2>4 DEF ModeInv, CopiesCurrent
  <2>6. ~raced => GdialInv'
    BY <2>1, <2>2 DEF ModeInv, GdialInv, Pending, NoStrayInstance
  <2> QED
    BY <2>2, <2>5, <2>6 DEF ModeInv, DeviceInv
<1>4. ASSUME NEW t \in Threads, TellManager(t)
      PROVE  ModeInv'
  <2>1. /\ pc[t] = "tell" /\ pc'[t] = "store"
        /\ \A u \in Threads : u # t => pc'[u] = pc[u]
    BY <1>4, Moves DEF TellManager, Positions
  <2>2. UNCHANGED <<mode, raced, missed, deviceMode, connecting, connectArg, arg, old>>
    BY <1>4 DEF TellManager, powerVars, modeVars, timerVars
  <2>3. gdialCastObj' # None => gdialCastObj'.standby = arg[t]
    <3>1. CASE manager /\ gdialCastObj # None
      <4>1. gdialCastObj' = [gdialCastObj EXCEPT !.standby = arg[t]]
        BY <1>4, <3>1 DEF TellManager, setNetworkStandbyMode, Tell
      <4> QED
        BY <3>1, <4>1 DEF TypeOK, ManagerTypeOK, Instance
    <3>2. CASE ~manager \/ gdialCastObj = None
      BY <1>4, <3>2 DEF TellManager, setNetworkStandbyMode, Tell, NoStrayInstance,
                        managerVars
    <3> QED
      BY <3>1, <3>2
  <2> QED
    BY <2>1, <2>2, <2>3 DEF ModeInv, CopiesCurrent, DeviceInv, GdialInv
<1>5. ASSUME NEW t \in Threads, StoreMode(t)
      PROVE  ModeInv'
  <2>1. /\ pc[t] = "store" /\ pc'[t] = "idle"
        /\ \A u \in Threads : u # t => pc'[u] = pc[u]
    BY <1>5, Moves DEF StoreMode, Positions
  <2>2. /\ mode' = arg[t] /\ arg' = [arg EXCEPT ![t] = FALSE]
        /\ UNCHANGED <<gdialCastObj, raced, missed, deviceMode, connecting, connectArg, old>>
    BY <1>5 DEF StoreMode, managerVars, powerVars, timerVars
  <2>3. ~raced => mode' = mode
    BY <2>1, <2>2 DEF ModeInv, CopiesCurrent
  <2>4. \A u \in Threads : u # t => arg'[u] = arg[u]
    BY <2>2 DEF TypeOK
  <2> QED
    BY <2>1, <2>2, <2>3, <2>4 DEF ModeInv, CopiesCurrent, DeviceInv, GdialInv, Pending
<1>6. ASSUME NEW t \in Threads, SetEnabled(t)
      PROVE  ModeInv'
  <2>1. /\ pc[t] = "idle" /\ pc'[t] \in {"poll", "compare"}
        /\ \A u \in Threads : u # t => pc'[u] = pc[u]
    BY <1>6, Moves DEF SetEnabled, Positions
  <2>2. /\ old' = [old EXCEPT ![t] = mode]
        /\ UNCHANGED <<gdialCastObj, mode, raced, missed, deviceMode, connecting,
                       connectArg, arg>>
    BY <1>6 DEF SetEnabled, managerVars, powerVars, modeVars, timerVars
  <2>3. \A u \in Threads : u # t => old'[u] = old[u]
    BY <2>2 DEF TypeOK
  <2> QED
    BY <2>1, <2>2, <2>3 DEF ModeInv, CopiesCurrent, DeviceInv, GdialInv, Pending
<1>7. ASSUME NEW t \in Threads, PollPowerManager(t)
      PROVE  ModeInv'
  <2>1. /\ pc[t] = "poll" /\ pc'[t] = "register"
        /\ \A u \in Threads : u # t => pc'[u] = pc[u]
    BY <1>7, Moves DEF PollPowerManager, Positions
  <2>2. UNCHANGED <<gdialCastObj, deviceMode, connecting, connectArg, arg, old>>
    BY <1>7 DEF PollPowerManager, managerVars, powerVars, timerVars
  <2>3. CASE mode' = mode /\ raced' = raced
    <3>1. DeviceInv => DeviceInv'
      BY <1>7, <2>2 DEF PollPowerManager, DeviceInv, modeVars
    <3> QED
      BY <2>1, <2>2, <2>3, <3>1 DEF ModeInv, CopiesCurrent, GdialInv, Pending
  <2>4. CASE /\ mode # deviceMode /\ mode' = deviceMode
             /\ raced' = (Held \/ old[t] # mode)
    <3>1. ~raced' => ~Held /\ old[t] = mode
      BY Zenon, <2>4
    <3> QED
      BY <2>1, <2>2, <2>4, <3>1 DEF ModeInv, CopiesCurrent, DeviceInv, GdialInv,
                                    Pending, Held
  <2> QED
    BY Zenon, <1>7, <2>3, <2>4 DEF PollPowerManager, modeVars
<1>8. ASSUME NEW t \in Threads, registerPowerEventHandlers(t)
      PROVE  ModeInv'
  <2>1. /\ pc[t] = "register" /\ pc'[t] = "compare"
        /\ \A u \in Threads : u # t => pc'[u] = pc[u]
    BY <1>8, Moves DEF registerPowerEventHandlers, Positions
  <2>2. UNCHANGED <<gdialCastObj, mode, raced, missed, deviceMode, connecting,
                    connectArg, arg, old>>
    BY <1>8 DEF registerPowerEventHandlers, managerVars, modeVars, timerVars
  <2> QED
    BY <2>1, <2>2 DEF ModeInv, CopiesCurrent, DeviceInv, GdialInv, Pending
<1>9. ASSUME NEW t \in Threads, CompareMode(t)
      PROVE  ModeInv'
  <2>1. /\ pc[t] = "compare"
        /\ pc'[t] = IF old[t] # mode THEN "read" ELSE "idle"
        /\ \A u \in Threads : u # t => pc'[u] = pc[u]
    BY <1>9, Moves DEF CompareMode, Positions
  <2>2. /\ old' = [old EXCEPT ![t] = FALSE]
        /\ UNCHANGED <<gdialCastObj, mode, raced, missed, deviceMode, connecting,
                       connectArg, arg>>
    BY <1>9 DEF CompareMode, managerVars, powerVars, modeVars, timerVars
  <2>3. \A u \in Threads : u # t => old'[u] = old[u]
    BY <2>2 DEF TypeOK
  <2> QED
    BY <2>1, <2>2, <2>3 DEF ModeInv, CopiesCurrent, DeviceInv, GdialInv, Pending
<1>10. CASE BeginConnect
  BY <1>10 DEF BeginConnect, ModeInv, CopiesCurrent, DeviceInv, GdialInv, Pending,
               managerVars, powerVars, modeVars
<1>11. CASE Connect
  <2>1. /\ connecting /\ ~connecting' /\ gdialCastObj = None
        /\ UNCHANGED <<mode, raced, missed, deviceMode, pc, arg, old>>
    BY <1>11 DEF Connect, powerVars, modeVars, NoStrayInstance
  <2>2. gdialCastObj' # None =>
            gdialCastObj'.wolwake = wolRfc /\ gdialCastObj'.standby = (wolRfc /\ connectArg)
    BY <1>11, <2>1 DEF Connect, initialize, managerVars
  <2>3. ~raced => GdialInv'
    <3> SUFFICES ASSUME ~raced, gdialCastObj' # None, gdialCastObj'.wolwake
                 PROVE  gdialCastObj'.standby = mode'
      BY DEF GdialInv
    <3>1. connectArg = mode
      BY <2>1 DEF ModeInv, CopiesCurrent
    <3>2. (wolRfc /\ connectArg) = connectArg
      BY Zenon, <2>2 DEF TypeOK
    <3> QED
      BY Zenon, <2>1, <2>2, <3>1, <3>2
  <2> QED
    BY <2>1, <2>3 DEF ModeInv, CopiesCurrent, DeviceInv
<1>12. CASE UnheardModeChange
  <2>1. /\ missed' = TRUE
        /\ UNCHANGED <<gdialCastObj, mode, raced, connecting, connectArg, pc, arg, old>>
    BY Zenon, <1>12 DEF UnheardModeChange, managerVars, timerVars
  <2> QED
    BY <2>1, Bystanders
<1>13. CASE Disconnect \/ Shutdown
  <2>1. /\ gdialCastObj' = None
        /\ UNCHANGED <<deviceMode, mode, raced, missed, connecting, connectArg, pc, arg, old>>
    BY Zenon, <1>13 DEF Disconnect, Shutdown, deinitialize, powerVars, modeVars, timerVars
  <2> QED
    BY <2>1, Bystanders
<1>14. CASE Reinitialize
  BY <1>14, Bystanders DEF Reinitialize, managerVars, powerVars, modeVars, timerVars
<1>15. CASE SetName
  <2>1. UNCHANGED <<deviceMode, mode, raced, missed, connecting, connectArg, pc, arg, old>>
    BY <1>15 DEF SetName, powerVars, modeVars, timerVars
  <2>2. PICK name \in MaybeName :
            \/ gdialCastObj' = None
            \/ /\ gdialCastObj # None
               /\ \/ gdialCastObj' = [gdialCastObj EXCEPT !.model = name]
                  \/ gdialCastObj' = [gdialCastObj EXCEPT !.manufacturer = name]
    BY <1>15 DEF SetName, setModelName, setManufacturerName, Tell
  <2>3. gdialCastObj' # None =>
            /\ gdialCastObj # None
            /\ gdialCastObj'.wolwake = gdialCastObj.wolwake
            /\ gdialCastObj'.standby = gdialCastObj.standby
    BY <2>2 DEF TypeOK, ManagerTypeOK, Instance
  <2> QED
    BY <2>1, <2>3, Bystanders
<1>16. CASE PlatformStep
  <2>1. UNCHANGED <<gdialCastObj, deviceMode, mode, raced, missed, connecting,
                    connectArg, pc, arg, old>>
    BY <1>16 DEF PlatformStep, PlatformChanges, powerVars, modeVars, timerVars
  <2> QED
    BY <2>1, Bystanders
<1> QED
  BY <1>1, <1>2, <1>3, <1>4, <1>5, <1>6, <1>7, <1>8, <1>9, <1>10, <1>11, <1>12,
     <1>13, <1>14, <1>15, <1>16 DEF Next

-----------------------------------------------------------------------------
LEMMA Invariance == Spec => []IInv
<1>1. Init => IInv
  BY Start
<1>2. IInv /\ [Next]_vars => IInv'
  BY Types, NoStray, OnlyOperations, ManagerInvariant, ModePreserved DEF IInv, TypeOK
<1> QED
  BY <1>1, <1>2, PTL DEF Spec

\* Every reachable state is well typed.
THEOREM TypeCorrect == Spec => []TypeOK
<1>1. IInv => TypeOK
  BY DEF IInv
<1> QED
  BY <1>1, Invariance, PTL

\* The getters of the names answer what a running instance shows.
THEOREM NamesAreShown == Spec => []InstanceShowsNames
<1>1. IInv => InstanceShowsNames
  BY DEF IInv, ManagerInv, InstanceInv, InstanceShowsNames
<1> QED
  BY <1>1, Invariance, PTL

\* Whatever the files, DeviceInfo and the restarts do, one identity is shown.
THEOREM IdentityIsKept == Spec => []OneIdentity
<1>1. IInv => OneIdentity
  BY DEF IInv, ManagerInv, IdentityInv, OneIdentity
<1> QED
  BY <1>1, Invariance, PTL

\* The friendly name an instance starts with is that of its names, if no setter
\* came after the first instance.
THEOREM DefaultNameIsCurrent == Spec => []DefaultNameCurrent
<1>1. IInv => DefaultNameCurrent
  BY DEF IInv, ManagerInv, InstanceInv, DefaultInv, DefaultNameCurrent
<1> QED
  BY <1>1, Invariance, PTL

\* At rest the implementation has the device's mode, unless it was not told or the
\* last change fell while an older copy was in use.
THEOREM ModeIsTheDevices == Spec => []ModeFollowsDevice
<1>1. IInv => ModeFollowsDevice
  BY DEF IInv, ModeInv, DeviceInv, ModeFollowsDevice
<1> QED
  BY <1>1, Invariance, PTL

\* At rest gdial has the implementation's mode, wherever the creation of its
\* instance fell between the notifications, the polls and the restarts.
THEOREM GdialHasTheMode == Spec => []GdialFollowsMode
<1>1. IInv => GdialFollowsMode
  BY DEF IInv, ModeInv, GdialInv, GdialFollowsMode, Quiet, Pending
<1> QED
  BY <1>1, Invariance, PTL
=============================================================================
