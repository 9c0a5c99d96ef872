---------------------------- MODULE XCastManager ----------------------------
(***************************************************************************)
(* XCastManager's own state: the names and the UUID that a gdial instance  *)
(* is made with, and the instance.  The strings are globals of the file,   *)
(* so that they outlive the manager as well as the instances.              *)
(*                                                                         *)
(* Every operation runs under m_mutexSync and is one action.  None stands  *)
(* for an empty string and for a null pointer.  Module NetworkStandby      *)
(* composes these operations with their callers.                           *)
(***************************************************************************)

CONSTANTS
    Names,      \* model and manufacturer names
    Ids,        \* receiver identities
    SerialId,   \* the one generated from the serial number
    None

MaybeName == Names \cup {None}
MaybeId   == Ids \cup {None}
Defaults  == MaybeName \X MaybeName

ASSUME ManagerAssumption ==
    None \notin Names \cup Ids /\ None \notin Defaults /\ SerialId \in Ids

\* What gdial shows of the manager: its arguments, and what it was told since.
\* (wolwake is a memory of the RFC that let the mode into the arguments.)
Instance == [uuid : MaybeId, model : MaybeName, manufacturer : MaybeName,
             friendly : Defaults, wolwake : BOOLEAN, standby : BOOLEAN]

VARIABLES
    (* the platform *)
    deviceIdFile,   \* what gpid.txt, deviceid.dat and wbdevice.dat give
    deviceInfo,     \* DeviceInfo answers with the serial number
    properties,     \* MODEL_NUM and MFG_NAME of device.properties
    wolRfc,         \* the RFC XDial.WolWakeEnable
    (* the globals *)
    m_uuid, m_modelName, m_manufacturerName, m_defaultfriendlyName,
    gdialCastObj,   \* the instance, or None
    (* history *)
    identities,     \* the UUIDs instances have shown
    renamed         \* a name was set after the default friendly name was made

platformVars == <<deviceIdFile, deviceInfo, properties, wolRfc>>
nameVars     == <<m_uuid, m_modelName, m_manufacturerName, m_defaultfriendlyName>>
managerVars  == <<platformVars, nameVars, gdialCastObj, identities, renamed>>

ManagerTypeOK ==
    /\ deviceIdFile \in MaybeId /\ deviceInfo \in BOOLEAN
    /\ properties \in Defaults /\ wolRfc \in BOOLEAN
    /\ m_uuid \in MaybeId
    /\ m_modelName \in MaybeName /\ m_manufacturerName \in MaybeName
    /\ m_defaultfriendlyName \in Defaults \cup {None}
    /\ gdialCastObj \in Instance \cup {None}
    /\ identities \subseteq Ids /\ renamed \in BOOLEAN

ManagerInit ==
    /\ deviceIdFile \in MaybeId /\ deviceInfo \in BOOLEAN
    /\ properties \in Defaults /\ wolRfc \in BOOLEAN
    /\ m_uuid = None /\ m_modelName = None /\ m_manufacturerName = None
    /\ m_defaultfriendlyName = None
    /\ gdialCastObj = None
    /\ identities = {} /\ renamed = FALSE

-----------------------------------------------------------------------------
\* Mutant: the branches are exchanged.
OrElse_Exchanged(x, y) == IF x # None THEN y ELSE x

OrElse(x, y) == IF x # None THEN x ELSE y

\* The files are in /tmp and /opt and may appear late, like DeviceInfo.
getReceiverID ==
    OrElse(deviceIdFile, IF deviceInfo THEN SerialId ELSE None)

\* Mutant: the identity is looked up for every instance.
Identity_Fresh == OrElse(getReceiverID, m_uuid)

Identity == OrElse(m_uuid, getReceiverID)

\* Mutant: the default name is made before the names are looked up.
DefaultName_Early(model, maker) ==
    OrElse(m_defaultfriendlyName, <<m_modelName, m_manufacturerName>>)

\* It is made once, of whatever the names are then.
DefaultName(model, maker) == OrElse(m_defaultfriendlyName, <<model, maker>>)

\* Each string is looked up while it is empty.  The RFC XDial.Enable may forbid it
\* all; an instance is kept; and getInstance may fail.
initialize(networkStandbyMode) ==
    \/ LET model == OrElse(m_modelName, properties[1])
           maker == OrElse(m_manufacturerName, properties[2])
       IN  /\ m_uuid' = Identity
           /\ m_modelName' = model /\ m_manufacturerName' = maker
           /\ m_defaultfriendlyName' = DefaultName(model, maker)
           /\ \/ /\ gdialCastObj = None
                 /\ gdialCastObj' =
                      [uuid |-> Identity, model |-> model, manufacturer |-> maker,
                       friendly |-> DefaultName(model, maker), wolwake |-> wolRfc,
                       standby |-> wolRfc /\ networkStandbyMode]
                 /\ identities' = identities \cup ({Identity} \ {None})
              \/ UNCHANGED <<gdialCastObj, identities>>
           /\ UNCHANGED <<platformVars, renamed>>
    \/ UNCHANGED managerVars

deinitialize ==
    /\ gdialCastObj' = None
    /\ UNCHANGED <<platformVars, nameVars, identities, renamed>>

\* What is told to the instance, if there is one.
Tell(changed) == gdialCastObj' = IF gdialCastObj = None THEN None ELSE changed

setModelName(name) ==
    /\ Tell([gdialCastObj EXCEPT !.model = name])
    /\ m_modelName' = name
    /\ renamed' = (m_defaultfriendlyName # None)
    /\ UNCHANGED <<platformVars, m_uuid, m_manufacturerName, m_defaultfriendlyName,
                   identities>>

\* Mutant: a running instance is not told.
setManufacturerName_NotTold(name) ==
    /\ m_manufacturerName' = name
    /\ renamed' = (m_defaultfriendlyName # None)
    /\ UNCHANGED <<platformVars, m_uuid, m_modelName, m_defaultfriendlyName,
                   gdialCastObj, identities>>

setManufacturerName(name) ==
    /\ Tell([gdialCastObj EXCEPT !.manufacturer = name])
    /\ m_manufacturerName' = name
    /\ renamed' = (m_defaultfriendlyName # None)
    /\ UNCHANGED <<platformVars, m_uuid, m_modelName, m_defaultfriendlyName,
                   identities>>

setNetworkStandbyMode(nwStandbymode) ==
    /\ Tell([gdialCastObj EXCEPT !.standby = nwStandbymode])
    /\ UNCHANGED <<platformVars, nameVars, identities, renamed>>

\* The files and DeviceInfo come and go, and the RFC changes.
PlatformChanges ==
    /\ \/ deviceIdFile' \in MaybeId \ {deviceIdFile} /\ UNCHANGED <<deviceInfo, wolRfc>>
       \/ deviceInfo' = ~deviceInfo /\ UNCHANGED <<deviceIdFile, wolRfc>>
       \/ wolRfc' = ~wolRfc /\ UNCHANGED <<deviceIdFile, deviceInfo>>
    /\ UNCHANGED <<properties, nameVars, gdialCastObj, identities, renamed>>

-----------------------------------------------------------------------------
(* Properties. *)

\* A running instance shows the names that GetModelName and GetManufacturerName
\* answer, and the UUID the manager holds, whether a name was set before, after or
\* between instances.
InstanceShowsNames ==
    gdialCastObj # None =>
        /\ gdialCastObj.uuid = m_uuid
        /\ gdialCastObj.model = m_modelName
        /\ gdialCastObj.manufacturer = m_manufacturerName

\* Over all its instances, restarts included, the receiver shows one identity,
\* although the sources of an identity come and go and differ in what they give.
OneIdentity == \A i, j \in identities : i = j

\* The default friendly name is that of the names the instance shows, except after
\* a name was set: it is made once, and no later name reaches it.
DefaultNameCurrent ==
    gdialCastObj # None /\ ~renamed =>
        gdialCastObj.friendly = <<m_modelName, m_manufacturerName>>
=============================================================================
