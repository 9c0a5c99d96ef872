-------------------------- MODULE CastEnable_proofs --------------------------
(***************************************************************************)
(* Proof that CastEnable is type correct for any threads, names and calls. *)
(***************************************************************************)
EXTENDS CastEnable, TLAPS

\* The members of the enumerated sets, so that the steps need not expand them.
LEMMA PositionMembers ==
    \A p \in {"idle", "poll", "evaluate", "manager", "cacheFlag", "cacheName", "apps",
             "tail", "power", "deinit", "shutdown", "reset", "init", "check",
             "evalPower"} : p \in Positions
BY DEF Positions

LEMMA ContinuationMembers ==
    \A c \in {"idle", "register", "unregister", "unlock"} : c \in Continuations
BY DEF Continuations

\* What the helpers of the actions do to the types.
LEMMA GotoType ==
    ASSUME NEW t \in Threads, NEW p \in Positions
    PROVE  TypeOK /\ Goto(t, p) => pc' \in [Threads -> Positions]
BY DEF TypeOK, Goto

LEMMA EnterType ==
    ASSUME NEW t \in Threads, NEW f \in BOOLEAN, NEW n \in Names, NEW c \in Continuations
    PROVE  TypeOK /\ Enter(t, f, n, c) =>
               /\ pc' \in [Threads -> Positions] /\ flag' \in [Threads -> BOOLEAN]
               /\ name' \in [Threads -> Names] /\ then' \in [Threads -> Continuations]
BY PositionMembers DEF TypeOK, Enter, Goto

LEMMA BeginType == Begin => raced' \in BOOLEAN /\ unsettled' \in BOOLEAN
BY Zenon DEF Begin

LEMMA PolicyType == TypeOK => Policy \in BOOLEAN
BY Zenon DEF Policy

LEMMA CallType ==
    ASSUME NEW c
    PROVE  TypeOK /\ Call(c) => calls' \in 0..MaxCalls
BY CallAssumption DEF TypeOK, Call

\* TypeOK is inductive.
LEMMA TypeStep == TypeOK /\ [Next]_vars => TypeOK'
<1> USE DEF TypeOK, policyVars, cacheVars, gdialVars, pushVars, powerVars, passVars,
            appVars, threadVars
<1>1. ASSUME NEW t \in Threads PROVE TypeOK /\ SetEnabled(t) => TypeOK'
  BY PositionMembers, GotoType, CallType DEF SetEnabled
<1>2. ASSUME NEW t \in Threads PROVE TypeOK /\ PollPowerManager(t) => TypeOK'
  <2>1. TypeOK /\ PollPowerManager(t) =>
          pc' \in [Threads -> Positions]
    BY PositionMembers, GotoType DEF PollPowerManager
  <2>2. TypeOK /\ PollPowerManager(t) =>
          powerState' \in PowerStates /\ registered' \in BOOLEAN
    BY DEF PollPowerManager
  <2>3. TypeOK /\ PollPowerManager(t) =>
          UNCHANGED <<xcastEnable, standbyBehavior, friendlyName, cacheVars, manager,
                      gdialVars, pushVars, devicePower, plugin, restartReq, restartOwed,
                      passVars, appVars, calls, raced, unsettled>>
    BY DEF PollPowerManager
  <2>. QED
    BY <2>1, <2>2, <2>3
<1>3. ASSUME NEW t \in Threads PROVE TypeOK /\ SetFriendlyName(t) => TypeOK'
  BY PositionMembers, GotoType, CallType DEF SetFriendlyName
<1>4. ASSUME NEW t \in Threads PROVE TypeOK /\ Evaluate(t) => TypeOK'
  BY ContinuationMembers, EnterType, BeginType, PolicyType DEF Evaluate
<1>5. ASSUME NEW t \in Threads PROVE TypeOK /\ TellManager(t) => TypeOK'
  BY PositionMembers, GotoType DEF TellManager
<1>6. ASSUME NEW t \in Threads PROVE TypeOK /\ CacheFlag(t) => TypeOK'
  <2>1. TypeOK /\ CacheFlag(t) =>
          pc' \in [Threads -> Positions]
    BY PositionMembers, GotoType DEF CacheFlag
  <2>2. TypeOK /\ CacheFlag(t) =>
          xcastEnableCache' \in BOOLEAN
    BY DEF CacheFlag
  <2>. QED
    BY <2>1, <2>2 DEF CacheFlag
<1>7. ASSUME NEW t \in Threads PROVE TypeOK /\ CacheName(t) => TypeOK'
  BY PositionMembers, GotoType DEF CacheName
<1>8. ASSUME NEW t \in Threads PROVE TypeOK /\ RegisterApplications(t) => TypeOK'
  <2>1. TypeOK /\ RegisterApplications(t) =>
          /\ pc' \in [Threads -> Positions] /\ flag' \in [Threads -> BOOLEAN]
          /\ name' \in [Threads -> Names] /\ then' \in [Threads -> Continuations]
    BY ContinuationMembers, EnterType DEF RegisterApplications, DisableForApplications
  <2>2. TypeOK /\ RegisterApplications(t) =>
          raced' \in BOOLEAN /\ unsettled' \in BOOLEAN /\ calls' \in 0..MaxCalls
    BY BeginType, CallType DEF RegisterApplications, DisableForApplications
  <2>3. TypeOK /\ RegisterApplications(t) =>
          UNCHANGED <<policyVars, cacheVars, manager, gdialVars, pushVars, powerVars,
                      appVars>>
    BY DEF RegisterApplications, DisableForApplications
  <2>. QED
    BY <2>1, <2>2, <2>3
<1>9. ASSUME NEW t \in Threads PROVE TypeOK /\ UnregisterApplications(t) => TypeOK'
  <2>1. TypeOK /\ UnregisterApplications(t) =>
          /\ pc' \in [Threads -> Positions] /\ flag' \in [Threads -> BOOLEAN]
          /\ name' \in [Threads -> Names] /\ then' \in [Threads -> Continuations]
    BY ContinuationMembers, EnterType DEF UnregisterApplications, DisableForApplications
  <2>2. TypeOK /\ UnregisterApplications(t) =>
          raced' \in BOOLEAN /\ unsettled' \in BOOLEAN /\ calls' \in 0..MaxCalls
    BY BeginType, CallType DEF UnregisterApplications, DisableForApplications
  <2>3. TypeOK /\ UnregisterApplications(t) =>
          UNCHANGED <<policyVars, cacheVars, manager, gdialVars, pushVars, powerVars,
                      appVars>>
    BY DEF UnregisterApplications, DisableForApplications
  <2>. QED
    BY <2>1, <2>2, <2>3
<1>10. ASSUME NEW t \in Threads PROVE TypeOK /\ UpdateApplications(t) => TypeOK'
  BY PositionMembers, GotoType DEF UpdateApplications
<1>11. ASSUME NEW t \in Threads PROVE TypeOK /\ ReenableAfterApplications(t) => TypeOK'
  <2>1. TypeOK /\ ReenableAfterApplications(t) =>
          /\ pc' \in [Threads -> Positions] /\ flag' \in [Threads -> BOOLEAN]
          /\ name' \in [Threads -> Names] /\ then' \in [Threads -> Continuations]
    BY ContinuationMembers, PositionMembers, EnterType, GotoType DEF ReenableAfterApplications
  <2>2. TypeOK /\ ReenableAfterApplications(t) =>
          raced' \in BOOLEAN /\ unsettled' \in BOOLEAN
    BY BeginType DEF ReenableAfterApplications
  <2>3. TypeOK /\ ReenableAfterApplications(t) =>
          appLock' \in Threads \cup {NoThread}
    BY DEF ReenableAfterApplications
  <2>4. TypeOK /\ ReenableAfterApplications(t) =>
          UNCHANGED <<policyVars, cacheVars, manager, gdialVars, pushVars, powerVars,
                      dynamic, calls>>
    BY DEF ReenableAfterApplications
  <2>. QED
    BY <2>1, <2>2, <2>3, <2>4
<1>12. ASSUME NEW t \in Threads PROVE TypeOK /\ OnPowerModeChanged(t) => TypeOK'
  BY PositionMembers, GotoType, CallType DEF OnPowerModeChanged, PowerStates
<1>13. ASSUME NEW t \in Threads PROVE TypeOK /\ PowerWorker(t) => TypeOK'
  BY PositionMembers, GotoType DEF PowerWorker
<1>14. ASSUME NEW t \in Threads PROVE TypeOK /\ UnregisterPowerHandlers(t) => TypeOK'
  BY PositionMembers, GotoType DEF UnregisterPowerHandlers
<1>15. ASSUME NEW t \in Threads PROVE TypeOK /\ ShutDownManager(t) => TypeOK'
  <2>1. TypeOK /\ ShutDownManager(t) =>
          pc' \in [Threads -> Positions]
    BY PositionMembers, GotoType DEF ShutDownManager
  <2>2. TypeOK /\ ShutDownManager(t) =>
          manager' \in BOOLEAN /\ link' \in {"up", "down"}
    BY DEF ShutDownManager
  <2>3. TypeOK /\ ShutDownManager(t) =>
          UNCHANGED <<policyVars, cacheVars, activation, shownName, pushVars,
                      powerVars, passVars, appVars, calls, raced, unsettled>>
    BY DEF ShutDownManager
  <2>. QED
    BY <2>1, <2>2, <2>3
<1>16. ASSUME NEW t \in Threads PROVE TypeOK /\ ResetStatics(t) => TypeOK'
  <2>1. TypeOK /\ ResetStatics(t) =>
          pc' \in [Threads -> Positions]
    BY PositionMembers, GotoType DEF ResetStatics
  <2>2. TypeOK /\ ResetStatics(t) =>
          /\ xcastEnable' \in BOOLEAN /\ standbyBehavior' \in BOOLEAN
          /\ plugin' \in BOOLEAN /\ unsettled' \in BOOLEAN
    BY DefaultAssumption DEF ResetStatics
  <2>3. TypeOK /\ ResetStatics(t) =>
          UNCHANGED <<powerState, friendlyName, cacheVars, manager, gdialVars, pushVars,
                      devicePower, registered, restartReq, restartOwed, passVars,
                      appVars, calls, raced>>
    BY DEF ResetStatics
  <2>. QED
    BY <2>1, <2>2, <2>3
<1>17. ASSUME NEW t \in Threads PROVE TypeOK /\ Reinitialize(t) => TypeOK'
  <2>1. TypeOK /\ Reinitialize(t) =>
          pc' \in [Threads -> Positions]
    BY PositionMembers, GotoType DEF Reinitialize
  <2>2. TypeOK /\ Reinitialize(t) =>
          manager' \in BOOLEAN /\ restartReq' \in BOOLEAN /\ restartOwed' \in BOOLEAN
    BY DEF Reinitialize
  <2>3. TypeOK /\ Reinitialize(t) =>
          UNCHANGED <<policyVars, cacheVars, gdialVars, pushVars, devicePower, plugin,
                      registered, passVars, appVars, calls, raced, unsettled>>
    BY DEF Reinitialize
  <2>. QED
    BY <2>1, <2>2, <2>3
<1>18. ASSUME NEW t \in Threads PROVE TypeOK /\ CheckStandbyBehavior(t) => TypeOK'
  <2>1. TypeOK /\ CheckStandbyBehavior(t) =>
          pc' \in [Threads -> Positions]
    BY PositionMembers, GotoType DEF CheckStandbyBehavior
  <2>2. TypeOK /\ CheckStandbyBehavior(t) =>
          raced' \in BOOLEAN /\ unsettled' \in BOOLEAN
    BY BeginType DEF CheckStandbyBehavior
  <2>. QED
    BY <2>1, <2>2 DEF CheckStandbyBehavior
<1>19. ASSUME NEW t \in Threads PROVE TypeOK /\ EvaluatePower(t) => TypeOK'
  <2>1. TypeOK /\ EvaluatePower(t) =>
          (xcastEnable /\ powerState = "ON") \in BOOLEAN
    BY Zenon DEF EvaluatePower
  <2>2. TypeOK /\ EvaluatePower(t) =>
          /\ pc' \in [Threads -> Positions] /\ flag' \in [Threads -> BOOLEAN]
          /\ name' \in [Threads -> Names] /\ then' \in [Threads -> Continuations]
    BY <2>1, ContinuationMembers, EnterType DEF EvaluatePower
  <2>. QED
    BY <2>1, <2>2 DEF EvaluatePower
<1>20. TypeOK /\ SetStandbyBehavior => TypeOK'
  BY CallType DEF SetStandbyBehavior
<1>21. TypeOK /\ LinkUp => TypeOK'
  <2>1. TypeOK /\ LinkUp =>
          calls' \in 0..MaxCalls /\ shownName' \in Names
    BY CallType, NameAssumption DEF LinkUp
  <2>2. TypeOK /\ LinkUp =>
          /\ link' \in {"up", "down"} /\ activation' \in BOOLEAN
          /\ push' \in {"idle", "apps", "read", "call"}
    BY DEF LinkUp
  <2>3. TypeOK /\ LinkUp =>
          UNCHANGED <<policyVars, cacheVars, manager, pushFlag, powerVars, pc, passVars,
                      appVars, raced, unsettled>>
    BY DEF LinkUp, threadVars
  <2>. QED
    BY <2>1, <2>2, <2>3
<1>22. TypeOK /\ LinkDown => TypeOK'
  BY CallType DEF LinkDown
<1>23. TypeOK /\ PushApplications => TypeOK'
  BY DEF PushApplications
<1>24. TypeOK /\ PushReadsFlag => TypeOK'
  BY DEF PushReadsFlag
<1>25. TypeOK /\ PushTellsManager => TypeOK'
  BY DEF PushTellsManager
<1>26. TypeOK /\ UNCHANGED vars => TypeOK'
  BY DEF vars
<1>. QED
  BY <1>1, <1>2, <1>3, <1>4, <1>5, <1>6, <1>7, <1>8, <1>9, <1>10, <1>11, <1>12, <1>13,
     <1>14, <1>15, <1>16, <1>17, <1>18, <1>19, <1>20, <1>21, <1>22, <1>23, <1>24, <1>25, <1>26
  DEF Next, Start, Continue, Replay

LEMMA TypeInit == Init => TypeOK
<1>1. Init => /\ pc \in [Threads -> Positions] /\ then \in [Threads -> Continuations]
              /\ flag \in [Threads -> BOOLEAN] /\ name \in [Threads -> Names]
  BY PositionMembers, ContinuationMembers, NameAssumption DEF Init
<1>2. Init => calls \in 0..MaxCalls
  BY CallAssumption DEF Init
<1>3. Init => powerState \in PowerStates /\ devicePower \in PowerStates
  BY DEF Init, PowerStates
<1>4. Init => {xcastEnable, standbyBehavior, plugin, registered} \subseteq BOOLEAN
  BY DefaultAssumption, Zenon DEF Init
<1>. QED
  BY <1>1, <1>2, <1>3, <1>4, NameAssumption, Zenon DEF Init, TypeOK

\* Every variable keeps its type, for any threads, names, defaults and calls.
THEOREM TypeCorrect == Spec => []TypeOK
BY TypeInit, TypeStep, PTL DEF Spec

-----------------------------------------------------------------------------
(* The link that CastEnable sees is a GdialLink. *)

\* The threads' own steps leave the instance alone, but for the restart's.
LEMMA ThreadsKeepLink ==
    ASSUME NEW t \in Threads, Start(t) \/ Continue(t)
    PROVE  UNCHANGED push /\ (link' = link \/ link' = "down")
BY DEF Start, Continue, SetEnabled, SetFriendlyName, RegisterApplications,
       UnregisterApplications, DisableForApplications, OnPowerModeChanged,
       PollPowerManager, Evaluate, TellManager, CacheFlag, CacheName,
       UpdateApplications, ReenableAfterApplications, PowerWorker,
       UnregisterPowerHandlers, ShutDownManager, ResetStatics, Reinitialize,
       CheckStandbyBehavior, EvaluatePower, gdialVars, pushVars

\* Every step makes, informs or ends the instance as GdialLink allows.
LEMMA LinkStep == [Next]_vars => [Link!Next]_(Link!vars)
<1> SUFFICES ASSUME [Next]_vars PROVE [Link!Next]_(Link!vars)
  OBVIOUS
<1> USE DEF Link!Next, Link!vars, Link!env, Link!link
<1>1. CASE UNCHANGED push /\ (link' = link \/ link' = "down")
  <2>1. CASE link = "up" /\ link' = "down"
    BY <1>1, <2>1 DEF Link!Withdraw
  <2>2. CASE link' = link
    BY <1>1, <2>2 DEF Link!EnvironmentStep
  <2>3. CASE link # "up" /\ link' # "up"
    BY <2>3 DEF Link!EnvironmentStep
  <2>. QED
    BY <1>1, <2>1, <2>2, <2>3
<1>2. CASE LinkUp
  <2>1. link = "down" /\ link' = "up" /\ push' = "apps"
    BY <1>2 DEF LinkUp
  <2>. QED
    BY <2>1 DEF Link!Create
<1>3. CASE PushApplications \/ PushReadsFlag
  <2>1. push # "idle" /\ push' # "idle" /\ link' = link
    BY <1>3 DEF PushApplications, PushReadsFlag, gdialVars
  <2>. QED
    BY <2>1 DEF Link!EnvironmentStep
<1>4. CASE PushTellsManager
  <2>1. push = "call" /\ push' = "idle" /\ link' = link
    BY <1>4 DEF PushTellsManager
  <2>2. CASE link = "up"
    BY <2>1, <2>2 DEF Link!Inform
  <2>3. CASE link # "up"
    BY <2>1, <2>3 DEF Link!EnvironmentStep
  <2>. QED
    BY <2>2, <2>3
<1>5. SetStandbyBehavior \/ LinkDown \/ UNCHANGED vars
         => UNCHANGED push /\ (link' = link \/ link' = "down")
  BY DEF SetStandbyBehavior, LinkDown, vars, gdialVars, pushVars
<1>. QED
  BY <1>1, <1>2, <1>3, <1>4, <1>5, ThreadsKeepLink DEF Next, Replay

\* What the policy sees of the instance is what LocateCast keeps: a composition of
\* the two modules has the link of GdialLink.
THEOREM LinkIsAssumed == Spec => LinkPromise
<1>1. Init => Link!Init
  BY DEF Init, Link!Init, Link!env
<1>. QED
  BY <1>1, LinkStep, PTL DEF Spec, LinkPromise, Link!Spec
=============================================================================
