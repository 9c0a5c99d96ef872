----------------------- MODULE CastEnablePolicy_proofs -----------------------
(***************************************************************************)
(* Proofs of the three invariants of CastEnable, for any threads, names,   *)
(* defaults and calls.                                                     *)
(*                                                                         *)
(* The argument: while the latest pass has run alone, there is at most one *)
(* pass under way (AloneInv), and what it carries, or what it has left in  *)
(* the caches, is the policy's decision, unless some thread is on its way  *)
(* to an evaluation (FlagInv, NameInv).  When all is quiet nobody is on    *)
(* the way.  Likewise gdial holds what the pass under way, or the caches,  *)
(* hold, unless a replay is on its way (ToldInv).                          *)
(***************************************************************************)
EXTENDS CastEnable_proofs

\* Thread t is in InPass.
Passing(t) == pc[t] \in {"evalPower", "manager", "cacheFlag", "cacheName"}

\* Thread t is on its way to an evaluation of the whole policy ...
WillEvaluate(t) == pc[t] \in {"poll", "evaluate"}

\* ... or to the power worker's, which it skips if standbyBehavior is set ...
WillWake(t) ==
    /\ pc[t] \in {"power", "deinit", "shutdown", "reset", "init", "check"}
    /\ ~standbyBehavior

\* ... or to the evaluation that may turn casting on, but not off.
WillReenable(t) ==
    \/ pc[t] \in {"apps", "tail"}
    \/ /\ pc[t] \in {"manager", "cacheFlag", "cacheName"}
       /\ then[t] \in {"register", "unregister"}

\* Decision f is the policy's, or it is off and some thread may turn it on.
Decides(f) == (f => Policy) /\ (f \/ ~Policy \/ \E t \in Threads : WillReenable(t))

\* There is one pass at most while the latest began and ran alone.
AloneInv == ~raced => \A t, u \in Threads : Passing(t) /\ Passing(u) => t = u

\* An instance needs a manager.
LinkInv == link = "up" => manager

\* A replay that met no pass carries what is still cached.
ReplayInv ==
    ~raced /\ push = "call" =>
        pushFlag = xcastEnableCache /\ \A t \in Threads : ~Passing(t)

\* Unless a replay is on its way, gdial holds what the caches hold, or what the
\* pass under way has told it and will cache.
ToldInv ==
    ~raced /\ link = "up" /\ push = "idle" =>
        /\ (\A t \in Threads : ~Passing(t)) =>
               activation = xcastEnableCache /\ shownName = friendlyNameCache
        /\ \A t \in Threads :
               /\ pc[t] \in {"cacheFlag", "cacheName"} =>
                      activation = flag[t] /\ shownName = name[t]
               /\ pc[t] = "cacheName" => xcastEnableCache = flag[t]

\* The power worker's evaluation is the policy's, because standbyBehavior is off.
WakeInv ==
    ~raced /\ ~unsettled => \A t \in Threads : pc[t] = "evalPower" => ~standbyBehavior

\* An evaluation is due, or the flag is the policy's: first the pass's, then the
\* cached one.
FlagInv ==
    ~raced /\ ~unsettled =>
        \/ \E t \in Threads : WillEvaluate(t) \/ WillWake(t)
        \/ /\ \A t \in Threads : pc[t] \in {"manager", "cacheFlag"} => Decides(flag[t])
           /\ (\A t \in Threads : pc[t] \notin {"evalPower", "manager", "cacheFlag"})
                  => Decides(xcastEnableCache)

\* Likewise the name.
NameInv ==
    ~raced /\ ~unsettled =>
        \/ \E t \in Threads : WillEvaluate(t)
        \/ /\ \A t \in Threads :
                  pc[t] \in {"manager", "cacheFlag", "cacheName"} => name[t] = friendlyName
           /\ (\A t \in Threads : ~Passing(t)) => friendlyNameCache = friendlyName

PassInv == AloneInv /\ LinkInv /\ ReplayInv /\ ToldInv
DecisionInv == WakeInv /\ FlagInv /\ NameInv

\* The functions' types, which is all the steps below need of TypeOK.
Types == /\ pc \in [Threads -> Positions]
         /\ flag \in [Threads -> BOOLEAN] /\ name \in [Threads -> Names]
         /\ then \in [Threads -> Continuations]

\* TypeOK gives them.
LEMMA TypesHold == TypeOK => Types
BY DEF TypeOK, Types

-----------------------------------------------------------------------------
(* Steps by what they do to the passes. *)

\* Goto moves one thread.
LEMMA Moved ==
    ASSUME NEW t \in Threads, NEW p, Types, Goto(t, p)
    PROVE  /\ pc'[t] = p
           /\ \A u \in Threads : u # t => pc'[u] = pc[u]
BY DEF Types, Goto

\* Enter gives one thread its pass.
LEMMA Entered ==
    ASSUME NEW t \in Threads, NEW f, NEW n, NEW c, Types, Enter(t, f, n, c)
    PROVE  /\ pc'[t] = "manager" /\ flag'[t] = f /\ name'[t] = n /\ then'[t] = c
           /\ \A u \in Threads : u # t =>
                  /\ pc'[u] = pc[u] /\ flag'[u] = flag[u]
                  /\ name'[u] = name[u] /\ then'[u] = then[u]
BY DEF Types, Enter, Goto

\* A step that neither begins, continues nor replays a pass.
Aside ==
    /\ \A u \in Threads : (Passing(u) \/ Passing(u)') => pc'[u] = pc[u]
    /\ UNCHANGED <<raced, push, pushFlag, xcastEnableCache, friendlyNameCache,
                   activation, shownName, flag, name>>
    /\ link' # link => link' = "down"
    /\ manager' # manager => manager' \/ link' = "down"

\* Thread t begins a pass.
Begins(t) ==
    /\ Begin
    /\ pc'[t] \in {"evalPower", "manager"}
    /\ \A u \in Threads : u # t => pc'[u] = pc[u]
    /\ UNCHANGED <<push, pushFlag, xcastEnableCache, friendlyNameCache, activation,
                   shownName, link, manager>>

\* A pass that begins alone is the only one.
LEMMA Quiet ==
    ASSUME NEW t \in Threads, Types, AloneInv, Begins(t), ~raced'
    PROVE  push # "call" /\ \A u \in Threads : Passing(u)' => u = t
<1>1. InPass = {} /\ push # "call"
  BY DEF Begins, Begin
<1>. QED
  BY <1>1 DEF Begins, InPass, Passing

\* PassInv through a step aside.
LEMMA AsideStep == ASSUME PassInv, Aside PROVE PassInv'
<1>1. \A u \in Threads : (Passing(u)' <=> Passing(u)) /\ (Passing(u) => pc'[u] = pc[u])
  BY DEF Aside, Passing
<1>2. AloneInv'
  BY <1>1 DEF PassInv, AloneInv, Aside
<1>3. LinkInv'
  BY DEF PassInv, LinkInv, Aside
<1>4. ReplayInv'
  BY <1>1 DEF PassInv, ReplayInv, Aside
<1>5. ToldInv'
  BY <1>1 DEF PassInv, ToldInv, Aside, Passing
<1>. QED
  BY <1>2, <1>3, <1>4, <1>5 DEF PassInv

\* PassInv through the beginning of a pass, alone or not.
LEMMA BeginStep == ASSUME NEW t \in Threads, Types, PassInv, Begins(t) PROVE PassInv'
<1>1. ~raced' => push # "call" /\ \A u \in Threads : Passing(u)' => u = t
  BY Quiet DEF PassInv
<1>2. Passing(t)'
  BY DEF Begins, Passing
<1>3. AloneInv'
  BY <1>1 DEF AloneInv
<1>4. LinkInv' /\ ReplayInv'
  BY <1>1 DEF PassInv, LinkInv, ReplayInv, Begins
<1>5. ToldInv'
  BY <1>1, <1>2 DEF ToldInv, Begins, Passing
<1>. QED
  BY <1>3, <1>4, <1>5 DEF PassInv

-----------------------------------------------------------------------------
(* PassInv is inductive. *)

\* At most one pass while the latest ran alone, and gdial told what it carries.
LEMMA PassStep == Types /\ PassInv /\ [Next]_vars => PassInv'
<1> SUFFICES ASSUME Types, PassInv PROVE [Next]_vars => PassInv'
  OBVIOUS
<1> USE DEF cacheVars, gdialVars, pushVars, passVars
<1>1. ASSUME NEW t \in Threads,
             SetEnabled(t) \/ SetFriendlyName(t) \/ OnPowerModeChanged(t)
      PROVE  PassInv'
  <2>1. Aside
    BY <1>1, Moved DEF Aside, Passing, SetEnabled, SetFriendlyName, OnPowerModeChanged
  <2>. QED
    BY <2>1, AsideStep
<1>2. ASSUME NEW t \in Threads,
             \/ PollPowerManager(t) \/ UpdateApplications(t) \/ PowerWorker(t)
             \/ UnregisterPowerHandlers(t)
      PROVE  PassInv'
  <2>1. Aside
    BY <1>2, Moved
    DEF Aside, Passing, PollPowerManager, UpdateApplications, PowerWorker,
        UnregisterPowerHandlers
  <2>. QED
    BY <2>1, AsideStep
<1>3. ASSUME NEW t \in Threads, ShutDownManager(t) \/ ResetStatics(t) \/ Reinitialize(t)
      PROVE  PassInv'
  <2>1. /\ \E p \in {"reset", "init", "check"} : Goto(t, p)
        /\ pc[t] \in {"shutdown", "reset", "init"}
    BY <1>3 DEF ShutDownManager, ResetStatics, Reinitialize
  <2>2. \A u \in Threads : (Passing(u) \/ Passing(u)') => pc'[u] = pc[u]
    BY <2>1, Moved DEF Passing
  <2>3. /\ UNCHANGED <<raced, pushVars, cacheVars, activation, shownName, passVars>>
        /\ link' # link => link' = "down"
        /\ manager' # manager => manager' \/ link' = "down"
    BY <1>3 DEF ShutDownManager, ResetStatics, Reinitialize
  <2>4. Aside
    BY <2>2, <2>3 DEF Aside
  <2>. QED
    BY <2>4, AsideStep
<1>4. ASSUME NEW t \in Threads,
             Evaluate(t) \/ RegisterApplications(t) \/ UnregisterApplications(t)
      PROVE  PassInv'
  <2>1. /\ Begin /\ \E f, n, c : Enter(t, f, n, c)
        /\ UNCHANGED <<pushVars, cacheVars, gdialVars, manager>>
    BY <1>4
    DEF Evaluate, RegisterApplications, UnregisterApplications, DisableForApplications
  <2>2. pc'[t] = "manager" /\ \A u \in Threads : u # t => pc'[u] = pc[u]
    BY <2>1, Entered
  <2>3. Begins(t)
    BY <2>1, <2>2 DEF Begins
  <2>. QED
    BY <2>3, BeginStep
<1>5. ASSUME NEW t \in Threads, ReenableAfterApplications(t) \/ CheckStandbyBehavior(t)
      PROVE  PassInv'
  <2>1. UNCHANGED <<pushVars, cacheVars, gdialVars, manager>>
    BY <1>5 DEF ReenableAfterApplications, CheckStandbyBehavior
  <2>2. CASE Begin /\ (Goto(t, "evalPower") \/ \E n, c : Enter(t, TRUE, n, c))
    <3>1. /\ pc'[t] \in {"evalPower", "manager"}
          /\ \A u \in Threads : u # t => pc'[u] = pc[u]
      BY <2>2, Entered, Moved
    <3>2. Begins(t)
      BY <2>1, <2>2, <3>1 DEF Begins
    <3>. QED
      BY <3>2, BeginStep
  <2>3. CASE /\ pc[t] \in {"tail", "check"} /\ Goto(t, "idle")
             /\ UNCHANGED <<passVars, raced>>
    <3>1. \A u \in Threads : (Passing(u) \/ Passing(u)') => pc'[u] = pc[u]
      BY <2>3, Moved DEF Passing
    <3>2. Aside
      BY <2>1, <2>3, <3>1 DEF Aside
    <3>. QED
      BY <3>2, AsideStep
  <2>. QED
    BY <1>5, <2>2, <2>3 DEF ReenableAfterApplications, CheckStandbyBehavior
<1>6. ASSUME NEW t \in Threads, EvaluatePower(t) PROVE PassInv'
  BY <1>6, Entered
  DEF EvaluatePower, PassInv, AloneInv, LinkInv, ReplayInv, ToldInv, Passing
<1>7. ASSUME NEW t \in Threads, TellManager(t) PROVE PassInv'
  BY <1>7, Moved
  DEF TellManager, PassInv, AloneInv, LinkInv, ReplayInv, ToldInv, Passing
<1>8. ASSUME NEW t \in Threads, CacheFlag(t) PROVE PassInv'
  BY <1>8, Moved
  DEF CacheFlag, PassInv, AloneInv, LinkInv, ReplayInv, ToldInv, Passing
<1>9. ASSUME NEW t \in Threads, CacheName(t) PROVE PassInv'
  BY <1>9, Moved
  DEF CacheName, PassInv, AloneInv, LinkInv, ReplayInv, ToldInv, Passing
<1>10. SetStandbyBehavior \/ LinkDown => PassInv'
  BY AsideStep DEF SetStandbyBehavior, LinkDown, threadVars, Aside, Passing
<1>11. LinkUp \/ PushApplications => PassInv'
  BY DEF LinkUp, PushApplications, threadVars, PassInv, AloneInv, LinkInv, ReplayInv,
         ToldInv, Passing
<1>12. PushReadsFlag => PassInv'
  <2>1. PushReadsFlag /\ ~raced' => ~raced /\ \A t \in Threads : ~Passing(t)
    BY DEF PushReadsFlag, InPass, Passing
  <2>. QED
    BY <2>1 DEF PushReadsFlag, threadVars, PassInv, AloneInv, LinkInv, ReplayInv,
                ToldInv, Passing
<1>13. PushTellsManager => PassInv'
  BY DEF PushTellsManager, threadVars, PassInv, AloneInv, LinkInv, ReplayInv, ToldInv,
         Passing
<1>14. UNCHANGED vars => PassInv'
  BY AsideStep DEF vars, Aside, Passing
<1>. QED
  BY <1>1, <1>2, <1>3, <1>4, <1>5, <1>6, <1>7, <1>8, <1>9, <1>10, <1>11, <1>12, <1>13,
     <1>14
  DEF Next, Start, Continue, Replay

-----------------------------------------------------------------------------
(* DecisionInv is inductive. *)

\* A step after which every decision is as good as it was.
Steady ==
    /\ \A u \in Threads :
           /\ Passing(u) \/ Passing(u)' => pc'[u] = pc[u]
           /\ WillEvaluate(u) => WillEvaluate(u)'
           /\ WillWake(u) => WillWake(u)'
           /\ WillReenable(u) => WillReenable(u)'
    /\ UNCHANGED <<xcastEnable, standbyBehavior, powerState, friendlyName,
                   xcastEnableCache, friendlyNameCache, flag, name>>
    /\ raced => raced'
    /\ unsettled => unsettled'

\* DecisionInv through a steady step.
LEMMA SteadyStep == ASSUME DecisionInv, Steady PROVE DecisionInv'
<1>1. \A u \in Threads : (Passing(u)' <=> Passing(u)) /\ (Passing(u) => pc'[u] = pc[u])
  BY DEF Steady, Passing
<1>2. \A f : Decides(f) => Decides(f)'
  BY DEF Decides, Policy, Steady
<1>3. WakeInv'
  BY <1>1 DEF DecisionInv, WakeInv, Steady, Passing
<1>4. FlagInv'
  BY <1>1, <1>2 DEF DecisionInv, FlagInv, Steady, Passing
<1>5. NameInv'
  BY <1>1 DEF DecisionInv, NameInv, Steady, Passing
<1>. QED
  BY <1>3, <1>4, <1>5 DEF DecisionInv

\* DecisionInv through the beginning of a pass that carries the policy's decision.
LEMMA DecisionBegins ==
    ASSUME NEW t \in Threads, Types, AloneInv, Begins(t),
           pc'[t] = "manager" => Decides(flag[t])' /\ name'[t] = friendlyName',
           pc'[t] = "evalPower" => ~standbyBehavior'
    PROVE  DecisionInv'
<1>1. ~raced' => \A u \in Threads : Passing(u)' => u = t
  BY Quiet
<1>2. Passing(t)' /\ pc'[t] \in {"evalPower", "manager"}
  BY DEF Begins, Passing
<1>. QED
  BY <1>1, <1>2 DEF DecisionInv, WakeInv, FlagInv, NameInv, Passing

\* The decision under way or cached is the policy's, or an evaluation is due.
LEMMA DecisionStep == Types /\ AloneInv /\ DecisionInv /\ [Next]_vars => DecisionInv'
<1> SUFFICES ASSUME Types, AloneInv, DecisionInv PROVE [Next]_vars => DecisionInv'
  OBVIOUS
<1> USE DEF policyVars, cacheVars, passVars
(* Steps that leave every decision as good as it was. *)
<1>1. ASSUME NEW t \in Threads, PowerWorker(t) \/ UnregisterPowerHandlers(t)
      PROVE  DecisionInv'
  <2>1. Steady
    BY <1>1, Moved
    DEF Steady, Passing, WillEvaluate, WillWake, WillReenable, PowerWorker,
        UnregisterPowerHandlers
  <2>. QED
    BY <2>1, SteadyStep
<1>2. ASSUME NEW t \in Threads, ShutDownManager(t) \/ Reinitialize(t)
      PROVE  DecisionInv'
  <2>1. Steady
    BY <1>2, Moved
    DEF Steady, Passing, WillEvaluate, WillWake, WillReenable, ShutDownManager,
        Reinitialize
  <2>. QED
    BY <2>1, SteadyStep
<1>3. ASSUME NEW t \in Threads, UpdateApplications(t) PROVE DecisionInv'
  <2>1. Steady
    BY <1>3, Moved
    DEF Steady, Passing, WillEvaluate, WillWake, WillReenable, UpdateApplications
  <2>. QED
    BY <2>1, SteadyStep
<1>4. LinkUp \/ LinkDown \/ Replay \/ UNCHANGED vars => DecisionInv'
  <2>1. LinkUp \/ LinkDown \/ Replay \/ UNCHANGED vars =>
            /\ UNCHANGED <<policyVars, cacheVars, pc, passVars, unsettled>>
            /\ raced => raced'
    <3>1. LinkUp \/ LinkDown \/ PushApplications \/ PushTellsManager =>
              UNCHANGED <<policyVars, cacheVars, pc, passVars, unsettled, raced>>
      BY DEF LinkUp, LinkDown, PushApplications, PushTellsManager, threadVars
    <3>2. PushReadsFlag => UNCHANGED <<policyVars, cacheVars, pc, passVars, unsettled>>
      BY DEF PushReadsFlag, threadVars
    <3>3. PushReadsFlag => (raced => raced')
      BY DEF PushReadsFlag
    <3>4. UNCHANGED vars =>
              UNCHANGED <<policyVars, cacheVars, pc, passVars, unsettled, raced>>
      BY DEF vars
    <3>. QED
      BY <3>1, <3>2, <3>3, <3>4 DEF Replay
  <2>2. LinkUp \/ LinkDown \/ Replay \/ UNCHANGED vars => Steady
    BY <2>1 DEF Steady, Passing, WillEvaluate, WillWake, WillReenable
  <2>. QED
    BY <2>2, SteadyStep
(* Steps after which an evaluation is due. *)
<1>5. ASSUME NEW t \in Threads, SetEnabled(t) \/ PollPowerManager(t) \/ SetFriendlyName(t)
      PROVE  DecisionInv'
  <2>1. pc'[t] \in {"poll", "evaluate"} /\ \A u \in Threads : u # t => pc'[u] = pc[u]
    BY <1>5, Moved DEF SetEnabled, PollPowerManager, SetFriendlyName
  <2>2. WillEvaluate(t)' /\ \A u \in Threads : pc'[u] = "evalPower" => pc[u] = "evalPower"
    BY <2>1 DEF WillEvaluate
  <2>3. UNCHANGED <<standbyBehavior, raced, unsettled>>
    BY <1>5 DEF SetEnabled, PollPowerManager, SetFriendlyName
  <2>. QED
    BY <2>2, <2>3 DEF DecisionInv, WakeInv, FlagInv, NameInv
<1>6. ASSUME NEW t \in Threads, OnPowerModeChanged(t) PROVE DecisionInv'
  <2>1. CASE powerState' = powerState
    <3>1. Steady
      BY <1>6, <2>1, Moved
      DEF Steady, Passing, WillEvaluate, WillWake, WillReenable, OnPowerModeChanged
    <3>. QED
      BY <3>1, SteadyStep
  <2>2. CASE powerState' # powerState
    <3>1. pc[t] = "idle" /\ pc'[t] = "power" /\ \A u \in Threads : u # t => pc'[u] = pc[u]
      BY <1>6, <2>2, Moved DEF OnPowerModeChanged
    <3>2. UNCHANGED <<xcastEnable, standbyBehavior, friendlyName, xcastEnableCache,
                      friendlyNameCache, flag, name, then, raced, unsettled>>
      BY <1>6 DEF OnPowerModeChanged
    <3>3. WakeInv' /\ NameInv'
      BY <3>1, <3>2 DEF DecisionInv, WakeInv, NameInv, Passing, WillEvaluate
    <3>4. CASE standbyBehavior
      <4>1. \A u \in Threads : WillReenable(u)' <=> WillReenable(u)
        BY <3>1, <3>2 DEF WillReenable
      <4>2. \A f : Decides(f) => Decides(f)'
        BY <3>2, <3>4, <4>1 DEF Decides, Policy
      <4>. QED
        BY <3>1, <3>2, <3>3, <3>4, <4>2
        DEF DecisionInv, FlagInv, WillEvaluate, WillWake
    <3>5. CASE ~standbyBehavior
      <4>1. WillWake(t)'
        BY <3>1, <3>2, <3>5 DEF WillWake
      <4>. QED
        BY <3>3, <4>1 DEF DecisionInv, FlagInv
    <3>. QED
      BY <3>4, <3>5
  <2>. QED
    BY <2>1, <2>2
(* Steps that change an input and owe no evaluation. *)
<1>7. ASSUME SetStandbyBehavior PROVE DecisionInv'
  <2>1. CASE standbyBehavior' = standbyBehavior
    <3>1. Steady
      BY <1>7, <2>1
      DEF Steady, Passing, WillEvaluate, WillWake, WillReenable, SetStandbyBehavior
    <3>. QED
      BY <3>1, SteadyStep
  <2>2. CASE standbyBehavior' # standbyBehavior
    BY <1>7, <2>2 DEF SetStandbyBehavior, DecisionInv, WakeInv, FlagInv, NameInv
  <2>. QED
    BY <2>1, <2>2
<1>8. ASSUME NEW t \in Threads, ResetStatics(t) PROVE DecisionInv'
  BY <1>8 DEF ResetStatics, DecisionInv, WakeInv, FlagInv, NameInv
(* Steps that begin a pass. *)
<1>9. ASSUME NEW t \in Threads, Evaluate(t) PROVE DecisionInv'
  <2>1. Begins(t) /\ flag'[t] = Policy /\ name'[t] = friendlyName
    BY <1>9, Entered DEF Begins, Evaluate, gdialVars, pushVars
  <2>2. UNCHANGED <<friendlyName, xcastEnable, standbyBehavior, powerState>>
        /\ pc'[t] = "manager"
    BY <1>9, Entered DEF Evaluate
  <2>3. Decides(flag[t])'
    BY <2>1, <2>2 DEF Decides, Policy
  <2>. QED
    BY <2>1, <2>2, <2>3, DecisionBegins
<1>10. ASSUME NEW t \in Threads, RegisterApplications(t) \/ UnregisterApplications(t)
       PROVE  DecisionInv'
  <2>1. /\ Begins(t) /\ flag'[t] = FALSE /\ name'[t] = friendlyName
        /\ then'[t] \in {"register", "unregister"} /\ pc'[t] = "manager"
        /\ friendlyName' = friendlyName
    BY <1>10, Entered
    DEF Begins, RegisterApplications, UnregisterApplications, DisableForApplications,
        gdialVars, pushVars
  <2>2. Decides(flag[t])'
    BY <2>1 DEF Decides, WillReenable
  <2>. QED
    BY <2>1, <2>2, DecisionBegins
<1>11. ASSUME NEW t \in Threads, ReenableAfterApplications(t) PROVE DecisionInv'
  <2>1. CASE Policy
    <3>1. /\ Begins(t) /\ flag'[t] = TRUE /\ name'[t] = friendlyName
          /\ pc'[t] = "manager"
      BY <1>11, <2>1, Entered DEF Begins, ReenableAfterApplications, gdialVars, pushVars
    <3>2. UNCHANGED <<friendlyName, xcastEnable, standbyBehavior, powerState>>
      BY <1>11 DEF ReenableAfterApplications
    <3>3. Decides(flag[t])'
      BY <2>1, <3>1, <3>2 DEF Decides, Policy
    <3>. QED
      BY <3>1, <3>2, <3>3, DecisionBegins
  <2>2. CASE ~Policy
    <3>1. pc[t] = "tail" /\ pc'[t] = "idle" /\ \A u \in Threads : u # t => pc'[u] = pc[u]
      BY <1>11, <2>2, Moved DEF ReenableAfterApplications
    <3>2. UNCHANGED <<policyVars, cacheVars, passVars, raced, unsettled>>
      BY <1>11, <2>2 DEF ReenableAfterApplications
    <3>3. \A f : Decides(f) => Decides(f)'
      BY <2>2, <3>2 DEF Decides, Policy
    <3>. QED
      BY <3>1, <3>2, <3>3
      DEF DecisionInv, WakeInv, FlagInv, NameInv, Passing, WillEvaluate, WillWake
  <2>. QED
    BY <2>1, <2>2
<1>12. ASSUME NEW t \in Threads, CheckStandbyBehavior(t) PROVE DecisionInv'
  <2>1. CASE ~standbyBehavior
    <3>1. Begins(t) /\ pc'[t] = "evalPower" /\ ~standbyBehavior'
      BY <1>12, <2>1, Moved DEF Begins, CheckStandbyBehavior, gdialVars, pushVars
    <3>. QED
      BY <3>1, DecisionBegins
  <2>2. CASE standbyBehavior
    <3>1. Steady
      BY <1>12, <2>2, Moved
      DEF Steady, Passing, WillEvaluate, WillWake, WillReenable, CheckStandbyBehavior
    <3>. QED
      BY <3>1, SteadyStep
  <2>. QED
    BY <2>1, <2>2
(* Steps of a pass under way. *)
<1>13. ASSUME NEW t \in Threads, EvaluatePower(t) PROVE DecisionInv'
  <2>1. /\ pc[t] = "evalPower" /\ pc'[t] = "manager" /\ then'[t] = "idle"
        /\ flag'[t] = (xcastEnable /\ powerState = "ON") /\ name'[t] = friendlyName
        /\ \A u \in Threads : u # t => pc'[u] = pc[u] /\ name'[u] = name[u]
    BY <1>13, Entered DEF EvaluatePower
  <2>2. UNCHANGED <<policyVars, cacheVars, raced, unsettled>>
    BY <1>13 DEF EvaluatePower
  <2>3. ~raced => \A u \in Threads : u # t => ~Passing(u)
    BY <2>1 DEF AloneInv, Passing
  <2>4. WakeInv' /\ NameInv'
    BY <2>1, <2>2, <2>3 DEF DecisionInv, WakeInv, NameInv, Passing, WillEvaluate
  <2>5. ~raced /\ ~unsettled => Decides(flag[t])'
    BY <2>1, <2>2 DEF DecisionInv, WakeInv, Decides, Policy
  <2>6. FlagInv'
    BY <2>1, <2>2, <2>3, <2>5 DEF FlagInv, Passing
  <2>. QED
    BY <2>4, <2>6 DEF DecisionInv
<1>14. ASSUME NEW t \in Threads, TellManager(t) PROVE DecisionInv'
  <2>1. /\ pc[t] = "manager" /\ pc'[t] = "cacheFlag"
        /\ \A u \in Threads : u # t => pc'[u] = pc[u]
    BY <1>14, Moved DEF TellManager
  <2>2. UNCHANGED <<policyVars, cacheVars, passVars, raced, unsettled>>
    BY <1>14 DEF TellManager
  <2>3. \A u \in Threads : WillReenable(u)' <=> WillReenable(u)
    BY <2>1, <2>2 DEF WillReenable
  <2>4. \A f : Decides(f) => Decides(f)'
    BY <2>2, <2>3 DEF Decides, Policy
  <2>. QED
    BY <2>1, <2>2, <2>4
    DEF DecisionInv, WakeInv, FlagInv, NameInv, Passing, WillEvaluate, WillWake
<1>15. ASSUME NEW t \in Threads, CacheFlag(t) PROVE DecisionInv'
  <2>1. /\ pc[t] = "cacheFlag" /\ pc'[t] = "cacheName" /\ xcastEnableCache' = flag[t]
        /\ \A u \in Threads : u # t => pc'[u] = pc[u]
    BY <1>15, Moved DEF CacheFlag
  <2>2. UNCHANGED <<policyVars, friendlyNameCache, passVars, raced, unsettled>>
    BY <1>15 DEF CacheFlag
  <2>3. \A u \in Threads : WillReenable(u)' <=> WillReenable(u)
    BY <2>1, <2>2 DEF WillReenable
  <2>4. \A f : Decides(f) => Decides(f)'
    BY <2>2, <2>3 DEF Decides, Policy
  <2>5. WakeInv' /\ NameInv'
    BY <2>1, <2>2 DEF DecisionInv, WakeInv, NameInv, Passing, WillEvaluate
  <2>6. FlagInv'
    BY <2>1, <2>2, <2>4 DEF DecisionInv, FlagInv, WillEvaluate, WillWake
  <2>. QED
    BY <2>5, <2>6 DEF DecisionInv
<1>16. ASSUME NEW t \in Threads, CacheName(t) PROVE DecisionInv'
  <2>1. /\ pc[t] = "cacheName" /\ friendlyNameCache' = name[t]
        /\ pc'[t] = IF then[t] \in {"register", "unregister"} THEN "apps" ELSE "idle"
        /\ \A u \in Threads : u # t => pc'[u] = pc[u]
    BY <1>16, Moved DEF CacheName
  <2>2. UNCHANGED <<policyVars, xcastEnableCache, passVars, raced, unsettled>>
    BY <1>16 DEF CacheName
  <2>3. \A u \in Threads : WillReenable(u) => WillReenable(u)'
    BY <2>1, <2>2 DEF WillReenable
  <2>4. \A f : Decides(f) => Decides(f)'
    BY <2>2, <2>3 DEF Decides, Policy
  <2>5. WakeInv' /\ NameInv'
    BY <2>1, <2>2 DEF DecisionInv, WakeInv, NameInv, Passing, WillEvaluate
  <2>6. FlagInv'
    BY <2>1, <2>2, <2>4 DEF DecisionInv, FlagInv, WillEvaluate, WillWake
  <2>. QED
    BY <2>5, <2>6 DEF DecisionInv
<1>. QED
  BY <1>1, <1>2, <1>3, <1>4, <1>5, <1>6, <1>7, <1>8, <1>9, <1>10, <1>11, <1>12, <1>13,
     <1>14, <1>15, <1>16
  DEF Next, Start, Continue

-----------------------------------------------------------------------------
(* The lock of the application list. *)

\* LockIsReleased needs no strengthening but the types.
LEMMA LockStep ==
    ASSUME TypeOK, LockIsReleased, [Next]_vars
    PROVE  LockIsReleased'
<1> USE ThreadAssumption DEF appVars, passVars
<1>1. Types /\ (appLock # NoThread => appLock \in Threads)
  BY TypesHold DEF TypeOK
<1>2. ASSUME NEW t \in Threads,
             SetEnabled(t) \/ SetFriendlyName(t) \/ OnPowerModeChanged(t)
      PROVE  LockIsReleased'
  BY <1>1, <1>2, Moved DEF LockIsReleased, SetEnabled, SetFriendlyName, OnPowerModeChanged
<1>3. ASSUME NEW t \in Threads,
             \/ PollPowerManager(t) \/ PowerWorker(t) \/ UnregisterPowerHandlers(t)
             \/ ShutDownManager(t)
      PROVE  LockIsReleased'
  BY <1>1, <1>3, Moved
  DEF LockIsReleased, PollPowerManager, PowerWorker, UnregisterPowerHandlers, ShutDownManager
<1>4. ASSUME NEW t \in Threads,
             ResetStatics(t) \/ Reinitialize(t) \/ CheckStandbyBehavior(t)
      PROVE  LockIsReleased'
  BY <1>1, <1>4, Moved DEF LockIsReleased, ResetStatics, Reinitialize, CheckStandbyBehavior
<1>5. ASSUME NEW t \in Threads, Evaluate(t) \/ EvaluatePower(t) PROVE LockIsReleased'
  BY <1>1, <1>5, Entered DEF LockIsReleased, Evaluate, EvaluatePower
<1>6. ASSUME NEW t \in Threads, RegisterApplications(t) \/ UnregisterApplications(t)
      PROVE  LockIsReleased'
  <2>1. /\ pc[t] = "idle" /\ \E f, n, c : Enter(t, f, n, c)
        /\ UNCHANGED appLock
    BY <1>6 DEF RegisterApplications, UnregisterApplications, DisableForApplications
  <2>2. \A u \in Threads : u # t => pc'[u] = pc[u] /\ then'[u] = then[u]
    BY <1>1, <2>1, Entered
  <2>. QED
    BY <1>1, <2>1, <2>2 DEF LockIsReleased
<1>7. ASSUME NEW t \in Threads, TellManager(t) \/ CacheFlag(t) PROVE LockIsReleased'
  <2>1. UNCHANGED <<then, appLock>>
    BY <1>7 DEF TellManager, CacheFlag
  <2>2. /\ pc[t] \in {"manager", "cacheFlag"}
        /\ Goto(t, "cacheFlag") \/ Goto(t, "cacheName")
    BY <1>7 DEF TellManager, CacheFlag
  <2>3. /\ pc'[t] \in {"cacheFlag", "cacheName"}
        /\ \A u \in Threads : u # t => pc'[u] = pc[u]
    BY <1>1, <2>2, Moved
  <2>. QED
    BY <1>1, <2>1, <2>2, <2>3 DEF LockIsReleased
<1>8. ASSUME NEW t \in Threads, CacheName(t) PROVE LockIsReleased'
  BY <1>1, <1>8, Moved DEF LockIsReleased, CacheName
<1>9. ASSUME NEW t \in Threads, UpdateApplications(t) PROVE LockIsReleased'
  BY <1>1, <1>9, Moved DEF LockIsReleased, UpdateApplications
<1>10. ASSUME NEW t \in Threads, ReenableAfterApplications(t) PROVE LockIsReleased'
  <2>1. CASE Policy
    <3>1. /\ pc[t] = "tail" /\ appLock' = appLock
          /\ Enter(t, TRUE, friendlyName,
                   IF then[t] = "register" THEN "unlock" ELSE "idle")
      BY <1>10, <2>1 DEF ReenableAfterApplications
    <3>2. /\ pc'[t] = "manager"
          /\ then'[t] = IF then[t] = "register" THEN "unlock" ELSE "idle"
          /\ \A u \in Threads : u # t => pc'[u] = pc[u] /\ then'[u] = then[u]
      BY <1>1, <3>1, Entered
    <3>. QED
      BY <1>1, <3>1, <3>2 DEF LockIsReleased
  <2>2. CASE ~Policy
    <3>1. /\ pc[t] = "tail" /\ Goto(t, "idle") /\ UNCHANGED then
          /\ appLock' = IF then[t] = "register" THEN NoThread ELSE appLock
      BY <1>10, <2>2 DEF ReenableAfterApplications
    <3>2. pc'[t] = "idle" /\ \A u \in Threads : u # t => pc'[u] = pc[u]
      BY <1>1, <3>1, Moved
    <3>. QED
      BY <1>1, <3>1, <3>2 DEF LockIsReleased
  <2>. QED
    BY <2>1, <2>2
<1>11. SetStandbyBehavior \/ LinkUp \/ LinkDown \/ Replay \/ UNCHANGED vars =>
           UNCHANGED <<pc, then, appLock>>
  BY DEF SetStandbyBehavior, LinkUp, LinkDown, Replay, PushApplications, PushReadsFlag,
         PushTellsManager, threadVars, vars
<1>. QED
  BY <1>2, <1>3, <1>4, <1>5, <1>6, <1>7, <1>8, <1>9, <1>10, <1>11
  DEF LockIsReleased, Next, Start, Continue

-----------------------------------------------------------------------------
\* The inductive invariant.
IInv == TypeOK /\ PassInv /\ DecisionInv /\ LockIsReleased

\* Configure leaves a state in which nothing is under way and nothing settled.
LEMMA InvariantInit == Init => IInv
<1> SUFFICES ASSUME Init PROVE IInv
  OBVIOUS
<1>1. TypeOK
  BY TypeInit
<1>2. \A t \in Threads : ~Passing(t)
  BY DEF Init, Passing
<1>3. PassInv
  BY <1>2 DEF Init, PassInv, AloneInv, LinkInv, ReplayInv, ToldInv
<1>4. DecisionInv
  BY DEF Init, DecisionInv, WakeInv, FlagInv, NameInv
<1>5. LockIsReleased
  BY DEF Init, LockIsReleased
<1>. QED
  BY <1>1, <1>3, <1>4, <1>5 DEF IInv

\* The parts together.
LEMMA InvariantStep == IInv /\ [Next]_vars => IInv'
<1> SUFFICES ASSUME IInv, [Next]_vars PROVE IInv'
  OBVIOUS
<1>1. Types /\ AloneInv
  BY TypesHold DEF IInv, PassInv
<1>. QED
  BY <1>1, TypeStep, PassStep, DecisionStep, LockStep DEF IInv

\* All reachable states satisfy the invariant.
LEMMA Invariance == Spec => []IInv
BY InvariantInit, InvariantStep, PTL DEF Spec

\* A decision taken by a pass that ran alone is the policy's once all is quiet,
\* for any number of callers and workers.
THEOREM DecisionIsThePolicy == Spec => []PolicyHonoured
<1>1. ASSUME IInv PROVE PolicyHonoured
  <2> SUFFICES ASSUME Calm, ~raced, ~unsettled
               PROVE  xcastEnableCache = Policy /\ friendlyNameCache = friendlyName
    BY DEF PolicyHonoured
  <2>1. \A t \in Threads : pc[t] = "idle"
    BY DEF Calm
  <2>2. \A t \in Threads :
            ~Passing(t) /\ ~WillEvaluate(t) /\ ~WillWake(t) /\ ~WillReenable(t)
    BY <2>1 DEF Passing, WillEvaluate, WillWake, WillReenable
  <2>3. Decides(xcastEnableCache) /\ friendlyNameCache = friendlyName
    BY <1>1, <2>1, <2>2 DEF IInv, DecisionInv, FlagInv, NameInv
  <2>4. xcastEnableCache \in BOOLEAN /\ Policy \in BOOLEAN
    BY <1>1, PolicyType DEF IInv, TypeOK
  <2>. QED
    BY <2>2, <2>3, <2>4 DEF Decides
<1>. QED
  BY <1>1, Invariance, PTL

\* Once all is quiet a running gdial instance has been told what the caches
\* hold, wherever its creation fell, for any number of callers and workers.
THEOREM GdialIsTold == Spec => []GdialFollowsCache
<1>1. IInv => GdialFollowsCache
  BY DEF IInv, PassInv, ToldInv, GdialFollowsCache, Calm, Passing
<1>. QED
  BY <1>1, Invariance, PTL

\* The lock RegisterApplications keeps across its second pass is always with a
\* caller that goes on to release it, for any number of callers.
THEOREM RegistrationUnlocks == Spec => []LockIsReleased
<1>1. IInv => LockIsReleased
  BY DEF IInv
<1>. QED
  BY <1>1, Invariance, PTL
=============================================================================
