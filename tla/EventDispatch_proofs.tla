------------------------ MODULE EventDispatch_proofs ------------------------
(***************************************************************************)
(* Proofs about EventDispatch, for any number of sinks, events and calls:  *)
(* the references that keep the implementation alive; and what the loop    *)
(* under _adminLock tells the sinks, which implements Broadcast.           *)
(***************************************************************************)
EXTENDS EventDispatch, SequenceLemmas

-----------------------------------------------------------------------------
(* The references on the implementation. *)

\* The references the plugin shell holds, _xcast and mConfigure.
ShellRefs == CASE shell \in {"down", "gone"} -> 0
               [] shell \in {"root", "stopped"} -> 1
               [] OTHER -> 2

\* The jobs that hold a reference.
Holders == {e \in Events : job[e] \in {"queued", "running"}}

\* Every reference has its holder.
RefType ==
    /\ implRefs \in Nat
    /\ job \in [Events -> {"none", "queued", "running", "done"}]
    /\ shell \in {"down", "root", "configured", "up", "deaf", "stopped", "gone"}

Counted == implRefs = ShellRefs + Cardinality(Holders)

LifeFollowsRefs == alive <=> implRefs > 0

\* gdial's requests come only while the shell has configured the implementation.
ObservedWhileUp == observed => shell \in {"configured", "up", "deaf"}

\* The first job comes after Configure.
NoJobsYet == shell \in {"down", "root"} => Holders = {}

IInv == RefType /\ Counted /\ LifeFollowsRefs /\ ObservedWhileUp /\ NoJobsYet

\* A set of jobs is finite, and is counted by a natural number.
LEMMA HoldersCounted ==
    IsFiniteSet(Holders) /\ Cardinality(Holders) \in Nat
<1>1. IsFiniteSet(Events) BY EventAssumption
<1>2. Holders \subseteq Events BY DEF Holders
<1>. QED BY <1>1, <1>2, FS_Subset, FS_CardinalityType

-----------------------------------------------------------------------------
(* What the steps do to the holders. *)

\* A step that leaves the jobs alone leaves the holders alone.
LEMMA SameHolders == ASSUME job' = job PROVE Holders' = Holders
BY DEF Holders

\* A new job is one holder more.
LEMMA DispatchHolders ==
    ASSUME RefType, NEW e \in Events, DispatchEvent(e)
    PROVE  Cardinality(Holders') = Cardinality(Holders) + 1
<1>1. e \notin Holders
  BY DEF Holders, DispatchEvent
<1>2. Holders' = Holders \cup {e}
  BY DEF Holders, DispatchEvent, RefType
<1>. QED BY <1>1, <1>2, HoldersCounted, FS_AddElement

\* A job that starts was and remains a holder.
LEMMA StartHolders ==
    ASSUME RefType, NEW e \in Events, StartDispatch(e)
    PROVE  Holders' = Holders
BY DEF Holders, StartDispatch, RefType

\* A finished job is one holder less.
LEMMA FinishHolders ==
    ASSUME RefType, NEW e \in Events, FinishDispatch(e)
    PROVE  /\ Cardinality(Holders') = Cardinality(Holders) - 1
           /\ Cardinality(Holders) > 0
           /\ Holders' \subseteq Holders
<1>1. e \in Holders
  BY DEF Holders, FinishDispatch
<1>2. Holders' = Holders \ {e}
  BY DEF Holders, FinishDispatch, RefType
<1>3. Cardinality(Holders') = Cardinality(Holders) - 1
  BY <1>1, <1>2, HoldersCounted, FS_RemoveElement
<1>4. Cardinality(Holders) > 0
  BY <1>1, HoldersCounted, FS_EmptySet
<1>. QED BY <1>2, <1>3, <1>4

-----------------------------------------------------------------------------
(* The invariant. *)

\* It holds at the start.
LEMMA RefInit == Init => IInv
<1>. SUFFICES ASSUME Init PROVE IInv OBVIOUS
<1>1. Holders = {}
  BY DEF Init, Holders
<1>2. Cardinality(Holders) = 0
  BY <1>1, FS_EmptySet
<1>3. RefType
  BY DEF Init, RefType
<1>4. Counted
  BY <1>2 DEF Init, Counted, ShellRefs
<1>5. LifeFollowsRefs /\ ObservedWhileUp
  BY DEF Init, LifeFollowsRefs, ObservedWhileUp
<1>. QED BY <1>1, <1>3, <1>4, <1>5 DEF IInv, NoJobsYet

\* A step that touches neither references, jobs, the shell nor gdial's observer.
LEMMA Untouched ==
    ASSUME IInv, UNCHANGED <<job, refVars, observed, shell>>
    PROVE  IInv'
<1>1. Holders' = Holders
  BY SameHolders
<1>. QED BY <1>1 DEF IInv, RefType, Counted, ShellRefs, LifeFollowsRefs,
                     ObservedWhileUp, NoJobsYet, refVars

\* A release keeps the implementation alive exactly while references remain.
LEMMA ReleaseLife == ASSUME implRefs \in Nat, ReleaseImpl PROVE LifeFollowsRefs'
<1>1. implRefs' = implRefs - 1 BY DEF ReleaseImpl
<1>2. (implRefs > 1) <=> (implRefs' > 0) BY <1>1
<1>3. alive' = (implRefs > 1) BY DEF ReleaseImpl
<1>. QED BY <1>2, <1>3, Zenon DEF LifeFollowsRefs

\* The invariant is inductive.
LEMMA RefStep == IInv /\ [Next]_vars => IInv'
<1>. SUFFICES ASSUME IInv, [Next]_vars PROVE IInv' OBVIOUS
<1>t. RefType BY DEF IInv
<1>c. Cardinality(Holders) \in Nat BY HoldersCounted
<1>1. ASSUME NEW s \in Sinks, Register(s) \/ Unregister(s) PROVE IInv'
  BY <1>1, Untouched DEF Register, Unregister
<1>2. ASSUME NEW e \in Events, DispatchEvent(e) PROVE IInv'
  <2>1. Cardinality(Holders') = Cardinality(Holders) + 1
    BY <1>t, <1>2, DispatchHolders
  <2>2. UNCHANGED <<alive, observed, shell>> /\ implRefs' = implRefs + 1 /\ observed
    BY <1>2 DEF DispatchEvent
  <2>3. shell \in {"configured", "up", "deaf"}
    BY <2>2 DEF IInv, ObservedWhileUp
  <2>4. RefType'
    <3>1. job' \in [Events -> {"none", "queued", "running", "done"}]
      BY <1>t, <1>2 DEF RefType, DispatchEvent
    <3>. QED BY <1>t, <2>2, <3>1 DEF RefType
  <2>5. Counted'
    BY <1>t, <1>c, <2>1, <2>2 DEF IInv, Counted, ShellRefs, RefType
  <2>6. implRefs > 0
    BY <1>c, <2>3 DEF IInv, Counted, ShellRefs
  <2>7. LifeFollowsRefs'
    BY <1>t, <2>2, <2>6 DEF IInv, LifeFollowsRefs, RefType
  <2>8. ObservedWhileUp' /\ NoJobsYet'
    BY <2>2, <2>3 DEF ObservedWhileUp, NoJobsYet
  <2>. QED BY <2>4, <2>5, <2>7, <2>8 DEF IInv
<1>3. ASSUME NEW e \in Events, StartDispatch(e) PROVE IInv'
  <2>1. Holders' = Holders
    BY <1>t, <1>3, StartHolders
  <2>2. UNCHANGED <<refVars, observed, shell>>
    BY <1>3 DEF StartDispatch
  <2>3. job' \in [Events -> {"none", "queued", "running", "done"}]
    BY <1>t, <1>3 DEF RefType, StartDispatch
  <2>. QED BY <2>1, <2>2, <2>3 DEF IInv, RefType, Counted, ShellRefs, LifeFollowsRefs,
                                   ObservedWhileUp, NoJobsYet, refVars
<1>4. ASSUME NEW e \in Events, CallSink(e) PROVE IInv'
  BY <1>4, Untouched DEF CallSink
<1>5. ASSUME NEW e \in Events, FinishDispatch(e) PROVE IInv'
  <2>1. /\ Cardinality(Holders') = Cardinality(Holders) - 1
        /\ Cardinality(Holders) > 0
        /\ Holders' \subseteq Holders
    BY <1>t, <1>5, FinishHolders
  <2>2. UNCHANGED <<observed, shell>> /\ implRefs' = implRefs - 1 /\ alive' = (implRefs > 1)
    BY <1>5 DEF FinishDispatch, ReleaseImpl
  <2>3. implRefs > 0
    BY <1>t, <1>c, <2>1 DEF IInv, Counted, ShellRefs, RefType
  <2>4. RefType'
    <3>1. job' \in [Events -> {"none", "queued", "running", "done"}]
      BY <1>t, <1>5 DEF RefType, FinishDispatch
    <3>2. implRefs' \in Nat
      BY <1>t, <2>2, <2>3 DEF RefType
    <3>. QED BY <1>t, <2>2, <3>1, <3>2 DEF RefType
  <2>5. Counted'
    BY <1>t, <1>c, <2>1, <2>2 DEF IInv, Counted, ShellRefs, RefType
  <2>6. LifeFollowsRefs'
    BY <1>t, <1>5, ReleaseLife DEF FinishDispatch, RefType
  <2>7. ObservedWhileUp' /\ NoJobsYet'
    BY <2>1, <2>2 DEF IInv, ObservedWhileUp, NoJobsYet
  <2>. QED BY <2>4, <2>5, <2>6, <2>7 DEF IInv
<1>6. CASE CreateRoot
  <2>1. Holders' = Holders /\ Holders = {}
    BY <1>6, SameHolders DEF CreateRoot, ShellStep, IInv, NoJobsYet
  <2>2. Cardinality(Holders') = 0
    BY <2>1, FS_EmptySet
  <2>3. shell' = "root" /\ implRefs' = 1 /\ alive' = TRUE /\ UNCHANGED <<observed, job>>
    BY <1>6 DEF CreateRoot, ShellStep
  <2>4. ~observed'
    BY <1>6, <2>3 DEF CreateRoot, ShellStep, IInv, ObservedWhileUp
  <2>5. RefType' /\ Counted' /\ LifeFollowsRefs'
    BY <1>t, <2>2, <2>3 DEF RefType, Counted, ShellRefs, LifeFollowsRefs
  <2>. QED BY <2>1, <2>4, <2>5 DEF IInv, ObservedWhileUp, NoJobsYet
<1>7. CASE ConfigureImpl
  <2>1. Holders' = Holders
    BY <1>7, SameHolders DEF ConfigureImpl
  <2>2. shell = "root" /\ shell' = "configured" /\ implRefs' = implRefs + 1
        /\ UNCHANGED <<alive, job>>
    BY <1>7 DEF ConfigureImpl, ShellStep
  <2>3. RefType' /\ Counted'
    BY <1>t, <1>c, <2>1, <2>2 DEF IInv, RefType, Counted, ShellRefs
  <2>4. implRefs > 0
    BY <1>c, <2>2 DEF IInv, Counted, ShellRefs
  <2>5. LifeFollowsRefs'
    BY <1>t, <2>2, <2>4 DEF IInv, LifeFollowsRefs, RefType
  <2>6. ObservedWhileUp' /\ NoJobsYet'
    BY <2>2 DEF ObservedWhileUp, NoJobsYet
  <2>. QED BY <2>3, <2>5, <2>6 DEF IInv
<1>8. CASE RegisterShell \/ UnregisterShell
  <2>1. Holders' = Holders
    BY <1>8, SameHolders DEF RegisterShell, UnregisterShell
  <2>2. /\ shell \in {"configured", "up"} /\ shell' \in {"up", "deaf"}
        /\ UNCHANGED <<refVars, observed, job>>
    BY <1>8 DEF RegisterShell, UnregisterShell, ShellStep
  <2>3. RefType' /\ Counted'
    BY <1>t, <2>1, <2>2 DEF IInv, RefType, Counted, ShellRefs, refVars
  <2>4. LifeFollowsRefs'
    BY <2>2 DEF IInv, LifeFollowsRefs, refVars
  <2>5. ObservedWhileUp' /\ NoJobsYet'
    BY <2>2 DEF ObservedWhileUp, NoJobsYet
  <2>. QED BY <2>3, <2>4, <2>5 DEF IInv
<1>9. CASE StopImpl
  <2>1. Holders' = Holders
    BY <1>9, SameHolders DEF StopImpl
  <2>2. /\ shell = "deaf" /\ shell' = "stopped" /\ observed' = FALSE
        /\ implRefs' = implRefs - 1 /\ alive' = (implRefs > 1) /\ job' = job
    BY <1>9 DEF StopImpl, ShellStep, ReleaseImpl
  <2>3. implRefs > 1
    BY <1>c, <2>2 DEF IInv, Counted, ShellRefs
  <2>4. RefType' /\ Counted'
    BY <1>t, <1>c, <2>1, <2>2, <2>3 DEF IInv, RefType, Counted, ShellRefs
  <2>5. LifeFollowsRefs'
    BY <1>t, <1>9, ReleaseLife DEF StopImpl, RefType
  <2>6. ObservedWhileUp' /\ NoJobsYet'
    BY <2>2 DEF ObservedWhileUp, NoJobsYet
  <2>. QED BY <2>4, <2>5, <2>6 DEF IInv
<1>10. CASE ReleaseRoot
  <2>1. Holders' = Holders
    BY <1>10, SameHolders DEF ReleaseRoot
  <2>2. /\ shell = "stopped" /\ shell' = "gone" /\ UNCHANGED observed
        /\ implRefs' = implRefs - 1 /\ alive' = (implRefs > 1) /\ job' = job
    BY <1>10 DEF ReleaseRoot, ShellStep, ReleaseImpl
  <2>3. implRefs > 0
    BY <1>c, <2>2 DEF IInv, Counted, ShellRefs
  <2>4. RefType' /\ Counted'
    BY <1>t, <1>c, <2>1, <2>2, <2>3 DEF IInv, RefType, Counted, ShellRefs
  <2>5. LifeFollowsRefs'
    BY <1>t, <1>10, ReleaseLife DEF ReleaseRoot, RefType
  <2>6. ObservedWhileUp' /\ NoJobsYet'
    BY <2>2 DEF IInv, ObservedWhileUp, NoJobsYet
  <2>. QED BY <2>4, <2>5, <2>6 DEF IInv
<1>12. CASE RootFails \/ NoConfiguration
  <2>1. Holders' = Holders
    BY <1>12, SameHolders DEF RootFails, NoConfiguration
  <2>2. /\ \/ shell = "down" /\ shell' = "gone"
           \/ shell = "root" /\ shell' = "stopped"
        /\ UNCHANGED <<refVars, observed, job>>
    BY <1>12 DEF RootFails, NoConfiguration, ShellStep
  <2>3. RefType' /\ Counted' /\ LifeFollowsRefs'
    BY <1>t, <2>1, <2>2 DEF IInv, RefType, Counted, ShellRefs, LifeFollowsRefs, refVars
  <2>4. ObservedWhileUp' /\ NoJobsYet'
    BY <2>2 DEF IInv, ObservedWhileUp, NoJobsYet
  <2>. QED BY <2>3, <2>4 DEF IInv
<1>11. CASE UNCHANGED vars
  BY <1>11, Untouched DEF vars, refVars
<1>. QED BY <1>1, <1>2, <1>3, <1>4, <1>5, <1>6, <1>7, <1>8, <1>9, <1>10, <1>11,
            <1>12 DEF Next, Pool, ShellNext

\* It holds always.
LEMMA Invariance == Spec => []IInv
BY RefInit, RefStep, PTL DEF Spec

\* The implementation outlives its jobs, however many there are and however they
\* overlap the shell's own releases: the reference the job's constructor takes is
\* counted until the job is destroyed (OutlivesJobs).
THEOREM JobsKeepAlive == Spec => []OutlivesJobs
<1>1. IInv => OutlivesJobs
  <2>. SUFFICES ASSUME IInv PROVE OutlivesJobs OBVIOUS
  <2>1. ASSUME NEW e \in Events, job[e] \in {"queued", "running"} PROVE alive
    <3>1. e \in Holders
      BY <2>1 DEF Holders
    <3>2. Cardinality(Holders) > 0
      BY <3>1, HoldersCounted, FS_EmptySet
    <3>3. implRefs > 0
      BY <3>2, HoldersCounted DEF IInv, RefType, Counted, ShellRefs
    <3>. QED BY <3>3 DEF IInv, LifeFollowsRefs
  <2>2. alive <=> implRefs > 0
    BY DEF IInv, LifeFollowsRefs
  <2>. QED BY <2>1, <2>2 DEF OutlivesJobs
<1>. QED BY <1>1, Invariance, PTL

-----------------------------------------------------------------------------
(* The loop: the invariant follows the sequence it has yet to call; what   *)
(* is no longer in it has been called once.                                *)

JobStates == {"none", "queued", "running", "done"}

\* The types of what the loop works on.
ListType ==
    /\ registry \in Seq(Sinks) /\ sinkRefs \in [Sinks -> Nat]
    /\ lock \in Events \cup {NoEvent} /\ todo \in Seq(Sinks)
    /\ job \in [Events -> JobStates]
    /\ delivered \in [Events -> [Sinks -> Nat]]
    /\ due \in [Events -> SUBSET Sinks]

RegistryInv ==
    /\ Distinct(registry)
    /\ \A s \in Sinks : sinkRefs[s] = IF s \in Range(registry) THEN 1 ELSE 0

\* The lock is the running job's.
LockInv ==
    /\ \A e \in Events : lock = e <=> job[e] = "running"
    /\ lock = NoEvent => todo = <<>>

\* The loop's progress.
LoopInv ==
    /\ Distinct(todo) /\ Range(todo) \subseteq Range(registry)
    /\ \A e \in Events : lock = e =>
          \A s \in Sinks :
             delivered[e][s] = IF s \in Range(registry) \ Range(todo) THEN 1 ELSE 0

\* Before and after a job's loop.
OutsideInv ==
    \A e \in Events :
        /\ job[e] \in {"none", "queued"} => \A s \in Sinks : delivered[e][s] = 0
        /\ job[e] = "done" =>
              /\ \A s \in Sinks : delivered[e][s] \in {0, 1}
              /\ \A s \in due[e] : delivered[e][s] = 1

DueInv == \A e \in Events : due[e] \subseteq Range(registry)

DInv == ListType /\ RegistryInv /\ LockInv /\ LoopInv /\ OutsideInv /\ DueInv

-----------------------------------------------------------------------------
(* The list. *)

\* What Add and Drop do to the registered sinks.
LEMMA Added ==
    ASSUME ListType, RegistryInv, DueInv, NEW s \in Sinks, Add(s)
    PROVE  /\ registry' \in Seq(Sinks) /\ sinkRefs' \in [Sinks -> Nat]
           /\ RegistryInv'
           /\ Range(registry') = Range(registry) \cup {s}
           /\ due' = due
<1>1. CASE s \in Range(registry)
  BY <1>1 DEF Add, ListType, RegistryInv
<1>2. CASE s \notin Range(registry)
  <2>1. /\ registry' = Append(registry, s) /\ due' = due
        /\ sinkRefs' = [sinkRefs EXCEPT ![s] = @ + 1]
    BY <1>2 DEF Add
  <2>2. /\ registry' \in Seq(Sinks) /\ Distinct(registry')
        /\ Range(registry') = Range(registry) \cup {s}
    BY <1>2, <2>1, Appended DEF ListType, RegistryInv
  <2> QED
    BY <1>2, <2>1, <2>2 DEF ListType, RegistryInv
<1> QED
  BY <1>1, <1>2

LEMMA Dropped ==
    ASSUME ListType, RegistryInv, DueInv, NEW s \in Sinks, Drop(s)
    PROVE  /\ registry' \in Seq(Sinks) /\ sinkRefs' \in [Sinks -> Nat]
           /\ RegistryInv'
           /\ Range(registry') = Range(registry) \ {s}
           /\ due' \in [Events -> SUBSET Sinks]
           /\ \A e \in Events : due'[e] = due[e] \ {s}
<1>1. CASE s \notin Range(registry)
  BY <1>1 DEF Drop, ListType, RegistryInv, DueInv
<1>2. CASE s \in Range(registry)
  <2>1. PICK i \in DOMAIN registry :
            registry[i] = s /\ registry' = RemoveAt(registry, i)
    BY <1>2 DEF Drop
  <2>2. /\ sinkRefs' = [sinkRefs EXCEPT ![s] = @ - 1]
        /\ due' = [e \in Events |-> due[e] \ {s}]
    BY <1>2 DEF Drop
  <2>3. /\ registry' \in Seq(Sinks) /\ Distinct(registry')
        /\ Range(registry') = Range(registry) \ {s}
    BY <2>1, Removed DEF ListType, RegistryInv
  <2> QED
    BY <1>2, <2>2, <2>3 DEF ListType, RegistryInv
<1> QED
  BY <1>1, <1>2

\* No job of Events is NoEvent, and the lock is free only when none runs.
LEMMA Unlocked ==
    ASSUME LockInv, lock = NoEvent
    PROVE  todo = <<>> /\ \A e \in Events : job[e] # "running" /\ lock # e
  BY EventAssumption DEF LockInv

\* A change of the list while the lock is free.
LEMMA ListChange ==
    ASSUME DInv, lock = NoEvent, NEW s \in Sinks, Add(s) \/ Drop(s),
           UNCHANGED <<lock, todo, job, delivered>>
    PROVE  /\ RegistryInv' /\ LockInv' /\ LoopInv' /\ OutsideInv' /\ DueInv'
           /\ registry' \in Seq(Sinks) /\ sinkRefs' \in [Sinks -> Nat]
           /\ due' \in [Events -> SUBSET Sinks]
           /\ \/ Range(registry') = Range(registry) \cup {s}
              \/ Range(registry') = Range(registry) \ {s}
<1>1. /\ RegistryInv'
      /\ registry' \in Seq(Sinks) /\ sinkRefs' \in [Sinks -> Nat]
      /\ due' \in [Events -> SUBSET Sinks]
      /\ \A e \in Events : due'[e] \subseteq due[e]
      /\ \/ Range(registry') = Range(registry) \cup {s}
         \/ Range(registry') = Range(registry) \ {s}
      /\ DueInv'
  <2>1. CASE Add(s)
    BY <2>1, Added DEF DInv, ListType, DueInv
  <2>2. CASE Drop(s)
    BY <2>2, Dropped DEF DInv, ListType, DueInv
  <2> QED
    BY <2>1, <2>2
<1>2. todo = <<>> /\ \A e \in Events : lock # e
  BY Unlocked DEF DInv
<1>3. LockInv'
  BY DEF DInv, LockInv
<1>4. LoopInv'
  <2>1. Range(todo) = {} /\ Distinct(todo)
    BY <1>2 DEF Range, Distinct
  <2> QED
    BY <1>2, <2>1 DEF LoopInv
<1>5. OutsideInv'
  BY <1>1 DEF DInv, OutsideInv
<1> QED
  BY <1>1, <1>3, <1>4, <1>5

\* A step that touches nothing of the list, the loop and the jobs.
LEMMA Elsewhere ==
    ASSUME DInv, UNCHANGED <<listVars, lock, todo, job, delivered, due>>
    PROVE  DInv'
  BY DEF DInv, ListType, RegistryInv, LockInv, LoopInv, OutsideInv, DueInv, listVars

-----------------------------------------------------------------------------
(* The steps. *)

LEMMA ListSteps ==
    ASSUME DInv, NEW s \in Sinks, lock = NoEvent, Add(s) \/ Drop(s),
           UNCHANGED <<lock, todo, job, delivered>>
    PROVE  DInv'
  BY ListChange DEF DInv, ListType

LEMMA RaiseStep ==
    ASSUME DInv, NEW e \in Events, DispatchEvent(e)
    PROVE  DInv'
<1>1. /\ job[e] = "none" /\ job' = [job EXCEPT ![e] = "queued"]
      /\ due' = [due EXCEPT ![e] = Range(registry)]
      /\ UNCHANGED <<registry, sinkRefs, lock, todo, delivered>>
  BY DEF DispatchEvent, listVars
<1>2. Range(registry) \subseteq Sinks
  BY DEF DInv, ListType, Range
<1>3. /\ job'[e] = "queued" /\ \A f \in Events : f # e => job'[f] = job[f]
      /\ due'[e] = Range(registry) /\ \A f \in Events : f # e => due'[f] = due[f]
  BY <1>1 DEF DInv, ListType
<1>4. ListType'
  BY <1>1, <1>2 DEF DInv, ListType, JobStates
<1>5. RegistryInv' /\ LoopInv'
  BY <1>1 DEF DInv, RegistryInv, LoopInv
<1>6. LockInv'
  BY <1>1, <1>3 DEF DInv, LockInv
<1>7. OutsideInv' /\ DueInv'
  BY <1>1, <1>3 DEF DInv, OutsideInv, DueInv
<1> QED
  BY <1>4, <1>5, <1>6, <1>7 DEF DInv

LEMMA StartStep ==
    ASSUME DInv, NEW e \in Events, StartDispatch(e)
    PROVE  DInv'
<1>1. /\ job[e] = "queued" /\ lock = NoEvent
      /\ job' = [job EXCEPT ![e] = "running"] /\ lock' = e /\ todo' = registry
      /\ UNCHANGED <<registry, sinkRefs, delivered, due>>
  BY DEF StartDispatch, listVars
<1>2. job'[e] = "running" /\ \A f \in Events : f # e => job'[f] = job[f]
  BY <1>1 DEF DInv, ListType
<1>3. \A f \in Events : job[f] # "running"
  BY <1>1, Unlocked DEF DInv
<1>4. ListType' /\ RegistryInv' /\ DueInv'
  BY <1>1 DEF DInv, ListType, JobStates, RegistryInv, DueInv
<1>5. LockInv'
  BY <1>1, <1>2, <1>3, EventAssumption DEF LockInv
<1>6. LoopInv'
  BY <1>1 DEF DInv, LoopInv, OutsideInv, RegistryInv
<1>7. OutsideInv'
  BY <1>1, <1>2 DEF DInv, OutsideInv
<1> QED
  BY <1>4, <1>5, <1>6, <1>7 DEF DInv

LEMMA CallStep ==
    ASSUME DInv, NEW e \in Events, CallSink(e)
    PROVE  DInv'
<1> DEFINE h == Head(todo)
<1>1. /\ lock = e /\ todo # <<>> /\ todo' = Tail(todo)
      /\ delivered' = [delivered EXCEPT ![e][h] = @ + 1]
      /\ UNCHANGED <<registry, sinkRefs, lock, job, due>>
  BY DEF CallSink, listVars
<1>2. /\ h \in Sinks /\ todo' \in Seq(Sinks) /\ Distinct(todo')
      /\ h \in Range(todo) /\ Range(todo') = Range(todo) \ {h}
  BY <1>1, Beheaded DEF DInv, ListType, LoopInv
<1>3. /\ delivered' \in [Events -> [Sinks -> Nat]]
      /\ delivered'[e][h] = delivered[e][h] + 1
      /\ \A s \in Sinks : s # h => delivered'[e][s] = delivered[e][s]
      /\ \A f \in Events : f # e => delivered'[f] = delivered[f]
  <2> HIDE DEF h
  <2> QED
    BY <1>1, <1>2 DEF DInv, ListType
<1> HIDE DEF h
<1>4. ListType' /\ RegistryInv' /\ DueInv'
  BY <1>1, <1>2, <1>3 DEF DInv, ListType, RegistryInv, DueInv
<1>5. LockInv'
  BY <1>1, EventAssumption DEF DInv, LockInv
<1>6. LoopInv'
  <2>1. ASSUME NEW s \in Sinks
        PROVE  delivered'[e][s] = IF s \in Range(registry) \ Range(todo') THEN 1 ELSE 0
    <3>1. delivered[e][s] = IF s \in Range(registry) \ Range(todo) THEN 1 ELSE 0
      BY <1>1 DEF DInv, LoopInv
    <3>2. Range(todo) \subseteq Range(registry)
      BY DEF DInv, LoopInv
    <3> QED
      BY <1>2, <1>3, <3>1, <3>2
  <2> QED
    BY <1>1, <1>2, <2>1 DEF DInv, LoopInv
<1>7. OutsideInv'
  <2>1. job[e] = "running"
    BY <1>1 DEF DInv, LockInv
  <2> QED
    BY <1>1, <1>3, <2>1 DEF DInv, OutsideInv
<1> QED
  BY <1>4, <1>5, <1>6, <1>7 DEF DInv

\* When the loop is over, exactly the registered sinks have been called.
LEMMA AllCalled ==
    ASSUME DInv, NEW e \in Events, lock = e, todo = <<>>
    PROVE  \A s \in Sinks : delivered[e][s] = IF s \in Range(registry) THEN 1 ELSE 0
<1>1. Range(todo) = {}
  BY DEF Range
<1> QED
  BY <1>1 DEF DInv, LoopInv

LEMMA FinishStep ==
    ASSUME DInv, NEW e \in Events, FinishDispatch(e)
    PROVE  DInv'
<1>1. /\ lock = e /\ todo = <<>> /\ job[e] = "running"
      /\ lock' = NoEvent /\ job' = [job EXCEPT ![e] = "done"]
      /\ UNCHANGED <<registry, sinkRefs, todo, delivered, due>>
  BY DEF FinishDispatch, listVars
<1>2. job'[e] = "done" /\ \A f \in Events : f # e => job'[f] = job[f]
  BY <1>1 DEF DInv, ListType
<1>3. ListType' /\ RegistryInv' /\ DueInv'
  BY <1>1 DEF DInv, ListType, JobStates, RegistryInv, DueInv
<1>4. LockInv' /\ LoopInv'
  BY <1>1, <1>2, EventAssumption DEF DInv, LockInv, LoopInv
<1>5. OutsideInv'
  <2>1. \A s \in Sinks : delivered[e][s] = IF s \in Range(registry) THEN 1 ELSE 0
    BY <1>1, AllCalled
  <2>2. due[e] \subseteq Range(registry) /\ due[e] \subseteq Sinks
    BY DEF DInv, DueInv, ListType
  <2> QED
    BY <1>1, <1>2, <2>1, <2>2 DEF DInv, OutsideInv
<1> QED
  BY <1>3, <1>4, <1>5 DEF DInv

-----------------------------------------------------------------------------
(* The invariant. *)

LEMMA ListInit == Init => DInv
<1> SUFFICES ASSUME Init
             PROVE  DInv
  OBVIOUS
<1>1. Range(<<>>) = {} /\ Distinct(<<>>)
  BY DEF Range, Distinct
<1>2. ListType
  BY DEF Init, ListType, JobStates
<1>3. RegistryInv /\ LockInv /\ LoopInv /\ OutsideInv /\ DueInv
  BY <1>1, EventAssumption DEF Init, RegistryInv, LockInv, LoopInv, OutsideInv, DueInv
<1> QED
  BY <1>2, <1>3 DEF DInv

\* The six kinds of steps.
LEMMA StepKinds ==
    ASSUME [Next]_vars
    PROVE  \/ /\ lock = NoEvent /\ UNCHANGED <<lock, todo, job, delivered>>
              /\ \E s \in Sinks : Add(s) \/ Drop(s)
           \/ \E e \in Events : \/ DispatchEvent(e) \/ StartDispatch(e)
                               \/ CallSink(e) \/ FinishDispatch(e)
           \/ UNCHANGED <<listVars, lock, todo, job, delivered, due>>
<1>1. ASSUME NEW s \in Sinks, Register(s) \/ Unregister(s)
      PROVE  /\ lock = NoEvent /\ UNCHANGED <<lock, todo, job, delivered>>
             /\ Add(s) \/ Drop(s)
  BY <1>1 DEF Register, Unregister, ClientCall
<1>2. CASE RegisterShell \/ UnregisterShell
  BY <1>2, SinkAssumption DEF RegisterShell, UnregisterShell
<1>3. CASE CreateRoot \/ RootFails \/ NoConfiguration \/ ConfigureImpl
  BY <1>3 DEF CreateRoot, RootFails, NoConfiguration, ConfigureImpl
<1>4. CASE StopImpl \/ ReleaseRoot
  BY <1>4 DEF StopImpl, ReleaseRoot
<1>5. CASE UNCHANGED vars
  BY <1>5 DEF vars
<1> QED
  BY <1>1, <1>2, <1>3, <1>4, <1>5 DEF Next, Pool, ShellNext

LEMMA ListStep == DInv /\ [Next]_vars => DInv'
  BY StepKinds, ListSteps, RaiseStep, StartStep, CallStep, FinishStep, Elsewhere

LEMMA ListInvariance == Spec => []DInv
  BY ListInit, ListStep, PTL DEF Spec

\* Whoever registers and unregisters, when a job is done every sink that stayed
\* since the event was raised has been called, and none twice.
THEOREM CalledExactlyOnce == Spec => []ExactlyOnce
<1>1. DInv => ExactlyOnce
  <2> SUFFICES ASSUME DInv, NEW e \in Events
               PROVE  /\ job[e] = "done" => \A s \in due[e] : delivered[e][s] = 1
                      /\ \A s \in Sinks : delivered[e][s] <= 1
    BY DEF ExactlyOnce
  <2>1. CASE job[e] = "running"
    <3>1. lock = e
      BY <2>1 DEF DInv, LockInv
    <3>2. ASSUME NEW s \in Sinks
          PROVE  delivered[e][s] = 0 \/ delivered[e][s] = 1
      BY <3>1 DEF DInv, LoopInv
    <3> QED
      BY <2>1, <3>2
  <2>2. CASE job[e] \in {"none", "queued"}
    <3>1. \A s \in Sinks : delivered[e][s] = 0
      BY <2>2 DEF DInv, OutsideInv
    <3> QED
      BY <2>2, <3>1
  <2>3. CASE job[e] = "done"
    <3>1. /\ \A s \in Sinks : delivered[e][s] = 0 \/ delivered[e][s] = 1
          /\ \A s \in due[e] : delivered[e][s] = 1
      BY <2>3 DEF DInv, OutsideInv
    <3> QED
      BY <3>1
  <2> QED
    BY <2>1, <2>2, <2>3 DEF DInv, ListType, JobStates
<1> QED
  BY <1>1, ListInvariance, PTL

\* The loop calls no sink that the list has released.
THEOREM CallsAreReferenced == Spec => []CallsOnlyReferenced
<1>1. DInv => CallsOnlyReferenced
  <2> SUFFICES ASSUME DInv
               PROVE  CallsOnlyReferenced
    OBVIOUS
  <2>1. ASSUME NEW i \in DOMAIN todo
        PROVE  sinkRefs[todo[i]] > 0
    <3>1. todo[i] \in Sinks
      BY DEF DInv, ListType
    <3>2. todo[i] \in Range(registry)
      BY DEF DInv, LoopInv, Range
    <3> QED
      BY <3>1, <3>2 DEF DInv, RegistryInv
  <2> QED
    BY <2>1 DEF DInv, RegistryInv, CallsOnlyReferenced
<1> QED
  BY <1>1, ListInvariance, PTL

-----------------------------------------------------------------------------
(* The refinement. *)

\* Joining and leaving are one step each; the loop is not seen at all.
LEMMA PromiseStep ==
    ASSUME DInv, DInv', [Next]_vars
    PROVE  [Promise!Next]_(Promise!vars)
<1> USE DEF Promise!vars
<1>1. ASSUME NEW s \in Sinks, lock = NoEvent, Add(s) \/ Drop(s),
             UNCHANGED <<lock, todo, job, delivered>>
      PROVE  [Promise!Next]_(Promise!vars)
  <2>1. stateOf' = stateOf /\ gotOf' = gotOf
    BY <1>1 DEF stateOf, gotOf
  <2>2. \/ Range(registry') = Range(registry) \cup {s}
        \/ Range(registry') = Range(registry) \ {s}
    BY <1>1, ListChange
  <2> QED
    BY <2>1, <2>2 DEF Promise!Next, Promise!Join, Promise!Leave
<1>2. ASSUME NEW e \in Events, DispatchEvent(e)
      PROVE  Promise!Raise(e)
  <2>1. /\ job[e] = "none" /\ job' = [job EXCEPT ![e] = "queued"]
        /\ UNCHANGED <<registry, delivered>>
    BY <1>2 DEF DispatchEvent, listVars
  <2>2. stateOf[e] = "none" /\ stateOf' = [stateOf EXCEPT ![e] = "raised"]
    BY <2>1 DEF stateOf, DInv, ListType
  <2>3. gotOf' = gotOf
    BY <2>1 DEF gotOf, DInv, ListType
  <2> QED
    BY <2>1, <2>2, <2>3 DEF Promise!Raise
<1>3. ASSUME NEW e \in Events, StartDispatch(e)
      PROVE  UNCHANGED Promise!vars
  <2>1. /\ job[e] = "queued" /\ job' = [job EXCEPT ![e] = "running"]
        /\ UNCHANGED <<registry, delivered>>
    BY <1>3 DEF StartDispatch, listVars
  <2>2. stateOf' = stateOf
    BY <2>1 DEF stateOf, DInv, ListType
  <2>3. gotOf' = gotOf
    BY <2>1 DEF gotOf, DInv, ListType
  <2> QED
    BY <2>1, <2>2, <2>3
<1>4. ASSUME NEW e \in Events, CallSink(e)
      PROVE  UNCHANGED Promise!vars
  <2>1. /\ lock = e /\ UNCHANGED <<registry, job>>
        /\ delivered' = [delivered EXCEPT ![e][Head(todo)] = @ + 1]
    BY <1>4 DEF CallSink, listVars
  <2>2. job[e] = "running"
    BY <2>1 DEF DInv, LockInv
  <2>3. \A f \in Events : f # e => delivered'[f] = delivered[f]
    BY <2>1 DEF DInv, ListType
  <2>4. stateOf' = stateOf /\ gotOf' = gotOf
    BY <2>1, <2>2, <2>3 DEF stateOf, gotOf
  <2> QED
    BY <2>1, <2>4
<1>5. ASSUME NEW e \in Events, FinishDispatch(e)
      PROVE  Promise!Deliver(e)
  <2>1. /\ lock = e /\ todo = <<>> /\ job[e] = "running"
        /\ job' = [job EXCEPT ![e] = "done"] /\ UNCHANGED <<registry, delivered>>
    BY <1>5 DEF FinishDispatch, listVars
  <2>2. stateOf[e] = "raised" /\ stateOf' = [stateOf EXCEPT ![e] = "delivered"]
    BY <2>1 DEF stateOf, DInv, ListType
  <2>3. {s \in Sinks : delivered[e][s] = 1} = Range(registry)
    <3>1. \A s \in Sinks : delivered[e][s] = IF s \in Range(registry) THEN 1 ELSE 0
      BY <2>1, AllCalled
    <3>2. Range(registry) \subseteq Sinks
      BY DEF DInv, ListType, Range
    <3> QED
      BY <3>1, <3>2
  <2>4. gotOf' = [gotOf EXCEPT ![e] = Range(registry)]
    BY <2>1, <2>3 DEF gotOf, DInv, ListType
  <2> QED
    BY <2>1, <2>2, <2>4 DEF Promise!Deliver
<1>6. ASSUME UNCHANGED <<listVars, lock, todo, job, delivered, due>>
      PROVE  UNCHANGED Promise!vars
  BY <1>6 DEF listVars, stateOf, gotOf
<1> QED
  BY <1>1, <1>2, <1>3, <1>4, <1>5, <1>6, StepKinds DEF Promise!Next

\* The list, the lock, the jobs and the loop together implement Broadcast: what
\* looks like many calls, between which clients come and go and other jobs wait,
\* reaches exactly the members of one moment.
THEOREM BroadcastIsImplemented == Spec => BroadcastPromise
<1>1. Init => Promise!Init
  BY DEF Init, Promise!Init, stateOf, gotOf, Range
<1>2. DInv /\ DInv' /\ [Next]_vars => [Promise!Next]_(Promise!vars)
  BY PromiseStep
<1> QED
  BY <1>1, <1>2, ListInvariance, PTL DEF Spec, BroadcastPromise, Promise!Spec

-----------------------------------------------------------------------------
(* The type invariant. *)

\* The variables that neither the references nor the loop say anything about.
OtherType ==
    /\ alive \in BOOLEAN /\ observed \in BOOLEAN
    /\ lastResult \in {"none", "destroyed", "leaked"}
    /\ calls \in 0..MaxCalls

\* Every step keeps them in their sets.
LEMMA OtherStep == OtherType /\ [Next]_vars => OtherType'
<1>. SUFFICES ASSUME OtherType, [Next]_vars PROVE OtherType'
  OBVIOUS
<1>b. (implRefs > 1) \in BOOLEAN
  OBVIOUS
<1>1. ASSUME NEW s \in Sinks, Register(s) \/ Unregister(s) PROVE OtherType'
  <2>1. calls' \in 0..MaxCalls
    BY <1>1, CallAssumption DEF OtherType, Register, Unregister, ClientCall
  <2>2. UNCHANGED <<alive, observed, lastResult>>
    BY <1>1 DEF Register, Unregister, refVars
  <2>. QED BY <2>1, <2>2 DEF OtherType
<1>2. ASSUME NEW e \in Events, DispatchEvent(e) \/ Pool(e) PROVE OtherType'
  <2>1. UNCHANGED <<observed, lastResult, calls>>
    BY <1>2 DEF DispatchEvent, Pool, StartDispatch, CallSink, FinishDispatch
  <2>2. alive' = alive \/ alive' = (implRefs > 1)
    <3>1. DispatchEvent(e) \/ StartDispatch(e) \/ CallSink(e) => alive' = alive
      BY DEF DispatchEvent, StartDispatch, CallSink, refVars
    <3>2. FinishDispatch(e) => alive' = (implRefs > 1)
      BY Zenon DEF FinishDispatch, ReleaseImpl
    <3>. QED BY <1>2, <3>1, <3>2, Zenon DEF Pool
  <2>3. alive' \in BOOLEAN
    BY <1>b, <2>2, Zenon DEF OtherType
  <2>. QED BY <2>1, <2>3 DEF OtherType
<1>3. CASE ShellNext
  <2>1. /\ alive' = alive \/ alive' = TRUE \/ alive' = (implRefs > 1)
        /\ observed' = observed \/ observed' = TRUE \/ observed' = FALSE
    <3>1. CreateRoot => alive' = TRUE /\ observed' = observed
      BY Zenon DEF CreateRoot
    <3>2. RootFails \/ NoConfiguration \/ RegisterShell \/ UnregisterShell =>
             alive' = alive /\ observed' = observed
      BY DEF RootFails, NoConfiguration, RegisterShell, UnregisterShell, refVars
    <3>3. ConfigureImpl => alive' = alive /\ observed' = TRUE
      BY Zenon DEF ConfigureImpl
    <3>4. StopImpl => alive' = (implRefs > 1) /\ observed' = FALSE
      BY Zenon DEF StopImpl, ReleaseImpl
    <3>5. ReleaseRoot => alive' = (implRefs > 1) /\ observed' = observed
      BY Zenon DEF ReleaseRoot, ReleaseImpl
    <3>. QED BY <1>3, <3>1, <3>2, <3>3, <3>4, <3>5, Zenon DEF ShellNext
  <2>2. alive' \in BOOLEAN /\ observed' \in BOOLEAN
    BY <1>b, <2>1, Zenon DEF OtherType
  <2>3. calls' = calls /\ lastResult' \in {"none", "destroyed", "leaked"}
    BY <1>3 DEF OtherType, ShellNext, CreateRoot, RootFails, NoConfiguration,
                ConfigureImpl, RegisterShell, UnregisterShell, StopImpl, ReleaseRoot
  <2>. QED BY <2>2, <2>3 DEF OtherType
<1>4. CASE UNCHANGED vars
  BY <1>4 DEF OtherType, vars, refVars
<1>. QED BY <1>1, <1>2, <1>3, <1>4 DEF Next

\* The variables keep their types.
THEOREM TypeCorrect == Spec => []TypeOK
<1>1. Init => OtherType
  <2>. SUFFICES ASSUME Init PROVE OtherType
    OBVIOUS
  <2>1. alive \in BOOLEAN /\ observed \in BOOLEAN
    BY Zenon DEF Init
  <2>. QED BY <2>1, CallAssumption DEF Init, OtherType
<1>2. IInv /\ DInv /\ OtherType => TypeOK
  BY Zenon DEF IInv, RefType, DInv, ListType, JobStates, OtherType, TypeOK
<1>. QED BY <1>1, <1>2, OtherStep, Invariance, ListInvariance, PTL DEF Spec
=============================================================================
