---------------------------- MODULE EventDispatch ----------------------------
(***************************************************************************)
(* The way of a gdial request to the clients: an event becomes a job of    *)
(* Thunder's worker pool, the job calls every sink of _xcastNotification   *)
(* under _adminLock, and the plugin shell's sink is one of them.           *)
(*                                                                         *)
(* A job holds a reference on the implementation, the list a reference on  *)
(* each sink.  The implementation is destroyed with its last reference,    *)
(* which the shell expects to be its own.  One activation of the plugin is *)
(* modelled; the next one starts with a new implementation.                *)
(*                                                                         *)
(* External: the pool runs jobs in any order and several at a time.  The   *)
(* sinks do not call back into the implementation.  The six requests of    *)
(* gdial take the same way and are not told apart.                         *)
(***************************************************************************)
EXTENDS Naturals, FiniteSets, SequencesExt

CONSTANTS
    Sinks,      \* INotification objects
    Shell,      \* the one of the plugin shell
    Events,     \* the requests gdial makes
    NoEvent,
    MaxCalls    \* bound on the clients' Register and Unregister

ASSUME SinkAssumption  == Shell \in Sinks
ASSUME EventAssumption == NoEvent \notin Events /\ IsFiniteSet(Events)
ASSUME CallAssumption  == MaxCalls \in Nat

VARIABLES
    registry,   \* _xcastNotification
    sinkRefs,   \* the references the list holds on each sink
    lock,       \* the job that holds _adminLock, or NoEvent
    todo,       \* the sinks its loop has yet to call
    job,        \* of each event: "none", "queued", "running" or "done"
    delivered,  \* how often each event has reached each sink
    implRefs,   \* references on the implementation
    alive,      \* it has not been destroyed
    observed,   \* gdial's requests reach the implementation
    shell,      \* the plugin shell's position
    lastResult, \* what the shell's own Release has answered
    calls,
    (* history *)
    due         \* of each event, the sinks registered since it was raised

listVars == <<registry, sinkRefs>>
refVars  == <<implRefs, alive>>
vars == <<listVars, lock, todo, job, delivered, refVars, observed, shell,
          lastResult, calls, due>>

TypeOK ==
    /\ registry \in Seq(Sinks)
    /\ sinkRefs \in [Sinks -> Nat]
    /\ lock \in Events \cup {NoEvent}
    /\ todo \in Seq(Sinks)
    /\ job \in [Events -> {"none", "queued", "running", "done"}]
    /\ delivered \in [Events -> [Sinks -> Nat]]
    /\ implRefs \in Nat /\ alive \in BOOLEAN /\ observed \in BOOLEAN
    /\ shell \in {"down", "root", "configured", "up", "deaf", "stopped", "gone"}
    /\ lastResult \in {"none", "destroyed", "leaked"}
    /\ calls \in 0..MaxCalls
    /\ due \in [Events -> SUBSET Sinks]

Init ==
    /\ registry = <<>> /\ sinkRefs = [s \in Sinks |-> 0]
    /\ lock = NoEvent /\ todo = <<>>
    /\ job = [e \in Events |-> "none"]
    /\ delivered = [e \in Events |-> [s \in Sinks |-> 0]]
    /\ implRefs = 0 /\ alive = FALSE /\ observed = FALSE
    /\ shell = "down" /\ lastResult = "none"
    /\ calls = 0
    /\ due = [e \in Events |-> {}]

-----------------------------------------------------------------------------
(* Register and Unregister, under _adminLock. *)

\* Mutant: the list is not searched first.
Add_Twice(s) ==
    /\ registry' = Append(registry, s)
    /\ sinkRefs' = [sinkRefs EXCEPT ![s] = @ + 1]
    /\ UNCHANGED due

Add(s) ==
    \/ /\ s \notin Range(registry)
       /\ registry' = Append(registry, s)
       /\ sinkRefs' = [sinkRefs EXCEPT ![s] = @ + 1]
       /\ UNCHANGED due
    \/ /\ s \in Range(registry)
       /\ UNCHANGED <<registry, sinkRefs, due>>

\* Mutant: the sink is released and stays in the list.
Drop_NoErase(s) ==
    \/ /\ s \in Range(registry)
       /\ sinkRefs' = [sinkRefs EXCEPT ![s] = @ - 1]
       /\ due' = [e \in Events |-> due[e] \ {s}]
       /\ UNCHANGED registry
    \/ /\ s \notin Range(registry)
       /\ UNCHANGED <<registry, sinkRefs, due>>

Drop(s) ==
    \/ /\ s \in Range(registry)
       /\ \E i \in DOMAIN registry :
             /\ registry[i] = s /\ \A j \in 1..(i-1) : registry[j] # s
             /\ registry' = RemoveAt(registry, i)
       /\ sinkRefs' = [sinkRefs EXCEPT ![s] = @ - 1]
       /\ due' = [e \in Events |-> due[e] \ {s}]
    \/ /\ s \notin Range(registry)
       /\ UNCHANGED <<registry, sinkRefs, due>>

\* Mutant: the lock is not taken.
ClientCall_Unlocked == /\ calls < MaxCalls /\ calls' = calls + 1
                       /\ shell \in {"configured", "up"}

\* Other clients come through the shell's aggregated interface.
ClientCall == /\ calls < MaxCalls /\ calls' = calls + 1
              /\ shell \in {"configured", "up"} /\ lock = NoEvent

Register(s) ==
    /\ ClientCall /\ s # Shell
    /\ Add(s)
    /\ UNCHANGED <<lock, todo, job, delivered, refVars, observed, shell, lastResult>>

Unregister(s) ==
    /\ ClientCall /\ s # Shell
    /\ Drop(s)
    /\ UNCHANGED <<lock, todo, job, delivered, refVars, observed, shell, lastResult>>

-----------------------------------------------------------------------------
(* Requests, jobs and dispatch. *)

\* A reference goes; the last one takes the implementation with it.
ReleaseImpl ==
    /\ implRefs' = implRefs - 1
    /\ alive' = (implRefs > 1)

\* Mutant: the job takes no reference.
DispatchEvent_NoAddRef(e) ==
    /\ observed /\ job[e] = "none"
    /\ job' = [job EXCEPT ![e] = "queued"]
    /\ due' = [due EXCEPT ![e] = Range(registry)]
    /\ UNCHANGED <<listVars, lock, todo, delivered, refVars, observed, shell,
                   lastResult, calls>>

\* XCastManager's callback, onXcast..., dispatchEvent and the job's constructor.
DispatchEvent(e) ==
    /\ observed /\ job[e] = "none"
    /\ job' = [job EXCEPT ![e] = "queued"]
    /\ implRefs' = implRefs + 1
    /\ due' = [due EXCEPT ![e] = Range(registry)]
    /\ UNCHANGED <<listVars, lock, todo, delivered, alive, observed, shell,
                   lastResult, calls>>

\* A worker of the pool enters Dispatch.
StartDispatch(e) ==
    /\ job[e] = "queued" /\ lock = NoEvent
    /\ job' = [job EXCEPT ![e] = "running"]
    /\ lock' = e
    /\ todo' = registry
    /\ UNCHANGED <<listVars, delivered, refVars, observed, shell, lastResult, calls, due>>

\* Mutant: the loop stops at its first sink.
CallSink_OnlyFirst(e) ==
    /\ lock = e /\ todo # <<>>
    /\ delivered' = [delivered EXCEPT ![e][Head(todo)] = @ + 1]
    /\ todo' = <<>>
    /\ UNCHANGED <<listVars, lock, job, refVars, observed, shell, lastResult, calls, due>>

CallSink(e) ==
    /\ lock = e /\ todo # <<>>
    /\ delivered' = [delivered EXCEPT ![e][Head(todo)] = @ + 1]
    /\ todo' = Tail(todo)
    /\ UNCHANGED <<listVars, lock, job, refVars, observed, shell, lastResult, calls, due>>

\* Mutant: the lock is kept.
FinishDispatch_KeepsLock(e) ==
    /\ lock = e /\ todo = <<>> /\ job[e] = "running"
    /\ job' = [job EXCEPT ![e] = "done"]
    /\ ReleaseImpl
    /\ UNCHANGED <<listVars, lock, todo, delivered, observed, shell, lastResult, calls, due>>

\* The lock is left and the job destroyed.
FinishDispatch(e) ==
    /\ lock = e /\ todo = <<>> /\ job[e] = "running"
    /\ lock' = NoEvent
    /\ job' = [job EXCEPT ![e] = "done"]
    /\ ReleaseImpl
    /\ UNCHANGED <<listVars, todo, delivered, observed, shell, lastResult, calls, due>>

-----------------------------------------------------------------------------
(* The plugin shell: XCast::Initialize and XCast::Deinitialize. *)

ShellStep(from, to) == shell = from /\ shell' = to

CreateRoot ==
    /\ ShellStep("down", "root")
    /\ implRefs' = 1 /\ alive' = TRUE
    /\ UNCHANGED <<listVars, lock, todo, job, delivered, observed, lastResult, calls, due>>

\* Root gives no object: there is nothing to tear down.
RootFails ==
    /\ ShellStep("down", "gone")
    /\ UNCHANGED <<listVars, lock, todo, job, delivered, refVars, observed, lastResult,
                   calls, due>>

\* The object has no IConfiguration: neither Configure nor Register is called, nor
\* are their counterparts.
NoConfiguration ==
    /\ ShellStep("root", "stopped")
    /\ UNCHANGED <<listVars, lock, todo, job, delivered, refVars, observed, lastResult,
                   calls, due>>

\* mConfigure is one more reference.  On a new implementation Configure succeeds,
\* and gdial may make requests before the shell's sink is registered.
ConfigureImpl ==
    /\ ShellStep("root", "configured")
    /\ implRefs' = implRefs + 1
    /\ observed' = TRUE
    /\ UNCHANGED <<listVars, lock, todo, job, delivered, alive, lastResult, calls, due>>

RegisterShell ==
    /\ ShellStep("configured", "up") /\ lock = NoEvent
    /\ Add(Shell)
    /\ UNCHANGED <<lock, todo, job, delivered, refVars, observed, lastResult, calls>>

UnregisterShell ==
    /\ ShellStep("up", "deaf") /\ lock = NoEvent
    /\ Drop(Shell)
    /\ UNCHANGED <<lock, todo, job, delivered, refVars, observed, lastResult, calls>>

\* Configure(nullptr) shuts the manager down; mConfigure is released.
StopImpl ==
    /\ ShellStep("deaf", "stopped")
    /\ observed' = FALSE
    /\ ReleaseImpl
    /\ UNCHANGED <<listVars, lock, todo, job, delivered, lastResult, calls, due>>

ReleaseRoot ==
    /\ ShellStep("stopped", "gone")
    /\ ReleaseImpl
    /\ lastResult' = IF implRefs = 1 THEN "destroyed" ELSE "leaked"
    /\ UNCHANGED <<listVars, lock, todo, job, delivered, observed, calls, due>>

-----------------------------------------------------------------------------
Pool(e) == StartDispatch(e) \/ CallSink(e) \/ FinishDispatch(e)

ShellNext ==
    CreateRoot \/ RootFails \/ NoConfiguration \/ ConfigureImpl \/ RegisterShell \/ UnregisterShell
             \/ StopImpl \/ ReleaseRoot

Next ==
    \/ \E s \in Sinks : Register(s) \/ Unregister(s)
    \/ \E e \in Events : DispatchEvent(e) \/ Pool(e)
    \/ ShellNext

Spec == Init /\ [][Next]_vars

\* The pool runs every job, and a job that has begun goes on.
FairSpec == Spec /\ \A e \in Events : WF_vars(Pool(e))

-----------------------------------------------------------------------------
(* Properties. *)

\* When an event's job is done, every sink that was registered when the event was
\* raised and has been ever since has got it; and no sink ever gets it twice.
\* Sinks come and go between the request and its job and between other jobs.
ExactlyOnce ==
    \A e \in Events :
        /\ job[e] = "done" => \A s \in due[e] : delivered[e][s] = 1
        /\ \A s \in Sinks : delivered[e][s] <= 1

\* The sinks a running dispatch has yet to call are referenced by the list, once
\* each, whoever unregisters meanwhile.
CallsOnlyReferenced ==
    /\ \A s \in Sinks : sinkRefs[s] = IF s \in Range(registry) THEN 1 ELSE 0
    /\ \A i \in DOMAIN todo : sinkRefs[todo[i]] > 0

\* The implementation outlives its jobs: as long as one is queued or running it
\* has not been destroyed, even when the shell has long released it.
OutlivesJobs ==
    /\ alive <=> implRefs > 0
    /\ \A e \in Events : job[e] \in {"queued", "running"} => alive

\* Every event that became a job is dispatched.
EventuallyDispatched == \A e \in Events : job[e] = "queued" ~> job[e] = "done"

-----------------------------------------------------------------------------
(* The promise to the clients. *)

stateOf == [e \in Events |-> CASE job[e] = "none" -> "none"
                               [] job[e] = "done" -> "delivered"
                               [] OTHER -> "raised"]

\* What a done job has called once.  (Of a running one nobody can ask.)
gotOf == [e \in Events |-> IF job[e] = "done"
                           THEN {s \in Sinks : delivered[e][s] = 1} ELSE {}]

Promise == INSTANCE Broadcast
               WITH members <- Range(registry), state <- stateOf, got <- gotOf

\* The calls of a job, one by one under _adminLock, are as good as one: each event
\* reaches exactly those who were registered at one moment after it was raised.
BroadcastPromise == Promise!Spec

-----------------------------------------------------------------------------
\* "It should have been the last reference we are releasing, so it should endup
\* in a DESTRUCTION_SUCCEEDED, if not we are leaking" and the assertion after it
\* (XCast::Deinitialize).  The code does not do so.
LastReference == lastResult # "leaked"
=============================================================================
