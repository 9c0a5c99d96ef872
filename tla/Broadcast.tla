------------------------------ MODULE Broadcast ------------------------------
(***************************************************************************)
(* What a client of the notifications may rely on: there is one set of     *)
(* members, an event is raised and later delivered, once, to exactly those *)
(* who are members at one moment between the two.  No member is left out   *)
(* because others come or go, and none who has left is called.             *)
(***************************************************************************)

CONSTANTS Sinks, Events

VARIABLES
    members,
    state,   \* of each event: "none", "raised" or "delivered"
    got      \* of each event, the sinks that have got it

vars == <<members, state, got>>

Init ==
    /\ members = {}
    /\ state = [e \in Events |-> "none"]
    /\ got = [e \in Events |-> {}]

Join(s) ==
    /\ members' = members \cup {s}
    /\ UNCHANGED <<state, got>>

Leave(s) ==
    /\ members' = members \ {s}
    /\ UNCHANGED <<state, got>>

Raise(e) ==
    /\ state[e] = "none"
    /\ state' = [state EXCEPT ![e] = "raised"]
    /\ UNCHANGED <<members, got>>

Deliver(e) ==
    /\ state[e] = "raised"
    /\ state' = [state EXCEPT ![e] = "delivered"]
    /\ got' = [got EXCEPT ![e] = members]
    /\ UNCHANGED members

Next ==
    \/ \E s \in Sinks : Join(s) \/ Leave(s)
    \/ \E e \in Events : Raise(e) \/ Deliver(e)

Spec == Init /\ [][Next]_vars
=============================================================================
