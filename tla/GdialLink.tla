------------------------------ MODULE GdialLink ------------------------------
(***************************************************************************)
(* What the implementation promises about its gdial service, whatever its  *)
(* timer, its notification handlers and its workers do: there is at most   *)
(* one instance at a time; it is made only while the RFC allows it, and a  *)
(* declined attempt is one the RFC has declined; the cached state is       *)
(* replayed to it after it is made; and no instance inherits the replay of *)
(* its predecessor.                                                        *)
(***************************************************************************)

VARIABLES
    phase,     \* "seeking" an instance, "serving" with one, or "declined"
    informed,  \* the instance has been told the cached state
    allowed,   \* the RFC
    available  \* whatever an attempt needs in order to succeed

env  == <<allowed, available>>
link == <<phase, informed>>
vars == <<link, env>>

Init == phase = "seeking" /\ informed = FALSE /\ env \in BOOLEAN \X BOOLEAN

Create ==
    /\ phase = "seeking" /\ allowed
    /\ phase' = "serving" /\ informed' = FALSE
    /\ UNCHANGED env

Decline ==
    /\ phase = "seeking" /\ ~allowed
    /\ phase' = "declined"
    /\ UNCHANGED <<informed, env>>

Inform ==
    /\ phase = "serving"
    /\ informed' = TRUE
    /\ UNCHANGED <<phase, env>>

\* A notification or a shutdown ends the instance, or the state of having none.
Withdraw ==
    /\ phase \in {"serving", "declined"}
    /\ phase' = "seeking" /\ informed' = FALSE
    /\ UNCHANGED env

\* The platform, the network and the RFC change on their own.
EnvironmentStep == UNCHANGED link

Next == Create \/ Decline \/ Inform \/ Withdraw \/ EnvironmentStep

Spec == Init /\ [][Next]_vars

\* Weak fairness of Create while an attempt would succeed, and of Inform, stated
\* by their guards: each is taken, or its guard is false, again and again.
Progress ==
    /\ []<>~(phase = "seeking" /\ allowed /\ available) \/ []<><<Create>>_vars
    /\ []<>~(phase = "serving" /\ ~informed) \/ []<><<Inform>>_vars
=============================================================================
