----------------------------- MODULE MotionPermit -----------------------------
(***************************************************************************)
(* What the TANK and CYVET adapters promise about driving the robot,       *)
(* without threads, mutexes, epochs, jobs, HTTP or RPC. An operator asks   *)
(* for control or for a stop; control is granted only to a robot at rest   *)
(* and only if the last thing asked for was control; it may lapse at any   *)
(* time; the robot moves only through an iteration begun under a permit;   *)
(* and a stop, once confirmed, leaves the robot at rest until control is   *)
(* asked for again.                                                        *)
(***************************************************************************)
CONSTANT WishAtStart    \* control is wanted before anyone asks for it

VARIABLES
    last,       \* what was asked for last: "none", "ready" or "stop"
    confirmed,  \* that stop has been reported successful
    want,       \* control comes back by itself after a lapse
    permit,     \* velocities may be sent
    iterating,  \* an iteration of the control loop is in flight
    moving      \* a nonzero velocity is in force

vars == <<last, confirmed, want, permit, iterating, moving>>

Init ==
    /\ last = "none" /\ confirmed = FALSE /\ want = WishAtStart
    /\ permit = FALSE /\ iterating = FALSE /\ moving = FALSE

Ask(what) ==
    /\ last' = what
    /\ confirmed' = FALSE
    /\ want' = FALSE
    /\ permit' = FALSE
    /\ UNCHANGED <<iterating, moving>>

Grant ==
    /\ last = "ready" \/ want
    /\ ~iterating /\ ~moving
    /\ want' = TRUE
    /\ permit' = TRUE
    /\ UNCHANGED <<last, confirmed, iterating, moving>>

Lapse ==
    /\ want' \in {want, FALSE}
    /\ permit' = FALSE
    /\ UNCHANGED <<last, confirmed, moving>>
    /\ iterating' \in {iterating, FALSE}

Begin ==
    /\ permit
    /\ iterating' = TRUE
    /\ UNCHANGED <<last, confirmed, want, permit, moving>>

Drive ==
    /\ iterating
    /\ moving' = TRUE
    /\ UNCHANGED <<last, confirmed, want, permit, iterating>>

End ==
    /\ iterating' = FALSE
    /\ UNCHANGED <<last, confirmed, want, permit, moving>>

Rest ==
    /\ moving' = FALSE
    /\ UNCHANGED <<last, confirmed, want, permit, iterating>>

Confirm ==
    /\ last = "stop"
    /\ ~iterating
    /\ moving' = FALSE
    /\ confirmed' = TRUE
    /\ UNCHANGED <<last, want, permit, iterating>>

Next ==
    \/ Ask("ready") \/ Ask("stop") \/ Grant \/ Lapse
    \/ Begin \/ Drive \/ End \/ Rest \/ Confirm

Spec == Init /\ [][Next]_vars
=============================================================================
