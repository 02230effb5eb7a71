---------------------------- MODULE TankRefinement ----------------------------
(* TankBackend implements MotionPermit. *)
EXTENDS TankBackend

LastAsked ==
    IF \A c \in Clients : op[c] = "none" THEN "none"
    ELSE IF \E c \in Clients : Latest(c) /\ op[c] \in Stops THEN "stop" ELSE "ready"

StopConfirmed == \E c \in Clients : Latest(c) /\ result[c] \in {"stopped", "braked"}

Permit == INSTANCE MotionPermit WITH
    WishAtStart <- StartupAcquire,
    last <- LastAsked,
    confirmed <- StopConfirmed,
    want <- want,
    permit <- owned,
    iterating <- pc[Control] # "idle",
    moving <- devVel # Still

(* The adapter keeps the promise of MotionPermit: permission, motion and    *)
(* confirmed stops follow what the operator asked for last, through every   *)
(* interleaving of services, control loop, telemetry and shutdown.         *)
KeepsPromise == Permit!Spec
=============================================================================
