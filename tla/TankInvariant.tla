---------------------------- MODULE TankInvariant ----------------------------
(***************************************************************************)
(* The inductive invariant behind the properties of TankBackend.  The      *)
(* properties alone are not inductive: why a stop is final depends on who  *)
(* holds io, on tickets being unique and never ahead of the epoch, and on  *)
(* what each service still has to do at each of its steps.                 *)
(***************************************************************************)
EXTENDS TankRefinement

ReleasePc == {"release", "free", "confirm"}
StopPc == {"halt", "verify", "latch"}

(* The steps a thread takes inside io. *)
InsideIo(p) ==
    \/ pc[p] \in PreparePc \cup ReleasePc \cup StopPc \cup {"lastZero"}
    \/ pc[p] = "fail" /\ p # Telemetry
    \/ p = Control /\ pc[p] # "idle"

IoExclusive == \A p \in Procs : InsideIo(p) => io = p

ServiceSteps ==
    \A c \in Clients :
        /\ pc[c] \in StopPc => op[c] \in Stops
        /\ pc[c] \in PreparePc \cup ReleasePc => op[c] = "ready"
        /\ pc[c] # "idle" => op[c] # "none" /\ result[c] = "none"
        /\ result[c] \in {"stopped", "braked"} => op[c] \in Stops

TicketOrder ==
    /\ \A p \in Procs : ticket[p] <= epoch
    /\ \A c \in Clients : ticket[c] = 0 <=> op[c] = "none"
    /\ \A c, d \in Clients : ticket[c] = ticket[d] /\ ticket[c] > 0 => c = d

(* Inside io a service still is the latest one, or has no result to give.  *)
LatestUndecided ==
    \A c, p \in Clients : InsideIo(p) /\ Latest(c) => result[c] = "none"

(* Where a thread is tells that permission is gone: an iteration overtaken *)
(* by an epoch, a stop being carried out, a shutdown past its inhibit().   *)
PermitSteps ==
    /\ pc[Control] # "idle" /\ ticket[Control] # epoch => ~owned
    /\ \A c \in Clients : pc[c] \in StopPc => ~owned
    /\ pc[Main] \in {"inhibit", "join", "lastZero", "stopped", "unstopped"} => ~running
    /\ pc[Main] \in {"join", "lastZero", "stopped", "unstopped"} => ~owned

DeviceSteps ==
    /\ \A c \in Clients : pc[c] \in {"verify", "latch"} => devVel = Still
    /\ \A p \in Preparers : EnableMotion /\ pc[p] = "commit" => devVel = Still
    /\ \A c \in Clients : pc[c] \in {"zero", "commit"} => ~sawBrake[c]
    /\ \A c \in Clients : external = 0 /\ pc[c] = "latch" => devBrake
    /\ pc[Main] \in {"lastZero", "stopped", "unstopped"} => pc[Control] = "idle"
    /\ ~EnableMotion =>
          /\ \A p \in Preparers : pc[p] \notin {"mode", "zero"}
          /\ \A c \in Clients : pc[c] = "idle"
          /\ pc[Control] = "idle"

Discipline == IoExclusive /\ ServiceSteps /\ TicketOrder /\ LatestUndecided

(* Permission, with what it depends on inside the bridge. *)
PermitPart ==
    /\ PermitSound /\ VelocityFresh /\ PermitSteps /\ FailureBudgetHonoured
    /\ ReportMatchesPermit /\ BatteryOnlyWhileConnected /\ StopWithdrawsControl

(* What the bridge knows of the device. *)
DevicePart ==
    /\ DeviceSteps /\ ConfirmedStopIsFinal /\ ConfirmedBrakeHolds /\ ShutdownLeavesStill

(* Everything the proofs carry from one step to the next: the types, the   *)
(* locking discipline, and the two parts that rest on it.                  *)
TankInv == TypeOK /\ Discipline /\ PermitPart /\ DevicePart
=============================================================================
