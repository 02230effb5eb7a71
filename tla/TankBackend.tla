----------------------------- MODULE TankBackend -----------------------------
(***************************************************************************)
(* The TANK HTTP chassis adapter, src/tank/tank_backend.cpp: the service   *)
(* callbacks (ready, lie / release_control, soft_estop), the control       *)
(* thread, the telemetry thread and the main thread that connects and      *)
(* disconnects, over one device reached by HTTP requests that may fail.    *)
(*                                                                         *)
(* One step is one critical section of Impl::mutex, one HTTP exchange, or  *)
(* one acquisition of action_mutex or io.  A velocity is represented by    *)
(* the epoch in which move() accepted it, which is all the properties ask  *)
(* of it; Still is zero velocity.                                          *)
(***************************************************************************)
EXTENDS Integers

CONSTANTS
    Clients,            \* executor threads that serve ready / lie / soft_estop
    EnableMotion,       \* options.enable_motion_output
    StartupAcquire,     \* options.startup_acquire_control
    MoveFailureLimit,   \* options.move_failure_limit
    StateFailureLimit,  \* options.state_failure_limit
    MaxCalls,           \* bound: service calls in a behaviour
    MaxFaults,          \* bound: failing HTTP exchanges, deadlines and external changes together
    MaxExternal         \* bound: changes made at the device by somebody else

Main == "main"
Control == "control"
Telemetry == "telemetry"
Free == "free"          \* an unlocked mutex
Still == -1             \* zero velocity

Procs == Clients \cup {Main, Control, Telemetry}
Preparers == Clients \cup {Main, Telemetry}

ASSUME ClientsAssumption == Clients \cap {Main, Control, Telemetry, Free} = {}
ASSUME OptionsAssumption ==
    /\ EnableMotion \in BOOLEAN
    /\ StartupAcquire \in BOOLEAN
    /\ MoveFailureLimit \in Nat \ {0}
    /\ StateFailureLimit \in Nat \ {0}
ASSUME BoundsAssumption ==
    MaxCalls \in Nat /\ MaxFaults \in Nat /\ MaxExternal \in Nat

VARIABLES
    \* Impl, guarded by Impl::mutex (running and epoch are atomics)
    running, epoch, want, estop, brake, connected, owned, motion, cmd, battery,
    moveFails, stateFails,
    \* the two long-held mutexes and who holds them
    actionMutex, io,
    \* each thread: where it is, and the locals it carries across an exchange
    pc, op, ticket, sawBrake, sawIdle, carry, result,
    \* the device: velocity in force, software brake, state_operation = Idle
    devVel, devBrake, devIdle,
    \* spent parts of the bounds
    calls, faults, external

bridge == <<running, epoch, want, estop, brake, connected, owned, motion, cmd,
            battery, moveFails, stateFails>>
locks == <<actionMutex, io>>
locals == <<op, ticket, sawBrake, sawIdle, carry>>
device == <<devVel, devBrake, devIdle>>
vars == <<bridge, locks, pc, locals, result, device, calls, faults, external>>

-----------------------------------------------------------------------------
(* One HTTP exchange: "ok" is an acknowledged request, "lost" one the      *)
(* device acted on but whose answer did not arrive, "dropped" one that     *)
(* never arrived, "rejected" one refused with a non-2xx status or a        *)
(* negative answer, "garbled" one carried out and answered unreadably.     *)

Outcomes == {"ok", "lost", "dropped", "rejected", "garbled"}
QueryOutcomes == {"ok", "dropped", "rejected"}
Applied(o) == o \in {"ok", "lost", "garbled"}
TransportFailure(o) == o \in {"lost", "dropped"}

Charge(failed) ==
    /\ failed => faults + external < MaxFaults
    /\ faults' = IF failed THEN faults + 1 ELSE faults

(* A move takes effect on a device whose brake is off; the brake stops it. *)
Drive(v, o) ==
    /\ devVel' = IF ~Applied(o) THEN devVel ELSE IF devBrake THEN Still ELSE v
    /\ UNCHANGED <<devBrake, devIdle>>

Goto(p, l) == pc' = [pc EXCEPT ![p] = l]

(* What a thread does when an exchange is over: next step, or the failure. *)
Branch(p, good, l) == Goto(p, IF good THEN l ELSE "fail")

(* Where a connected thread goes with the answer to its request.           *)
Answered(o, ok, unanswered, refused) ==
    IF o = "ok" THEN ok ELSE IF TransportFailure(o) THEN unanswered ELSE refused

(* Leave the critical sections p holds: its locals go out of scope and a   *)
(* service hands r to its caller ("none" for every failure).  Its ticket   *)
(* and op stay as the record of the call.                                  *)
Return(p, r) ==
    /\ actionMutex' = IF actionMutex = p THEN Free ELSE actionMutex
    /\ io' = IF io = p THEN Free ELSE io
    /\ Goto(p, IF p = Main THEN "up" ELSE "idle")
    /\ result' = IF p \in Clients THEN [result EXCEPT ![p] = r] ELSE result
    /\ ticket' = IF p \in Clients THEN ticket ELSE [ticket EXCEPT ![p] = 0]
    /\ sawBrake' = IF p \in Preparers THEN [sawBrake EXCEPT ![p] = FALSE] ELSE sawBrake
    /\ sawIdle' = (sawIdle \/ p = Telemetry)
    /\ carry' = IF p = Control THEN Still ELSE carry
    /\ UNCHANGED op

-----------------------------------------------------------------------------
(* The critical sections of Impl::mutex.                                   *)

(* inhibit(): the local revocation every service starts with.              *)
Inhibit(p, emergency) ==
    /\ epoch' = epoch + 1
    /\ ticket' = [ticket EXCEPT ![p] = epoch + 1]
    /\ want' = FALSE
    /\ owned' = FALSE
    /\ estop' = (estop \/ emergency)
    /\ motion' = IF estop \/ emergency THEN "ESTOP" ELSE "LOCKED"
    /\ cmd' = Still
    /\ UNCHANGED <<running, brake, connected, battery, moveFails, stateFails>>

(* Seeded faults: the cached velocity, or the battery level, survives.     *)
LinkFailedKeeps(p, keepsCmd, keepsBattery) ==
    \/ /\ ticket[p] = epoch
       /\ connected' = FALSE
       /\ owned' = FALSE
       /\ battery' = (battery /\ keepsBattery)
       /\ motion' = IF estop THEN "ESTOP" ELSE "UNKNOWN"
       /\ cmd' = IF keepsCmd THEN cmd ELSE Still
       /\ epoch' = epoch + 1
       /\ UNCHANGED <<running, want, estop, brake, moveFails, stateFails>>
    \/ /\ ticket[p] # epoch
       /\ UNCHANGED bridge

LinkFailedKeepsCommand(p) == LinkFailedKeeps(p, TRUE, FALSE)
LinkFailedKeepsBattery(p) == LinkFailedKeeps(p, FALSE, TRUE)

(* linkFailed(): ignored when p's ticket is no longer the current epoch.   *)
LinkFailed(p) ==
    \/ /\ ticket[p] = epoch
       /\ connected' = FALSE
       /\ owned' = FALSE
       /\ battery' = FALSE
       /\ motion' = IF estop THEN "ESTOP" ELSE "UNKNOWN"
       /\ cmd' = Still
       /\ epoch' = epoch + 1
       /\ UNCHANGED <<running, want, estop, brake, moveFails, stateFails>>
    \/ /\ ticket[p] # epoch
       /\ UNCHANGED bridge

Fail(p) ==
    /\ pc[p] = "fail"
    /\ LinkFailed(p)
    /\ Return(p, "none")
    /\ UNCHANGED <<device, calls, faults, external>>

-----------------------------------------------------------------------------
(* Services: revoke locally at once, then wait for action_mutex and io.    *)

Call(c, o) ==
    /\ EnableMotion
    /\ pc[Main] = "up"
    /\ pc[c] = "idle"
    /\ calls < MaxCalls
    /\ calls' = calls + 1
    /\ Inhibit(c, o = "estop")
    /\ op' = [op EXCEPT ![c] = o]
    /\ result' = [result EXCEPT ![c] = "none"]
    /\ Goto(c, "action")
    /\ UNCHANGED <<locks, sawBrake, sawIdle, carry, device, faults, external>>

(* Seeded fault: a call that was overtaken keeps waiting. *)
TakeActionOnlyCurrent(c) ==
    /\ pc[c] = "action"
    /\ actionMutex = Free /\ ticket[c] = epoch
    /\ actionMutex' = c
    /\ Goto(c, "io")
    /\ UNCHANGED <<bridge, io, locals, result, device, calls, faults, external>>

TakeAction(c) ==
    /\ pc[c] = "action"
    /\ actionMutex = Free
    /\ actionMutex' = c
    /\ Goto(c, "io")
    /\ UNCHANGED <<bridge, io, locals, result, device, calls, faults, external>>

FirstStep(p) ==
    CASE op[p] \in {"stop", "estop"} -> "halt"
      [] OTHER -> IF EnableMotion THEN "mode" ELSE "state"

(* Seeded fault: io is not waited for. *)
TakeIoUnlocked(p) ==
    /\ pc[p] = "io"
    /\ \/ /\ running /\ ticket[p] = epoch
          /\ io' = p
          /\ Goto(p, FirstStep(p))
          /\ UNCHANGED <<actionMutex, result, locals>>
       \/ /\ ~running \/ ticket[p] # epoch
          /\ Return(p, "none")
    /\ UNCHANGED <<bridge, device, calls, faults, external>>

(* With both mutexes held the ticket is compared with the epoch once more. *)
TakeIo(p) ==
    /\ pc[p] = "io"
    /\ io = Free
    /\ \/ /\ running /\ ticket[p] = epoch
          /\ io' = p
          /\ Goto(p, FirstStep(p))
          /\ UNCHANGED <<actionMutex, result, locals>>
       \/ /\ ~running \/ ticket[p] # epoch
          /\ Return(p, "none")
    /\ UNCHANGED <<bridge, device, calls, faults, external>>

(* stop(): zero velocity for lie and release_control, the software brake   *)
(* (read back before it is believed) for soft_estop.                       *)
StopMove(c) ==
    /\ pc[c] = "halt" /\ op[c] = "stop"
    /\ \E o \in Outcomes :
          /\ Charge(o # "ok")
          /\ Drive(Still, o)
          /\ IF o = "ok" THEN Return(c, "stopped")
                         ELSE Goto(c, "fail") /\ UNCHANGED <<locks, locals, result>>
    /\ UNCHANGED <<bridge, calls, external>>

EngageBrake(c) ==
    /\ pc[c] = "halt" /\ op[c] = "estop"
    /\ \E o \in Outcomes :
          /\ Charge(o # "ok")
          /\ devBrake' = (devBrake \/ Applied(o))
          /\ devVel' = IF Applied(o) THEN Still ELSE devVel
          /\ Branch(c, o = "ok", "verify")
    /\ UNCHANGED <<bridge, locks, locals, result, devIdle, calls, external>>

VerifyBrake(c) ==
    /\ pc[c] = "verify"
    /\ \E o \in QueryOutcomes :
          /\ Charge(o # "ok")
          /\ Branch(c, o = "ok" /\ devBrake, "latch")
    /\ UNCHANGED <<bridge, locks, locals, result, device, calls, external>>

LatchBrake(c) ==
    /\ pc[c] = "latch"
    /\ brake' = TRUE
    /\ Return(c, "braked")
    /\ UNCHANGED <<running, epoch, want, estop, connected, owned, motion, cmd,
                   battery, moveFails, stateFails, device, calls, faults, external>>

-----------------------------------------------------------------------------
(* prepare(): shared by ready (explicit), automatic reconnection and       *)
(* start-up.  Only an explicit ready may release the brake.                *)

Explicit(p) == p \in Clients

ChangeMode(p) ==
    /\ pc[p] = "mode"
    /\ \E o \in Outcomes :
          /\ Charge(o # "ok")
          /\ devIdle' = (devIdle \/ Applied(o))
          /\ Branch(p, o = "ok", "state")
    /\ UNCHANGED <<bridge, locks, locals, result, devVel, devBrake, calls, external>>

QueryState(p) ==
    /\ pc[p] = "state"
    /\ \E o \in QueryOutcomes :
          /\ Charge(o # "ok")
          /\ Branch(p, o = "ok" /\ (EnableMotion => devIdle), "brake")
    /\ UNCHANGED <<bridge, locks, locals, result, device, calls, external>>

AfterBrake == IF EnableMotion THEN "zero" ELSE "commit"

(* Seeded fault: every preparation releases the brake. *)
QueryBrakeReleases(p) ==
    /\ pc[p] = "brake"
    /\ \E o \in QueryOutcomes :
          /\ Charge(o # "ok")
          /\ sawBrake' = [sawBrake EXCEPT ![p] = devBrake]
          /\ Branch(p, o = "ok", IF devBrake THEN "release" ELSE AfterBrake)
    /\ UNCHANGED <<bridge, locks, op, ticket, sawIdle, carry, result, device,
                   calls, external>>

QueryBrake(p) ==
    /\ pc[p] = "brake"
    /\ \E o \in QueryOutcomes :
          /\ Charge(o # "ok")
          /\ sawBrake' = [sawBrake EXCEPT ![p] = devBrake]
          /\ Branch(p, o = "ok", IF Explicit(p) /\ devBrake THEN "release" ELSE AfterBrake)
    /\ UNCHANGED <<bridge, locks, op, ticket, sawIdle, carry, result, device,
                   calls, external>>

(* The epoch is read before the release request is sent, not during it.    *)
CheckRelease(p) ==
    /\ pc[p] = "release"
    /\ Branch(p, ticket[p] = epoch, "free")
    /\ UNCHANGED <<bridge, locks, locals, result, device, calls, faults, external>>

ReleaseBrake(p) ==
    /\ pc[p] = "free"
    /\ \E o \in Outcomes :
          /\ Charge(o # "ok")
          /\ devBrake' = (devBrake /\ ~Applied(o))
          /\ Branch(p, o = "ok", "confirm")
    /\ UNCHANGED <<bridge, locks, locals, result, devVel, devIdle, calls, external>>

ConfirmRelease(p) ==
    /\ pc[p] = "confirm"
    /\ \E o \in QueryOutcomes :
          /\ Charge(o # "ok")
          /\ sawBrake' = [sawBrake EXCEPT ![p] = devBrake]
          /\ Branch(p, o = "ok" /\ ~devBrake, "zero")
    /\ UNCHANGED <<bridge, locks, op, ticket, sawIdle, carry, result, device,
                   calls, external>>

ZeroMove(p) ==
    /\ pc[p] = "zero"
    /\ \E o \in Outcomes :
          /\ Charge(o # "ok")
          /\ Drive(Still, o)
          /\ Branch(p, o = "ok", "commit")
    /\ UNCHANGED <<bridge, locks, locals, result, calls, external>>

(* Seeded fault: a preparation overtaken by a service commits all the same. *)
CommitUnchecked(p) ==
    /\ pc[p] = "commit"
    /\ brake' = sawBrake[p]
    /\ estop' = (estop /\ ~Explicit(p))
    /\ want' = (want \/ Explicit(p))
    /\ connected' = TRUE
    /\ owned' = (EnableMotion /\ want' /\ ~brake' /\ ~estop')
    /\ motion' = IF brake' \/ estop' THEN "ESTOP" ELSE IF owned' THEN "STANDING" ELSE "LOCKED"
    /\ moveFails' = 0
    /\ stateFails' = 0
    /\ cmd' = Still
    /\ Return(p, "ready")
    /\ UNCHANGED <<running, epoch, battery, device, calls, faults, external>>

Commit(p) ==
    /\ pc[p] = "commit"
    /\ \/ /\ running /\ ticket[p] = epoch
          /\ brake' = sawBrake[p]
          /\ estop' = (estop /\ ~Explicit(p))
          /\ want' = (want \/ Explicit(p))
          /\ connected' = TRUE
          /\ owned' = (EnableMotion /\ want' /\ ~brake' /\ ~estop')
          /\ motion' = IF brake' \/ estop' THEN "ESTOP"
                       ELSE IF owned' THEN "STANDING" ELSE "LOCKED"
          /\ moveFails' = 0
          /\ stateFails' = 0
          /\ cmd' = Still
          /\ Return(p, "ready")
          /\ UNCHANGED <<running, epoch, battery>>
       \/ /\ ~running \/ ticket[p] # epoch
          /\ Return(p, "none")
          /\ UNCHANGED bridge
    /\ UNCHANGED <<device, calls, faults, external>>

Prepare(p) ==
    \/ ChangeMode(p) \/ QueryState(p) \/ QueryBrake(p) \/ CheckRelease(p)
    \/ ReleaseBrake(p) \/ ConfirmRelease(p) \/ ZeroMove(p) \/ Commit(p)

-----------------------------------------------------------------------------
(* /cmd_vel: move() caches the latest velocity; an old one expires.        *)

Permitted == connected /\ owned /\ ~estop /\ ~brake

Move ==
    /\ pc[Main] = "up"
    /\ \/ cmd' = Still                                       \* NaN, Inf or zero
       \/ running /\ Permitted /\ cmd' = epoch
    /\ UNCHANGED <<running, epoch, want, estop, brake, connected, owned, motion,
                   battery, moveFails, stateFails, locks, pc, locals, result, device,
                   calls, faults, external>>

CommandExpires ==
    /\ cmd # Still
    /\ cmd' = Still
    /\ UNCHANGED <<running, epoch, want, estop, brake, connected, owned, motion,
                   battery, moveFails, stateFails, locks, pc, locals, result, device,
                   calls, faults, external>>

(* The workers run from the end of connect() until running is cleared.     *)
Started == pc[Main] \in {"up", "closing", "inhibit", "join"}

(* Seeded fault: nothing is sent while no velocity is cached. *)
ControlTakeIfMoving ==
    /\ Started /\ running /\ pc[Control] = "idle"
    /\ io = Free
    /\ EnableMotion /\ Permitted /\ cmd # Still
    /\ io' = Control
    /\ ticket' = [ticket EXCEPT ![Control] = epoch]
    /\ carry' = cmd
    /\ Goto(Control, "send")
    /\ UNCHANGED <<bridge, actionMutex, op, sawBrake, sawIdle, result, device, calls,
                   faults, external>>

(* controlLoop(): one iteration holds io throughout.  "expired" is stale   *)
(* telemetry or, after failures, an overdue move acknowledgement.          *)
ControlTake ==
    /\ Started /\ running /\ pc[Control] = "idle"
    /\ io = Free
    /\ EnableMotion /\ Permitted
    /\ io' = Control
    /\ ticket' = [ticket EXCEPT ![Control] = epoch]
    /\ \E expired \in BOOLEAN :
          /\ Charge(expired)
          /\ carry' = IF expired THEN Still ELSE cmd
          /\ Goto(Control, IF expired THEN "expire" ELSE "send")
    /\ UNCHANGED <<bridge, actionMutex, op, sawBrake, sawIdle, result, device, calls,
                   external>>

ControlExpire ==
    /\ pc[Control] = "expire"
    /\ \E o \in Outcomes : Charge(o # "ok") /\ Drive(Still, o)
    /\ Goto(Control, "fail")
    /\ UNCHANGED <<bridge, locks, locals, result, calls, external>>

ControlSend ==
    /\ pc[Control] = "send"
    /\ \E o \in Outcomes :
          /\ Charge(o # "ok")
          /\ Drive(carry, o)
          /\ Goto(Control, Answered(o, "acked", "unanswered", "refused"))
    /\ UNCHANGED <<bridge, locks, locals, result, calls, external>>

(* The answer counts only for the epoch and the permit it was sent under.  *)
Acknowledged ==
    /\ moveFails' = 0
    /\ motion' = IF carry = Still THEN "STANDING" ELSE "MOVING"
    /\ Return(Control, "none")
    /\ UNCHANGED cmd

(* Seeded fault: one failure too many is tolerated. *)
NotAcknowledgedLate ==
    /\ moveFails' = moveFails + 1
    /\ motion' = "UNKNOWN"
    /\ cmd' = Still
    /\ \/ Goto(Control, "fail") /\ UNCHANGED <<locks, locals, result>>
       \/ /\ pc[Control] = "unanswered" /\ moveFails < MoveFailureLimit
          /\ Return(Control, "none")

NotAcknowledged ==
    /\ moveFails' = moveFails + 1
    /\ motion' = "UNKNOWN"
    /\ cmd' = Still
    /\ \/ Goto(Control, "fail") /\ UNCHANGED <<locks, locals, result>>
       \/ /\ pc[Control] = "unanswered" /\ moveFails + 1 < MoveFailureLimit
          /\ Return(Control, "none")

ControlAck ==
    /\ pc[Control] \in {"acked", "unanswered", "refused"}
    /\ IF ticket[Control] = epoch /\ owned
       THEN IF pc[Control] = "acked" THEN Acknowledged ELSE NotAcknowledged
       ELSE Return(Control, "none") /\ UNCHANGED <<moveFails, motion, cmd>>
    /\ UNCHANGED <<running, epoch, want, estop, brake, connected, owned, battery,
                   stateFails, device, calls, faults, external>>

-----------------------------------------------------------------------------
(* telemetryLoop(): polls while connected, reconnects while not.  connected *)
(* is read before the branch is taken.                                     *)

(* Seeded fault: only a wish for control makes telemetry reconnect. *)
TelemetryWakeIfWanted ==
    /\ Started /\ running /\ pc[Telemetry] = "idle"
    /\ \E l \in IF connected THEN {"poll", "battery"}
                ELSE IF want THEN {"reconnect"} ELSE {} : Goto(Telemetry, l)
    /\ UNCHANGED <<bridge, locks, locals, result, device, calls, faults, external>>

TelemetryWake ==
    /\ Started /\ running /\ pc[Telemetry] = "idle"
    /\ \E l \in IF connected THEN {"poll", "battery"} ELSE {"reconnect"} :
          Goto(Telemetry, l)
    /\ UNCHANGED <<bridge, locks, locals, result, device, calls, faults, external>>

LoadTicket(from, to) ==
    /\ pc[Telemetry] = from
    /\ ticket' = [ticket EXCEPT ![Telemetry] = epoch]
    /\ Goto(Telemetry, to)
    /\ UNCHANGED <<bridge, op, sawBrake, sawIdle, carry, result, device, calls, faults,
                   external>>

StartPoll == LoadTicket("poll", "pollState") /\ UNCHANGED locks
StartBattery == LoadTicket("battery", "batteryReply") /\ UNCHANGED locks

(* action_mutex is only tried: a busy one postpones the reconnection.      *)
StartReconnect ==
    /\ actionMutex = Free
    /\ actionMutex' = Telemetry
    /\ UNCHANGED io
    /\ LoadTicket("reconnect", "io")

PostponeReconnect ==
    /\ pc[Telemetry] = "reconnect"
    /\ actionMutex # Free
    /\ Goto(Telemetry, "idle")
    /\ UNCHANGED <<bridge, locks, locals, result, device, calls, faults, external>>

PollState ==
    /\ pc[Telemetry] = "pollState"
    /\ \E o \in QueryOutcomes :
          /\ Charge(o # "ok")
          /\ Goto(Telemetry, Answered(o, "pollBrake", "pollLost", "pollRefused"))
    /\ sawIdle' = devIdle
    /\ UNCHANGED <<bridge, locks, op, ticket, sawBrake, carry, result, device, calls,
                   external>>

PollBrake ==
    /\ pc[Telemetry] = "pollBrake"
    /\ \E o \in QueryOutcomes :
          /\ Charge(o # "ok")
          /\ Goto(Telemetry, Answered(o, "polled", "pollLost", "pollRefused"))
    /\ sawBrake' = [sawBrake EXCEPT ![Telemetry] = devBrake]
    /\ UNCHANGED <<bridge, locks, op, ticket, sawIdle, carry, result, device, calls,
                   external>>

(* Seeded fault: the brake is recorded but permission is kept. *)
PollConfirmedKeepsPermit ==
    /\ brake' = sawBrake[Telemetry]
    /\ stateFails' = 0
    /\ UNCHANGED <<owned, want, motion, cmd>>
    /\ Return(Telemetry, "none")

(* A confirmed brake or a foreign mode withdraws permission without a new  *)
(* epoch; only an explicit ready gives it back.                            *)
PollConfirmed ==
    /\ brake' = sawBrake[Telemetry]
    /\ stateFails' = 0
    /\ IF sawBrake[Telemetry] \/ ~sawIdle
       THEN /\ owned' = FALSE
            /\ want' = FALSE
            /\ motion' = IF sawBrake[Telemetry] THEN "ESTOP" ELSE "LOCKED"
            /\ cmd' = Still
       ELSE UNCHANGED <<owned, want, motion, cmd>>
    /\ Return(Telemetry, "none")

PollFailed ==
    /\ stateFails' = stateFails + 1
    /\ \/ Goto(Telemetry, "fail") /\ UNCHANGED <<locks, locals, result>>
       \/ /\ pc[Telemetry] = "pollLost" /\ stateFails + 1 < StateFailureLimit
          /\ Return(Telemetry, "none")
    /\ UNCHANGED <<brake, owned, want, motion, cmd>>

PollDone ==
    /\ pc[Telemetry] \in {"polled", "pollLost", "pollRefused"}
    /\ IF ticket[Telemetry] = epoch
       THEN IF pc[Telemetry] = "polled" THEN PollConfirmed ELSE PollFailed
       ELSE /\ Return(Telemetry, "none")
            /\ UNCHANGED <<brake, stateFails, owned, want, motion, cmd>>
    /\ UNCHANGED <<running, epoch, estop, connected, battery, moveFails, device, calls,
                   faults, external>>

BatteryReply ==
    /\ pc[Telemetry] = "batteryReply"
    /\ \/ ticket[Telemetry] = epoch /\ connected /\ battery' \in BOOLEAN
       \/ ~(ticket[Telemetry] = epoch /\ connected) /\ UNCHANGED battery
    /\ Return(Telemetry, "none")
    /\ UNCHANGED <<running, epoch, want, estop, brake, connected, owned, motion, cmd,
                   moveFails, stateFails, device, calls, faults, external>>

-----------------------------------------------------------------------------
(* disconnect(): runs once the executor has been joined, so no service is  *)
(* in progress and none can start.                                         *)

BeginShutdown ==
    /\ pc[Main] = "up"
    /\ Goto(Main, "closing")
    /\ UNCHANGED <<bridge, locks, locals, result, device, calls, faults, external>>

(* Seeded fault: the workers are never told to stop. *)
StopRunningForgotten ==
    /\ pc[Main] = "closing"
    /\ \A c \in Clients : pc[c] = "idle"
    /\ Goto(Main, "inhibit")
    /\ UNCHANGED <<bridge, locks, locals, result, device, calls, faults, external>>

StopRunning ==
    /\ pc[Main] = "closing"
    /\ \A c \in Clients : pc[c] = "idle"
    /\ running' = FALSE
    /\ Goto(Main, "inhibit")
    /\ UNCHANGED <<epoch, want, estop, brake, connected, owned, motion, cmd, battery,
                   moveFails, stateFails, locks, locals, result, device, calls, faults,
                   external>>

ShutdownInhibit ==
    /\ pc[Main] = "inhibit"
    /\ Inhibit(Main, FALSE)
    /\ Goto(Main, "join")
    /\ UNCHANGED <<locks, op, sawBrake, sawIdle, carry, result, device, calls, faults,
                   external>>

(* Seeded fault: the control thread is not joined, io is not waited for. *)
JoinThreadsDetached ==
    /\ pc[Main] = "join"
    /\ pc[Telemetry] = "idle"
    /\ actionMutex' = Main /\ io' = Main
    /\ Goto(Main, "lastZero")
    /\ UNCHANGED <<bridge, locals, result, device, calls, faults, external>>

JoinThreads ==
    /\ pc[Main] = "join"
    /\ pc[Control] = "idle" /\ pc[Telemetry] = "idle"
    /\ actionMutex = Free /\ io = Free
    /\ actionMutex' = Main /\ io' = Main
    /\ Goto(Main, "lastZero")
    /\ UNCHANGED <<bridge, locals, result, device, calls, faults, external>>

LastZero ==
    /\ pc[Main] = "lastZero"
    /\ \E o \in IF EnableMotion THEN Outcomes ELSE {"dropped"} :
          /\ Charge(EnableMotion /\ o # "ok")
          /\ Drive(Still, o)
          /\ Goto(Main, IF o = "ok" THEN "stopped" ELSE "unstopped")
    /\ actionMutex' = Free /\ io' = Free
    /\ connected' = FALSE
    /\ battery' = FALSE
    /\ UNCHANGED <<running, epoch, want, estop, brake, owned, motion, cmd, moveFails,
                   stateFails, locals, result, calls, external>>

Finished == pc[Main] \in {"stopped", "unstopped"} /\ UNCHANGED vars

-----------------------------------------------------------------------------
(* Somebody else at the device: its software brake or its operating mode.  *)
ExternalChange ==
    /\ external < MaxExternal /\ faults + external < MaxFaults
    /\ external' = external + 1
    /\ \/ /\ devBrake' = ~devBrake
          /\ devVel' = Still
          /\ UNCHANGED devIdle
       \/ devIdle' = ~devIdle /\ UNCHANGED <<devVel, devBrake>>
    /\ UNCHANGED <<bridge, locks, pc, locals, result, calls, faults>>

(* The constructor has run and connect() is inside prepare(false, 0).      *)
Init ==
    /\ running = TRUE /\ epoch = 0 /\ want = StartupAcquire
    /\ estop = FALSE /\ brake = FALSE /\ connected = FALSE /\ owned = FALSE
    /\ motion = "UNKNOWN" /\ cmd = Still /\ battery = FALSE
    /\ moveFails = 0 /\ stateFails = 0
    /\ actionMutex = Main /\ io = Main
    /\ pc = [p \in Procs |-> IF p # Main THEN "idle"
                             ELSE IF EnableMotion THEN "mode" ELSE "state"]
    /\ op = [p \in Preparers |-> "none"]
    /\ ticket = [p \in Procs |-> 0]
    /\ sawBrake = [p \in Preparers |-> FALSE]
    /\ sawIdle = TRUE /\ carry = Still
    /\ result = [c \in Clients |-> "none"]
    /\ devVel = Still /\ devBrake \in BOOLEAN /\ devIdle \in BOOLEAN
    /\ calls = 0 /\ faults = 0 /\ external = 0

ClientStep(c) ==
    \/ TakeAction(c) \/ StopMove(c) \/ EngageBrake(c) \/ VerifyBrake(c)
    \/ LatchBrake(c)

ControlStep == ControlTake \/ ControlExpire \/ ControlSend \/ ControlAck \/ Fail(Control)

TelemetryStep ==
    \/ TelemetryWake \/ StartPoll \/ StartBattery \/ StartReconnect
    \/ PostponeReconnect \/ PollState \/ PollBrake \/ PollDone \/ BatteryReply

MainStep == StopRunning \/ ShutdownInhibit \/ JoinThreads \/ LastZero

Next ==
    \/ \E c \in Clients, o \in {"ready", "stop", "estop"} : Call(c, o)
    \/ \E c \in Clients : ClientStep(c)
    \/ \E p \in Preparers : TakeIo(p) \/ Prepare(p) \/ Fail(p)
    \/ ControlStep \/ TelemetryStep
    \/ Move \/ CommandExpires
    \/ BeginShutdown \/ MainStep \/ Finished
    \/ ExternalChange

Spec == Init /\ [][Next]_vars

(* Threads that have work keep running; a blocked lock() is granted, since  *)
(* the other holders keep io and action_mutex free for most of a period;   *)
(* time passes, so a cached velocity expires.  Calls, new velocities,      *)
(* changes at the device and the decision to shut down are not fair.       *)
Fairness ==
    /\ \A c \in Clients : WF_vars(ClientStep(c)) /\ SF_vars(TakeAction(c))
    /\ \A p \in Preparers : WF_vars(Prepare(p) \/ Fail(p)) /\ SF_vars(TakeIo(p))
    /\ WF_vars(ControlStep) /\ SF_vars(ControlTake)
    /\ WF_vars(TelemetryStep)
    /\ WF_vars(CommandExpires) /\ WF_vars(MainStep)

FairSpec == Spec /\ Fairness
-----------------------------------------------------------------------------
(* Properties.                                                             *)

PreparePc == {"mode", "state", "brake", "zero", "commit"}
ClientPc == PreparePc \cup {"idle", "action", "io", "halt", "verify", "latch",
                            "release", "free", "confirm", "fail"}
ControlPc == {"idle", "expire", "send", "acked", "unanswered", "refused", "fail"}
TelemetryPc == PreparePc \cup {"idle", "poll", "pollState", "pollBrake", "polled",
                               "pollLost", "pollRefused", "battery", "batteryReply",
                               "reconnect", "io", "fail"}
MainPc == PreparePc \cup {"fail", "up", "closing", "inhibit", "join", "lastZero",
                          "stopped", "unstopped"}

(* The client whose call came last; the services that stop the robot.      *)
Latest(c) == ticket[c] > 0 /\ \A d \in Clients : ticket[d] <= ticket[c]
Stops == {"stop", "estop"}

BridgeTypes ==
    /\ running \in BOOLEAN /\ want \in BOOLEAN /\ estop \in BOOLEAN
    /\ brake \in BOOLEAN /\ connected \in BOOLEAN /\ owned \in BOOLEAN
    /\ battery \in BOOLEAN
    /\ epoch \in Nat /\ moveFails \in Nat /\ stateFails \in Nat
    /\ motion \in {"UNKNOWN", "STANDING", "MOVING", "LOCKED", "ESTOP"}
    /\ cmd \in Nat \cup {Still}

PcTypes ==
    /\ pc \in [Procs -> ClientPc \cup ControlPc \cup TelemetryPc \cup MainPc]
    /\ \A c \in Clients : pc[c] \in ClientPc
    /\ pc[Control] \in ControlPc /\ pc[Telemetry] \in TelemetryPc /\ pc[Main] \in MainPc

ThreadTypes ==
    /\ actionMutex \in Preparers \cup {Free} /\ io \in Procs \cup {Free}
    /\ op \in [Preparers -> {"none", "ready", "stop", "estop"}]
    /\ op[Main] = "none" /\ op[Telemetry] = "none"
    /\ ticket \in [Procs -> Nat]
    /\ sawBrake \in [Preparers -> BOOLEAN] /\ sawIdle \in BOOLEAN
    /\ carry \in Nat \cup {Still}
    /\ result \in [Clients -> {"none", "ready", "stopped", "braked"}]

DeviceTypes ==
    /\ devVel \in Nat \cup {Still} /\ devBrake \in BOOLEAN /\ devIdle \in BOOLEAN
    /\ calls \in 0..MaxCalls /\ faults \in 0..MaxFaults /\ external \in 0..MaxExternal

(* Every variable keeps its type, and every thread stays within its part.  *)
TypeOK == BridgeTypes /\ PcTypes /\ ThreadTypes /\ DeviceTypes

(* The permission to send velocities (control_owned) implies everything    *)
(* that justifies it: a connected link, a wish for control nobody has      *)
(* withdrawn, and neither the local emergency stop nor the device brake -   *)
(* across services, prepare(), polls and link failures in any order.       *)
PermitSound == owned => connected /\ want /\ ~estop /\ ~brake

(* A cached velocity belongs to the current epoch, and the one a control   *)
(* iteration carries belongs to the epoch of its ticket: no ready, stop or *)
(* reconnection lets a velocity accepted before it out ("a lost link       *)
(* discards the old velocity", TANK.md:94).                                *)
VelocityFresh ==
    /\ cmd # Still => cmd = epoch
    /\ pc[Control] = "send" => carry \in {Still, ticket[Control]}

(* After a stopping service nothing but a later ready brings control back, *)
(* whatever ready it overtook, reconnection or poll is still under way     *)
(* ("a ready cancelled by a stop must not enable motion again; a stop is    *)
(* not undone by a velocity that arrives", TANK.md:94-95).                 *)
StopWithdrawsControl ==
    \A c \in Clients : Latest(c) /\ op[c] \in Stops => ~want /\ ~owned

(* Once the latest service was a stop and has reported success, the device *)
(* is at rest and no control iteration is in flight, even if one was when  *)
(* the stop was called (TANK.md:93).                                       *)
ConfirmedStopIsFinal ==
    \A c \in Clients :
        Latest(c) /\ result[c] \in {"stopped", "braked"}
            => devVel = Still /\ pc[Control] = "idle"

(* A soft_estop that reported success keeps the device's brake engaged     *)
(* until a later service asks otherwise: neither a ready it overtook nor    *)
(* an automatic reconnection releases the brake behind it.                 *)
ConfirmedBrakeHolds ==
    external = 0 => \A c \in Clients : Latest(c) /\ result[c] = "braked" => devBrake

(* While the bridge may send velocities, fewer consecutive moves have      *)
(* failed than move_failure_limit allows, unless the control thread is     *)
(* about to declare the link lost.                                         *)
FailureBudgetHonoured ==
    owned /\ pc[Control] # "fail" => moveFails < MoveFailureLimit

(* STANDING and MOVING are reported only under permission: an answer that   *)
(* arrives after permission was withdrawn never overwrites the report.     *)
ReportMatchesPermit == motion \in {"STANDING", "MOVING"} => owned

(* A battery level is reported only while the link is up, although the     *)
(* battery request runs across link failures and reconnections.            *)
BatteryOnlyWhileConnected == battery => connected

(* Once disconnect() has had its zero velocity acknowledged the device     *)
(* stands still and no thread drives it again (TANK.md:169).               *)
ShutdownLeavesStill == EnableMotion /\ pc[Main] = "stopped" => devVel = Still

(* With enable_motion_output off no step of the bridge changes anything at *)
(* the device (TANK.md:57).                                                *)
ReadOnlyNeverControls == [][~EnableMotion /\ device' # device => external' # external]_vars

(* Every service call returns, whatever it waits for and whatever fails.   *)
CallReturns == \A c \in Clients : pc[c] # "idle" ~> pc[c] = "idle"

(* When velocities stop coming the device is brought to rest, or the bridge *)
(* gives up its permission to drive it (cmd_vel_timeout_ms).               *)
SilenceStops == <>[](cmd = Still) => <>[](devVel = Still \/ ~owned)

(* Link failures are repaired: while the node runs, the telemetry thread   *)
(* reconnects again and again, although it only tries action_mutex.        *)
Reconnects == <>[](pc[Main] = "up") => []<>connected

(* A shutdown that has begun finishes: every thread is joined.             *)
ShutdownCompletes == pc[Main] = "closing" ~> pc[Main] \in {"stopped", "unstopped"}
-----------------------------------------------------------------------------
(* What the documentation or a comment claims and the code does not do.    *)

(* "Discard responses from before a ready/stop transition"                 *)
(* (tank_backend.cpp:557): a ready that succeeded, with no later service,   *)
(* link failure or change at the device, leaves the bridge permitted.  The *)
(* epoch is taken when ready starts, so the answer of a poll begun while   *)
(* the brake was still engaged is believed after ready released it.        *)
ReadySticks ==
    external = 0 =>
        \A c \in Clients : result[c] = "ready" /\ ticket[c] = epoch => owned

=============================================================================
