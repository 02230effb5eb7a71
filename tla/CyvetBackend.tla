---------------------------- MODULE CyvetBackend ----------------------------
(***************************************************************************)
(* The CYVET adapter, src/cyvet/cyvet_backend.cpp: services submit jobs    *)
(* that one worker thread executes by RPC, stopping jobs first, between    *)
(* rounds of velocity dispatch and of recovery of a stop that failed.  A   *)
(* generation number cancels what an accepted request overtakes.           *)
(*                                                                         *)
(* One step is one critical section of Impl::mutex, one RPC, or a decision *)
(* of the worker between two of them.  A velocity is represented by the    *)
(* generation in which move() accepted it; a zero velocity counts as a     *)
(* velocity.  Time is a choice: whatever may be too old may be found so.   *)
(* The robot executes requests in the order in which they were sent.       *)
(***************************************************************************)
EXTENDS Integers

CONSTANTS
    Clients,    \* executor threads that serve the services
    MaxCalls,   \* bound: service calls in a behaviour
    MaxMoves,   \* bound: velocities accepted in a behaviour
    MaxFaults   \* bound: RPCs and deadlines that fail, interventions at the robot

Nobody == "nobody"
None == -1

ASSUME ClientsAssumption == Nobody \notin Clients
ASSUME BoundsAssumption == MaxCalls \in Nat /\ MaxMoves \in Nat /\ MaxFaults \in Nat

Preparing == {"stand", "profile"}
Stopping == {"lie", "release", "estop"}

VARIABLES
    \* Impl, changed under Impl::mutex: navigation may drive, the current
    \* generation, the cached velocity
    ready, generation, velocity,
    \* a stop is not confirmed; its fallback has been requested; emergency stop
    haltPending, haltEscalated, estopLatched,
    \* the client library's session, and what the cached state says
    session, controlOwned, currentAction,
    \* the worker: step, client whose job it runs, a local of stand(),
    \* and those of the velocity dispatch
    wpc, job, existing, velocityActive, newer,
    \* confirm(): action waited for, generation that cancels it, where to go
    \* on; outcome of confirm() and stop(), where stop() goes on
    awaited, token, next, good, after,
    \* the destructor has run
    quitting,
    \* each service thread: step, request, its generation, its answer
    pc, kind, ticket, result,
    \* the robot: action executed, "moving", "slowing" or "still"
    devAction, motion,
    \* history, read by the properties only: emergency stop requested since
    \* the stop was found unconfirmed
    fallback,
    calls, moves, faults

permit == <<ready, generation, velocity>>
halt == <<haltPending, haltEscalated, estopLatched, fallback>>
link == <<session, controlOwned, currentAction>>
locals == <<job, existing, velocityActive, newer>>
waiting == <<awaited, token, next>>
services == <<pc, kind, ticket, result>>
reply == <<job, pc, result>>
drive == <<velocityActive, newer>>
device == <<devAction, motion>>
bounds == <<calls, moves>>
calling == <<waiting, good, after>>
unmoved == <<permit, halt, link, locals, calling, pc, result, device, faults>>
vars == <<permit, halt, link, wpc, locals, waiting, good, after, quitting, services,
          device, bounds, faults>>

Init ==
    /\ ready = FALSE /\ generation = 0 /\ velocity = None
    /\ haltPending = FALSE /\ haltEscalated = FALSE /\ estopLatched = FALSE
    /\ fallback = FALSE
    /\ session \in {"connected", "disconnected"}
    /\ controlOwned = FALSE /\ currentAction = "other"
    /\ wpc = "take" /\ job = Nobody
    /\ existing = FALSE /\ velocityActive = FALSE /\ newer = FALSE
    /\ awaited = "other" /\ token = 0 /\ next = "take" /\ good = FALSE /\ after = "take"
    /\ quitting = FALSE
    /\ pc = [c \in Clients |-> "idle"] /\ kind = [c \in Clients |-> "none"]
    /\ ticket = [c \in Clients |-> 0] /\ result = [c \in Clients |-> "none"]
    /\ devAction \in {"other", "walking"} /\ motion = "still"
    /\ calls = 0 /\ moves = 0 /\ faults = 0

Controlled == session = "controlled"
Interrupted(t) == quitting \/ generation # t
StopRequested == \E c \in Clients : pc[c] \in {"queued", "answered"} /\ kind[c] \in Stopping
Token == ticket[job]

Go(l) == wpc' = l
GoTop == Go(IF quitting THEN "cleanup" ELSE "take")
Charge(failed) ==
    /\ failed => faults < MaxFaults
    /\ faults' = IF failed THEN faults + 1 ELSE faults

-----------------------------------------------------------------------------
(* RPCs.  A command needs control; it is acknowledged, carried out with    *)
(* the answer lost, never carried out, or refused.  A query is answered,   *)
(* not answered, or answered with something updateMotion() throws at.      *)

Outcomes == IF Controlled THEN {"ok", "lost", "dropped", "refused"} ELSE {"none"}
QueryOutcomes == IF session = "disconnected" THEN {"none"} ELSE {"ok", "dropped", "bad"}
Applied(o) == o \in {"ok", "lost"}
TimedOut(o) == o \in {"lost", "dropped"}
ChargeRpc(o) == Charge(o \notin {"ok", "none"})

(* The robot: a halting command slows it down before it stands still;      *)
(* action parameters mean something to a walking robot only.               *)
Halted(action) ==
    /\ devAction' = action
    /\ motion' = IF motion = "still" THEN "still" ELSE "slowing"
SetParams(pace) ==
    /\ motion' = IF devAction # "walking" \/ (pace = "slowing" /\ motion = "still")
                 THEN motion ELSE pace
    /\ UNCHANGED devAction

Command(o, effect) == IF Applied(o) THEN effect ELSE UNCHANGED device

(* inhibit()                                                               *)
Inhibit ==
    /\ ready' = FALSE
    /\ generation' = generation + 1
    /\ velocity' = None

(* updateMotion(): the cached state follows a report of the robot.         *)
Report ==
    /\ currentAction' = devAction
    /\ controlOwned' = Controlled
    /\ estopLatched' = (estopLatched \/ devAction = "emergencyStop")
    /\ IF ready /\ devAction # "walking" THEN Inhibit ELSE UNCHANGED permit
    /\ UNCHANGED session

(* The session ends and the connection callback inhibits.                  *)
SessionEnds(to) ==
    /\ session' = to
    /\ controlOwned' = FALSE
    /\ Inhibit
    /\ UNCHANGED currentAction

(* releaseSdk()                                                            *)
Release(released) ==
    /\ Charge(Controlled /\ ~released)
    /\ released => Controlled
    /\ IF released THEN SessionEnds("connected") ELSE UNCHANGED <<permit, link>>

(* The worker answers the client whose job it runs.                        *)
Answer(r) ==
    /\ pc' = [pc EXCEPT ![job] = "answered"]
    /\ result' = [result EXCEPT ![job] = r]
    /\ job' = Nobody
    /\ Go("posted")

(* abortOnException(): inhibit, and under control an emergency stop.       *)
Abort ==
    /\ Inhibit
    /\ haltPending' = (haltPending \/ Controlled)
    /\ estopLatched' = (estopLatched \/ Controlled)
    /\ velocityActive' = (velocityActive /\ ~Controlled)
    /\ fallback' = (fallback /\ haltPending)
    /\ Go("abort")
    /\ UNCHANGED <<haltEscalated, link>>

-----------------------------------------------------------------------------
(* The robot's surroundings.                                               *)

(* The handheld takes over or the lease expires.  The client library sees  *)
(* it while it runs the executor, which it does in every RPC; a job's      *)
(* decisions between two of them see one state of the session.             *)
ControlLost ==
    /\ Controlled /\ wpc \notin {"velocity", "acquired", "stop"}
    /\ Charge(TRUE)
    /\ SessionEnds("connected")
    /\ UNCHANGED <<halt, wpc, locals, calling, quitting, services, device, bounds>>

(* Firmware or handheld stop the robot.                                    *)
RemoteEmergencyStop ==
    /\ devAction # "emergencyStop"
    /\ Charge(TRUE)
    /\ Halted("emergencyStop")
    /\ UNCHANGED <<permit, halt, link, wpc, locals, calling, quitting, services, bounds>>

(* A robot told to halt, or without an owner, comes to rest.               *)
Settle ==
    /\ motion = "slowing" \/ (motion = "moving" /\ ~Controlled)
    /\ motion' = "still"
    /\ UNCHANGED <<permit, halt, link, wpc, locals, calling, quitting, services,
                   devAction, bounds, faults>>

(* The answer to a periodic query arrives while the worker runs the        *)
(* executor in its loop or in the RPC of a velocity.                       *)
PollReport ==
    /\ wpc \in {"loop", "recover", "retryQuery"} /\ session # "disconnected"
    /\ Report
    /\ UNCHANGED <<haltPending, haltEscalated, fallback, wpc, locals, calling, quitting,
                   services, device, bounds, faults>>

-----------------------------------------------------------------------------
(* Services: submit() accepts or rejects, then the thread waits.           *)

Accept(c, k) ==
    /\ Inhibit
    /\ pc' = [pc EXCEPT ![c] = "queued"]
    /\ kind' = [kind EXCEPT ![c] = k]
    /\ ticket' = [ticket EXCEPT ![c] = generation + 1]
    /\ result' = [result EXCEPT ![c] = "none"]

Calls(c) ==
    /\ pc[c] = "idle" /\ ~quitting
    /\ calls < MaxCalls /\ calls' = calls + 1

(* setSpeed() looks at ready before it submits.                            *)
CheckReady(c) ==
    /\ Calls(c)
    /\ ready /\ controlOwned
    /\ pc' = [pc EXCEPT ![c] = "checked"]
    /\ UNCHANGED <<permit, halt, link, wpc, locals, calling, quitting, kind, ticket,
                   result, device, moves, faults>>

SubmitStop(c, k) ==
    /\ Calls(c)
    /\ Accept(c, k)
    /\ UNCHANGED <<halt, link, wpc, locals, calling, quitting, device, moves, faults>>

(* Seeded fault: a preparation is accepted while a stop waits. *)
SubmitPreparationAlways(c) ==
    /\ IF pc[c] = "checked" THEN UNCHANGED calls ELSE Calls(c)
    /\ Accept(c, IF pc[c] = "checked" THEN "profile" ELSE "stand")
    /\ UNCHANGED <<halt, link, wpc, locals, calling, quitting, device, moves, faults>>

(* A preparation is rejected while a stop waits or is not confirmed.       *)
SubmitPreparation(c) ==
    /\ IF pc[c] = "checked" THEN UNCHANGED calls ELSE Calls(c)
    /\ IF StopRequested \/ haltPending
       THEN pc' = [pc EXCEPT ![c] = "idle"] /\ UNCHANGED <<permit, kind, ticket, result>>
       ELSE Accept(c, IF pc[c] = "checked" THEN "profile" ELSE "stand")
    /\ UNCHANGED <<halt, link, wpc, locals, calling, quitting, device, moves, faults>>

(* The answer reaches the service; only now a stop request is over.        *)
Return(c) ==
    /\ pc[c] = "answered"
    /\ pc' = [pc EXCEPT ![c] = "idle"]
    /\ UNCHANGED <<permit, halt, link, wpc, locals, calling, quitting, kind, ticket,
                   result, device, bounds, faults>>

(* move(): the latest velocity is cached for the worker.                   *)
Move ==
    /\ moves < MaxMoves /\ moves' = moves + 1
    /\ ready /\ controlOwned /\ ~quitting
    /\ velocity' = generation
    /\ newer' = TRUE
    /\ UNCHANGED <<ready, generation, halt, link, wpc, job, existing, velocityActive,
                   calling, quitting, services, device, calls, faults>>

(* The destructor, once the executor has finished its callbacks.           *)
Shutdown ==
    /\ ~quitting /\ \A c \in Clients : pc[c] = "idle"
    /\ quitting' = TRUE
    /\ Inhibit
    /\ UNCHANGED <<halt, link, wpc, locals, calling, services, device, bounds, faults>>

-----------------------------------------------------------------------------
(* confirm(): ask the robot until it does what was ordered.                *)

Await(action, t, l) == Go("confirm") /\ awaited' = action /\ token' = t /\ next' = l

(* Who called stop() with can_cancel; estop() confirms without.            *)
Cancellable == next # "estopDone" /\ (next = "stopped" =>
    after \in {"dispatch", "silenceStopped", "recover", "unlinked", "profileSet"})
Canceled == Cancellable /\ Interrupted(token)

Confirmed(action) == devAction = action /\ (action # "laying" => motion = "still")

ConfirmReport ==
    /\ wpc = "confirm" /\ Controlled /\ ~Canceled
    /\ Report
    /\ good' = Confirmed(awaited)
    /\ Go(IF Confirmed(awaited) THEN next ELSE "confirm")
    /\ UNCHANGED <<haltPending, haltEscalated, fallback, locals, waiting, after, pc, result,
                   device, faults>>

(* Seeded fault: the confirmation has no time limit. *)
ConfirmFailsOnlyCanceled ==
    /\ wpc = "confirm" /\ (Canceled \/ ~Controlled)
    /\ good' = FALSE
    /\ Go(next)
    /\ UNCHANGED <<permit, halt, link, locals, waiting, after, pc, result, device, faults>>

(* It is canceled, loses control, or runs out of time.                     *)
ConfirmFails ==
    /\ wpc = "confirm"
    /\ Charge(Controlled /\ ~Canceled /\ devAction = awaited)
    /\ good' = FALSE
    /\ Go(next)
    /\ UNCHANGED <<permit, halt, link, locals, waiting, after, pc, result, device>>

(* A report that cannot be read, wherever the worker asks for one outside   *)
(* the timeout recovery, which catches the exception itself.               *)
BadReport ==
    /\ wpc \in {"confirm", "standQuery", "recoverQuery", "posted"}
    /\ wpc = "confirm" => Controlled /\ ~Canceled
    /\ session # "disconnected"
    /\ Charge(TRUE)
    /\ Abort
    /\ UNCHANGED <<reply, existing, newer, calling, device>>

(* The emergency stop of abortOnException(); a job is answered with the    *)
(* exception, the loop starts over, the clean-up goes on.                  *)
AbortStop ==
    /\ wpc = "abort"
    /\ \E o \in Outcomes : ChargeRpc(o) /\ Command(o, Halted("emergencyStop"))
    /\ fallback' = (fallback \/ Controlled)
    /\ IF job # Nobody THEN Answer("failed")
       ELSE /\ IF after = "cleaned" THEN Go("disconnect") ELSE GoTop
            /\ UNCHANGED reply
    /\ UNCHANGED <<permit, haltPending, haltEscalated, estopLatched, link, existing,
                   drive, calling>>

-----------------------------------------------------------------------------
(* stop()                                                                  *)

CallStop(l) == Go("stop") /\ after' = l

InEmergencyStop == estopLatched /\ currentAction = "emergencyStop"

StopUncontrolled ==
    /\ wpc = "stop" /\ ~Controlled
    /\ good' = TRUE
    /\ velocityActive' = FALSE
    /\ Go(after)
    /\ UNCHANGED <<permit, halt, link, reply, existing, newer, waiting, after, device,
                   faults>>

StopRpc ==
    /\ wpc = "stop" /\ Controlled /\ ~InEmergencyStop
    /\ \E o \in Outcomes :
          /\ ChargeRpc(o)
          /\ Command(o, Halted("walking"))
          /\ IF o = "ok"
             THEN Await("walking", generation, "stopped") /\ UNCHANGED <<halt, good>>
             ELSE /\ haltPending' = TRUE
                  /\ fallback' = (fallback /\ haltPending)
                  /\ good' = FALSE
                  /\ Go(after)
                  /\ UNCHANGED <<haltEscalated, estopLatched, waiting>>
    /\ velocityActive' = FALSE
    /\ UNCHANGED <<permit, link, reply, existing, newer, after>>

(* stopAction could switch an emergency stop back to walking.              *)
StopInEmergency ==
    /\ wpc = "stop" /\ Controlled /\ InEmergencyStop
    /\ Await("emergencyStop", generation, "stopped")
    /\ velocityActive' = FALSE
    /\ UNCHANGED <<permit, halt, link, reply, existing, newer, good, after, device, faults>>

(* An unconfirmed stop stays pending.                                      *)
StopDone ==
    /\ wpc = "stopped"
    /\ haltPending' = ~good
    /\ haltEscalated' = (haltEscalated /\ ~(good /\ awaited = "walking"))
    /\ fallback' = (fallback /\ haltPending /\ ~good)
    /\ Go(after)
    /\ UNCHANGED <<permit, estopLatched, link, locals, calling, pc, result, device, faults>>

-----------------------------------------------------------------------------
(* run(): take a job, or none.                                             *)

Waiting(c) == pc[c] = "queued" /\ job # c
Urgent(c) == kind[c] \in Stopping
First(c) == \A d \in Clients \ {c} : Waiting(d) =>
    IF Urgent(c) = Urgent(d) THEN ticket[c] < ticket[d] ELSE Urgent(c)

TakeJob(c) ==
    /\ wpc = "take" /\ Waiting(c) /\ First(c)
    /\ job' = c
    /\ Go(IF ~Urgent(c) /\ Interrupted(ticket[c]) THEN "superseded" ELSE kind[c])
    /\ UNCHANGED <<permit, halt, link, existing, drive, calling, pc, result, device,
                   faults>>

NoJob ==
    /\ wpc = "take" /\ \A c \in Clients : ~Waiting(c)
    /\ Go(IF quitting THEN "cleanup" ELSE "loop")
    /\ UNCHANGED unmoved

(* A job that ends without another call to the robot. *)
JobFails ==
    /\ \/ wpc \in {"superseded", "lieSuperseded", "profileRefused"}
       \/ wpc = "stand" /\ haltPending
       \/ wpc \in {"acquire", "acquired", "giveUp", "profileFailed"} /\ Interrupted(Token)
       \/ wpc = "releaseStopped" /\ ~good
    /\ Answer("failed")
    /\ UNCHANGED <<permit, halt, link, existing, drive, calling, device, faults>>

(* After a job the worker looks at the robot once more.                    *)
Posted ==
    /\ wpc = "posted"
    /\ \E o \in QueryOutcomes \ {"bad"} :
          /\ ChargeRpc(o)
          /\ IF o = "ok" THEN Report ELSE UNCHANGED <<permit, link, estopLatched>>
    /\ Go(IF quitting THEN "cleanup" ELSE "loop")
    /\ UNCHANGED <<haltPending, haltEscalated, fallback, locals, calling, pc, result,
                   device>>

-----------------------------------------------------------------------------
(* acquire(), for stand() and lie().                                       *)

AcquireRpc ==
    /\ wpc = "acquire" /\ ~Interrupted(Token)
    /\ \/ /\ session # "disconnected"    \* startControl() succeeds
          /\ session' = "controlled"
          /\ Go("acquired")
          /\ UNCHANGED <<permit, controlOwned, currentAction, reply, faults>>
       \/ /\ session = "connected"        \* rejected: the callback inhibits
          /\ Charge(TRUE)
          /\ SessionEnds("connected")
          /\ Answer("failed")
       \/ /\ session = "disconnected"     \* a fresh connection is required
          /\ Answer("failed")
          /\ UNCHANGED <<permit, link, faults>>
    /\ UNCHANGED <<halt, existing, drive, calling, device>>

Acquired ==
    /\ wpc = "acquired" /\ ~Interrupted(Token)
    /\ controlOwned' = TRUE
    /\ Go(IF kind[job] = "stand" THEN "standQuery" ELSE "lieAction")
    /\ UNCHANGED <<permit, halt, session, currentAction, locals, calling, pc, result,
                   device, faults>>

-----------------------------------------------------------------------------
(* stand()                                                                 *)

StandBegin ==
    /\ wpc = "stand" /\ ~haltPending
    /\ existing' = Controlled
    /\ Go("acquire")
    /\ UNCHANGED <<permit, halt, link, reply, drive, calling, device, faults>>

StandQuery ==
    /\ wpc = "standQuery"
    /\ \E o \in QueryOutcomes \ {"bad"} :
          /\ ChargeRpc(o)
          /\ IF o = "ok" THEN Report ELSE UNCHANGED <<permit, link, estopLatched>>
          /\ IF o = "ok" /\ Interrupted(Token) THEN Answer("failed")
             ELSE Go(IF o = "ok" THEN "standWalk" ELSE "giveUp") /\ UNCHANGED reply
    /\ UNCHANGED <<haltPending, haltEscalated, fallback, existing, drive, calling, device>>

(* Parameters for a walk of the same session, else the walk starts anew.   *)
StandWalk ==
    /\ wpc = "standWalk"
    /\ \E o \in Outcomes :
          /\ ChargeRpc(o)
          /\ Command(o, IF existing /\ currentAction = "walking" THEN SetParams("slowing")
                        ELSE Halted("walking"))
          /\ IF o = "ok" THEN Await("walking", Token, "standDone")
             ELSE Go("giveUp") /\ UNCHANGED waiting
    /\ UNCHANGED <<permit, halt, link, locals, good, after, pc, result>>

(* Seeded fault: ready is granted without looking at the generation again. *)
StandDoneAlways ==
    /\ wpc = "standDone" /\ good /\ Answer("ready")
    /\ velocity' = None /\ estopLatched' = FALSE /\ velocityActive' = FALSE
    /\ ready' = TRUE
    /\ UNCHANGED <<generation, haltPending, haltEscalated, fallback, link, existing, newer,
                   calling, device, faults>>

(* The walk at zero velocity is confirmed: unless something was accepted    *)
(* meanwhile, navigation may drive.                                        *)
StandDone ==
    /\ wpc = "standDone"
    /\ \/ ~good /\ Go("giveUp") /\ UNCHANGED <<permit, estopLatched, velocityActive, reply>>
       \/ /\ good /\ Interrupted(Token) /\ Answer("failed")
          /\ UNCHANGED <<permit, estopLatched, velocityActive>>
       \/ /\ good /\ ~Interrupted(Token) /\ Answer("ready")
          /\ velocity' = None /\ estopLatched' = FALSE /\ velocityActive' = FALSE
          /\ ready' = TRUE
          /\ UNCHANGED generation
    /\ UNCHANGED <<haltPending, haltEscalated, fallback, link, existing, newer, calling,
                   device, faults>>

(* stand() and lie() stop and release after an unconfirmed action.         *)
GiveUp ==
    /\ wpc = "giveUp" /\ ~Interrupted(Token)
    /\ CallStop("giveUpStopped")
    /\ UNCHANGED <<permit, halt, link, locals, waiting, good, pc, result, device, faults>>

GiveUpStopped ==
    /\ wpc = "giveUpStopped"
    /\ IF good THEN \E released \in BOOLEAN : Release(released)
       ELSE UNCHANGED <<permit, link, faults>>
    /\ Answer("failed")
    /\ UNCHANGED <<halt, existing, drive, calling, device>>

-----------------------------------------------------------------------------
(* switchProfile()                                                         *)

(* The reply time of the last motion report may be too old.                *)
ProfileBegin ==
    /\ wpc = "profile"
    /\ \/ /\ ~Interrupted(Token) /\ Controlled /\ CallStop("profileRefused")
          /\ UNCHANGED reply
       \/ /\ Interrupted(Token) \/ ~Controlled
          /\ Answer("failed") /\ UNCHANGED after
       \/ /\ ~Interrupted(Token) /\ ~haltPending /\ ~estopLatched
          /\ Controlled /\ currentAction = "walking"
          /\ CallStop("profileSet") /\ UNCHANGED reply
    /\ UNCHANGED <<permit, halt, link, existing, drive, waiting, good, device, faults>>

ProfileSet ==
    /\ wpc = "profileSet"
    /\ IF good /\ ~Interrupted(Token)
       THEN \E o \in Outcomes :
              /\ ChargeRpc(o)
              /\ Command(o, SetParams("slowing"))
              /\ IF o = "ok" THEN Await("walking", Token, "profileDone")
                 ELSE Go("profileFailed") /\ UNCHANGED waiting
       ELSE Go("profileFailed") /\ UNCHANGED <<waiting, device, faults>>
    /\ UNCHANGED <<permit, halt, link, locals, good, after, pc, result>>

ProfileDone ==
    /\ wpc = "profileDone"
    /\ IF good /\ ~Interrupted(Token)
       THEN Answer("ready") /\ ready' = TRUE /\ velocity' = None /\ UNCHANGED generation
       ELSE Go("profileFailed") /\ UNCHANGED <<permit, reply>>
    /\ UNCHANGED <<halt, link, existing, drive, calling, device, faults>>

ProfileFailed ==
    /\ wpc = "profileFailed" /\ ~Interrupted(Token)
    /\ Inhibit
    /\ CallStop("profileRefused")
    /\ UNCHANGED <<halt, link, locals, waiting, good, pc, result, device, faults>>

-----------------------------------------------------------------------------
(* release(), lie() and estop()                                            *)

ReleaseBegin ==
    /\ wpc = "release"
    /\ IF Controlled THEN CallStop("releaseStopped") /\ UNCHANGED reply
       ELSE Answer("unowned") /\ UNCHANGED after
    /\ UNCHANGED <<permit, halt, link, existing, drive, waiting, good, device, faults>>

(* Seeded fault: control is released whether or not the stop was confirmed. *)
ReleaseStoppedAlways ==
    /\ wpc = "releaseStopped"
    /\ \E released \in BOOLEAN :
          /\ Release(released)
          /\ Answer(IF released \/ ~Controlled THEN "stopped" ELSE "failed")
    /\ UNCHANGED <<halt, existing, drive, calling, device>>

(* Only a confirmed stop is followed by the release of control.            *)
ReleaseStopped ==
    /\ wpc = "releaseStopped" /\ good
    /\ \E released \in BOOLEAN :
          /\ Release(released)
          /\ Answer(IF released \/ ~Controlled THEN "stopped" ELSE "failed")
    /\ UNCHANGED <<halt, existing, drive, calling, device>>

LieBegin ==
    /\ wpc = "lie"
    /\ IF Interrupted(Token) THEN CallStop("lieSuperseded") ELSE Go("acquire") /\ UNCHANGED after
    /\ UNCHANGED <<permit, halt, link, locals, waiting, good, pc, result, device, faults>>

LieAction ==
    /\ wpc = "lieAction"
    /\ \E o \in Outcomes :
          /\ ChargeRpc(o)
          /\ Command(o, Halted("laying"))
          /\ IF o = "ok" THEN Await("laying", Token, "lieDone")
             ELSE Go("giveUp") /\ UNCHANGED waiting
    /\ UNCHANGED <<permit, halt, link, locals, good, after, pc, result>>

LieDone ==
    /\ wpc = "lieDone"
    /\ \/ /\ ~good /\ Go("giveUp")
          /\ UNCHANGED <<permit, link, reply, faults>>
       \/ /\ good
          /\ \E released \in BOOLEAN :
                Release(released) /\ Answer(IF released THEN "stopped" ELSE "failed")
    /\ UNCHANGED <<halt, existing, drive, calling, device>>

Estop ==
    /\ wpc = "estop"
    /\ estopLatched' = TRUE /\ velocityActive' = FALSE
    /\ \E o \in Outcomes :
          /\ ChargeRpc(o)
          /\ Command(o, Halted("emergencyStop"))
          /\ IF o = "ok" THEN Await("emergencyStop", Token, "estopDone")
                              /\ UNCHANGED <<reply, haltPending, fallback>>
             ELSE /\ Answer("failed") /\ UNCHANGED waiting
                  /\ haltPending' = (haltPending \/ Controlled)
                  /\ fallback' = (fallback \/ Controlled)
    /\ UNCHANGED <<permit, haltEscalated, link, existing, newer, good, after>>

EstopDone ==
    /\ wpc = "estopDone"
    /\ haltPending' = ~good
    /\ fallback' = ~good
    /\ Answer(IF good THEN "stopped" ELSE "failed")
    /\ UNCHANGED <<permit, haltEscalated, estopLatched, link, existing, drive, calling,
                   device, faults>>

-----------------------------------------------------------------------------
(* run(): the loop between jobs.  Reconnect, stop on stale motion state.   *)

Loop ==
    /\ wpc = "loop" /\ session # "disconnected"
    /\ Go("dispatch")
    /\ UNCHANGED unmoved

Reconnect ==
    /\ wpc = "loop" /\ session = "disconnected"
    /\ session' \in {"connected", "disconnected"}
    /\ controlOwned' = FALSE
    /\ GoTop
    /\ UNCHANGED <<permit, halt, currentAction, locals, calling, pc, result, device,
                   faults>>

MotionStale ==
    /\ wpc = "loop" /\ session # "disconnected" /\ ready
    /\ Charge(TRUE)
    /\ Inhibit
    /\ CallStop("dispatch")
    /\ UNCHANGED <<halt, link, locals, waiting, good, pc, result, device>>

-----------------------------------------------------------------------------
(* dispatchVelocity()                                                      *)

DispatchUnready ==
    /\ wpc = "dispatch" /\ ~(ready /\ Controlled)
    /\ velocityActive' = FALSE
    /\ Go("recover")
    /\ UNCHANGED <<permit, halt, link, reply, existing, newer, calling, device, faults>>

(* Seeded fault: an old velocity is dropped, the robot is not stopped. *)
DispatchSilentOnly ==
    /\ wpc = "dispatch" /\ ready /\ Controlled
    /\ velocity' = None
    /\ velocityActive' = FALSE
    /\ Go("recover")
    /\ UNCHANGED <<ready, generation, halt, link, reply, existing, newer, calling, device,
                   faults>>

(* Seeded fault: the outcome of the stop is ignored. *)
SilenceStoppedIgnored == wpc = "silenceStopped" /\ Go("recover") /\ UNCHANGED unmoved

(* No velocity, one of an older generation, or one that is too old: a       *)
(* robot that was driven is stopped.                                       *)
DispatchSilent ==
    /\ wpc = "dispatch" /\ ready /\ Controlled
    /\ velocity' = None
    /\ velocityActive' = FALSE
    /\ IF velocityActive THEN CallStop("silenceStopped") ELSE Go("recover") /\ UNCHANGED after
    /\ UNCHANGED <<ready, generation, halt, link, reply, existing, newer, waiting, good,
                   device, faults>>

SilenceStopped ==
    /\ wpc = "silenceStopped"
    /\ IF good THEN UNCHANGED permit ELSE Inhibit
    /\ Go("recover")
    /\ UNCHANGED <<halt, link, locals, calling, pc, result, device, faults>>

(* The rate limit has not passed.                                          *)
DispatchLater ==
    /\ wpc = "dispatch" /\ ready /\ Controlled /\ velocity = generation
    /\ Go("recover")
    /\ UNCHANGED unmoved

DispatchTake ==
    /\ wpc = "dispatch" /\ ready /\ Controlled /\ velocity = generation
    /\ token' = velocity
    /\ newer' = FALSE
    /\ velocityActive' = TRUE
    /\ Go("velocity")
    /\ UNCHANGED <<permit, halt, link, reply, existing, awaited, next, good, after, device,
                   faults>>

(* Refused because control was lost: nothing is left to stop.              *)
VelocityRevoked ==
    /\ wpc = "velocity"
    /\ Charge(TRUE)
    /\ SessionEnds("connected")
    /\ velocityActive' = FALSE
    /\ Go("recover")
    /\ UNCHANGED <<halt, reply, existing, newer, calling, device>>

VelocityRpc ==
    /\ wpc = "velocity"
    /\ \E o \in Outcomes :
          /\ ChargeRpc(o)
          /\ Command(o, SetParams("moving"))
          /\ Go(IF o = "ok" THEN "recover" ELSE IF TimedOut(o) THEN "retryQuery" ELSE "halt")
    /\ UNCHANGED <<permit, halt, link, locals, calling, pc, result>>

MayRetry == ready /\ ~Interrupted(token) /\ Controlled

(* A timed-out velocity is not sent again: a newer one of the same          *)
(* generation is, to a robot that is still walking.                        *)
RetryQuery ==
    /\ wpc = "retryQuery"
    /\ \/ UNCHANGED <<permit, link, estopLatched, faults>> /\ ~MayRetry /\ Go("halt")
       \/ /\ MayRetry /\ Charge(TRUE) /\ Go("halt")
          /\ UNCHANGED <<permit, link, estopLatched>>
       \/ /\ MayRetry /\ Charge(FALSE)
          /\ Report
          /\ \/ Go("halt")    \* no newer velocity, or one too old by now
             \/ newer /\ ready' /\ velocity = token /\ currentAction' = "walking" /\ Go("retry")
    /\ UNCHANGED <<haltPending, haltEscalated, fallback, locals, calling, pc, result,
                   device>>

RetryRpc ==
    /\ wpc = "retry"
    /\ \E o \in Outcomes :
          /\ ChargeRpc(o)
          /\ Command(o, SetParams("moving"))
          /\ Go(IF o = "ok" THEN "recover" ELSE "halt")
    /\ UNCHANGED <<permit, halt, link, locals, calling, pc, result>>

HaltMotion ==
    /\ wpc = "halt"
    /\ Inhibit
    /\ CallStop("recover")
    /\ UNCHANGED <<halt, link, locals, waiting, good, pc, result, device, faults>>

-----------------------------------------------------------------------------
(* recoverStop()                                                           *)

(* Seeded fault: a stop stays pending when control is gone. *)
RecoverUncontrolledKeeps ==
    wpc = "recover" /\ haltPending /\ ~Controlled /\ Go("watch") /\ UNCHANGED unmoved

(* Nothing is pending, or it is too early to try again.                    *)
RecoverNothing ==
    /\ wpc = "recover"
    /\ Go("watch")
    /\ ~haltPending \/ Controlled
    /\ UNCHANGED unmoved

RecoverUncontrolled ==
    /\ wpc = "recover" /\ haltPending /\ ~Controlled
    /\ haltPending' = FALSE /\ haltEscalated' = FALSE
    /\ Go("watch")
    /\ UNCHANGED <<permit, estopLatched, fallback, link, locals, calling, pc, result,
                   device, faults>>

(* The first time, an emergency stop is requested.                         *)
RecoverEscalate ==
    /\ wpc = "recover" /\ haltPending /\ Controlled
    /\ IF haltEscalated
       THEN UNCHANGED <<halt, device, faults>>
       ELSE /\ haltEscalated' = TRUE /\ estopLatched' = TRUE /\ fallback' = TRUE
            /\ UNCHANGED haltPending
            /\ \E o \in Outcomes : ChargeRpc(o) /\ Command(o, Halted("emergencyStop"))
    /\ Go("recoverQuery")
    /\ UNCHANGED <<permit, link, locals, calling, pc, result>>

(* A robot at rest ends it, otherwise the stop is repeated.                *)
RecoverQuery ==
    /\ wpc = "recoverQuery"
    /\ \E o \in QueryOutcomes \ {"bad"} :
          /\ ChargeRpc(o)
          /\ IF o = "ok" THEN Report ELSE UNCHANGED <<permit, link, estopLatched>>
          /\ IF o = "ok" /\ devAction \in {"walking", "emergencyStop"} /\ motion = "still"
             THEN /\ haltPending' = FALSE /\ haltEscalated' = FALSE
                  /\ Go("watch") /\ UNCHANGED after
             ELSE CallStop("watch") /\ UNCHANGED <<haltPending, haltEscalated>>
    /\ UNCHANGED <<fallback, locals, waiting, good, pc, result, device>>

-----------------------------------------------------------------------------
(* run(): the watchdog on RPC, and the clean-up of the destructor.         *)

Watch ==
    /\ wpc = "watch"
    /\ GoTop
    /\ UNCHANGED unmoved

RpcStale ==
    /\ wpc = "watch"
    /\ Charge(TRUE)
    /\ Inhibit
    /\ IF Controlled THEN CallStop("unlinked") ELSE Go("disconnect") /\ UNCHANGED after
    /\ UNCHANGED <<halt, link, locals, waiting, good, pc, result, device>>

CleanUp ==
    /\ wpc = "cleanup"
    /\ IF Controlled THEN CallStop("cleaned") ELSE Go("disconnect") /\ UNCHANGED after
    /\ UNCHANGED <<permit, halt, link, locals, waiting, good, pc, result, device, faults>>

(* A stop that fails here, or a release that fails in the clean-up, is     *)
(* followed by an emergency stop.                                          *)
Unlink ==
    /\ wpc \in {"unlinked", "cleaned"}
    /\ \/ /\ good
          /\ IF wpc = "cleaned" /\ Controlled THEN Release(TRUE)
             ELSE UNCHANGED <<permit, link, faults>>
          /\ UNCHANGED device
       \/ /\ ~good \/ (wpc = "cleaned" /\ Controlled)
          /\ \E o \in Outcomes : ChargeRpc(o) /\ Command(o, Halted("emergencyStop"))
          /\ UNCHANGED <<permit, link>>
    /\ Go("disconnect")
    /\ UNCHANGED <<halt, locals, calling, pc, result>>

(* disconnect() of the library gives control back.                         *)
Disconnect ==
    /\ wpc = "disconnect"
    /\ SessionEnds("disconnected")
    /\ Go(IF quitting THEN "done" ELSE "take")
    /\ UNCHANGED <<halt, locals, calling, pc, result, device, faults>>

-----------------------------------------------------------------------------
Job ==
    \/ \E c \in Clients : TakeJob(c)
    \/ JobFails \/ AcquireRpc \/ Acquired
    \/ StandBegin \/ StandQuery \/ StandWalk \/ StandDone \/ GiveUp \/ GiveUpStopped
    \/ ProfileBegin \/ ProfileSet \/ ProfileDone \/ ProfileFailed
    \/ ReleaseBegin \/ ReleaseStopped \/ LieBegin \/ LieAction \/ LieDone
    \/ Estop \/ EstopDone

Round ==
    \/ NoJob \/ Posted \/ Loop \/ Reconnect \/ MotionStale
    \/ DispatchUnready \/ DispatchSilent \/ SilenceStopped \/ DispatchLater \/ DispatchTake
    \/ VelocityRevoked \/ VelocityRpc \/ RetryQuery \/ RetryRpc \/ HaltMotion
    \/ RecoverNothing \/ RecoverUncontrolled \/ RecoverEscalate \/ RecoverQuery
    \/ Watch \/ RpcStale \/ CleanUp \/ Unlink \/ Disconnect

Stop == StopUncontrolled \/ StopRpc \/ StopInEmergency \/ StopDone
Confirm == ConfirmReport \/ ConfirmFails
Exception == BadReport \/ AbortStop

Worker ==
    /\ Job \/ Round \/ Stop \/ Confirm \/ Exception
    /\ UNCHANGED <<quitting, kind, ticket, bounds>>

Service(c) ==
    \/ CheckReady(c) \/ SubmitPreparation(c)
    \/ \E k \in Stopping : SubmitStop(c, k)
    \/ Return(c)

Environment == ControlLost \/ RemoteEmergencyStop \/ Settle \/ PollReport

Finished == wpc = "done" /\ UNCHANGED vars

Next ==
    \/ Worker \/ Environment \/ Move \/ Shutdown \/ Finished
    \/ \E c \in Clients : Service(c)

Spec == Init /\ [][Next]_vars
=============================================================================
