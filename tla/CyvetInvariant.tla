---------------------------- MODULE CyvetInvariant ----------------------------
(* What must hold of CyvetBackend, and that it keeps MotionPermit. *)
EXTENDS CyvetBackend

Labels == {"take", "superseded", "stand", "profile", "lie", "release", "estop",
    "acquire", "acquired", "standQuery", "standWalk", "standDone", "giveUp",
    "giveUpStopped", "profileSet", "profileDone", "profileFailed", "profileRefused",
    "releaseStopped", "lieSuperseded", "lieAction", "lieDone", "estopDone", "confirm",
    "stop", "stopped", "abort", "posted", "loop", "dispatch", "silenceStopped",
    "velocity", "retryQuery", "retry", "halt", "recover", "recoverQuery", "watch",
    "unlinked", "cleanup", "cleaned", "disconnect", "done"}
Actions == {"other", "walking", "laying", "emergencyStop"}

FlagTypes ==
    /\ ready \in BOOLEAN /\ haltPending \in BOOLEAN /\ haltEscalated \in BOOLEAN
    /\ estopLatched \in BOOLEAN /\ controlOwned \in BOOLEAN /\ existing \in BOOLEAN
    /\ velocityActive \in BOOLEAN /\ newer \in BOOLEAN /\ good \in BOOLEAN
    /\ quitting \in BOOLEAN /\ fallback \in BOOLEAN

LinkTypes ==
    /\ session \in {"disconnected", "connected", "controlled"}
    /\ currentAction \in Actions /\ devAction \in Actions /\ awaited \in Actions
    /\ motion \in {"moving", "slowing", "still"}
    /\ wpc \in Labels /\ next \in Labels /\ after \in Labels

NumberTypes ==
    /\ generation \in Nat /\ velocity \in Nat \union {None}
    /\ token \in Nat
    /\ calls \in 0..MaxCalls /\ moves \in 0..MaxMoves /\ faults \in 0..MaxFaults

ServiceTypes ==
    /\ job \in Clients \union {Nobody}
    /\ pc \in [Clients -> {"idle", "checked", "queued", "answered"}]
    /\ kind \in [Clients -> Preparing \union Stopping \union {"none"}]
    /\ ticket \in [Clients -> Nat]
    /\ result \in [Clients -> {"none", "failed", "ready", "stopped", "unowned"}]

TypeOK == FlagTypes /\ LinkTypes /\ NumberTypes /\ ServiceTypes

(* The request accepted last. *)
Latest(c) == kind[c] # "none" /\ \A d \in Clients \ {c} : ticket[d] < ticket[c]

(* From the acceptance of a stop, release or lie until its answer has been *)
(* returned, navigation is not ready, whatever job was running and         *)
(* whichever preparations other threads submit (submit(), 176-201).        *)
StopHoldsReady == StopRequested => ~ready

(* A velocity is sent only with no unconfirmed stop and no emergency stop, *)
(* and only one accepted after the last preparation was confirmed          *)
(* (dispatchVelocity(), 545-569, recoverStop(), 617-647).                  *)
DriveJustified ==
    wpc = "velocity" => /\ ~haltPending /\ ~estopLatched
                        /\ (~Interrupted(token) => ready)

(* Once the latest request, a stop, was answered with success, the robot   *)
(* no longer moves on behalf of the bridge: no cached velocity, retried    *)
(* RPC, recovery or late preparation revives the motion.                   *)
StoppedStays ==
    \A c \in Clients : Latest(c) /\ result[c] = "stopped" =>
        motion # "moving" /\ ~ready /\ velocity = None

(* Between two rounds, and before it sends a velocity, the worker never has *)
(* navigation ready while a stop is unconfirmed or control is gone: every  *)
(* path on which a stop() failed has inhibited before it gets there.       *)
ReadyIsClean ==
    wpc \in {"take", "loop", "dispatch"} => (ready => ~haltPending /\ Controlled)

-----------------------------------------------------------------------------
(* Where the worker will go on once stop() and confirm() have returned.    *)
Point ==
    IF wpc = "confirm" /\ next # "stopped" THEN next
    ELSE IF wpc \in {"confirm", "stop", "stopped"} THEN after ELSE wpc

(* The requests whose job the worker may be in at each of its points; at   *)
(* the others it runs none.                                                *)
KindsAt(p) ==
    CASE p \in {"stand", "standQuery", "standWalk", "standDone"} -> {"stand"}
      [] p \in {"profile", "profileSet", "profileDone", "profileFailed", "profileRefused"} ->
            {"profile"}
      [] p \in {"lie", "lieSuperseded", "lieAction", "lieDone"} -> {"lie"}
      [] p \in {"release", "releaseStopped"} -> {"release"}
      [] p \in {"estop", "estopDone"} -> {"estop"}
      [] p = "superseded" -> Preparing
      [] p \in {"acquire", "acquired", "giveUp", "giveUpStopped"} -> {"stand", "lie"}
      [] OTHER -> {}

JobPart ==
    /\ wpc = "confirm" => next \in {"stopped", "standDone", "profileDone", "lieDone", "estopDone"}
    /\ wpc = "stopped" => next = "stopped"
    /\ after \in {"take", "dispatch", "silenceStopped", "recover", "watch", "unlinked", "cleaned",
                 "giveUpStopped", "profileSet", "profileRefused", "releaseStopped", "lieSuperseded"}
    /\ \A c \in Clients : pc[c] = "queued" => kind[c] # "none"
    /\ job # Nobody => pc[job] = "queued" /\ (wpc # "abort" => kind[job] \in KindsAt(Point))
    /\ job = Nobody /\ wpc # "abort" => KindsAt(Point) = {}

(* A ticket is never ahead of the generation, and a stop that has not      *)
(* returned has overtaken every preparation still queued or running.       *)
TicketPart ==
    /\ \A c \in Clients : ticket[c] <= generation
    /\ StopRequested => \A c \in Clients :
          pc[c] = "queued" /\ kind[c] \in Preparing => ticket[c] < generation

(* Behind a preparation that runs, only requests submitted after it wait.  *)
OrderPart ==
    job # Nobody /\ kind[job] \in Preparing =>
        \A c \in Clients \ {job} : pc[c] = "queued" => ticket[job] < ticket[c]

(* The worker stops a robot that has heard no velocity for too long.       *)
StopsForSilence ==
    after = "silenceStopped" /\ wpc \in {"stop", "confirm", "stopped", "silenceStopped"}

(* What being ready implies wherever the worker is: only the stop after    *)
(* silence runs with navigation ready, and inhibits when it fails.         *)
ReadyPart ==
    /\ ready => /\ job = Nobody /\ \A c \in Clients : pc[c] # "queued"
                /\ ~quitting /\ Controlled /\ ~estopLatched
                /\ haltPending => StopsForSilence
    /\ wpc \in {"stop", "confirm", "stopped"} /\ after # "silenceStopped" => ~ready
    /\ wpc = "silenceStopped" => after = "silenceStopped" /\ (ready /\ good => ~haltPending)
    /\ wpc = "recoverQuery" => ~ready
    /\ wpc = "cleanup" => quitting
    /\ wpc = "velocity" => token <= generation

(* A preparation about to grant navigation found no stop unconfirmed, no   *)
(* emergency stop latched and, unless it was overtaken, keeps control.     *)
PreparationPart ==
    /\ \/ wpc \in {"acquire", "acquired"} /\ job # Nobody /\ kind[job] = "stand"
       \/ wpc \in {"standQuery", "standWalk", "standDone", "profileDone"}
       \/ wpc = "confirm" /\ next \in {"standDone", "profileDone"}
       => ~haltPending
    /\ wpc \in {"standDone", "profileDone"} /\ good => Controlled \/ Interrupted(Token)
    /\ wpc = "stop" /\ after = "profileSet" => ~haltPending /\ ~estopLatched
    /\ \/ wpc = "confirm" /\ next = "profileDone"
       \/ wpc = "confirm" /\ next = "stopped" /\ after = "profileSet"
       => awaited = "walking" /\ (estopLatched => devAction = "emergencyStop")
    /\ wpc = "stopped" /\ after = "profileSet" => (good => ~estopLatched)
    /\ wpc = "profileSet" => (good => ~haltPending /\ ~estopLatched)
    /\ wpc = "profileDone" => (good => ~estopLatched)

(* Only a walking robot moves, and a job that answers that it stopped has   *)
(* seen the robot take up the order, or given it while in control.         *)
MotionPart ==
    /\ motion = "moving" => devAction = "walking"
    /\ ~ready => velocity = None
    /\ wpc = "stop" /\ after = "releaseStopped" => Controlled
    /\ wpc = "confirm" =>
          CASE next = "lieDone" -> awaited = "laying"
            [] next = "estopDone" -> awaited = "emergencyStop"
            [] next = "stopped" /\ after = "releaseStopped" ->
                  awaited = "emergencyStop" \/ motion # "moving"
            [] next \in {"standDone", "profileDone"} -> motion # "moving"
            [] OTHER -> TRUE
    /\ wpc \in {"standDone", "profileDone"} => motion # "moving"
    /\ good => \/ wpc \notin {"stopped", "releaseStopped", "lieDone", "estopDone"}
               \/ wpc = "stopped" /\ after # "releaseStopped"
               \/ motion # "moving"

(* While the latest request is a stop that was confirmed, no velocity is    *)
(* on its way either.                                                      *)
StoppedPart ==
    \A c \in Clients : Latest(c) /\ result[c] = "stopped" =>
        motion # "moving" /\ ~ready /\ wpc \notin {"velocity", "retryQuery", "retry"}

(* The worker remembers that it drives while a velocity is on its way, and  *)
(* has forgotten it wherever it stops or finds a stop unconfirmed.         *)
ActivePart ==
    /\ wpc \in {"velocity", "retryQuery", "retry"} => velocityActive
    /\ \/ haltPending \/ wpc \in {"stopped", "silenceStopped", "estopDone"}
       \/ wpc = "confirm" /\ next \in {"stopped", "estopDone"}
       => ~velocityActive

(* No two requests carry the same ticket; a waiting one has no answer yet. *)
RecordPart ==
    \A c \in Clients :
        /\ kind[c] # "none" => \A d \in Clients \ {c} : ticket[d] # ticket[c]
        /\ pc[c] = "queued" => result[c] = "none"

CyvetInv ==
    /\ TypeOK /\ JobPart /\ TicketPart /\ OrderPart /\ ReadyPart /\ PreparationPart
    /\ MotionPart /\ StoppedPart /\ ActivePart /\ RecordPart
    /\ StopHoldsReady /\ DriveJustified /\ ReadyIsClean

(* CYVET.md: when a stop RPC fails, emergencyStop is requested.  Recovery   *)
(* does not look at a robot still moving before it has done that.          *)
FallbackRequested == wpc = "recoverQuery" /\ motion = "moving" => fallback

LastAsked ==
    IF \A c \in Clients : kind[c] = "none" THEN "none"
    ELSE IF \E c \in Clients : Latest(c) /\ kind[c] \in Stopping THEN "stop" ELSE "ready"

(* A velocity is on its way to the robot or has just been sent. *)
Driving ==
    \/ wpc \in {"velocity", "retryQuery", "retry", "halt"}
    \/ wpc = "recover" /\ velocityActive

Permit == INSTANCE MotionPermit WITH
    WishAtStart <- FALSE,
    last <- LastAsked,
    confirmed <- \E c \in Clients : Latest(c) /\ result[c] = "stopped",
    want <- ready,
    permit <- ready,
    iterating <- Driving,
    moving <- motion = "moving"

(* The adapter keeps MotionPermit: it grants navigation only at rest and   *)
(* only for the latest request, moves only in an iteration begun while     *)
(* ready, and a confirmed stop holds.                                      *)
KeepsPromise == Permit!Spec

-----------------------------------------------------------------------------
(* The threads run; the robot comes to rest; recovery is tried again every *)
(* 200 ms; with no further input the last velocity becomes too old.        *)
Fairness ==
    /\ WF_vars(Worker)
    /\ WF_vars(Settle)
    /\ \A c \in Clients : WF_vars(Return(c)) /\ WF_vars(pc[c] = "checked" /\ SubmitPreparation(c))
    /\ SF_vars(Worker /\ RecoverEscalate)
    /\ SF_vars(Worker /\ DispatchSilent)

FairSpec == Spec /\ Fairness

(* Every service call returns: no job is lost and no confirmation, stop or  *)
(* recovery keeps the worker from the queue (run(), 663-721).              *)
CallsReturn == \A c \in Clients : pc[c] # "idle" ~> pc[c] = "idle"

(* A stop found unconfirmed is confirmed in the end, or control is gone;   *)
(* while the robot is disconnected it stays pending.                       *)
HaltResolves == haltPending ~> (~haltPending \/ session = "disconnected")

(* When the input ceases, a robot that drives comes to a halt.             *)
SilenceStops == motion = "moving" ~> motion # "moving"
=============================================================================
