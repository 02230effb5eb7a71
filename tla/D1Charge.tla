------------------------------ MODULE D1Charge ------------------------------
(***************************************************************************)
(* The charge and undock commands of the D1 Max backend,                   *)
(* src/d1_max/d1_max_backend.cpp, as the ~/charge_command service runs     *)
(* them: one at a time, each a sequence of critical sections of mutex_,    *)
(* SDK requests and waits on motion_cv_, while the SDK thread delivers      *)
(* robot state (OnRobotStateData) and task transitions (OnTaskStateData)   *)
(* between any two of them.                                                *)
(*                                                                         *)
(* STARTING and RUNNING are one status, "active": the code never tells     *)
(* them apart.  The two batteries are one: "charging" if a present one     *)
(* charges, "settled" if there is one and all discharge or are full, else   *)
(* "unknown".  Time stamps are replaced by what they are compared for.     *)
(***************************************************************************)
EXTENDS Integers

CONSTANTS
    MaxCalls,       \* bound: charge commands in a behaviour
    MaxForeign      \* bound: robot tasks begun by somebody else

ASSUME BoundsAssumption == MaxCalls \in Nat /\ MaxForeign \in Nat

Commands == {"start", "stop", "undock", "undockStop"}
Tasks == {"recharge", "undock", "other"}
Ends == {"success", "failure", "stopped"}
Powers == {"charging", "settled", "unknown"}

VARIABLES
    \* D1MaxBackend, guarded by mutex_
    taskType, taskStatus, taskStateSequence, rechargeStopped, undockSuccess,
    undockFailure, undockStopped, undockRequired, chargeExitConfirmed,
    pileConnected, power,
    \* last_basic_state_time_: younger than 5 s, than undock_success_time_,
    \* than the start of the current wait
    fresh, sinceSuccess, sinceWait,
    \* the charge service: its command, step, locals and last answer
    pc, command, minSequence, undockSucceeded, result,
    \* the robot: task being executed, and whether it has been reported
    robotTask, reported,
    \* history, read by the properties only: charging at the pile or an SDK
    \* task reported, and an UNDOCK SUCCESS reported, since the last exit;
    \* since the last UNDOCK SUCCESS, charging ended, and began again between
    \* two commands; an UNDOCK failure reported since the command began or
    \* joined its task
    session, undocked, recharged, failedSince,
    calls, foreign

task == <<taskType, taskStatus, taskStateSequence, rechargeStopped, undockFailure,
          undockStopped>>
exit == <<undockRequired, chargeExitConfirmed, undockSuccess>>
telemetry == <<pileConnected, power, fresh, sinceSuccess>>
locals == <<command, minSequence, undockSucceeded>>
robot == <<robotTask, reported>>
history == <<session, undocked, recharged, failedSince>>
vars == <<task, exit, telemetry, sinceWait, pc, locals, result, robot, history,
          calls, foreign>>

-----------------------------------------------------------------------------
(* The predicates of the code, over the state under mutex_.                *)

Charging == power = "charging"                          \* isChargingLocked

(* Seeded faults for ExitState: the battery is ignored, or is looked at    *)
(* behind a disconnected link.                                             *)
ExitStateAnyBattery == fresh
ExitStateByBattery == fresh /\ ~Charging

ExitState == fresh /\ (pileConnected => ~Charging) \* chargeExitStateConfirmedLocked

CanSkipUndock == pileConnected => power = "settled"     \* canSkipUndockLocked
TaskActive(t) == taskType = t /\ taskStatus = "active"

(* chargeState(): 0 idle, 1 recharge task, 2 charging, 3 undock task,      *)
(* 4 failure; what QUERY answers and /charge_manager_state publishes.      *)
ChargeState ==
    IF chargeExitConfirmed /\ ExitState THEN 0
    ELSE IF undockRequired /\ taskStatus = "failure" THEN 4
    ELSE IF TaskActive("undock") THEN 3
    ELSE IF Charging THEN 2
    ELSE IF TaskActive("recharge") THEN 1
    ELSE 0

-----------------------------------------------------------------------------
(* SDK thread.                                                             *)

(* OnRobotStateData(): any combination the robot may report.  RECHARGE     *)
(* mode counts as charging evidence.                                       *)
RobotState(pile, level, rechargeMode) ==
    /\ pileConnected' = pile
    /\ power' = level
    /\ fresh' = TRUE /\ sinceSuccess' = TRUE /\ sinceWait' = TRUE
    /\ chargeExitConfirmed' = (chargeExitConfirmed /\ ExitState')
    /\ undockRequired' = (undockRequired
            \/ (~chargeExitConfirmed' /\ (Charging' \/ rechargeMode)))
    /\ session' = (session \/ (pile /\ Charging'))
    /\ recharged' = IF ~Charging' THEN (IF recharged = "no" THEN "ended" ELSE recharged)
                    ELSE IF pile /\ pc = "idle" /\ recharged = "ended" THEN "again"
                    ELSE recharged
    /\ UNCHANGED <<task, undockSuccess, pc, locals, result, robot, undocked,
                   failedSince, calls, foreign>>

Stale ==
    /\ fresh /\ fresh' = FALSE
    /\ UNCHANGED <<task, exit, pileConnected, power, sinceSuccess, sinceWait, pc, locals,
                   result, robot, history, calls, foreign>>

(* OnTaskStateData(): terminal events keep their sequence numbers, so that *)
(* a later event does not hide them from a service that has not woken up.  *)
TaskState(t, s) ==
    /\ taskType' = t
    /\ taskStatus' = s
    /\ taskStateSequence' = taskStateSequence + 1
    /\ LET activity == t \in {"recharge", "undock"} /\ s \in {"active", "failure"}
           stamp(type, status, old) ==
               IF t = type /\ s = status THEN taskStateSequence + 1 ELSE old
       IN /\ chargeExitConfirmed' = (chargeExitConfirmed /\ ~activity)
          /\ undockRequired' = (undockRequired \/ activity)
          /\ rechargeStopped' = stamp("recharge", "stopped", rechargeStopped)
          /\ undockSuccess' = stamp("undock", "success", undockSuccess)
          /\ undockFailure' = stamp("undock", "failure", undockFailure)
          /\ undockStopped' = stamp("undock", "stopped", undockStopped)
          /\ session' = (session \/ activity)
    /\ sinceSuccess' = (sinceSuccess /\ ~(t = "undock" /\ s = "success"))
    /\ undocked' = (undocked \/ (t = "undock" /\ s = "success"))
    /\ recharged' = IF t = "undock" /\ s = "success" THEN "no" ELSE recharged
    /\ failedSince' = (failedSince \/ (t = "undock" /\ s = "failure"))
    /\ UNCHANGED <<pileConnected, power, fresh, sinceWait, pc, locals, result, calls,
                   foreign>>

(* The robot executes one task at a time, begun by a command of the bridge *)
(* or by another client, and reports its transitions in order.             *)
TaskBegins ==
    /\ robotTask # "none" /\ ~reported
    /\ reported' = TRUE
    /\ TaskState(robotTask, "active")
    /\ UNCHANGED robotTask

TaskEnds(s) ==
    /\ robotTask # "none"
    /\ reported \/ s = "failure"
    /\ robotTask' = "none" /\ reported' = FALSE
    /\ TaskState(robotTask, s)

ForeignTask(t) ==
    /\ robotTask = "none" /\ foreign < MaxForeign
    /\ foreign' = foreign + 1
    /\ robotTask' = t /\ reported' = FALSE
    /\ UNCHANGED <<task, exit, telemetry, sinceWait, pc, locals, result, history, calls>>

-----------------------------------------------------------------------------
(* The charge service: steps shared by its commands.                       *)

Goto(l) == pc' = l
Return(r) == pc' = "idle" /\ result' = r

(* An SDK request was acknowledged, or returned an error. *)
Proceed(next) == (Goto(next) /\ UNCHANGED result) \/ Return("failed")

(* An SDK request that starts task t: carried out and acknowledged, carried *)
(* out with the answer lost, or not carried out.                           *)
Begin(t, next) ==
    /\ \/ /\ robotTask = "none"
          /\ robotTask' = t /\ reported' = FALSE
          /\ Proceed(next)
       \/ Return("failed") /\ UNCHANGED robot
    /\ UNCHANGED <<task, exit, telemetry, sinceWait, locals, history, calls, foreign>>

(* An SDK request that starts nothing: taking control, stopping a task.    *)
Request(from, next) ==
    /\ pc = from
    /\ Proceed(next)
    /\ UNCHANGED <<task, exit, telemetry, sinceWait, locals, robot, history, calls,
                   foreign>>

(* A wait on motion_cv_ ends with r.  At its deadline the condition is not *)
(* evaluated again, so a timeout may win against the event waited for.     *)
WaitOver(at, r) ==
    /\ pc = at
    /\ Return(r)
    /\ UNCHANGED <<task, exit, telemetry, sinceWait, locals, robot, history, calls,
                   foreign>>

(* Seeded fault: the UNDOCK SUCCESS is not used up. *)
HandOverKeepsSuccess ==
    /\ undockRequired' = FALSE
    /\ chargeExitConfirmed' = TRUE
    /\ UNCHANGED undockSuccess
    /\ session' = FALSE /\ undocked' = FALSE
    /\ Return("exit")
    /\ UNCHANGED <<task, telemetry, sinceWait, locals, robot, recharged, failedSince,
                   calls, foreign>>

(* The exit is handed over: the need to undock is settled and an UNDOCK    *)
(* SUCCESS is used up.                                                     *)
HandOver ==
    /\ undockRequired' = FALSE
    /\ chargeExitConfirmed' = TRUE
    /\ undockSuccess' = 0
    /\ session' = FALSE /\ undocked' = FALSE
    /\ Return("exit")
    /\ UNCHANGED <<task, telemetry, sinceWait, locals, robot, recharged, failedSince,
                   calls, foreign>>

Call(c) ==
    /\ pc = "idle" /\ calls < MaxCalls
    /\ calls' = calls + 1
    /\ command' = c
    /\ \/ Goto(CASE c = "start" -> "pile" [] c = "stop" -> "stopCheck"
                 [] c = "undock" -> "entry" [] OTHER -> "undockStop")
          /\ result' = "none"
       \/ Return("failed")                                 \* SDK not connected
    /\ UNCHANGED <<task, exit, telemetry, sinceWait, minSequence, undockSucceeded,
                   robot, history, foreign>>

-----------------------------------------------------------------------------
(* startRecharge()                                                         *)

PileSeen ==
    /\ pc = "pile" /\ pileConnected /\ fresh
    /\ Goto("control")
    /\ UNCHANGED <<task, exit, telemetry, sinceWait, locals, result, robot, history,
                   calls, foreign>>

PileTimeout == ~(pileConnected /\ fresh) /\ WaitOver("pile", "failed")

(* takeControl(), then for a recharge a zero Move().                       *)
TakeControl == Request("control", "arm")

(* The last critical section before the start request is sent.             *)
Arm ==
    /\ pc = "arm"
    /\ chargeExitConfirmed' = FALSE
    /\ undockRequired' = (undockRequired \/ command = "undock")
    /\ minSequence' = taskStateSequence
    /\ failedSince' = FALSE
    /\ Goto("send")
    /\ UNCHANGED <<task, undockSuccess, telemetry, sinceWait, command, undockSucceeded,
                   result, robot, session, undocked, recharged, calls, foreign>>

SendRecharge == pc = "send" /\ command = "start" /\ Begin("recharge", "waitRecharge")

NewRecharge == taskStateSequence > minSequence /\ taskType = "recharge"

RechargeFailed == NewRecharge /\ taskStatus = "failure" /\ WaitOver("waitRecharge", "failed")

RechargeStarted ==
    /\ NewRecharge /\ taskStatus = "active" /\ fresh /\ Charging
    /\ WaitOver("waitRecharge", "charging")

RechargeTimeout == WaitOver("waitRecharge", "failed")

-----------------------------------------------------------------------------
(* stopRecharge(), as a command of its own and inside startUndock()        *)

StopCheck ==
    /\ pc = "stopCheck"
    /\ \/ /\ TaskActive("recharge")
          /\ undockRequired' = TRUE
          /\ minSequence' = taskStateSequence
          /\ Goto("stopSend") /\ UNCHANGED result
       \/ /\ Return("failed")      \* no active recharge, or SDK disconnected
          /\ UNCHANGED <<undockRequired, minSequence>>
    /\ UNCHANGED <<task, undockSuccess, chargeExitConfirmed, telemetry, sinceWait,
                   command, undockSucceeded, robot, history, calls, foreign>>

StopSend == Request("stopSend", "waitStopped")

RechargeStopped ==
    /\ pc = "waitStopped" /\ rechargeStopped > minSequence
    /\ IF command = "undock" THEN Goto("recheck") /\ UNCHANGED result
                             ELSE Return("stopped")
    /\ UNCHANGED <<task, exit, telemetry, sinceWait, locals, robot, history, calls,
                   foreign>>

StopTimeout == WaitOver("waitStopped", "failed")

-----------------------------------------------------------------------------
(* startUndock()                                                           *)

(* The first critical section decides the branch; a task seen active here  *)
(* is joined or stopped first.                                             *)
Entry ==
    /\ pc = "entry"
    /\ undockRequired' = (undockRequired \/ TaskActive("recharge")
                            \/ TaskActive("undock") \/ Charging)
    /\ LET succeeded == taskType = "undock" /\ taskStatus = "success" /\ undockSuccess > 0
       IN /\ undockSucceeded' = succeeded
          /\ minSequence' = IF succeeded THEN undockSuccess - 1 ELSE taskStateSequence
    /\ Goto(IF TaskActive("undock") THEN "beginWait"
            ELSE IF TaskActive("recharge") THEN "stopCheck" ELSE "recheck")
    /\ failedSince' = FALSE
    /\ UNCHANGED <<task, undockSuccess, chargeExitConfirmed, telemetry, sinceWait,
                   command, result, robot, session, undocked, recharged, calls, foreign>>

(* Seeded fault: a battery at rest is taken for an exit. *)
AlreadyExitedByBattery ==
    /\ pc = "recheck"
    /\ ExitState /\ CanSkipUndock
    /\ HandOver

AlreadyExited ==
    /\ pc = "recheck"
    /\ ExitState /\ CanSkipUndock
    /\ pileConnected => ~undockRequired
    /\ HandOver

Recheck ==
    /\ pc = "recheck"
    /\ ~(ExitState /\ CanSkipUndock /\ (pileConnected => ~undockRequired))
    /\ IF fresh /\ undockRequired THEN Goto("reuse") /\ UNCHANGED result
                                  ELSE Return("failed")
    /\ UNCHANGED <<task, exit, telemetry, sinceWait, locals, robot, history, calls,
                   foreign>>

(* An UNDOCK SUCCESS not yet used up still counts unless the battery       *)
(* charges right now.                                                      *)
Reuse ==
    /\ pc = "reuse"
    /\ undockSucceeded' = (undockSucceeded /\ ~Charging)
    /\ Goto(IF undockSucceeded /\ ~Charging THEN "beginWait" ELSE "control")
    /\ UNCHANGED <<task, exit, telemetry, sinceWait, command, minSequence, result, robot,
                   history, calls, foreign>>

SendUndock == pc = "send" /\ command = "undock" /\ Begin("undock", "beginWait")

BeginWait ==
    /\ pc = "beginWait"
    /\ sinceWait' = FALSE
    /\ Goto("waitUndock")
    /\ UNCHANGED <<task, exit, telemetry, locals, result, robot, history, calls, foreign>>

UndockFailed == undockFailure > minSequence /\ WaitOver("waitUndock", "failed")

UndockCompleted ==
    /\ pc = "waitUndock"
    /\ undockFailure <= minSequence
    /\ undockSuccess > minSequence
    /\ sinceWait /\ sinceSuccess /\ ExitState
    /\ HandOver

(* Seeded fault: the deadline is looked at only after a report. *)
UndockTimeoutOnce == sinceWait /\ WaitOver("waitUndock", "failed")

UndockTimeout == WaitOver("waitUndock", "failed")

-----------------------------------------------------------------------------
(* stopUndock()                                                            *)

UndockStop ==
    /\ pc = "undockStop"
    /\ minSequence' = taskStateSequence
    /\ Goto("undockStopSend")
    /\ UNCHANGED <<task, exit, telemetry, sinceWait, command, undockSucceeded, result,
                   robot, history, calls, foreign>>

UndockStopSend == Request("undockStopSend", "waitUndockStopped")
UndockStopped == undockStopped > minSequence /\ WaitOver("waitUndockStopped", "undockStopped")
UndockStopTimeout == WaitOver("waitUndockStopped", "failed")

-----------------------------------------------------------------------------
Init ==
    /\ taskType = "none" /\ taskStatus = "none" /\ taskStateSequence = 0
    /\ rechargeStopped = 0 /\ undockSuccess = 0 /\ undockFailure = 0 /\ undockStopped = 0
    /\ undockRequired = FALSE /\ chargeExitConfirmed = FALSE
    /\ pileConnected = FALSE /\ power = "unknown"
    /\ fresh = FALSE /\ sinceSuccess = TRUE /\ sinceWait = FALSE
    /\ pc = "idle" /\ command = "none" /\ minSequence = 0 /\ undockSucceeded = FALSE
    /\ result = "none"
    /\ robotTask = "none" /\ reported = FALSE
    /\ session = FALSE /\ undocked = FALSE /\ recharged = "no" /\ failedSince = FALSE
    /\ calls = 0 /\ foreign = 0

Timeout == PileTimeout \/ RechargeTimeout \/ StopTimeout \/ UndockTimeout \/ UndockStopTimeout

ServiceStep ==
    \/ PileSeen \/ TakeControl \/ Arm \/ SendRecharge \/ RechargeFailed \/ RechargeStarted
    \/ StopCheck \/ StopSend \/ RechargeStopped
    \/ Entry \/ AlreadyExited \/ Recheck \/ Reuse \/ SendUndock \/ BeginWait
    \/ UndockFailed \/ UndockCompleted
    \/ UndockStop \/ UndockStopSend \/ UndockStopped
    \/ Timeout

RobotStep ==
    \/ \E pile, rechargeMode \in BOOLEAN, level \in Powers :
          RobotState(pile, level, rechargeMode)
    \/ Stale \/ TaskBegins
    \/ \E s \in Ends : TaskEnds(s)
    \/ \E t \in Tasks : ForeignTask(t)

Next == (\E c \in Commands : Call(c)) \/ ServiceStep \/ RobotStep

Spec == Init /\ [][Next]_vars

(* The service thread keeps running, and every wait has a deadline.        *)
FairSpec == Spec /\ WF_vars(ServiceStep)
-----------------------------------------------------------------------------
(* Properties.                                                             *)

ServicePc == {"idle", "pile", "control", "arm", "send", "waitRecharge", "stopCheck",
              "stopSend", "waitStopped", "entry", "recheck", "reuse", "beginWait",
              "waitUndock", "undockStop", "undockStopSend", "waitUndockStopped"}

NumberTypes ==
    /\ taskType \in Tasks \cup {"none"} /\ taskStatus \in Ends \cup {"active", "none"}
    /\ taskStateSequence \in Nat /\ rechargeStopped \in 0..taskStateSequence
    /\ undockSuccess \in 0..taskStateSequence /\ undockFailure \in 0..taskStateSequence
    /\ undockStopped \in 0..taskStateSequence /\ minSequence \in 0..taskStateSequence
    /\ calls \in 0..MaxCalls /\ foreign \in 0..MaxForeign

FlagTypes ==
    /\ undockRequired \in BOOLEAN /\ chargeExitConfirmed \in BOOLEAN
    /\ pileConnected \in BOOLEAN /\ fresh \in BOOLEAN /\ sinceSuccess \in BOOLEAN
    /\ sinceWait \in BOOLEAN /\ undockSucceeded \in BOOLEAN /\ reported \in BOOLEAN
    /\ session \in BOOLEAN /\ undocked \in BOOLEAN /\ failedSince \in BOOLEAN

StepTypes ==
    /\ pc \in ServicePc /\ command \in Commands \cup {"none"}
    /\ result \in {"none", "failed", "charging", "stopped", "exit", "undockStopped"}
    /\ power \in Powers /\ robotTask \in Tasks \cup {"none"}
    /\ recharged \in {"no", "ended", "again"}

(* Every variable keeps its type, and no stamp is ahead of the sequence of *)
(* transitions it was taken from.                                          *)
TypeOK == NumberTypes /\ FlagTypes /\ StepTypes

(* Once charging at the pile, or a charge or undock task, has been         *)
(* reported, an undock is required until an exit is handed over: neither a *)
(* STOP, a full battery nor a timed-out command forgets it, and no         *)
(* confirmation outlives the report (charge_handoff.md:12,16).             *)
SessionDemandsUndock == session => undockRequired /\ ~chargeExitConfirmed

(* After START reported that the battery charges, an undock is required    *)
(* whatever was reported meanwhile, until another command changes it.      *)
ChargingDemandsUndock == result = "charging" => undockRequired /\ ~chargeExitConfirmed

(* An exit handed over after a wait had an UNDOCK SUCCESS of its own, not  *)
(* one an earlier exit used, and no UNDOCK failure since the task was      *)
(* joined or started (charge_handoff.md:11-12).                            *)
ExitHasItsSuccess ==
    [][pc = "waitUndock" /\ result' = "exit" => undocked /\ ~failedSince]_vars

(* At a connected pile an exit without an undock task is handed over only  *)
(* if no charge session was reported since the last exit                   *)
(* (charge_handoff.md:9-10).                                               *)
SkipNeedsNoSession ==
    [][pc = "recheck" /\ result' = "exit" /\ pileConnected => ~session]_vars

(* After an exit is answered the published charge state stays 0, which the *)
(* caller waits for, for as long as telemetry is fresh and no new charging *)
(* at the pile or SDK task is reported, also while a disconnected battery  *)
(* keeps its CHARGING bit (charge_handoff.md:16).                          *)
ExitStaysIdle == result = "exit" /\ ~session /\ fresh => ChargeState = 0

(* Every charge command is answered, whatever the robot reports or not.    *)
CommandsReturn == pc # "idle" ~> pc = "idle"
-----------------------------------------------------------------------------
(* What the documentation or a comment claims and the code does not do.    *)

(* "A new charging session must not reuse an old undock SUCCESS"           *)
(* (d1_max_backend.cpp:730): when charging ended after an UNDOCK SUCCESS   *)
(* and was reported again at the pile before the next command, that SUCCESS *)
(* is not taken for its exit.  One that no command has used up is, as soon *)
(* as the battery is full.                                                 *)
SuccessIsOfThisSession ==
    [][pc = "reuse" /\ pc' = "beginWait" => recharged # "again"]_vars

=============================================================================
