------------------------------ MODULE D1Control ------------------------------
(***************************************************************************)
(* Control ownership, postures, gaits, speed levels and velocities of the  *)
(* D1 Max bridge (d1_max_backend.cpp, d1_max_nav_bridge_node.cpp).  One    *)
(* executor thread runs the services, the velocity callback and the        *)
(* control tick; the SDK's thread runs the callbacks.  Both write the      *)
(* state of the backend and, after they let go of its mutex, the copy the  *)
(* node keeps of it (updateState, 966-974).                                *)
(*                                                                         *)
(* Abstractions.  "stand" stands for BALANCE_STAND and GAIT, "slim" for    *)
(* SLIM, DSB, POS_CONTROL and SAND; CLIMB, SK_WALK, CRAWL_WALK and         *)
(* STAND_UP, which no service asks for, are left out, and so are gaits     *)
(* that differ only in name.  A velocity is zero or not.  Robot states are *)
(* reported at 1 Hz: the status of the backend may be out of date.         *)
(***************************************************************************)
EXTENDS Naturals, Sequences

CONSTANT MaxEvents  \* bound: service calls, velocity messages, failing SDK calls, late
                    \* reports, take-overs and lost links together

ASSUME BoundAssumption == MaxEvents \in Nat

General == {"walk", "stand"}
Postures == General \union {"lying", "crawl", "stair", "slim", "locked"}
Gaits == {"walk", "mountain", "l_walk", "stair"}
LevelOf == [walk |-> 1, mountain |-> 3, high |-> 3]

VARIABLES
    owned, nodeOwned,       \* control_owned of the backend and of the node's copy
    status,                 \* motion_status_
    gait, level,            \* navigation_gait_, speed_level_
    wish,                   \* the cached velocity is not zero and not too old
    plan, pc,               \* executor: steps to go, phase
    call, success,          \* the service running, or answered with success
    sdk, notices,           \* callback running; control lost or link lost, not yet told
    robot, linked,
    known,                  \* history: what was set since a call last failed
    disturbed,              \* history: something failed, or the app or the link intervened
    events

ownership == <<owned, nodeOwned>>
contract == <<gait, level>>
execution == <<plan, pc, call, success>>
callbacks == <<sdk, notices>>
bounds == <<disturbed, events>>
vars == <<ownership, status, contract, wish, execution, callbacks, robot, linked, known, bounds>>

Event == events < MaxEvents /\ events' = events + 1
Disturb == Event /\ disturbed' = TRUE

Idle == pc = "idle"
Resting == [pc |-> "idle", owns |-> FALSE]
NoCall == [service |-> "none", goal |-> "mountain", current |-> "lying", blind |-> FALSE]

(* The limit the velocity is divided by, and the one the robot applies.    *)
Contract ==
    CASE gait = "stair" -> 1 [] gait = "l_walk" -> 2 [] OTHER -> level
RobotLimit == IF robot.posture = "stair" THEN 1 ELSE robot.level

-----------------------------------------------------------------------------
(* Services as plans.  Steps that are not needed are skipped.              *)
SetGait(g) ==
    CASE g = "stair" -> <<"take", "halt", "stair", "commit">>
      [] g = "l_walk" -> <<"take", "halt", "general", "commit">>
      [] OTHER -> <<"take", "halt", "general", "level", "commit">>

(* stand ends with the gait mountain.                                      *)
Stand == <<"unlock", "take", "stop", "rise", "take", "halt", "general", "level", "commit">>
Lie == <<"unlock", "take", "settle", "leave", "crawl", "down">>

(* Seeded fault: a gait is changed while the robot walks.                  *)
NeededNotHalt(s) ==
    CASE s = "unlock" -> call.current = "locked"
      [] s = "stop" -> call.current \notin General \ {"walk"}
      [] s = "settle" -> call.current \in {"walk", "stair"}
      [] s = "leave" -> call.current \in {"stair", "slim"}
      [] s = "crawl" -> call.current # "crawl"
      [] s = "halt" -> FALSE
      [] s = "rise" -> status \notin General
      [] OTHER -> TRUE

Needed(s) ==
    CASE s = "unlock" -> call.current = "locked"
      [] s = "stop" -> call.current \notin General \ {"walk"}
      [] s = "settle" -> call.current \in {"walk", "stair"}
      [] s = "leave" -> call.current \in {"stair", "slim"}
      [] s = "crawl" -> call.current # "crawl"
      [] s = "halt" -> status \in {"walk", "stair"}
      [] s = "rise" -> status \notin General
      [] OTHER -> TRUE

(* Seeded fault: stair mode is taken for reached once it was acknowledged. *)
TargetsNotStair(s) ==
    CASE s = "unlock" -> {"lying", "walk"}
      [] s = "settle" -> {"walk", "stand", "crawl", "stair"}
      [] s \in {"rise", "leave", "general"} -> General
      [] s = "crawl" -> {"crawl"}
      [] s = "down" -> {"lying"}
      [] OTHER -> {}

(* The reports a step waits for; none: it does not wait.                   *)
Targets(s) ==
    CASE s = "unlock" -> {"lying", "walk"} \union (IF call.service = "lie" THEN {"stand", "crawl"} ELSE {})
      [] s = "settle" -> {"walk", "stand", "crawl", "stair"}
      [] s \in {"rise", "leave", "general"} -> General
      [] s \in {"crawl", "stair"} -> {s}
      [] s = "down" -> {"lying"}
      [] OTHER -> {}

-----------------------------------------------------------------------------
(* The robot.  It answers who holds control, and anybody about taking      *)
(* control and locking; what it cannot do in its posture it ignores.       *)
Accepts(s) == linked /\ (s \in {"take", "unlock", "estop"} \/ robot.source = "sdk")

Rises == IF robot.driving THEN {"walk"} ELSE General

Becomes(s) ==
    CASE s = "unlock" /\ robot.posture = "locked" -> {"lying", "walk"}
      [] s = "estop" -> {"locked"}
      [] s = "rise" /\ robot.posture # "locked" -> Rises
      [] s \in {"leave", "general"} /\ robot.posture \notin {"lying", "locked"} -> Rises
      [] s = "stair" /\ robot.posture \in General \union {"stair"} -> {"stair"}
      [] s = "crawl" /\ robot.posture \in General \union {"crawl"} -> {"crawl"}
      [] s = "down" /\ robot.posture = "crawl" -> {"lying"}
      [] s \in {"stop", "halt", "settle", "rest"} /\ robot.posture = "walk" -> General
      [] OTHER -> {robot.posture}

Obey(s) ==
    \E p \in Becomes(s) :
        robot' = [robot EXCEPT
            !.posture = p,
            !.driving = @ /\ s \notin {"stop", "halt", "settle", "rest", "estop"},
            !.level = IF s = "level" THEN LevelOf[call.goal] ELSE @,
            !.source = CASE s = "take" -> "sdk" [] s = "release" -> "none" [] OTHER -> @]

-----------------------------------------------------------------------------
(* The executor thread.                                                    *)
Finish(c, answer) ==
    /\ plan' = <<>> /\ pc' = "idle" /\ success' = answer
    /\ call' = IF answer THEN [c EXCEPT !.current = "lying"] ELSE NoCall

Go(c, rest) ==
    IF rest = <<>> THEN Finish(c, TRUE)
    ELSE plan' = rest /\ pc' = "step" /\ success' = FALSE /\ call' = c

PlanOf(s, g) ==
    CASE s = "stand" -> Stand
      [] s = "lie" -> Lie
      [] s = "set_gait" -> SetGait(g)
      [] s = "set_speed" -> <<"level">>
      [] s = "soft_estop" -> <<"estop">>
      [] s = "release_control" -> <<"rest", "release">>

(* A service is called; stand also stands for ready.  It is blind when the *)
(* backend's picture of the robot is out of date, or about to be.          *)
Call(s, g) ==
    LET c == [service |-> s, goal |-> g, current |-> status,
              blind |-> status # robot.posture \/ owned # (robot.source = "sdk")]
        done == \/ s = "lie" /\ status = "lying"
                \/ s = "release_control" /\ ~owned
    IN  /\ Idle /\ Event
        /\ IF ~linked /\ s \notin {"set_speed", "soft_estop"} THEN Finish(c, FALSE)
           ELSE IF done THEN Finish(c, TRUE)
           ELSE Go(c, PlanOf(s, g))
        /\ UNCHANGED <<ownership, status, contract, wish, callbacks, robot, linked, known,
                       disturbed>>

(* A velocity is cached; without control, control is taken.                *)
CmdVel ==
    /\ Idle /\ Event
    /\ wish' \in BOOLEAN
    /\ IF nodeOwned THEN UNCHANGED execution ELSE Go(NoCall, <<"take">>)
    /\ UNCHANGED <<ownership, status, contract, callbacks, robot, linked, known, disturbed>>

(* No velocity came for cmd_vel_timeout. *)
Expire ==
    /\ wish
    /\ wish' = FALSE
    /\ UNCHANGED <<ownership, status, contract, execution, callbacks, robot, linked, known, bounds>>

(* velocityCommandAllowed() *)
Allowed == status \in General \union {"stair"}

(* What the robot makes of a velocity. *)
Driven(moving) ==
    IF ~linked \/ robot.source # "sdk" \/ robot.posture = "locked" THEN {robot}
    ELSE IF ~moving
    THEN {[robot EXCEPT !.driving = FALSE, !.posture = p] : p \in Becomes("stop")}
    ELSE IF robot.posture \notin General \union {"stair"} THEN {robot}
    ELSE {[robot EXCEPT !.driving = TRUE, !.posture = IF @ = "stair" THEN @ ELSE "walk"]}

(* Seeded fault: nothing is sent when the velocity is too old.             *)
TickIfFresh ==
    /\ Idle /\ nodeOwned /\ wish
    /\ robot' \in Driven(Allowed)
    /\ UNCHANGED <<ownership, status, contract, wish, execution, callbacks, linked, known, bounds>>

Tick ==
    /\ Idle /\ nodeOwned
    /\ robot' \in Driven(wish /\ Allowed)
    /\ UNCHANGED <<ownership, status, contract, wish, execution, callbacks, linked, known, bounds>>

Skip ==
    /\ pc = "step" /\ ~Needed(Head(plan))
    /\ Go(call, Tail(plan))
    /\ UNCHANGED <<ownership, status, contract, wish, callbacks, robot, linked, known, bounds>>

(* Seeded fault: the level set is not stored.                              *)
AcknowledgedNotStored(s) ==
    /\ Accepts(s) /\ Obey(s)
    /\ known' = known \union ({s} \intersect {"level"})
    /\ IF s \in {"take", "release"} THEN pc' = "store" /\ success' = TRUE /\ UNCHANGED <<plan, call>>
       ELSE IF Targets(s) # {} THEN pc' = "wait" /\ UNCHANGED <<plan, call, success>>
       ELSE Go(call, Tail(plan))
    /\ UNCHANGED <<level, bounds>>

(* A synchronous SDK call that is acknowledged.  After SetSpeed the bridge *)
(* knows the level of the robot.                                           *)
Acknowledged(s) ==
    /\ Accepts(s) /\ Obey(s)
    /\ level' = IF s = "level" THEN LevelOf[call.goal] ELSE level
    /\ known' = known \union ({s} \intersect {"level"})
    /\ IF s \in {"take", "release"} THEN pc' = "store" /\ success' = TRUE /\ UNCHANGED <<plan, call>>
       ELSE IF Targets(s) # {} THEN pc' = "wait" /\ UNCHANGED <<plan, call, success>>
       ELSE Go(call, Tail(plan))
    /\ UNCHANGED bounds

(* One that returns an error: refused, or carried out all the same.        *)
NotAcknowledged(s) ==
    /\ known' = {}
    /\ \/ ~Accepts(s) /\ UNCHANGED <<robot, bounds>>
       \/ /\ Disturb
          /\ (Accepts(s) /\ Obey(s)) \/ UNCHANGED robot
    /\ IF s = "release" THEN pc' = "store" /\ success' = FALSE /\ UNCHANGED <<plan, call>>
       ELSE Finish(call, FALSE)
    /\ UNCHANGED level

Request ==
    /\ pc = "step" /\ Head(plan) # "commit" /\ Needed(Head(plan))
    /\ Acknowledged(Head(plan)) \/ NotAcknowledged(Head(plan))
    /\ UNCHANGED <<ownership, status, gait, wish, callbacks, linked>>

(* wait_status *)
Awaited ==
    /\ pc = "wait" /\ status \in Targets(Head(plan))
    /\ IF Head(plan) = "unlock" /\ call.service = "lie" /\ status = "lying" THEN Finish(call, TRUE)
       ELSE Go([call EXCEPT !.current = status], Tail(plan))
    /\ UNCHANGED <<ownership, status, contract, wish, callbacks, robot, linked, known, bounds>>

(* It runs out of time: the robot is not in such a state, or its report is *)
(* late.                                                                   *)
TimeOut ==
    /\ pc = "wait" /\ status \notin Targets(Head(plan))
    /\ \/ /\ ~linked \/ robot.posture \notin Targets(Head(plan))
          /\ UNCHANGED bounds
       \/ Disturb
    /\ known' = {}
    /\ Finish(call, FALSE)
    /\ UNCHANGED <<ownership, status, contract, wish, callbacks, robot, linked>>

Commit ==
    /\ pc = "step" /\ Head(plan) = "commit"
    /\ gait' = call.goal
    /\ level' = IF call.goal = "l_walk" THEN 2 ELSE level
    /\ known' = known \union {"gait"}
    /\ Go(call, Tail(plan))
    /\ UNCHANGED <<ownership, status, wish, callbacks, robot, linked, bounds>>

(* takeControl() and releaseControl(), after the SDK answered: updateState *)
(* stores the state, then tells the node.                                  *)
Store ==
    /\ pc = "store"
    /\ owned' = (Head(plan) = "take")
    /\ pc' = "publish"
    /\ UNCHANGED <<nodeOwned, status, contract, wish, plan, call, success, callbacks, robot, linked,
                   known, bounds>>

Publish ==
    /\ pc = "publish"
    /\ nodeOwned' = (Head(plan) = "take")
    /\ IF Head(plan) = "take" THEN Go(call, Tail(plan)) ELSE Finish(call, success)
    /\ UNCHANGED <<owned, status, contract, wish, callbacks, robot, linked, known, bounds>>

Executor == Skip \/ Request \/ Awaited \/ TimeOut \/ Commit \/ Store \/ Publish

-----------------------------------------------------------------------------
(* The SDK's thread.  OnRobotStateData takes what the robot reports;       *)
(* OnSpeedData writes back the ownership it read; OnControlLost,           *)
(* OnControlAvailable and the disconnect handler clear it.                 *)
(* Seeded fault: a report keeps the ownership the bridge believes in.      *)
ReceiveKeepsOwned ==
    /\ linked
    /\ status' = robot.posture
    /\ sdk' = [pc |-> "store", owns |-> owned]
    /\ UNCHANGED notices

Receive ==
    /\ linked
    /\ status' = robot.posture
    /\ sdk' = [pc |-> "store", owns |-> robot.source = "sdk"]
    /\ UNCHANGED notices

Speed ==
    /\ linked
    /\ sdk' = [pc |-> "store", owns |-> owned]
    /\ UNCHANGED <<status, notices>>

Lost ==
    /\ notices /\ notices' = FALSE
    /\ sdk' = [pc |-> "store", owns |-> FALSE]
    /\ UNCHANGED status

Callback ==
    /\ sdk.pc = "idle"
    /\ Receive \/ Speed \/ Lost
    /\ UNCHANGED ownership

SdkStore ==
    /\ sdk.pc = "store"
    /\ owned' = sdk.owns
    /\ sdk' = [sdk EXCEPT !.pc = "publish"]
    /\ UNCHANGED <<nodeOwned, status, notices>>

SdkPublish ==
    /\ sdk.pc = "publish"
    /\ nodeOwned' = sdk.owns
    /\ sdk' = Resting
    /\ UNCHANGED <<owned, status, notices>>

Sdk ==
    /\ Callback \/ SdkStore \/ SdkPublish
    /\ UNCHANGED <<contract, wish, execution, robot, linked, known, bounds>>

-----------------------------------------------------------------------------
(* Somebody takes control with the app, changes the robot and lets go of   *)
(* it; the link is lost and comes back.                                    *)
TakeOver ==
    /\ linked /\ Disturb
    /\ \E p \in {robot.posture, "slim"}, l \in {robot.level, 3} :
          robot' = [source |-> "app", posture |-> p, level |-> l, driving |-> FALSE]
    /\ notices' = TRUE /\ known' = {}
    /\ UNCHANGED linked

LetGo ==
    /\ linked /\ robot.source = "app"
    /\ robot' = [robot EXCEPT !.source = "none"]
    /\ notices' = TRUE
    /\ UNCHANGED <<linked, known, bounds>>

LinkDown ==
    /\ linked /\ Disturb
    /\ linked' = FALSE
    /\ robot' = [robot EXCEPT !.source = "none", !.driving = FALSE]
    /\ notices' = TRUE
    /\ UNCHANGED known

LinkUp ==
    /\ ~linked /\ linked' = TRUE
    /\ UNCHANGED <<robot, notices, known, bounds>>

Environment ==
    /\ TakeOver \/ LetGo \/ LinkDown \/ LinkUp
    /\ UNCHANGED <<ownership, status, contract, wish, execution, sdk>>

-----------------------------------------------------------------------------
Init ==
    /\ owned = FALSE /\ nodeOwned = FALSE
    /\ gait = "mountain" /\ level = 2 /\ wish = FALSE
    /\ plan = <<>> /\ pc = "idle" /\ call = NoCall /\ success = FALSE
    /\ sdk = Resting /\ notices = FALSE
    /\ robot \in [source : {"none"}, posture : Postures, level : 2..3,
                  driving : {FALSE}]
    /\ status = robot.posture /\ linked = TRUE
    /\ known = {} /\ disturbed = FALSE /\ events = 0

Service ==
    \/ \E s \in {"stand", "lie", "soft_estop", "release_control"} : Call(s, "mountain")
    \/ \E g \in Gaits \ {"mountain"} : Call("set_gait", g)
    \/ Call("set_speed", "high")

Next == Service \/ CmdVel \/ Expire \/ Tick \/ Executor \/ Sdk \/ Environment

(* The executor and its timer run, the SDK's thread runs, and robot states *)
(* arrive among the more frequent speeds.                                  *)
Fairness ==
    /\ WF_vars(Executor) /\ WF_vars(Tick) /\ WF_vars(Expire)
    /\ WF_vars(Sdk) /\ SF_vars(Sdk /\ Receive) /\ SF_vars(Sdk /\ Lost)

Spec == Init /\ [][Next]_vars
FairSpec == Spec /\ Fairness

-----------------------------------------------------------------------------
Undisturbed == ~disturbed /\ ~call.blind

(* Once a gait was completed and a level acknowledged, and as long as no   *)
(* call fails, velocities are divided by no less than the robot's own      *)
(* limit: it drives no faster than asked (move(), 289-330).  A call that   *)
(* fails half way leaves the gait remembered and the posture apart.        *)
(* L_WALK has its own contract with the robot.                             *)
ContractMatches ==
    known = {"gait", "level"} /\ Idle /\ gait # "l_walk" /\ robot.posture \in General \union {"stair"}
        => RobotLimit <= Contract

Achieved ==
    CASE call.service = "stand" -> robot.posture \in General /\ gait = "mountain" /\ robot.level = 3
      [] call.service = "lie" -> robot.posture = "lying"
      [] call.service = "set_gait" -> robot.posture \in IF call.goal = "stair" THEN {"stair"} ELSE General
      [] call.service = "soft_estop" -> robot.posture = "locked"
      [] call.service = "release_control" -> robot.source = "none"
      [] OTHER -> TRUE

(* A service that answers success has done what it says, though the waits  *)
(* look at reports up to a second old.                                     *)
SuccessIsReal == Undisturbed /\ Idle /\ success => Achieved

(* Services change the posture of a robot at rest only: the zero velocity  *)
(* that precedes depends on a copy of the status taken earlier.            *)
RestsBeforePosture ==
    [][Undisturbed /\ ~Idle /\ robot'.posture # robot.posture => ~robot'.driving]_vars

(* The bridge comes to know who controls the robot, though callbacks and   *)
(* services overwrite each other's view of it.                             *)
OwnershipHeals ==
    /\ <>[](linked /\ robot.source = "sdk") => <>[](owned /\ nodeOwned)
    /\ <>[](linked /\ robot.source # "sdk") => <>[]~(owned \/ nodeOwned)

(* When no more velocities come a robot that drives comes to rest.         *)
SilenceStops == robot.driving ~> ~robot.driving

=============================================================================
