------------------------------ MODULE X30Motion ------------------------------
(***************************************************************************)
(* The actions of the X30 bridge: stand, lie, force stand, gait and height *)
(* switching, soft emergency stop, release of control and the velocity     *)
(* tick (action_executor.cpp, robot_state_store.hpp, x30_nav_bridge.cpp).  *)
(* All of them run on one executor thread; the receive thread stores what  *)
(* the robot reports; commands are datagrams that may be lost.             *)
(*                                                                         *)
(* A service is a plan of steps.  A step warms the control session up,     *)
(* sends its command and waits for a reported state; when the wait runs    *)
(* out of time it is repeated or fails, as its kind says.                  *)
(*                                                                         *)
(* Abstractions.  "walk" stands for the gaits that may crawl, "stairs" for *)
(* the other gaits, "mountain" for the RL gaits.  A deadline is a number   *)
(* of attempts.  A wait runs out of time when the robot has come to rest   *)
(* without the state waited for; one that ends earlier counts as a delay.  *)
(***************************************************************************)
EXTENDS Naturals, Sequences, FiniteSets

CONSTANTS
    MaxCalls,       \* bound: service calls
    MaxMoves,       \* bound: velocity messages
    MaxLosses,      \* bound: datagrams lost
    MaxDisturbed,   \* bound: delays, falls and handheld interventions
    MaxTries        \* bound: attempts of a repeated step

ASSUME BoundsAssumption ==
    /\ {MaxCalls, MaxMoves, MaxLosses, MaxDisturbed} \subseteq Nat
    /\ MaxTries \in Nat \ {0}

Postures == {"lying", "rising", "initial", "force", "stepping", "going", "estop", "rl"}
Gaits == {"walk", "stairs", "mountain"}
Heights == {"normal", "crawl"}
Reports == [posture : Postures, gait : Gaits, height : Heights]

Toggles == {"rise", "halt", "lower", "step"}        \* sendToggleCommandWithRetries
Singles == {"recover", "exit"}                      \* sendSingleCommandAndWait
Polls == {"start", "enter"}                         \* loops of setNavigationGait
Onces == {"force", "walk", "target", "gait", "height", "estop"}
Waits == {"risen", "stepping", "lowered", "settle"} \* no command
Steps == Toggles \union Singles \union Polls \union Onces \union Waits

VARIABLES
    seen, connected,            \* RobotStateStore
    step, phase, tries,         \* the service being executed
    service, goal,
    success,                    \* its last answer
    heard, blind,               \* history: a report came; a service began on an outdated one
    latched,                    \* control_latched_
    queue, input,               \* a velocity message waits; target_v*_, last_active_time_
    robot, velocity,            \* the robot, the velocity it was last sent
    commands,                   \* datagrams in flight, by the step that sent them
    waiting,                    \* an emergency stop request waits for the executor
    calls, moves, losses, disturbed

store == <<seen, connected, heard>>
executing == <<step, phase, tries, service, goal, blind, success>>
speed == <<queue, input, velocity>>
bounds == <<calls, moves, losses, disturbed>>
vars == <<store, executing, speed, latched, waiting, robot, commands, bounds>>

Idle == step = "none"
Rl(gait) == gait = "mountain"
Final(gait) == IF Rl(gait) THEN "rl" ELSE "stepping"
At(postures) == seen.posture \in postures

Command(s) ==
    CASE s \in {"recover", "rise", "exit", "lower"} -> "updown"
      [] s \in {"halt", "step", "start", "enter"} -> "motion"
      [] s \in {"target", "gait", "height"} -> goal
      [] OTHER -> s

(* The state a step waits for.                                             *)
Reached(s) ==
    CASE s \in {"recover", "lowered"} -> At({"lying"})
      [] s = "rise" -> At({"rising", "initial", "force", "stepping"})
      [] s = "risen" -> At({"initial", "force", "stepping"})
      [] s \in {"step", "start", "stepping"} -> At({"stepping"})
      [] s = "halt" -> At({"force", "initial"})
      [] s = "lower" -> At({"going", "lying"})
      [] s = "exit" -> At({"force", "initial", "stepping", "going", "lying"})
      [] s = "force" -> At({"force"})
      [] s = "walk" -> seen.gait = "walk"
      [] s = "target" -> At({"rl"}) /\ seen.gait = goal
      [] s = "gait" -> seen.gait = goal
      [] s = "enter" -> At({"stepping"}) /\ seen.gait = goal
      [] s = "height" -> seen.height = goal
      [] s = "settle" -> At({"lying", "going", "stepping"})
      [] s = "estop" -> TRUE

-----------------------------------------------------------------------------
(* The plans: after step s, or at the beginning, the next step or the      *)
(* answer.  The code reads the store again after every step.               *)

Answer(good) ==
    /\ step' = "none" /\ phase' = "none" /\ tries' = 0
    /\ success' = good

Go(next) ==
    /\ step' = next /\ tries' = 0
    /\ phase' = IF next \in Waits THEN "wait" ELSE "send"
    /\ UNCHANGED success

LieDown(s) ==
    \/ s \in {"begin", "exit", "settle"} /\ At({"lying"}) /\ Answer(TRUE)
    \/ s \in {"begin", "exit", "settle"} /\ At({"going"}) /\ Go("lowered")
    \/ s \in {"begin", "exit", "settle"} /\ At({"stepping"}) /\ Go("halt")
    \/ s \in {"begin", "exit"} /\ At({"force", "initial"}) /\ Go("settle")
    \/ s = "begin" /\ At({"estop"}) /\ Go("recover")
    \/ s = "begin" /\ At({"rl"}) /\ Go("exit")
    \/ s = "begin" /\ At({"rising"}) /\ Go("lower")
    \/ s = "halt" /\ Go("settle")
    \/ s = "lower" /\ Go("lowered")
    \/ s \in {"recover", "lowered"} /\ Answer(TRUE)

(* A stand that succeeded still asks for manual mode (ensureManualMode).   *)
EnsureManual == Answer(TRUE) \/ Answer(FALSE)

Stand(g, s) ==
    \/ s = "begin" /\ At({"estop"}) /\ Go("recover")
    \/ s = "begin" /\ At({"lying", "going"}) /\ Go("rise")
    \/ s = "begin" /\ At({"rising"}) /\ Answer(FALSE)
    \/ s = "recover" /\ Go("rise")
    \/ s = "rise" /\ Go("risen")
    \/ s \in {"begin", "risen"} /\ At({"initial"}) /\ Go("force")
    \/ s \in {"begin", "risen", "force"} /\ At({"force"}) /\ Go("step")
    \/ s \in {"begin", "risen"} /\ At({"stepping"}) /\ Go("target")
    \/ s = "begin" /\ At({"rl"}) /\ seen.gait # g /\ Go("target")
    \/ s = "begin" /\ At({"rl"}) /\ seen.gait = g /\ EnsureManual
    \/ s = "step" /\ Go("target")
    \/ s = "target" /\ EnsureManual

ForceStand(s) ==
    \/ s = "begin" /\ At({"estop"}) /\ Go("recover")
    \/ s = "begin" /\ At({"lying", "going"}) /\ Go("rise")
    \/ s = "begin" /\ At({"rising"}) /\ Answer(FALSE)
    \/ s = "recover" /\ Go("rise")
    \/ s = "rise" /\ Go("risen")
    \/ s = "begin" /\ At({"rl"}) /\ Go("walk")
    \/ s = "walk" /\ Go("stepping")
    \/ s \in {"begin", "risen", "stepping"} /\ At({"stepping"}) /\ Go("halt")
    \/ s \in {"begin", "risen", "halt"} /\ At({"initial"}) /\ Go("force")
    \/ s \in {"begin", "risen", "halt", "force"} /\ At({"force"}) /\ Answer(TRUE)

(* Seeded fault: the height is not examined.                               *)
CannotCrawlIgnored(g) == FALSE

CannotCrawl(g) == seen.height = "crawl" /\ g # "walk"

SetNavigationGait(g, s) ==
    LET refused == ~connected \/ CannotCrawl(g) \/ ~At({"rl", "stepping", "force"})
        there == seen.gait = g /\ At({Final(g)})
        switch == IF Rl(g) THEN "target" ELSE "gait"
    IN  \/ s = "begin" /\ refused /\ Answer(FALSE)
        \/ s = "begin" /\ ~refused /\ there /\ Answer(TRUE)
        \/ s = "begin" /\ ~refused /\ ~there /\ At({"force"}) /\ Go("start")
        \/ s = "begin" /\ ~refused /\ ~there /\ ~At({"force"}) /\ Go(switch)
        \/ s = "start" /\ seen.gait = g /\ ~Rl(g) /\ Answer(TRUE)
        \/ s = "start" /\ (seen.gait # g \/ Rl(g)) /\ Go(switch)
        \/ s = "gait" /\ Go("enter")
        \/ s \in {"target", "enter"} /\ Answer(TRUE)

SetBodyHeight(h, s) ==
    LET refused == \/ ~connected
                   \/ seen.height # h /\ (Rl(seen.gait) \/ (h = "crawl" /\ seen.gait # "walk"))
    IN  \/ s = "begin" /\ refused /\ Answer(FALSE)
        \/ s = "begin" /\ ~refused /\ seen.height = h /\ Answer(TRUE)
        \/ s = "begin" /\ ~refused /\ seen.height # h /\ Go("height")
        \/ s = "height" /\ Answer(TRUE)

SoftEstop(s) ==
    \/ s = "begin" /\ Go("estop")
    \/ s = "estop" /\ Answer(TRUE)

Follow(v, g, s) ==
    \/ v = "stand" /\ Stand(g, s)
    \/ v = "lie" /\ LieDown(s)
    \/ v = "force_stand" /\ ForceStand(s)
    \/ v = "set_gait" /\ SetNavigationGait(g, s)
    \/ v = "set_body_height" /\ SetBodyHeight(g, s)
    \/ v = "soft_estop" /\ SoftEstop(s)

-----------------------------------------------------------------------------
(* The executor                                                            *)

Outdated == seen # robot \/ commands # <<>>

Begin(v, g) ==
    /\ Idle
    /\ service' = v /\ goal' = g /\ blind' = (blind \/ ~heard \/ Outdated)
    /\ Follow(v, g, "begin")
    /\ UNCHANGED <<store, speed, latched, robot, commands, moves, losses, disturbed>>

Calls == {<<"stand", "mountain">>, <<"lie", "walk">>, <<"force_stand", "walk">>}
         \union ({"set_gait"} \X Gaits) \union ({"set_body_height"} \X Heights)

Call(c) == calls < MaxCalls /\ calls' = calls + 1 /\ Begin(c[1], c[2]) /\ UNCHANGED waiting

RequestEstop ==
    /\ ~waiting /\ calls < MaxCalls
    /\ waiting' = TRUE /\ calls' = calls + 1
    /\ UNCHANGED <<store, executing, speed, latched, robot, commands, moves, losses, disturbed>>

Estop == waiting /\ waiting' = FALSE /\ Begin("soft_estop", "walk") /\ UNCHANGED calls

(* Seeded fault: a command is sent twice, in case one is lost.             *)
SendTwice ==
    /\ phase = "send" /\ ~(step \in Polls /\ Reached(step))
    /\ phase' = "wait"
    /\ latched' = TRUE
    /\ commands' = IF step \in Polls /\ ~At({"force"}) THEN commands ELSE commands \o <<step, step>>
    /\ UNCHANGED <<store, step, tries, service, goal, blind, success, speed, waiting, robot,
                   bounds>>

(* warmupControl acquires control; then the command is sent, by the loops  *)
(* of setNavigationGait only in force stand and unless they are done.      *)
Send ==
    /\ phase = "send" /\ ~(step \in Polls /\ Reached(step))
    /\ phase' = "wait"
    /\ latched' = TRUE
    /\ commands' = IF step \in Polls /\ ~At({"force"}) THEN commands ELSE Append(commands, step)
    /\ UNCHANGED <<store, step, tries, service, goal, blind, success, speed, waiting, robot,
                   bounds>>

Reach ==
    /\ phase = "wait" \/ (phase = "send" /\ step \in Polls)
    /\ Reached(step)
    /\ Follow(service, goal, step)
    /\ UNCHANGED <<store, service, goal, blind, speed, latched, waiting, robot, commands,
                   bounds>>

Quiet == /\ heard /\ commands = <<>> /\ seen = robot
         /\ robot.posture \notin {"rising", "going"}

Repeats(s) ==
    tries + 1 < (IF s \in Toggles \union Polls THEN MaxTries ELSE IF s \in Singles THEN 2 ELSE 1)

(* Seeded fault: the deadline is computed anew in every attempt.           *)
RepeatForever == phase' = "send" /\ UNCHANGED <<step, tries, success>>

Repeat == phase' = "send" /\ tries' = tries + 1 /\ UNCHANGED <<step, success>>

(* Seeded fault: no return after a wait that ran out of time.              *)
GiveUpNot == Follow(service, goal, step)

GiveUp == Answer(FALSE)

TimeOut ==
    /\ phase = "wait" /\ ~Reached(step)
    /\ disturbed' = IF Quiet \/ step = "settle" THEN disturbed ELSE disturbed + 1
    /\ disturbed' <= MaxDisturbed
    /\ CASE step = "settle" -> Go("lower")
         [] step # "settle" /\ Repeats(step) -> Repeat
         [] step # "settle" /\ ~Repeats(step) -> GiveUp
    /\ UNCHANGED <<store, service, goal, blind, speed, latched, waiting, robot, commands,
                   calls, moves, losses>>

-----------------------------------------------------------------------------
(* Control and velocity: isCmdVelCompatibleState, sendCmdVelTick,          *)
(* cmdVelCallback, release_control                                         *)

Compatible == At({"stepping"}) \/ (At({"rl"}) /\ Rl(seen.gait))

(* Seeded fault: the last velocity is forwarded however old it is.         *)
ForwardedForever == IF moves > 0 THEN "moving" ELSE "zero"

Forwarded == IF input = "fresh" THEN "moving" ELSE "zero"

Tick ==
    /\ Idle
    /\ velocity' = IF latched /\ Compatible THEN Forwarded ELSE velocity
    /\ \/ UNCHANGED <<connected, disturbed>>
       \/ /\ connected /\ disturbed < MaxDisturbed
          /\ connected' = FALSE /\ disturbed' = disturbed + 1     \* no report for two seconds
    /\ UNCHANGED <<seen, heard, executing, queue, input, latched, waiting, robot, commands,
                   calls, moves, losses>>

CmdVel ==
    /\ Idle /\ queue
    /\ queue' = FALSE /\ input' = "fresh" /\ latched' = TRUE
    /\ UNCHANGED <<store, executing, velocity, waiting, robot, commands, bounds>>

Publish ==
    /\ moves < MaxMoves /\ moves' = moves + 1 /\ queue' = TRUE
    /\ UNCHANGED <<store, executing, input, velocity, latched, waiting, robot, commands, calls,
                   losses, disturbed>>

Expire ==
    /\ input = "fresh" /\ input' = "expired"
    /\ UNCHANGED <<store, executing, queue, velocity, latched, waiting, robot, commands,
                   bounds>>

ReleaseControl ==
    /\ Idle /\ latched /\ calls < MaxCalls /\ calls' = calls + 1
    /\ latched' = FALSE /\ velocity' = "zero"
    /\ UNCHANGED <<store, executing, queue, input, waiting, robot, commands, moves, losses,
                   disturbed>>

-----------------------------------------------------------------------------
(* The robot and the network                                               *)

Obeys ==
    {<<"updown", "lying", "rising">>, <<"updown", "going", "rising">>,
     <<"updown", "rising", "going">>, <<"updown", "initial", "going">>,
     <<"updown", "force", "going">>, <<"updown", "rl", "force">>,
     <<"updown", "rl", "stepping">>, <<"updown", "rl", "going">>,
     <<"updown", "estop", "lying">>,
     <<"motion", "force", "stepping">>, <<"motion", "stepping", "force">>,
     <<"motion", "stepping", "initial">>, <<"force", "initial", "force">>}

(* A command the robot does not obey in its posture is ignored.            *)
Obey(command) ==
    \/ command = "estop" /\ robot' = [robot EXCEPT !.posture = "estop"]
    \/ command \in Heights /\ robot' = [robot EXCEPT !.height = command]
    \/ /\ command \in Gaits /\ robot.posture \in {"stepping", "rl"}
       /\ \E p \in IF Rl(command) THEN {"rl"}
                   ELSE IF robot.posture = "rl" THEN {"force", "stepping"}
                   ELSE {"stepping"} :
             robot' = [robot EXCEPT !.gait = command, !.posture = p]
    \/ \E p \in Postures :
         <<command, robot.posture, p>> \in Obeys /\ robot' = [robot EXCEPT !.posture = p]
    \/ /\ command \notin Heights \union {"estop"}
       /\ command \in Gaits => robot.posture \notin {"stepping", "rl"}
       /\ \A p \in Postures : <<command, robot.posture, p>> \notin Obeys
       /\ UNCHANGED robot

Handle ==
    /\ commands # <<>>
    /\ Obey(Command(Head(commands)))
    /\ commands' = Tail(commands)
    /\ UNCHANGED <<store, executing, speed, latched, waiting, bounds>>

Lose ==
    /\ commands # <<>> /\ losses < MaxLosses
    /\ losses' = losses + 1 /\ commands' = Tail(commands)
    /\ UNCHANGED <<store, executing, speed, latched, waiting, robot, calls, moves, disturbed>>

Settle ==
    /\ robot.posture \in {"rising", "going"}
    /\ robot' = [robot EXCEPT !.posture = IF @ = "rising" THEN "initial" ELSE "lying"]
    /\ UNCHANGED <<store, executing, speed, latched, waiting, commands, bounds>>

Intervene ==        \* a fall, or the handheld
    /\ disturbed < MaxDisturbed /\ disturbed' = disturbed + 1
    /\ robot' \in {[robot EXCEPT !.posture = p] : p \in {"estop", "force", "going"} \ {robot.posture}}
    /\ UNCHANGED <<store, executing, speed, latched, waiting, commands, calls, moves, losses>>

Report ==
    /\ seen # robot \/ ~connected
    /\ seen' = robot /\ connected' = TRUE /\ heard' = TRUE
    /\ UNCHANGED <<executing, speed, latched, waiting, robot, commands, bounds>>

-----------------------------------------------------------------------------
Standing == {<<"lying", "walk">>, <<"force", "stairs">>, <<"stepping", "walk">>,
             <<"rl", "mountain">>, <<"estop", "walk">>}

Init ==
    /\ seen = [posture |-> "lying", gait |-> "walk", height |-> "normal"]
    /\ connected = FALSE /\ heard = FALSE /\ blind = FALSE
    /\ step = "none" /\ phase = "none" /\ tries = 0
    /\ service = "lie" /\ goal = "walk" /\ success = FALSE
    /\ latched \in BOOLEAN /\ queue = FALSE /\ input = "expired" /\ velocity = "zero"
    /\ robot \in {[posture |-> p[1], gait |-> p[2], height |-> "normal"] : p \in Standing}
    /\ commands = <<>> /\ waiting = FALSE
    /\ calls = 0 /\ moves = 0 /\ losses = 0 /\ disturbed = 0

Control == Tick \/ CmdVel \/ Estop
Serve == Send \/ Reach \/ TimeOut
Network == Handle \/ Report \/ Settle
Environment ==
    \/ \E c \in Calls : Call(c)
    \/ RequestEstop \/ Publish \/ ReleaseControl \/ Expire \/ Lose \/ Intervene

Next == Control \/ Serve \/ Network \/ Environment

Spec == Init /\ [][Next]_vars

FairSpec ==
    /\ Spec
    /\ WF_vars(Estop) /\ WF_vars(CmdVel) /\ WF_vars(Tick) /\ WF_vars(Serve)
    /\ WF_vars(Handle) /\ WF_vars(Report) /\ WF_vars(Settle) /\ WF_vars(Expire)

-----------------------------------------------------------------------------
Undisturbed == disturbed = 0 /\ ~blind

(* A command that toggles finds the robot in a state where it undoes what  *)
(* an earlier copy of it did.                                              *)
Undoes(s, posture) ==
    \/ s = "rise" /\ posture \in {"rising", "initial", "force", "stepping"}
    \/ s = "lower" /\ posture \in {"going", "lying"}
    \/ s = "halt" /\ posture \in {"force", "initial"}
    \/ s \in {"step", "start", "enter"} /\ posture = "stepping"

(* As long as no wait ends early, nobody intervenes and no service begins  *)
(* on an outdated report, no repeated toggle undoes an earlier one.      *)
ToggleNotUndone ==
    Undisturbed => \A i \in DOMAIN commands : ~Undoes(commands[i], robot.posture)

Achieved ==
    CASE service = "stand" -> robot.posture = "rl" /\ robot.gait = goal
      [] service = "lie" -> robot.posture = "lying"
      [] service = "force_stand" -> robot.posture = "force"
      [] service = "set_gait" -> /\ robot.gait = goal
                                 /\ robot.posture = Final(goal)
      [] service = "set_body_height" -> robot.height = goal
      [] OTHER -> TRUE

(* After a service that succeeded the robot is in the state asked for and  *)
(* stays in it, whatever was lost and repeated on the way.                 *)
SuccessIsReal == Undisturbed /\ Idle /\ success => Achieved

(* set_gait sends no gait to a crawling robot in which it may not crawl.   *)
CrawlKeepsGait ==
    Undisturbed /\ service = "set_gait" /\ goal # "walk" /\ robot.height = "crawl"
        => \A i \in DOMAIN commands : commands[i] \notin {"target", "gait"}

(* Every service returns, and an emergency stop requested while another    *)
(* one runs is served.                                                     *)
CallsReturn == (~Idle \/ waiting) ~> (Idle /\ ~waiting)

(* When no more velocities come the robot is told to stand still, unless   *)
(* the bridge does not control it or it does not report that it steps.     *)
SilenceStops == moves = MaxMoves ~> velocity = "zero" \/ ~latched \/ ~Compatible

=============================================================================
