--------------------------- MODULE X30MotionProofs ---------------------------
(***************************************************************************)
(* The safety of the X30 actions, for any number of calls, lost datagrams  *)
(* and attempts.                                                           *)
(*                                                                         *)
(* The properties speak of the time in which no wait ended early, nobody   *)
(* intervened and no service began on an outdated report.  The invariant   *)
(* says where the robot is then at every step of every plan: ready for the *)
(* command that is about to be sent or in flight, or done with it.  A      *)
(* command is repeated only to a robot that is ready for it: a wait that   *)
(* runs out of time finds the robot at rest and its state reported, and    *)
(* had it obeyed the command the report would satisfy the wait.            *)
(***************************************************************************)
EXTENDS X30Motion, TLAPS

TypeOK ==
    /\ seen \in Reports /\ robot \in Reports
    /\ step \in Steps \union {"none"}
    /\ phase \in IF Idle THEN {"none"} ELSE IF step \in Waits THEN {"wait"} ELSE {"send", "wait"}
    /\ commands \in Seq(Steps) /\ tries \in Nat
    /\ {calls, moves, losses, disturbed} \subseteq Nat
    /\ {connected, heard, blind, success} \subseteq BOOLEAN

(* The goals and the steps a service has.                                  *)
Fits(v, g) ==
    \/ v = "stand" /\ g = "mountain"
    \/ v \in {"lie", "force_stand", "soft_estop"} /\ g = "walk"
    \/ v = "set_gait" /\ g \in Gaits
    \/ v = "set_body_height" /\ g \in Heights

Serves(s, v) ==
    /\ v = "stand" => s \in {"recover", "rise", "risen", "force", "step", "target"}
    /\ v = "lie" => s \in {"recover", "exit", "lower", "lowered", "halt", "settle"}
    /\ v = "force_stand" =>
         s \in {"recover", "rise", "risen", "walk", "stepping", "halt", "force"}
    /\ v = "set_gait" => s \in {"start", "target", "gait", "enter"}
    /\ v = "set_body_height" => s = "height"
    /\ v = "soft_estop" => s = "estop"

Purpose ==
    /\ Fits(service, goal)
    /\ ~Idle => Serves(step, service)
    /\ step = "target" => Rl(goal)
    /\ step \in {"gait", "enter"} => ~Rl(goal)

RlIsMountain == robot.posture = "rl" => robot.gait = "mountain"

Basics == TypeOK /\ Purpose /\ RlIsMountain

(* The report in the store is the robot's state, or one in which it rose   *)
(* or lay down and has come to rest since.                                 *)
Lags ==
    /\ seen.gait = robot.gait /\ seen.height = robot.height
    /\ \/ seen.posture = robot.posture
       \/ seen.posture = "rising" /\ robot.posture = "initial"
       \/ seen.posture = "going" /\ robot.posture = "lying"

Is(postures) == robot.posture \in postures

(* The robot before the command of a step: it does what the step is for.   *)
Ready(s) ==
    CASE s = "recover" -> Is({"estop"})
      [] s = "rise" -> Is({"lying", "going"})
      [] s \in {"halt", "target"} -> Is({"stepping"})
      [] s = "lower" -> Is({"rising", "initial", "force"})
      [] s \in {"step", "start"} -> Is({"force"})
      [] s \in {"exit", "walk"} -> Is({"rl"})
      [] s = "force" -> Is({"initial"})
      [] s = "gait" -> Is({"stepping", "rl"}) /\ robot.gait # goal
      [] s = "enter" -> Is({"force"}) /\ robot.gait = goal
      [] s = "height" -> robot.height # goal
      [] s = "estop" -> TRUE
      [] OTHER -> FALSE

(* The robot after it.                                                     *)
Done(s) ==
    CASE s = "recover" -> Is({"lying"})
      [] s \in {"rise", "risen"} -> Is({"rising", "initial"})
      [] s \in {"halt", "settle"} -> Is({"force", "initial"})
      [] s \in {"lower", "lowered"} -> Is({"going", "lying"})
      [] s \in {"step", "start"} -> Is({"stepping"})
      [] s = "exit" -> Is({"force", "stepping", "going", "lying"})
      [] s = "force" -> Is({"force"})
      [] s \in {"walk", "stepping"} -> Is({"force", "stepping"}) /\ robot.gait = "walk"
      [] s = "target" -> Is({"rl"}) /\ robot.gait = goal
      [] s = "gait" -> Is({"force", "stepping"}) /\ robot.gait = goal
      [] s = "enter" -> Is({"stepping"}) /\ robot.gait = goal
      [] s = "height" -> robot.height = goal
      [] OTHER -> TRUE

AtRest ==
    /\ commands \in {<<>>, <<"estop">>}
    /\ commands # <<>> => service = "soft_estop"
    /\ success => Achieved

Sending ==
    /\ commands = <<>> /\ Lags
    /\ Ready(step) \/ (step = "enter" /\ Done(step))

Waiting ==
    \/ commands \in {<<>>, <<step>>} /\ Ready(step) /\ Lags
    \/ /\ commands = <<>> /\ Done(step)
       /\ Lags \/ step = "estop" \/ (step \notin Waits /\ ~Reached(step))

NotCrawling == service = "set_gait" /\ ~Idle /\ goal # "walk" => robot.height # "crawl"

Tracked ==
    /\ Idle => AtRest
    /\ phase = "send" => Sending
    /\ phase = "wait" => Waiting
    /\ NotCrawling

X30MotionInv == Basics /\ (Undisturbed => Tracked)

-----------------------------------------------------------------------------
(* The plans.                                                              *)

(* Where a plan leads is a step of the service, with a goal it may have.   *)
LEMMA FollowServes ==
    ASSUME NEW v, NEW g, NEW s, Fits(v, g), s = "gait" => ~Rl(g),
           Follow(v, g, s), service' = v, goal' = g, success \in BOOLEAN
    PROVE  /\ Purpose'
           /\ step' \in Steps \union {"none"}
           /\ phase' \in (IF Idle THEN {"none"} ELSE IF step \in Waits THEN {"wait"}
                          ELSE {"send", "wait"})'
           /\ success' \in BOOLEAN /\ tries' = 0
<1>. USE DEF Fits, Purpose, Serves, Steps, Toggles, Singles, Polls, Onces, Waits, Idle, Rl,
             Answer, Go
<1>1. CASE v = "stand" /\ Stand(g, s)
    BY <1>1 DEF Stand, EnsureManual
<1>2. CASE v = "lie" /\ LieDown(s)
    BY <1>2 DEF LieDown
<1>3. CASE v = "force_stand" /\ ForceStand(s)
    BY <1>3 DEF ForceStand
<1>4. CASE v = "set_gait" /\ SetNavigationGait(g, s)
    BY <1>4 DEF SetNavigationGait, Gaits
<1>5. CASE v = "set_body_height" /\ SetBodyHeight(g, s)
    BY <1>5 DEF SetBodyHeight
<1>6. CASE v = "soft_estop" /\ SoftEstop(s)
    BY <1>6 DEF SoftEstop
<1>. QED  BY <1>1, <1>2, <1>3, <1>4, <1>5, <1>6 DEF Follow

(* A service that begins has read the robot's state; one that goes on has  *)
(* had its step done.                                                      *)
Known(s, v, g) ==
    /\ commands = <<>> /\ Lags
    /\ \/ s = "begin" /\ seen = robot
       \/ s = step /\ ~Idle /\ Done(s) /\ Reached(s) /\ service = v /\ goal = g /\ NotCrawling

(* A plan that is followed from there leads to a step the robot is ready   *)
(* for or done with, or to an answer that is true.                         *)
LEMMA FollowTracked ==
    ASSUME Basics, NEW s \in Steps \union {"begin"}, NEW v, NEW g \in Gaits \union Heights,
           Fits(v, g), Known(s, v, g), Follow(v, g, s),
           service' = v, goal' = g, UNCHANGED <<store, robot, commands>>
    PROVE  Tracked'
<1>. USE DEF Basics, TypeOK, Purpose, RlIsMountain, Fits, Serves, Known, Lags, Done, Reached, At,
             Is, Idle, Answer, Go, store, Tracked, AtRest, Achieved, Sending, Waiting, Ready,
             NotCrawling, Rl, Final, Gaits, Heights, Steps, Toggles, Singles, Polls, Onces, Waits
<1>1. CASE v = "stand" /\ Stand(g, s)
    BY <1>1, ZenonT(60) DEF Stand, EnsureManual
<1>2. CASE v = "lie" /\ LieDown(s)
    BY <1>2, ZenonT(60) DEF LieDown
<1>3. CASE v = "force_stand" /\ ForceStand(s)
    BY <1>3, ZenonT(60) DEF ForceStand
<1>4. CASE v = "set_gait" /\ SetNavigationGait(g, s)
    BY <1>4, ZenonT(60) DEF SetNavigationGait, CannotCrawl
<1>5. CASE v = "set_body_height" /\ SetBodyHeight(g, s)
    BY <1>5 DEF SetBodyHeight
<1>6. CASE v = "soft_estop" /\ SoftEstop(s)
    BY <1>6 DEF SoftEstop
<1>. QED  BY <1>1, <1>2, <1>3, <1>4, <1>5, <1>6 DEF Follow

-----------------------------------------------------------------------------
(* The executor.                                                           *)

LEMMA InvariantInit == Init => X30MotionInv
<1>. SUFFICES ASSUME Init PROVE X30MotionInv
    OBVIOUS
<1>1. PICK p \in Standing : robot = [posture |-> p[1], gait |-> p[2], height |-> "normal"]
    BY DEF Init
<1>2. robot \in Reports /\ RlIsMountain
    BY <1>1 DEF Standing, Reports, Postures, Gaits, Heights, RlIsMountain
<1>3. seen \in Reports
    BY DEF Init, Reports, Postures, Gaits, Heights
<1>4. phase = "none" /\ Idle /\ tries = 0 /\ commands = <<>>
    BY DEF Init, Idle
<1>5. calls = 0 /\ moves = 0 /\ losses = 0 /\ disturbed = 0
    BY DEF Init
<1>6. ~connected /\ ~heard /\ ~blind /\ ~success
    BY DEF Init
<1>7. {connected, heard, blind, success} \subseteq BOOLEAN
    BY DEF Init
<1>8. TypeOK
    BY <1>2, <1>3, <1>4, <1>5, <1>7 DEF TypeOK, Idle
<1>9. Purpose
    BY DEF Init, Purpose, Fits, Idle
<1>10. Tracked
    BY <1>4, <1>6 DEF Tracked, Idle, AtRest, NotCrawling
<1>. QED  BY <1>2, <1>8, <1>9, <1>10 DEF X30MotionInv, Basics

LEMMA BeginKeeps ==
    ASSUME X30MotionInv, NEW v, NEW g, Fits(v, g), Begin(v, g), calls' \in Nat
    PROVE  X30MotionInv'
<1>. USE DEF X30MotionInv, Basics, Begin
<1>1. /\ Purpose' /\ step' \in Steps \union {"none"} /\ success' \in BOOLEAN /\ tries' = 0
      /\ phase' \in (IF Idle THEN {"none"} ELSE IF step \in Waits THEN {"wait"}
                     ELSE {"send", "wait"})'
    BY FollowServes DEF TypeOK
<1>2. TypeOK' /\ RlIsMountain'
    BY <1>1 DEF TypeOK, RlIsMountain, store
<1>3. ASSUME Undisturbed'  PROVE Tracked'
    <2>1. Known("begin", v, g)
        BY <1>3 DEF Undisturbed, Outdated, Known, Lags, TypeOK
    <2>2. g \in Gaits \union Heights
        BY DEF Fits, Gaits
    <2>. QED  BY <2>1, <2>2, FollowTracked
<1>. QED  BY <1>1, <1>2, <1>3

LEMMA CallKeeps ==
    ASSUME X30MotionInv, NEW c \in Calls, Call(c)
    PROVE  X30MotionInv'
<1>1. Fits(c[1], c[2])
    BY DEF Calls, Fits, Gaits, Heights
<1>. QED  BY <1>1, BeginKeeps DEF Call, X30MotionInv, Basics, TypeOK

LEMMA EstopKeeps == X30MotionInv /\ Estop => X30MotionInv'
    BY BeginKeeps DEF Estop, Fits, X30MotionInv, Basics, TypeOK

(* The loops of setNavigationGait send only what the report calls for.     *)
LEMMA SendKeeps == X30MotionInv /\ Send => X30MotionInv'
<1>. SUFFICES ASSUME X30MotionInv, Send PROVE X30MotionInv'
    OBVIOUS
<1>. USE DEF X30MotionInv, Basics, Send
<1>1. step \in Steps \ Waits
    BY DEF TypeOK, Idle, Waits
<1>2. TypeOK'
    BY <1>1 DEF TypeOK, store, bounds, Idle, Waits
<1>3. Purpose' /\ RlIsMountain'
    BY DEF Purpose, RlIsMountain, Idle
<1>4. ASSUME Undisturbed'  PROVE Tracked'
    <2>1. Tracked
        BY <1>4 DEF Undisturbed, bounds
    <2>2. Sending /\ Ready(step)
        BY <2>1 DEF Tracked, Sending, Done, Reached, Lags, At, Is, Polls
    <2>3. step \in Polls => At({"force"})
        BY <2>2 DEF Polls, Ready, Is, Sending, Lags, At
    <2>4. commands' = <<step>>
        BY <2>2, <2>3, <1>1 DEF Sending
    <2>. QED  BY <2>1, <2>2, <2>4, <1>1 DEF Tracked, Waiting, Sending, Idle, NotCrawling, Ready,
                                            Lags, Is, store
<1>. QED  BY <1>2, <1>3, <1>4

(* A wait that is satisfied: the step is done and the store shows it,      *)
(* unless it is the emergency stop, which waits for nothing.               *)
LEMMA ReachKeeps == X30MotionInv /\ Reach => X30MotionInv'
<1>. SUFFICES ASSUME X30MotionInv, Reach PROVE X30MotionInv'
    OBVIOUS
<1>. USE DEF X30MotionInv, Basics, Reach
<1>1. step \in Steps /\ ~Idle /\ goal \in Gaits \union Heights
    BY DEF TypeOK, Idle, Polls, Purpose, Fits, Gaits
<1>2. /\ Purpose' /\ step' \in Steps \union {"none"} /\ success' \in BOOLEAN /\ tries' = 0
      /\ phase' \in (IF Idle THEN {"none"} ELSE IF step \in Waits THEN {"wait"}
                     ELSE {"send", "wait"})'
    BY FollowServes DEF TypeOK, Purpose
<1>3. TypeOK' /\ RlIsMountain'
    BY <1>2 DEF TypeOK, RlIsMountain, store, bounds
<1>4. ASSUME Undisturbed'  PROVE Tracked'
    <2>1. Tracked
        BY <1>4 DEF Undisturbed, bounds
    <2>2. CASE step = "estop"
        <3>1. service = "soft_estop"
            BY <2>2 DEF Purpose, Fits, Serves, Idle
        <3>2. Answer(TRUE)
            BY <2>2, <3>1 DEF Follow, SoftEstop
        <3>3. commands \in {<<>>, <<"estop">>}
            BY <2>1, <2>2 DEF Tracked, Waiting, Polls
        <3>. QED  BY <3>1, <3>2, <3>3 DEF Tracked, AtRest, Achieved, Answer, Idle, NotCrawling
    <2>3. CASE step # "estop"
        <3>1. ~(Ready(step) /\ Lags)
            BY <1>1, <2>3 DEF Ready, Lags, Reached, At, Is, RlIsMountain
        <3>2. commands = <<>> /\ Lags /\ Done(step)
            BY <2>1, <2>3, <3>1 DEF Tracked, Sending, Waiting
        <3>3. Known(step, service, goal)
            BY <1>1, <2>1, <3>2 DEF Known, Tracked
        <3>. QED  BY <1>1, <3>3, FollowTracked DEF Purpose
    <2>. QED  BY <2>2, <2>3
<1>. QED  BY <1>2, <1>3, <1>4

(* A command whose wait runs out of time undisturbed had no effect: the    *)
(* robot has come to rest, and its report would show the effect.           *)
LEMMA TimeOutKeeps == X30MotionInv /\ TimeOut => X30MotionInv'
<1>. SUFFICES ASSUME X30MotionInv, TimeOut PROVE X30MotionInv'
    OBVIOUS
<1>. USE DEF X30MotionInv, Basics, TimeOut
<1>1. step \in Steps /\ phase = "wait"
    BY DEF TypeOK, Idle
<1>2. \/ step = "settle" /\ Go("lower")
      \/ step \notin Waits /\ Repeat
      \/ GiveUp
    <2>1. step \in Waits => ~Repeats(step)
        BY DEF TypeOK, Repeats, Toggles, Polls, Singles, Waits
    <2>. QED  BY <2>1
<1>3. TypeOK'
    <2>1. disturbed' \in Nat
        BY DEF TypeOK
    <2>. USE DEF TypeOK, store
    <2>2. CASE step = "settle" /\ Go("lower")
        BY <2>1, <2>2 DEF Go, Idle, Waits, Steps, Toggles
    <2>3. CASE step \notin Waits /\ Repeat
        BY <1>1, <2>1, <2>3 DEF Repeat, Idle
    <2>4. CASE GiveUp
        BY <2>1, <2>4 DEF GiveUp, Answer, Idle
    <2>. QED  BY <1>2, <2>2, <2>3, <2>4
<1>4. Purpose' /\ RlIsMountain'
    BY <1>1, <1>2 DEF Purpose, Serves, Idle, RlIsMountain, Go, Repeat, GiveUp, Answer
<1>5. ASSUME Undisturbed'  PROVE Tracked'
    <2>1. Tracked /\ (Quiet \/ step = "settle")
        BY <1>5 DEF Undisturbed, TypeOK
    <2>2. Waiting /\ NotCrawling
        BY <2>1, <1>1 DEF Tracked
    <2>3. CASE step = "settle"
        BY <2>2, <2>3, <1>2 DEF Waiting, Ready, Done, Is, Go, GiveUp, Answer, Tracked, Sending,
                                AtRest, NotCrawling, Idle, Waits, Lags, store
    <2>4. CASE step # "settle" /\ GiveUp
        BY <2>1, <2>4 DEF GiveUp, Answer, Quiet, Tracked, AtRest, NotCrawling, Idle
    <2>5. CASE step \notin Waits /\ Repeat
        <3>1. Quiet
            BY <2>1, <2>5 DEF Waits
        <3>2. Ready(step)
            BY <1>1, <2>2, <2>5, <3>1 DEF Waiting, Done, Reached, Is, At, Quiet, Steps, Toggles,
                                          Singles, Polls, Onces, Waits
        <3>. QED  BY <1>1, <2>2, <2>5, <3>1, <3>2 DEF Repeat, Quiet, Tracked, Sending, NotCrawling,
                                                      Ready, Is, Idle, Lags, store
    <2>. QED  BY <1>2, <2>3, <2>4, <2>5
<1>. QED  BY <1>3, <1>4, <1>5

-----------------------------------------------------------------------------
(* The robot and the network.                                              *)

LEMMA CommandKinds ==
    ASSUME NEW s \in Steps, goal \in Gaits \union Heights
    PROVE  Command(s) \in Gaits \union Heights \union Waits
                          \union {"updown", "motion", "force", "estop"}
BY DEF Command, Steps, Toggles, Singles, Polls, Onces, Waits, Gaits, Heights

(* What any command leaves true of the robot.                              *)
LEMMA Obedience ==
    ASSUME robot \in Reports, RlIsMountain,
           NEW c \in Gaits \union Heights \union Waits
                     \union {"updown", "motion", "force", "estop"},
           Obey(c)
    PROVE  /\ robot' \in Reports /\ RlIsMountain'
           /\ c # "crawl" /\ robot'.height = "crawl" => robot.height = "crawl"
BY ZenonT(60) DEF Obey, Obeys, Reports, RlIsMountain, Postures, Gaits, Heights, Rl, Waits

(* A command that reaches a robot which is ready for it does what its step *)
(* is for.                                                                 *)
LEMMA CommandWorks ==
    ASSUME Basics, step \in Steps, Ready(step), Obey(Command(step)), step' = step, goal' = goal
    PROVE  Done(step)'
<1>. USE DEF Basics, TypeOK, RlIsMountain, Reports, Postures, Gaits, Heights, Ready, Done, Is
<1>1. CASE step \in {"recover", "rise", "exit", "lower"}
    <2>1. Command(step) = "updown"
        BY <1>1 DEF Command
    <2>2. Obey("updown")
        BY <2>1
    <2>. QED  BY <1>1, <2>2, ZenonT(60) DEF Obey, Obeys
<1>2. CASE step \in {"halt", "step", "start", "enter"}
    <2>1. Command(step) = "motion"
        BY <1>2 DEF Command
    <2>2. Obey("motion")
        BY <2>1
    <2>. QED  BY <1>2, <2>2, ZenonT(60) DEF Obey, Obeys
<1>3. CASE step \in {"force", "walk", "estop"}
    <2>1. Command(step) = step
        BY <1>3 DEF Command
    <2>2. Obey(step)
        BY <2>1
    <2>. QED  BY <1>3, <2>2, ZenonT(60) DEF Obey, Obeys, Rl
<1>4. CASE step \in {"target", "gait", "height"}
    <2>1. Command(step) = goal
        BY <1>4 DEF Command
    <2>2. Obey(goal)
        BY <2>1
    <2>. QED  BY <1>4, <2>2, ZenonT(60) DEF Obey, Obeys, Rl, Purpose, Fits, Serves, Idle
<1>5. CASE step \in Waits
    BY <1>5 DEF Waits
<1>. QED  BY <1>1, <1>2, <1>3, <1>4, <1>5 DEF Steps, Toggles, Singles, Polls, Onces, Waits

LEMMA HeadAndTail ==
    ASSUME NEW s, NEW c, c = <<s>>
    PROVE  c # <<>> /\ Head(c) = s /\ Tail(c) = <<>>
OBVIOUS

LEMMA HandleKeeps == X30MotionInv /\ Handle => X30MotionInv'
<1>. SUFFICES ASSUME X30MotionInv, Handle PROVE X30MotionInv'
    OBVIOUS
<1>. USE DEF X30MotionInv, Basics, Handle, executing, store
<1>1. commands \in Seq(Steps) /\ commands # <<>>
    BY DEF TypeOK
<1>2. Head(commands) \in Steps /\ Tail(commands) \in Seq(Steps)
    BY <1>1
<1>3. goal \in Gaits \union Heights
    BY DEF Purpose, Fits, Gaits
<1>4. robot' \in Reports /\ RlIsMountain'
    BY <1>2, <1>3, CommandKinds, Obedience DEF TypeOK
<1>5. TypeOK' /\ Purpose'
    BY <1>2, <1>4 DEF TypeOK, Purpose, bounds, Idle
<1>6. ASSUME Undisturbed'  PROVE Tracked'
    <2>1. Tracked
        BY <1>6 DEF Undisturbed, bounds
    <2>2. CASE Idle
        <3>1. commands = <<"estop">> /\ service = "soft_estop"
            BY <1>1, <2>1, <2>2 DEF Tracked, AtRest
        <3>2. commands' = <<>>
            BY <3>1, HeadAndTail
        <3>. QED  BY <2>2, <3>1, <3>2 DEF Idle, Tracked, AtRest, Achieved, NotCrawling, TypeOK
    <2>3. CASE ~Idle
        <3>1. /\ phase = "wait" /\ commands = <<step>> /\ Ready(step) /\ Lags
              /\ step \in Steps
            BY <1>1, <2>1, <2>3 DEF Tracked, Sending, Waiting, TypeOK, Idle
        <3>2. commands' = <<>> /\ Obey(Command(step))
            BY <3>1, HeadAndTail
        <3>3. Done(step)'
            BY <3>1, <3>2, CommandWorks
        <3>4. step = "estop" \/ (step \notin Waits /\ ~Reached(step)')
            BY <3>1 DEF Ready, Waits, Reached, Lags, At, Is, RlIsMountain, Steps, Toggles,
                        Singles, Polls, Onces
        <3>5. CASE service = "set_gait"
            <4>1. Command(step) \notin Heights
                BY <3>1, <3>5 DEF Purpose, Fits, Serves, Idle, Command, Gaits, Heights
            <4>2. NotCrawling'
                BY <1>3, <2>1, <2>3, <3>1, <3>2, <4>1, CommandKinds, Obedience
                   DEF Heights, NotCrawling, Tracked, TypeOK, Idle
            <4>. QED  BY <2>3, <3>1, <3>2, <3>3, <3>4, <4>2 DEF Tracked, Waiting, Idle
        <3>6. CASE service # "set_gait"
            BY <2>3, <3>1, <3>2, <3>3, <3>4, <3>6 DEF Tracked, Waiting, NotCrawling, Idle
        <3>. QED  BY <3>5, <3>6
    <2>. QED  BY <2>2, <2>3
<1>. QED  BY <1>4, <1>5, <1>6

LEMMA LoseKeeps == X30MotionInv /\ Lose => X30MotionInv'
<1>. SUFFICES ASSUME X30MotionInv, Lose PROVE X30MotionInv'
    OBVIOUS
<1>. USE DEF X30MotionInv, Basics, Lose, executing, store
<1>1. commands \in Seq(Steps) /\ commands # <<>>
    BY DEF TypeOK
<1>2. Tail(commands) \in Seq(Steps)
    BY <1>1
<1>3. TypeOK' /\ Purpose' /\ RlIsMountain'
    BY <1>2 DEF TypeOK, Purpose, RlIsMountain, Idle
<1>4. ASSUME Undisturbed'  PROVE Tracked'
    <2>1. Tracked
        BY <1>4 DEF Undisturbed
    <2>2. \E s : commands = <<s>>
        BY <1>1, <2>1 DEF Tracked, AtRest, Sending, Waiting, TypeOK, Idle
    <2>3. commands' = <<>>
        BY <2>2, HeadAndTail
    <2>. QED  BY <1>1, <2>1, <2>3 DEF Tracked, AtRest, Achieved, Sending, Waiting, NotCrawling,
                                      Idle, Ready, Lags, Is, TypeOK
<1>. QED  BY <1>3, <1>4

LEMMA ReportKeeps == X30MotionInv /\ Report => X30MotionInv'
<1>. SUFFICES ASSUME X30MotionInv, Report PROVE X30MotionInv'
    OBVIOUS
<1>. USE DEF X30MotionInv, Basics, Report, executing
<1>1. TypeOK' /\ Purpose' /\ RlIsMountain'
    BY DEF TypeOK, Purpose, RlIsMountain, Idle, bounds
<1>2. ASSUME Undisturbed'  PROVE Tracked'
    <2>1. Tracked /\ Lags'
        BY <1>2 DEF Undisturbed, bounds, Lags
    <2>. QED  BY <2>1 DEF Tracked, AtRest, Achieved, Sending, Waiting, NotCrawling, Idle, Ready,
                          Done, Is
<1>. QED  BY <1>1, <1>2

LEMMA SettleKeeps == X30MotionInv /\ Settle => X30MotionInv'
<1>. SUFFICES ASSUME X30MotionInv, Settle PROVE X30MotionInv'
    OBVIOUS
<1>. USE DEF X30MotionInv, Basics, Settle, executing, store
<1>1. /\ robot' \in Reports /\ robot'.gait = robot.gait /\ robot'.height = robot.height
      /\ \/ robot.posture = "rising" /\ robot'.posture = "initial"
         \/ robot.posture = "going" /\ robot'.posture = "lying"
    BY DEF TypeOK, Reports, Postures
<1>2. TypeOK' /\ Purpose' /\ RlIsMountain'
    BY <1>1 DEF TypeOK, Purpose, RlIsMountain, Idle, bounds
<1>3. ASSUME Undisturbed'  PROVE Tracked'
    <2>1. Tracked
        BY <1>3 DEF Undisturbed, bounds
    <2>2. Lags => Lags'
        BY <1>1 DEF Lags
    <2>. USE DEF Is, Steps, Toggles, Singles, Polls, Onces, Waits
    <2>3. step \in Steps /\ Ready(step) => Ready(step)'
        BY <1>1 DEF Ready
    <2>4. step \in Steps /\ Done(step) => Done(step)'
        BY <1>1 DEF Done
    <2>5. Reached(step)' = Reached(step)
        BY DEF Reached, At
    <2>6. AtRest => AtRest'
        BY <1>1 DEF AtRest, Achieved, Purpose, Fits, Final
    <2>. QED  BY <1>1, <2>1, <2>2, <2>3, <2>4, <2>5, <2>6
                 DEF Tracked, Sending, Waiting, NotCrawling, Idle, TypeOK
<1>. QED  BY <1>2, <1>3

LEMMA InterveneKeeps == X30MotionInv /\ Intervene => X30MotionInv'
<1>. SUFFICES ASSUME X30MotionInv, Intervene PROVE X30MotionInv'
    OBVIOUS
<1>. USE DEF X30MotionInv, Basics, Intervene, executing, store
<1>1. PICK p \in {"estop", "force", "going"} : robot' = [robot EXCEPT !.posture = p]
    OBVIOUS
<1>2. robot' \in Reports /\ robot'.posture # "rl"
    BY <1>1 DEF TypeOK, Reports, Postures
<1>3. TypeOK' /\ Purpose' /\ RlIsMountain'
    BY <1>2 DEF TypeOK, Purpose, RlIsMountain, Idle
<1>4. ~Undisturbed'
    BY DEF Undisturbed, TypeOK
<1>. QED  BY <1>3, <1>4

(* The velocity, the connection and the requests that wait touch none of   *)
(* this.                                                                   *)
LEMMA RestKeeps ==
    ASSUME X30MotionInv,
           Tick \/ CmdVel \/ Publish \/ Expire \/ ReleaseControl \/ RequestEstop \/ UNCHANGED vars
    PROVE  X30MotionInv'
<1>1. /\ UNCHANGED <<seen, heard, executing, robot, commands>>
      /\ connected' \in BOOLEAN /\ calls' \in Nat /\ moves' \in Nat /\ losses' \in Nat
      /\ disturbed' \in {disturbed, disturbed + 1} /\ disturbed \in Nat
    <2>1. /\ connected \in BOOLEAN /\ calls \in Nat /\ moves \in Nat /\ losses \in Nat
          /\ disturbed \in Nat
        BY DEF X30MotionInv, Basics, TypeOK
    <2>. USE <2>1 DEF store, bounds
    <2>2. CASE Tick
        BY <2>2 DEF Tick
    <2>3. CASE CmdVel \/ Expire
        BY <2>3 DEF CmdVel, Expire
    <2>4. CASE Publish
        BY <2>4 DEF Publish
    <2>5. CASE ReleaseControl \/ RequestEstop
        BY <2>5 DEF ReleaseControl, RequestEstop
    <2>6. CASE UNCHANGED vars
        BY <2>6 DEF vars
    <2>. QED  BY <2>2, <2>3, <2>4, <2>5, <2>6
<1>. USE <1>1 DEF X30MotionInv, Basics, executing
<1>2. TypeOK' /\ Purpose' /\ RlIsMountain'
    BY DEF TypeOK, Purpose, RlIsMountain, Idle
<1>3. ASSUME Undisturbed'  PROVE Tracked'
    <2>1. Tracked
        BY <1>3 DEF Undisturbed
    <2>. QED  BY <2>1 DEF Tracked, AtRest, Achieved, Sending, Waiting, NotCrawling, Idle, Ready,
                          Done, Is, Lags, Reached, At
<1>. QED  BY <1>2, <1>3

LEMMA InvariantNext == X30MotionInv /\ [Next]_vars => X30MotionInv'
<1>. SUFFICES ASSUME X30MotionInv, [Next]_vars PROVE X30MotionInv'
    OBVIOUS
<1>1. CASE Control
    BY <1>1, RestKeeps, EstopKeeps DEF Control
<1>2. CASE Serve
    BY <1>2, SendKeeps, ReachKeeps, TimeOutKeeps DEF Serve
<1>3. CASE Network
    BY <1>3, HandleKeeps, ReportKeeps, SettleKeeps DEF Network
<1>4. CASE Environment
    BY <1>4, CallKeeps, LoseKeeps, InterveneKeeps, RestKeeps DEF Environment
<1>5. CASE UNCHANGED vars
    BY <1>5, RestKeeps
<1>. QED  BY <1>1, <1>2, <1>3, <1>4, <1>5 DEF Next

-----------------------------------------------------------------------------
(* In every reachable state the types hold, the step belongs to the        *)
(* service, and while nothing is disturbed the robot is where the step     *)
(* needs it.                                                               *)
THEOREM InvariantHolds == Spec => []X30MotionInv
    BY InvariantInit, InvariantNext, PTL DEF Spec

(* There is at most one command in flight: an emergency stop, or that of   *)
(* the step that waits, and then the robot is ready for it.                *)
LEMMA OneInFlight ==
    ASSUME X30MotionInv, Undisturbed, NEW i \in DOMAIN commands
    PROVE  \/ commands[i] = "estop"
           \/ phase = "wait" /\ commands[i] = step /\ Ready(step)
<1>1. commands \in Seq(Steps) /\ commands # <<>>
    BY DEF X30MotionInv, Basics, TypeOK
<1>2. PICK s : commands = <<s>> /\ (s = "estop" \/ (phase = "wait" /\ s = step /\ Ready(step)))
    BY <1>1 DEF X30MotionInv, Basics, TypeOK, Tracked, AtRest, Sending, Waiting, Idle
<1>. QED  BY <1>2

(* A toggle that was lost or delayed and is sent again (action_executor)   *)
(* never undoes what an earlier copy did.                                  *)
THEOREM TogglesHold == Spec => []ToggleNotUndone
<1>1. X30MotionInv => ToggleNotUndone
    <2>. SUFFICES ASSUME X30MotionInv, Undisturbed, NEW i \in DOMAIN commands
                  PROVE  ~Undoes(commands[i], robot.posture)
        BY DEF ToggleNotUndone
    <2>. QED  BY OneInFlight DEF Undoes, Ready, Is
<1>. QED  BY <1>1, InvariantHolds, PTL

(* A service that answered success left the robot in the state asked for,  *)
(* and it stays there until the next service.                              *)
THEOREM AnswersAreTrue == Spec => []SuccessIsReal
<1>1. X30MotionInv => SuccessIsReal
    BY DEF X30MotionInv, SuccessIsReal, Tracked, AtRest
<1>. QED  BY <1>1, InvariantHolds, PTL

(* The height set_gait examined at its beginning is still the robot's when *)
(* its last command arrives: no gait reaches a robot that crawls in which  *)
(* it may not crawl.                                                       *)
THEOREM CrawlingIsKept == Spec => []CrawlKeepsGait
<1>1. X30MotionInv => CrawlKeepsGait
    <2>. SUFFICES ASSUME X30MotionInv, Undisturbed, service = "set_gait", goal # "walk",
                         robot.height = "crawl", NEW i \in DOMAIN commands
                  PROVE  commands[i] \notin {"target", "gait"}
        BY DEF CrawlKeepsGait
    <2>1. Idle
        BY DEF X30MotionInv, Tracked, NotCrawling
    <2>. QED  BY <2>1, OneInFlight DEF Idle, X30MotionInv, Basics, TypeOK
<1>. QED  BY <1>1, InvariantHolds, PTL
=============================================================================
