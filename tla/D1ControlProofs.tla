--------------------------- MODULE D1ControlProofs ---------------------------
(***************************************************************************)
(* What holds of the services of the D1 Max for every number of calls,     *)
(* velocities and failures.  None of the properties is inductive: each     *)
(* holds between calls because of what is true at every step of a plan, so *)
(* the invariant says what a plan still has before it, and what is already *)
(* achieved by the steps that are no longer in it.                         *)
(***************************************************************************)
EXTENDS D1Control, TLAPS

(* Values.  "none" is the velocity callback, which only takes control; the *)
(* steps in Awaiting wait for a report.                                    *)
Services == {"stand", "lie", "set_gait", "set_speed", "soft_estop", "release_control", "none"}
Awaiting == {"unlock", "settle", "rise", "leave", "general", "stair", "crawl", "down"}
Steps == Awaiting \union {"take", "stop", "halt", "level", "commit", "estop", "rest", "release"}
Robots == [posture : Postures, level : 1..3, source : {"none", "sdk", "app"}, driving : BOOLEAN]
Callees == [service : Services, goal : Gaits \union {"high"}, current : Postures, blind : BOOLEAN]

(* The type invariant. *)
TypeOK ==
    /\ owned \in BOOLEAN /\ nodeOwned \in BOOLEAN /\ wish \in BOOLEAN
    /\ status \in Postures /\ gait \in Gaits /\ level \in 1..3
    /\ plan \in Seq(Steps) /\ pc \in {"idle", "step", "wait", "store", "publish"}
    /\ call \in Callees /\ success \in BOOLEAN
    /\ sdk \in [pc : {"idle", "store", "publish"}, owns : BOOLEAN]
    /\ notices \in BOOLEAN /\ linked \in BOOLEAN /\ disturbed \in BOOLEAN
    /\ robot \in Robots /\ known \subseteq {"gait", "level"} /\ events \in 0..MaxEvents

(* The steps of a plan; the one it ends in, and has nowhere else; what may *)
(* come before a step.                                                     *)
StepsIn(p) == {p[i] : i \in DOMAIN p}
EndsIn(p, s) == \A i \in DOMAIN p : p[i] = s <=> i = Len(p)
OnlyBefore(p, steps, s) == \A i, j \in DOMAIN p : p[i] = s /\ j < i => p[j] \in steps
Ahead == StepsIn(plan)
Running(s) == ~Idle /\ call.service = s

(* The steps the plan of a service can have. *)
StepsOf(s) ==
    CASE s = "stand" -> {"unlock", "take", "stop", "rise", "halt", "general", "level", "commit"}
      [] s = "lie" -> {"unlock", "take", "settle", "leave", "crawl", "down"}
      [] s = "set_gait" -> {"take", "halt", "stair", "general", "level", "commit"}
      [] s = "set_speed" -> {"level"}
      [] s = "soft_estop" -> {"estop"}
      [] s = "release_control" -> {"rest", "release"}
      [] s = "none" -> {"take"}

(* What every rest of the plan of a service keeps: its last step, the goal *)
(* it has, and that the robot comes to rest before its posture changes.    *)
Fits(p, c) ==
    /\ StepsIn(p) \subseteq StepsOf(c.service)
    /\ c.service \in {"stand", "set_gait"} => EndsIn(p, "commit")
    /\ c.service = "stand" => c.goal = "mountain" /\ OnlyBefore(p, {"unlock", "take"}, "stop")
    /\ c.service = "set_gait" => /\ c.goal \in Gaits
                                 /\ OnlyBefore(p, {"take"}, "halt")
                                 /\ c.goal = "stair" => {"general", "level"} \intersect StepsIn(p) = {}
                                 /\ c.goal # "stair" => "stair" \notin StepsIn(p)
                                 /\ c.goal = "l_walk" => "level" \notin StepsIn(p)
    /\ c.service = "lie" => /\ EndsIn(p, "down")
                            /\ OnlyBefore(p, {"unlock", "take"}, "settle")
                            /\ \A i \in DOMAIN p : p[i] = "crawl" => i = Len(p) - 1
    /\ c.service = "set_speed" => c.goal = "high"
    /\ c.service = "soft_estop" => EndsIn(p, "estop")
    /\ c.service = "release_control" => EndsIn(p, "release")

(* The plan in progress belongs to the service that runs.                  *)
PlanPart ==
    /\ Idle <=> plan = <<>>
    /\ Fits(plan, call)
    /\ pc = "wait" => Head(plan) \in Awaiting
    /\ pc \in {"store", "publish"} => Head(plan) \in {"take", "release"}

(* Gaits whose limit is the level set with them. *)
Ordinary(g) == g \in {"walk", "mountain"}

(* The level remembered is the robot's, once a level was acknowledged: for *)
(* the gait completed, and for the one a service is about to store.        *)
LevelPart ==
    /\ "level" \in known /\ Ordinary(gait) => robot.level = level
    /\ "level" \in known /\ (Running("stand") \/ Running("set_gait"))
            /\ Ordinary(call.goal) /\ "level" \notin Ahead
          => robot.level = level

(* In lie_down a status that says lying is right: a robot that lies stays  *)
(* so at every step of it.                                                 *)
LieKnows ==
    Running("lie") /\ (~disturbed \/ "gait" \in known) /\ status = "lying" => robot.posture = "lying"

(* A gait remembered as stairs is the robot's, unless a service runs that  *)
(* replaces it or lies the robot down; set_gait to stairs is not past its  *)
(* mode request while the robot walks normally.                            *)
StairPart ==
    /\ "gait" \in known /\ gait = "stair" /\ robot.posture \in General
          => \/ Running("lie") \/ Running("stand")
             \/ Running("set_gait") /\ call.goal # "stair"
    /\ Running("set_gait") /\ call.goal = "stair" /\ robot.posture \in General
          => "stair" \in Ahead /\ (Head(plan) = "stair" => pc = "step")

(* Nobody else holds control before something has gone wrong.              *)
CalmPart == ~disturbed => linked /\ robot.source \in {"none", "sdk"}

(* The status is out of date only in one direction. *)
Seen(postures) == status \in postures => robot.posture \in postures

(* What a service has achieved once a step is no longer ahead, and what it *)
(* has when it has answered.                                               *)
ReachPart ==
    Undisturbed =>
        /\ Idle /\ success => Achieved
        /\ pc \in {"store", "publish"} /\ Head(plan) = "release" /\ success => robot.source = "none"
        /\ Running("stand") \/ (Running("set_gait") /\ call.goal # "stair") =>
              /\ Seen(General)
              /\ "general" \notin Ahead => robot.posture \in General
        /\ Running("stand") /\ "level" \notin Ahead => robot.level = 3
        /\ Running("set_gait") /\ call.goal = "stair" =>
              /\ Seen({"stair"})
              /\ "stair" \notin Ahead => robot.posture = "stair"

(* A robot drives in the postures it can walk in, or lies; otherwise only  *)
(* a lie_down that started from a wrong picture is taking it to crawl.     *)
DrivePart ==
    /\ robot.posture = "locked" => ~robot.driving
    /\ ~disturbed /\ robot.driving =>
          \/ robot.posture \in {"walk", "stair", "lying"}
          \/ /\ robot.posture = "crawl" /\ Running("lie") /\ call.blind /\ robot.source = "sdk"
             /\ Ahead \subseteq {"crawl", "down"}
             /\ pc = "step" \/ (pc = "wait" /\ Head(plan) = "crawl")

(* A robot that drives while a service runs has the step ahead that stops  *)
(* it, and what was copied when the service began will not skip that step. *)
RestPart ==
    Undisturbed /\ robot.driving =>
        /\ Running("stand") => "stop" \in Ahead /\ call.current # "stand"
        /\ Running("lie") =>
              /\ "settle" \in Ahead /\ call.current \in {"walk", "stair"}
              /\ pc # "wait"
        /\ Running("set_gait") => IF "halt" \in Ahead THEN status = robot.posture
                                  ELSE robot.posture = "lying"
        /\ Running("release_control") => "rest" \in Ahead

(* A robot that the bridge does not control does not drive: control is     *)
(* given back, taken away or cut off with the robot at rest.               *)
UncontrolledRests == robot.source # "sdk" => ~robot.driving

(* release_control has not passed the zero velocity while the robot drives,*)
(* whatever failed or intervened.                                          *)
ReleasePart ==
    /\ UncontrolledRests
    /\ Running("release_control") /\ robot.driving => "rest" \in Ahead

(* The inductive invariant. *)
D1ControlInv ==
    /\ TypeOK /\ PlanPart /\ LevelPart /\ LieKnows /\ StairPart /\ CalmPart
    /\ ReachPart /\ DrivePart /\ RestPart /\ ReleasePart
-----------------------------------------------------------------------------
(* Plans                                                                   *)

(* The rest of a plan is one step shorter, and one index behind.           *)
LEMMA Rest ==
    ASSUME NEW p \in Seq(Steps), p # <<>>
    PROVE  /\ Tail(p) \in Seq(Steps) /\ Len(Tail(p)) = Len(p) - 1 /\ Len(p) \in Nat \ {0}
           /\ Head(p) = p[1] /\ \A i \in 1..Len(p) - 1 : Tail(p)[i] = p[i + 1]
           /\ DOMAIN p = 1..Len(p) /\ DOMAIN Tail(p) = 1..Len(p) - 1
<1>1. Tail(p) \in Seq(Steps) /\ Len(Tail(p)) = Len(p) - 1 /\ Len(p) \in Nat \ {0}
  OBVIOUS
<1>2. Head(p) = p[1]
  OBVIOUS
<1>3. ASSUME NEW i \in 1..Len(p) - 1 PROVE Tail(p)[i] = p[i + 1]
  OBVIOUS
<1>4. DOMAIN p = 1..Len(p) /\ DOMAIN Tail(p) = 1..Len(p) - 1
  BY <1>1
<1>5. QED
  BY <1>1, <1>2, <1>3, <1>4

(* The steps of a plan are its first and those of the rest.                *)
LEMMA TailSteps ==
    ASSUME NEW p \in Seq(Steps), p # <<>>
    PROVE  /\ Tail(p) \in Seq(Steps)
           /\ Head(p) \in StepsIn(p)
           /\ StepsIn(Tail(p)) \subseteq StepsIn(p)
           /\ StepsIn(p) \subseteq StepsIn(Tail(p)) \union {Head(p)}
<1>1. Tail(p) \in Seq(Steps) /\ Len(Tail(p)) = Len(p) - 1 /\ Len(p) \in Nat \ {0}
  BY Rest
<1>2. Head(p) = p[1] /\ \A i \in 1..Len(p) - 1 : Tail(p)[i] = p[i + 1]
  BY Rest
<1>3. Head(p) \in StepsIn(p) /\ StepsIn(Tail(p)) \subseteq StepsIn(p)
  BY <1>1, <1>2 DEF StepsIn
<1>4. ASSUME NEW i \in 1..Len(p), i # 1 PROVE p[i] \in StepsIn(Tail(p))
  <2>1. i - 1 \in 1..Len(p) - 1 /\ i - 1 + 1 = i
    BY <1>1, <1>4
  <2>2. Tail(p)[i - 1] = p[i]
    BY <1>2, <2>1
  <2>3. i - 1 \in DOMAIN Tail(p)
    BY <1>1, <2>1
  <2>4. QED
    BY <2>2, <2>3 DEF StepsIn
<1>5. StepsIn(p) \subseteq StepsIn(Tail(p)) \union {Head(p)}
  BY <1>2, <1>4, Rest DEF StepsIn
<1>6. QED
  BY <1>1, <1>3, <1>5

(* A plan that ends in a step still does when another one is done.         *)
LEMMA TailEnd ==
    ASSUME NEW p \in Seq(Steps), p # <<>>, NEW s, EndsIn(p, s)
    PROVE  /\ EndsIn(Tail(p), s)
           /\ Tail(p) = <<>> <=> Head(p) = s
           /\ Head(p) = s => StepsIn(p) = {s}
<1>1. /\ Tail(p) \in Seq(Steps) /\ Len(Tail(p)) = Len(p) - 1 /\ Len(p) \in Nat \ {0}
      /\ Head(p) = p[1] /\ \A i \in 1..Len(p) - 1 : Tail(p)[i] = p[i + 1]
  BY Rest, Zenon
<1>2. DOMAIN p = 1..Len(p) /\ DOMAIN Tail(p) = 1..Len(p) - 1
  BY Rest, Zenon
<1>3. EndsIn(Tail(p), s)
  <2>1. ASSUME NEW i \in 1..Len(p) - 1 PROVE Tail(p)[i] = s <=> i = Len(p) - 1
    <3>1. i + 1 \in DOMAIN p /\ Tail(p)[i] = p[i + 1]
      BY <1>1, <1>2
    <3>2. p[i + 1] = s <=> i + 1 = Len(p)
      BY <3>1 DEF EndsIn
    <3>3. i + 1 = Len(p) <=> i = Len(p) - 1
      BY <1>1
    <3>4. QED
      BY <3>1, <3>2, <3>3
  <2>2. QED
    BY <1>1, <1>2, <2>1 DEF EndsIn
<1>4. Head(p) = s <=> Len(p) = 1
  BY <1>1, <1>2 DEF EndsIn
<1>5. Tail(p) = <<>> <=> Len(p) = 1
  BY <1>1
<1>6. Head(p) = s => StepsIn(p) = {s}
  BY <1>1, <1>2, <1>4 DEF StepsIn
<1>7. QED
  BY <1>3, <1>4, <1>5, <1>6

(* What comes before a step still does, and bounds what is due.            *)
LEMMA TailBefore ==
    ASSUME NEW p \in Seq(Steps), p # <<>>, NEW steps, NEW s, OnlyBefore(p, steps, s)
    PROVE  /\ OnlyBefore(Tail(p), steps, s)
           /\ s \in StepsIn(p) => Head(p) \in steps \union {s}
<1>1. /\ Tail(p) \in Seq(Steps) /\ Len(Tail(p)) = Len(p) - 1 /\ Len(p) \in Nat \ {0}
      /\ Head(p) = p[1] /\ \A i \in 1..Len(p) - 1 : Tail(p)[i] = p[i + 1]
  BY Rest
<1>2. DOMAIN p = 1..Len(p) /\ DOMAIN Tail(p) = 1..Len(p) - 1
  BY <1>1
<1>3. ASSUME NEW i \in 1..Len(p) - 1, NEW j \in 1..Len(p) - 1, Tail(p)[i] = s, j < i
      PROVE  Tail(p)[j] \in steps
  <2>1. i + 1 \in DOMAIN p /\ j + 1 \in DOMAIN p /\ p[i + 1] = s /\ Tail(p)[j] = p[j + 1]
    BY <1>1, <1>2, <1>3
  <2>2. j + 1 < i + 1
    BY <1>3
  <2>3. QED
    BY <2>1, <2>2 DEF OnlyBefore
<1>4. ASSUME NEW i \in DOMAIN p, p[i] = s PROVE Head(p) \in steps \union {s}
  BY <1>1, <1>2, <1>4 DEF OnlyBefore
<1>5. QED
  BY <1>2, <1>3, <1>4 DEF OnlyBefore, StepsIn

(* What is left of a fitting plan fits.                                    *)
LEMMA TailFits ==
    ASSUME NEW p \in Seq(Steps), p # <<>>, NEW c, NEW d, Fits(p, c),
           d.service = c.service, d.goal = c.goal
    PROVE  Fits(Tail(p), d)
<1>1. StepsIn(Tail(p)) \subseteq StepsIn(p)
  BY TailSteps
<1>2. \A s : EndsIn(p, s) => EndsIn(Tail(p), s)
  BY TailEnd
<1>3. (\A i \in DOMAIN p : p[i] = "crawl" => i = Len(p) - 1)
        => \A i \in DOMAIN Tail(p) : Tail(p)[i] = "crawl" => i = Len(Tail(p)) - 1
  OBVIOUS
<1>4. \A steps, s : OnlyBefore(p, steps, s) => OnlyBefore(Tail(p), steps, s)
  BY TailBefore
<1>5. QED
  BY <1>1, <1>2, <1>3, <1>4 DEF Fits

(* When the crawl of lie_down is due only lying down is left after it.     *)
LEMMA CrawlThenDown ==
    ASSUME NEW p \in Seq(Steps), p # <<>>, NEW c, Fits(p, c), c.service = "lie",
           Head(p) = "crawl"
    PROVE  StepsIn(p) = {"crawl", "down"}
  BY DEF Fits, EndsIn, StepsIn

(* A service that is over fits.                                            *)
LEMMA EmptyFits ==
    ASSUME NEW c, NEW d, Fits(plan, c), d.service = c.service, d.goal = c.goal
    PROVE  Fits(<<>>, d)
  BY DEF Fits, EndsIn, OnlyBefore, StepsIn

(* The services that can be called, and with which goals.                  *)
Callable(s, g) ==
    /\ s \in Services \ {"none"} /\ g \in Gaits \union {"high"}
    /\ s = "stand" => g = "mountain"
    /\ s = "set_gait" => g \in Gaits
    /\ s = "set_speed" => g = "high"

(* The plan a service begins with fits it.                                 *)
LEMMA PlanFits ==
    ASSUME NEW s, NEW g, Callable(s, g), NEW c, c.service = s, c.goal = g
    PROVE  PlanOf(s, g) \in Seq(Steps) /\ PlanOf(s, g) # <<>> /\ Fits(PlanOf(s, g), c)
<1> DEFINE p == PlanOf(s, g)
<1>1. CASE s = "stand"
  BY <1>1 DEF Callable, PlanOf, Stand, Fits, EndsIn, OnlyBefore, StepsIn, StepsOf, Steps, Awaiting
<1>2. CASE s = "lie"
  BY <1>2 DEF PlanOf, Lie, Fits, EndsIn, OnlyBefore, StepsIn, StepsOf, Steps, Awaiting
<1>3. CASE s = "set_gait"
  <2>1. CASE g = "stair"
    BY <1>3, <2>1 DEF Callable, PlanOf, SetGait, Fits, EndsIn, OnlyBefore, StepsIn, StepsOf, Steps, Awaiting
  <2>2. CASE g = "l_walk"
    BY <1>3, <2>2 DEF Callable, PlanOf, SetGait, Fits, EndsIn, OnlyBefore, StepsIn, StepsOf, Steps, Awaiting
  <2>3. CASE g \notin {"stair", "l_walk"}
    <3>1. p = <<"take", "halt", "general", "level", "commit">>
      BY <1>3, <2>3 DEF PlanOf, SetGait
    <3>2. p \in Seq(Steps) /\ p # <<>>
      BY <3>1 DEF Steps, Awaiting
    <3>3. StepsIn(p) = {"take", "halt", "general", "level", "commit"} /\ EndsIn(p, "commit") /\ OnlyBefore(p, {"take"}, "halt")
      BY <3>1 DEF StepsIn, EndsIn, OnlyBefore
    <3>4. QED
      BY <1>3, <2>3, <3>2, <3>3 DEF Callable, Fits, StepsOf
  <2>4. QED
    BY <2>1, <2>2, <2>3
<1>4. CASE s = "set_speed"
  BY <1>4 DEF Callable, PlanOf, Fits, EndsIn, OnlyBefore, StepsIn, StepsOf, Steps, Awaiting
<1>5. CASE s = "soft_estop"
  BY <1>5 DEF PlanOf, Fits, EndsIn, OnlyBefore, StepsIn, StepsOf, Steps, Awaiting
<1>6. CASE s = "release_control"
  BY <1>6 DEF PlanOf, Fits, EndsIn, OnlyBefore, StepsIn, StepsOf, Steps, Awaiting
<1>7. QED
  BY <1>1, <1>2, <1>3, <1>4, <1>5, <1>6 DEF Callable, Services

-----------------------------------------------------------------------------
(* What a step makes of the plan                                           *)

(* The service is over, or its next step is due.                           *)
Over == plan' = <<>> /\ pc' = "idle"
Due == plan' = Tail(plan) /\ plan' # <<>> /\ pc' = "step" /\ success' = FALSE

(* Going on to the next step, if there is one, keeps the plan fitting.     *)
LEMMA Advance ==
    ASSUME TypeOK, PlanPart, ~Idle,
           NEW c \in Callees, c.service = call.service, c.goal = call.goal,
           Go(c, Tail(plan))
    PROVE  /\ PlanPart'
           /\ plan' \in Seq(Steps) /\ call' \in Callees /\ success' \in BOOLEAN
           /\ call'.service = call.service /\ call'.goal = call.goal /\ call'.blind = c.blind
           /\ \/ Over /\ success' = TRUE
              \/ Due /\ call' = c /\ Ahead' \subseteq Ahead /\ Ahead \subseteq Ahead' \union {Head(plan)}
           /\ \A s : EndsIn(plan, s) => (Over <=> Head(plan) = s)
<1>1. plan # <<>> /\ plan \in Seq(Steps)
  BY DEF TypeOK, PlanPart
<1>2. "lying" \in Postures
  BY DEF Postures
<1>3. CASE Tail(plan) = <<>>
  <2>1. plan' = <<>> /\ pc' = "idle" /\ success' = TRUE /\ call' = [c EXCEPT !.current = "lying"]
    BY <1>3 DEF Go, Finish
  <2>2. call' \in Callees /\ call'.service = call.service /\ call'.goal = call.goal /\ call'.blind = c.blind
    BY <2>1, <1>2 DEF Callees
  <2>3. Fits(plan', call')
    BY <2>1, <2>2, EmptyFits DEF PlanPart
  <2>4. \A s : EndsIn(plan, s) => Head(plan) = s
    BY <1>1, <1>3, TailEnd
  <2>5. QED
    BY <2>1, <2>2, <2>3, <2>4 DEF PlanPart, Idle, Over
<1>4. CASE Tail(plan) # <<>>
  <2>1. plan' = Tail(plan) /\ pc' = "step" /\ success' = FALSE /\ call' = c
    BY <1>4 DEF Go
  <2>2. Fits(plan', call') /\ plan' \in Seq(Steps)
    BY <1>1, <2>1, TailFits, TailSteps DEF PlanPart
  <2>3. Ahead' \subseteq Ahead /\ Ahead \subseteq Ahead' \union {Head(plan)}
    BY <1>1, <2>1, TailSteps DEF Ahead
  <2>4. \A s : EndsIn(plan, s) => Head(plan) # s
    BY <1>1, <1>4, TailEnd
  <2>5. QED
    BY <1>4, <2>1, <2>2, <2>3, <2>4 DEF PlanPart, Idle, Over, Due
<1>5. QED
  BY <1>3, <1>4

(* A failure forgets the call.                                             *)
LEMMA Fail ==
    ASSUME NEW c, Finish(c, FALSE)
    PROVE  /\ PlanPart' /\ Over /\ success' = FALSE /\ call' = NoCall
           /\ plan' \in Seq(Steps) /\ call' \in Callees
<1>1. plan' = <<>> /\ pc' = "idle" /\ success' = FALSE /\ call' = NoCall
  BY DEF Finish
<1>2. call' \in Callees
  BY <1>1 DEF NoCall, Callees, Services, Gaits, Postures
<1>3. Fits(plan', call')
  BY <1>1 DEF NoCall, Fits, StepsIn, EndsIn, StepsOf
<1>4. QED
  BY <1>1, <1>2, <1>3 DEF PlanPart, Idle, Over

(* A service is answered at once, or its plan begins. *)
Called(s, g) == [service |-> s, goal |-> g, current |-> status,
                 blind |-> status # robot.posture \/ owned # (robot.source = "sdk")]

Done(s) ==
    \/ s = "lie" /\ status = "lying"
    \/ s = "release_control" /\ ~owned

(* A call is refused, answered at once, or begins its plan.                *)
LEMMA Calling ==
    ASSUME TypeOK, PlanPart, NEW s, NEW g, Callable(s, g), Call(s, g)
    PROVE  /\ PlanPart' /\ Idle
           /\ plan' \in Seq(Steps) /\ call' \in Callees /\ success' \in BOOLEAN
           /\ \/ Over /\ success' = FALSE /\ call' = NoCall
              \/ /\ Over /\ success' = TRUE /\ call' = [Called(s, g) EXCEPT !.current = "lying"]
                 /\ Done(s)
              \/ /\ plan' = PlanOf(s, g) /\ pc' = "step" /\ success' = FALSE /\ call' = Called(s, g)
                 /\ s = "lie" => status # "lying"
<1> DEFINE c == Called(s, g)
<1>1. Idle /\ status \in Postures /\ "lying" \in Postures
  BY DEF Call, TypeOK, Postures
<1>2. c \in Callees /\ c.service = s /\ c.goal = g
  BY <1>1 DEF Called, Callees, Callable
<1>3. PlanOf(s, g) \in Seq(Steps) /\ PlanOf(s, g) # <<>> /\ Fits(PlanOf(s, g), c)
  BY <1>2, PlanFits
<1>4. \/ Finish(c, FALSE)
      \/ Finish(c, TRUE) /\ Done(s)
      \/ Go(c, PlanOf(s, g)) /\ (s = "lie" => status # "lying")
  BY DEF Call, Called, Done
<1>5. CASE Finish(c, FALSE)
  BY <1>1, <1>5, Fail
<1>6. CASE Finish(c, TRUE) /\ Done(s)
  <2>1. plan' = <<>> /\ pc' = "idle" /\ success' = TRUE /\ call' = [c EXCEPT !.current = "lying"]
    BY <1>6 DEF Finish
  <2>2. call' \in Callees /\ call'.service = s /\ call'.goal = g
    BY <1>1, <1>2, <2>1 DEF Callees
  <2>3. Fits(plan', call')
    BY <1>6, <2>1, <2>2 DEF Done, Fits, StepsIn, EndsIn, OnlyBefore, StepsOf
  <2>4. QED
    BY <1>1, <1>6, <2>1, <2>2, <2>3 DEF PlanPart, Idle, Over
<1>7. CASE Go(c, PlanOf(s, g)) /\ (s = "lie" => status # "lying")
  <2>1. plan' = PlanOf(s, g) /\ pc' = "step" /\ success' = FALSE /\ call' = c
    BY <1>3, <1>7 DEF Go
  <2>2. QED
    BY <1>1, <1>2, <1>3, <1>7, <2>1 DEF PlanPart, Idle
<1>8. QED
  BY <1>4, <1>5, <1>6, <1>7

(* Every service Next calls is one of those.                               *)
LEMMA ServiceCalled ==
    ASSUME Service
    PROVE  \E s, g : Callable(s, g) /\ Call(s, g)
  BY DEF Service, Callable, Services, Gaits

-----------------------------------------------------------------------------
(* The robot                                                               *)

(* A request leaves the robot in a posture.                                *)
LEMMA Postural ==
    ASSUME robot \in Robots, NEW s
    PROVE  Becomes(s) \subseteq Postures
  BY DEF Robots, Becomes, Rises, General, Postures

(* The steps that wait are those with reports to wait for.                 *)
LEMMA Awaits ==
    ASSUME NEW s \in Steps
    PROVE  Targets(s) # {} <=> s \in Awaiting
  BY DEF Targets, Awaiting, Steps, General

(* A level is set to one that a service asks for.                          *)
LEMMA LevelGoal ==
    ASSUME TypeOK, PlanPart, ~Idle, Head(plan) = "level"
    PROVE  /\ call.goal \in {"walk", "mountain", "high"}
           /\ call.service \in {"stand", "set_gait", "set_speed"}
<1>1. Head(plan) \in Ahead /\ plan # <<>>
  BY TailSteps DEF TypeOK, PlanPart, Ahead
<1>2. "level" \in StepsOf(call.service) /\ call.service \in Services
  BY <1>1 DEF PlanPart, Fits, Ahead, TypeOK, Callees
<1>3. call.service \in {"stand", "set_gait", "set_speed"}
  BY <1>2 DEF StepsOf, Services
<1>4. QED
  BY <1>1, <1>3 DEF PlanPart, Fits, Ahead, Gaits

(* What a request the robot carries out does to it, field by field.        *)
LEMMA Obeying ==
    ASSUME TypeOK, PlanPart, ~Idle, Obey(Head(plan))
    PROVE  /\ robot' \in Robots
           /\ robot'.posture \in Becomes(Head(plan))
           /\ robot'.driving = (robot.driving /\ Head(plan) \notin {"stop", "halt", "settle", "rest", "estop"})
           /\ robot'.level = IF Head(plan) = "level" THEN LevelOf[call.goal] ELSE robot.level
           /\ robot'.source = CASE Head(plan) = "take" -> "sdk" [] Head(plan) = "release" -> "none"
                                [] OTHER -> robot.source
<1>1. robot \in Robots /\ Becomes(Head(plan)) \subseteq Postures
  BY Postural DEF TypeOK
<1>2. Head(plan) = "level" => LevelOf[call.goal] \in 1..3
  BY LevelGoal DEF LevelOf
<1>3. PICK p \in Becomes(Head(plan)) :
          robot' = [robot EXCEPT
            !.posture = p,
            !.driving = @ /\ Head(plan) \notin {"stop", "halt", "settle", "rest", "estop"},
            !.level = IF Head(plan) = "level" THEN LevelOf[call.goal] ELSE @,
            !.source = CASE Head(plan) = "take" -> "sdk" [] Head(plan) = "release" -> "none" [] OTHER -> @]
  BY DEF Obey
<1>4. QED
  BY <1>1, <1>2, <1>3 DEF Robots

(* What a velocity does to the robot.                                      *)
LEMMA Driving ==
    ASSUME TypeOK, NEW moving, robot' \in Driven(moving)
    PROVE  /\ robot' \in Robots
           /\ robot'.level = robot.level /\ robot'.source = robot.source
           /\ \/ robot'.posture = robot.posture
              \/ robot.posture \in General /\ robot'.posture \in General
           /\ robot'.driving => \/ robot'.posture \in {"walk", "stair"}
                                \/ robot' = robot
<1>1. robot \in Robots
  BY DEF TypeOK
<1>2. CASE robot' = robot
  BY <1>1, <1>2
<1>3. ASSUME NEW p \in Becomes("stop"), robot' = [robot EXCEPT !.driving = FALSE, !.posture = p]
      PROVE  /\ robot' \in Robots /\ ~robot'.driving
             /\ robot'.level = robot.level /\ robot'.source = robot.source
             /\ \/ robot'.posture = robot.posture
                \/ robot.posture \in General /\ robot'.posture \in General
  BY <1>1, <1>3 DEF Robots, Becomes, General, Postures
<1>4. CASE /\ robot.posture \in General \union {"stair"}
           /\ robot' = [robot EXCEPT !.driving = TRUE, !.posture = IF @ = "stair" THEN @ ELSE "walk"]
  BY <1>1, <1>4 DEF Robots, General, Postures
<1>5. QED
  BY <1>2, <1>3, <1>4 DEF Driven

-----------------------------------------------------------------------------
(* What a request does: it is acknowledged or fails.                       *)

Acked ==
    /\ pc = "step" /\ Head(plan) \in Ahead /\ Accepts(Head(plan)) /\ Obey(Head(plan))
    /\ level' = IF Head(plan) = "level" THEN LevelOf[call.goal] ELSE level
    /\ known' = known \union ({Head(plan)} \intersect {"level"})
    /\ \/ /\ Head(plan) \in {"take", "release"} /\ pc' = "store" /\ success' = TRUE
          /\ UNCHANGED <<plan, call>>
       \/ Head(plan) \in Awaiting /\ pc' = "wait" /\ UNCHANGED <<plan, call, success>>
       \/ Head(plan) \in {"stop", "halt", "level", "estop", "rest"} /\ Go(call, Tail(plan))
    /\ UNCHANGED <<disturbed, events>>

Failed ==
    /\ pc = "step" /\ known' = {} /\ level' = level
    /\ \/ robot' = robot
       \/ Accepts(Head(plan)) /\ Obey(Head(plan))
    /\ \/ disturbed' = TRUE /\ Event
       \/ ~Accepts(Head(plan)) /\ robot' = robot /\ UNCHANGED <<disturbed, events>>
    /\ \/ /\ Head(plan) = "release" /\ pc' = "store" /\ success' = FALSE
          /\ UNCHANGED <<plan, call>>
       \/ Finish(call, FALSE)

(* A request is acknowledged or fails.                                     *)
LEMMA Requesting ==
    ASSUME TypeOK, PlanPart, Request
    PROVE  /\ Acked \/ Failed
           /\ Needed(Head(plan))
           /\ UNCHANGED <<owned, nodeOwned, status, gait, wish, sdk, notices, linked>>
<1>1. Head(plan) \in Ahead /\ Head(plan) \in Steps /\ Head(plan) # "commit"
  BY TailSteps DEF TypeOK, PlanPart, Request, Idle, Ahead, StepsIn
<1>2. Targets(Head(plan)) # {} <=> Head(plan) \in Awaiting
  BY <1>1, Awaits
<1>3. CASE Acknowledged(Head(plan))
  BY <1>1, <1>2, <1>3 DEF Acked, Acknowledged, Request, ownership, callbacks, bounds, Steps
<1>4. CASE NotAcknowledged(Head(plan))
  BY <1>1, <1>4 DEF Failed, NotAcknowledged, Disturb, Request, ownership, callbacks, bounds
<1>5. QED
  BY <1>3, <1>4 DEF Request, ownership, callbacks

-----------------------------------------------------------------------------
(* Types and plans                                                         *)

(* Events are counted within their bound.                                  *)
LEMMA Counted ==
    ASSUME TypeOK, Event
    PROVE  events' \in 0..MaxEvents
  BY BoundAssumption DEF TypeOK, Event

(* Every step keeps the types and the plan fitting.                        *)
LEMMA TypeStep ==
    ASSUME TypeOK, PlanPart, [Next]_vars
    PROVE  TypeOK' /\ PlanPart'
<1> USE DEF TypeOK, ownership, contract, execution, callbacks, bounds
<1>1. CASE Service
  <2>1. PICK s, g : Callable(s, g) /\ Call(s, g)
    BY <1>1, ServiceCalled
  <2>2. PlanPart' /\ plan' \in Seq(Steps) /\ call' \in Callees /\ success' \in BOOLEAN
        /\ pc' \in {"idle", "step"}
    BY <2>1, Calling DEF Over
  <2>3. QED
    BY <2>1, <2>2, Counted DEF Call
<1>2. CASE CmdVel
  <2>1. CASE nodeOwned
    BY <1>2, <2>1, Counted DEF CmdVel, PlanPart, Idle
  <2>2. CASE ~nodeOwned
    <3>1. plan' = <<"take">> /\ pc' = "step" /\ success' = FALSE /\ call' = NoCall
      BY <1>2, <2>2 DEF CmdVel, Go
    <3>2. plan' \in Seq(Steps) /\ call' \in Callees
      BY <3>1 DEF Steps, NoCall, Callees, Services, Gaits, Postures
    <3>3. Fits(plan', call') /\ plan' # <<>>
      BY <3>1 DEF NoCall, Fits, StepsIn, EndsIn, StepsOf
    <3>4. QED
      BY <1>2, <3>1, <3>2, <3>3, Counted DEF CmdVel, PlanPart, Idle
  <2>3. QED
    BY <2>1, <2>2
<1>3. CASE Expire
  <2>1. /\ wish' \in BOOLEAN
        /\ UNCHANGED <<ownership, status, contract, execution, callbacks, robot, linked, known, bounds>>
    BY <1>3 DEF Expire
  <2>2. TypeOK'
    BY <2>1
  <2>3. PlanPart'
    BY <2>1 DEF PlanPart, Idle
  <2>4. QED
    BY <2>2, <2>3
<1>4. CASE Tick
  <2>1. robot' \in Robots
    BY <1>4, Driving DEF Tick
  <2>2. UNCHANGED <<ownership, status, contract, wish, execution, callbacks, linked, known, bounds>>
    BY <1>4 DEF Tick
  <2>3. TypeOK'
    BY <2>1, <2>2
  <2>4. PlanPart'
    BY <2>2 DEF PlanPart, Idle
  <2>5. QED
    BY <2>3, <2>4
<1>5. CASE Skip
  <2>1. /\ ~Idle /\ Go(call, Tail(plan))
        /\ UNCHANGED <<ownership, status, contract, wish, callbacks, robot, linked, known, bounds>>
    BY <1>5 DEF Skip, Idle
  <2>2. /\ PlanPart' /\ plan' \in Seq(Steps) /\ call' \in Callees /\ success' \in BOOLEAN
        /\ pc' \in {"idle", "step"}
    BY <2>1, Advance DEF Over, Due
  <2>3. QED
    BY <2>1, <2>2
<1>6. CASE Request
  <2>1. ~Idle /\ (Acked \/ Failed)
    BY <1>6, Requesting DEF Request, Idle
  <2>2. CASE Acked
    <3>1. robot' \in Robots /\ level' \in 1..3
      BY <2>1, <2>2, Obeying, LevelGoal DEF Acked, LevelOf
    <3>2. CASE Go(call, Tail(plan))
      <4>1. /\ PlanPart' /\ plan' \in Seq(Steps) /\ call' \in Callees /\ success' \in BOOLEAN
            /\ pc' \in {"idle", "step"}
        BY <2>1, <3>2, Advance DEF Over, Due
      <4>2. QED
        BY <1>6, <2>2, <3>1, <4>1, Requesting DEF Acked
    <3>3. CASE UNCHANGED <<plan, call>> /\ pc' = "store" /\ success' = TRUE /\ Head(plan) \in {"take", "release"}
      BY <1>6, <2>1, <2>2, <3>1, <3>3, Requesting DEF Acked, PlanPart, Idle
    <3>4. CASE UNCHANGED <<plan, call, success>> /\ pc' = "wait" /\ Head(plan) \in Awaiting
      BY <1>6, <2>1, <2>2, <3>1, <3>4, Requesting DEF Acked, PlanPart, Idle
    <3>5. QED
      BY <2>2, <3>2, <3>3, <3>4 DEF Acked
  <2>3. CASE Failed
    <3>1. robot' \in Robots
      BY <2>1, <2>3, Obeying DEF Failed
    <3>2. CASE Finish(call, FALSE)
      BY <1>6, <2>1, <2>3, <3>1, <3>2, Requesting, Fail, Counted DEF Failed, Over
    <3>3. CASE UNCHANGED <<plan, call>> /\ pc' = "store" /\ success' = FALSE /\ Head(plan) = "release"
      BY <1>6, <2>1, <2>3, <3>1, <3>3, Requesting, Counted DEF Failed, PlanPart, Idle
    <3>4. QED
      BY <2>3, <3>2, <3>3 DEF Failed
  <2>4. QED
    BY <2>1, <2>2, <2>3
<1>7. CASE Awaited
  <2>1. ~Idle
    BY <1>7 DEF Awaited, Idle
  <2>2. CASE Finish(call, TRUE)
    BY <1>7, <2>1, <2>2, EmptyFits DEF Awaited, Finish, PlanPart, Idle, Callees, Postures
  <2>3. CASE Go([call EXCEPT !.current = status], Tail(plan))
    <3>1. [call EXCEPT !.current = status] \in Callees
      BY DEF Callees
    <3>2. QED
      <4>1. /\ PlanPart' /\ plan' \in Seq(Steps) /\ call' \in Callees /\ success' \in BOOLEAN
            /\ pc' \in {"idle", "step"}
        <5>1. LET c == [call EXCEPT !.current = status]
              IN  c.service = call.service /\ c.goal = call.goal
          BY DEF Callees
        <5>2. QED
          BY <2>1, <2>3, <3>1, <5>1, Advance DEF Over, Due
      <4>2. QED
        BY <1>7, <4>1 DEF Awaited
  <2>4. QED
    BY <1>7, <2>2, <2>3 DEF Awaited
<1>8. CASE TimeOut
  <2>1. /\ Finish(call, FALSE) /\ known' = {}
        /\ UNCHANGED <<ownership, status, contract, wish, callbacks, robot, linked>>
    BY <1>8 DEF TimeOut
  <2>2. /\ PlanPart' /\ plan' \in Seq(Steps) /\ call' \in Callees /\ success' \in BOOLEAN
        /\ pc' \in {"idle", "step"}
    BY <2>1, Fail DEF Over
  <2>3. disturbed' \in BOOLEAN /\ events' \in 0..MaxEvents
    BY <1>8, Counted DEF TimeOut, Disturb
  <2>4. QED
    BY <2>1, <2>2, <2>3
<1>9. CASE Commit
  <2>1. ~Idle /\ call.goal \in Gaits
    <3>1. ~Idle /\ Head(plan) \in Ahead
      BY <1>9, TailSteps DEF Commit, Idle, PlanPart, Ahead
    <3>2. "commit" \in StepsOf(call.service) /\ call.service \in Services
      BY <1>9, <3>1 DEF PlanPart, Fits, Ahead, Callees, Commit
    <3>3. call.service \in {"stand", "set_gait"}
      BY <3>2 DEF StepsOf, Services
    <3>4. QED
      BY <3>1, <3>3 DEF PlanPart, Fits, Gaits
  <2>2. known' \subseteq {"gait", "level"} /\ level' \in 1..3 /\ gait' \in Gaits
    BY <1>9, <2>1 DEF Commit
  <2>3. /\ PlanPart' /\ plan' \in Seq(Steps) /\ call' \in Callees /\ success' \in BOOLEAN
        /\ pc' \in {"idle", "step"}
    BY <1>9, <2>1, Advance DEF Commit, Over, Due
  <2>4. QED
    BY <1>9, <2>2, <2>3 DEF Commit
<1>10. CASE Store
  BY <1>10 DEF Store, PlanPart, Idle
<1>11. CASE Publish
  <2>1. CASE Head(plan) = "take"
    BY <1>11, <2>1, Advance DEF Publish, Over, Due, Idle
  <2>2. CASE Head(plan) # "take"
    <3>1. CASE success
      BY <1>11, <2>2, <3>1, EmptyFits DEF Publish, Finish, PlanPart, Idle, Callees, Postures
    <3>2. CASE ~success
      BY <1>11, <2>2, <3>2, Fail DEF Publish, Over
    <3>3. QED
      BY <3>1, <3>2
  <2>3. QED
    BY <2>1, <2>2
<1>12. CASE Sdk
  <2>1. /\ owned' \in BOOLEAN /\ nodeOwned' \in BOOLEAN /\ status' \in Postures
        /\ sdk' \in [pc : {"idle", "store", "publish"}, owns : BOOLEAN] /\ notices' \in BOOLEAN
    <3>1. CASE Callback
      <4>1. CASE Receive
        <5>1. (robot.source = "sdk") \in BOOLEAN /\ robot.posture \in Postures
          BY DEF Robots
        <5>2. QED
          BY <3>1, <4>1, <5>1 DEF Callback, Receive
      <4>2. CASE Speed
        BY <3>1, <4>2 DEF Callback, Speed
      <4>3. CASE Lost
        BY <3>1, <4>3 DEF Callback, Lost
      <4>4. QED
        BY <3>1, <4>1, <4>2, <4>3 DEF Callback
    <3>2. CASE SdkStore
      BY <3>2 DEF SdkStore
    <3>3. CASE SdkPublish
      BY <3>3 DEF SdkPublish, Resting
    <3>4. QED
      BY <1>12, <3>1, <3>2, <3>3 DEF Sdk
  <2>2. QED
    BY <1>12, <2>1 DEF Sdk, PlanPart, Idle
<1>13. CASE Environment
  <2>1. robot' \in Robots /\ notices' \in BOOLEAN /\ linked' \in BOOLEAN /\ disturbed' \in BOOLEAN
        /\ known' \subseteq {"gait", "level"}
    <3>1. CASE TakeOver
      BY <3>1 DEF TakeOver, Disturb, Robots, Postures
    <3>2. CASE LetGo
      BY <3>2 DEF LetGo, Robots
    <3>3. CASE LinkDown
      BY <3>3 DEF LinkDown, Disturb, Robots
    <3>4. CASE LinkUp
      BY <3>4 DEF LinkUp
    <3>5. QED
      BY <1>13, <3>1, <3>2, <3>3, <3>4 DEF Environment
  <2>2. events' \in 0..MaxEvents
    BY <1>13, Counted DEF Environment, TakeOver, LetGo, LinkDown, LinkUp, Disturb
  <2>3. QED
    BY <1>13, <2>1, <2>2 DEF Environment, PlanPart, Idle
<1>14. CASE UNCHANGED vars
  BY <1>14 DEF vars, PlanPart, Idle
<1>15. QED
  BY <1>1, <1>2, <1>3, <1>4, <1>5, <1>6, <1>7, <1>8, <1>9, <1>10, <1>11, <1>12, <1>13, <1>14
     DEF Next, Executor

-----------------------------------------------------------------------------
(* How the executor moves on: it stays at its step, comes to the next one, *)
(* or is done.                                                             *)

Stays == UNCHANGED <<plan, call>> /\ pc' # "idle" /\ ~Idle
SameCall ==
    call'.service = call.service /\ call'.goal = call.goal /\ call'.blind = call.blind

Succeeds == Over /\ success' = TRUE /\ SameCall /\ \A s : EndsIn(plan, s) => Head(plan) = s
Fails == Over /\ success' = FALSE /\ call' = NoCall
Moves == /\ Due /\ SameCall
         /\ Ahead' \subseteq Ahead /\ Ahead \subseteq Ahead' \union {Head(plan)}
         /\ \A s : EndsIn(plan, s) => Head(plan) # s

(* An acknowledged request waits, stores, or moves on.                     *)
LEMMA AckedMoves ==
    ASSUME TypeOK, PlanPart, Acked
    PROVE  \/ Stays /\ pc' = "store" /\ success' = TRUE /\ Head(plan) \in {"take", "release"}
           \/ Stays /\ pc' = "wait" /\ success' = success /\ Head(plan) \in Awaiting
           \/ /\ Head(plan) \in {"stop", "halt", "level", "estop", "rest"}
              /\ Succeeds \/ (Moves /\ call' = call)
<1>1. CASE Go(call, Tail(plan)) /\ Head(plan) \in {"stop", "halt", "level", "estop", "rest"}
  BY <1>1, Advance DEF TypeOK, Acked, Idle, Succeeds, Moves, SameCall, Over, Due
<1>2. QED
  BY <1>1 DEF Acked, Stays, Idle

(* A failing one ends the service; release_control still stores.           *)
LEMMA FailedMoves ==
    ASSUME TypeOK, PlanPart, Failed
    PROVE  \/ Stays /\ pc' = "store" /\ success' = FALSE /\ Head(plan) = "release"
           \/ Fails
  BY Fail DEF Failed, Stays, Idle, Fails

(* A step not needed moves on.                                             *)
LEMMA SkipMoves ==
    ASSUME TypeOK, PlanPart, Skip
    PROVE  ~Idle /\ (Succeeds \/ (Moves /\ call' = call))
  BY Advance DEF TypeOK, Skip, Idle, Succeeds, Moves, SameCall, Over, Due

(* A report moves on, and tells lie_down early that the robot lies.        *)
LEMMA AwaitedMoves ==
    ASSUME TypeOK, PlanPart, Awaited
    PROVE  /\ ~Idle
           /\ \/ /\ Over /\ success' = TRUE /\ SameCall
                 /\ Head(plan) = "unlock" /\ call.service = "lie" /\ status = "lying"
              \/ Succeeds
              \/ Moves /\ call' = [call EXCEPT !.current = status]
<1>1. ~Idle /\ call \in Callees /\ status \in Postures
  BY DEF Awaited, Idle, TypeOK
<1>2. CASE Head(plan) = "unlock" /\ call.service = "lie" /\ status = "lying" /\ Finish(call, TRUE)
  BY <1>1, <1>2 DEF Finish, Over, SameCall, Callees
<1>3. CASE Go([call EXCEPT !.current = status], Tail(plan))
  <2>1. [call EXCEPT !.current = status] \in Callees
    BY <1>1 DEF Callees
  <2>2. QED
    BY <1>1, <1>3, <2>1, Advance DEF Callees, Succeeds, Moves, SameCall, Over, Due
<1>4. QED
  BY <1>1, <1>2, <1>3 DEF Awaited

(* Storing the gait is the last step of stand and set_gait.                *)
LEMMA CommitMoves ==
    ASSUME TypeOK, PlanPart, Commit
    PROVE  /\ ~Idle /\ Succeeds
           /\ Ahead = {"commit"} /\ call.service \in {"stand", "set_gait"}
<1>1. ~Idle /\ plan # <<>> /\ Head(plan) \in Ahead /\ call \in Callees
  BY TailSteps DEF TypeOK, Commit, Idle, PlanPart, Ahead
<1>2. "commit" \in StepsOf(call.service) /\ call.service \in Services
  BY <1>1 DEF PlanPart, Fits, Ahead, Callees, Commit
<1>3. call.service \in {"stand", "set_gait"}
  BY <1>2 DEF StepsOf, Services
<1>4. EndsIn(plan, "commit")
  BY <1>3 DEF PlanPart, Fits
<1>5. Ahead = {"commit"}
  BY <1>1, <1>4, TailEnd DEF Commit, TypeOK, Ahead
<1>6. Head(plan) = "commit" /\ Go(call, Tail(plan))
  BY DEF Commit
<1>7. /\ Over <=> Head(plan) = "commit"
      /\ (Over /\ success' = TRUE) \/ Due
      /\ SameCall /\ \A s : EndsIn(plan, s) => (Over <=> Head(plan) = s)
  BY <1>1, <1>4, <1>6, Advance DEF SameCall
<1>8. Over /\ success' = TRUE
  BY <1>6, <1>7 DEF Over, Due
<1>9. QED
  BY <1>1, <1>3, <1>5, <1>7, <1>8 DEF Succeeds

(* Control taken moves on; control released ends the service.              *)
LEMMA PublishMoves ==
    ASSUME TypeOK, PlanPart, Publish
    PROVE  /\ ~Idle
           /\ \/ Head(plan) = "take" /\ (Succeeds \/ (Moves /\ call' = call))
              \/ Head(plan) = "release" /\ (Fails \/ (Over /\ success /\ success' = TRUE /\ SameCall))
<1>1. ~Idle /\ call \in Callees /\ success \in BOOLEAN /\ Head(plan) \in {"take", "release"}
  BY DEF TypeOK, Publish, Idle, PlanPart
<1>2. CASE Head(plan) = "take"
  BY <1>1, <1>2, Advance DEF Publish, Succeeds, Moves, SameCall, Over, Due
<1>3. CASE Head(plan) = "release"
  <2>1. CASE success
    BY <1>1, <1>3, <2>1 DEF Publish, Finish, Over, SameCall, Callees
  <2>2. CASE ~success
    BY <1>1, <1>3, <2>2, Fail DEF Publish, Fails
  <2>3. QED
    BY <1>1, <2>1, <2>2
<1>4. QED
  BY <1>1, <1>2, <1>3

(* What is in a new plan.                                                  *)
LEMMA PlanBegins ==
    ASSUME NEW s, NEW g, Callable(s, g)
    PROVE  /\ s = "stand" => {"stop", "general", "level"} \subseteq StepsIn(PlanOf(s, g))
           /\ s = "lie" => "settle" \in StepsIn(PlanOf(s, g))
           /\ s = "set_gait" =>
                 /\ "halt" \in StepsIn(PlanOf(s, g)) /\ Head(PlanOf(s, g)) = "take"
                 /\ "stair" \in StepsIn(PlanOf(s, g)) \/ "general" \in StepsIn(PlanOf(s, g))
                 /\ g = "stair" => "stair" \in StepsIn(PlanOf(s, g))
                 /\ g # "stair" => "general" \in StepsIn(PlanOf(s, g))
                 /\ g \in {"walk", "mountain"} => "level" \in StepsIn(PlanOf(s, g))
           /\ s = "release_control" => "rest" \in StepsIn(PlanOf(s, g))
<1>1. CASE s = "stand"
  BY <1>1 DEF PlanOf, Stand, StepsIn
<1>2. CASE s = "lie"
  BY <1>2 DEF PlanOf, Lie, StepsIn
<1>3. CASE s = "set_gait"
  <2>1. CASE g = "stair"
    BY <1>3, <2>1 DEF PlanOf, SetGait, StepsIn
  <2>2. CASE g = "l_walk"
    BY <1>3, <2>2 DEF PlanOf, SetGait, StepsIn
  <2>3. CASE g \notin {"stair", "l_walk"}
    <3>1. PlanOf(s, g) = <<"take", "halt", "general", "level", "commit">>
      BY <1>3, <2>3 DEF PlanOf, SetGait
    <3>2. QED
      BY <1>3, <2>3, <3>1 DEF StepsIn
  <2>4. QED
    BY <2>1, <2>2, <2>3
<1>4. CASE s = "release_control"
  BY <1>4 DEF PlanOf, StepsIn
<1>5. QED
  BY <1>1, <1>2, <1>3, <1>4


-----------------------------------------------------------------------------
(* The level remembered                                                    *)

(* Every step keeps the levels equal.                                      *)
LEMMA LevelStep ==
    ASSUME TypeOK, PlanPart, LevelPart, [Next]_vars
    PROVE  LevelPart'
<1> USE DEF contract, execution
<1>1. CASE Service
  <2>1. PICK s, g : Callable(s, g) /\ Call(s, g)
    BY <1>1, ServiceCalled
  <2>2. "level" \in known' /\ Ordinary(gait') => robot'.level = level'
    BY <2>1 DEF Call, LevelPart, Ordinary
  <2>3. (~Running("stand")' /\ ~Running("set_gait")') \/ ~Ordinary(call'.goal) \/ "level" \in Ahead'
    <3>1. CASE Over
      BY <3>1 DEF Over, Running, Idle
    <3>2. CASE plan' = PlanOf(s, g) /\ call' = Called(s, g)
      <4>1. call'.service = s /\ call'.goal = g /\ Ahead' = StepsIn(PlanOf(s, g))
        BY <3>2 DEF Called, Ahead
      <4>2. QED
        BY <2>1, <4>1, PlanBegins DEF Running, Ordinary
    <3>3. QED
      BY <2>1, <3>1, <3>2, Calling
  <2>4. QED
    BY <2>2, <2>3 DEF LevelPart
<1>2. CASE CmdVel
  <2>1. CASE nodeOwned
    BY <1>2, <2>1 DEF CmdVel, LevelPart, Running, Ordinary, Idle, Ahead
  <2>2. CASE ~nodeOwned
    BY <1>2, <2>2 DEF CmdVel, Go, NoCall, LevelPart, Running, Ordinary, Idle
  <2>3. QED
    BY <2>1, <2>2
<1>3. CASE Expire
  BY <1>3 DEF Expire, LevelPart, Running, Ordinary, Idle, Ahead
<1>4. CASE Tick
  BY <1>4, Driving DEF Tick, LevelPart, Running, Ordinary, Idle, Ahead
<1>5. CASE Skip
  BY <1>5, SkipMoves
     DEF Skip, Needed, Succeeds, Moves, Over, Due, LevelPart, Running, Ordinary, Idle
<1>6. CASE Request
  <2>1. ~Idle /\ (Acked \/ Failed) /\ gait' = gait
    BY <1>6, Requesting DEF Request, Idle
  <2>2. CASE Failed
    BY <2>2 DEF Failed, LevelPart
  <2>3. CASE Acked
    <3>1. CASE Head(plan) = "level"
      BY <2>1, <2>3, <3>1, Obeying DEF Acked, LevelPart
    <3>2. CASE Head(plan) # "level"
      <4>1. robot'.level = robot.level /\ level' = level /\ ("level" \in known' => "level" \in known)
        BY <2>1, <2>3, <3>2, Obeying DEF Acked
      <4>2. \/ Idle'
            \/ /\ call'.service = call.service /\ call'.goal = call.goal
               /\ "level" \in Ahead => "level" \in Ahead'
        BY <2>3, <3>2, AckedMoves DEF Stays, Succeeds, Moves, SameCall, Over, Idle, Ahead
      <4>3. QED
        BY <2>1, <4>1, <4>2 DEF LevelPart, Running, Ordinary
    <3>3. QED
      BY <3>1, <3>2
  <2>4. QED
    BY <2>1, <2>2, <2>3
<1>7. CASE Awaited
  <2>1. Head(plan) # "level"
    BY <1>7 DEF Awaited, PlanPart, Awaiting
  <2>2. QED
    BY <1>7, <2>1, AwaitedMoves
       DEF Awaited, Succeeds, Moves, SameCall, Over, LevelPart, Running, Ordinary, Idle
<1>8. CASE TimeOut
  BY <1>8 DEF TimeOut, LevelPart
<1>9. CASE Commit
  BY <1>9, CommitMoves DEF Commit, Succeeds, Over, LevelPart, Running, Ordinary, Idle
<1>10. CASE Store
  BY <1>10 DEF Store, LevelPart, Running, Ordinary, Idle, Ahead
<1>11. CASE Publish
  BY <1>11, PublishMoves
     DEF Publish, Succeeds, Fails, Moves, SameCall, Over, LevelPart, Running, Ordinary, Idle
<1>12. CASE Sdk
  BY <1>12 DEF Sdk, LevelPart, Running, Ordinary, Idle, Ahead
<1>13. CASE Environment
  <2>1. known' = {} \/ (robot'.level = robot.level /\ known' = known)
    BY <1>13 DEF TypeOK, Robots, Environment, TakeOver, LetGo, LinkDown, LinkUp
  <2>2. QED
    BY <1>13, <2>1 DEF Environment, LevelPart, Running, Ordinary, Idle, Ahead
<1>14. CASE UNCHANGED vars
  BY <1>14 DEF vars, LevelPart, Running, Ordinary, Idle, Ahead
<1>15. QED
  BY <1>1, <1>2, <1>3, <1>4, <1>5, <1>6, <1>7, <1>8, <1>9, <1>10, <1>11, <1>12, <1>13, <1>14
     DEF Next, Executor

-----------------------------------------------------------------------------
(* What the step that is due says of the service, and the end of a plan    *)

(* The step that is due belongs to the service.                            *)
LEMMA HeadOf ==
    ASSUME TypeOK, PlanPart, ~Idle
    PROVE  /\ plan # <<>> /\ plan \in Seq(Steps)
           /\ Head(plan) \in Ahead /\ Head(plan) \in StepsOf(call.service)
           /\ call.service \in Services
<1>1. plan # <<>> /\ plan \in Seq(Steps) /\ call.service \in Services
  BY DEF TypeOK, PlanPart, Callees
<1>2. Head(plan) \in Ahead
  BY <1>1, TailSteps DEF Ahead
<1>3. QED
  BY <1>1, <1>2 DEF PlanPart, Fits, Ahead

(* A service succeeds at its last step only.                               *)
LEMMA EndedBy ==
    ASSUME PlanPart, Succeeds
    PROVE  /\ call.service \in {"stand", "set_gait"} => Head(plan) = "commit"
           /\ call.service = "lie" => Head(plan) = "down"
           /\ call.service = "soft_estop" => Head(plan) = "estop"
           /\ call.service = "release_control" => Head(plan) = "release"
  BY DEF PlanPart, Fits, Succeeds

-----------------------------------------------------------------------------
(* What is known in lie                                                    *)

(* Every step keeps what lie_down knows.                                   *)
LEMMA LieStep ==
    ASSUME TypeOK, PlanPart, LieKnows, [Next]_vars
    PROVE  LieKnows'
<1> USE DEF execution
<1>1. CASE Service
  <2>1. PICK s, g : Callable(s, g) /\ Call(s, g)
    BY <1>1, ServiceCalled
  <2>2. Idle' \/ call'.service # "lie" \/ status # "lying"
    <3>1. CASE plan' = PlanOf(s, g) /\ call' = Called(s, g) /\ (s = "lie" => status # "lying")
      BY <3>1 DEF Called
    <3>2. QED
      BY <2>1, <3>1, Calling DEF Over, Idle
  <2>3. QED
    BY <2>1, <2>2 DEF Call, LieKnows, Running
<1>2. CASE CmdVel
  <2>1. CASE nodeOwned
    BY <1>2, <2>1 DEF CmdVel, LieKnows, Running, Idle
  <2>2. CASE ~nodeOwned
    BY <1>2, <2>2 DEF CmdVel, Go, NoCall, LieKnows, Running, Idle
  <2>3. QED
    BY <2>1, <2>2
<1>3. CASE Expire
  BY <1>3 DEF Expire, LieKnows, Running, Idle, bounds
<1>4. CASE Tick
  BY <1>4 DEF Tick, LieKnows, Running, Idle
<1>5. CASE Skip
  BY <1>5, SkipMoves
     DEF Skip, Succeeds, Moves, SameCall, Over, LieKnows, Running, Idle, bounds
<1>6. CASE Request
  <2>1. ~Idle /\ (Acked \/ Failed) /\ status' = status
    BY <1>6, Requesting DEF Request, Idle
  <2>2. CASE Acked
    <3>1. \/ Idle'
          \/ call'.service = call.service
      BY <2>2, AckedMoves DEF Stays, Succeeds, Moves, SameCall, Over, Idle
    <3>2. call.service = "lie" /\ robot.posture = "lying" => robot'.posture = "lying"
      <4>1. SUFFICES ASSUME call.service = "lie", robot.posture = "lying" PROVE robot'.posture = "lying"
        OBVIOUS
      <4>2. Head(plan) \in {"unlock", "take", "settle", "leave", "crawl", "down"}
        BY <2>1, <4>1, HeadOf DEF StepsOf
      <4>3. Becomes(Head(plan)) = {"lying"}
        BY <4>1, <4>2 DEF Becomes, General
      <4>4. QED
        BY <2>1, <2>2, <4>3, Obeying DEF Acked
    <3>3. QED
      BY <2>1, <2>2, <3>1, <3>2 DEF Acked, LieKnows, Running
  <2>3. CASE Failed
    <3>1. Idle' \/ (UNCHANGED call /\ call.service = "release_control")
      BY <2>1, <2>3, FailedMoves, HeadOf DEF Stays, Fails, Over, Idle, StepsOf, Services
    <3>2. QED
      BY <3>1 DEF LieKnows, Running
  <2>4. QED
    BY <2>1, <2>2, <2>3
<1>7. CASE Awaited
  BY <1>7, AwaitedMoves
     DEF Awaited, Succeeds, Moves, SameCall, Over, LieKnows, Running, Idle, bounds
<1>8. CASE TimeOut
  BY <1>8, Fail DEF TimeOut, Over, LieKnows, Running, Idle
<1>9. CASE Commit
  BY <1>9, CommitMoves DEF Succeeds, Over, LieKnows, Running, Idle
<1>10. CASE Store
  BY <1>10 DEF Store, LieKnows, Running, Idle, bounds
<1>11. CASE Publish
  BY <1>11, PublishMoves
     DEF Publish, Succeeds, Fails, Moves, SameCall, Over, LieKnows, Running, Idle, bounds
<1>12. CASE Sdk
  <2>1. status' \in {status, robot.posture}
    BY <1>12 DEF Sdk, Callback, Receive, Speed, Lost, SdkStore, SdkPublish
  <2>2. QED
    BY <1>12, <2>1 DEF Sdk, LieKnows, Running, Idle, bounds
<1>13. CASE Environment
  <2>1. \/ known' = {} /\ disturbed' = TRUE
        \/ /\ robot'.posture = robot.posture /\ known' = known
           /\ ~disturbed' => ~disturbed
    BY <1>13 DEF TypeOK, Robots, Environment, TakeOver, LetGo, LinkDown, LinkUp, Disturb, bounds
  <2>2. QED
    BY <1>13, <2>1 DEF Environment, LieKnows, Running, Idle
<1>14. CASE UNCHANGED vars
  BY <1>14 DEF vars, LieKnows, Running, Idle, bounds
<1>15. QED
  BY <1>1, <1>2, <1>3, <1>4, <1>5, <1>6, <1>7, <1>8, <1>9, <1>10, <1>11, <1>12, <1>13, <1>14
     DEF Next, Executor

-----------------------------------------------------------------------------
(* Calm: as long as nothing failed nobody interfered                       *)

(* Every step keeps others away until something fails.                     *)
LEMMA CalmStep ==
    ASSUME TypeOK, PlanPart, CalmPart, [Next]_vars
    PROVE  CalmPart'
<1>1. CASE Service
  BY <1>1, ServiceCalled DEF Call, CalmPart
<1>2. CASE CmdVel \/ Expire \/ Skip \/ Awaited \/ Commit \/ Store \/ Publish
  BY <1>2 DEF CmdVel, Expire, Skip, Awaited, Commit, Store, Publish, CalmPart, bounds
<1>3. CASE Tick
  BY <1>3, Driving DEF Tick, CalmPart, bounds
<1>4. CASE Request
  <2>1. ~Idle /\ (Acked \/ Failed) /\ linked' = linked
    BY <1>4, Requesting DEF Request, Idle
  <2>2. CASE Acked
    BY <2>1, <2>2, Obeying DEF Acked, CalmPart
  <2>3. CASE Failed
    BY <2>1, <2>3 DEF Failed, CalmPart
  <2>4. QED
    BY <2>1, <2>2, <2>3
<1>5. CASE TimeOut
  BY <1>5 DEF TimeOut, Disturb, CalmPart, bounds
<1>6. CASE Sdk
  BY <1>6 DEF Sdk, CalmPart, bounds
<1>7. CASE Environment
  BY <1>7 DEF TypeOK, Robots, Environment, TakeOver, LetGo, LinkDown, LinkUp, Disturb, CalmPart, bounds
<1>8. CASE UNCHANGED vars
  BY <1>8 DEF vars, CalmPart, bounds
<1>9. QED
  BY <1>1, <1>2, <1>3, <1>4, <1>5, <1>6, <1>7, <1>8 DEF Next, Executor

-----------------------------------------------------------------------------
(* The gait remembered                                                     *)

(* Every step keeps what the gait stairs stands for.                       *)
LEMMA StairStep ==
    ASSUME TypeOK, PlanPart, LieKnows, StairPart, [Next]_vars
    PROVE  StairPart'
<1> USE DEF contract, execution
<1> DEFINE Walking == Running("lie") \/ Running("stand") \/ (Running("set_gait") /\ call.goal # "stair")
           Remembered == "gait" \in known /\ gait = "stair" /\ robot.posture \in General
           Climbing == Running("set_gait") /\ call.goal = "stair"
           Pending == "stair" \in Ahead /\ (Head(plan) = "stair" => pc = "step")
<1>a. /\ Remembered => Walking
      /\ Climbing /\ robot.posture \in General => Pending
  BY DEF StairPart
<1>b. SUFFICES /\ Remembered' => Walking'
               /\ Climbing' /\ robot'.posture \in General => Pending'
  BY DEF StairPart
<1>1. CASE Service
  <2>1. PICK s, g : Callable(s, g) /\ Call(s, g)
    BY <1>1, ServiceCalled
  <2>2. ~Remembered'
    BY <1>a, <2>1 DEF Call, Running
  <2>3. Climbing' => Pending'
    <3>1. CASE Over
      BY <3>1 DEF Over, Running, Idle
    <3>2. CASE plan' = PlanOf(s, g) /\ call' = Called(s, g)
      <4>1. call'.service = s /\ call'.goal = g /\ Ahead' = StepsIn(PlanOf(s, g))
        BY <3>2 DEF Called, Ahead
      <4>2. QED
        BY <2>1, <3>2, <4>1, PlanBegins DEF Running
    <3>3. QED
      BY <2>1, <3>1, <3>2, Calling
  <2>4. QED
    BY <2>2, <2>3
<1>2. CASE CmdVel
  <2>1. ~Remembered'
    BY <1>a, <1>2 DEF CmdVel, Running
  <2>2. ~Climbing'
    BY <1>2 DEF CmdVel, Go, NoCall, Running, Idle
  <2>3. QED
    BY <2>1, <2>2
<1>3. CASE Expire
  BY <1>a, <1>3 DEF Expire, Running, Idle, Ahead
<1>4. CASE Tick
  <2>1. Idle' /\ Idle /\ (robot'.posture \in General => robot.posture \in General)
    BY <1>4, Driving DEF Tick, Idle
  <2>2. QED
    BY <1>a, <1>4, <2>1 DEF Tick, Running
<1>5. CASE Skip
  <2>1. ~Idle /\ Head(plan) \notin {"commit", "down", "stair"}
    BY <1>5, SkipMoves DEF Skip, Needed
  <2>2. CASE Succeeds
    <3>1. ~Walking /\ ~Running("set_gait")
      BY <2>1, <2>2, EndedBy DEF Running
    <3>2. QED
      BY <1>a, <1>5, <2>2, <3>1 DEF Skip, Succeeds, Over, Running, Idle
  <2>3. CASE Moves
    BY <1>a, <1>5, <2>1, <2>3 DEF Skip, Moves, SameCall, Due, Running, Idle
  <2>4. QED
    BY <1>5, <2>2, <2>3, SkipMoves
<1>6. CASE Request
  <2>1. ~Idle /\ (Acked \/ Failed) /\ gait' = gait
    BY <1>6, Requesting DEF Request, Idle
  <2>2. CASE Acked
    <3>1. /\ pc = "step" /\ robot'.posture \in Becomes(Head(plan))
          /\ "gait" \in known' => "gait" \in known
      BY <2>1, <2>2, Obeying DEF Acked
    <3>2. /\ Head(plan) \in StepsOf(call.service) /\ call.service \in Services
          /\ Head(plan) \in Ahead
      BY <2>1, HeadOf
    <3>3. \/ Stays
          \/ Head(plan) \notin Awaiting /\ Succeeds /\ Head(plan) \notin {"commit", "down"}
          \/ Head(plan) \notin Awaiting /\ Moves
      BY <2>2, AckedMoves DEF Awaiting
    <3>4. ASSUME robot.posture \notin General, robot'.posture \in General
          PROVE  Head(plan) \in {"unlock", "rise", "leave", "general"}
      BY <3>1, <3>4 DEF Becomes, Rises, General
    <3>5. ASSUME Head(plan) \in {"unlock", "rise", "leave", "general"}
          PROVE  Walking /\ Stays
      <4>1. call.service \in {"lie", "stand", "set_gait"} /\ (call.service = "set_gait" => Head(plan) = "general")
        BY <3>2, <3>5 DEF StepsOf, Services
      <4>2. Walking
        BY <2>1, <3>2, <4>1 DEF PlanPart, Fits, Running, Ahead
      <4>3. QED
        BY <3>3, <3>5, <4>2 DEF Awaiting
    <3>6. Walking => Walking'
      BY <3>3, EndedBy DEF Stays, Moves, Due, SameCall, Running, Idle
    <3>7. Climbing' => Climbing
      BY <2>1, <3>3 DEF Stays, Succeeds, Moves, Over, SameCall, Running, Idle
    <3>8. Climbing' /\ robot'.posture \in General => Pending'
      <4>1. SUFFICES ASSUME Climbing', robot'.posture \in General PROVE Pending'
        OBVIOUS
      <4>2. ~Walking
        BY <3>7, <4>1 DEF Running
      <4>3. robot.posture \in General
        BY <3>4, <3>5, <4>1, <4>2
      <4>4. Head(plan) # "stair"
        BY <3>1, <4>1, <4>3 DEF Becomes, General
      <4>5. "stair" \in Ahead
        BY <1>a, <3>7, <4>1, <4>3
      <4>6. CASE Stays
        BY <4>4, <4>5, <4>6 DEF Stays, Ahead
      <4>7. CASE Moves
        BY <4>4, <4>5, <4>7 DEF Moves, Due
      <4>8. QED
        BY <3>3, <4>1, <4>6, <4>7 DEF Succeeds, Over, Running, Idle
    <3>9. Remembered' => Walking'
      BY <1>a, <2>1, <3>1, <3>4, <3>5, <3>6
    <3>10. QED
      BY <3>8, <3>9
  <2>3. CASE Failed
    <3>1. ~Climbing'
      BY <2>1, <2>3, FailedMoves, HeadOf DEF Stays, Fails, Over, Idle, Running, StepsOf, Services
    <3>2. QED
      BY <2>3, <3>1 DEF Failed
  <2>4. QED
    BY <2>1, <2>2, <2>3
<1>7. CASE Awaited
  <2>1. ~Idle /\ pc = "wait" /\ Head(plan) # "commit" /\ status \in Targets(Head(plan))
    BY <1>7, AwaitedMoves DEF Awaited, PlanPart, Awaiting
  <2>2. CASE Over /\ status = "lying" /\ call.service = "lie"
    BY <1>a, <1>7, <2>1, <2>2 DEF Awaited, Over, LieKnows, Running, Idle, General
  <2>3. CASE Succeeds
    <3>1. call.service \notin {"stand", "set_gait"} /\ (call.service = "lie" => status = "lying")
      BY <2>1, <2>3, EndedBy DEF Targets
    <3>2. QED
      BY <1>a, <1>7, <2>1, <2>3, <3>1
         DEF Awaited, Succeeds, Over, LieKnows, Running, Idle, General
  <2>4. CASE Moves
    BY <1>a, <1>7, <2>1, <2>4 DEF Awaited, Moves, SameCall, Due, Running, Idle
  <2>5. QED
    BY <1>7, <2>2, <2>3, <2>4, AwaitedMoves
<1>8. CASE TimeOut
  BY <1>8, Fail DEF TimeOut, Over, Running, Idle
<1>9. CASE Commit
  <2>1. ~Idle /\ Idle' /\ Ahead = {"commit"} /\ call.service \in {"stand", "set_gait"}
    BY <1>9, CommitMoves DEF Succeeds, Over, Idle
  <2>2. call.goal = "stair" => call.service = "set_gait"
    BY <2>1 DEF PlanPart, Fits
  <2>3. ~(call.goal = "stair" /\ robot.posture \in General)
    BY <1>a, <2>1, <2>2 DEF Running
  <2>4. QED
    BY <1>9, <2>1, <2>3 DEF Commit, Running
<1>10. CASE Store
  <2>1. Head(plan) # "stair"
    BY <1>10 DEF Store, PlanPart
  <2>2. QED
    BY <1>a, <1>10, <2>1 DEF Store, Running, Idle, Ahead
<1>11. CASE Publish
  <2>1. ~Idle /\ Head(plan) \in StepsOf(call.service) /\ call.service \in Services
    BY <1>11, PublishMoves, HeadOf
  <2>2. CASE Head(plan) = "take" /\ Moves
    BY <1>a, <1>11, <2>1, <2>2 DEF Publish, Moves, SameCall, Due, Running, Idle
  <2>3. CASE Head(plan) = "take" /\ Succeeds
    <3>1. call.service \notin {"stand", "set_gait", "lie"}
      BY <2>3, EndedBy
    <3>2. QED
      BY <1>a, <1>11, <2>3, <3>1 DEF Publish, Succeeds, Over, Running, Idle
  <2>4. CASE Head(plan) = "release" /\ (Fails \/ Over)
    <3>1. call.service = "release_control" /\ Idle'
      BY <2>1, <2>4 DEF StepsOf, Services, Fails, Over, Idle
    <3>2. QED
      BY <1>a, <1>11, <3>1 DEF Publish, Running
  <2>5. QED
    BY <1>11, <2>2, <2>3, <2>4, PublishMoves
<1>12. CASE Sdk
  BY <1>a, <1>12 DEF Sdk, Running, Idle, Ahead
<1>13. CASE Environment
  <2>1. \/ known' = {} /\ robot'.posture \in {robot.posture, "slim"}
        \/ robot'.posture = robot.posture /\ known' = known
    <3>1. CASE TakeOver
      BY <3>1 DEF TakeOver
    <3>2. CASE LetGo \/ LinkDown \/ LinkUp
      BY <3>2 DEF TypeOK, Robots, LetGo, LinkDown, LinkUp
    <3>3. QED
      BY <1>13, <3>1, <3>2 DEF Environment
  <2>2. robot'.posture \in General => robot.posture \in General
    BY <2>1 DEF General
  <2>3. QED
    BY <1>a, <1>13, <2>1, <2>2 DEF Environment, Running, Idle, Ahead
<1>14. CASE UNCHANGED vars
  BY <1>a, <1>14 DEF vars, Running, Idle, Ahead
<1>15. QED
  BY <1>1, <1>2, <1>3, <1>4, <1>5, <1>6, <1>7, <1>8, <1>9, <1>10, <1>11, <1>12, <1>13, <1>14
     DEF Next, Executor

-----------------------------------------------------------------------------
(* What a robot driving is doing                                           *)

(* The robot comes to rest before the steps that change its posture.       *)
LEMMA RestsFirst ==
    ASSUME TypeOK, PlanPart, ~Idle
    PROVE  /\ call.service = "stand" /\ "stop" \in Ahead => Head(plan) \in {"unlock", "take", "stop"}
           /\ call.service = "lie" /\ "settle" \in Ahead => Head(plan) \in {"unlock", "take", "settle"}
           /\ call.service = "set_gait" /\ "halt" \in Ahead => Head(plan) \in {"take", "halt"}
  BY HeadOf, TailBefore DEF PlanPart, Fits, Ahead

(* Every step keeps where a robot drives.                                  *)
LEMMA DriveStep ==
    ASSUME TypeOK, PlanPart, CalmPart, DrivePart, RestPart, [Next]_vars
    PROVE  DrivePart'
<1> USE DEF execution, bounds
<1> DEFINE Locked == robot.posture = "locked" => ~robot.driving
           Upright == robot.posture \in {"walk", "stair", "lying"}
           Crawling == /\ robot.posture = "crawl" /\ Running("lie") /\ call.blind /\ robot.source = "sdk"
                       /\ Ahead \subseteq {"crawl", "down"}
                       /\ pc = "step" \/ (pc = "wait" /\ Head(plan) = "crawl")
<1>a. Locked /\ (~disturbed /\ robot.driving => Upright \/ Crawling)
  BY DEF DrivePart
<1>b. SUFFICES Locked' /\ (~disturbed' /\ robot'.driving => Upright' \/ Crawling')
  BY DEF DrivePart
<1>1. CASE Service \/ CmdVel
  BY <1>a, <1>1, ServiceCalled DEF Call, CmdVel, Running
<1>2. CASE Expire
  BY <1>a, <1>2 DEF Expire, Running, Idle, Ahead
<1>3. CASE Tick
  BY <1>a, <1>3, Driving DEF Tick, Running, General
<1>4. CASE Skip
  <2>1. ~Idle /\ plan \in Seq(Steps) /\ plan # <<>> /\ ~Needed(Head(plan)) /\ Head(plan) \in Ahead
    BY <1>4, SkipMoves, HeadOf DEF Skip
  <2>2. Crawling => Crawling'
    <3>1. SUFFICES ASSUME Crawling PROVE Crawling'
      OBVIOUS
    <3>2. Head(plan) = "crawl"
      BY <2>1, <3>1 DEF Needed
    <3>3. Moves /\ call' = call
      BY <1>4, <3>1, <3>2, SkipMoves, EndedBy DEF Running
    <3>4. QED
      BY <1>4, <3>1, <3>3 DEF Skip, Moves, Due, Running, Idle
  <2>3. QED
    BY <1>a, <1>4, <2>2 DEF Skip
<1>5. CASE Request
  <2>1. /\ ~Idle /\ (Acked \/ Failed) /\ linked' = linked
        /\ plan \in Seq(Steps) /\ plan # <<>> /\ Head(plan) \in Ahead
        /\ Head(plan) \in StepsOf(call.service) /\ call.service \in Services
    BY <1>5, Requesting, HeadOf DEF Request, Idle
  <2>2. CASE Acked
    <3>1. /\ robot'.posture \in Becomes(Head(plan))
          /\ robot'.driving = (robot.driving /\ Head(plan) \notin {"stop", "halt", "settle", "rest", "estop"})
          /\ disturbed' = disturbed /\ pc = "step" /\ Accepts(Head(plan))
          /\ Head(plan) = "crawl" => robot'.source = robot.source
      BY <2>1, <2>2, Obeying DEF Acked
    <3>2. Locked'
      BY <1>a, <3>1 DEF Becomes, Rises, General
    <3>3. SUFFICES ASSUME ~disturbed, robot'.driving, ~Upright' PROVE Crawling'
      BY <3>1, <3>2
    <3>4. Head(plan) = "crawl" /\ robot'.posture = "crawl"
      <4>1. robot.driving /\ Head(plan) \notin {"stop", "halt", "settle", "rest", "estop"}
        BY <3>1, <3>3
      <4>2. CASE Upright
        BY <1>a, <3>1, <3>3, <4>1, <4>2 DEF Becomes, Rises, General
      <4>3. CASE Crawling
        BY <2>1, <3>1, <3>3, <4>1, <4>3 DEF Becomes, General
      <4>4. QED
        BY <1>a, <3>3, <4>1, <4>2, <4>3
    <3>5. call.service = "lie" /\ Ahead = {"crawl", "down"}
      <4>1. call.service = "lie"
        BY <2>1, <3>4 DEF StepsOf, Services
      <4>2. QED
        BY <2>1, <3>4, <4>1, CrawlThenDown DEF PlanPart, Ahead
    <3>6. call.blind
      BY <2>1, <3>1, <3>3, <3>5 DEF RestPart, Undisturbed, Running
    <3>7. robot'.source = "sdk"
      BY <3>1, <3>4 DEF Accepts
    <3>8. Stays /\ pc' = "wait"
      BY <2>2, <3>4, AckedMoves
    <3>9. QED
      BY <3>4, <3>5, <3>6, <3>7, <3>8 DEF Stays, Running, Idle, Ahead
  <2>3. CASE Failed
    <3>1. Locked'
      BY <1>a, <2>1, <2>3, Obeying DEF Failed, Becomes, Rises, General
    <3>2. ASSUME ~disturbed' PROVE robot' = robot /\ ~disturbed /\ ~Accepts(Head(plan)) /\ pc = "step"
      BY <2>3, <3>2 DEF Failed
    <3>3. ASSUME ~disturbed' PROVE ~Crawling
      BY <2>1, <3>2, <3>3 DEF Accepts, CalmPart
    <3>4. QED
      BY <1>a, <3>1, <3>2, <3>3
  <2>4. QED
    BY <2>1, <2>2, <2>3
<1>6. CASE Awaited
  <2>1. ~Idle /\ plan \in Seq(Steps) /\ plan # <<>> /\ pc = "wait" /\ robot' = robot /\ disturbed' = disturbed
    BY <1>6, AwaitedMoves, HeadOf DEF Awaited
  <2>2. ASSUME Crawling PROVE Crawling'
    <3>1. Head(plan) = "crawl" /\ call.service = "lie"
      BY <2>1, <2>2 DEF Running
    <3>2. Moves /\ call'.service = call.service /\ call'.blind = call.blind
      BY <1>6, <3>1, AwaitedMoves, EndedBy DEF Moves, SameCall
    <3>3. QED
      BY <2>1, <2>2, <3>2 DEF Moves, Due, Running, Idle
  <2>3. QED
    BY <1>a, <2>1, <2>2
<1>7. CASE TimeOut
  <2>1. robot' = robot /\ linked' = linked /\ pc = "wait"
    BY <1>7 DEF TimeOut
  <2>2. ASSUME ~disturbed' PROVE ~disturbed /\ (~linked \/ robot.posture \notin Targets(Head(plan)))
    BY <1>7, <2>2 DEF TimeOut, Disturb
  <2>3. ASSUME ~disturbed' PROVE ~Crawling
    BY <2>1, <2>2, <2>3 DEF CalmPart, Targets
  <2>4. QED
    BY <1>a, <2>1, <2>2, <2>3
<1>8. CASE Commit
  BY <1>a, <1>8, CommitMoves DEF Commit, Running
<1>9. CASE Store \/ Publish
  BY <1>a, <1>9 DEF Store, Publish
<1>10. CASE Sdk
  BY <1>a, <1>10 DEF Sdk, Running, Idle, Ahead
<1>11. CASE Environment
  <2>1. CASE TakeOver
    BY <2>1 DEF TakeOver
  <2>2. CASE LetGo
    BY <1>a, <2>2 DEF LetGo, TypeOK, Robots
  <2>3. CASE LinkDown
    BY <2>3 DEF LinkDown, TypeOK, Robots
  <2>4. CASE LinkUp
    BY <1>a, <1>11, <2>4 DEF Environment, LinkUp, Running, Idle, Ahead
  <2>5. QED
    BY <1>11, <2>1, <2>2, <2>3, <2>4 DEF Environment
<1>12. CASE UNCHANGED vars
  BY <1>a, <1>12 DEF vars, Running, Idle, Ahead
<1>13. QED
  BY <1>1, <1>2, <1>3, <1>4, <1>5, <1>6, <1>7, <1>8, <1>9, <1>10, <1>11, <1>12 DEF Next, Executor

-----------------------------------------------------------------------------
(* What a service has reached                                              *)

(* Standing up and the gaits but stairs: once up, the robot stays so.      *)
LEMMA StaysUp ==
    ASSUME TypeOK, PlanPart, ~Idle, Obey(Head(plan)),
           Running("stand") \/ (Running("set_gait") /\ call.goal # "stair"),
           robot.posture \in General
    PROVE  robot'.posture \in General
<1>1. Head(plan) \in {"unlock", "take", "stop", "rise", "halt", "general", "level", "commit"}
  <2>1. Head(plan) \in StepsOf(call.service) /\ Head(plan) \in Ahead
    BY HeadOf
  <2>2. QED
    BY <2>1 DEF Running, StepsOf, PlanPart, Fits, Ahead
<1>2. Becomes(Head(plan)) \subseteq General
  BY <1>1 DEF Becomes, Rises, General
<1>3. QED
  BY <1>2, Obeying

(* And in stair mode. *)
LEMMA StaysStair ==
    ASSUME TypeOK, PlanPart, ~Idle, Obey(Head(plan)),
           Running("set_gait"), call.goal = "stair", robot.posture = "stair"
    PROVE  robot'.posture = "stair"
<1>1. Head(plan) \in {"take", "halt", "stair", "commit"}
  <2>1. Head(plan) \in StepsOf(call.service) /\ Head(plan) \in Ahead
    BY HeadOf
  <2>2. QED
    BY <2>1 DEF Running, StepsOf, PlanPart, Fits, Ahead
<1>2. Becomes(Head(plan)) = {"stair"}
  BY <1>1 DEF Becomes, General
<1>3. QED
  BY <1>2, Obeying

(* Every step keeps what was reached.                                      *)
LEMMA ReachStep ==
    ASSUME TypeOK, PlanPart, LieKnows, CalmPart, ReachPart, [Next]_vars
    PROVE  ReachPart'
<1> USE DEF execution, contract, bounds
<1> DEFINE Answered == Idle /\ success => Achieved
           Released == pc \in {"store", "publish"} /\ Head(plan) = "release" /\ success
                         => robot.source = "none"
           Upward == Running("stand") \/ (Running("set_gait") /\ call.goal # "stair")
           Climbing == Running("set_gait") /\ call.goal = "stair"
           Up == Upward => Seen(General) /\ ("general" \notin Ahead => robot.posture \in General)
           Levelled == Running("stand") /\ "level" \notin Ahead => robot.level = 3
           Climbed == Climbing => Seen({"stair"}) /\ ("stair" \notin Ahead => robot.posture = "stair")
           Reached == Answered /\ Released /\ Up /\ Levelled /\ Climbed
<1>a. Undisturbed => Reached
  BY DEF ReachPart
<1>b. SUFFICES Undisturbed' => Reached'
  BY DEF ReachPart
<1>1. CASE Service
  <2>1. PICK s, g : Callable(s, g) /\ Call(s, g)
    BY <1>1, ServiceCalled
  <2>2. UNCHANGED <<owned, status, gait, robot, linked, disturbed>>
    BY <2>1 DEF Call, ownership
  <2>3. CASE Over /\ success' = FALSE
    BY <2>3 DEF Over, Running, Idle
  <2>4. CASE Over /\ success' = TRUE /\ call' = [Called(s, g) EXCEPT !.current = "lying"] /\ Done(s)
    <3>1. call'.service = s /\ call'.blind = (status # robot.posture \/ owned # (robot.source = "sdk"))
      BY <2>4 DEF Called
    <3>2. ASSUME Undisturbed' PROVE Achieved'
      BY <2>2, <2>4, <3>1, <3>2 DEF Undisturbed, Done, Achieved, CalmPart
    <3>3. QED
      BY <2>4, <3>2 DEF Over, Running, Idle
  <2>5. CASE plan' = PlanOf(s, g) /\ pc' = "step" /\ success' = FALSE /\ call' = Called(s, g)
    <3>1. /\ call'.service = s /\ call'.goal = g
          /\ call'.blind = (status # robot.posture \/ owned # (robot.source = "sdk"))
          /\ Ahead' = StepsIn(PlanOf(s, g))
      BY <2>5 DEF Called, Ahead
    <3>2. ASSUME Undisturbed' PROVE status' = robot'.posture
      BY <2>2, <3>1, <3>2 DEF Undisturbed
    <3>3. (Upward' => "general" \in Ahead') /\ (Climbing' => "stair" \in Ahead')
          /\ (Running("stand")' => "level" \in Ahead')
      BY <2>1, <3>1, PlanBegins DEF Running
    <3>4. QED
      BY <2>5, <3>2, <3>3 DEF Seen
  <2>6. QED
    BY <2>1, <2>3, <2>4, <2>5, Calling
<1>2. CASE CmdVel
  <2>1. CASE nodeOwned
    BY <1>a, <1>2, <2>1 DEF CmdVel, Undisturbed, Achieved, Running, Idle
  <2>2. CASE ~nodeOwned
    BY <1>2, <2>2 DEF CmdVel, Go, NoCall, Running, Idle
  <2>3. QED
    BY <2>1, <2>2
<1>3. CASE Expire
  BY <1>a, <1>3 DEF Expire, Undisturbed, Achieved, Running, Seen, Idle, Ahead
<1>4. CASE Tick
  <2>1. /\ robot'.level = robot.level /\ robot'.source = robot.source
        /\ \/ robot'.posture = robot.posture
           \/ robot.posture \in General /\ robot'.posture \in General
    BY <1>4, Driving DEF Tick
  <2>2. Achieved => Achieved'
    BY <1>4, <2>1 DEF Tick, Achieved, General
  <2>3. QED
    BY <1>a, <1>4, <2>2 DEF Tick, Undisturbed, Running, Idle
<1>5. CASE Skip
  <2>1. ~Idle /\ Head(plan) \notin {"commit", "down", "estop", "release", "level", "general", "stair"}
    BY <1>5, SkipMoves DEF Skip, Needed
  <2>2. CASE Succeeds
    <3>1. call.service \notin {"stand", "set_gait", "lie", "soft_estop", "release_control"}
      BY <2>1, <2>2, EndedBy
    <3>2. QED
      BY <2>2, <3>1 DEF Succeeds, SameCall, Over, Achieved, Running, Idle
  <2>3. CASE Moves
    BY <1>a, <1>5, <2>1, <2>3 DEF Skip, Undisturbed, Moves, SameCall, Due, Running, Seen, Idle
  <2>4. QED
    BY <1>5, <2>2, <2>3, SkipMoves
<1>6. CASE Request
  <2>1. ~Idle /\ (Acked \/ Failed) /\ gait' = gait /\ status' = status
    BY <1>6, Requesting DEF Request, Idle
  <2>2. CASE Acked
    <3>1. /\ robot'.posture \in Becomes(Head(plan)) /\ Obey(Head(plan))
          /\ robot'.level = IF Head(plan) = "level" THEN LevelOf[call.goal] ELSE robot.level
          /\ Head(plan) = "release" => robot'.source = "none"
          /\ disturbed' = disturbed /\ pc = "step"
      BY <2>1, <2>2, Obeying DEF Acked
    <3>2. CASE Succeeds
      <4>1. Head(plan) \in {"stop", "halt", "level", "estop", "rest"}
        BY <2>2, <3>2, AckedMoves DEF Stays, Succeeds, Over, Idle
      <4>2. /\ call.service \notin {"stand", "set_gait", "lie", "release_control"}
            /\ call.service = "soft_estop" => Head(plan) = "estop"
        BY <3>2, <4>1, EndedBy
      <4>3. Achieved'
        BY <3>1, <3>2, <4>2 DEF Succeeds, SameCall, Achieved, Becomes
      <4>4. QED
        BY <3>2, <4>3 DEF Succeeds, Over, Running, Idle
    <3>3. CASE Stays \/ Moves
      <4>1. ~Idle' /\ call'.service = call.service /\ call'.goal = call.goal /\ call'.blind = call.blind
        BY <3>3 DEF Stays, Moves, SameCall, Due, Idle
      <4>2. /\ Ahead \subseteq Ahead' \union ({Head(plan)} \intersect {"stop", "halt", "level", "estop", "rest"})
            /\ pc' \in {"store", "publish"} /\ Head(plan') = "release" => Head(plan) = "release"
        BY <2>2, <3>3, AckedMoves DEF Stays, Moves, Due, Succeeds, Over, Idle, Ahead
      <4>3. SUFFICES ASSUME Undisturbed' PROVE Reached'
        OBVIOUS
      <4>4. Up /\ Levelled /\ Climbed
        BY <1>a, <3>1, <4>1, <4>3 DEF Undisturbed
      <4>5. Up'
        BY <2>1, <3>1, <4>1, <4>2, <4>4, StaysUp DEF Seen, Running
      <4>6. Levelled'
        <5>1. ASSUME Running("stand")' PROVE Running("stand") /\ call.goal = "mountain"
          BY <2>1, <4>1, <5>1 DEF Running, PlanPart, Fits
        <5>2. QED
          BY <3>1, <4>2, <4>4, <5>1 DEF LevelOf
      <4>7. Climbed'
        BY <2>1, <3>1, <4>1, <4>2, <4>4, StaysStair DEF Seen, Running
      <4>8. Released'
        BY <3>1, <4>2
      <4>9. QED
        BY <4>1, <4>5, <4>6, <4>7, <4>8
    <3>4. QED
      BY <2>2, <3>2, <3>3, AckedMoves
  <2>3. CASE Failed
    <3>1. CASE Fails
      BY <3>1 DEF Fails, Over, Running, Idle
    <3>2. CASE Stays /\ pc' = "store" /\ success' = FALSE /\ Head(plan) = "release"
      <4>1. call.service = "release_control"
        BY <2>1, <3>2, HeadOf DEF StepsOf, Services
      <4>2. QED
        BY <3>2, <4>1 DEF Stays, Running, Idle
    <3>3. QED
      BY <2>3, <3>1, <3>2, FailedMoves
  <2>4. QED
    BY <2>1, <2>2, <2>3
<1>7. CASE Awaited
  <2>1. ~Idle /\ Head(plan) \in Awaiting /\ status \in Targets(Head(plan))
        /\ UNCHANGED <<status, gait, robot, linked, disturbed>>
    BY <1>7, AwaitedMoves DEF Awaited, PlanPart
  <2>2. ASSUME Undisturbed, call.service = "lie", status = "lying" PROVE robot.posture = "lying"
    BY <2>1, <2>2 DEF LieKnows, Running, Undisturbed
  <2>3. CASE Over /\ success' = TRUE /\ SameCall /\ call.service = "lie" /\ status = "lying"
    BY <2>1, <2>2, <2>3 DEF Over, SameCall, Undisturbed, Achieved, Running, Idle
  <2>4. CASE Succeeds
    <3>1. /\ call.service \notin {"stand", "set_gait", "soft_estop", "release_control"}
          /\ call.service = "lie" => status = "lying"
      BY <2>1, <2>4, EndedBy DEF Awaiting, Targets
    <3>2. QED
      BY <2>1, <2>2, <2>4, <3>1
         DEF Succeeds, Over, SameCall, Undisturbed, Achieved, Running, Idle
  <2>5. CASE Moves
    <3>1. /\ pc' = "step" /\ ~Idle' /\ call'.service = call.service /\ call'.goal = call.goal
          /\ call'.blind = call.blind /\ Ahead \subseteq Ahead' \union {Head(plan)}
      BY <2>5 DEF Moves, SameCall, Due, Idle
    <3>2. SUFFICES ASSUME Undisturbed' PROVE Reached'
      OBVIOUS
    <3>3. Up /\ Levelled /\ Climbed
      BY <1>a, <2>1, <3>1, <3>2 DEF Undisturbed
    <3>4. Up'
      BY <2>1, <3>1, <3>3 DEF Seen, Running, Targets
    <3>5. Levelled'
      BY <2>1, <3>1, <3>3 DEF Running, Awaiting
    <3>6. Climbed'
      BY <2>1, <3>1, <3>3 DEF Seen, Running, Targets
    <3>7. QED
      BY <3>1, <3>4, <3>5, <3>6
  <2>6. QED
    BY <1>7, <2>3, <2>4, <2>5, AwaitedMoves
<1>8. CASE TimeOut
  BY <1>8, Fail DEF TimeOut, Over, Running, Idle
<1>9. CASE Commit
  <2>1. ~Idle /\ Over /\ SameCall /\ Ahead = {"commit"} /\ call.service \in {"stand", "set_gait"}
        /\ UNCHANGED <<robot, disturbed>> /\ gait' = call.goal
    BY <1>9, CommitMoves DEF Commit, Succeeds
  <2>2. ASSUME Undisturbed' PROVE Achieved'
    <3>1. Up /\ Levelled /\ Climbed
      BY <1>a, <2>1, <2>2 DEF Undisturbed, SameCall
    <3>2. call.service = "stand" => call.goal = "mountain"
      BY DEF PlanPart, Fits
    <3>3. QED
      BY <2>1, <3>1, <3>2 DEF Running, SameCall, Achieved
  <2>3. QED
    BY <2>1, <2>2 DEF Over, Running, Idle
<1>10. CASE Store
  BY <1>a, <1>10 DEF Store, Undisturbed, Running, Seen, Idle, Ahead
<1>11. CASE Publish
  <2>1. ~Idle /\ Head(plan) \in StepsOf(call.service) /\ call.service \in Services
        /\ UNCHANGED <<status, gait, robot, disturbed>> /\ pc = "publish"
    BY <1>11, PublishMoves, HeadOf DEF Publish
  <2>2. CASE Head(plan) = "take" /\ Moves
    BY <1>a, <2>1, <2>2 DEF Undisturbed, Moves, SameCall, Due, Running, Seen, Idle
  <2>3. CASE Head(plan) = "take" /\ Succeeds
    <3>1. call.service \notin {"stand", "set_gait", "lie", "soft_estop", "release_control"}
      BY <2>3, EndedBy
    <3>2. QED
      BY <2>3, <3>1 DEF Succeeds, SameCall, Over, Achieved, Running, Idle
  <2>4. CASE Head(plan) = "release" /\ Fails
    BY <2>4 DEF Fails, Over, Running, Idle
  <2>5. CASE Head(plan) = "release" /\ Over /\ success /\ SameCall
    <3>1. call.service = "release_control"
      BY <2>1, <2>5 DEF StepsOf, Services
    <3>2. ASSUME Undisturbed' PROVE robot'.source = "none"
      BY <1>a, <2>1, <2>5, <3>2 DEF Undisturbed, SameCall
    <3>3. QED
      BY <2>5, <3>1, <3>2 DEF Over, SameCall, Achieved, Running, Idle
  <2>6. QED
    BY <1>11, <2>2, <2>3, <2>4, <2>5, PublishMoves
<1>12. CASE Sdk
  <2>1. status' \in {status, robot.posture}
    BY <1>12 DEF Sdk, Callback, Receive, Speed, Lost, SdkStore, SdkPublish
  <2>2. QED
    BY <1>a, <1>12, <2>1 DEF Sdk, Undisturbed, Achieved, Running, Seen, Idle, Ahead
<1>13. CASE Environment
  <2>1. CASE TakeOver \/ LinkDown
    BY <2>1 DEF TakeOver, LinkDown, Disturb, Undisturbed
  <2>2. CASE LetGo
    BY <2>2 DEF LetGo, CalmPart, Undisturbed
  <2>3. CASE LinkUp
    BY <1>a, <1>13, <2>3 DEF Environment, LinkUp, Undisturbed, Achieved, Running, Seen, Idle, Ahead
  <2>4. QED
    BY <1>13, <2>1, <2>2, <2>3 DEF Environment
<1>14. CASE UNCHANGED vars
  BY <1>a, <1>14 DEF vars, Undisturbed, Achieved, Running, Seen, Idle, Ahead
<1>15. QED
  BY <1>1, <1>2, <1>3, <1>4, <1>5, <1>6, <1>7, <1>8, <1>9, <1>10, <1>11, <1>12, <1>13, <1>14
     DEF Next, Executor

-----------------------------------------------------------------------------
(* Rest before a posture                                                   *)

(* Every step keeps the stop ahead of a robot that drives.                 *)
LEMMA RestStep ==
    ASSUME TypeOK, PlanPart, DrivePart, RestPart, [Next]_vars
    PROVE  RestPart'
<1> USE DEF execution, bounds
<1> DEFINE Standing == Running("stand") => "stop" \in Ahead /\ call.current # "stand"
           Lying == Running("lie") => /\ "settle" \in Ahead /\ call.current \in {"walk", "stair"}
                                      /\ pc # "wait"
           Changing == Running("set_gait") => IF "halt" \in Ahead THEN status = robot.posture
                                              ELSE robot.posture = "lying"
           Releasing == Running("release_control") => "rest" \in Ahead
           ToRest == Standing /\ Lying /\ Changing /\ Releasing
<1>a. Undisturbed /\ robot.driving => ToRest
  BY DEF RestPart
<1>b. SUFFICES ASSUME Undisturbed', robot'.driving PROVE ToRest'
  BY DEF RestPart
<1>1. CASE Service
  <2>1. PICK s, g : Callable(s, g) /\ Call(s, g)
    BY <1>1, ServiceCalled
  <2>2. Idle /\ UNCHANGED <<owned, status, robot, disturbed>>
    BY <2>1 DEF Call, ownership
  <2>3. CASE Over
    BY <2>3 DEF Over, Running, Idle
  <2>4. CASE /\ plan' = PlanOf(s, g) /\ pc' = "step" /\ call' = Called(s, g)
             /\ s = "lie" => status # "lying"
    <3>1. /\ call'.service = s /\ call'.goal = g /\ call'.current = status
          /\ call'.blind = (status # robot.posture \/ owned # (robot.source = "sdk"))
          /\ Ahead' = StepsIn(PlanOf(s, g))
      BY <2>4 DEF Called, Ahead
    <3>2. status = robot.posture
      BY <1>b, <3>1 DEF Undisturbed
    <3>3. robot.posture \in {"walk", "stair", "lying"}
      BY <1>b, <2>2 DEF DrivePart, Undisturbed, Running
    <3>4. QED
      BY <2>1, <2>2, <2>4, <3>1, <3>2, <3>3, PlanBegins DEF Running
  <2>5. QED
    BY <2>1, <2>3, <2>4, Calling
<1>2. CASE CmdVel
  <2>1. CASE nodeOwned
    BY <1>a, <1>b, <1>2, <2>1 DEF CmdVel, Undisturbed, Running, Idle
  <2>2. CASE ~nodeOwned
    BY <1>2, <2>2 DEF CmdVel, Go, NoCall, Running
  <2>3. QED
    BY <2>1, <2>2
<1>3. CASE Expire
  BY <1>a, <1>b, <1>3 DEF Expire, Undisturbed, Running, Idle, Ahead
<1>4. CASE Tick
  BY <1>4 DEF Tick, Running, Idle
<1>5. CASE Skip
  <2>1. /\ ~Idle /\ ~Needed(Head(plan)) /\ UNCHANGED <<status, robot, disturbed>>
    BY <1>5, SkipMoves DEF Skip
  <2>2. CASE Succeeds
    BY <2>2 DEF Succeeds, Over, Running, Idle
  <2>3. CASE Moves /\ call' = call
    <3>1. /\ ~Idle' /\ pc' = "step" /\ Ahead' \subseteq Ahead /\ Ahead \subseteq Ahead' \union {Head(plan)}
          /\ Undisturbed /\ robot.driving
      BY <1>b, <2>1, <2>3 DEF Moves, Due, Idle, Undisturbed
    <3>2. Standing' /\ Lying' /\ Releasing'
      BY <1>a, <2>1, <2>3, <3>1 DEF Running, Needed, General
    <3>3. ASSUME Running("set_gait"), "halt" \in Ahead, Head(plan) = "halt"
          PROVE  robot.posture = "lying"
      <4>1. status = robot.posture /\ status \notin {"walk", "stair"}
        BY <1>a, <2>1, <3>1, <3>3 DEF Needed
      <4>2. QED
        BY <3>1, <3>3, <4>1 DEF DrivePart, Undisturbed, Running
    <3>4. Changing'
      BY <1>a, <2>1, <2>3, <3>1, <3>3 DEF Running
    <3>5. QED
      BY <3>2, <3>4
  <2>4. QED
    BY <1>5, <2>2, <2>3, SkipMoves
<1>6. CASE Request
  <2>1. ~Idle /\ (Acked \/ Failed) /\ status' = status /\ Needed(Head(plan))
    BY <1>6, Requesting DEF Request, Idle
  <2>2. CASE Acked
    <3>1. /\ robot'.posture \in Becomes(Head(plan))
          /\ robot.driving /\ Head(plan) \notin {"stop", "halt", "settle", "rest", "estop"}
          /\ disturbed' = disturbed
      BY <1>b, <2>1, <2>2, Obeying DEF Acked
    <3>2. CASE Succeeds
      BY <3>2 DEF Succeeds, Over, Running, Idle
    <3>3. CASE /\ Stays \/ (Moves /\ call' = call)
               /\ pc' = "wait" => Head(plan) \in Awaiting
      <4>1. /\ call' = call /\ Ahead' \subseteq Ahead
            /\ Ahead \subseteq Ahead' \union {Head(plan)} /\ (Stays => Ahead' = Ahead)
        BY <3>3 DEF Stays, Moves, Ahead
      <4>2. ToRest
        BY <1>a, <1>b, <3>1, <4>1 DEF Undisturbed
      <4>3. \A s : Running(s)' => Running(s)
        BY <2>1, <4>1 DEF Running
      <4>4. Standing' /\ Releasing'
        BY <3>1, <4>1, <4>2, <4>3
      <4>5. Lying'
        <5>1. SUFFICES ASSUME Running("lie") PROVE Lying'
          BY <4>3
        <5>2. Head(plan) \in {"unlock", "take"}
          BY <2>1, <3>1, <4>2, <5>1, RestsFirst DEF Running
        <5>3. Head(plan) = "take"
          BY <2>1, <4>2, <5>1, <5>2 DEF Needed
        <5>4. QED
          BY <3>3, <4>1, <4>2, <5>1, <5>3 DEF Awaiting
      <4>6. Changing'
        <5>1. SUFFICES ASSUME Running("set_gait") PROVE Changing'
          BY <4>3
        <5>2. CASE "halt" \in Ahead
          <6>1. Head(plan) = "take"
            BY <2>1, <3>1, <5>1, <5>2, RestsFirst DEF Running
          <6>2. robot'.posture = robot.posture
            BY <3>1, <6>1 DEF Becomes
          <6>3. QED
            BY <2>1, <3>1, <4>1, <4>2, <5>1, <5>2, <6>2
        <5>3. CASE "halt" \notin Ahead
          <6>1. Head(plan) \in {"take", "stair", "general", "level", "commit"} /\ robot.posture = "lying"
            BY <2>1, <3>1, <4>2, <5>1, <5>3, HeadOf DEF Running, StepsOf
          <6>2. robot'.posture = "lying"
            BY <3>1, <6>1 DEF Becomes, General
          <6>3. QED
            BY <4>1, <5>3, <6>2
        <5>4. QED
          BY <5>2, <5>3
      <4>7. QED
        BY <4>4, <4>5, <4>6
    <3>4. QED
      BY <2>2, <3>2, <3>3, AckedMoves DEF Moves, Due
  <2>3. CASE Failed
    <3>1. CASE Fails
      BY <3>1 DEF Fails, Over, Running, Idle
    <3>2. CASE Stays /\ Head(plan) = "release"
      <4>1. call.service = "release_control"
        BY <2>1, <3>2, HeadOf DEF StepsOf, Services
      <4>2. robot' = robot /\ ~disturbed
        BY <1>b, <2>3 DEF Failed, Undisturbed
      <4>3. QED
        BY <1>a, <1>b, <2>1, <3>2, <4>1, <4>2 DEF Stays, Undisturbed, Running, Ahead
    <3>3. QED
      BY <2>3, <3>1, <3>2, FailedMoves
  <2>4. QED
    BY <2>1, <2>2, <2>3
<1>7. CASE Awaited
  <2>1. /\ ~Idle /\ Head(plan) \in Awaiting /\ pc = "wait" /\ status \in Targets(Head(plan))
        /\ UNCHANGED <<status, robot, disturbed>> /\ Head(plan) \in StepsOf(call.service)
    BY <1>7, AwaitedMoves, HeadOf DEF Awaited, PlanPart
  <2>2. CASE Over
    BY <2>2 DEF Over, Running, Idle
  <2>3. CASE Moves /\ call' = [call EXCEPT !.current = status]
    <3>1. /\ call'.service = call.service /\ call'.current = status /\ call'.blind = call.blind
          /\ Ahead' \subseteq Ahead /\ Ahead \subseteq Ahead' \union {Head(plan)}
      BY <2>3 DEF Moves, SameCall, TypeOK, Callees
    <3>2. ToRest
      BY <1>a, <1>b, <2>1, <3>1 DEF Undisturbed
    <3>3. \A s : Running(s)' => Running(s)
      BY <2>1, <3>1 DEF Running
    <3>4. Standing'
      <4>1. SUFFICES ASSUME Running("stand") PROVE Standing'
        BY <3>3
      <4>2. Head(plan) = "unlock"
        BY <2>1, <3>2, <4>1, RestsFirst DEF Running, Awaiting
      <4>3. status \in {"lying", "walk"}
        BY <2>1, <4>1, <4>2 DEF Targets, Running
      <4>4. QED
        BY <3>1, <3>2, <4>1, <4>2, <4>3
    <3>5. Lying'
      BY <2>1, <3>2, <3>3
    <3>6. Changing'
      <4>1. SUFFICES ASSUME Running("set_gait") PROVE Changing'
        BY <3>3
      <4>2. "halt" \notin Ahead
        BY <2>1, <4>1, RestsFirst DEF Running, Awaiting
      <4>3. QED
        BY <2>1, <3>1, <3>2, <4>1, <4>2
    <3>7. Releasing'
      BY <2>1, <3>1, <3>2, <3>3 DEF Awaiting
    <3>8. QED
      BY <3>4, <3>5, <3>6, <3>7
  <2>4. QED
    BY <1>7, <2>2, <2>3, AwaitedMoves DEF Succeeds
<1>8. CASE TimeOut
  BY <1>8, Fail DEF TimeOut, Over, Running, Idle
<1>9. CASE Commit
  BY <1>9, CommitMoves DEF Succeeds, Over, Running, Idle
<1>10. CASE Store
  BY <1>a, <1>b, <1>10 DEF Store, Undisturbed, Running, Idle, Ahead
<1>11. CASE Publish
  <2>1. ~Idle /\ UNCHANGED <<status, robot, disturbed>>
    BY <1>11, PublishMoves DEF Publish
  <2>2. CASE Over
    BY <2>2 DEF Over, Running, Idle
  <2>3. CASE Head(plan) = "take" /\ Moves /\ call' = call
    BY <1>a, <1>b, <2>1, <2>3 DEF Undisturbed, Moves, Due, Running
  <2>4. QED
    BY <1>11, <2>2, <2>3, PublishMoves DEF Succeeds, Fails
<1>12. CASE Sdk
  <2>1. status' \in {status, robot.posture}
    BY <1>12 DEF Sdk, Callback, Receive, Speed, Lost, SdkStore, SdkPublish
  <2>2. QED
    BY <1>a, <1>b, <1>12, <2>1 DEF Sdk, Undisturbed, Running, Idle, Ahead
<1>13. CASE Environment
  <2>1. CASE TakeOver \/ LinkDown
    BY <1>b, <2>1 DEF TakeOver, LinkDown, Disturb, Undisturbed
  <2>2. CASE LetGo \/ LinkUp
    <3>1. robot'.posture = robot.posture /\ robot'.driving = robot.driving /\ disturbed' = disturbed
      BY <2>2 DEF LetGo, LinkUp, TypeOK, Robots
    <3>2. QED
      BY <1>a, <1>b, <1>13, <3>1 DEF Environment, Undisturbed, Running, Idle, Ahead
  <2>3. QED
    BY <1>13, <2>1, <2>2 DEF Environment
<1>14. CASE UNCHANGED vars
  BY <1>a, <1>b, <1>14 DEF vars, Undisturbed, Running, Idle, Ahead
<1>15. QED
  BY <1>1, <1>2, <1>3, <1>4, <1>5, <1>6, <1>7, <1>8, <1>9, <1>10, <1>11, <1>12, <1>13, <1>14
     DEF Next, Executor

-----------------------------------------------------------------------------
(* The release of control                                                  *)

(* Control is released by release_control only, behind its zero velocity.  *)
LEMMA ReleasesLast ==
    ASSUME TypeOK, PlanPart, ~Idle
    PROVE  /\ Head(plan) = "release" => Running("release_control") /\ "rest" \notin Ahead
           /\ Running("release_control") => Head(plan) \in {"rest", "release"}
<1>1. /\ plan # <<>> /\ plan \in Seq(Steps)
      /\ Head(plan) \in StepsOf(call.service) /\ call.service \in Services
  BY HeadOf
<1>2. Head(plan) = "release" => call.service = "release_control"
  BY <1>1 DEF StepsOf, Services
<1>3. Head(plan) = "release" => Ahead = {"release"}
  BY <1>1, <1>2, TailEnd DEF PlanPart, Fits, Ahead
<1>4. QED
  BY <1>1, <1>2, <1>3 DEF Running, StepsOf

(* Every step keeps the robot at rest unless the bridge controls it.       *)
LEMMA ReleaseStep ==
    ASSUME TypeOK, PlanPart, ReleasePart, [Next]_vars
    PROVE  ReleasePart'
<1> USE DEF ReleasePart, UncontrolledRests, execution
<1>1. CASE Service
  <2>1. PICK s, g : Callable(s, g) /\ Call(s, g)
    BY <1>1, ServiceCalled
  <2>2. Running("release_control")' => "rest" \in Ahead'
    <3>1. CASE Over
      BY <3>1 DEF Over, Running, Idle
    <3>2. CASE plan' = PlanOf(s, g) /\ call' = Called(s, g)
      <4>1. call'.service = s /\ Ahead' = StepsIn(PlanOf(s, g))
        BY <3>2 DEF Called, Ahead
      <4>2. QED
        BY <2>1, <4>1, PlanBegins DEF Running
    <3>3. QED
      BY <2>1, <3>1, <3>2, Calling
  <2>3. QED
    BY <2>1, <2>2 DEF Call
<1>2. CASE CmdVel
  <2>1. CASE nodeOwned
    BY <1>2, <2>1 DEF CmdVel, Running, Idle
  <2>2. CASE ~nodeOwned
    BY <1>2, <2>2 DEF CmdVel, Go, NoCall, Running
  <2>3. QED
    BY <2>1, <2>2
<1>3. CASE Expire
  BY <1>3 DEF Expire, Running, Idle, Ahead
<1>4. CASE Tick
  <2>1. robot'.source = robot.source
    BY <1>4, Driving DEF Tick
  <2>2. robot.source # "sdk" => robot' = robot
    BY <1>4 DEF Tick, Driven
  <2>3. QED
    BY <1>4, <2>1, <2>2 DEF Tick, Running, Idle
<1>5. CASE Skip
  <2>1. ~Idle /\ Head(plan) \notin {"rest", "release"} /\ robot' = robot
    BY <1>5, SkipMoves DEF Skip, Needed
  <2>2. ~Running("release_control")
    BY <2>1, ReleasesLast
  <2>3. QED
    BY <1>5, <2>1, <2>2, SkipMoves DEF Succeeds, Moves, SameCall, Over, Running, Idle
<1>6. CASE Request
  <2>1. ~Idle /\ (Acked \/ Failed)
    BY <1>6, Requesting DEF Request, Idle
  <2>2. robot' = robot \/ (Accepts(Head(plan)) /\ Obey(Head(plan)))
    BY <2>1 DEF Acked, Failed
  <2>3. /\ robot'.driving => robot.driving
        /\ robot'.source # "sdk" => robot.source # "sdk" \/ Head(plan) = "release"
        /\ Acked /\ Head(plan) = "rest" => ~robot'.driving
    BY <2>1, <2>2, Obeying DEF Acked
  <2>4. robot'.source # "sdk" => ~robot'.driving
    BY <2>1, <2>3, ReleasesLast
  <2>5. Running("release_control")' /\ robot'.driving => "rest" \in Ahead'
    <3>1. CASE Acked
      BY <2>1, <2>3, <3>1, AckedMoves
         DEF Stays, Succeeds, Moves, SameCall, Over, Running, Idle, Ahead
    <3>2. CASE Failed
      BY <2>1, <2>3, <3>2, FailedMoves DEF Stays, Fails, Over, Running, Idle, Ahead
    <3>3. QED
      BY <2>1, <3>1, <3>2
  <2>6. QED
    BY <2>4, <2>5
<1>7. CASE Awaited
  <2>1. ~Running("release_control")
    BY <1>7, ReleasesLast DEF Awaited, PlanPart, Awaiting, Idle
  <2>2. QED
    BY <1>7, <2>1, AwaitedMoves
       DEF Awaited, Succeeds, Moves, SameCall, Over, Running, Idle
<1>8. CASE TimeOut
  BY <1>8, Fail DEF TimeOut, Over, Running, Idle
<1>9. CASE Commit
  BY <1>9, CommitMoves DEF Commit, Succeeds, Over, Running, Idle
<1>10. CASE Store
  BY <1>10 DEF Store, Running, Idle, Ahead
<1>11. CASE Publish
  <2>1. ~Idle /\ robot' = robot
    BY <1>11, PublishMoves DEF Publish
  <2>2. ~Running("release_control")'
    <3>1. CASE Head(plan) = "take"
      <4>1. call.service # "release_control"
        BY <2>1, <3>1, ReleasesLast DEF Running
      <4>2. Idle' \/ call'.service = call.service
        BY <1>11, <3>1, PublishMoves DEF Succeeds, Moves, SameCall, Over, Idle
      <4>3. QED
        BY <4>1, <4>2 DEF Running
    <3>2. CASE Head(plan) = "release"
      BY <1>11, <3>2, PublishMoves DEF Fails, Over, Running, Idle
    <3>3. QED
      BY <1>11, <3>1, <3>2, PublishMoves
  <2>3. QED
    BY <2>1, <2>2
<1>12. CASE Sdk
  BY <1>12 DEF Sdk, Running, Idle, Ahead
<1>13. CASE Environment
  <2>1. /\ robot'.source # "sdk" => ~robot'.driving
        /\ robot'.driving => robot.driving
    <3>1. CASE TakeOver
      BY <3>1 DEF TakeOver
    <3>2. CASE LetGo
      <4>1. robot'.driving = robot.driving /\ robot.source # "sdk"
        BY <3>2 DEF TypeOK, Robots, LetGo
      <4>2. QED
        BY <4>1
    <3>3. CASE LinkDown
      BY <3>3 DEF TypeOK, Robots, LinkDown
    <3>4. CASE LinkUp
      BY <3>4 DEF LinkUp
    <3>5. QED
      BY <1>13, <3>1, <3>2, <3>3, <3>4 DEF Environment
  <2>2. UNCHANGED <<plan, pc, call>>
    BY <1>13 DEF Environment
  <2>3. Running("release_control")' = Running("release_control") /\ Ahead' = Ahead
    BY <2>2 DEF Running, Idle, Ahead
  <2>4. QED
    BY <2>1, <2>3
<1>14. CASE UNCHANGED vars
  BY <1>14 DEF vars, Running, Idle, Ahead
<1>15. QED
  BY <1>1, <1>2, <1>3, <1>4, <1>5, <1>6, <1>7, <1>8, <1>9, <1>10, <1>11, <1>12, <1>13, <1>14
     DEF Next, Executor

-----------------------------------------------------------------------------
(* The invariant and what follows from it                                  *)

(* The invariant holds when the bridge has connected.                      *)
LEMMA InitInv == Init => D1ControlInv
<1> SUFFICES ASSUME Init PROVE D1ControlInv
  OBVIOUS
<1> USE DEF Init
<1>1. robot \in Robots /\ robot.source = "none" /\ ~robot.driving /\ status = robot.posture
  <2>1. robot \in [source : {"none"}, posture : Postures, level : 2..3, driving : {FALSE}]
    OBVIOUS
  <2>2. robot \in Robots
    <3>1. PICK source \in {"none"}, posture \in Postures, l \in 2..3, driving \in {FALSE} :
              robot = [source |-> source, posture |-> posture, level |-> l, driving |-> driving]
      BY <2>1
    <3>2. l \in 1..3 /\ driving \in BOOLEAN /\ source \in {"none", "sdk", "app"}
      OBVIOUS
    <3>3. QED
      BY <3>1, <3>2 DEF Robots
  <2>3. robot.source = "none" /\ robot.driving \in {FALSE} /\ status = robot.posture
    BY <2>1
  <2>4. QED
    BY <2>2, <2>3
<1>2. TypeOK
  <2>1. call \in Callees /\ sdk \in [pc : {"idle", "store", "publish"}, owns : BOOLEAN]
    BY DEF Resting, NoCall, Callees, Services, Gaits, Postures
  <2>2. status \in Postures /\ gait \in Gaits /\ level \in 1..3 /\ plan \in Seq(Steps)
    BY <1>1 DEF Robots, Gaits
  <2>3. events \in 0..MaxEvents
    BY BoundAssumption
  <2>4. QED
    BY <1>1, <2>1, <2>2, <2>3 DEF TypeOK
<1>3. PlanPart
  BY DEF PlanPart, Idle, NoCall, Fits, StepsIn, StepsOf
<1>4. LevelPart /\ LieKnows /\ StairPart
  BY DEF LevelPart, LieKnows, StairPart, Running, NoCall
<1>5. CalmPart /\ ReachPart /\ DrivePart /\ RestPart /\ ReleasePart
  BY <1>1 DEF CalmPart, ReachPart, DrivePart, RestPart, ReleasePart, UncontrolledRests, Running, Idle
<1>6. QED
  BY <1>2, <1>3, <1>4, <1>5 DEF D1ControlInv

(* Every step keeps the invariant.                                         *)
LEMMA NextInv == D1ControlInv /\ [Next]_vars => D1ControlInv'
  BY TypeStep, LevelStep, LieStep, StairStep, CalmStep, ReachStep, DriveStep, RestStep,
     ReleaseStep DEF D1ControlInv

(* The invariant holds in every state the services, the callbacks and the  *)
(* robot reach.                                                            *)
THEOREM InvariantHolds == Spec => []D1ControlInv
<1>1. Init => D1ControlInv
  BY InitInv
<1>2. D1ControlInv /\ [Next]_vars => D1ControlInv'
  BY NextInv
<1>3. QED
  BY <1>1, <1>2, PTL DEF Spec

(* The state of the backend and of its executor stays within its types.    *)
THEOREM TypeCorrect == Spec => []TypeOK
<1>1. D1ControlInv => TypeOK
  BY DEF D1ControlInv
<1>2. QED
  BY <1>1, InvariantHolds, PTL

(* With a gait completed and a level acknowledged, and no failed call      *)
(* since, move() divides a velocity by no less than the robot's own limit. *)
THEOREM LimitsAgree == Spec => []ContractMatches
<1>1. D1ControlInv => ContractMatches
  <2>1. SUFFICES ASSUME D1ControlInv, known = {"gait", "level"}, Idle, gait # "l_walk",
                        robot.posture \in General \union {"stair"}
                 PROVE  RobotLimit <= Contract
    BY DEF ContractMatches
  <2>2. gait \in Gaits /\ level \in 1..3 /\ robot.level \in 1..3
    BY <2>1 DEF D1ControlInv, TypeOK, Robots
  <2>3. CASE gait = "stair"
    <3>1. robot.posture = "stair"
      BY <2>1, <2>3 DEF D1ControlInv, StairPart, Running
    <3>2. QED
      BY <2>3, <3>1 DEF RobotLimit, Contract
  <2>4. CASE Ordinary(gait)
    <3>1. robot.level = level
      BY <2>1, <2>4 DEF D1ControlInv, LevelPart
    <3>2. Contract = level /\ RobotLimit \in {1, level}
      BY <2>4, <3>1 DEF Contract, RobotLimit, Ordinary
    <3>3. QED
      BY <2>2, <3>2
  <2>5. QED
    BY <2>1, <2>2, <2>3, <2>4 DEF Gaits, Ordinary
<1>2. QED
  BY <1>1, InvariantHolds, PTL

(* Undisturbed, a service that answers success has left the robot in the   *)
(* posture, the gait or the ownership it was asked for, though wait_status *)
(* looks at reports up to a second old.                                    *)
THEOREM AnswersAreTrue == Spec => []SuccessIsReal
<1>1. D1ControlInv => SuccessIsReal
  BY DEF D1ControlInv, ReachPart, SuccessIsReal
<1>2. QED
  BY <1>1, InvariantHolds, PTL

(* A robot given back by release_control, taken over with the app or cut   *)
(* off does not drive, whatever failed: the zero velocity comes before the *)
(* release, and the tick sends no velocity in between.                     *)
THEOREM ReleasedAtRest == Spec => []UncontrolledRests
<1>1. D1ControlInv => UncontrolledRests
  BY DEF D1ControlInv, ReleasePart
<1>2. QED
  BY <1>1, InvariantHolds, PTL

(* A robot that drives keeps its posture.                                  *)
LEMMA DrivingKeeps ==
    ASSUME D1ControlInv, ~Idle, Undisturbed, Obey(Head(plan)), Needed(Head(plan)), robot'.driving
    PROVE  robot'.posture = robot.posture
<1> USE DEF D1ControlInv
<1>1. /\ robot'.posture \in Becomes(Head(plan)) /\ robot.driving
      /\ Head(plan) \notin {"stop", "halt", "settle", "rest", "estop"}
  BY Obeying
<1>2. /\ Head(plan) \in Ahead /\ Head(plan) \in StepsOf(call.service) /\ call.service \in Services
      /\ plan # <<>> /\ plan \in Seq(Steps)
  BY HeadOf
<1>3. CASE call.service \in {"stand", "lie"}
  <2>1. Head(plan) \in {"unlock", "take"}
    BY <1>1, <1>3, RestsFirst DEF RestPart, Running
  <2>2. robot.posture # "locked"
    BY <1>1 DEF DrivePart
  <2>3. QED
    BY <1>1, <2>1, <2>2 DEF Becomes
<1>4. CASE call.service = "set_gait"
  <2>1. CASE "halt" \in Ahead
    <3>1. Head(plan) = "take"
      BY <1>1, <1>4, <2>1, RestsFirst
    <3>2. QED
      BY <1>1, <3>1 DEF Becomes
  <2>2. CASE "halt" \notin Ahead
    <3>1. robot.posture = "lying" /\ Head(plan) \in {"take", "stair", "general", "level", "commit"}
      BY <1>1, <1>2, <1>4, <2>2 DEF RestPart, Running, StepsOf
    <3>2. QED
      BY <1>1, <3>1 DEF Becomes, General
  <2>3. QED
    BY <2>1, <2>2
<1>5. CASE call.service \in {"none", "set_speed", "soft_estop", "release_control"}
  <2>1. Head(plan) \in {"take", "level", "release"}
    BY <1>1, <1>2, <1>5 DEF StepsOf
  <2>2. QED
    BY <1>1, <2>1 DEF Becomes
<1>6. QED
  BY <1>2, <1>3, <1>4, <1>5 DEF Services

(* Undisturbed, a service changes the posture of a robot at rest only: the *)
(* status it copied when it began never skips the zero velocity.           *)
THEOREM PostureAtRest == Spec => RestsBeforePosture
<1>1. D1ControlInv /\ [Next]_vars
        => [Undisturbed /\ ~Idle /\ robot'.posture # robot.posture => ~robot'.driving]_vars
  <2>1. SUFFICES ASSUME D1ControlInv, Next, Undisturbed, ~Idle,
                        robot'.posture # robot.posture
                 PROVE  ~robot'.driving
    OBVIOUS
  <2>2. CASE Service \/ CmdVel \/ Tick
    BY <2>1, <2>2, ServiceCalled DEF Call, CmdVel, Tick
  <2>3. CASE Expire \/ Skip \/ Awaited \/ TimeOut \/ Commit \/ Store \/ Publish \/ Sdk
    BY <2>1, <2>3 DEF Expire, Skip, Awaited, TimeOut, Commit, Store, Publish, Sdk
  <2>4. CASE Request
    <3>1. Obey(Head(plan)) /\ Needed(Head(plan))
      BY <2>1, <2>4, Requesting DEF D1ControlInv, Acked, Failed
    <3>2. QED
      BY <2>1, <3>1, DrivingKeeps
  <2>5. CASE Environment
    <3>1. CASE TakeOver
      BY <3>1 DEF TakeOver
    <3>2. CASE LetGo \/ LinkDown \/ LinkUp
      BY <2>1, <3>2 DEF D1ControlInv, TypeOK, Robots, LetGo, LinkDown, LinkUp
    <3>3. QED
      BY <2>5, <3>1, <3>2 DEF Environment
  <2>6. QED
    BY <2>1, <2>2, <2>3, <2>4, <2>5 DEF Next, Executor
<1>2. QED
  BY <1>1, InvariantHolds, PTL DEF Spec, RestsBeforePosture

=============================================================================
