------------------------ MODULE CyvetRefinementProofs ------------------------
(***************************************************************************)
(* CyvetBackend implements MotionPermit, for every value of the constants. *)
(* Most steps ask for nothing and confirm nothing: they rest, let the      *)
(* permission lapse, or begin, carry or end the sending of a velocity.     *)
(* The others are Ask (an accepted request), Grant (a preparation that     *)
(* succeeds) and Confirm (a stop that succeeds).                           *)
(***************************************************************************)
EXTENDS CyvetProofs

ConfirmedStop(c) == Latest(c) /\ result[c] = "stopped"

(* Nothing is asked, no stop confirmed or forgotten. *)
SameRecord ==
    /\ UNCHANGED <<kind, ticket>>
    /\ \A c \in Clients : ConfirmedStop(c)' <=> ConfirmedStop(c)

(* Nothing starts or ceases to move. *)
SameMotion == motion' = "moving" <=> motion = "moving"

(* Permission and driving are untouched; the robot may come to rest. *)
RestStep ==
    /\ ready' = ready
    /\ Driving' <=> Driving
    /\ motion' = "moving" => motion = "moving"

(* Permission is gone. *)
LapseStep == ~ready' /\ (Driving' => Driving) /\ SameMotion

(* A velocity is taken while permission holds. *)
BeginStep == ready /\ ready' /\ Driving' /\ SameMotion

(* A velocity that was on its way may have set the robot in motion. *)
DriveStep ==
    /\ ready' = ready
    /\ Driving /\ Driving'
    /\ motion = "moving" => motion' = "moving"

(* No velocity is on its way any more. *)
EndStep == ready' = ready /\ ~Driving' /\ SameMotion

Kept == SameRecord /\ (RestStep \/ LapseStep \/ BeginStep \/ DriveStep \/ EndStep)

(* A request is accepted. *)
AskStep ==
    /\ LastAsked' \in {"ready", "stop"}
    /\ \A c \in Clients : ~ConfirmedStop(c)'
    /\ ~ready'
    /\ Driving' <=> Driving
    /\ SameMotion

(* The preparation accepted last succeeds. *)
GrantStep ==
    /\ SameRecord
    /\ LastAsked = "ready"
    /\ ready'
    /\ ~Driving /\ ~Driving'
    /\ motion # "moving" /\ motion' # "moving"

(* The stop accepted last succeeds. *)
ConfirmStep ==
    /\ UNCHANGED <<kind, ticket>>
    /\ LastAsked = "stop"
    /\ \E c \in Clients : ConfirmedStop(c)'
    /\ ready' = ready
    /\ ~Driving /\ ~Driving'
    /\ motion' # "moving"

Simulated == Kept \/ AskStep \/ GrantStep \/ ConfirmStep

(* Without a new request, what was asked for last stays. *)
LEMMA LastAskedKept ==
    ASSUME UNCHANGED <<kind, ticket>>
    PROVE  LastAsked' = LastAsked
BY DEF LastAsked, Latest

(* No stop is confirmed or forgotten while the record stays. *)
LEMMA RecordKept ==
    ASSUME SameRecord
    PROVE  /\ LastAsked' = LastAsked
           /\ (\E c \in Clients : Latest(c) /\ result[c] = "stopped")'
                = \E c \in Clients : Latest(c) /\ result[c] = "stopped"
BY LastAskedKept DEF SameRecord, ConfirmedStop

(* Each of these steps is a step of MotionPermit, or a stutter. *)
LEMMA SimulatedMaps ==
    ASSUME FlagTypes, FlagTypes', Simulated
    PROVE  [Permit!Next]_(Permit!vars)
<1>1. CASE Kept
  <2> USE <1>1, RecordKept DEF Kept
  <2>1. CASE RestStep
    <3>1. Driving' = Driving /\ ready' = ready
      BY <2>1 DEF RestStep, Driving
    <3>2. CASE SameMotion
      <4>1. (motion = "moving")' = (motion = "moving")
        BY <3>2 DEF SameMotion
      <4>2. QED
        BY <3>1, <4>1 DEF Permit!vars
    <3>3. CASE ~SameMotion
      <4>1. (motion = "moving")' = FALSE
        BY <2>1, <3>3 DEF RestStep, SameMotion
      <4>2. QED
        BY <3>1, <4>1 DEF Permit!Next, Permit!Rest
    <3>4. QED
      BY <3>2, <3>3
  <2>2. CASE LapseStep
    <3>1. ready' = FALSE /\ ready' \in {ready, FALSE}
      BY <2>2 DEF LapseStep, FlagTypes
    <3>2. Driving' \in {Driving, FALSE}
      BY <2>2 DEF LapseStep, Driving
    <3>3. (motion = "moving")' = (motion = "moving")
      BY <2>2 DEF LapseStep, SameMotion
    <3>4. QED
      BY <3>1, <3>2, <3>3 DEF Permit!Next, Permit!Lapse
  <2>3. CASE BeginStep
    BY <2>3 DEF BeginStep, SameMotion, FlagTypes, Permit!Next, Permit!Begin
  <2>4. CASE DriveStep
    BY <2>4 DEF DriveStep, FlagTypes, Permit!Next, Permit!vars, Permit!Drive
  <2>5. CASE EndStep
    BY <2>5 DEF EndStep, SameMotion, FlagTypes, Permit!Next, Permit!End
  <2>6. QED
    BY <1>1, <2>1, <2>2, <2>3, <2>4, <2>5
<1>2. CASE AskStep
  <2>1. (\E c \in Clients : Latest(c) /\ result[c] = "stopped")' = FALSE
    BY <1>2 DEF AskStep, ConfirmedStop
  <2>2. ready' = FALSE /\ Driving' = Driving
    BY <1>2 DEF AskStep, FlagTypes, Driving
  <2>3. (motion = "moving")' = (motion = "moving")
    BY <1>2 DEF AskStep, SameMotion
  <2>4. \E what \in {"ready", "stop"} : LastAsked' = what
    BY <1>2 DEF AskStep
  <2>5. QED
    BY <2>1, <2>2, <2>3, <2>4 DEF Permit!Next, Permit!Ask
<1>3. CASE GrantStep
  <2>1. ready' = TRUE /\ Driving' = Driving /\ (motion = "moving")' = (motion = "moving")
    BY <1>3 DEF GrantStep, FlagTypes, Driving
  <2>2. LastAsked = "ready" /\ ~Driving /\ motion # "moving" /\ SameRecord
    BY <1>3 DEF GrantStep
  <2>3. QED
    BY <2>1, <2>2, RecordKept DEF Permit!Next, Permit!Grant
<1>4. CASE ConfirmStep
  <2>1. (\E c \in Clients : Latest(c) /\ result[c] = "stopped")' = TRUE
    BY <1>4 DEF ConfirmStep, ConfirmedStop
  <2>2. ready' = ready /\ Driving' = Driving /\ (motion = "moving")' = FALSE
    BY <1>4 DEF ConfirmStep, Driving
  <2>3. LastAsked = "stop" /\ LastAsked' = LastAsked /\ ~Driving
    BY <1>4, LastAskedKept DEF ConfirmStep
  <2>4. QED
    BY <2>1, <2>2, <2>3 DEF Permit!Next, Permit!Confirm
<1>5. QED
  BY <1>1, <1>2, <1>3, <1>4 DEF Simulated

(* An accepted request is the latest, and leaves the robot and the worker alone. *)
LEMMA AcceptAsks ==
    ASSUME CyvetInv, NEW c \in Clients, NEW k \in Preparing \union Stopping, Accept(c, k),
           UNCHANGED <<wpc, locals, device>>
    PROVE  AskStep
<1>1. /\ \A d \in Clients \ {c} : /\ ticket'[d] = ticket[d] /\ kind'[d] = kind[d]
                                   /\ ticket[d] <= generation
      /\ ticket'[c] = generation + 1 /\ kind'[c] = k /\ result'[c] = "none" /\ generation \in Nat
      /\ \A d \in Clients : ticket[d] \in Nat
  BY DEF CyvetInv, TypeOK, ServiceTypes, NumberTypes, TicketPart, Accept, Inhibit
<1>2. Latest(c)' /\ \A d \in Clients \ {c} : ~Latest(d)'
  BY <1>1 DEF Latest, Preparing, Stopping
<1>3. LastAsked' \in {"ready", "stop"}
  BY <1>1, <1>2 DEF LastAsked, Preparing, Stopping
<1>4. \A d \in Clients : ~ConfirmedStop(d)'
  BY <1>1, <1>2 DEF ConfirmedStop
<1>5. ~ready' /\ (Driving' <=> Driving) /\ SameMotion
  BY SMTT(40) DEF Accept, Inhibit, Driving, SameMotion, locals, device
<1>6. QED
  BY <1>3, <1>4, <1>5 DEF AskStep

(* Every step of the adapter is one of these. *)
LEMMA StepSimulated ==
    ASSUME CyvetInv, [Next]_vars
    PROVE  Simulated
<1> USE DEF Simulated, Kept, SameRecord, RestStep, LapseStep, EndStep, DriveStep, BeginStep,
         SameMotion, ConfirmedStop, Latest, Driving, Controlled, Interrupted, Token,
         CyvetInv, TypeOK, FlagTypes, LinkTypes, NumberTypes, ServiceTypes, JobPart, Point,
         KindsAt, TicketPart, ReadyPart, StopsForSilence, MotionPart, StoppedPart,
         ActivePart, RecordPart, Preparing, Stopping, WorkerFrame, permit, locals, services,
         reply, drive, device
<1>1. ASSUME NEW c \in Clients, TakeJob(c), WorkerFrame PROVE Kept
  BY <1>1 DEF TakeJob, First, Go
<1>2. ASSUME JobFails /\ WorkerFrame PROVE Kept
  BY <1>2 DEF JobFails, Answer, Go
<1>3. ASSUME AcquireRpc /\ WorkerFrame PROVE Kept
  BY <1>3 DEF AcquireRpc, Go, SessionEnds, Answer, Inhibit
<1>4. ASSUME Acquired /\ WorkerFrame PROVE Kept
  BY <1>4 DEF Acquired, Go
<1>5. ASSUME StandBegin /\ WorkerFrame PROVE Kept
  BY <1>5 DEF StandBegin, Go
<1>6. ASSUME StandQuery /\ WorkerFrame PROVE Kept
  BY <1>6 DEF StandQuery, Report, Answer, Go, Inhibit
<1>7. ASSUME StandWalk /\ WorkerFrame PROVE Kept
  BY <1>7 DEF StandWalk, Command, SetParams, Halted, Await, Go
<1>8. CASE StandDone /\ WorkerFrame
  <2>1. CASE ready'
    <3>1. job \in Clients /\ kind[job] \in Preparing
      BY <1>8 DEF StandDone
    <3>2. ticket[job] = generation
      BY <1>8, <2>1, <3>1 DEF StandDone, Go, Answer
    <3>3. Latest(job)
      BY <3>1, <3>2
    <3>4. LastAsked = "ready"
      BY <3>1, <3>3 DEF LastAsked
    <3>5. GrantStep
      BY <1>8, <2>1, <3>1, <3>4 DEF StandDone, GrantStep, Answer, Go
    <3>6. QED
      BY <3>5
  <2>2. CASE ~ready'
    BY <1>8, <2>2 DEF StandDone, Answer, Go
  <2>3. QED
    BY <2>1, <2>2
<1>9. ASSUME GiveUp /\ WorkerFrame PROVE Kept
  BY <1>9 DEF GiveUp, CallStop, Go
<1>10. ASSUME GiveUpStopped /\ WorkerFrame PROVE Kept
  BY <1>10 DEF GiveUpStopped, Release, Answer, SessionEnds, Go, Inhibit
<1>11. ASSUME ProfileBegin /\ WorkerFrame PROVE Kept
  BY <1>11 DEF ProfileBegin, CallStop, Answer, Go
<1>12. ASSUME ProfileSet /\ WorkerFrame PROVE Kept
  BY <1>12 DEF ProfileSet, Command, SetParams, Await, Go
<1>13. CASE ProfileDone /\ WorkerFrame
  <2>1. CASE ready'
    <3>1. job \in Clients /\ kind[job] \in Preparing
      BY <1>13 DEF ProfileDone
    <3>2. ticket[job] = generation
      BY <1>13, <2>1, <3>1 DEF ProfileDone, Go, Answer
    <3>3. Latest(job)
      BY <3>1, <3>2
    <3>4. LastAsked = "ready"
      BY <3>1, <3>3 DEF LastAsked
    <3>5. GrantStep
      BY <1>13, <2>1, <3>1, <3>4 DEF ProfileDone, GrantStep, Answer, Go
    <3>6. QED
      BY <3>5
  <2>2. CASE ~ready'
    BY <1>13, <2>2 DEF ProfileDone, Answer, Go
  <2>3. QED
    BY <2>1, <2>2
<1>14. ASSUME ProfileFailed /\ WorkerFrame PROVE Kept
  BY <1>14 DEF ProfileFailed, Inhibit, CallStop, Go
<1>15. ASSUME ReleaseBegin /\ WorkerFrame PROVE Kept
  BY <1>15 DEF ReleaseBegin, CallStop, Answer, Go
<1>16. CASE ReleaseStopped /\ WorkerFrame
  <2>1. CASE Latest(job) /\ result'[job] = "stopped"
    <3>1. LastAsked = "stop"
      BY <1>16, <2>1 DEF ReleaseStopped, LastAsked
    <3>2. ConfirmStep
      BY <1>16, <2>1, <3>1
      DEF ReleaseStopped, ConfirmStep, Answer, Go, Release, SessionEnds, Inhibit
    <3>3. QED
      BY <3>2
  <2>2. CASE ~(Latest(job) /\ result'[job] = "stopped")
    BY <1>16, <2>2 DEF ReleaseStopped, Answer, Go, Release, SessionEnds, Inhibit
  <2>3. QED
    BY <2>1, <2>2
<1>17. ASSUME LieBegin /\ WorkerFrame PROVE Kept
  BY <1>17 DEF LieBegin, CallStop, Go
<1>18. ASSUME LieAction /\ WorkerFrame PROVE Kept
  BY <1>18 DEF LieAction, Command, Halted, Await, Go
<1>19. CASE LieDone /\ WorkerFrame
  <2>1. CASE Latest(job) /\ result'[job] = "stopped"
    <3>1. LastAsked = "stop"
      BY <1>19, <2>1 DEF LieDone, LastAsked
    <3>2. ConfirmStep
      BY <1>19, <2>1, <3>1
      DEF LieDone, ConfirmStep, Answer, Go, Release, SessionEnds, Inhibit
    <3>3. QED
      BY <3>2
  <2>2. CASE ~(Latest(job) /\ result'[job] = "stopped")
    BY <1>19, <2>2 DEF LieDone, Answer, Go, Release, SessionEnds, Inhibit
  <2>3. QED
    BY <2>1, <2>2
<1>20. ASSUME Estop /\ WorkerFrame PROVE Kept
  BY <1>20 DEF Estop, Command, Halted, Await, Answer, Go
<1>21. CASE EstopDone /\ WorkerFrame
  <2>1. CASE Latest(job) /\ result'[job] = "stopped"
    <3>1. LastAsked = "stop"
      BY <1>21, <2>1 DEF EstopDone, LastAsked
    <3>2. ConfirmStep
      BY <1>21, <2>1, <3>1
      DEF EstopDone, ConfirmStep, Answer, Go
    <3>3. QED
      BY <3>2
  <2>2. CASE ~(Latest(job) /\ result'[job] = "stopped")
    BY <1>21, <2>2 DEF EstopDone, Answer, Go
  <2>3. QED
    BY <2>1, <2>2
<1>22. ASSUME NoJob /\ WorkerFrame PROVE Kept
  BY <1>22 DEF NoJob, Go, unmoved
<1>23. ASSUME Posted /\ WorkerFrame PROVE Kept
  BY <1>23 DEF Posted, Report, Go, Inhibit
<1>24. ASSUME Loop /\ WorkerFrame PROVE Kept
  BY <1>24 DEF Loop, Go, unmoved
<1>25. ASSUME Reconnect /\ WorkerFrame PROVE Kept
  BY <1>25 DEF Reconnect, GoTop, Go
<1>26. ASSUME MotionStale /\ WorkerFrame PROVE Kept
  BY <1>26 DEF MotionStale, Inhibit, CallStop, Go
<1>27. ASSUME DispatchUnready /\ WorkerFrame PROVE Kept
  BY <1>27 DEF DispatchUnready, Go
<1>28. ASSUME DispatchSilent /\ WorkerFrame PROVE Kept
  BY <1>28 DEF DispatchSilent, CallStop, Go
<1>29. ASSUME SilenceStopped /\ WorkerFrame PROVE Kept
  BY <1>29 DEF SilenceStopped, Inhibit, Go
<1>30. ASSUME DispatchLater /\ WorkerFrame PROVE Kept
  BY <1>30 DEF DispatchLater, Go, unmoved
<1>31. ASSUME DispatchTake /\ WorkerFrame PROVE Kept
  BY <1>31 DEF DispatchTake, Go
<1>32. ASSUME VelocityRevoked /\ WorkerFrame PROVE Kept
  BY <1>32 DEF VelocityRevoked, SessionEnds, Go, Inhibit
<1>33. ASSUME VelocityRpc /\ WorkerFrame PROVE Kept
  BY <1>33 DEF VelocityRpc, Command, SetParams, Go
<1>34. ASSUME RetryQuery /\ WorkerFrame PROVE Kept
  BY <1>34 DEF RetryQuery, Go, Report, Inhibit
<1>35. ASSUME RetryRpc /\ WorkerFrame PROVE Kept
  BY <1>35 DEF RetryRpc, Command, SetParams, Go
<1>36. ASSUME HaltMotion /\ WorkerFrame PROVE Kept
  BY <1>36 DEF HaltMotion, Inhibit, CallStop, Go
<1>37. ASSUME RecoverNothing /\ WorkerFrame PROVE Kept
  BY <1>37 DEF RecoverNothing, Go, unmoved
<1>38. ASSUME RecoverUncontrolled /\ WorkerFrame PROVE Kept
  BY <1>38 DEF RecoverUncontrolled, Go
<1>39. ASSUME RecoverEscalate /\ WorkerFrame PROVE Kept
  BY <1>39 DEF RecoverEscalate, Command, Halted, Go
<1>40. ASSUME RecoverQuery /\ WorkerFrame PROVE Kept
  BY <1>40 DEF RecoverQuery, Report, Go, CallStop, Inhibit
<1>41. ASSUME Watch /\ WorkerFrame PROVE Kept
  BY <1>41 DEF Watch, GoTop, unmoved, Go
<1>42. ASSUME RpcStale /\ WorkerFrame PROVE Kept
  BY <1>42 DEF RpcStale, Inhibit, CallStop, Go
<1>43. ASSUME CleanUp /\ WorkerFrame PROVE Kept
  BY <1>43 DEF CleanUp, CallStop, Go
<1>44. ASSUME Unlink /\ WorkerFrame PROVE Kept
  BY <1>44 DEF Unlink, Release, Command, Halted, Go, SessionEnds, Inhibit
<1>45. ASSUME Disconnect /\ WorkerFrame PROVE Kept
  BY <1>45 DEF Disconnect, SessionEnds, Go, Inhibit
<1>46. ASSUME StopUncontrolled /\ WorkerFrame PROVE Kept
  BY <1>46 DEF StopUncontrolled, Go
<1>47. ASSUME StopRpc /\ WorkerFrame PROVE Kept
  BY <1>47 DEF StopRpc, Command, Halted, Await, Go
<1>48. ASSUME StopInEmergency /\ WorkerFrame PROVE Kept
  BY <1>48 DEF StopInEmergency, Await, Go
<1>49. ASSUME StopDone /\ WorkerFrame PROVE Kept
  BY <1>49 DEF StopDone, Go
<1>50. ASSUME ConfirmReport /\ WorkerFrame PROVE Kept
  BY <1>50 DEF ConfirmReport, Report, Go, Inhibit
<1>51. ASSUME ConfirmFails /\ WorkerFrame PROVE Kept
  BY <1>51 DEF ConfirmFails, Go
<1>52. ASSUME BadReport /\ WorkerFrame PROVE Kept
  BY <1>52 DEF BadReport, Abort, Inhibit, Go
<1>53. ASSUME AbortStop /\ WorkerFrame PROVE Kept
  BY <1>53 DEF AbortStop, Command, Halted, Answer, Go, GoTop
<1>54. ASSUME NEW c \in Clients, CheckReady(c) PROVE Kept
  BY <1>54 DEF CheckReady
<1>55. ASSUME NEW c \in Clients, SubmitPreparation(c) PROVE Simulated
  <2>1. ASSUME NEW k \in Preparing, Accept(c, k) PROVE AskStep
    BY <1>55, <2>1, AcceptAsks DEF SubmitPreparation
  <2>2. CASE ~\E k \in Preparing : Accept(c, k)
    BY <1>55, <2>2 DEF SubmitPreparation
  <2>3. QED
    BY <2>1, <2>2
<1>56. ASSUME NEW c \in Clients, Return(c) PROVE Kept
  BY <1>56 DEF Return
<1>57. ASSUME NEW c \in Clients, NEW k \in Stopping, SubmitStop(c, k) PROVE Simulated
  <2>1. AskStep
    BY <1>57, AcceptAsks DEF SubmitStop
  <2>2. QED
    BY <2>1
<1>58. ASSUME ControlLost PROVE Kept
  BY <1>58 DEF ControlLost, SessionEnds, Inhibit
<1>59. ASSUME RemoteEmergencyStop PROVE Kept
  BY <1>59 DEF RemoteEmergencyStop, Halted
<1>60. ASSUME Settle PROVE Kept
  BY <1>60 DEF Settle
<1>61. ASSUME PollReport PROVE Kept
  BY <1>61 DEF PollReport, Report, Inhibit
<1>62. ASSUME Move PROVE Kept
  BY <1>62 DEF Move
<1>63. ASSUME Shutdown PROVE Kept
  BY <1>63 DEF Shutdown, Inhibit
<1>64. ASSUME UNCHANGED vars PROVE Kept
  BY <1>64 DEF vars
<1>65. QED
  BY <1>1, <1>2, <1>3, <1>4, <1>5, <1>6, <1>7, <1>8, <1>9, <1>10, <1>11, <1>12, <1>13,
       <1>14, <1>15, <1>16, <1>17, <1>18, <1>19, <1>20, <1>21, <1>22, <1>23, <1>24,
       <1>25, <1>26, <1>27, <1>28, <1>29, <1>30, <1>31, <1>32, <1>33, <1>34, <1>35,
       <1>36, <1>37, <1>38, <1>39, <1>40, <1>41, <1>42, <1>43, <1>44, <1>45, <1>46,
       <1>47, <1>48, <1>49, <1>50, <1>51, <1>52, <1>53, <1>54, <1>55, <1>56, <1>57,
       <1>58, <1>59, <1>60, <1>61, <1>62, <1>63, <1>64 DEF Next, Worker, Job, Round,
       Stop, Confirm, Exception, Service, Environment, Finished

(* CyvetBackend implements MotionPermit: permission, motion and confirmed  *)
(* stops follow what the operator asked for last, whatever jobs, faults,   *)
(* recoveries and lost sessions come in between.                           *)
THEOREM Refinement == Spec => KeepsPromise
<1>1. Init => Permit!Init
  BY DEF Init, Permit!Init, LastAsked, Latest, Driving
<1>2. CyvetInv /\ CyvetInv' /\ [Next]_vars => [Permit!Next]_(Permit!vars)
  BY StepSimulated, SimulatedMaps DEF CyvetInv, TypeOK
<1>3. QED
  BY <1>1, <1>2, InvariantHolds, PTL DEF Spec, KeepsPromise, Permit!Spec
=============================================================================
