------------------------------ MODULE CyvetProofs ------------------------------
(***************************************************************************)
(* What holds of CyvetBackend for any number of services, calls,           *)
(* velocities and faults.  The properties are not inductive: they rest on  *)
(* which job the worker runs at each of its points (JobPart), on the order *)
(* of the tickets (TicketPart, OrderPart), and on what being ready implies *)
(* while the worker stops, confirms and recovers (ReadyPart,               *)
(* PreparationPart, MotionPart).  There is one lemma for each part of the  *)
(* invariant, with one step for each action.                               *)
(***************************************************************************)
EXTENDS CyvetInvariant, TLAPS

(* What no step of the worker changes. *)
WorkerFrame == UNCHANGED <<quitting, kind, ticket, bounds>>

(* Every step keeps the flags Boolean. *)
LEMMA FlagStep ==
    ASSUME FlagTypes, [Next]_vars
    PROVE  FlagTypes'
<1> USE DEF FlagTypes, WorkerFrame, permit, halt, link, locals, drive, calling
<1>1. ASSUME NEW c \in Clients, TakeJob(c), WorkerFrame PROVE FlagTypes'
  BY <1>1 DEF TakeJob
<1>2. CASE JobFails /\ WorkerFrame
  BY <1>2 DEF JobFails
<1>3. CASE AcquireRpc /\ WorkerFrame
  BY <1>3 DEF AcquireRpc, SessionEnds, Inhibit
<1>4. CASE Acquired /\ WorkerFrame
  BY <1>4 DEF Acquired
<1>5. CASE StandBegin /\ WorkerFrame
  BY <1>5 DEF StandBegin, Controlled
<1>6. CASE StandQuery /\ WorkerFrame
  BY <1>6, ZenonT(60) DEF StandQuery, QueryOutcomes, Report, Interrupted, Token, Controlled,
       Inhibit, Nobody, None
<1>7. CASE StandWalk /\ WorkerFrame
  BY <1>7 DEF StandWalk
<1>8. CASE StandDone /\ WorkerFrame
  BY <1>8, ZenonT(60) DEF StandDone
<1>9. CASE GiveUp /\ WorkerFrame
  BY <1>9 DEF GiveUp
<1>10. CASE GiveUpStopped /\ WorkerFrame
  BY <1>10 DEF GiveUpStopped, Release, SessionEnds, Inhibit
<1>11. CASE ProfileBegin /\ WorkerFrame
  BY <1>11 DEF ProfileBegin
<1>12. CASE ProfileSet /\ WorkerFrame
  BY <1>12 DEF ProfileSet
<1>13. CASE ProfileDone /\ WorkerFrame
  BY <1>13 DEF ProfileDone
<1>14. CASE ProfileFailed /\ WorkerFrame
  BY <1>14 DEF ProfileFailed, Inhibit
<1>15. CASE ReleaseBegin /\ WorkerFrame
  BY <1>15 DEF ReleaseBegin
<1>16. CASE ReleaseStopped /\ WorkerFrame
  BY <1>16 DEF ReleaseStopped, Release, SessionEnds, Inhibit
<1>17. CASE LieBegin /\ WorkerFrame
  BY <1>17 DEF LieBegin
<1>18. CASE LieAction /\ WorkerFrame
  BY <1>18 DEF LieAction
<1>19. CASE LieDone /\ WorkerFrame
  <2>1. CASE UNCHANGED <<permit, link>>
    BY <1>19, <2>1 DEF FlagTypes, LieDone, WorkerFrame, permit, halt, link, drive, calling
  <2>2. CASE SessionEnds("connected")
    BY <1>19, <2>2 DEF FlagTypes, LieDone, SessionEnds, Inhibit, WorkerFrame, halt, drive, calling
  <2>3. QED
    BY <1>19, <2>1, <2>2 DEF LieDone, Release
<1>20. CASE Estop /\ WorkerFrame
  BY <1>20 DEF Estop
<1>21. CASE EstopDone /\ WorkerFrame
  BY <1>21 DEF EstopDone
<1>22. CASE NoJob /\ WorkerFrame
  BY <1>22 DEF NoJob, unmoved
<1>23. CASE Posted /\ WorkerFrame
  BY <1>23 DEF Posted, QueryOutcomes, Report, Controlled, Inhibit, None
<1>24. CASE Loop /\ WorkerFrame
  BY <1>24 DEF Loop, unmoved
<1>25. CASE Reconnect /\ WorkerFrame
  BY <1>25 DEF Reconnect, GoTop
<1>26. CASE MotionStale /\ WorkerFrame
  BY <1>26 DEF MotionStale, Inhibit
<1>27. CASE DispatchUnready /\ WorkerFrame
  BY <1>27 DEF DispatchUnready
<1>28. CASE DispatchSilent /\ WorkerFrame
  BY <1>28 DEF DispatchSilent
<1>29. CASE SilenceStopped /\ WorkerFrame
  BY <1>29 DEF SilenceStopped, Inhibit
<1>30. CASE DispatchLater /\ WorkerFrame
  BY <1>30 DEF DispatchLater, unmoved
<1>31. CASE DispatchTake /\ WorkerFrame
  BY <1>31 DEF DispatchTake
<1>32. CASE VelocityRevoked /\ WorkerFrame
  BY <1>32 DEF VelocityRevoked, SessionEnds, Inhibit
<1>33. CASE VelocityRpc /\ WorkerFrame
  BY <1>33 DEF VelocityRpc
<1>34. CASE RetryQuery /\ WorkerFrame
  <2>1. CASE UNCHANGED <<permit, link, estopLatched>>
    BY <1>34, <2>1 DEF FlagTypes, RetryQuery, WorkerFrame, permit, link, locals, calling
  <2>2. CASE Report
    BY <1>34, <2>2 DEF FlagTypes, RetryQuery, Report, Controlled, Inhibit, WorkerFrame, permit,
       locals, calling
  <2>3. QED
    BY <1>34, <2>1, <2>2 DEF RetryQuery
<1>35. CASE RetryRpc /\ WorkerFrame
  BY <1>35 DEF RetryRpc
<1>36. CASE HaltMotion /\ WorkerFrame
  BY <1>36 DEF HaltMotion, Inhibit
<1>37. CASE RecoverNothing /\ WorkerFrame
  BY <1>37 DEF RecoverNothing, unmoved
<1>38. CASE RecoverUncontrolled /\ WorkerFrame
  BY <1>38 DEF RecoverUncontrolled
<1>39. CASE RecoverEscalate /\ WorkerFrame
  BY <1>39 DEF RecoverEscalate
<1>40. CASE RecoverQuery /\ WorkerFrame
  BY <1>40, ZenonT(60) DEF RecoverQuery, QueryOutcomes, Report, Controlled, Inhibit, None
<1>41. CASE Watch /\ WorkerFrame
  BY <1>41 DEF Watch, GoTop, unmoved
<1>42. CASE RpcStale /\ WorkerFrame
  BY <1>42 DEF RpcStale, Inhibit
<1>43. CASE CleanUp /\ WorkerFrame
  BY <1>43 DEF CleanUp
<1>44. CASE Unlink /\ WorkerFrame
  BY <1>44, ZenonT(60) DEF Unlink, Release, SessionEnds, Inhibit
<1>45. CASE Disconnect /\ WorkerFrame
  BY <1>45 DEF Disconnect, SessionEnds, Inhibit
<1>46. CASE StopUncontrolled /\ WorkerFrame
  BY <1>46 DEF StopUncontrolled
<1>47. CASE StopRpc /\ WorkerFrame
  BY <1>47 DEF StopRpc
<1>48. CASE StopInEmergency /\ WorkerFrame
  BY <1>48 DEF StopInEmergency
<1>49. CASE StopDone /\ WorkerFrame
  BY <1>49 DEF StopDone
<1>50. CASE ConfirmReport /\ WorkerFrame
  BY <1>50 DEF ConfirmReport, Controlled, Canceled, Report, Confirmed, Cancellable,
       Interrupted, Inhibit, None
<1>51. CASE ConfirmFails /\ WorkerFrame
  BY <1>51 DEF ConfirmFails
<1>52. CASE BadReport /\ WorkerFrame
  BY <1>52 DEF BadReport, Abort, Inhibit
<1>53. CASE AbortStop /\ WorkerFrame
  BY <1>53 DEF AbortStop, GoTop
<1>54. ASSUME NEW c \in Clients, CheckReady(c) PROVE FlagTypes'
  BY <1>54 DEF CheckReady, Calls
<1>55. ASSUME NEW c \in Clients, SubmitPreparation(c) PROVE FlagTypes'
  BY <1>55 DEF SubmitPreparation, Calls, Accept, Inhibit
<1>56. ASSUME NEW c \in Clients, Return(c) PROVE FlagTypes'
  BY <1>56 DEF Return
<1>57. ASSUME NEW c \in Clients, NEW k \in Stopping, SubmitStop(c, k) PROVE FlagTypes'
  BY <1>57 DEF SubmitStop, Calls, Accept, Inhibit
<1>58. CASE ControlLost
  BY <1>58 DEF ControlLost, SessionEnds, Inhibit
<1>59. CASE RemoteEmergencyStop
  BY <1>59 DEF RemoteEmergencyStop
<1>60. CASE Settle
  BY <1>60 DEF Settle
<1>61. CASE PollReport
  BY <1>61 DEF PollReport, Report, Controlled, Inhibit, None
<1>62. CASE Move
  BY <1>62 DEF Move
<1>63. CASE Shutdown
  BY <1>63 DEF Shutdown, Inhibit
<1>64. CASE UNCHANGED vars
  BY <1>64 DEF vars
<1>65. QED
  BY <1>1, <1>2, <1>3, <1>4, <1>5, <1>6, <1>7, <1>8, <1>9, <1>10, <1>11, <1>12, <1>13,
       <1>14, <1>15, <1>16, <1>17, <1>18, <1>19, <1>20, <1>21, <1>22, <1>23, <1>24,
       <1>25, <1>26, <1>27, <1>28, <1>29, <1>30, <1>31, <1>32, <1>33, <1>34, <1>35,
       <1>36, <1>37, <1>38, <1>39, <1>40, <1>41, <1>42, <1>43, <1>44, <1>45, <1>46,
       <1>47, <1>48, <1>49, <1>50, <1>51, <1>52, <1>53, <1>54, <1>55, <1>56, <1>57,
       <1>58, <1>59, <1>60, <1>61, <1>62, <1>63, <1>64 DEF Next, Worker, Job, Round,
       Stop, Confirm, Exception, Service, Environment, Finished

(* Every step keeps the session, the actions, the motion and the labels of *)
(* the worker in their ranges.                                             *)
LEMMA LinkStep ==
    ASSUME TypeOK, JobPart, [Next]_vars
    PROVE  LinkTypes'
<1> USE DEF TypeOK, LinkTypes, Labels, Actions, ServiceTypes, Preparing, Stopping,
         WorkerFrame, link, waiting, device, calling
<1>1. ASSUME NEW c \in Clients, TakeJob(c), WorkerFrame PROVE LinkTypes'
  <2>1. kind[c] \in Preparing \union Stopping
    BY <1>1 DEF TakeJob, Waiting, TypeOK, ServiceTypes, JobPart
  <2>2. QED
    BY <1>1, <2>1 DEF TypeOK, LinkTypes, Labels, TakeJob, Go, Preparing, Stopping, link, calling,
       waiting, device
<1>2. CASE JobFails /\ WorkerFrame
  BY <1>2 DEF JobFails, Answer, Go
<1>3. CASE AcquireRpc /\ WorkerFrame
  BY <1>3 DEF AcquireRpc, Interrupted, Token, Go, permit, reply, Charge, SessionEnds,
       Answer, halt, drive, Inhibit, Nobody, None
<1>4. CASE Acquired /\ WorkerFrame
  BY <1>4 DEF Acquired, Go
<1>5. CASE StandBegin /\ WorkerFrame
  BY <1>5 DEF StandBegin, Go
<1>6. CASE StandQuery /\ WorkerFrame
  BY <1>6 DEF StandQuery, Report, Answer, Go
<1>7. CASE StandWalk /\ WorkerFrame
  BY <1>7 DEF StandWalk, Command, SetParams, Halted, Await, Go
<1>8. CASE StandDone /\ WorkerFrame
  BY <1>8 DEF StandDone, Go, Answer
<1>9. CASE GiveUp /\ WorkerFrame
  BY <1>9 DEF GiveUp, CallStop, Go
<1>10. CASE GiveUpStopped /\ WorkerFrame
  BY <1>10 DEF GiveUpStopped, Release, Answer, SessionEnds, Go
<1>11. CASE ProfileBegin /\ WorkerFrame
  BY <1>11 DEF ProfileBegin, CallStop, Answer, Go
<1>12. CASE ProfileSet /\ WorkerFrame
  BY <1>12 DEF ProfileSet, Command, SetParams, Await, Go
<1>13. CASE ProfileDone /\ WorkerFrame
  BY <1>13 DEF ProfileDone, Answer, Go
<1>14. CASE ProfileFailed /\ WorkerFrame
  BY <1>14 DEF ProfileFailed, CallStop, Go
<1>15. CASE ReleaseBegin /\ WorkerFrame
  BY <1>15 DEF ReleaseBegin, CallStop, Answer, Go
<1>16. CASE ReleaseStopped /\ WorkerFrame
  BY <1>16 DEF ReleaseStopped, Release, Answer, SessionEnds, Go
<1>17. CASE LieBegin /\ WorkerFrame
  BY <1>17 DEF LieBegin, CallStop, Go
<1>18. CASE LieAction /\ WorkerFrame
  BY <1>18 DEF LieAction, Command, Halted, Await, Go
<1>19. CASE LieDone /\ WorkerFrame
  BY <1>19 DEF LieDone, Go, Release, Answer, SessionEnds
<1>20. CASE Estop /\ WorkerFrame
  BY <1>20 DEF Estop, Command, Halted, Await, Answer, Go
<1>21. CASE EstopDone /\ WorkerFrame
  BY <1>21 DEF EstopDone, Answer, Go
<1>22. CASE NoJob /\ WorkerFrame
  BY <1>22 DEF NoJob, Go, unmoved
<1>23. CASE Posted /\ WorkerFrame
  BY <1>23 DEF Posted, Report, Go
<1>24. CASE Loop /\ WorkerFrame
  BY <1>24 DEF Loop, Go, unmoved
<1>25. CASE Reconnect /\ WorkerFrame
  BY <1>25 DEF Reconnect, GoTop, Go
<1>26. CASE MotionStale /\ WorkerFrame
  BY <1>26 DEF MotionStale, CallStop, Go
<1>27. CASE DispatchUnready /\ WorkerFrame
  BY <1>27 DEF DispatchUnready, Go
<1>28. CASE DispatchSilent /\ WorkerFrame
  BY <1>28 DEF DispatchSilent, CallStop, Go
<1>29. CASE SilenceStopped /\ WorkerFrame
  BY <1>29 DEF SilenceStopped, Go
<1>30. CASE DispatchLater /\ WorkerFrame
  BY <1>30 DEF DispatchLater, Go, unmoved
<1>31. CASE DispatchTake /\ WorkerFrame
  BY <1>31 DEF DispatchTake, Go
<1>32. CASE VelocityRevoked /\ WorkerFrame
  BY <1>32 DEF VelocityRevoked, SessionEnds, Go
<1>33. CASE VelocityRpc /\ WorkerFrame
  BY <1>33 DEF VelocityRpc, Command, SetParams, Go
<1>34. CASE RetryQuery /\ WorkerFrame
  BY <1>34 DEF RetryQuery, permit, MayRetry, Go, Charge, Report, locals, Interrupted,
       Controlled, Inhibit, None
<1>35. CASE RetryRpc /\ WorkerFrame
  BY <1>35 DEF RetryRpc, Command, SetParams, Go
<1>36. CASE HaltMotion /\ WorkerFrame
  BY <1>36 DEF HaltMotion, CallStop, Go
<1>37. CASE RecoverNothing /\ WorkerFrame
  BY <1>37 DEF RecoverNothing, Go, unmoved
<1>38. CASE RecoverUncontrolled /\ WorkerFrame
  BY <1>38 DEF RecoverUncontrolled, Go
<1>39. CASE RecoverEscalate /\ WorkerFrame
  <2>1. UNCHANGED device \/ Halted("emergencyStop")
    BY <1>39 DEF RecoverEscalate, Command
  <2>2. devAction' \in Actions /\ motion' \in {"moving", "slowing", "still"}
    BY <1>39, <2>1 DEF TypeOK, LinkTypes, Halted, Actions, device
  <2>3. QED
    BY <1>39, <2>2 DEF TypeOK, LinkTypes, Labels, RecoverEscalate, Go, link, calling, waiting
<1>40. CASE RecoverQuery /\ WorkerFrame
  BY <1>40 DEF RecoverQuery, Report, Go, CallStop
<1>41. CASE Watch /\ WorkerFrame
  BY <1>41 DEF Watch, GoTop, unmoved, Go
<1>42. CASE RpcStale /\ WorkerFrame
  BY <1>42 DEF RpcStale, CallStop, Go
<1>43. CASE CleanUp /\ WorkerFrame
  BY <1>43 DEF CleanUp, CallStop, Go
<1>44. CASE Unlink /\ WorkerFrame
  BY <1>44 DEF Unlink, Release, Command, Halted, Go, SessionEnds
<1>45. CASE Disconnect /\ WorkerFrame
  BY <1>45 DEF Disconnect, SessionEnds, Go
<1>46. CASE StopUncontrolled /\ WorkerFrame
  BY <1>46 DEF StopUncontrolled, Go
<1>47. CASE StopRpc /\ WorkerFrame
  BY <1>47 DEF StopRpc, Command, Halted, Await, Go
<1>48. CASE StopInEmergency /\ WorkerFrame
  BY <1>48 DEF StopInEmergency, Await, Go
<1>49. CASE StopDone /\ WorkerFrame
  BY <1>49 DEF StopDone, Go
<1>50. CASE ConfirmReport /\ WorkerFrame
  BY <1>50 DEF ConfirmReport, Report, Go
<1>51. CASE ConfirmFails /\ WorkerFrame
  BY <1>51 DEF ConfirmFails, Go
<1>52. CASE BadReport /\ WorkerFrame
  BY <1>52 DEF BadReport, Abort, Go
<1>53. CASE AbortStop /\ WorkerFrame
  BY <1>53 DEF AbortStop, Command, Halted, Answer, Go, GoTop
<1>54. ASSUME NEW c \in Clients, CheckReady(c) PROVE LinkTypes'
  BY <1>54 DEF CheckReady
<1>55. ASSUME NEW c \in Clients, SubmitPreparation(c) PROVE LinkTypes'
  BY <1>55 DEF SubmitPreparation
<1>56. ASSUME NEW c \in Clients, Return(c) PROVE LinkTypes'
  BY <1>56 DEF Return
<1>57. ASSUME NEW c \in Clients, NEW k \in Stopping, SubmitStop(c, k) PROVE LinkTypes'
  BY <1>57 DEF SubmitStop
<1>58. CASE ControlLost
  BY <1>58 DEF ControlLost, SessionEnds
<1>59. CASE RemoteEmergencyStop
  BY <1>59 DEF RemoteEmergencyStop, Halted
<1>60. CASE Settle
  BY <1>60 DEF Settle
<1>61. CASE PollReport
  BY <1>61 DEF PollReport, Report
<1>62. CASE Move
  BY <1>62 DEF Move
<1>63. CASE Shutdown
  BY <1>63 DEF Shutdown
<1>64. CASE UNCHANGED vars
  BY <1>64 DEF vars
<1>65. QED
  BY <1>1, <1>2, <1>3, <1>4, <1>5, <1>6, <1>7, <1>8, <1>9, <1>10, <1>11, <1>12, <1>13,
       <1>14, <1>15, <1>16, <1>17, <1>18, <1>19, <1>20, <1>21, <1>22, <1>23, <1>24,
       <1>25, <1>26, <1>27, <1>28, <1>29, <1>30, <1>31, <1>32, <1>33, <1>34, <1>35,
       <1>36, <1>37, <1>38, <1>39, <1>40, <1>41, <1>42, <1>43, <1>44, <1>45, <1>46,
       <1>47, <1>48, <1>49, <1>50, <1>51, <1>52, <1>53, <1>54, <1>55, <1>56, <1>57,
       <1>58, <1>59, <1>60, <1>61, <1>62, <1>63, <1>64 DEF Next, Worker, Job, Round,
       Stop, Confirm, Exception, Service, Environment, Finished

(* Every step keeps the generations natural and the counters within bounds. *)
LEMMA NumberStep ==
    ASSUME TypeOK, JobPart, [Next]_vars
    PROVE  NumberTypes'
<1> USE BoundsAssumption DEF TypeOK, NumberTypes, ServiceTypes, WorkerFrame, permit,
         waiting, bounds, calling
<1>1. ASSUME NEW c \in Clients, TakeJob(c), WorkerFrame PROVE NumberTypes'
  BY <1>1 DEF TakeJob
<1>2. CASE JobFails /\ WorkerFrame
  BY <1>2 DEF JobFails
<1>3. CASE AcquireRpc /\ WorkerFrame
  BY <1>3 DEF AcquireRpc, Charge, SessionEnds, Inhibit
<1>4. CASE Acquired /\ WorkerFrame
  BY <1>4 DEF Acquired
<1>5. CASE StandBegin /\ WorkerFrame
  BY <1>5 DEF StandBegin
<1>6. CASE StandQuery /\ WorkerFrame
  BY <1>6 DEF StandQuery, ChargeRpc, Report, Charge, Inhibit
<1>7. CASE StandWalk /\ WorkerFrame
  <2>1. job \in Clients /\ Token \in Nat
    BY <1>7 DEF StandWalk, TypeOK, ServiceTypes, JobPart, Point, KindsAt, Token
  <2>2. token' = token \/ token' = Token
    BY <1>7 DEF StandWalk, Await, waiting
  <2>3. QED
    <3>1. UNCHANGED <<permit, bounds>>
      BY <1>7 DEF StandWalk, WorkerFrame
    <3>2. faults' \in 0 .. MaxFaults
      BY <1>7, BoundsAssumption DEF StandWalk, TypeOK, NumberTypes, ChargeRpc, Charge
    <3>3. QED
      BY <2>1, <2>2, <3>1, <3>2 DEF TypeOK, NumberTypes, permit, bounds
<1>8. CASE StandDone /\ WorkerFrame
  BY <1>8 DEF StandDone
<1>9. CASE GiveUp /\ WorkerFrame
  BY <1>9 DEF GiveUp
<1>10. CASE GiveUpStopped /\ WorkerFrame
  BY <1>10 DEF GiveUpStopped, Release, Charge, SessionEnds, Inhibit
<1>11. CASE ProfileBegin /\ WorkerFrame
  BY <1>11 DEF ProfileBegin
<1>12. CASE ProfileSet /\ WorkerFrame
  BY <1>12 DEF ProfileSet, Interrupted, Token, Outcomes, ChargeRpc, Await, Controlled,
       Charge, Applied
<1>13. CASE ProfileDone /\ WorkerFrame
  BY <1>13 DEF ProfileDone
<1>14. CASE ProfileFailed /\ WorkerFrame
  BY <1>14 DEF ProfileFailed, Inhibit
<1>15. CASE ReleaseBegin /\ WorkerFrame
  BY <1>15 DEF ReleaseBegin
<1>16. CASE ReleaseStopped /\ WorkerFrame
  BY <1>16 DEF ReleaseStopped, Release, Charge, SessionEnds, Inhibit
<1>17. CASE LieBegin /\ WorkerFrame
  BY <1>17 DEF LieBegin
<1>18. CASE LieAction /\ WorkerFrame
  <2>1. job \in Clients /\ Token \in Nat
    BY <1>18 DEF LieAction, TypeOK, ServiceTypes, JobPart, Point, KindsAt, Token
  <2>2. token' = token \/ token' = Token
    BY <1>18 DEF LieAction, Await, waiting
  <2>3. QED
    <3>1. UNCHANGED <<permit, bounds>>
      BY <1>18 DEF LieAction, WorkerFrame
    <3>2. faults' \in 0 .. MaxFaults
      BY <1>18, BoundsAssumption DEF LieAction, TypeOK, NumberTypes, ChargeRpc, Charge
    <3>3. QED
      BY <2>1, <2>2, <3>1, <3>2 DEF TypeOK, NumberTypes, permit, bounds
<1>19. CASE LieDone /\ WorkerFrame
  BY <1>19 DEF LieDone, Release, Charge, SessionEnds, Inhibit
<1>20. CASE Estop /\ WorkerFrame
  <2>1. job \in Clients /\ Token \in Nat
    BY <1>20 DEF Estop, TypeOK, ServiceTypes, JobPart, Point, KindsAt, Token
  <2>2. token' = token \/ token' = Token
    BY <1>20 DEF Estop, Await, waiting
  <2>3. QED
    <3>1. UNCHANGED <<permit, bounds>>
      BY <1>20 DEF Estop, WorkerFrame
    <3>2. faults' \in 0 .. MaxFaults
      BY <1>20, BoundsAssumption DEF Estop, TypeOK, NumberTypes, ChargeRpc, Charge
    <3>3. QED
      BY <2>1, <2>2, <3>1, <3>2 DEF TypeOK, NumberTypes, permit, bounds
<1>21. CASE EstopDone /\ WorkerFrame
  BY <1>21 DEF EstopDone
<1>22. CASE NoJob /\ WorkerFrame
  BY <1>22 DEF NoJob, unmoved
<1>23. CASE Posted /\ WorkerFrame
  BY <1>23 DEF Posted, ChargeRpc, Report, Charge, Inhibit
<1>24. CASE Loop /\ WorkerFrame
  BY <1>24 DEF Loop, unmoved
<1>25. CASE Reconnect /\ WorkerFrame
  BY <1>25 DEF Reconnect
<1>26. CASE MotionStale /\ WorkerFrame
  BY <1>26 DEF MotionStale, Charge, Inhibit
<1>27. CASE DispatchUnready /\ WorkerFrame
  BY <1>27 DEF DispatchUnready
<1>28. CASE DispatchSilent /\ WorkerFrame
  BY <1>28 DEF DispatchSilent
<1>29. CASE SilenceStopped /\ WorkerFrame
  BY <1>29 DEF SilenceStopped, Inhibit
<1>30. CASE DispatchLater /\ WorkerFrame
  BY <1>30 DEF DispatchLater, unmoved
<1>31. CASE DispatchTake /\ WorkerFrame
  BY <1>31 DEF DispatchTake
<1>32. CASE VelocityRevoked /\ WorkerFrame
  BY <1>32 DEF VelocityRevoked, Charge, SessionEnds, Inhibit
<1>33. CASE VelocityRpc /\ WorkerFrame
  BY <1>33 DEF VelocityRpc, ChargeRpc, Charge
<1>34. CASE RetryQuery /\ WorkerFrame
  BY <1>34 DEF RetryQuery, Charge, Report, Inhibit
<1>35. CASE RetryRpc /\ WorkerFrame
  BY <1>35 DEF RetryRpc, ChargeRpc, Charge
<1>36. CASE HaltMotion /\ WorkerFrame
  BY <1>36 DEF HaltMotion, Inhibit
<1>37. CASE RecoverNothing /\ WorkerFrame
  BY <1>37 DEF RecoverNothing, unmoved
<1>38. CASE RecoverUncontrolled /\ WorkerFrame
  BY <1>38 DEF RecoverUncontrolled
<1>39. CASE RecoverEscalate /\ WorkerFrame
  <2>1. UNCHANGED <<permit, token, bounds>>
    BY <1>39 DEF RecoverEscalate, WorkerFrame, calling, waiting
  <2>2. UNCHANGED faults \/ \E o \in Outcomes : ChargeRpc(o)
    BY <1>39 DEF RecoverEscalate
  <2>3. faults' \in 0 .. MaxFaults
    BY <2>2, BoundsAssumption DEF TypeOK, NumberTypes, ChargeRpc, Charge
  <2>4. QED
    BY <2>1, <2>3 DEF TypeOK, NumberTypes, permit, bounds
<1>40. CASE RecoverQuery /\ WorkerFrame
  BY <1>40 DEF RecoverQuery, ChargeRpc, Report, Charge, Inhibit
<1>41. CASE Watch /\ WorkerFrame
  BY <1>41 DEF Watch, unmoved
<1>42. CASE RpcStale /\ WorkerFrame
  BY <1>42 DEF RpcStale, Charge, Inhibit
<1>43. CASE CleanUp /\ WorkerFrame
  BY <1>43 DEF CleanUp
<1>44. CASE Unlink /\ WorkerFrame
  BY <1>44 DEF Unlink, Release, ChargeRpc, Charge, SessionEnds, Inhibit
<1>45. CASE Disconnect /\ WorkerFrame
  BY <1>45 DEF Disconnect, SessionEnds, Inhibit
<1>46. CASE StopUncontrolled /\ WorkerFrame
  BY <1>46 DEF StopUncontrolled
<1>47. CASE StopRpc /\ WorkerFrame
  BY <1>47 DEF StopRpc, ChargeRpc, Await, Charge
<1>48. CASE StopInEmergency /\ WorkerFrame
  BY <1>48 DEF StopInEmergency, Await
<1>49. CASE StopDone /\ WorkerFrame
  BY <1>49 DEF StopDone
<1>50. CASE ConfirmReport /\ WorkerFrame
  BY <1>50 DEF ConfirmReport, Report, Inhibit
<1>51. CASE ConfirmFails /\ WorkerFrame
  BY <1>51 DEF ConfirmFails, Charge
<1>52. CASE BadReport /\ WorkerFrame
  BY <1>52 DEF BadReport, Charge, Abort, Inhibit
<1>53. CASE AbortStop /\ WorkerFrame
  BY <1>53 DEF AbortStop, ChargeRpc, Charge
<1>54. ASSUME NEW c \in Clients, CheckReady(c) PROVE NumberTypes'
  BY <1>54 DEF CheckReady, Calls
<1>55. ASSUME NEW c \in Clients, SubmitPreparation(c) PROVE NumberTypes'
  BY <1>55 DEF SubmitPreparation, Calls, Accept, Inhibit
<1>56. ASSUME NEW c \in Clients, Return(c) PROVE NumberTypes'
  BY <1>56 DEF Return
<1>57. ASSUME NEW c \in Clients, NEW k \in Stopping, SubmitStop(c, k) PROVE NumberTypes'
  BY <1>57 DEF SubmitStop, Calls, Accept, Inhibit
<1>58. CASE ControlLost
  BY <1>58 DEF ControlLost, Charge, SessionEnds, Inhibit
<1>59. CASE RemoteEmergencyStop
  BY <1>59 DEF RemoteEmergencyStop, Charge
<1>60. CASE Settle
  BY <1>60 DEF Settle
<1>61. CASE PollReport
  BY <1>61 DEF PollReport, Report, Inhibit
<1>62. CASE Move
  BY <1>62 DEF Move
<1>63. CASE Shutdown
  BY <1>63 DEF Shutdown, Inhibit
<1>64. CASE UNCHANGED vars
  BY <1>64 DEF vars
<1>65. QED
  BY <1>1, <1>2, <1>3, <1>4, <1>5, <1>6, <1>7, <1>8, <1>9, <1>10, <1>11, <1>12, <1>13,
       <1>14, <1>15, <1>16, <1>17, <1>18, <1>19, <1>20, <1>21, <1>22, <1>23, <1>24,
       <1>25, <1>26, <1>27, <1>28, <1>29, <1>30, <1>31, <1>32, <1>33, <1>34, <1>35,
       <1>36, <1>37, <1>38, <1>39, <1>40, <1>41, <1>42, <1>43, <1>44, <1>45, <1>46,
       <1>47, <1>48, <1>49, <1>50, <1>51, <1>52, <1>53, <1>54, <1>55, <1>56, <1>57,
       <1>58, <1>59, <1>60, <1>61, <1>62, <1>63, <1>64 DEF Next, Worker, Job, Round,
       Stop, Confirm, Exception, Service, Environment, Finished

(* Every step keeps the tables of the services and the job in their ranges. *)
LEMMA ServiceStep ==
    ASSUME TypeOK, JobPart, [Next]_vars
    PROVE  ServiceTypes'
<1> USE DEF TypeOK, ServiceTypes, NumberTypes, JobPart, KindsAt, Point, WorkerFrame, locals,
         services, reply
<1>1. ASSUME NEW c \in Clients, TakeJob(c), WorkerFrame PROVE ServiceTypes'
  BY <1>1 DEF TakeJob, Waiting, First
<1>2. CASE JobFails /\ WorkerFrame
  BY <1>2 DEF JobFails, Answer
<1>3. CASE AcquireRpc /\ WorkerFrame
  BY <1>3 DEF AcquireRpc, Answer
<1>4. CASE Acquired /\ WorkerFrame
  BY <1>4 DEF Acquired
<1>5. CASE StandBegin /\ WorkerFrame
  BY <1>5 DEF StandBegin
<1>6. CASE StandQuery /\ WorkerFrame
  BY <1>6 DEF StandQuery, Answer
<1>7. CASE StandWalk /\ WorkerFrame
  BY <1>7 DEF StandWalk
<1>8. CASE StandDone /\ WorkerFrame
  BY <1>8 DEF StandDone, Answer
<1>9. CASE GiveUp /\ WorkerFrame
  BY <1>9 DEF GiveUp
<1>10. CASE GiveUpStopped /\ WorkerFrame
  BY <1>10 DEF GiveUpStopped, Answer
<1>11. CASE ProfileBegin /\ WorkerFrame
  BY <1>11 DEF ProfileBegin, Answer
<1>12. CASE ProfileSet /\ WorkerFrame
  BY <1>12 DEF ProfileSet
<1>13. CASE ProfileDone /\ WorkerFrame
  BY <1>13 DEF ProfileDone, Answer
<1>14. CASE ProfileFailed /\ WorkerFrame
  BY <1>14 DEF ProfileFailed
<1>15. CASE ReleaseBegin /\ WorkerFrame
  BY <1>15 DEF ReleaseBegin, Answer
<1>16. CASE ReleaseStopped /\ WorkerFrame
  BY <1>16 DEF ReleaseStopped, Answer
<1>17. CASE LieBegin /\ WorkerFrame
  BY <1>17 DEF LieBegin
<1>18. CASE LieAction /\ WorkerFrame
  BY <1>18 DEF LieAction
<1>19. CASE LieDone /\ WorkerFrame
  BY <1>19 DEF LieDone, Answer
<1>20. CASE Estop /\ WorkerFrame
  BY <1>20 DEF Estop, Answer
<1>21. CASE EstopDone /\ WorkerFrame
  BY <1>21 DEF EstopDone, Answer
<1>22. CASE NoJob /\ WorkerFrame
  BY <1>22 DEF NoJob, Waiting, unmoved
<1>23. CASE Posted /\ WorkerFrame
  BY <1>23 DEF Posted
<1>24. CASE Loop /\ WorkerFrame
  BY <1>24 DEF Loop, unmoved
<1>25. CASE Reconnect /\ WorkerFrame
  BY <1>25 DEF Reconnect
<1>26. CASE MotionStale /\ WorkerFrame
  BY <1>26 DEF MotionStale
<1>27. CASE DispatchUnready /\ WorkerFrame
  BY <1>27 DEF DispatchUnready
<1>28. CASE DispatchSilent /\ WorkerFrame
  BY <1>28 DEF DispatchSilent
<1>29. CASE SilenceStopped /\ WorkerFrame
  BY <1>29 DEF SilenceStopped
<1>30. CASE DispatchLater /\ WorkerFrame
  BY <1>30 DEF DispatchLater, unmoved
<1>31. CASE DispatchTake /\ WorkerFrame
  BY <1>31 DEF DispatchTake
<1>32. CASE VelocityRevoked /\ WorkerFrame
  BY <1>32 DEF VelocityRevoked
<1>33. CASE VelocityRpc /\ WorkerFrame
  BY <1>33 DEF VelocityRpc
<1>34. CASE RetryQuery /\ WorkerFrame
  BY <1>34 DEF RetryQuery
<1>35. CASE RetryRpc /\ WorkerFrame
  BY <1>35 DEF RetryRpc
<1>36. CASE HaltMotion /\ WorkerFrame
  BY <1>36 DEF HaltMotion
<1>37. CASE RecoverNothing /\ WorkerFrame
  BY <1>37 DEF RecoverNothing, unmoved
<1>38. CASE RecoverUncontrolled /\ WorkerFrame
  BY <1>38 DEF RecoverUncontrolled
<1>39. CASE RecoverEscalate /\ WorkerFrame
  BY <1>39 DEF RecoverEscalate
<1>40. CASE RecoverQuery /\ WorkerFrame
  BY <1>40 DEF RecoverQuery
<1>41. CASE Watch /\ WorkerFrame
  BY <1>41 DEF Watch, unmoved
<1>42. CASE RpcStale /\ WorkerFrame
  BY <1>42 DEF RpcStale
<1>43. CASE CleanUp /\ WorkerFrame
  BY <1>43 DEF CleanUp
<1>44. CASE Unlink /\ WorkerFrame
  BY <1>44 DEF Unlink
<1>45. CASE Disconnect /\ WorkerFrame
  BY <1>45 DEF Disconnect
<1>46. CASE StopUncontrolled /\ WorkerFrame
  BY <1>46 DEF StopUncontrolled
<1>47. CASE StopRpc /\ WorkerFrame
  BY <1>47 DEF StopRpc
<1>48. CASE StopInEmergency /\ WorkerFrame
  BY <1>48 DEF StopInEmergency
<1>49. CASE StopDone /\ WorkerFrame
  BY <1>49 DEF StopDone
<1>50. CASE ConfirmReport /\ WorkerFrame
  BY <1>50 DEF ConfirmReport
<1>51. CASE ConfirmFails /\ WorkerFrame
  BY <1>51 DEF ConfirmFails
<1>52. CASE BadReport /\ WorkerFrame
  BY <1>52 DEF BadReport
<1>53. CASE AbortStop /\ WorkerFrame
  BY <1>53 DEF AbortStop, Answer
<1>54. ASSUME NEW c \in Clients, CheckReady(c) PROVE ServiceTypes'
  BY <1>54 DEF CheckReady, Calls
<1>55. ASSUME NEW c \in Clients, SubmitPreparation(c) PROVE ServiceTypes'
  <2>1. CASE UNCHANGED <<permit, kind, ticket, result>> /\ pc' = [pc EXCEPT ![c] = "idle"]
    BY <1>55, <2>1 DEF TypeOK, ServiceTypes, SubmitPreparation, locals
  <2>2. ASSUME NEW k \in Preparing, Accept(c, k) PROVE ServiceTypes'
    BY <1>55, <2>2 DEF TypeOK, ServiceTypes, NumberTypes, SubmitPreparation, Accept, Inhibit, locals
  <2>3. QED
    BY <1>55, <2>1, <2>2 DEF SubmitPreparation, Preparing
<1>56. ASSUME NEW c \in Clients, Return(c) PROVE ServiceTypes'
  BY <1>56 DEF Return
<1>57. ASSUME NEW c \in Clients, NEW k \in Stopping, SubmitStop(c, k) PROVE ServiceTypes'
  BY <1>57 DEF SubmitStop, Calls, Accept
<1>58. CASE ControlLost
  BY <1>58 DEF ControlLost
<1>59. CASE RemoteEmergencyStop
  BY <1>59 DEF RemoteEmergencyStop
<1>60. CASE Settle
  BY <1>60 DEF Settle
<1>61. CASE PollReport
  BY <1>61 DEF PollReport
<1>62. CASE Move
  BY <1>62 DEF Move
<1>63. CASE Shutdown
  BY <1>63 DEF Shutdown
<1>64. CASE UNCHANGED vars
  BY <1>64, SMTT(40) DEF vars
<1>65. QED
  BY <1>1, <1>2, <1>3, <1>4, <1>5, <1>6, <1>7, <1>8, <1>9, <1>10, <1>11, <1>12, <1>13,
       <1>14, <1>15, <1>16, <1>17, <1>18, <1>19, <1>20, <1>21, <1>22, <1>23, <1>24,
       <1>25, <1>26, <1>27, <1>28, <1>29, <1>30, <1>31, <1>32, <1>33, <1>34, <1>35,
       <1>36, <1>37, <1>38, <1>39, <1>40, <1>41, <1>42, <1>43, <1>44, <1>45, <1>46,
       <1>47, <1>48, <1>49, <1>50, <1>51, <1>52, <1>53, <1>54, <1>55, <1>56, <1>57,
       <1>58, <1>59, <1>60, <1>61, <1>62, <1>63, <1>64 DEF Next, Worker, Job, Round,
       Stop, Confirm, Exception, Service, Environment, Finished

(* The worker runs the job of a service that waits for it, at a point of a *)
(* request of that kind.                                                   *)
LEMMA JobStep ==
    ASSUME TypeOK, JobPart, [Next]_vars
    PROVE  JobPart'
<1> USE DEF TypeOK, JobPart, KindsAt, Point, ServiceTypes, LinkTypes, WorkerFrame, locals,
         waiting, services, reply, calling
<1>1. ASSUME NEW c \in Clients, TakeJob(c), WorkerFrame PROVE JobPart'
  <2>1. kind[c] \in Preparing \union Stopping
    BY <1>1 DEF TakeJob, Waiting, TypeOK, ServiceTypes, JobPart
  <2>2. /\ job' = c /\ UNCHANGED <<pc, kind, next, after>> /\ pc[c] = "queued"
        /\ wpc' = kind[c] \/ (wpc' = "superseded" /\ kind[c] \in Preparing)
    BY <1>1, <2>1 DEF TakeJob, Waiting, Go, Urgent, calling, waiting
  <2>3. Nobody # c
    BY ClientsAssumption
  <2>4. QED
    BY <2>1, <2>2, <2>3 DEF JobPart, KindsAt, Point, Preparing, Stopping
<1>2. CASE JobFails /\ WorkerFrame
  BY <1>2 DEF JobFails, Answer, Go
<1>3. CASE AcquireRpc /\ WorkerFrame
  BY <1>3, ZenonT(60) DEF AcquireRpc, Go, Answer
<1>4. CASE Acquired /\ WorkerFrame
  BY <1>4 DEF Acquired, Go
<1>5. CASE StandBegin /\ WorkerFrame
  BY <1>5 DEF StandBegin, Go
<1>6. CASE StandQuery /\ WorkerFrame
  BY <1>6 DEF StandQuery, Answer, Go
<1>7. CASE StandWalk /\ WorkerFrame
  BY <1>7 DEF StandWalk, Await, Go
<1>8. CASE StandDone /\ WorkerFrame
  BY <1>8 DEF StandDone, Go, Answer
<1>9. CASE GiveUp /\ WorkerFrame
  BY <1>9 DEF GiveUp, CallStop, Go
<1>10. CASE GiveUpStopped /\ WorkerFrame
  BY <1>10 DEF GiveUpStopped, Answer, Go
<1>11. CASE ProfileBegin /\ WorkerFrame
  BY <1>11 DEF ProfileBegin, CallStop, Answer, Go
<1>12. CASE ProfileSet /\ WorkerFrame
  BY <1>12 DEF ProfileSet, Await, Go
<1>13. CASE ProfileDone /\ WorkerFrame
  BY <1>13 DEF ProfileDone, Answer, Go
<1>14. CASE ProfileFailed /\ WorkerFrame
  BY <1>14 DEF ProfileFailed, CallStop, Go
<1>15. CASE ReleaseBegin /\ WorkerFrame
  BY <1>15 DEF ReleaseBegin, CallStop, Answer, Go
<1>16. CASE ReleaseStopped /\ WorkerFrame
  BY <1>16 DEF ReleaseStopped, Answer, Go
<1>17. CASE LieBegin /\ WorkerFrame
  BY <1>17 DEF LieBegin, CallStop, Go
<1>18. CASE LieAction /\ WorkerFrame
  BY <1>18 DEF LieAction, Await, Go
<1>19. CASE LieDone /\ WorkerFrame
  BY <1>19 DEF LieDone, Go, Answer
<1>20. CASE Estop /\ WorkerFrame
  BY <1>20 DEF Estop, Await, Answer, Go
<1>21. CASE EstopDone /\ WorkerFrame
  BY <1>21 DEF EstopDone, Answer, Go
<1>22. CASE NoJob /\ WorkerFrame
  BY <1>22 DEF NoJob, Waiting, Go, unmoved
<1>23. CASE Posted /\ WorkerFrame
  BY <1>23 DEF Posted, Go
<1>24. CASE Loop /\ WorkerFrame
  BY <1>24 DEF Loop, Go, unmoved
<1>25. CASE Reconnect /\ WorkerFrame
  BY <1>25 DEF Reconnect, GoTop, Go
<1>26. CASE MotionStale /\ WorkerFrame
  BY <1>26 DEF MotionStale, CallStop, Go
<1>27. CASE DispatchUnready /\ WorkerFrame
  BY <1>27 DEF DispatchUnready, Go
<1>28. CASE DispatchSilent /\ WorkerFrame
  BY <1>28 DEF DispatchSilent, CallStop, Go
<1>29. CASE SilenceStopped /\ WorkerFrame
  BY <1>29 DEF SilenceStopped, Go
<1>30. CASE DispatchLater /\ WorkerFrame
  BY <1>30 DEF DispatchLater, Go, unmoved
<1>31. CASE DispatchTake /\ WorkerFrame
  BY <1>31 DEF DispatchTake, Go
<1>32. CASE VelocityRevoked /\ WorkerFrame
  BY <1>32 DEF VelocityRevoked, Go
<1>33. CASE VelocityRpc /\ WorkerFrame
  BY <1>33 DEF VelocityRpc, Go
<1>34. CASE RetryQuery /\ WorkerFrame
  BY <1>34 DEF RetryQuery, Go
<1>35. CASE RetryRpc /\ WorkerFrame
  BY <1>35 DEF RetryRpc, Go
<1>36. CASE HaltMotion /\ WorkerFrame
  BY <1>36 DEF HaltMotion, CallStop, Go
<1>37. CASE RecoverNothing /\ WorkerFrame
  BY <1>37 DEF RecoverNothing, Go, unmoved
<1>38. CASE RecoverUncontrolled /\ WorkerFrame
  BY <1>38 DEF RecoverUncontrolled, Go
<1>39. CASE RecoverEscalate /\ WorkerFrame
  BY <1>39 DEF RecoverEscalate, Go
<1>40. CASE RecoverQuery /\ WorkerFrame
  BY <1>40 DEF RecoverQuery, Go, CallStop
<1>41. CASE Watch /\ WorkerFrame
  BY <1>41 DEF Watch, GoTop, unmoved, Go
<1>42. CASE RpcStale /\ WorkerFrame
  BY <1>42 DEF RpcStale, CallStop, Go
<1>43. CASE CleanUp /\ WorkerFrame
  BY <1>43 DEF CleanUp, CallStop, Go
<1>44. CASE Unlink /\ WorkerFrame
  BY <1>44 DEF Unlink, Go
<1>45. CASE Disconnect /\ WorkerFrame
  BY <1>45 DEF Disconnect, Go
<1>46. CASE StopUncontrolled /\ WorkerFrame
  BY <1>46 DEF StopUncontrolled, Go
<1>47. CASE StopRpc /\ WorkerFrame
  BY <1>47 DEF StopRpc, Await, Go
<1>48. CASE StopInEmergency /\ WorkerFrame
  BY <1>48 DEF StopInEmergency, Await, Go
<1>49. CASE StopDone /\ WorkerFrame
  BY <1>49 DEF StopDone, Go
<1>50. CASE ConfirmReport /\ WorkerFrame
  BY <1>50 DEF ConfirmReport, Go
<1>51. CASE ConfirmFails /\ WorkerFrame
  BY <1>51 DEF ConfirmFails, Go
<1>52. CASE BadReport /\ WorkerFrame
  BY <1>52 DEF BadReport, Abort, Go
<1>53. CASE AbortStop /\ WorkerFrame
  BY <1>53 DEF AbortStop, Answer, Go, GoTop
<1>54. ASSUME NEW c \in Clients, CheckReady(c) PROVE JobPart'
  BY <1>54 DEF CheckReady, Calls
<1>55. ASSUME NEW c \in Clients, SubmitPreparation(c) PROVE JobPart'
  BY <1>55 DEF SubmitPreparation, Calls, Accept
<1>56. ASSUME NEW c \in Clients, Return(c) PROVE JobPart'
  BY <1>56 DEF Return
<1>57. ASSUME NEW c \in Clients, NEW k \in Stopping, SubmitStop(c, k) PROVE JobPart'
  <2>1. job # c
    BY <1>57, ClientsAssumption DEF SubmitStop, Calls, JobPart
  <2>2. /\ UNCHANGED <<job, wpc, next, after>> /\ k # "none"
        /\ \A d \in Clients \ {c} : pc'[d] = pc[d] /\ kind'[d] = kind[d]
        /\ kind'[c] = k
    BY <1>57 DEF SubmitStop, Accept, locals, calling, waiting, TypeOK, ServiceTypes, Stopping
  <2>3. job # Nobody => job \in Clients
    BY DEF TypeOK, ServiceTypes
  <2>4. QED
    BY <2>1, <2>2, <2>3 DEF JobPart, KindsAt, Point
<1>58. CASE ControlLost
  BY <1>58 DEF ControlLost
<1>59. CASE RemoteEmergencyStop
  BY <1>59 DEF RemoteEmergencyStop
<1>60. CASE Settle
  BY <1>60 DEF Settle
<1>61. CASE PollReport
  BY <1>61 DEF PollReport
<1>62. CASE Move
  BY <1>62 DEF Move
<1>63. CASE Shutdown
  BY <1>63 DEF Shutdown
<1>64. CASE UNCHANGED vars
  BY <1>64 DEF vars
<1> HIDE DEF TypeOK, JobPart, KindsAt, Point, ServiceTypes, LinkTypes
<1>65. QED
  BY <1>1, <1>2, <1>3, <1>4, <1>5, <1>6, <1>7, <1>8, <1>9, <1>10, <1>11, <1>12, <1>13,
       <1>14, <1>15, <1>16, <1>17, <1>18, <1>19, <1>20, <1>21, <1>22, <1>23, <1>24,
       <1>25, <1>26, <1>27, <1>28, <1>29, <1>30, <1>31, <1>32, <1>33, <1>34, <1>35,
       <1>36, <1>37, <1>38, <1>39, <1>40, <1>41, <1>42, <1>43, <1>44, <1>45, <1>46,
       <1>47, <1>48, <1>49, <1>50, <1>51, <1>52, <1>53, <1>54, <1>55, <1>56, <1>57,
       <1>58, <1>59, <1>60, <1>61, <1>62, <1>63, <1>64 DEF Next, Worker, Job, Round,
       Stop, Confirm, Exception, Service, Environment, Finished

(* A ticket stays behind the generation, and a stop that has not returned  *)
(* ahead of every preparation: submit() rejects those that come later.     *)
LEMMA TicketStep ==
    ASSUME TypeOK, JobPart, TicketPart, [Next]_vars
    PROVE  TicketPart'
<1> USE DEF TypeOK, TicketPart, ServiceTypes, NumberTypes, StopRequested, Preparing,
         Stopping, JobPart, Point, KindsAt, WorkerFrame, permit, services, reply
<1>1. ASSUME NEW c \in Clients, TakeJob(c), WorkerFrame PROVE TicketPart'
  BY <1>1 DEF TakeJob, Waiting, First
<1>2. CASE JobFails /\ WorkerFrame
  BY <1>2 DEF JobFails, Answer
<1>3. CASE AcquireRpc /\ WorkerFrame
  BY <1>3 DEF AcquireRpc, Interrupted, Token, Go, Charge, SessionEnds, Answer, link,
       halt, drive, calling, device, Inhibit, Nobody, waiting, None
<1>4. CASE Acquired /\ WorkerFrame
  BY <1>4 DEF Acquired
<1>5. CASE StandBegin /\ WorkerFrame
  BY <1>5 DEF StandBegin
<1>6. CASE StandQuery /\ WorkerFrame
  BY <1>6 DEF StandQuery, Report, Answer, Inhibit
<1>7. CASE StandWalk /\ WorkerFrame
  BY <1>7 DEF StandWalk
<1>8. CASE StandDone /\ WorkerFrame
  BY <1>8 DEF StandDone, Answer
<1>9. CASE GiveUp /\ WorkerFrame
  BY <1>9 DEF GiveUp
<1>10. CASE GiveUpStopped /\ WorkerFrame
  BY <1>10 DEF GiveUpStopped, Release, Answer, SessionEnds, Inhibit
<1>11. CASE ProfileBegin /\ WorkerFrame
  BY <1>11 DEF ProfileBegin, Answer
<1>12. CASE ProfileSet /\ WorkerFrame
  BY <1>12 DEF ProfileSet
<1>13. CASE ProfileDone /\ WorkerFrame
  BY <1>13 DEF ProfileDone, Answer
<1>14. CASE ProfileFailed /\ WorkerFrame
  BY <1>14 DEF ProfileFailed, Inhibit
<1>15. CASE ReleaseBegin /\ WorkerFrame
  BY <1>15 DEF ReleaseBegin, Answer
<1>16. CASE ReleaseStopped /\ WorkerFrame
  BY <1>16 DEF ReleaseStopped, Release, Answer, SessionEnds, Inhibit
<1>17. CASE LieBegin /\ WorkerFrame
  BY <1>17 DEF LieBegin
<1>18. CASE LieAction /\ WorkerFrame
  BY <1>18 DEF LieAction
<1>19. CASE LieDone /\ WorkerFrame
  BY <1>19 DEF LieDone, Release, Answer, SessionEnds, Inhibit
<1>20. CASE Estop /\ WorkerFrame
  BY <1>20 DEF Estop, Answer
<1>21. CASE EstopDone /\ WorkerFrame
  BY <1>21 DEF EstopDone, Answer
<1>22. CASE NoJob /\ WorkerFrame
  BY <1>22 DEF NoJob, Waiting, unmoved
<1>23. CASE Posted /\ WorkerFrame
  BY <1>23 DEF Posted, Report, Inhibit
<1>24. CASE Loop /\ WorkerFrame
  BY <1>24 DEF Loop, unmoved
<1>25. CASE Reconnect /\ WorkerFrame
  BY <1>25 DEF Reconnect
<1>26. CASE MotionStale /\ WorkerFrame
  BY <1>26 DEF MotionStale, Inhibit
<1>27. CASE DispatchUnready /\ WorkerFrame
  BY <1>27 DEF DispatchUnready
<1>28. CASE DispatchSilent /\ WorkerFrame
  BY <1>28 DEF DispatchSilent
<1>29. CASE SilenceStopped /\ WorkerFrame
  BY <1>29 DEF SilenceStopped, Inhibit
<1>30. CASE DispatchLater /\ WorkerFrame
  BY <1>30 DEF DispatchLater, unmoved
<1>31. CASE DispatchTake /\ WorkerFrame
  BY <1>31 DEF DispatchTake
<1>32. CASE VelocityRevoked /\ WorkerFrame
  BY <1>32 DEF VelocityRevoked, SessionEnds, Inhibit
<1>33. CASE VelocityRpc /\ WorkerFrame
  BY <1>33 DEF VelocityRpc
<1>34. CASE RetryQuery /\ WorkerFrame
  BY <1>34 DEF RetryQuery, link, MayRetry, Go, Charge, Report, locals, calling, device,
       Interrupted, Controlled, Inhibit, waiting, None
<1>35. CASE RetryRpc /\ WorkerFrame
  BY <1>35 DEF RetryRpc
<1>36. CASE HaltMotion /\ WorkerFrame
  BY <1>36 DEF HaltMotion, Inhibit
<1>37. CASE RecoverNothing /\ WorkerFrame
  BY <1>37 DEF RecoverNothing, unmoved
<1>38. CASE RecoverUncontrolled /\ WorkerFrame
  BY <1>38 DEF RecoverUncontrolled
<1>39. CASE RecoverEscalate /\ WorkerFrame
  BY <1>39 DEF RecoverEscalate
<1>40. CASE RecoverQuery /\ WorkerFrame
  BY <1>40 DEF RecoverQuery, Report, Inhibit
<1>41. CASE Watch /\ WorkerFrame
  BY <1>41 DEF Watch, unmoved
<1>42. CASE RpcStale /\ WorkerFrame
  BY <1>42 DEF RpcStale, Inhibit
<1>43. CASE CleanUp /\ WorkerFrame
  BY <1>43 DEF CleanUp
<1>44. CASE Unlink /\ WorkerFrame
  BY <1>44 DEF Unlink, Release, SessionEnds, Inhibit
<1>45. CASE Disconnect /\ WorkerFrame
  BY <1>45 DEF Disconnect, SessionEnds, Inhibit
<1>46. CASE StopUncontrolled /\ WorkerFrame
  BY <1>46 DEF StopUncontrolled
<1>47. CASE StopRpc /\ WorkerFrame
  BY <1>47 DEF StopRpc
<1>48. CASE StopInEmergency /\ WorkerFrame
  BY <1>48 DEF StopInEmergency
<1>49. CASE StopDone /\ WorkerFrame
  BY <1>49 DEF StopDone
<1>50. CASE ConfirmReport /\ WorkerFrame
  BY <1>50 DEF ConfirmReport, Report, Inhibit
<1>51. CASE ConfirmFails /\ WorkerFrame
  BY <1>51 DEF ConfirmFails
<1>52. CASE BadReport /\ WorkerFrame
  BY <1>52 DEF BadReport, Abort, Inhibit
<1>53. CASE AbortStop /\ WorkerFrame
  BY <1>53 DEF AbortStop, Answer
<1>54. ASSUME NEW c \in Clients, CheckReady(c) PROVE TicketPart'
  BY <1>54 DEF CheckReady, Calls
<1>55. ASSUME NEW c \in Clients, SubmitPreparation(c) PROVE TicketPart'
  BY <1>55 DEF SubmitPreparation, Calls, Accept, Inhibit
<1>56. ASSUME NEW c \in Clients, Return(c) PROVE TicketPart'
  BY <1>56 DEF Return
<1>57. ASSUME NEW c \in Clients, NEW k \in Stopping, SubmitStop(c, k) PROVE TicketPart'
  BY <1>57 DEF SubmitStop, Calls, Accept, Inhibit
<1>58. CASE ControlLost
  BY <1>58 DEF ControlLost, SessionEnds, Inhibit
<1>59. CASE RemoteEmergencyStop
  BY <1>59 DEF RemoteEmergencyStop
<1>60. CASE Settle
  BY <1>60 DEF Settle
<1>61. CASE PollReport
  BY <1>61 DEF PollReport, Report, Inhibit
<1>62. CASE Move
  BY <1>62 DEF Move
<1>63. CASE Shutdown
  BY <1>63 DEF Shutdown, Inhibit
<1>64. CASE UNCHANGED vars
  BY <1>64 DEF vars
<1>65. QED
  BY <1>1, <1>2, <1>3, <1>4, <1>5, <1>6, <1>7, <1>8, <1>9, <1>10, <1>11, <1>12, <1>13,
       <1>14, <1>15, <1>16, <1>17, <1>18, <1>19, <1>20, <1>21, <1>22, <1>23, <1>24,
       <1>25, <1>26, <1>27, <1>28, <1>29, <1>30, <1>31, <1>32, <1>33, <1>34, <1>35,
       <1>36, <1>37, <1>38, <1>39, <1>40, <1>41, <1>42, <1>43, <1>44, <1>45, <1>46,
       <1>47, <1>48, <1>49, <1>50, <1>51, <1>52, <1>53, <1>54, <1>55, <1>56, <1>57,
       <1>58, <1>59, <1>60, <1>61, <1>62, <1>63, <1>64 DEF Next, Worker, Job, Round,
       Stop, Confirm, Exception, Service, Environment, Finished

(* A preparation runs before those submitted after it. *)
LEMMA OrderStep ==
    ASSUME TypeOK, JobPart, TicketPart, OrderPart, [Next]_vars
    PROVE  OrderPart'
<1> USE ClientsAssumption DEF OrderPart, TicketPart, TypeOK, FlagTypes, LinkTypes,
         NumberTypes, ServiceTypes, JobPart, Point, KindsAt, Preparing, Stopping,
         Controlled, Interrupted, Token, WorkerFrame, locals, services, reply
<1>1. ASSUME NEW c \in Clients, TakeJob(c), WorkerFrame PROVE OrderPart'
  BY <1>1 DEF TakeJob, Waiting, First, Urgent
<1>2. CASE JobFails /\ WorkerFrame
  BY <1>2 DEF JobFails, Answer
<1>3. CASE AcquireRpc /\ WorkerFrame
  BY <1>3 DEF AcquireRpc, Answer
<1>4. CASE Acquired /\ WorkerFrame
  BY <1>4 DEF Acquired
<1>5. CASE StandBegin /\ WorkerFrame
  BY <1>5 DEF StandBegin
<1>6. CASE StandQuery /\ WorkerFrame
  BY <1>6 DEF StandQuery, Answer
<1>7. CASE StandWalk /\ WorkerFrame
  BY <1>7 DEF StandWalk
<1>8. CASE StandDone /\ WorkerFrame
  BY <1>8 DEF StandDone, Answer
<1>9. CASE GiveUp /\ WorkerFrame
  BY <1>9 DEF GiveUp
<1>10. CASE GiveUpStopped /\ WorkerFrame
  BY <1>10 DEF GiveUpStopped, Answer
<1>11. CASE ProfileBegin /\ WorkerFrame
  BY <1>11 DEF ProfileBegin, Answer
<1>12. CASE ProfileSet /\ WorkerFrame
  BY <1>12 DEF ProfileSet
<1>13. CASE ProfileDone /\ WorkerFrame
  BY <1>13 DEF ProfileDone, Answer
<1>14. CASE ProfileFailed /\ WorkerFrame
  BY <1>14 DEF ProfileFailed
<1>15. CASE ReleaseBegin /\ WorkerFrame
  BY <1>15 DEF ReleaseBegin, Answer
<1>16. CASE ReleaseStopped /\ WorkerFrame
  BY <1>16 DEF ReleaseStopped, Answer
<1>17. CASE LieBegin /\ WorkerFrame
  BY <1>17 DEF LieBegin
<1>18. CASE LieAction /\ WorkerFrame
  BY <1>18 DEF LieAction
<1>19. CASE LieDone /\ WorkerFrame
  BY <1>19 DEF LieDone, Answer
<1>20. CASE Estop /\ WorkerFrame
  BY <1>20 DEF Estop, Answer
<1>21. CASE EstopDone /\ WorkerFrame
  BY <1>21 DEF EstopDone, Answer
<1>22. CASE NoJob /\ WorkerFrame
  BY <1>22 DEF NoJob, Waiting, unmoved
<1>23. CASE Posted /\ WorkerFrame
  BY <1>23 DEF Posted
<1>24. CASE Loop /\ WorkerFrame
  BY <1>24 DEF Loop, unmoved
<1>25. CASE Reconnect /\ WorkerFrame
  BY <1>25 DEF Reconnect
<1>26. CASE MotionStale /\ WorkerFrame
  BY <1>26 DEF MotionStale
<1>27. CASE DispatchUnready /\ WorkerFrame
  BY <1>27 DEF DispatchUnready
<1>28. CASE DispatchSilent /\ WorkerFrame
  BY <1>28 DEF DispatchSilent
<1>29. CASE SilenceStopped /\ WorkerFrame
  BY <1>29 DEF SilenceStopped
<1>30. CASE DispatchLater /\ WorkerFrame
  BY <1>30 DEF DispatchLater, unmoved
<1>31. CASE DispatchTake /\ WorkerFrame
  BY <1>31 DEF DispatchTake
<1>32. CASE VelocityRevoked /\ WorkerFrame
  BY <1>32 DEF VelocityRevoked
<1>33. CASE VelocityRpc /\ WorkerFrame
  BY <1>33 DEF VelocityRpc
<1>34. CASE RetryQuery /\ WorkerFrame
  BY <1>34 DEF RetryQuery
<1>35. CASE RetryRpc /\ WorkerFrame
  BY <1>35 DEF RetryRpc
<1>36. CASE HaltMotion /\ WorkerFrame
  BY <1>36 DEF HaltMotion
<1>37. CASE RecoverNothing /\ WorkerFrame
  BY <1>37 DEF RecoverNothing, unmoved
<1>38. CASE RecoverUncontrolled /\ WorkerFrame
  BY <1>38 DEF RecoverUncontrolled
<1>39. CASE RecoverEscalate /\ WorkerFrame
  BY <1>39 DEF RecoverEscalate
<1>40. CASE RecoverQuery /\ WorkerFrame
  BY <1>40 DEF RecoverQuery
<1>41. CASE Watch /\ WorkerFrame
  BY <1>41 DEF Watch, unmoved
<1>42. CASE RpcStale /\ WorkerFrame
  BY <1>42 DEF RpcStale
<1>43. CASE CleanUp /\ WorkerFrame
  BY <1>43 DEF CleanUp
<1>44. CASE Unlink /\ WorkerFrame
  BY <1>44 DEF Unlink
<1>45. CASE Disconnect /\ WorkerFrame
  BY <1>45 DEF Disconnect
<1>46. CASE StopUncontrolled /\ WorkerFrame
  BY <1>46 DEF StopUncontrolled
<1>47. CASE StopRpc /\ WorkerFrame
  BY <1>47 DEF StopRpc
<1>48. CASE StopInEmergency /\ WorkerFrame
  BY <1>48 DEF StopInEmergency
<1>49. CASE StopDone /\ WorkerFrame
  BY <1>49 DEF StopDone
<1>50. CASE ConfirmReport /\ WorkerFrame
  BY <1>50 DEF ConfirmReport
<1>51. CASE ConfirmFails /\ WorkerFrame
  BY <1>51 DEF ConfirmFails
<1>52. CASE BadReport /\ WorkerFrame
  BY <1>52 DEF BadReport
<1>53. CASE AbortStop /\ WorkerFrame
  BY <1>53 DEF AbortStop, Answer
<1>54. ASSUME NEW c \in Clients, CheckReady(c) PROVE OrderPart'
  BY <1>54 DEF CheckReady, Calls
<1>55. ASSUME NEW c \in Clients, SubmitPreparation(c) PROVE OrderPart'
  BY <1>55 DEF SubmitPreparation, Calls, Accept
<1>56. ASSUME NEW c \in Clients, Return(c) PROVE OrderPart'
  BY <1>56 DEF Return
<1>57. ASSUME NEW c \in Clients, NEW k \in Stopping, SubmitStop(c, k) PROVE OrderPart'
  BY <1>57 DEF SubmitStop, Calls, Accept
<1>58. CASE ControlLost
  BY <1>58 DEF ControlLost
<1>59. CASE RemoteEmergencyStop
  BY <1>59 DEF RemoteEmergencyStop
<1>60. CASE Settle
  BY <1>60 DEF Settle
<1>61. CASE PollReport
  BY <1>61 DEF PollReport
<1>62. CASE Move
  BY <1>62 DEF Move
<1>63. CASE Shutdown
  BY <1>63 DEF Shutdown
<1>64. CASE UNCHANGED vars
  BY <1>64 DEF vars
<1>65. QED
  BY <1>1, <1>2, <1>3, <1>4, <1>5, <1>6, <1>7, <1>8, <1>9, <1>10, <1>11, <1>12, <1>13,
       <1>14, <1>15, <1>16, <1>17, <1>18, <1>19, <1>20, <1>21, <1>22, <1>23, <1>24,
       <1>25, <1>26, <1>27, <1>28, <1>29, <1>30, <1>31, <1>32, <1>33, <1>34, <1>35,
       <1>36, <1>37, <1>38, <1>39, <1>40, <1>41, <1>42, <1>43, <1>44, <1>45, <1>46,
       <1>47, <1>48, <1>49, <1>50, <1>51, <1>52, <1>53, <1>54, <1>55, <1>56, <1>57,
       <1>58, <1>59, <1>60, <1>61, <1>62, <1>63, <1>64 DEF Next, Worker, Job, Round,
       Stop, Confirm, Exception, Service, Environment, Finished

(* What being ready implies: it is granted to the request accepted last, in*)
(* control, and whatever disturbs that inhibits in the same step.          *)
LEMMA ReadyStep ==
    ASSUME TypeOK, JobPart, TicketPart, OrderPart, ReadyPart, PreparationPart, [Next]_vars
    PROVE  ReadyPart'
<1> USE ClientsAssumption DEF ReadyPart, OrderPart, TicketPart, PreparationPart,
         StopsForSilence, TypeOK, FlagTypes, LinkTypes, NumberTypes, ServiceTypes, JobPart,
         Point, KindsAt, Preparing, Stopping, Controlled, Interrupted, Token, WorkerFrame,
         permit, halt, link, locals, waiting, services, reply, calling
<1>1. ASSUME NEW c \in Clients, TakeJob(c), WorkerFrame PROVE ReadyPart'
  BY <1>1 DEF TakeJob, Waiting, First, Go
<1>2. CASE JobFails /\ WorkerFrame
  BY <1>2 DEF JobFails, Answer, Go
<1>3. CASE AcquireRpc /\ WorkerFrame
  BY <1>3 DEF AcquireRpc, Go, Charge, SessionEnds, Answer, drive, device, Inhibit,
       Nobody, None
<1>4. CASE Acquired /\ WorkerFrame
  BY <1>4 DEF Acquired, Go
<1>5. CASE StandBegin /\ WorkerFrame
  BY <1>5 DEF StandBegin, Go
<1>6. CASE StandQuery /\ WorkerFrame
  BY <1>6 DEF StandQuery, Report, Answer, Go, Inhibit
<1>7. CASE StandWalk /\ WorkerFrame
  BY <1>7 DEF StandWalk, Await, Go
<1>8. CASE StandDone /\ WorkerFrame
  BY <1>8 DEF StandDone, Go, Answer
<1>9. CASE GiveUp /\ WorkerFrame
  BY <1>9 DEF GiveUp, CallStop, Go
<1>10. CASE GiveUpStopped /\ WorkerFrame
  BY <1>10 DEF GiveUpStopped, Release, Answer, SessionEnds, Go, Inhibit
<1>11. CASE ProfileBegin /\ WorkerFrame
  BY <1>11 DEF ProfileBegin, CallStop, Answer, Go
<1>12. CASE ProfileSet /\ WorkerFrame
  BY <1>12 DEF ProfileSet, Await, Go
<1>13. CASE ProfileDone /\ WorkerFrame
  BY <1>13 DEF ProfileDone, Answer, Go
<1>14. CASE ProfileFailed /\ WorkerFrame
  BY <1>14 DEF ProfileFailed, Inhibit, CallStop, Go
<1>15. CASE ReleaseBegin /\ WorkerFrame
  BY <1>15 DEF ReleaseBegin, CallStop, Answer, Go
<1>16. CASE ReleaseStopped /\ WorkerFrame
  BY <1>16 DEF ReleaseStopped, Release, Answer, SessionEnds, Go, Inhibit
<1>17. CASE LieBegin /\ WorkerFrame
  BY <1>17 DEF LieBegin, CallStop, Go
<1>18. CASE LieAction /\ WorkerFrame
  BY <1>18 DEF LieAction, Await, Go
<1>19. CASE LieDone /\ WorkerFrame
  BY <1>19 DEF LieDone, Go, Release, Answer, SessionEnds, Inhibit
<1>20. CASE Estop /\ WorkerFrame
  BY <1>20 DEF Estop, Await, Answer, Go
<1>21. CASE EstopDone /\ WorkerFrame
  BY <1>21 DEF EstopDone, Answer, Go
<1>22. CASE NoJob /\ WorkerFrame
  BY <1>22 DEF NoJob, Waiting, Go, unmoved
<1>23. CASE Posted /\ WorkerFrame
  BY <1>23 DEF Posted, Report, Go, Inhibit
<1>24. CASE Loop /\ WorkerFrame
  BY <1>24 DEF Loop, Go, unmoved
<1>25. CASE Reconnect /\ WorkerFrame
  BY <1>25 DEF Reconnect, GoTop, Go
<1>26. CASE MotionStale /\ WorkerFrame
  BY <1>26 DEF MotionStale, Inhibit, CallStop, Go
<1>27. CASE DispatchUnready /\ WorkerFrame
  BY <1>27 DEF DispatchUnready, Go
<1>28. CASE DispatchSilent /\ WorkerFrame
  BY <1>28 DEF DispatchSilent, CallStop, Go
<1>29. CASE SilenceStopped /\ WorkerFrame
  BY <1>29 DEF SilenceStopped, Inhibit, Go
<1>30. CASE DispatchLater /\ WorkerFrame
  BY <1>30 DEF DispatchLater, Go, unmoved
<1>31. CASE DispatchTake /\ WorkerFrame
  BY <1>31 DEF DispatchTake, Go
<1>32. CASE VelocityRevoked /\ WorkerFrame
  BY <1>32 DEF VelocityRevoked, SessionEnds, Go, Inhibit
<1>33. CASE VelocityRpc /\ WorkerFrame
  BY <1>33 DEF VelocityRpc, Go
<1>34. CASE RetryQuery /\ WorkerFrame
  BY <1>34 DEF RetryQuery, MayRetry, Go, Charge, Report, device, Inhibit, None
<1>35. CASE RetryRpc /\ WorkerFrame
  BY <1>35 DEF RetryRpc, Go
<1>36. CASE HaltMotion /\ WorkerFrame
  BY <1>36 DEF HaltMotion, Inhibit, CallStop, Go
<1>37. CASE RecoverNothing /\ WorkerFrame
  BY <1>37 DEF RecoverNothing, Go, unmoved
<1>38. CASE RecoverUncontrolled /\ WorkerFrame
  BY <1>38 DEF RecoverUncontrolled, Go
<1>39. CASE RecoverEscalate /\ WorkerFrame
  BY <1>39 DEF RecoverEscalate, Go
<1>40. CASE RecoverQuery /\ WorkerFrame
  BY <1>40 DEF RecoverQuery, Report, Go, CallStop, Inhibit
<1>41. CASE Watch /\ WorkerFrame
  BY <1>41 DEF Watch, GoTop, unmoved, Go
<1>42. CASE RpcStale /\ WorkerFrame
  BY <1>42 DEF RpcStale, Inhibit, CallStop, Go
<1>43. CASE CleanUp /\ WorkerFrame
  BY <1>43 DEF CleanUp, CallStop, Go
<1>44. CASE Unlink /\ WorkerFrame
  BY <1>44 DEF Unlink, Release, Go, SessionEnds, Inhibit
<1>45. CASE Disconnect /\ WorkerFrame
  BY <1>45 DEF Disconnect, SessionEnds, Go, Inhibit
<1>46. CASE StopUncontrolled /\ WorkerFrame
  BY <1>46 DEF StopUncontrolled, Go
<1>47. CASE StopRpc /\ WorkerFrame
  BY <1>47 DEF StopRpc, Await, Go
<1>48. CASE StopInEmergency /\ WorkerFrame
  BY <1>48 DEF StopInEmergency, Await, Go
<1>49. CASE StopDone /\ WorkerFrame
  BY <1>49 DEF StopDone, Go
<1>50. CASE ConfirmReport /\ WorkerFrame
  BY <1>50 DEF ConfirmReport, Report, Go, Inhibit
<1>51. CASE ConfirmFails /\ WorkerFrame
  BY <1>51 DEF ConfirmFails, Go
<1>52. CASE BadReport /\ WorkerFrame
  BY <1>52 DEF BadReport, Abort, Inhibit, Go
<1>53. CASE AbortStop /\ WorkerFrame
  BY <1>53 DEF AbortStop, Answer, Go, GoTop
<1>54. ASSUME NEW c \in Clients, CheckReady(c) PROVE ReadyPart'
  BY <1>54 DEF CheckReady, Calls
<1>55. ASSUME NEW c \in Clients, SubmitPreparation(c) PROVE ReadyPart'
  BY <1>55 DEF SubmitPreparation, Calls, Accept, Inhibit
<1>56. ASSUME NEW c \in Clients, Return(c) PROVE ReadyPart'
  BY <1>56 DEF Return
<1>57. ASSUME NEW c \in Clients, NEW k \in Stopping, SubmitStop(c, k) PROVE ReadyPart'
  BY <1>57 DEF SubmitStop, Calls, Accept, Inhibit
<1>58. CASE ControlLost
  BY <1>58 DEF ControlLost, SessionEnds, Inhibit
<1>59. CASE RemoteEmergencyStop
  BY <1>59 DEF RemoteEmergencyStop
<1>60. CASE Settle
  BY <1>60 DEF Settle
<1>61. CASE PollReport
  BY <1>61 DEF PollReport, Report, Inhibit
<1>62. CASE Move
  BY <1>62 DEF Move
<1>63. CASE Shutdown
  BY <1>63 DEF Shutdown, Inhibit
<1>64. CASE UNCHANGED vars
  BY <1>64 DEF vars
<1>65. QED
  BY <1>1, <1>2, <1>3, <1>4, <1>5, <1>6, <1>7, <1>8, <1>9, <1>10, <1>11, <1>12, <1>13,
       <1>14, <1>15, <1>16, <1>17, <1>18, <1>19, <1>20, <1>21, <1>22, <1>23, <1>24,
       <1>25, <1>26, <1>27, <1>28, <1>29, <1>30, <1>31, <1>32, <1>33, <1>34, <1>35,
       <1>36, <1>37, <1>38, <1>39, <1>40, <1>41, <1>42, <1>43, <1>44, <1>45, <1>46,
       <1>47, <1>48, <1>49, <1>50, <1>51, <1>52, <1>53, <1>54, <1>55, <1>56, <1>57,
       <1>58, <1>59, <1>60, <1>61, <1>62, <1>63, <1>64 DEF Next, Worker, Job, Round,
       Stop, Confirm, Exception, Service, Environment, Finished

(* A preparation comes to its end with no stop unconfirmed. *)
LEMMA PreparationStep ==
    ASSUME TypeOK, JobPart, TicketPart, ReadyPart, PreparationPart, [Next]_vars
    PROVE  PreparationPart'
<1> USE ClientsAssumption DEF PreparationPart, ReadyPart, TicketPart, TypeOK, FlagTypes,
         LinkTypes, NumberTypes, ServiceTypes, JobPart, Point, KindsAt, Preparing, Stopping,
         Controlled, Interrupted, Token, WorkerFrame, permit, halt, link, locals, waiting,
         services, reply, device, calling
<1>1. ASSUME NEW c \in Clients, TakeJob(c), WorkerFrame PROVE PreparationPart'
  BY <1>1 DEF TakeJob, Waiting, First, Go
<1>2. CASE JobFails /\ WorkerFrame
  BY <1>2 DEF JobFails, Answer, Go
<1>3. CASE AcquireRpc /\ WorkerFrame
  BY <1>3 DEF AcquireRpc, Go, SessionEnds, Answer, Inhibit
<1>4. CASE Acquired /\ WorkerFrame
  BY <1>4 DEF Acquired, Go
<1>5. CASE StandBegin /\ WorkerFrame
  BY <1>5 DEF StandBegin, Go
<1>6. CASE StandQuery /\ WorkerFrame
  BY <1>6 DEF StandQuery, Report, Answer, Go, Inhibit
<1>7. CASE StandWalk /\ WorkerFrame
  BY <1>7 DEF StandWalk, Command, SetParams, Halted, Await, Go
<1>8. CASE StandDone /\ WorkerFrame
  BY <1>8 DEF StandDone, Go, Answer
<1>9. CASE GiveUp /\ WorkerFrame
  BY <1>9 DEF GiveUp, CallStop, Go
<1>10. CASE GiveUpStopped /\ WorkerFrame
  BY <1>10 DEF GiveUpStopped, Release, Answer, SessionEnds, Go, Inhibit
<1>11. CASE ProfileBegin /\ WorkerFrame
  BY <1>11 DEF ProfileBegin, CallStop, Answer, Go
<1>12. CASE ProfileSet /\ WorkerFrame
  BY <1>12 DEF ProfileSet, Command, SetParams, Await, Go
<1>13. CASE ProfileDone /\ WorkerFrame
  BY <1>13 DEF ProfileDone, Answer, Go
<1>14. CASE ProfileFailed /\ WorkerFrame
  BY <1>14 DEF ProfileFailed, Inhibit, CallStop, Go
<1>15. CASE ReleaseBegin /\ WorkerFrame
  BY <1>15 DEF ReleaseBegin, CallStop, Answer, Go
<1>16. CASE ReleaseStopped /\ WorkerFrame
  BY <1>16 DEF ReleaseStopped, Release, Answer, SessionEnds, Go, Inhibit
<1>17. CASE LieBegin /\ WorkerFrame
  BY <1>17 DEF LieBegin, CallStop, Go
<1>18. CASE LieAction /\ WorkerFrame
  BY <1>18 DEF LieAction, Command, Halted, Await, Go
<1>19. CASE LieDone /\ WorkerFrame
  BY <1>19 DEF LieDone, Go, Release, Answer, SessionEnds, Inhibit
<1>20. CASE Estop /\ WorkerFrame
  BY <1>20 DEF Estop, Command, Halted, Await, Answer, Go
<1>21. CASE EstopDone /\ WorkerFrame
  BY <1>21 DEF EstopDone, Answer, Go
<1>22. CASE NoJob /\ WorkerFrame
  BY <1>22 DEF NoJob, Waiting, Go, unmoved
<1>23. CASE Posted /\ WorkerFrame
  BY <1>23 DEF Posted, Report, Go, Inhibit
<1>24. CASE Loop /\ WorkerFrame
  BY <1>24 DEF Loop, Go, unmoved
<1>25. CASE Reconnect /\ WorkerFrame
  BY <1>25 DEF Reconnect, GoTop, Go
<1>26. CASE MotionStale /\ WorkerFrame
  BY <1>26 DEF MotionStale, Inhibit, CallStop, Go
<1>27. CASE DispatchUnready /\ WorkerFrame
  BY <1>27 DEF DispatchUnready, Go
<1>28. CASE DispatchSilent /\ WorkerFrame
  BY <1>28 DEF DispatchSilent, CallStop, Go
<1>29. CASE SilenceStopped /\ WorkerFrame
  BY <1>29 DEF SilenceStopped, Inhibit, Go
<1>30. CASE DispatchLater /\ WorkerFrame
  BY <1>30 DEF DispatchLater, Go, unmoved
<1>31. CASE DispatchTake /\ WorkerFrame
  BY <1>31 DEF DispatchTake, Go
<1>32. CASE VelocityRevoked /\ WorkerFrame
  BY <1>32 DEF VelocityRevoked, SessionEnds, Go, Inhibit
<1>33. CASE VelocityRpc /\ WorkerFrame
  BY <1>33 DEF VelocityRpc, Command, SetParams, Go
<1>34. CASE RetryQuery /\ WorkerFrame
  BY <1>34 DEF RetryQuery, Go, Report, Inhibit
<1>35. CASE RetryRpc /\ WorkerFrame
  BY <1>35 DEF RetryRpc, Command, SetParams, Go
<1>36. CASE HaltMotion /\ WorkerFrame
  BY <1>36 DEF HaltMotion, Inhibit, CallStop, Go
<1>37. CASE RecoverNothing /\ WorkerFrame
  BY <1>37 DEF RecoverNothing, Go, unmoved
<1>38. CASE RecoverUncontrolled /\ WorkerFrame
  BY <1>38 DEF RecoverUncontrolled, Go
<1>39. CASE RecoverEscalate /\ WorkerFrame
  BY <1>39 DEF RecoverEscalate, Command, Halted, Go
<1>40. CASE RecoverQuery /\ WorkerFrame
  BY <1>40 DEF RecoverQuery, Report, Go, CallStop, Inhibit
<1>41. CASE Watch /\ WorkerFrame
  BY <1>41 DEF Watch, GoTop, unmoved, Go
<1>42. CASE RpcStale /\ WorkerFrame
  BY <1>42 DEF RpcStale, Inhibit, CallStop, Go
<1>43. CASE CleanUp /\ WorkerFrame
  BY <1>43 DEF CleanUp, CallStop, Go
<1>44. CASE Unlink /\ WorkerFrame
  BY <1>44 DEF Unlink, Release, Command, Halted, Go, SessionEnds, Inhibit
<1>45. CASE Disconnect /\ WorkerFrame
  BY <1>45 DEF Disconnect, SessionEnds, Go, Inhibit
<1>46. CASE StopUncontrolled /\ WorkerFrame
  BY <1>46 DEF StopUncontrolled, Go
<1>47. CASE StopRpc /\ WorkerFrame
  BY <1>47 DEF StopRpc, Command, Halted, Await, Go
<1>48. CASE StopInEmergency /\ WorkerFrame
  BY <1>48 DEF StopInEmergency, InEmergencyStop, Await, Go
<1>49. CASE StopDone /\ WorkerFrame
  BY <1>49 DEF StopDone, Go
<1>50. CASE ConfirmReport /\ WorkerFrame
  BY <1>50 DEF ConfirmReport, Canceled, Report, Confirmed, Go, Cancellable, Inhibit,
       None
<1>51. CASE ConfirmFails /\ WorkerFrame
  BY <1>51 DEF ConfirmFails, Go
<1>52. CASE BadReport /\ WorkerFrame
  BY <1>52 DEF BadReport, Abort, Inhibit, Go
<1>53. CASE AbortStop /\ WorkerFrame
  BY <1>53 DEF AbortStop, Command, Halted, Answer, Go, GoTop
<1>54. ASSUME NEW c \in Clients, CheckReady(c) PROVE PreparationPart'
  BY <1>54 DEF CheckReady, Calls
<1>55. ASSUME NEW c \in Clients, SubmitPreparation(c) PROVE PreparationPart'
  BY <1>55 DEF SubmitPreparation, Calls, Accept, Inhibit
<1>56. ASSUME NEW c \in Clients, Return(c) PROVE PreparationPart'
  BY <1>56 DEF Return
<1>57. ASSUME NEW c \in Clients, NEW k \in Stopping, SubmitStop(c, k) PROVE PreparationPart'
  BY <1>57 DEF SubmitStop, Calls, Accept, Inhibit
<1>58. CASE ControlLost
  BY <1>58 DEF ControlLost, SessionEnds, Inhibit
<1>59. CASE RemoteEmergencyStop
  BY <1>59 DEF RemoteEmergencyStop, Halted
<1>60. CASE Settle
  BY <1>60 DEF Settle
<1>61. CASE PollReport
  BY <1>61 DEF PollReport, Report, Inhibit
<1>62. CASE Move
  BY <1>62 DEF Move
<1>63. CASE Shutdown
  BY <1>63 DEF Shutdown, Inhibit
<1>64. CASE UNCHANGED vars
  BY <1>64 DEF vars
<1>65. QED
  BY <1>1, <1>2, <1>3, <1>4, <1>5, <1>6, <1>7, <1>8, <1>9, <1>10, <1>11, <1>12, <1>13,
       <1>14, <1>15, <1>16, <1>17, <1>18, <1>19, <1>20, <1>21, <1>22, <1>23, <1>24,
       <1>25, <1>26, <1>27, <1>28, <1>29, <1>30, <1>31, <1>32, <1>33, <1>34, <1>35,
       <1>36, <1>37, <1>38, <1>39, <1>40, <1>41, <1>42, <1>43, <1>44, <1>45, <1>46,
       <1>47, <1>48, <1>49, <1>50, <1>51, <1>52, <1>53, <1>54, <1>55, <1>56, <1>57,
       <1>58, <1>59, <1>60, <1>61, <1>62, <1>63, <1>64 DEF Next, Worker, Job, Round,
       Stop, Confirm, Exception, Service, Environment, Finished

(* Only a velocity sets the robot in motion, and a job that stops it waits *)
(* for it to obey.                                                         *)
LEMMA MotionStep ==
    ASSUME TypeOK, JobPart, ReadyPart, MotionPart, [Next]_vars
    PROVE  MotionPart'
<1> USE DEF MotionPart, ReadyPart, TypeOK, FlagTypes, LinkTypes, NumberTypes, ServiceTypes,
         JobPart, Point, KindsAt, Preparing, Stopping, Controlled, Interrupted, Token,
         WorkerFrame, permit, link, waiting, device, calling
<1>1. ASSUME NEW c \in Clients, TakeJob(c), WorkerFrame PROVE MotionPart'
  BY <1>1 DEF TakeJob, Go
<1>2. CASE JobFails /\ WorkerFrame
  BY <1>2 DEF JobFails, Answer, Go
<1>3. CASE AcquireRpc /\ WorkerFrame
  BY <1>3 DEF AcquireRpc, Go, SessionEnds, Answer, Inhibit
<1>4. CASE Acquired /\ WorkerFrame
  BY <1>4 DEF Acquired, Go
<1>5. CASE StandBegin /\ WorkerFrame
  BY <1>5 DEF StandBegin, Go
<1>6. CASE StandQuery /\ WorkerFrame
  BY <1>6 DEF StandQuery, Report, Answer, Go, Inhibit
<1>7. CASE StandWalk /\ WorkerFrame
  BY <1>7 DEF StandWalk, Outcomes, Command, SetParams, Halted, Await, Go, Applied
<1>8. CASE StandDone /\ WorkerFrame
  BY <1>8 DEF StandDone, Go, Answer
<1>9. CASE GiveUp /\ WorkerFrame
  BY <1>9 DEF GiveUp, CallStop, Go
<1>10. CASE GiveUpStopped /\ WorkerFrame
  BY <1>10 DEF GiveUpStopped, Release, Answer, SessionEnds, Go, Inhibit
<1>11. CASE ProfileBegin /\ WorkerFrame
  BY <1>11 DEF ProfileBegin, CallStop, Answer, Go
<1>12. CASE ProfileSet /\ WorkerFrame
  BY <1>12 DEF ProfileSet, Outcomes, Command, SetParams, Await, Go, Applied
<1>13. CASE ProfileDone /\ WorkerFrame
  BY <1>13 DEF ProfileDone, Answer, Go
<1>14. CASE ProfileFailed /\ WorkerFrame
  BY <1>14 DEF ProfileFailed, Inhibit, CallStop, Go
<1>15. CASE ReleaseBegin /\ WorkerFrame
  BY <1>15 DEF ReleaseBegin, CallStop, Answer, Go
<1>16. CASE ReleaseStopped /\ WorkerFrame
  BY <1>16 DEF ReleaseStopped, Release, Answer, SessionEnds, Go, Inhibit
<1>17. CASE LieBegin /\ WorkerFrame
  BY <1>17 DEF LieBegin, CallStop, Go
<1>18. CASE LieAction /\ WorkerFrame
  BY <1>18 DEF LieAction, Command, Halted, Await, Go
<1>19. CASE LieDone /\ WorkerFrame
  BY <1>19 DEF LieDone, Go, Release, Answer, SessionEnds, Inhibit
<1>20. CASE Estop /\ WorkerFrame
  BY <1>20 DEF Estop, Command, Halted, Await, Answer, Go
<1>21. CASE EstopDone /\ WorkerFrame
  BY <1>21 DEF EstopDone, Answer, Go
<1>22. CASE NoJob /\ WorkerFrame
  BY <1>22 DEF NoJob, Go, unmoved
<1>23. CASE Posted /\ WorkerFrame
  BY <1>23 DEF Posted, Report, Go, Inhibit
<1>24. CASE Loop /\ WorkerFrame
  BY <1>24 DEF Loop, Go, unmoved
<1>25. CASE Reconnect /\ WorkerFrame
  BY <1>25 DEF Reconnect, GoTop, Go
<1>26. CASE MotionStale /\ WorkerFrame
  BY <1>26 DEF MotionStale, Inhibit, CallStop, Go
<1>27. CASE DispatchUnready /\ WorkerFrame
  BY <1>27 DEF DispatchUnready, Go
<1>28. CASE DispatchSilent /\ WorkerFrame
  BY <1>28 DEF DispatchSilent, CallStop, Go
<1>29. CASE SilenceStopped /\ WorkerFrame
  BY <1>29 DEF SilenceStopped, Inhibit, Go
<1>30. CASE DispatchLater /\ WorkerFrame
  BY <1>30 DEF DispatchLater, Go, unmoved
<1>31. CASE DispatchTake /\ WorkerFrame
  BY <1>31 DEF DispatchTake, Go
<1>32. CASE VelocityRevoked /\ WorkerFrame
  BY <1>32 DEF VelocityRevoked, SessionEnds, Go, Inhibit
<1>33. CASE VelocityRpc /\ WorkerFrame
  BY <1>33 DEF VelocityRpc, Command, SetParams, Go
<1>34. CASE RetryQuery /\ WorkerFrame
  BY <1>34 DEF RetryQuery, Go, Report, Inhibit
<1>35. CASE RetryRpc /\ WorkerFrame
  BY <1>35 DEF RetryRpc, Command, SetParams, Go
<1>36. CASE HaltMotion /\ WorkerFrame
  BY <1>36 DEF HaltMotion, Inhibit, CallStop, Go
<1>37. CASE RecoverNothing /\ WorkerFrame
  BY <1>37 DEF RecoverNothing, Go, unmoved
<1>38. CASE RecoverUncontrolled /\ WorkerFrame
  BY <1>38 DEF RecoverUncontrolled, Go
<1>39. CASE RecoverEscalate /\ WorkerFrame
  BY <1>39 DEF RecoverEscalate, Command, Halted, Go
<1>40. CASE RecoverQuery /\ WorkerFrame
  BY <1>40 DEF RecoverQuery, Report, Go, CallStop, Inhibit
<1>41. CASE Watch /\ WorkerFrame
  BY <1>41 DEF Watch, GoTop, unmoved, Go
<1>42. CASE RpcStale /\ WorkerFrame
  BY <1>42 DEF RpcStale, Inhibit, CallStop, Go
<1>43. CASE CleanUp /\ WorkerFrame
  BY <1>43 DEF CleanUp, CallStop, Go
<1>44. CASE Unlink /\ WorkerFrame
  BY <1>44 DEF Unlink, Release, Command, Halted, Go, SessionEnds, Inhibit
<1>45. CASE Disconnect /\ WorkerFrame
  BY <1>45 DEF Disconnect, SessionEnds, Go, Inhibit
<1>46. CASE StopUncontrolled /\ WorkerFrame
  BY <1>46 DEF StopUncontrolled, Go
<1>47. CASE StopRpc /\ WorkerFrame
  BY <1>47 DEF StopRpc, InEmergencyStop, Outcomes, Command, Halted, Await, Go, Applied
<1>48. CASE StopInEmergency /\ WorkerFrame
  BY <1>48 DEF StopInEmergency, Await, Go
<1>49. CASE StopDone /\ WorkerFrame
  BY <1>49 DEF StopDone, Go
<1>50. CASE ConfirmReport /\ WorkerFrame
  BY <1>50 DEF ConfirmReport, Canceled, Report, Confirmed, Go, Cancellable, Inhibit,
       None
<1>51. CASE ConfirmFails /\ WorkerFrame
  BY <1>51 DEF ConfirmFails, Go
<1>52. CASE BadReport /\ WorkerFrame
  BY <1>52 DEF BadReport, Abort, Inhibit, Go
<1>53. CASE AbortStop /\ WorkerFrame
  BY <1>53 DEF AbortStop, Command, Halted, Answer, Go, GoTop
<1>54. ASSUME NEW c \in Clients, CheckReady(c) PROVE MotionPart'
  BY <1>54 DEF CheckReady
<1>55. ASSUME NEW c \in Clients, SubmitPreparation(c) PROVE MotionPart'
  BY <1>55 DEF SubmitPreparation, Accept, Inhibit
<1>56. ASSUME NEW c \in Clients, Return(c) PROVE MotionPart'
  BY <1>56 DEF Return
<1>57. ASSUME NEW c \in Clients, NEW k \in Stopping, SubmitStop(c, k) PROVE MotionPart'
  BY <1>57 DEF SubmitStop, Accept, Inhibit
<1>58. CASE ControlLost
  BY <1>58 DEF ControlLost, SessionEnds, Inhibit
<1>59. CASE RemoteEmergencyStop
  BY <1>59 DEF RemoteEmergencyStop, Halted
<1>60. CASE Settle
  BY <1>60 DEF Settle
<1>61. CASE PollReport
  BY <1>61 DEF PollReport, Report, Inhibit
<1>62. CASE Move
  BY <1>62 DEF Move
<1>63. CASE Shutdown
  BY <1>63 DEF Shutdown, Inhibit
<1>64. CASE UNCHANGED vars
  BY <1>64 DEF vars
<1>65. QED
  BY <1>1, <1>2, <1>3, <1>4, <1>5, <1>6, <1>7, <1>8, <1>9, <1>10, <1>11, <1>12, <1>13,
       <1>14, <1>15, <1>16, <1>17, <1>18, <1>19, <1>20, <1>21, <1>22, <1>23, <1>24,
       <1>25, <1>26, <1>27, <1>28, <1>29, <1>30, <1>31, <1>32, <1>33, <1>34, <1>35,
       <1>36, <1>37, <1>38, <1>39, <1>40, <1>41, <1>42, <1>43, <1>44, <1>45, <1>46,
       <1>47, <1>48, <1>49, <1>50, <1>51, <1>52, <1>53, <1>54, <1>55, <1>56, <1>57,
       <1>58, <1>59, <1>60, <1>61, <1>62, <1>63, <1>64 DEF Next, Worker, Job, Round,
       Stop, Confirm, Exception, Service, Environment, Finished

(* No step sets the robot in motion after the latest stop was confirmed. *)
LEMMA StoppedStep ==
    ASSUME TypeOK, JobPart, TicketPart, ReadyPart, MotionPart, StoppedPart, [Next]_vars
    PROVE  StoppedPart'
<1> USE DEF StoppedPart, Latest, MotionPart, ReadyPart, TicketPart, TypeOK, FlagTypes,
         LinkTypes, NumberTypes, ServiceTypes, JobPart, Point, KindsAt, Preparing, Stopping,
         Controlled, Interrupted, Token, WorkerFrame, permit, services, reply, device
<1>1. ASSUME NEW c \in Clients, TakeJob(c), WorkerFrame PROVE StoppedPart'
  BY <1>1 DEF TakeJob, First, Go
<1>2. CASE JobFails /\ WorkerFrame
  BY <1>2 DEF JobFails, Answer, Go
<1>3. CASE AcquireRpc /\ WorkerFrame
  BY <1>3 DEF AcquireRpc, Go, SessionEnds, Answer, Inhibit
<1>4. CASE Acquired /\ WorkerFrame
  BY <1>4 DEF Acquired, Go
<1>5. CASE StandBegin /\ WorkerFrame
  BY <1>5 DEF StandBegin, Go
<1>6. CASE StandQuery /\ WorkerFrame
  BY <1>6 DEF StandQuery, Report, Answer, Go, Inhibit
<1>7. CASE StandWalk /\ WorkerFrame
  BY <1>7 DEF StandWalk, Command, SetParams, Halted, Await, Go
<1>8. CASE StandDone /\ WorkerFrame
  BY <1>8 DEF StandDone, Go, Answer
<1>9. CASE GiveUp /\ WorkerFrame
  BY <1>9 DEF GiveUp, CallStop, Go
<1>10. CASE GiveUpStopped /\ WorkerFrame
  BY <1>10 DEF GiveUpStopped, Release, Answer, SessionEnds, Go, Inhibit
<1>11. CASE ProfileBegin /\ WorkerFrame
  BY <1>11 DEF ProfileBegin, CallStop, Answer, Go
<1>12. CASE ProfileSet /\ WorkerFrame
  BY <1>12 DEF ProfileSet, Command, SetParams, Await, Go
<1>13. CASE ProfileDone /\ WorkerFrame
  BY <1>13 DEF ProfileDone, Answer, Go
<1>14. CASE ProfileFailed /\ WorkerFrame
  BY <1>14 DEF ProfileFailed, Inhibit, CallStop, Go
<1>15. CASE ReleaseBegin /\ WorkerFrame
  BY <1>15 DEF ReleaseBegin, CallStop, Answer, Go
<1>16. CASE ReleaseStopped /\ WorkerFrame
  BY <1>16 DEF ReleaseStopped, Release, Answer, SessionEnds, Go, Inhibit
<1>17. CASE LieBegin /\ WorkerFrame
  BY <1>17 DEF LieBegin, CallStop, Go
<1>18. CASE LieAction /\ WorkerFrame
  BY <1>18 DEF LieAction, Command, Halted, Await, Go
<1>19. CASE LieDone /\ WorkerFrame
  BY <1>19 DEF LieDone, Go, Release, Answer, SessionEnds, Inhibit
<1>20. CASE Estop /\ WorkerFrame
  BY <1>20 DEF Estop, Command, Halted, Await, Answer, Go
<1>21. CASE EstopDone /\ WorkerFrame
  BY <1>21 DEF EstopDone, Answer, Go
<1>22. CASE NoJob /\ WorkerFrame
  BY <1>22 DEF NoJob, Go, unmoved
<1>23. CASE Posted /\ WorkerFrame
  BY <1>23 DEF Posted, Report, Go, Inhibit
<1>24. CASE Loop /\ WorkerFrame
  BY <1>24 DEF Loop, Go, unmoved
<1>25. CASE Reconnect /\ WorkerFrame
  BY <1>25 DEF Reconnect, GoTop, Go
<1>26. CASE MotionStale /\ WorkerFrame
  BY <1>26 DEF MotionStale, Inhibit, CallStop, Go
<1>27. CASE DispatchUnready /\ WorkerFrame
  BY <1>27 DEF DispatchUnready, Go
<1>28. CASE DispatchSilent /\ WorkerFrame
  BY <1>28 DEF DispatchSilent, CallStop, Go
<1>29. CASE SilenceStopped /\ WorkerFrame
  BY <1>29 DEF SilenceStopped, Inhibit, Go
<1>30. CASE DispatchLater /\ WorkerFrame
  BY <1>30 DEF DispatchLater, Go, unmoved
<1>31. CASE DispatchTake /\ WorkerFrame
  BY <1>31 DEF DispatchTake, Go
<1>32. CASE VelocityRevoked /\ WorkerFrame
  BY <1>32 DEF VelocityRevoked, SessionEnds, Go, Inhibit
<1>33. CASE VelocityRpc /\ WorkerFrame
  BY <1>33 DEF VelocityRpc, Command, SetParams, Go
<1>34. CASE RetryQuery /\ WorkerFrame
  BY <1>34 DEF RetryQuery, Go, Report, Inhibit
<1>35. CASE RetryRpc /\ WorkerFrame
  BY <1>35 DEF RetryRpc, Command, SetParams, Go
<1>36. CASE HaltMotion /\ WorkerFrame
  BY <1>36 DEF HaltMotion, Inhibit, CallStop, Go
<1>37. CASE RecoverNothing /\ WorkerFrame
  BY <1>37 DEF RecoverNothing, Go, unmoved
<1>38. CASE RecoverUncontrolled /\ WorkerFrame
  BY <1>38 DEF RecoverUncontrolled, Go
<1>39. CASE RecoverEscalate /\ WorkerFrame
  BY <1>39 DEF RecoverEscalate, Command, Halted, Go
<1>40. CASE RecoverQuery /\ WorkerFrame
  BY <1>40 DEF RecoverQuery, Report, Go, CallStop, Inhibit
<1>41. CASE Watch /\ WorkerFrame
  BY <1>41 DEF Watch, GoTop, unmoved, Go
<1>42. CASE RpcStale /\ WorkerFrame
  BY <1>42 DEF RpcStale, Inhibit, CallStop, Go
<1>43. CASE CleanUp /\ WorkerFrame
  BY <1>43 DEF CleanUp, CallStop, Go
<1>44. CASE Unlink /\ WorkerFrame
  BY <1>44 DEF Unlink, Release, Command, Halted, Go, SessionEnds, Inhibit
<1>45. CASE Disconnect /\ WorkerFrame
  BY <1>45 DEF Disconnect, SessionEnds, Go, Inhibit
<1>46. CASE StopUncontrolled /\ WorkerFrame
  BY <1>46 DEF StopUncontrolled, Go
<1>47. CASE StopRpc /\ WorkerFrame
  BY <1>47 DEF StopRpc, Command, Halted, Await, Go
<1>48. CASE StopInEmergency /\ WorkerFrame
  BY <1>48 DEF StopInEmergency, Await, Go
<1>49. CASE StopDone /\ WorkerFrame
  BY <1>49 DEF StopDone, Go
<1>50. CASE ConfirmReport /\ WorkerFrame
  BY <1>50 DEF ConfirmReport, Report, Go, Inhibit
<1>51. CASE ConfirmFails /\ WorkerFrame
  BY <1>51 DEF ConfirmFails, Go
<1>52. CASE BadReport /\ WorkerFrame
  BY <1>52 DEF BadReport, Abort, Inhibit, Go
<1>53. CASE AbortStop /\ WorkerFrame
  BY <1>53 DEF AbortStop, Command, Halted, Answer, Go, GoTop
<1>54. ASSUME NEW c \in Clients, CheckReady(c) PROVE StoppedPart'
  BY <1>54 DEF CheckReady
<1>55. ASSUME NEW c \in Clients, SubmitPreparation(c) PROVE StoppedPart'
  BY <1>55 DEF SubmitPreparation, Accept, Inhibit
<1>56. ASSUME NEW c \in Clients, Return(c) PROVE StoppedPart'
  BY <1>56 DEF Return
<1>57. ASSUME NEW c \in Clients, NEW k \in Stopping, SubmitStop(c, k) PROVE StoppedPart'
  BY <1>57 DEF SubmitStop, Accept, Inhibit
<1>58. CASE ControlLost
  BY <1>58 DEF ControlLost, SessionEnds, Inhibit
<1>59. CASE RemoteEmergencyStop
  BY <1>59 DEF RemoteEmergencyStop, Halted
<1>60. CASE Settle
  BY <1>60 DEF Settle
<1>61. CASE PollReport
  BY <1>61 DEF PollReport, Report, Inhibit
<1>62. CASE Move
  BY <1>62 DEF Move
<1>63. CASE Shutdown
  BY <1>63 DEF Shutdown, Inhibit
<1>64. CASE UNCHANGED vars
  BY <1>64 DEF vars
<1>65. QED
  BY <1>1, <1>2, <1>3, <1>4, <1>5, <1>6, <1>7, <1>8, <1>9, <1>10, <1>11, <1>12, <1>13,
       <1>14, <1>15, <1>16, <1>17, <1>18, <1>19, <1>20, <1>21, <1>22, <1>23, <1>24,
       <1>25, <1>26, <1>27, <1>28, <1>29, <1>30, <1>31, <1>32, <1>33, <1>34, <1>35,
       <1>36, <1>37, <1>38, <1>39, <1>40, <1>41, <1>42, <1>43, <1>44, <1>45, <1>46,
       <1>47, <1>48, <1>49, <1>50, <1>51, <1>52, <1>53, <1>54, <1>55, <1>56, <1>57,
       <1>58, <1>59, <1>60, <1>61, <1>62, <1>63, <1>64 DEF Next, Worker, Job, Round,
       Stop, Confirm, Exception, Service, Environment, Finished

(* Every way from a velocity to a stop forgets that the robot is driven. *)
LEMMA ActiveStep ==
    ASSUME TypeOK, JobPart, ReadyPart, ActivePart, [Next]_vars
    PROVE  ActivePart'
<1> USE DEF ActivePart, ReadyPart, StopsForSilence, TypeOK, FlagTypes, LinkTypes,
         NumberTypes, ServiceTypes, JobPart, Point, KindsAt, Preparing, Stopping,
         Controlled, Interrupted, Token, WorkerFrame, halt, locals, waiting, drive, calling
<1>1. ASSUME NEW c \in Clients, TakeJob(c), WorkerFrame PROVE ActivePart'
  BY <1>1 DEF TakeJob, Go
<1>2. CASE JobFails /\ WorkerFrame
  BY <1>2 DEF JobFails, Answer, Go
<1>3. CASE AcquireRpc /\ WorkerFrame
  BY <1>3 DEF AcquireRpc, Go, Answer
<1>4. CASE Acquired /\ WorkerFrame
  BY <1>4 DEF Acquired, Go
<1>5. CASE StandBegin /\ WorkerFrame
  BY <1>5 DEF StandBegin, Go
<1>6. CASE StandQuery /\ WorkerFrame
  BY <1>6 DEF StandQuery, Answer, Go
<1>7. CASE StandWalk /\ WorkerFrame
  BY <1>7 DEF StandWalk, Await, Go
<1>8. CASE StandDone /\ WorkerFrame
  BY <1>8 DEF StandDone, Go, Answer
<1>9. CASE GiveUp /\ WorkerFrame
  BY <1>9 DEF GiveUp, CallStop, Go
<1>10. CASE GiveUpStopped /\ WorkerFrame
  BY <1>10 DEF GiveUpStopped, Answer, Go
<1>11. CASE ProfileBegin /\ WorkerFrame
  BY <1>11 DEF ProfileBegin, CallStop, Answer, Go
<1>12. CASE ProfileSet /\ WorkerFrame
  BY <1>12 DEF ProfileSet, Await, Go
<1>13. CASE ProfileDone /\ WorkerFrame
  BY <1>13 DEF ProfileDone, Answer, Go
<1>14. CASE ProfileFailed /\ WorkerFrame
  BY <1>14 DEF ProfileFailed, CallStop, Go
<1>15. CASE ReleaseBegin /\ WorkerFrame
  BY <1>15 DEF ReleaseBegin, CallStop, Answer, Go
<1>16. CASE ReleaseStopped /\ WorkerFrame
  BY <1>16 DEF ReleaseStopped, Answer, Go
<1>17. CASE LieBegin /\ WorkerFrame
  BY <1>17 DEF LieBegin, CallStop, Go
<1>18. CASE LieAction /\ WorkerFrame
  BY <1>18 DEF LieAction, Await, Go
<1>19. CASE LieDone /\ WorkerFrame
  BY <1>19 DEF LieDone, Go, Answer
<1>20. CASE Estop /\ WorkerFrame
  BY <1>20 DEF Estop, Await, Answer, Go
<1>21. CASE EstopDone /\ WorkerFrame
  BY <1>21 DEF EstopDone, Answer, Go
<1>22. CASE NoJob /\ WorkerFrame
  BY <1>22 DEF NoJob, Go, unmoved
<1>23. CASE Posted /\ WorkerFrame
  BY <1>23 DEF Posted, Go
<1>24. CASE Loop /\ WorkerFrame
  BY <1>24 DEF Loop, Go, unmoved
<1>25. CASE Reconnect /\ WorkerFrame
  BY <1>25 DEF Reconnect, GoTop, Go
<1>26. CASE MotionStale /\ WorkerFrame
  BY <1>26 DEF MotionStale, CallStop, Go
<1>27. CASE DispatchUnready /\ WorkerFrame
  BY <1>27 DEF DispatchUnready, Go
<1>28. CASE DispatchSilent /\ WorkerFrame
  BY <1>28 DEF DispatchSilent, CallStop, Go
<1>29. CASE SilenceStopped /\ WorkerFrame
  BY <1>29 DEF SilenceStopped, Go
<1>30. CASE DispatchLater /\ WorkerFrame
  BY <1>30 DEF DispatchLater, Go, unmoved
<1>31. CASE DispatchTake /\ WorkerFrame
  BY <1>31 DEF DispatchTake, Go
<1>32. CASE VelocityRevoked /\ WorkerFrame
  BY <1>32 DEF VelocityRevoked, Go
<1>33. CASE VelocityRpc /\ WorkerFrame
  BY <1>33 DEF VelocityRpc, Go
<1>34. CASE RetryQuery /\ WorkerFrame
  BY <1>34 DEF RetryQuery, Go
<1>35. CASE RetryRpc /\ WorkerFrame
  BY <1>35 DEF RetryRpc, Go
<1>36. CASE HaltMotion /\ WorkerFrame
  BY <1>36 DEF HaltMotion, CallStop, Go
<1>37. CASE RecoverNothing /\ WorkerFrame
  BY <1>37 DEF RecoverNothing, Go, unmoved
<1>38. CASE RecoverUncontrolled /\ WorkerFrame
  BY <1>38 DEF RecoverUncontrolled, Go
<1>39. CASE RecoverEscalate /\ WorkerFrame
  BY <1>39 DEF RecoverEscalate, Go
<1>40. CASE RecoverQuery /\ WorkerFrame
  BY <1>40 DEF RecoverQuery, Go, CallStop
<1>41. CASE Watch /\ WorkerFrame
  BY <1>41 DEF Watch, GoTop, unmoved, Go
<1>42. CASE RpcStale /\ WorkerFrame
  BY <1>42 DEF RpcStale, CallStop, Go
<1>43. CASE CleanUp /\ WorkerFrame
  BY <1>43 DEF CleanUp, CallStop, Go
<1>44. CASE Unlink /\ WorkerFrame
  BY <1>44 DEF Unlink, Go
<1>45. CASE Disconnect /\ WorkerFrame
  BY <1>45 DEF Disconnect, Go
<1>46. CASE StopUncontrolled /\ WorkerFrame
  BY <1>46 DEF StopUncontrolled, Go
<1>47. CASE StopRpc /\ WorkerFrame
  BY <1>47 DEF StopRpc, Await, Go
<1>48. CASE StopInEmergency /\ WorkerFrame
  BY <1>48 DEF StopInEmergency, Await, Go
<1>49. CASE StopDone /\ WorkerFrame
  BY <1>49 DEF StopDone, Go
<1>50. CASE ConfirmReport /\ WorkerFrame
  BY <1>50 DEF ConfirmReport, Go
<1>51. CASE ConfirmFails /\ WorkerFrame
  BY <1>51 DEF ConfirmFails, Go
<1>52. CASE BadReport /\ WorkerFrame
  BY <1>52 DEF BadReport, Abort, Go
<1>53. CASE AbortStop /\ WorkerFrame
  BY <1>53 DEF AbortStop, Answer, Go, GoTop
<1>54. ASSUME NEW c \in Clients, CheckReady(c) PROVE ActivePart'
  BY <1>54 DEF CheckReady
<1>55. ASSUME NEW c \in Clients, SubmitPreparation(c) PROVE ActivePart'
  BY <1>55 DEF SubmitPreparation
<1>56. ASSUME NEW c \in Clients, Return(c) PROVE ActivePart'
  BY <1>56 DEF Return
<1>57. ASSUME NEW c \in Clients, NEW k \in Stopping, SubmitStop(c, k) PROVE ActivePart'
  BY <1>57 DEF SubmitStop
<1>58. CASE ControlLost
  BY <1>58 DEF ControlLost
<1>59. CASE RemoteEmergencyStop
  BY <1>59 DEF RemoteEmergencyStop
<1>60. CASE Settle
  BY <1>60 DEF Settle
<1>61. CASE PollReport
  BY <1>61 DEF PollReport
<1>62. CASE Move
  BY <1>62 DEF Move
<1>63. CASE Shutdown
  BY <1>63 DEF Shutdown
<1>64. CASE UNCHANGED vars
  BY <1>64 DEF vars
<1>65. QED
  BY <1>1, <1>2, <1>3, <1>4, <1>5, <1>6, <1>7, <1>8, <1>9, <1>10, <1>11, <1>12, <1>13,
       <1>14, <1>15, <1>16, <1>17, <1>18, <1>19, <1>20, <1>21, <1>22, <1>23, <1>24,
       <1>25, <1>26, <1>27, <1>28, <1>29, <1>30, <1>31, <1>32, <1>33, <1>34, <1>35,
       <1>36, <1>37, <1>38, <1>39, <1>40, <1>41, <1>42, <1>43, <1>44, <1>45, <1>46,
       <1>47, <1>48, <1>49, <1>50, <1>51, <1>52, <1>53, <1>54, <1>55, <1>56, <1>57,
       <1>58, <1>59, <1>60, <1>61, <1>62, <1>63, <1>64 DEF Next, Worker, Job, Round,
       Stop, Confirm, Exception, Service, Environment, Finished

(* A request accepted gets a ticket no other request has. *)
LEMMA RecordStep ==
    ASSUME TypeOK, JobPart, TicketPart, RecordPart, [Next]_vars
    PROVE  RecordPart'
<1> USE DEF RecordPart, TicketPart, TypeOK, FlagTypes, LinkTypes, NumberTypes, ServiceTypes,
         JobPart, Point, KindsAt, Preparing, Stopping, Controlled, Interrupted, Token,
         WorkerFrame, services, reply
<1>1. ASSUME NEW c \in Clients, TakeJob(c), WorkerFrame PROVE RecordPart'
  BY <1>1 DEF TakeJob, Waiting, First
<1>2. CASE JobFails /\ WorkerFrame
  BY <1>2 DEF JobFails, Answer
<1>3. CASE AcquireRpc /\ WorkerFrame
  BY <1>3, ZenonT(60) DEF AcquireRpc, Answer
<1>4. CASE Acquired /\ WorkerFrame
  BY <1>4 DEF Acquired
<1>5. CASE StandBegin /\ WorkerFrame
  BY <1>5 DEF StandBegin
<1>6. CASE StandQuery /\ WorkerFrame
  BY <1>6 DEF StandQuery, Answer
<1>7. CASE StandWalk /\ WorkerFrame
  BY <1>7 DEF StandWalk
<1>8. CASE StandDone /\ WorkerFrame
  BY <1>8 DEF StandDone, Answer
<1>9. CASE GiveUp /\ WorkerFrame
  BY <1>9 DEF GiveUp
<1>10. CASE GiveUpStopped /\ WorkerFrame
  BY <1>10 DEF GiveUpStopped, Answer
<1>11. CASE ProfileBegin /\ WorkerFrame
  BY <1>11 DEF ProfileBegin, Answer
<1>12. CASE ProfileSet /\ WorkerFrame
  BY <1>12 DEF ProfileSet
<1>13. CASE ProfileDone /\ WorkerFrame
  BY <1>13 DEF ProfileDone, Answer
<1>14. CASE ProfileFailed /\ WorkerFrame
  BY <1>14 DEF ProfileFailed
<1>15. CASE ReleaseBegin /\ WorkerFrame
  BY <1>15 DEF ReleaseBegin, Answer
<1>16. CASE ReleaseStopped /\ WorkerFrame
  BY <1>16 DEF ReleaseStopped, Answer
<1>17. CASE LieBegin /\ WorkerFrame
  BY <1>17 DEF LieBegin
<1>18. CASE LieAction /\ WorkerFrame
  BY <1>18 DEF LieAction
<1>19. CASE LieDone /\ WorkerFrame
  BY <1>19 DEF LieDone, Answer
<1>20. CASE Estop /\ WorkerFrame
  BY <1>20 DEF Estop, Answer
<1>21. CASE EstopDone /\ WorkerFrame
  BY <1>21 DEF EstopDone, Answer
<1>22. CASE NoJob /\ WorkerFrame
  BY <1>22 DEF NoJob, Waiting, unmoved
<1>23. CASE Posted /\ WorkerFrame
  BY <1>23 DEF Posted
<1>24. CASE Loop /\ WorkerFrame
  BY <1>24 DEF Loop, unmoved
<1>25. CASE Reconnect /\ WorkerFrame
  BY <1>25 DEF Reconnect
<1>26. CASE MotionStale /\ WorkerFrame
  BY <1>26 DEF MotionStale
<1>27. CASE DispatchUnready /\ WorkerFrame
  BY <1>27 DEF DispatchUnready
<1>28. CASE DispatchSilent /\ WorkerFrame
  BY <1>28 DEF DispatchSilent
<1>29. CASE SilenceStopped /\ WorkerFrame
  BY <1>29 DEF SilenceStopped
<1>30. CASE DispatchLater /\ WorkerFrame
  BY <1>30 DEF DispatchLater, unmoved
<1>31. CASE DispatchTake /\ WorkerFrame
  BY <1>31 DEF DispatchTake
<1>32. CASE VelocityRevoked /\ WorkerFrame
  BY <1>32 DEF VelocityRevoked
<1>33. CASE VelocityRpc /\ WorkerFrame
  BY <1>33 DEF VelocityRpc
<1>34. CASE RetryQuery /\ WorkerFrame
  BY <1>34 DEF RetryQuery
<1>35. CASE RetryRpc /\ WorkerFrame
  BY <1>35 DEF RetryRpc
<1>36. CASE HaltMotion /\ WorkerFrame
  BY <1>36 DEF HaltMotion
<1>37. CASE RecoverNothing /\ WorkerFrame
  BY <1>37 DEF RecoverNothing, unmoved
<1>38. CASE RecoverUncontrolled /\ WorkerFrame
  BY <1>38 DEF RecoverUncontrolled
<1>39. CASE RecoverEscalate /\ WorkerFrame
  BY <1>39 DEF RecoverEscalate
<1>40. CASE RecoverQuery /\ WorkerFrame
  BY <1>40 DEF RecoverQuery
<1>41. CASE Watch /\ WorkerFrame
  BY <1>41 DEF Watch, unmoved
<1>42. CASE RpcStale /\ WorkerFrame
  BY <1>42 DEF RpcStale
<1>43. CASE CleanUp /\ WorkerFrame
  BY <1>43 DEF CleanUp
<1>44. CASE Unlink /\ WorkerFrame
  BY <1>44 DEF Unlink
<1>45. CASE Disconnect /\ WorkerFrame
  BY <1>45 DEF Disconnect
<1>46. CASE StopUncontrolled /\ WorkerFrame
  BY <1>46 DEF StopUncontrolled
<1>47. CASE StopRpc /\ WorkerFrame
  BY <1>47 DEF StopRpc
<1>48. CASE StopInEmergency /\ WorkerFrame
  BY <1>48 DEF StopInEmergency
<1>49. CASE StopDone /\ WorkerFrame
  BY <1>49 DEF StopDone
<1>50. CASE ConfirmReport /\ WorkerFrame
  BY <1>50 DEF ConfirmReport
<1>51. CASE ConfirmFails /\ WorkerFrame
  BY <1>51 DEF ConfirmFails
<1>52. CASE BadReport /\ WorkerFrame
  BY <1>52 DEF BadReport
<1>53. CASE AbortStop /\ WorkerFrame
  BY <1>53 DEF AbortStop, Answer
<1>54. ASSUME NEW c \in Clients, CheckReady(c) PROVE RecordPart'
  BY <1>54 DEF CheckReady, Calls
<1>55. ASSUME NEW c \in Clients, SubmitPreparation(c) PROVE RecordPart'
  BY <1>55 DEF SubmitPreparation, Calls, Accept
<1>56. ASSUME NEW c \in Clients, Return(c) PROVE RecordPart'
  BY <1>56 DEF Return
<1>57. ASSUME NEW c \in Clients, NEW k \in Stopping, SubmitStop(c, k) PROVE RecordPart'
  BY <1>57 DEF SubmitStop, Calls, Accept
<1>58. CASE ControlLost
  BY <1>58 DEF ControlLost
<1>59. CASE RemoteEmergencyStop
  BY <1>59 DEF RemoteEmergencyStop
<1>60. CASE Settle
  BY <1>60 DEF Settle
<1>61. CASE PollReport
  BY <1>61 DEF PollReport
<1>62. CASE Move
  BY <1>62 DEF Move
<1>63. CASE Shutdown
  BY <1>63 DEF Shutdown
<1>64. CASE UNCHANGED vars
  BY <1>64 DEF vars
<1>65. QED
  BY <1>1, <1>2, <1>3, <1>4, <1>5, <1>6, <1>7, <1>8, <1>9, <1>10, <1>11, <1>12, <1>13,
       <1>14, <1>15, <1>16, <1>17, <1>18, <1>19, <1>20, <1>21, <1>22, <1>23, <1>24,
       <1>25, <1>26, <1>27, <1>28, <1>29, <1>30, <1>31, <1>32, <1>33, <1>34, <1>35,
       <1>36, <1>37, <1>38, <1>39, <1>40, <1>41, <1>42, <1>43, <1>44, <1>45, <1>46,
       <1>47, <1>48, <1>49, <1>50, <1>51, <1>52, <1>53, <1>54, <1>55, <1>56, <1>57,
       <1>58, <1>59, <1>60, <1>61, <1>62, <1>63, <1>64 DEF Next, Worker, Job, Round,
       Stop, Confirm, Exception, Service, Environment, Finished

(* No step makes navigation ready while a stop has not returned. *)
LEMMA StopStep ==
    ASSUME TypeOK, JobPart, TicketPart, StopHoldsReady, [Next]_vars
    PROVE  StopHoldsReady'
<1> USE DEF StopHoldsReady, TypeOK, TicketPart, ServiceTypes, NumberTypes, StopRequested,
         Preparing, Stopping, JobPart, Point, KindsAt, WorkerFrame, permit, services, reply
<1>1. ASSUME NEW c \in Clients, TakeJob(c), WorkerFrame PROVE StopHoldsReady'
  BY <1>1 DEF TakeJob, Waiting, First
<1>2. CASE JobFails /\ WorkerFrame
  BY <1>2 DEF JobFails, Answer
<1>3. CASE AcquireRpc /\ WorkerFrame
  BY <1>3 DEF AcquireRpc, SessionEnds, Answer, Inhibit
<1>4. CASE Acquired /\ WorkerFrame
  BY <1>4 DEF Acquired
<1>5. CASE StandBegin /\ WorkerFrame
  BY <1>5 DEF StandBegin
<1>6. CASE StandQuery /\ WorkerFrame
  BY <1>6 DEF StandQuery, Report, Answer, Inhibit
<1>7. CASE StandWalk /\ WorkerFrame
  BY <1>7 DEF StandWalk
<1>8. CASE StandDone /\ WorkerFrame
  BY <1>8 DEF StandDone, Interrupted, Token, Answer, None, Nobody
<1>9. CASE GiveUp /\ WorkerFrame
  BY <1>9 DEF GiveUp
<1>10. CASE GiveUpStopped /\ WorkerFrame
  BY <1>10 DEF GiveUpStopped, Release, Answer, SessionEnds, Inhibit
<1>11. CASE ProfileBegin /\ WorkerFrame
  BY <1>11 DEF ProfileBegin, Answer
<1>12. CASE ProfileSet /\ WorkerFrame
  BY <1>12 DEF ProfileSet
<1>13. CASE ProfileDone /\ WorkerFrame
  BY <1>13 DEF ProfileDone, Interrupted, Token, Answer, None, Nobody
<1>14. CASE ProfileFailed /\ WorkerFrame
  BY <1>14 DEF ProfileFailed, Inhibit
<1>15. CASE ReleaseBegin /\ WorkerFrame
  BY <1>15 DEF ReleaseBegin, Answer
<1>16. CASE ReleaseStopped /\ WorkerFrame
  BY <1>16 DEF ReleaseStopped, Release, Answer, SessionEnds, Inhibit
<1>17. CASE LieBegin /\ WorkerFrame
  BY <1>17 DEF LieBegin
<1>18. CASE LieAction /\ WorkerFrame
  BY <1>18 DEF LieAction
<1>19. CASE LieDone /\ WorkerFrame
  BY <1>19 DEF LieDone, Release, Answer, SessionEnds, Inhibit
<1>20. CASE Estop /\ WorkerFrame
  BY <1>20 DEF Estop, Answer
<1>21. CASE EstopDone /\ WorkerFrame
  BY <1>21 DEF EstopDone, Answer
<1>22. CASE NoJob /\ WorkerFrame
  BY <1>22 DEF NoJob, Waiting, unmoved
<1>23. CASE Posted /\ WorkerFrame
  BY <1>23 DEF Posted, Report, Inhibit
<1>24. CASE Loop /\ WorkerFrame
  BY <1>24 DEF Loop, unmoved
<1>25. CASE Reconnect /\ WorkerFrame
  BY <1>25 DEF Reconnect
<1>26. CASE MotionStale /\ WorkerFrame
  BY <1>26 DEF MotionStale, Inhibit
<1>27. CASE DispatchUnready /\ WorkerFrame
  BY <1>27 DEF DispatchUnready
<1>28. CASE DispatchSilent /\ WorkerFrame
  BY <1>28 DEF DispatchSilent
<1>29. CASE SilenceStopped /\ WorkerFrame
  BY <1>29 DEF SilenceStopped, Inhibit
<1>30. CASE DispatchLater /\ WorkerFrame
  BY <1>30 DEF DispatchLater, unmoved
<1>31. CASE DispatchTake /\ WorkerFrame
  BY <1>31 DEF DispatchTake
<1>32. CASE VelocityRevoked /\ WorkerFrame
  BY <1>32 DEF VelocityRevoked, SessionEnds, Inhibit
<1>33. CASE VelocityRpc /\ WorkerFrame
  BY <1>33 DEF VelocityRpc
<1>34. CASE RetryQuery /\ WorkerFrame
  BY <1>34 DEF RetryQuery, Report, Inhibit
<1>35. CASE RetryRpc /\ WorkerFrame
  BY <1>35 DEF RetryRpc
<1>36. CASE HaltMotion /\ WorkerFrame
  BY <1>36 DEF HaltMotion, Inhibit
<1>37. CASE RecoverNothing /\ WorkerFrame
  BY <1>37 DEF RecoverNothing, unmoved
<1>38. CASE RecoverUncontrolled /\ WorkerFrame
  BY <1>38 DEF RecoverUncontrolled
<1>39. CASE RecoverEscalate /\ WorkerFrame
  BY <1>39 DEF RecoverEscalate
<1>40. CASE RecoverQuery /\ WorkerFrame
  BY <1>40 DEF RecoverQuery, Report, Inhibit
<1>41. CASE Watch /\ WorkerFrame
  BY <1>41 DEF Watch, unmoved
<1>42. CASE RpcStale /\ WorkerFrame
  BY <1>42 DEF RpcStale, Inhibit
<1>43. CASE CleanUp /\ WorkerFrame
  BY <1>43 DEF CleanUp
<1>44. CASE Unlink /\ WorkerFrame
  BY <1>44 DEF Unlink, Release, SessionEnds, Inhibit
<1>45. CASE Disconnect /\ WorkerFrame
  BY <1>45 DEF Disconnect, SessionEnds, Inhibit
<1>46. CASE StopUncontrolled /\ WorkerFrame
  BY <1>46 DEF StopUncontrolled
<1>47. CASE StopRpc /\ WorkerFrame
  BY <1>47 DEF StopRpc
<1>48. CASE StopInEmergency /\ WorkerFrame
  BY <1>48 DEF StopInEmergency
<1>49. CASE StopDone /\ WorkerFrame
  BY <1>49 DEF StopDone
<1>50. CASE ConfirmReport /\ WorkerFrame
  BY <1>50 DEF ConfirmReport, Report, Inhibit
<1>51. CASE ConfirmFails /\ WorkerFrame
  BY <1>51 DEF ConfirmFails
<1>52. CASE BadReport /\ WorkerFrame
  BY <1>52 DEF BadReport, Abort, Inhibit
<1>53. CASE AbortStop /\ WorkerFrame
  BY <1>53 DEF AbortStop, Answer
<1>54. ASSUME NEW c \in Clients, CheckReady(c) PROVE StopHoldsReady'
  BY <1>54 DEF CheckReady, Calls
<1>55. ASSUME NEW c \in Clients, SubmitPreparation(c) PROVE StopHoldsReady'
  BY <1>55 DEF SubmitPreparation, Calls, Accept, Inhibit
<1>56. ASSUME NEW c \in Clients, Return(c) PROVE StopHoldsReady'
  BY <1>56 DEF Return
<1>57. ASSUME NEW c \in Clients, NEW k \in Stopping, SubmitStop(c, k) PROVE StopHoldsReady'
  BY <1>57 DEF SubmitStop, Calls, Accept, Inhibit
<1>58. CASE ControlLost
  BY <1>58 DEF ControlLost, SessionEnds, Inhibit
<1>59. CASE RemoteEmergencyStop
  BY <1>59 DEF RemoteEmergencyStop
<1>60. CASE Settle
  BY <1>60 DEF Settle
<1>61. CASE PollReport
  BY <1>61 DEF PollReport, Report, Inhibit
<1>62. CASE Move
  BY <1>62 DEF Move
<1>63. CASE Shutdown
  BY <1>63 DEF Shutdown, Inhibit
<1>64. CASE UNCHANGED vars
  BY <1>64 DEF vars
<1>65. QED
  BY <1>1, <1>2, <1>3, <1>4, <1>5, <1>6, <1>7, <1>8, <1>9, <1>10, <1>11, <1>12, <1>13,
       <1>14, <1>15, <1>16, <1>17, <1>18, <1>19, <1>20, <1>21, <1>22, <1>23, <1>24,
       <1>25, <1>26, <1>27, <1>28, <1>29, <1>30, <1>31, <1>32, <1>33, <1>34, <1>35,
       <1>36, <1>37, <1>38, <1>39, <1>40, <1>41, <1>42, <1>43, <1>44, <1>45, <1>46,
       <1>47, <1>48, <1>49, <1>50, <1>51, <1>52, <1>53, <1>54, <1>55, <1>56, <1>57,
       <1>58, <1>59, <1>60, <1>61, <1>62, <1>63, <1>64 DEF Next, Worker, Job, Round,
       Stop, Confirm, Exception, Service, Environment, Finished

(* A velocity is taken only while ready, and every inhibition overtakes it. *)
LEMMA JustifiedStep ==
    ASSUME TypeOK, JobPart, TicketPart, ReadyPart, DriveJustified, [Next]_vars
    PROVE  DriveJustified'
<1> USE DEF DriveJustified, ReadyPart, StopsForSilence, TypeOK, FlagTypes, LinkTypes,
         NumberTypes, ServiceTypes, JobPart, Point, KindsAt, Preparing, Stopping,
         Controlled, Interrupted, Token, WorkerFrame, permit, halt, waiting, calling
<1>1. ASSUME NEW c \in Clients, TakeJob(c), WorkerFrame PROVE DriveJustified'
  BY <1>1 DEF TakeJob, Go
<1>2. CASE JobFails /\ WorkerFrame
  BY <1>2 DEF JobFails, Answer, Go
<1>3. CASE AcquireRpc /\ WorkerFrame
  BY <1>3 DEF AcquireRpc, Go, SessionEnds, Answer, Inhibit
<1>4. CASE Acquired /\ WorkerFrame
  BY <1>4 DEF Acquired, Go
<1>5. CASE StandBegin /\ WorkerFrame
  BY <1>5 DEF StandBegin, Go
<1>6. CASE StandQuery /\ WorkerFrame
  BY <1>6 DEF StandQuery, Report, Answer, Go, Inhibit
<1>7. CASE StandWalk /\ WorkerFrame
  BY <1>7 DEF StandWalk, Await, Go
<1>8. CASE StandDone /\ WorkerFrame
  BY <1>8 DEF StandDone, Go, Answer
<1>9. CASE GiveUp /\ WorkerFrame
  BY <1>9 DEF GiveUp, CallStop, Go
<1>10. CASE GiveUpStopped /\ WorkerFrame
  BY <1>10 DEF GiveUpStopped, Release, Answer, SessionEnds, Go, Inhibit
<1>11. CASE ProfileBegin /\ WorkerFrame
  BY <1>11 DEF ProfileBegin, CallStop, Answer, Go
<1>12. CASE ProfileSet /\ WorkerFrame
  BY <1>12 DEF ProfileSet, Await, Go
<1>13. CASE ProfileDone /\ WorkerFrame
  BY <1>13 DEF ProfileDone, Answer, Go
<1>14. CASE ProfileFailed /\ WorkerFrame
  BY <1>14 DEF ProfileFailed, Inhibit, CallStop, Go
<1>15. CASE ReleaseBegin /\ WorkerFrame
  BY <1>15 DEF ReleaseBegin, CallStop, Answer, Go
<1>16. CASE ReleaseStopped /\ WorkerFrame
  BY <1>16 DEF ReleaseStopped, Release, Answer, SessionEnds, Go, Inhibit
<1>17. CASE LieBegin /\ WorkerFrame
  BY <1>17 DEF LieBegin, CallStop, Go
<1>18. CASE LieAction /\ WorkerFrame
  BY <1>18 DEF LieAction, Await, Go
<1>19. CASE LieDone /\ WorkerFrame
  BY <1>19 DEF LieDone, Go, Release, Answer, SessionEnds, Inhibit
<1>20. CASE Estop /\ WorkerFrame
  BY <1>20 DEF Estop, Await, Answer, Go
<1>21. CASE EstopDone /\ WorkerFrame
  BY <1>21 DEF EstopDone, Answer, Go
<1>22. CASE NoJob /\ WorkerFrame
  BY <1>22 DEF NoJob, Go, unmoved
<1>23. CASE Posted /\ WorkerFrame
  BY <1>23 DEF Posted, Report, Go, Inhibit
<1>24. CASE Loop /\ WorkerFrame
  BY <1>24 DEF Loop, Go, unmoved
<1>25. CASE Reconnect /\ WorkerFrame
  BY <1>25 DEF Reconnect, GoTop, Go
<1>26. CASE MotionStale /\ WorkerFrame
  BY <1>26 DEF MotionStale, Inhibit, CallStop, Go
<1>27. CASE DispatchUnready /\ WorkerFrame
  BY <1>27 DEF DispatchUnready, Go
<1>28. CASE DispatchSilent /\ WorkerFrame
  BY <1>28 DEF DispatchSilent, CallStop, Go
<1>29. CASE SilenceStopped /\ WorkerFrame
  BY <1>29 DEF SilenceStopped, Inhibit, Go
<1>30. CASE DispatchLater /\ WorkerFrame
  BY <1>30 DEF DispatchLater, Go, unmoved
<1>31. CASE DispatchTake /\ WorkerFrame
  BY <1>31 DEF DispatchTake, Go
<1>32. CASE VelocityRevoked /\ WorkerFrame
  BY <1>32 DEF VelocityRevoked, SessionEnds, Go, Inhibit
<1>33. CASE VelocityRpc /\ WorkerFrame
  BY <1>33 DEF VelocityRpc, Go
<1>34. CASE RetryQuery /\ WorkerFrame
  BY <1>34 DEF RetryQuery, Go, Report, Inhibit
<1>35. CASE RetryRpc /\ WorkerFrame
  BY <1>35 DEF RetryRpc, Go
<1>36. CASE HaltMotion /\ WorkerFrame
  BY <1>36 DEF HaltMotion, Inhibit, CallStop, Go
<1>37. CASE RecoverNothing /\ WorkerFrame
  BY <1>37 DEF RecoverNothing, Go, unmoved
<1>38. CASE RecoverUncontrolled /\ WorkerFrame
  BY <1>38 DEF RecoverUncontrolled, Go
<1>39. CASE RecoverEscalate /\ WorkerFrame
  BY <1>39 DEF RecoverEscalate, Go
<1>40. CASE RecoverQuery /\ WorkerFrame
  BY <1>40 DEF RecoverQuery, Report, Go, CallStop, Inhibit
<1>41. CASE Watch /\ WorkerFrame
  BY <1>41 DEF Watch, GoTop, unmoved, Go
<1>42. CASE RpcStale /\ WorkerFrame
  BY <1>42 DEF RpcStale, Inhibit, CallStop, Go
<1>43. CASE CleanUp /\ WorkerFrame
  BY <1>43 DEF CleanUp, CallStop, Go
<1>44. CASE Unlink /\ WorkerFrame
  BY <1>44 DEF Unlink, Release, Go, SessionEnds, Inhibit
<1>45. CASE Disconnect /\ WorkerFrame
  BY <1>45 DEF Disconnect, SessionEnds, Go, Inhibit
<1>46. CASE StopUncontrolled /\ WorkerFrame
  BY <1>46 DEF StopUncontrolled, Go
<1>47. CASE StopRpc /\ WorkerFrame
  BY <1>47 DEF StopRpc, Await, Go
<1>48. CASE StopInEmergency /\ WorkerFrame
  BY <1>48 DEF StopInEmergency, Await, Go
<1>49. CASE StopDone /\ WorkerFrame
  BY <1>49 DEF StopDone, Go
<1>50. CASE ConfirmReport /\ WorkerFrame
  BY <1>50 DEF ConfirmReport, Report, Go, Inhibit
<1>51. CASE ConfirmFails /\ WorkerFrame
  BY <1>51 DEF ConfirmFails, Go
<1>52. CASE BadReport /\ WorkerFrame
  BY <1>52 DEF BadReport, Abort, Inhibit, Go
<1>53. CASE AbortStop /\ WorkerFrame
  BY <1>53 DEF AbortStop, Answer, Go, GoTop
<1>54. ASSUME NEW c \in Clients, CheckReady(c) PROVE DriveJustified'
  BY <1>54 DEF CheckReady, Calls
<1>55. ASSUME NEW c \in Clients, SubmitPreparation(c) PROVE DriveJustified'
  BY <1>55 DEF SubmitPreparation, Calls, Accept, Inhibit
<1>56. ASSUME NEW c \in Clients, Return(c) PROVE DriveJustified'
  BY <1>56 DEF Return
<1>57. ASSUME NEW c \in Clients, NEW k \in Stopping, SubmitStop(c, k) PROVE DriveJustified'
  BY <1>57 DEF SubmitStop, Calls, Accept, Inhibit
<1>58. CASE ControlLost
  BY <1>58 DEF ControlLost, SessionEnds, Inhibit
<1>59. CASE RemoteEmergencyStop
  BY <1>59 DEF RemoteEmergencyStop
<1>60. CASE Settle
  BY <1>60 DEF Settle
<1>61. CASE PollReport
  BY <1>61 DEF PollReport, Report, Inhibit
<1>62. CASE Move
  BY <1>62 DEF Move
<1>63. CASE Shutdown
  BY <1>63 DEF Shutdown, Inhibit
<1>64. CASE UNCHANGED vars
  BY <1>64 DEF vars
<1>65. QED
  BY <1>1, <1>2, <1>3, <1>4, <1>5, <1>6, <1>7, <1>8, <1>9, <1>10, <1>11, <1>12, <1>13,
       <1>14, <1>15, <1>16, <1>17, <1>18, <1>19, <1>20, <1>21, <1>22, <1>23, <1>24,
       <1>25, <1>26, <1>27, <1>28, <1>29, <1>30, <1>31, <1>32, <1>33, <1>34, <1>35,
       <1>36, <1>37, <1>38, <1>39, <1>40, <1>41, <1>42, <1>43, <1>44, <1>45, <1>46,
       <1>47, <1>48, <1>49, <1>50, <1>51, <1>52, <1>53, <1>54, <1>55, <1>56, <1>57,
       <1>58, <1>59, <1>60, <1>61, <1>62, <1>63, <1>64 DEF Next, Worker, Job, Round,
       Stop, Confirm, Exception, Service, Environment, Finished
(* The adapter starts with every part of the invariant true. *)
LEMMA InitInv == Init => CyvetInv
<1>1. SUFFICES ASSUME Init PROVE CyvetInv
  OBVIOUS
<1>2. FlagTypes /\ LinkTypes
  BY <1>1 DEF Init, FlagTypes, LinkTypes, Labels, Actions
<1>3. NumberTypes
  BY <1>1, BoundsAssumption DEF Init, NumberTypes, None
<1>4. ServiceTypes
  BY <1>1 DEF Init, ServiceTypes
<1>5. JobPart
  BY <1>1 DEF Init, JobPart, KindsAt, Point
<1>6. TicketPart /\ StopHoldsReady
  BY <1>1 DEF Init, TicketPart, StopHoldsReady, StopRequested, Stopping
<1>7. OrderPart /\ ReadyPart /\ PreparationPart
  BY <1>1 DEF Init, OrderPart, ReadyPart, PreparationPart
<1>8. DriveJustified /\ ReadyIsClean
  BY <1>1 DEF Init, DriveJustified, ReadyIsClean
<1>9. MotionPart /\ StoppedPart /\ ActivePart /\ RecordPart
  BY <1>1 DEF Init, MotionPart, StoppedPart, ActivePart, RecordPart, Latest
<1>10. QED
  BY <1>2, <1>3, <1>4, <1>5, <1>6, <1>7, <1>8, <1>9 DEF CyvetInv, TypeOK

(* Every step keeps the invariant. *)
LEMMA InvStep ==
    ASSUME CyvetInv, [Next]_vars
    PROVE  CyvetInv'
<1>1. TypeOK'
  BY FlagStep, LinkStep, NumberStep, ServiceStep DEF CyvetInv, TypeOK
<1>2. JobPart' /\ TicketPart' /\ OrderPart'
  BY JobStep, TicketStep, OrderStep DEF CyvetInv
<1>3. ReadyPart' /\ PreparationPart'
  BY ReadyStep, PreparationStep DEF CyvetInv
<1>4. StopHoldsReady' /\ DriveJustified'
  BY StopStep, JustifiedStep DEF CyvetInv
<1>5. MotionPart' /\ StoppedPart' /\ ActivePart' /\ RecordPart'
  BY MotionStep, StoppedStep, ActiveStep, RecordStep DEF CyvetInv
<1>6. ReadyIsClean'
  BY <1>3 DEF ReadyPart, ReadyIsClean, StopsForSilence
<1>7. QED
  BY <1>1, <1>2, <1>3, <1>4, <1>5, <1>6 DEF CyvetInv

(* CyvetInv holds of the adapter for any number of services, calls,        *)
(* velocities and faults: in particular every variable keeps its type, a   *)
(* velocity is sent only when it is justified and the worker is never      *)
(* ready with a stop unconfirmed between two rounds.                       *)
THEOREM InvariantHolds == Spec => []CyvetInv
<1>1. Init => CyvetInv
  BY InitInv
<1>2. CyvetInv /\ [Next]_vars => CyvetInv'
  BY InvStep
<1>3. QED
  BY <1>1, <1>2, PTL DEF Spec

(* A stop, release or lie that has been accepted keeps navigation from     *)
(* becoming ready until its answer has been returned (submit()).           *)
THEOREM StopHoldsReadiness == Spec => []StopHoldsReady
<1>1. CyvetInv => StopHoldsReady
  BY DEF CyvetInv
<1>2. QED
  BY <1>1, InvariantHolds, PTL

(* A velocity is sent only with no stop unconfirmed and no emergency stop   *)
(* latched, and unless it was overtaken since, while navigation is ready.   *)
THEOREM VelocityIsJustified == Spec => []DriveJustified
<1>1. CyvetInv => DriveJustified
  BY DEF CyvetInv
<1>2. QED
  BY <1>1, InvariantHolds, PTL

(* Between two rounds the worker is ready only in control and with no stop *)
(* unconfirmed: each path on which a stop failed has inhibited before.     *)
THEOREM ReadinessIsClean == Spec => []ReadyIsClean
<1>1. CyvetInv => ReadyIsClean
  BY DEF CyvetInv
<1>2. QED
  BY <1>1, InvariantHolds, PTL

(* Once the latest request, a stop, was answered with success, the robot    *)
(* no longer moves on behalf of the bridge.                                *)
THEOREM StoppedRobotStays == Spec => []StoppedStays
<1>1. CyvetInv => StoppedStays
  BY DEF CyvetInv, StoppedPart, MotionPart, StoppedStays
<1>2. QED
  BY <1>1, InvariantHolds, PTL
================================================================================
