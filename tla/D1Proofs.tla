------------------------------ MODULE D1Proofs ------------------------------
(***************************************************************************)
(* What is proved about D1Charge for every number of commands and foreign  *)
(* tasks.  D1Inv (module D1Invariant) is inductive part by part; each lemma *)
(* has one step per critical section of the service and per report.        *)
(***************************************************************************)
EXTENDS D1Invariant, TLAPS

USE DEF task, exit, telemetry, locals, robot, history

(* The backend starts with nothing reported and nothing required. *)
LEMMA InvInit ==
  ASSUME Init
  PROVE  D1Inv
<1> USE BoundsAssumption DEF Init
<1>1. NumberTypes
  BY DEF NumberTypes, Tasks, Ends
<1>2. FlagTypes
  BY DEF FlagTypes
<1>3. StepTypes
  BY DEF StepTypes, ServicePc, Commands, Powers, Tasks
<1>4. SessionDemandsUndock /\ StartPart /\ ExitPart
  BY DEF SessionDemandsUndock, StartPart, ExitPart
<1>5. SuccessPart
  BY DEF SuccessPart
<1>6. QED BY <1>1, <1>2, <1>3, <1>4, <1>5 DEF D1Inv, TypeOK

(* Sequence numbers only move with the transitions they stamp. *)
LEMMA NumbersKept ==
  ASSUME NumberTypes, StepTypes, [Next]_vars
  PROVE  NumberTypes'
<1> USE DEF NumberTypes, StepTypes, Commands, Tasks, Ends
<1>1. ASSUME NEW c \in Commands, Call(c) PROVE NumberTypes'
  BY <1>1, BoundsAssumption DEF Call, Return, Goto
<1>2. CASE PileSeen
  BY <1>2, BoundsAssumption DEF PileSeen, Goto
<1>3. CASE TakeControl
  BY <1>3, BoundsAssumption DEF TakeControl, Request, Proceed, Return, Goto
<1>4. CASE Arm
  BY <1>4, BoundsAssumption DEF Arm, Goto
<1>5. CASE SendRecharge
  BY <1>5, BoundsAssumption DEF SendRecharge, Begin, Proceed, Return, Goto
<1>6. CASE RechargeFailed
  BY <1>6, BoundsAssumption DEF RechargeFailed, WaitOver, Return
<1>7. CASE RechargeStarted
  BY <1>7, BoundsAssumption DEF RechargeStarted, WaitOver, Return, NewRecharge
<1>8. CASE StopCheck
  BY <1>8, BoundsAssumption DEF StopCheck, Return, Goto, TaskActive
<1>9. CASE StopSend
  BY <1>9, BoundsAssumption DEF StopSend, Request, Proceed, Return, Goto
<1>10. CASE RechargeStopped
  BY <1>10, BoundsAssumption DEF RechargeStopped, Return, Goto
<1>11. CASE Entry
  BY <1>11, BoundsAssumption DEF Entry, Goto, TaskActive
<1>12. CASE AlreadyExited
  BY <1>12, BoundsAssumption DEF AlreadyExited, HandOver, Return, ExitState,
       Charging
<1>13. CASE Recheck
  BY <1>13, BoundsAssumption DEF Recheck, Return, Goto
<1>14. CASE Reuse
  BY <1>14, BoundsAssumption DEF Reuse, Goto
<1>15. CASE SendUndock
  BY <1>15, BoundsAssumption DEF SendUndock, Begin, Proceed, Return, Goto
<1>16. CASE BeginWait
  BY <1>16, BoundsAssumption DEF BeginWait, Goto
<1>17. CASE UndockFailed
  BY <1>17, BoundsAssumption DEF UndockFailed, WaitOver, Return
<1>18. CASE UndockCompleted
  BY <1>18, BoundsAssumption DEF UndockCompleted, HandOver, Return, ExitState,
       Charging
<1>19. CASE UndockStop
  BY <1>19, BoundsAssumption DEF UndockStop, Goto
<1>20. CASE UndockStopSend
  BY <1>20, BoundsAssumption DEF UndockStopSend, Request, Proceed, Return, Goto
<1>21. CASE UndockStopped
  BY <1>21, BoundsAssumption DEF UndockStopped, WaitOver, Return
<1>22. CASE Timeout
  BY <1>22, BoundsAssumption DEF Timeout, PileTimeout, RechargeTimeout,
       StopTimeout, UndockTimeout, UndockStopTimeout, WaitOver, Return
<1>23. ASSUME NEW pile \in BOOLEAN, NEW rechargeMode \in BOOLEAN, NEW level \in Powers,
            RobotState(pile, level, rechargeMode) PROVE NumberTypes'
  BY <1>23, BoundsAssumption DEF RobotState, ExitState, Charging, Powers
<1>24. CASE Stale
  BY <1>24, BoundsAssumption DEF Stale
<1>25. CASE TaskBegins
  BY <1>25, BoundsAssumption DEF TaskBegins, TaskState
<1>26. ASSUME NEW s \in Ends, TaskEnds(s) PROVE NumberTypes'
  BY <1>26, BoundsAssumption DEF TaskEnds, TaskState
<1>27. ASSUME NEW t \in Tasks, ForeignTask(t) PROVE NumberTypes'
  BY <1>27, BoundsAssumption DEF ForeignTask
<1>28. CASE UNCHANGED vars
  BY <1>28, BoundsAssumption DEF vars
<1>29. QED
  BY <1>1, <1>2, <1>3, <1>4, <1>5, <1>6, <1>7, <1>8, <1>9, <1>10, <1>11, <1>12,
       <1>13, <1>14,
     <1>15, <1>16, <1>17, <1>18, <1>19, <1>20, <1>21, <1>22, <1>23, <1>24, 
     <1>25, <1>26, <1>27, <1>28
  DEF Next, ServiceStep, RobotStep

(* Flags stay flags. *)
LEMMA FlagsKept ==
  ASSUME FlagTypes, [Next]_vars
  PROVE  FlagTypes'
<1> USE DEF FlagTypes, Charging
<1>1. ASSUME NEW c \in Commands, Call(c) PROVE FlagTypes'
  BY <1>1 DEF Call, Commands, Return, Goto
<1>2. CASE PileSeen
  BY <1>2 DEF PileSeen, Goto
<1>3. CASE TakeControl
  BY <1>3 DEF TakeControl, Request, Proceed, Return, Goto
<1>4. CASE Arm
  BY <1>4 DEF Arm, Goto
<1>5. CASE SendRecharge
  BY <1>5, ZenonT(60) DEF SendRecharge, Begin, Proceed, Return, Goto
<1>6. CASE RechargeFailed
  BY <1>6 DEF RechargeFailed, WaitOver, Return
<1>7. CASE RechargeStarted
  BY <1>7 DEF RechargeStarted, WaitOver, Return, NewRecharge
<1>8. CASE StopCheck
  BY <1>8, ZenonT(60) DEF StopCheck, Return, Goto, TaskActive
<1>9. CASE StopSend
  BY <1>9 DEF StopSend, Request, Proceed, Return, Goto
<1>10. CASE RechargeStopped
  BY <1>10 DEF RechargeStopped, Return, Goto
<1>11. CASE Entry
  BY <1>11 DEF Entry, Goto, TaskActive
<1>12. CASE AlreadyExited
  BY <1>12 DEF AlreadyExited, HandOver, Return, ExitState
<1>13. CASE Recheck
  BY <1>13 DEF Recheck, Return, Goto
<1>14. CASE Reuse
  BY <1>14 DEF Reuse, Goto
<1>15. CASE SendUndock
  BY <1>15, ZenonT(60) DEF SendUndock, Begin, Proceed, Return, Goto
<1>16. CASE BeginWait
  BY <1>16 DEF BeginWait, Goto
<1>17. CASE UndockFailed
  BY <1>17 DEF UndockFailed, WaitOver, Return
<1>18. CASE UndockCompleted
  BY <1>18 DEF UndockCompleted, HandOver, Return, ExitState
<1>19. CASE UndockStop
  BY <1>19 DEF UndockStop, Goto
<1>20. CASE UndockStopSend
  BY <1>20 DEF UndockStopSend, Request, Proceed, Return, Goto
<1>21. CASE UndockStopped
  BY <1>21 DEF UndockStopped, WaitOver, Return
<1>22. CASE Timeout
  BY <1>22 DEF Timeout, PileTimeout, RechargeTimeout, StopTimeout,
       UndockTimeout, UndockStopTimeout, WaitOver, Return
<1>23. ASSUME NEW pile \in BOOLEAN, NEW rechargeMode \in BOOLEAN, NEW level \in Powers,
            RobotState(pile, level, rechargeMode) PROVE FlagTypes'
  BY <1>23 DEF RobotState, ExitState, Powers
<1>24. CASE Stale
  BY <1>24 DEF Stale
<1>25. CASE TaskBegins
  BY <1>25 DEF TaskBegins, TaskState, Tasks
<1>26. ASSUME NEW s \in Ends, TaskEnds(s) PROVE FlagTypes'
  BY <1>26 DEF TaskEnds, TaskState, Tasks, Ends
<1>27. ASSUME NEW t \in Tasks, ForeignTask(t) PROVE FlagTypes'
  BY <1>27 DEF ForeignTask, Tasks
<1>28. CASE UNCHANGED vars
  BY <1>28 DEF vars
<1>29. QED
  BY <1>1, <1>2, <1>3, <1>4, <1>5, <1>6, <1>7, <1>8, <1>9, <1>10, <1>11, <1>12,
       <1>13, <1>14,
     <1>15, <1>16, <1>17, <1>18, <1>19, <1>20, <1>21, <1>22, <1>23, <1>24, 
     <1>25, <1>26, <1>27, <1>28
  DEF Next, ServiceStep, RobotStep

(* The service moves between its own steps and answers. *)
LEMMA StepsKept ==
  ASSUME StepTypes, [Next]_vars
  PROVE  StepTypes'
<1> USE DEF StepTypes, Commands, Tasks, Ends, Powers, ServicePc
<1>1. ASSUME NEW c \in Commands, Call(c) PROVE StepTypes'
  BY <1>1 DEF Call, Return, Goto
<1>2. CASE PileSeen
  BY <1>2 DEF PileSeen, Goto
<1>3. CASE TakeControl
  BY <1>3 DEF TakeControl, Request, Proceed, Return, Goto
<1>4. CASE Arm
  BY <1>4 DEF Arm, Goto
<1>5. CASE SendRecharge
  BY <1>5 DEF SendRecharge, Begin, Proceed, Return, Goto
<1>6. CASE RechargeFailed
  BY <1>6 DEF RechargeFailed, WaitOver, Return
<1>7. CASE RechargeStarted
  BY <1>7 DEF RechargeStarted, WaitOver, Return, NewRecharge
<1>8. CASE StopCheck
  BY <1>8 DEF StopCheck, Return, Goto, TaskActive
<1>9. CASE StopSend
  BY <1>9 DEF StopSend, Request, Proceed, Return, Goto
<1>10. CASE RechargeStopped
  BY <1>10 DEF RechargeStopped, Return, Goto
<1>11. CASE Entry
  BY <1>11 DEF Entry, Goto, TaskActive
<1>12. CASE AlreadyExited
  BY <1>12 DEF AlreadyExited, HandOver, Return, ExitState, Charging
<1>13. CASE Recheck
  BY <1>13 DEF Recheck, Return, Goto
<1>14. CASE Reuse
  BY <1>14 DEF Reuse, Goto
<1>15. CASE SendUndock
  BY <1>15 DEF SendUndock, Begin, Proceed, Return, Goto
<1>16. CASE BeginWait
  BY <1>16 DEF BeginWait, Goto
<1>17. CASE UndockFailed
  BY <1>17 DEF UndockFailed, WaitOver, Return
<1>18. CASE UndockCompleted
  BY <1>18 DEF UndockCompleted, HandOver, Return, ExitState, Charging
<1>19. CASE UndockStop
  BY <1>19 DEF UndockStop, Goto
<1>20. CASE UndockStopSend
  BY <1>20 DEF UndockStopSend, Request, Proceed, Return, Goto
<1>21. CASE UndockStopped
  BY <1>21 DEF UndockStopped, WaitOver, Return
<1>22. CASE Timeout
  BY <1>22 DEF Timeout, PileTimeout, RechargeTimeout, StopTimeout,
       UndockTimeout, UndockStopTimeout, WaitOver, Return
<1>23. ASSUME NEW pile \in BOOLEAN, NEW rechargeMode \in BOOLEAN, NEW level \in Powers,
            RobotState(pile, level, rechargeMode) PROVE StepTypes'
  BY <1>23 DEF RobotState, ExitState, Charging
<1>24. CASE Stale
  BY <1>24 DEF Stale
<1>25. CASE TaskBegins
  BY <1>25 DEF TaskBegins, TaskState
<1>26. ASSUME NEW s \in Ends, TaskEnds(s) PROVE StepTypes'
  BY <1>26 DEF TaskEnds, TaskState
<1>27. ASSUME NEW t \in Tasks, ForeignTask(t) PROVE StepTypes'
  BY <1>27 DEF ForeignTask
<1>28. CASE UNCHANGED vars
  BY <1>28 DEF vars
<1>29. QED
  BY <1>1, <1>2, <1>3, <1>4, <1>5, <1>6, <1>7, <1>8, <1>9, <1>10, <1>11, <1>12,
       <1>13, <1>14,
     <1>15, <1>16, <1>17, <1>18, <1>19, <1>20, <1>21, <1>22, <1>23, <1>24, 
     <1>25, <1>26, <1>27, <1>28
  DEF Next, ServiceStep, RobotStep

(* Only a hand-over settles the need to undock. *)
LEMMA SessionKept ==
  ASSUME TypeOK, SessionDemandsUndock, [Next]_vars
  PROVE  SessionDemandsUndock'
<1> USE DEF SessionDemandsUndock
<1>1. ASSUME NEW c \in Commands, Call(c) PROVE SessionDemandsUndock'
  BY <1>1 DEF Call, Commands, Return, Goto
<1>2. CASE PileSeen
  BY <1>2 DEF PileSeen, Goto
<1>3. CASE TakeControl
  BY <1>3 DEF TakeControl, Request, Proceed, Return, Goto
<1>4. CASE Arm
  BY <1>4 DEF Arm, Goto
<1>5. CASE SendRecharge
  BY <1>5 DEF SendRecharge, Begin, Proceed, Return, Goto
<1>6. CASE RechargeFailed
  BY <1>6 DEF RechargeFailed, WaitOver, Return
<1>7. CASE RechargeStarted
  BY <1>7 DEF RechargeStarted, WaitOver, Return, NewRecharge
<1>8. CASE StopCheck
  BY <1>8 DEF StopCheck, Return, Goto, TaskActive
<1>9. CASE StopSend
  BY <1>9 DEF StopSend, Request, Proceed, Return, Goto
<1>10. CASE RechargeStopped
  BY <1>10 DEF RechargeStopped, Return, Goto
<1>11. CASE Entry
  BY <1>11 DEF Entry, Goto, TaskActive
<1>12. CASE AlreadyExited
  BY <1>12 DEF AlreadyExited, HandOver, Return, ExitState, Charging
<1>13. CASE Recheck
  BY <1>13 DEF Recheck, Return, Goto
<1>14. CASE Reuse
  BY <1>14 DEF Reuse, Goto
<1>15. CASE SendUndock
  BY <1>15 DEF SendUndock, Begin, Proceed, Return, Goto
<1>16. CASE BeginWait
  BY <1>16 DEF BeginWait, Goto
<1>17. CASE UndockFailed
  BY <1>17 DEF UndockFailed, WaitOver, Return
<1>18. CASE UndockCompleted
  BY <1>18 DEF UndockCompleted, HandOver, Return, ExitState, Charging
<1>19. CASE UndockStop
  BY <1>19 DEF UndockStop, Goto
<1>20. CASE UndockStopSend
  BY <1>20 DEF UndockStopSend, Request, Proceed, Return, Goto
<1>21. CASE UndockStopped
  BY <1>21 DEF UndockStopped, WaitOver, Return
<1>22. CASE Timeout
  BY <1>22 DEF Timeout, PileTimeout, RechargeTimeout, StopTimeout,
       UndockTimeout,
        UndockStopTimeout, WaitOver, Return
<1>23. ASSUME NEW pile \in BOOLEAN, NEW rechargeMode \in BOOLEAN, NEW level \in Powers,
            RobotState(pile, level, rechargeMode) PROVE SessionDemandsUndock'
  BY <1>23 DEF RobotState, ExitState, Charging, Powers
<1>24. CASE Stale
  BY <1>24 DEF Stale
<1>25. CASE TaskBegins
  BY <1>25 DEF TaskBegins, TaskState, Tasks
<1>26. ASSUME NEW s \in Ends, TaskEnds(s) PROVE SessionDemandsUndock'
  BY <1>26 DEF TaskEnds, TaskState, Tasks, Ends
<1>27. ASSUME NEW t \in Tasks, ForeignTask(t) PROVE SessionDemandsUndock'
  BY <1>27 DEF ForeignTask, Tasks
<1>28. CASE UNCHANGED vars
  BY <1>28 DEF vars
<1>29. QED
  BY <1>1, <1>2, <1>3, <1>4, <1>5, <1>6, <1>7, <1>8, <1>9, <1>10, <1>11, <1>12,
       <1>13, <1>14,
     <1>15, <1>16, <1>17, <1>18, <1>19, <1>20, <1>21, <1>22, <1>23, <1>24, 
     <1>25, <1>26, <1>27, <1>28
  DEF Next, ServiceStep, RobotStep

(* What a START waits for is evidence of a session. *)
LEMMA StartKept ==
  ASSUME TypeOK, StartPart, [Next]_vars
  PROVE  StartPart'
<1> USE DEF StartPart, NewRecharge, TypeOK, NumberTypes
<1>1. ASSUME NEW c \in Commands, Call(c) PROVE StartPart'
  BY <1>1 DEF Call, Commands, Return, Goto
<1>2. CASE PileSeen
  BY <1>2 DEF PileSeen, Goto
<1>3. CASE TakeControl
  BY <1>3 DEF TakeControl, Request, Proceed, Return, Goto
<1>4. CASE Arm
  BY <1>4 DEF Arm, Goto
<1>5. CASE SendRecharge
  BY <1>5 DEF SendRecharge, Begin, Proceed, Return, Goto
<1>6. CASE RechargeFailed
  BY <1>6 DEF RechargeFailed, WaitOver, Return
<1>7. CASE RechargeStarted
  BY <1>7 DEF RechargeStarted, WaitOver, Return
<1>8. CASE StopCheck
  BY <1>8 DEF StopCheck, Return, Goto, TaskActive
<1>9. CASE StopSend
  BY <1>9 DEF StopSend, Request, Proceed, Return, Goto
<1>10. CASE RechargeStopped
  BY <1>10 DEF RechargeStopped, Return, Goto
<1>11. CASE Entry
  BY <1>11 DEF Entry, Goto, TaskActive
<1>12. CASE AlreadyExited
  BY <1>12 DEF AlreadyExited, HandOver, Return, ExitState, Charging
<1>13. CASE Recheck
  BY <1>13 DEF Recheck, Return, Goto
<1>14. CASE Reuse
  BY <1>14 DEF Reuse, Goto
<1>15. CASE SendUndock
  BY <1>15 DEF SendUndock, Begin, Proceed, Return, Goto
<1>16. CASE BeginWait
  BY <1>16 DEF BeginWait, Goto
<1>17. CASE UndockFailed
  BY <1>17 DEF UndockFailed, WaitOver, Return
<1>18. CASE UndockCompleted
  BY <1>18 DEF UndockCompleted, HandOver, Return, ExitState, Charging
<1>19. CASE UndockStop
  BY <1>19 DEF UndockStop, Goto
<1>20. CASE UndockStopSend
  BY <1>20 DEF UndockStopSend, Request, Proceed, Return, Goto
<1>21. CASE UndockStopped
  BY <1>21 DEF UndockStopped, WaitOver, Return
<1>22. CASE Timeout
  BY <1>22 DEF Timeout, PileTimeout, RechargeTimeout, StopTimeout,
       UndockTimeout,
        UndockStopTimeout, WaitOver, Return
<1>23. ASSUME NEW pile \in BOOLEAN, NEW rechargeMode \in BOOLEAN, NEW level \in Powers,
            RobotState(pile, level, rechargeMode) PROVE StartPart'
  BY <1>23 DEF RobotState, ExitState, Charging, Powers
<1>24. CASE Stale
  BY <1>24 DEF Stale
<1>25. CASE TaskBegins
  BY <1>25 DEF TaskBegins, TaskState, Tasks
<1>26. ASSUME NEW s \in Ends, TaskEnds(s) PROVE StartPart'
  BY <1>26 DEF TaskEnds, TaskState, Tasks, Ends
<1>27. ASSUME NEW t \in Tasks, ForeignTask(t) PROVE StartPart'
  BY <1>27 DEF ForeignTask, Tasks
<1>28. CASE UNCHANGED vars
  BY <1>28 DEF vars
<1>29. QED
  BY <1>1, <1>2, <1>3, <1>4, <1>5, <1>6, <1>7, <1>8, <1>9, <1>10, <1>11, <1>12,
       <1>13, <1>14,
     <1>15, <1>16, <1>17, <1>18, <1>19, <1>20, <1>21, <1>22, <1>23, <1>24, 
     <1>25, <1>26, <1>27, <1>28
  DEF Next, ServiceStep, RobotStep

(* Terminal events are used once and never overlooked. *)
LEMMA SuccessKept ==
  ASSUME TypeOK, SuccessPart, [Next]_vars
  PROVE  SuccessPart'
<1> USE DEF SuccessPart, TypeOK, NumberTypes
<1>1. ASSUME NEW c \in Commands, Call(c) PROVE SuccessPart'
  BY <1>1 DEF Call, Commands, Return, Goto
<1>2. CASE PileSeen
  BY <1>2 DEF PileSeen, Goto
<1>3. CASE TakeControl
  BY <1>3 DEF TakeControl, Request, Proceed, Return, Goto
<1>4. CASE Arm
  BY <1>4 DEF Arm, Goto
<1>5. CASE SendRecharge
  BY <1>5 DEF SendRecharge, Begin, Proceed, Return, Goto
<1>6. CASE RechargeFailed
  BY <1>6 DEF RechargeFailed, WaitOver, Return
<1>7. CASE RechargeStarted
  BY <1>7 DEF RechargeStarted, WaitOver, Return, NewRecharge
<1>8. CASE StopCheck
  BY <1>8 DEF StopCheck, Return, Goto, TaskActive
<1>9. CASE StopSend
  BY <1>9 DEF StopSend, Request, Proceed, Return, Goto
<1>10. CASE RechargeStopped
  BY <1>10 DEF RechargeStopped, Return, Goto
<1>11. CASE Entry
  BY <1>11 DEF Entry, Goto, TaskActive
<1>12. CASE AlreadyExited
  BY <1>12 DEF AlreadyExited, HandOver, Return, ExitState, Charging
<1>13. CASE Recheck
  BY <1>13 DEF Recheck, Return, Goto
<1>14. CASE Reuse
  BY <1>14 DEF Reuse, Goto
<1>15. CASE SendUndock
  BY <1>15 DEF SendUndock, Begin, Proceed, Return, Goto
<1>16. CASE BeginWait
  BY <1>16 DEF BeginWait, Goto
<1>17. CASE UndockFailed
  BY <1>17 DEF UndockFailed, WaitOver, Return
<1>18. CASE UndockCompleted
  BY <1>18 DEF UndockCompleted, HandOver, Return, ExitState, Charging
<1>19. CASE UndockStop
  BY <1>19 DEF UndockStop, Goto
<1>20. CASE UndockStopSend
  BY <1>20 DEF UndockStopSend, Request, Proceed, Return, Goto
<1>21. CASE UndockStopped
  BY <1>21 DEF UndockStopped, WaitOver, Return
<1>22. CASE Timeout
  BY <1>22 DEF Timeout, PileTimeout, RechargeTimeout, StopTimeout,
       UndockTimeout,
        UndockStopTimeout, WaitOver, Return
<1>23. ASSUME NEW pile \in BOOLEAN, NEW rechargeMode \in BOOLEAN, NEW level \in Powers,
            RobotState(pile, level, rechargeMode) PROVE SuccessPart'
  BY <1>23 DEF RobotState, ExitState, Charging, Powers
<1>24. CASE Stale
  BY <1>24 DEF Stale
<1>25. CASE TaskBegins
  BY <1>25 DEF TaskBegins, TaskState, Tasks
<1>26. ASSUME NEW s \in Ends, TaskEnds(s) PROVE SuccessPart'
  <2> USE <1>26 DEF TaskEnds, TaskState, Ends, Tasks, StepTypes
  <2>1. CASE robotTask = "undock" /\ s = "failure"
    <3>1. undockFailure' > minSequence' /\ undockSuccess' = undockSuccess
      BY <2>1
    <3>2. undocked => undocked'
      BY Zenon
    <3>3. UNCHANGED <<pc, command, undockSucceeded>>
      BY Zenon
    <3>4. QED BY <3>1, <3>2, <3>3
  <2>2. CASE robotTask = "undock" /\ s = "success"
    <3>1. undocked' /\ (failedSince' => failedSince)
      BY <2>2, Zenon
    <3>2. undockFailure' = undockFailure
      BY <2>2
    <3>3. UNCHANGED <<pc, command, undockSucceeded, minSequence>>
      BY Zenon
    <3>4. QED BY <3>1, <3>2, <3>3
  <2>3. CASE ~(robotTask = "undock" /\ s \in {"success", "failure"})
    <3>1. UNCHANGED <<undockSuccess, undockFailure>>
      BY <2>3
    <3>2. (undocked => undocked') /\ (failedSince' => failedSince)
      BY <2>3, Zenon
    <3>3. UNCHANGED <<pc, command, undockSucceeded, minSequence>>
      BY Zenon
    <3>4. QED BY <3>1, <3>2, <3>3
  <2>4. QED BY <2>1, <2>2, <2>3
<1>27. ASSUME NEW t \in Tasks, ForeignTask(t) PROVE SuccessPart'
  BY <1>27 DEF ForeignTask, Tasks
<1>28. CASE UNCHANGED vars
  BY <1>28 DEF vars
<1>29. QED
  BY <1>1, <1>2, <1>3, <1>4, <1>5, <1>6, <1>7, <1>8, <1>9, <1>10, <1>11, <1>12,
       <1>13, <1>14,
     <1>15, <1>16, <1>17, <1>18, <1>19, <1>20, <1>21, <1>22, <1>23, <1>24, 
     <1>25, <1>26, <1>27, <1>28
  DEF Next, ServiceStep, RobotStep

(* Only new activity revokes an exit. *)
LEMMA ExitKept ==
  ASSUME TypeOK, StartPart, ExitPart, [Next]_vars
  PROVE  ExitPart'
<1> USE DEF ExitPart, StartPart, Charging, Charging
<1>1. ASSUME NEW c \in Commands, Call(c) PROVE ExitPart'
  BY <1>1 DEF Call, Commands, Return, Goto
<1>2. CASE PileSeen
  BY <1>2 DEF PileSeen, Goto
<1>3. CASE TakeControl
  BY <1>3 DEF TakeControl, Request, Proceed, Return, Goto
<1>4. CASE Arm
  BY <1>4 DEF Arm, Goto
<1>5. CASE SendRecharge
  BY <1>5 DEF SendRecharge, Begin, Proceed, Return, Goto
<1>6. CASE RechargeFailed
  BY <1>6 DEF RechargeFailed, WaitOver, Return
<1>7. CASE RechargeStarted
  BY <1>7 DEF RechargeStarted, WaitOver, Return, NewRecharge
<1>8. CASE StopCheck
  BY <1>8 DEF StopCheck, Return, Goto, TaskActive
<1>9. CASE StopSend
  BY <1>9 DEF StopSend, Request, Proceed, Return, Goto
<1>10. CASE RechargeStopped
  BY <1>10 DEF RechargeStopped, Return, Goto
<1>11. CASE Entry
  BY <1>11 DEF Entry, Goto, TaskActive
<1>12. CASE AlreadyExited
  BY <1>12 DEF AlreadyExited, HandOver, Return, ExitState
<1>13. CASE Recheck
  BY <1>13 DEF Recheck, Return, Goto
<1>14. CASE Reuse
  BY <1>14 DEF Reuse, Goto
<1>15. CASE SendUndock
  BY <1>15 DEF SendUndock, Begin, Proceed, Return, Goto
<1>16. CASE BeginWait
  BY <1>16 DEF BeginWait, Goto
<1>17. CASE UndockFailed
  BY <1>17 DEF UndockFailed, WaitOver, Return
<1>18. CASE UndockCompleted
  BY <1>18 DEF UndockCompleted, HandOver, Return, ExitState
<1>19. CASE UndockStop
  BY <1>19 DEF UndockStop, Goto
<1>20. CASE UndockStopSend
  BY <1>20 DEF UndockStopSend, Request, Proceed, Return, Goto
<1>21. CASE UndockStopped
  BY <1>21 DEF UndockStopped, WaitOver, Return
<1>22. CASE Timeout
  BY <1>22 DEF Timeout, PileTimeout, RechargeTimeout, StopTimeout,
       UndockTimeout, UndockStopTimeout, WaitOver, Return
<1>23. ASSUME NEW pile \in BOOLEAN, NEW rechargeMode \in BOOLEAN, NEW level \in Powers,
            RobotState(pile, level, rechargeMode) PROVE ExitPart'
  BY <1>23 DEF RobotState, ExitState, Powers
<1>24. CASE Stale
  BY <1>24 DEF Stale
<1>25. CASE TaskBegins
  BY <1>25 DEF TaskBegins, TaskState, Tasks
<1>26. ASSUME NEW s \in Ends, TaskEnds(s) PROVE ExitPart'
  BY <1>26 DEF TaskEnds, TaskState, Tasks, Ends
<1>27. ASSUME NEW t \in Tasks, ForeignTask(t) PROVE ExitPart'
  BY <1>27 DEF ForeignTask, Tasks
<1>28. CASE UNCHANGED vars
  BY <1>28 DEF vars
<1>29. QED
  BY <1>1, <1>2, <1>3, <1>4, <1>5, <1>6, <1>7, <1>8, <1>9, <1>10, <1>11, <1>12,
       <1>13, <1>14,
     <1>15, <1>16, <1>17, <1>18, <1>19, <1>20, <1>21, <1>22, <1>23, <1>24, 
     <1>25, <1>26, <1>27, <1>28
  DEF Next, ServiceStep, RobotStep

(* The invariant behind every property below. *)
THEOREM InvariantHolds == Spec => []D1Inv
<1>1. Init => D1Inv
  BY InvInit
<1>2. D1Inv /\ [Next]_vars => D1Inv'
  BY NumbersKept, FlagsKept, StepsKept, SessionKept, StartKept, SuccessKept,
       ExitKept
     DEF D1Inv, TypeOK
<1>3. QED BY <1>1, <1>2, PTL DEF Spec

(* Types, and no stamp is ahead of the sequence it was taken from. *)
THEOREM TypeCorrect == Spec => []TypeOK
<1>1. D1Inv => TypeOK
  BY DEF D1Inv
<1>2. QED BY <1>1, InvariantHolds, PTL

(* Charging at the pile or a charge or undock task, once reported, demands *)
(* an undock until an exit is handed over, whatever the commands did.      *)
THEOREM SessionIsRemembered == Spec => []SessionDemandsUndock
<1>1. D1Inv => SessionDemandsUndock
  BY DEF D1Inv
<1>2. QED BY <1>1, InvariantHolds, PTL

(* A START that reported charging leaves an undock demanded. *)
THEOREM StartLeavesDemand == Spec => []ChargingDemandsUndock
<1>1. D1Inv => ChargingDemandsUndock
  BY DEF D1Inv, StartPart, SessionDemandsUndock, ChargingDemandsUndock
<1>2. QED BY <1>1, InvariantHolds, PTL

(* An answered exit stays published as charge state 0 until telemetry goes *)
(* stale or new activity is reported.                                      *)
THEOREM ExitIsPublished == Spec => []ExitStaysIdle
<1>1. D1Inv => ExitStaysIdle
  BY DEF D1Inv, ExitPart, ExitStaysIdle, ChargeState, ExitState
<1>2. QED BY <1>1, InvariantHolds, PTL

(* A step of the service outside a wait, a robot report or a stutter never *)
(* answers "exit".                                                         *)
LEMMA OnlyHandOverExits ==
  ASSUME D1Inv, [Next]_vars, pc # "idle", result' = "exit"
  PROVE  AlreadyExited \/ UndockCompleted
<1>1. result = "none"
  BY DEF D1Inv, StartPart
<1>2. ASSUME NEW c \in Commands, Call(c) PROVE FALSE
  BY <1>2 DEF Call
<1>3. CASE PileSeen \/ Arm \/ Entry \/ Reuse \/ BeginWait \/ UndockStop \/ StopCheck
  BY <1>1, <1>3 DEF PileSeen, Arm, Entry, Reuse, BeginWait, UndockStop,
       StopCheck, Return
<1>4. CASE TakeControl \/ StopSend \/ UndockStopSend \/ SendRecharge \/ SendUndock
  BY <1>1, <1>4 DEF TakeControl, StopSend, UndockStopSend, Request,
       SendRecharge,
     SendUndock, Begin, Proceed, Return
<1>5. CASE RechargeFailed \/ RechargeStarted \/ UndockFailed \/ UndockStopped \/ Timeout
  BY <1>5 DEF RechargeFailed, RechargeStarted, UndockFailed, UndockStopped,
       Timeout,
     PileTimeout, RechargeTimeout, StopTimeout, UndockTimeout, UndockStopTimeout,
     WaitOver, Return
<1>6. CASE RechargeStopped \/ Recheck
  BY <1>1, <1>6 DEF RechargeStopped, Recheck, Return
<1>7. CASE RobotStep
  BY <1>1, <1>7 DEF RobotStep, RobotState, Stale, TaskBegins, TaskEnds,
       TaskState, ForeignTask
<1>8. CASE UNCHANGED vars
  BY <1>1, <1>8 DEF vars
<1>9. QED
  BY <1>2, <1>3, <1>4, <1>5, <1>6, <1>7, <1>8 DEF Next, ServiceStep

(* An exit handed over after a wait used an UNDOCK SUCCESS that no earlier *)
(* exit used, with no UNDOCK failure since its task was begun or joined.   *)
THEOREM ExitUsesItsSuccess == Spec => ExitHasItsSuccess
<1>1. ASSUME D1Inv, [Next]_vars, pc = "waitUndock", result' = "exit"
      PROVE  undocked /\ ~failedSince
  <2>1. UndockCompleted
    BY <1>1, OnlyHandOverExits DEF AlreadyExited
  <2>2. undockSuccess > 0 /\ ~(undockFailure > minSequence)
    BY <1>1, <2>1 DEF UndockCompleted, D1Inv, TypeOK, NumberTypes
  <2>3. QED BY <1>1, <2>2 DEF D1Inv, SuccessPart
<1>2. D1Inv /\ [Next]_vars =>
         [pc = "waitUndock" /\ result' = "exit" => undocked /\ ~failedSince]_vars
  BY <1>1
<1>3. QED BY <1>2, InvariantHolds, PTL DEF Spec, ExitHasItsSuccess

(* At a connected pile no exit is handed over without an undock task if a  *)
(* charge session was reported since the last exit.                        *)
THEOREM SkipIsJustified == Spec => SkipNeedsNoSession
<1>1. ASSUME D1Inv, [Next]_vars, pc = "recheck", result' = "exit", pileConnected
      PROVE  ~session
  <2>1. AlreadyExited
    BY <1>1, OnlyHandOverExits DEF UndockCompleted
  <2>2. QED BY <1>1, <2>1 DEF AlreadyExited, D1Inv, SessionDemandsUndock
<1>2. D1Inv /\ [Next]_vars =>
         [pc = "recheck" /\ result' = "exit" /\ pileConnected => ~session]_vars
  BY <1>1
<1>3. QED BY <1>2, InvariantHolds, PTL DEF Spec, SkipNeedsNoSession
=============================================================================
