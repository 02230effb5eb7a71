------------------------- MODULE TankRefinementProofs -------------------------
(***************************************************************************)
(* TankBackend implements MotionPermit, for every value of the constants.   *)
(* Most steps ask for nothing and confirm nothing: they rest or let the    *)
(* permission lapse.  The others are Ask (Call), Grant (Commit), Begin and  *)
(* Drive and End (the control loop) and Confirm (a stop that succeeds).    *)
(***************************************************************************)
EXTENDS TankProofs
USE DEF Main, Control, Telemetry, Free, Still, Procs, Preparers

(* Nothing was asked, and no stop was confirmed or forgotten. *)
SameRecord ==
    /\ op' = op
    /\ \A c \in Clients : ticket'[c] = ticket[c]
    /\ \A c \in Clients : result'[c] \in {"stopped", "braked"}
                              <=> result[c] \in {"stopped", "braked"}

(* Permission is untouched; the robot may come to rest. *)
RestStep ==
    /\ want' = want /\ owned' = owned
    /\ pc'[Control] # "idle" <=> pc[Control] # "idle"
    /\ devVel' \in {devVel, Still}

(* Permission is gone; nothing starts to move. *)
LapseStep ==
    /\ want' \in {want, FALSE} /\ owned' = FALSE
    /\ pc[Control] = "idle" => pc'[Control] = "idle"
    /\ devVel' = devVel

(* A step that asks and confirms nothing leaves the abstract record alone. *)
LEMMA RecordKept ==
  ASSUME SameRecord
  PROVE  LastAsked' = LastAsked /\ StopConfirmed' = StopConfirmed
BY DEF SameRecord, LastAsked, StopConfirmed, Latest, Stops

(* Such a step that rests is a Rest, or no step. *)
LEMMA RestMaps ==
  ASSUME TypeOK, SameRecord, RestStep
  PROVE  [Permit!Next]_(Permit!vars)
BY RecordKept DEF RestStep, Permit!Next, Permit!Rest, Permit!vars, TypeOK, DeviceTypes

(* Such a step that withdraws permission is a Lapse. *)
LEMMA LapseMaps ==
  ASSUME TypeOK, SameRecord, LapseStep
  PROVE  [Permit!Next]_(Permit!vars)
BY RecordKept DEF LapseStep, Permit!Next, Permit!Lapse, TypeOK, DeviceTypes, BridgeTypes

(* Every step of the adapter is a step of MotionPermit, or a stutter. *)
LEMMA Simulates ==
  ASSUME TankInv, [Next]_vars PROVE [Permit!Next]_(Permit!vars)

<1> USE ClientsAssumption, OptionsAssumption DEF TankInv, DevicePart, Discipline,
   IoExclusive,
ServiceSteps, TicketOrder, LatestUndecided, Latest, InsideIo, Stops, StopPc, ReleasePc,
TypeOK, BridgeTypes, PcTypes, ThreadTypes, DeviceTypes, PreparePc, ClientPc, ControlPc,
TelemetryPc, MainPc
<1>1. ASSUME NEW c \in Clients, NEW o \in {"ready", "stop", "estop"}, Call(c, o)
      PROVE  [Permit!Next]_(Permit!vars)
  <2>1. LastAsked' = (IF o = "ready" THEN "ready" ELSE "stop")
    BY <1>1 DEF Call, Inhibit, LastAsked, locks, device
  <2>2. StopConfirmed' = FALSE
    BY <1>1 DEF Call, Inhibit, StopConfirmed
  <2>3. want' = FALSE /\ owned' = FALSE /\ pc'[Control] = pc[Control] /\ devVel' =
     devVel
    BY <1>1 DEF Call, Inhibit, Goto, device
  <2>4. QED BY <2>1, <2>2, <2>3 DEF Permit!Next, Permit!Ask
<1>2. ASSUME NEW c \in Clients, TakeAction(c)
      PROVE  [Permit!Next]_(Permit!vars)
  <2>1. SameRecord
    BY <1>2 DEF SameRecord, TakeAction, Goto, bridge, locks, locals, device
  <2>2. RestStep
    BY <1>2 DEF RestStep, TakeAction, Goto, bridge, locks, locals, device
  <2>3. QED BY <2>1, <2>2, RestMaps DEF TankInv
<1>3. ASSUME NEW c \in Clients, StopMove(c)
      PROVE  [Permit!Next]_(Permit!vars)
  <2>0. pc[Control] = "idle" /\ pc'[Control] = "idle" /\ io = c
    BY <1>3 DEF StopMove, Outcomes, Charge, Drive, Applied, Goto, Return, bridge,
       locals, locks
  <2>1. want' = want /\ owned' = owned /\ devVel' \in {devVel, Still}
    BY <1>3 DEF StopMove, Outcomes, Charge, Drive, Applied, Goto, Return, bridge,
       locals, locks
  <2>2. op' = op /\ \A d \in Clients : ticket'[d] = ticket[d]
    BY <1>3 DEF StopMove, Outcomes, Charge, Drive, Applied, Goto, Return, bridge,
       locals, locks
  <2>3. CASE Latest(c) /\ result'[c] = "stopped"
    <3>1. LastAsked' = "stop" /\ LastAsked = "stop"
      BY <1>3, <2>2, <2>3 DEF LastAsked, StopMove
    <3>2. StopConfirmed' = TRUE
      BY <2>2, <2>3 DEF StopConfirmed
    <3>3. devVel' = Still
      BY <1>3, <2>3 DEF StopMove, Outcomes, Charge, Drive, Applied, Goto, Return,
         bridge, locals, locks, DeviceSteps
    <3>4. QED BY <2>0, <2>1, <3>1, <3>2, <3>3 DEF Permit!Next, Permit!Confirm
  <2>4. CASE ~(Latest(c) /\ result'[c] = "stopped")
    <3>1. \A d \in Clients : Latest(d)' <=> Latest(d)
      BY <2>2
    <3>2. \A d \in Clients : d # c => result'[d] = result[d]
      BY <1>3 DEF StopMove, Outcomes, Charge, Drive, Applied, Goto, Return, bridge,
         locals, locks
    <3>3. result[c] = "none" /\ (result'[c] = "none" \/ ~Latest(c))
      BY <1>3, <2>4 DEF StopMove, Outcomes, Charge, Drive, Applied, Goto, Return,
         bridge, locals, locks
    <3>4. StopConfirmed' = StopConfirmed
      BY <3>1, <3>2, <3>3 DEF StopConfirmed
    <3>5. LastAsked' = LastAsked
      BY <2>2, <3>1 DEF LastAsked
    <3>6. QED BY <2>0, <2>1, <3>4, <3>5 DEF Permit!Next, Permit!Rest, Permit!vars
  <2>5. QED BY <2>3, <2>4
<1>4. ASSUME NEW c \in Clients, EngageBrake(c)
      PROVE  [Permit!Next]_(Permit!vars)
  <2>1. SameRecord
    BY <1>4 DEF SameRecord, EngageBrake, Outcomes, Charge, Applied, Branch, Goto,
    bridge, locks, locals, device
  <2>2. RestStep
    BY <1>4 DEF RestStep, EngageBrake, Outcomes, Charge, Applied, Branch, Goto, bridge,
    locks, locals, device
  <2>3. QED BY <2>1, <2>2, RestMaps DEF TankInv
<1>5. ASSUME NEW c \in Clients, VerifyBrake(c)
      PROVE  [Permit!Next]_(Permit!vars)
  <2>1. SameRecord
    BY <1>5 DEF SameRecord, VerifyBrake, QueryOutcomes, Outcomes, Charge, Branch, Goto,
    bridge, locks, locals, device
  <2>2. RestStep
    BY <1>5 DEF RestStep, VerifyBrake, QueryOutcomes, Outcomes, Charge, Branch, Goto,
    bridge, locks, locals, device
  <2>3. QED BY <2>1, <2>2, RestMaps DEF TankInv
<1>6. ASSUME NEW c \in Clients, LatchBrake(c)
      PROVE  [Permit!Next]_(Permit!vars)
  <2>0. pc[Control] = "idle" /\ pc'[Control] = "idle" /\ io = c
    BY <1>6 DEF LatchBrake, Goto, Return, device
  <2>1. want' = want /\ owned' = owned /\ devVel' \in {devVel, Still}
    BY <1>6 DEF LatchBrake, Goto, Return, device
  <2>2. op' = op /\ \A d \in Clients : ticket'[d] = ticket[d]
    BY <1>6 DEF LatchBrake, Goto, Return, device
  <2>3. CASE Latest(c) /\ result'[c] = "braked"
    <3>1. LastAsked' = "stop" /\ LastAsked = "stop"
      BY <1>6, <2>2, <2>3 DEF LastAsked, LatchBrake
    <3>2. StopConfirmed' = TRUE
      BY <2>2, <2>3 DEF StopConfirmed
    <3>3. devVel' = Still
      BY <1>6, <2>3 DEF LatchBrake, Goto, Return, device, DeviceSteps
    <3>4. QED BY <2>0, <2>1, <3>1, <3>2, <3>3 DEF Permit!Next, Permit!Confirm
  <2>4. CASE ~(Latest(c) /\ result'[c] = "braked")
    <3>1. \A d \in Clients : Latest(d)' <=> Latest(d)
      BY <2>2
    <3>2. \A d \in Clients : d # c => result'[d] = result[d]
      BY <1>6 DEF LatchBrake, Goto, Return, device
    <3>3. result[c] = "none" /\ (result'[c] = "none" \/ ~Latest(c))
      BY <1>6, <2>4 DEF LatchBrake, Goto, Return, device
    <3>4. StopConfirmed' = StopConfirmed
      BY <3>1, <3>2, <3>3 DEF StopConfirmed
    <3>5. LastAsked' = LastAsked
      BY <2>2, <3>1 DEF LastAsked
    <3>6. QED BY <2>0, <2>1, <3>4, <3>5 DEF Permit!Next, Permit!Rest, Permit!vars
  <2>5. QED BY <2>3, <2>4
<1>7. ASSUME NEW p \in Preparers, TakeIo(p)
      PROVE  [Permit!Next]_(Permit!vars)
  <2>1. SameRecord
    BY <1>7 DEF SameRecord, TakeIo, FirstStep, Return, Goto, bridge, locks, locals,
    device
  <2>2. RestStep
    BY <1>7 DEF RestStep, TakeIo, FirstStep, Return, Goto, bridge, locks, locals,
    device
  <2>3. QED BY <2>1, <2>2, RestMaps DEF TankInv
<1>8. ASSUME NEW p \in Preparers, ChangeMode(p)
      PROVE  [Permit!Next]_(Permit!vars)
  <2>1. SameRecord
    BY <1>8 DEF SameRecord, ChangeMode, Outcomes, Charge, Applied, Branch, Goto,
    bridge, locks, locals, device
  <2>2. RestStep
    BY <1>8 DEF RestStep, ChangeMode, Outcomes, Charge, Applied, Branch, Goto, bridge,
    locks, locals, device
  <2>3. QED BY <2>1, <2>2, RestMaps DEF TankInv
<1>9. ASSUME NEW p \in Preparers, QueryState(p)
      PROVE  [Permit!Next]_(Permit!vars)
  <2>1. SameRecord
    BY <1>9 DEF SameRecord, QueryState, QueryOutcomes, Outcomes, Charge, Branch, Goto,
    bridge, locks, locals, device
  <2>2. RestStep
    BY <1>9 DEF RestStep, QueryState, QueryOutcomes, Outcomes, Charge, Branch, Goto,
    bridge, locks, locals, device
  <2>3. QED BY <2>1, <2>2, RestMaps DEF TankInv
<1>10. ASSUME NEW p \in Preparers, QueryBrake(p)
      PROVE  [Permit!Next]_(Permit!vars)
  <2>1. SameRecord
    BY <1>10 DEF SameRecord, QueryBrake, QueryOutcomes, Outcomes, Charge, Branch, Goto,
    Explicit, AfterBrake, bridge, locks, locals, device
  <2>2. RestStep
    BY <1>10 DEF RestStep, QueryBrake, QueryOutcomes, Outcomes, Charge, Branch, Goto,
    Explicit, AfterBrake, bridge, locks, locals, device
  <2>3. QED BY <2>1, <2>2, RestMaps DEF TankInv
<1>11. ASSUME NEW p \in Preparers, CheckRelease(p)
      PROVE  [Permit!Next]_(Permit!vars)
  <2>1. SameRecord
    BY <1>11 DEF SameRecord, CheckRelease, Branch, Goto, bridge, locks, locals, device
  <2>2. RestStep
    BY <1>11 DEF RestStep, CheckRelease, Branch, Goto, bridge, locks, locals, device
  <2>3. QED BY <2>1, <2>2, RestMaps DEF TankInv
<1>12. ASSUME NEW p \in Preparers, ReleaseBrake(p)
      PROVE  [Permit!Next]_(Permit!vars)
  <2>1. SameRecord
    BY <1>12 DEF SameRecord, ReleaseBrake, Outcomes, Charge, Applied, Branch, Goto,
    bridge, locks, locals, device
  <2>2. RestStep
    BY <1>12 DEF RestStep, ReleaseBrake, Outcomes, Charge, Applied, Branch, Goto,
    bridge, locks, locals, device
  <2>3. QED BY <2>1, <2>2, RestMaps DEF TankInv
<1>13. ASSUME NEW p \in Preparers, ConfirmRelease(p)
      PROVE  [Permit!Next]_(Permit!vars)
  <2>1. SameRecord
    BY <1>13 DEF SameRecord, ConfirmRelease, QueryOutcomes, Outcomes, Charge, Branch,
    Goto, bridge, locks, locals, device
  <2>2. RestStep
    BY <1>13 DEF RestStep, ConfirmRelease, QueryOutcomes, Outcomes, Charge, Branch,
    Goto, bridge, locks, locals, device
  <2>3. QED BY <2>1, <2>2, RestMaps DEF TankInv
<1>14. ASSUME NEW p \in Preparers, ZeroMove(p)
      PROVE  [Permit!Next]_(Permit!vars)
  <2>1. SameRecord
    BY <1>14 DEF SameRecord, ZeroMove, Outcomes, Charge, Drive, Applied, Branch, Goto,
    bridge, locks, locals, device
  <2>2. RestStep
    BY <1>14 DEF RestStep, ZeroMove, Outcomes, Charge, Drive, Applied, Branch, Goto,
    bridge, locks, locals, device
  <2>3. QED BY <2>1, <2>2, RestMaps DEF TankInv
<1>15. ASSUME NEW p \in Preparers, Commit(p)
      PROVE  [Permit!Next]_(Permit!vars)
  <2>1. SameRecord
    BY <1>15 DEF SameRecord, Commit, Explicit, Return, Goto, bridge, device
  <2>2. devVel' = devVel /\ (pc'[Control] # "idle" <=> pc[Control] # "idle")
    BY <1>15 DEF Commit, Explicit, Return, Goto, bridge, device
  <2>3. CASE ~running \/ ticket[p] # epoch
    <3>1. RestStep
      BY <1>15, <2>2, <2>3 DEF RestStep, Commit, Explicit, Return, Goto, bridge, device
    <3>2. QED BY <2>1, <3>1, RestMaps DEF TankInv
  <2>4. CASE running /\ ticket[p] = epoch /\ owned'
    <3>1. want' = TRUE
      BY <1>15, <2>4, Zenon DEF Commit
    <3>2. p \notin Clients => want
      BY <1>15, <2>4, <3>1, Zenon DEF Commit, Explicit
    <3>3. p \in Clients => LastAsked = "ready"
      BY <1>15, <2>4 DEF LastAsked, Commit
    <3>4. pc[Control] = "idle"
      BY <1>15 DEF Commit
    <3>5. devVel = Still
      <4>1. EnableMotion
        BY <1>15, <2>4, Zenon DEF Commit
      <4>2. QED BY <4>1, <1>15 DEF DeviceSteps, Commit
    <3>6. LastAsked' = LastAsked /\ StopConfirmed' = StopConfirmed
      BY <2>1, RecordKept
    <3>7. QED BY <2>2, <2>4, <3>1, <3>2, <3>3, <3>4, <3>5, <3>6 DEF Permit!Next,
       Permit!Grant
  <2>5. CASE running /\ ticket[p] = epoch /\ ~owned'
    <3>1. p \notin Clients
      <4> SUFFICES ASSUME p \in Clients PROVE FALSE
        OBVIOUS
      <4>1. EnableMotion /\ ~sawBrake[p]
        BY <1>15 DEF DeviceSteps, Commit
      <4>2. brake' = sawBrake[p] /\ ~estop' /\ want'
        BY <1>15, <2>5, Zenon DEF Commit, Explicit
      <4>3. owned' = (EnableMotion /\ want' /\ ~brake' /\ ~estop')
        BY <1>15, <2>5, Zenon DEF Commit
      <4>4. QED BY <4>1, <4>2, <4>3, <2>5
    <3>2. want' = want
      <4>1. want' = (want \/ FALSE)
        BY <1>15, <2>5, <3>1, Zenon DEF Commit, Explicit
      <4>2. QED BY <4>1
    <3>3. owned' = FALSE
      <4>1. owned' \in BOOLEAN
        BY <1>15, <2>5, Zenon DEF Commit
      <4>2. QED BY <4>1, <2>5
    <3>4. LapseStep
      BY <2>2, <3>2, <3>3 DEF LapseStep
    <3>5. QED BY <2>1, <3>4, LapseMaps DEF TankInv
  <2>6. QED BY <2>3, <2>4, <2>5
<1>16. ASSUME NEW p \in Preparers \cup {Control}, Fail(p)
      PROVE  [Permit!Next]_(Permit!vars)
  <2>1. SameRecord
    BY <1>16 DEF SameRecord, Fail, LinkFailed, Return, Goto, bridge, device
  <2>2. CASE ticket[p] = epoch
    <3>1. LapseStep
      BY <1>16, <2>2 DEF LapseStep, Fail, LinkFailed, Return, Goto, bridge, device
    <3>2. QED BY <2>1, <3>1, LapseMaps DEF TankInv
  <2>3. CASE ticket[p] # epoch
    <3>1. want' = want /\ owned' = owned /\ devVel' = devVel
      BY <1>16, <2>3 DEF Fail, LinkFailed, Return, Goto, bridge, device
    <3>2. LastAsked' = LastAsked /\ StopConfirmed' = StopConfirmed
      BY <2>1, RecordKept
    <3>3. pc'[Control] = pc[Control] \/ pc'[Control] = "idle"
      BY <1>16 DEF Fail, LinkFailed, Return, Goto, bridge, device
    <3>4. QED BY <3>1, <3>2, <3>3 DEF Permit!Next, Permit!End, Permit!vars
  <2>4. QED BY <2>2, <2>3
<1>17. ASSUME ControlTake PROVE [Permit!Next]_(Permit!vars)
  <2>1. LastAsked' = LastAsked /\ StopConfirmed' = StopConfirmed
    BY <1>17, RecordKept DEF SameRecord, ControlTake, Permitted, Charge, Goto, bridge,
       device
  <2>2. owned /\ owned' = owned /\ want' = want /\ devVel' = devVel /\ pc'[Control] #
     "idle"
    BY <1>17 DEF ControlTake, Permitted, Charge, Goto, bridge, device
  <2>3. QED BY <2>1, <2>2 DEF Permit!Next, Permit!Begin
<1>18. ASSUME ControlExpire PROVE [Permit!Next]_(Permit!vars)
  <2>1. SameRecord
    BY <1>18 DEF SameRecord, ControlExpire, Outcomes, Charge, Drive, Applied, Goto,
    bridge, locks, locals, device
  <2>2. RestStep
    BY <1>18 DEF RestStep, ControlExpire, Outcomes, Charge, Drive, Applied, Goto,
    bridge, locks, locals, device
  <2>3. QED BY <2>1, <2>2, RestMaps DEF TankInv
<1>19. ASSUME ControlSend PROVE [Permit!Next]_(Permit!vars)
  <2>1. LastAsked' = LastAsked /\ StopConfirmed' = StopConfirmed
    BY <1>19, RecordKept DEF SameRecord, ControlSend, Outcomes, Charge, Drive, Applied,
       Answered, TransportFailure, Goto, bridge, locals
  <2>2. owned' = owned /\ want' = want /\ pc[Control] # "idle" /\ pc'[Control] # "idle"
    BY <1>19 DEF ControlSend, Outcomes, Charge, Drive, Applied, Answered,
       TransportFailure, Goto, bridge, locals
  <2>3. QED BY <2>1, <2>2 DEF Permit!Next, Permit!Drive, Permit!Rest
<1>20. ASSUME ControlAck PROVE [Permit!Next]_(Permit!vars)
  <2>1. LastAsked' = LastAsked /\ StopConfirmed' = StopConfirmed
    BY <1>20, RecordKept DEF SameRecord, ControlAck, Acknowledged, NotAcknowledged,
       Return, Goto, locals, device
  <2>2. owned' = owned /\ want' = want /\ devVel' = devVel
    BY <1>20 DEF ControlAck, Acknowledged, NotAcknowledged, Return, Goto, locals, device
  <2>3. pc[Control] # "idle" /\ (pc'[Control] = "idle" \/ pc'[Control] = "fail")
    BY <1>20 DEF ControlAck, Acknowledged, NotAcknowledged, Return, Goto, locals, device
  <2>4. QED BY <2>1, <2>2, <2>3 DEF Permit!Next, Permit!End, Permit!vars
<1>21. ASSUME TelemetryWake PROVE [Permit!Next]_(Permit!vars)
  <2>1. SameRecord
    BY <1>21 DEF SameRecord, TelemetryWake, Goto, bridge, locks, locals, device
  <2>2. RestStep
    BY <1>21 DEF RestStep, TelemetryWake, Goto, bridge, locks, locals, device
  <2>3. QED BY <2>1, <2>2, RestMaps DEF TankInv
<1>22. ASSUME StartPoll PROVE [Permit!Next]_(Permit!vars)
  <2>1. SameRecord
    BY <1>22 DEF SameRecord, StartPoll, LoadTicket, Goto, bridge, locks, locals, device
  <2>2. RestStep
    BY <1>22 DEF RestStep, StartPoll, LoadTicket, Goto, bridge, locks, locals, device
  <2>3. QED BY <2>1, <2>2, RestMaps DEF TankInv
<1>23. ASSUME StartBattery PROVE [Permit!Next]_(Permit!vars)
  <2>1. SameRecord
    BY <1>23 DEF SameRecord, StartBattery, LoadTicket, Goto, bridge, locks, locals,
    device
  <2>2. RestStep
    BY <1>23 DEF RestStep, StartBattery, LoadTicket, Goto, bridge, locks, locals,
    device
  <2>3. QED BY <2>1, <2>2, RestMaps DEF TankInv
<1>24. ASSUME StartReconnect PROVE [Permit!Next]_(Permit!vars)
  <2>1. SameRecord
    BY <1>24 DEF SameRecord, StartReconnect, LoadTicket, Goto, bridge, locks, locals,
    device
  <2>2. RestStep
    BY <1>24 DEF RestStep, StartReconnect, LoadTicket, Goto, bridge, locks, locals,
    device
  <2>3. QED BY <2>1, <2>2, RestMaps DEF TankInv
<1>25. ASSUME PostponeReconnect PROVE [Permit!Next]_(Permit!vars)
  <2>1. SameRecord
    BY <1>25 DEF SameRecord, PostponeReconnect, Goto, bridge, locks, locals, device
  <2>2. RestStep
    BY <1>25 DEF RestStep, PostponeReconnect, Goto, bridge, locks, locals, device
  <2>3. QED BY <2>1, <2>2, RestMaps DEF TankInv
<1>26. ASSUME PollState PROVE [Permit!Next]_(Permit!vars)
  <2>1. SameRecord
    BY <1>26 DEF SameRecord, PollState, QueryOutcomes, Outcomes, Charge, Answered,
    TransportFailure, Goto, bridge, locks, locals, device
  <2>2. RestStep
    BY <1>26 DEF RestStep, PollState, QueryOutcomes, Outcomes, Charge, Answered,
    TransportFailure, Goto, bridge, locks, locals, device
  <2>3. QED BY <2>1, <2>2, RestMaps DEF TankInv
<1>27. ASSUME PollBrake PROVE [Permit!Next]_(Permit!vars)
  <2>1. SameRecord
    BY <1>27 DEF SameRecord, PollBrake, QueryOutcomes, Outcomes, Charge, Answered,
    TransportFailure, Goto, bridge, locks, locals, device
  <2>2. RestStep
    BY <1>27 DEF RestStep, PollBrake, QueryOutcomes, Outcomes, Charge, Answered,
    TransportFailure, Goto, bridge, locks, locals, device
  <2>3. QED BY <2>1, <2>2, RestMaps DEF TankInv
<1>28. ASSUME PollDone PROVE [Permit!Next]_(Permit!vars)
  <2>1. SameRecord
    BY <1>28 DEF SameRecord, PollDone, PollConfirmed, PollFailed, Return, Goto, locals,
       device
  <2>2. devVel' = devVel /\ pc'[Control] = pc[Control]
    BY <1>28 DEF PollDone, PollConfirmed, PollFailed, Return, Goto, locals, device
  <2>3. \/ want' = want /\ owned' = owned
        \/ want' = FALSE /\ owned' = FALSE
    BY <1>28 DEF PollDone, PollConfirmed, PollFailed, Return, Goto, locals, device
  <2>4. RestStep \/ LapseStep
    BY <2>2, <2>3 DEF RestStep, LapseStep
  <2>5. QED BY <2>1, <2>4, RestMaps, LapseMaps DEF TankInv
<1>29. ASSUME BatteryReply PROVE [Permit!Next]_(Permit!vars)
  <2>1. SameRecord
    BY <1>29 DEF SameRecord, BatteryReply, Return, Goto, bridge, locks, locals, device
  <2>2. RestStep
    BY <1>29 DEF RestStep, BatteryReply, Return, Goto, bridge, locks, locals, device
  <2>3. QED BY <2>1, <2>2, RestMaps DEF TankInv
<1>30. ASSUME Move PROVE [Permit!Next]_(Permit!vars)
  <2>1. SameRecord
    BY <1>30 DEF SameRecord, Move, Permitted, bridge, locks, locals, device
  <2>2. RestStep
    BY <1>30 DEF RestStep, Move, Permitted, bridge, locks, locals, device
  <2>3. QED BY <2>1, <2>2, RestMaps DEF TankInv
<1>31. ASSUME CommandExpires PROVE [Permit!Next]_(Permit!vars)
  <2>1. SameRecord
    BY <1>31 DEF SameRecord, CommandExpires, bridge, locks, locals, device
  <2>2. RestStep
    BY <1>31 DEF RestStep, CommandExpires, bridge, locks, locals, device
  <2>3. QED BY <2>1, <2>2, RestMaps DEF TankInv
<1>32. ASSUME BeginShutdown PROVE [Permit!Next]_(Permit!vars)
  <2>1. SameRecord
    BY <1>32 DEF SameRecord, BeginShutdown, Goto, bridge, locks, locals, device
  <2>2. RestStep
    BY <1>32 DEF RestStep, BeginShutdown, Goto, bridge, locks, locals, device
  <2>3. QED BY <2>1, <2>2, RestMaps DEF TankInv
<1>33. ASSUME StopRunning PROVE [Permit!Next]_(Permit!vars)
  <2>1. SameRecord
    BY <1>33 DEF SameRecord, StopRunning, Goto, bridge, locks, locals, device
  <2>2. RestStep
    BY <1>33 DEF RestStep, StopRunning, Goto, bridge, locks, locals, device
  <2>3. QED BY <2>1, <2>2, RestMaps DEF TankInv
<1>34. ASSUME ShutdownInhibit PROVE [Permit!Next]_(Permit!vars)
  <2>1. SameRecord
    BY <1>34 DEF SameRecord, ShutdownInhibit, Inhibit
  <2>2. LapseStep
    BY <1>34 DEF LapseStep, ShutdownInhibit, Inhibit, Goto, device
  <2>3. QED BY <2>1, <2>2, LapseMaps DEF TankInv
<1>35. ASSUME JoinThreads PROVE [Permit!Next]_(Permit!vars)
  <2>1. SameRecord
    BY <1>35 DEF SameRecord, JoinThreads, Goto, bridge, locks, locals, device
  <2>2. RestStep
    BY <1>35 DEF RestStep, JoinThreads, Goto, bridge, locks, locals, device
  <2>3. QED BY <2>1, <2>2, RestMaps DEF TankInv
<1>36. ASSUME LastZero PROVE [Permit!Next]_(Permit!vars)
  <2>1. SameRecord
    BY <1>36 DEF SameRecord, LastZero, Outcomes, Charge, Drive, Applied, Goto, bridge,
    locks, locals, device
  <2>2. RestStep
    BY <1>36 DEF RestStep, LastZero, Outcomes, Charge, Drive, Applied, Goto, bridge,
    locks, locals, device
  <2>3. QED BY <2>1, <2>2, RestMaps DEF TankInv
<1>37. ASSUME ExternalChange PROVE [Permit!Next]_(Permit!vars)
  <2>1. SameRecord
    BY <1>37 DEF SameRecord, ExternalChange, bridge, locks, locals, device
  <2>2. RestStep
    BY <1>37 DEF RestStep, ExternalChange, bridge, locks, locals, device
  <2>3. QED BY <2>1, <2>2, RestMaps DEF TankInv
<1>38. ASSUME UNCHANGED vars PROVE [Permit!Next]_(Permit!vars)
  <2>1. SameRecord
    BY <1>38 DEF SameRecord, vars, bridge, locks, locals, device
  <2>2. RestStep
    BY <1>38 DEF RestStep, vars, bridge, locks, locals, device
  <2>3. QED BY <2>1, <2>2, RestMaps DEF TankInv
<1>39. QED
  BY <1>1, <1>2, <1>3, <1>4, <1>5, <1>6, <1>7, <1>8, <1>9, <1>10, <1>11, <1>12, <1>13,
  <1>14, <1>15, <1>16, <1>17, <1>18, <1>19, <1>20, <1>21, <1>22, <1>23, <1>24, <1>25,
  <1>26, <1>27, <1>28, <1>29, <1>30, <1>31, <1>32, <1>33, <1>34, <1>35, <1>36, <1>37,
  <1>38 DEF Next, ClientStep, ControlStep, TelemetryStep, MainStep, Prepare, Finished

(* The initial states are those of MotionPermit. *)
LEMMA StartsAlike ==
  ASSUME Init
  PROVE  Permit!Init
BY ClientsAssumption DEF Init, LastAsked, StopConfirmed, Latest, Permit!Init

(* The adapter implements MotionPermit: what was asked for last decides     *)
(* whether the robot may move, and a confirmed stop lasts.                 *)
THEOREM Refines == Spec => KeepsPromise
<1>1. Init => Permit!Init
  BY StartsAlike
<1>2. TankInv /\ [Next]_vars => [Permit!Next]_(Permit!vars)
  BY Simulates
<1>3. QED BY <1>1, <1>2, InvariantHolds, PTL DEF Spec, KeepsPromise, Permit!Spec
=============================================================================
