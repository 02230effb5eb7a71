------------------------------ MODULE TankProofs ------------------------------
(***************************************************************************)
(* What is proved about TankBackend for every number of clients, every     *)
(* option and every bound.  TankInv (module TankInvariant) is inductive:    *)
(* its types, its locking discipline, then permission, then the device,    *)
(* each layer preserved with the help of the ones before it.  The          *)
(* properties of TankBackend are read off it.                              *)
(***************************************************************************)
EXTENDS TankInvariant, TLAPS

USE DEF Main, Control, Telemetry, Free, Still, Procs, Preparers

(* Leaving the critical sections keeps the types. *)
LEMMA ReturnTyped ==
  ASSUME PcTypes, ThreadTypes, NEW p \in Procs,
         NEW r \in {"none", "ready", "stopped", "braked"}, Return(p, r)
  PROVE  PcTypes' /\ ThreadTypes'
<1>1. PcTypes'
  BY ClientsAssumption DEF Return, Goto, PcTypes, PreparePc, ClientPc, ControlPc,
     TelemetryPc, MainPc
<1>2. ThreadTypes'
  BY ClientsAssumption DEF Return, ThreadTypes
<1>3. QED BY <1>1, <1>2

(* So does the revocation every service starts with. *)
LEMMA InhibitTyped ==
  ASSUME BridgeTypes, ThreadTypes, NEW p \in Procs, NEW emergency \in BOOLEAN,
         Inhibit(p, emergency)
  PROVE  BridgeTypes' /\ ticket' \in [Procs -> Nat]
<1>1. estop' \in BOOLEAN
  BY Zenon DEF Inhibit, BridgeTypes
<1>2. motion' \in {"UNKNOWN", "STANDING", "MOVING", "LOCKED", "ESTOP"}
  BY Zenon DEF Inhibit
<1>3. /\ running' \in BOOLEAN /\ want' \in BOOLEAN /\ brake' \in BOOLEAN
      /\ connected' \in BOOLEAN /\ owned' \in BOOLEAN /\ battery' \in BOOLEAN
  BY DEF Inhibit, BridgeTypes
<1>4. /\ epoch' \in Nat /\ moveFails' \in Nat /\ stateFails' \in Nat
      /\ cmd' \in Nat \cup {Still}
  BY DEF Inhibit, BridgeTypes
<1>5. ticket' \in [Procs -> Nat]
  BY DEF Inhibit, BridgeTypes, ThreadTypes
<1>6. QED BY <1>1, <1>2, <1>3, <1>4, <1>5 DEF BridgeTypes

(* The program starts in a well-typed state. *)
LEMMA TypeInit ==
  ASSUME Init
  PROVE  TypeOK
<1> USE ClientsAssumption, OptionsAssumption, BoundsAssumption DEF Init
<1>1. BridgeTypes
  BY DEF BridgeTypes
<1>2. PcTypes
  BY DEF PcTypes, PreparePc, ClientPc, ControlPc, TelemetryPc, MainPc
<1>3. ThreadTypes
  BY DEF ThreadTypes
<1>4. DeviceTypes
  BY DEF DeviceTypes
<1>5. QED BY <1>1, <1>2, <1>3, <1>4 DEF TypeOK

(* Every step keeps the types, action by action and part by part. *)
LEMMA TypeKept ==
  ASSUME TypeOK, [Next]_vars
  PROVE  TypeOK'
<1> USE ClientsAssumption, OptionsAssumption, BoundsAssumption
    DEF TypeOK, PreparePc, ClientPc, ControlPc, TelemetryPc, MainPc

<1>1. ASSUME NEW c \in Clients, NEW o \in {"ready", "stop", "estop"}, Call(c, o)
      PROVE  TypeOK'
  <2>1. BridgeTypes'
    BY <1>1, InhibitTyped DEF Call
  <2>2. PcTypes'
    BY <1>1 DEF PcTypes, Call, Inhibit, Goto, bridge, locks, locals, device
  <2>3. ThreadTypes'
    BY <1>1 DEF BridgeTypes, DeviceTypes, ThreadTypes, Call, Inhibit, Goto, bridge,
       locks, locals, device
  <2>4. DeviceTypes'
    BY <1>1 DEF ThreadTypes, DeviceTypes, Call, Inhibit, Goto, bridge, locks, locals,
       device
  <2>5. QED BY <2>1, <2>2, <2>3, <2>4
<1>2. ASSUME NEW c \in Clients, TakeAction(c)
      PROVE  TypeOK'
  <2>1. BridgeTypes'
    BY <1>2 DEF BridgeTypes, TakeAction, Goto, bridge, locks, locals, device
  <2>2. PcTypes'
    BY <1>2 DEF PcTypes, TakeAction, Goto, bridge, locks, locals, device
  <2>3. ThreadTypes'
    BY <1>2 DEF BridgeTypes, DeviceTypes, ThreadTypes, TakeAction, Goto, bridge, locks,
       locals, device
  <2>4. DeviceTypes'
    BY <1>2 DEF ThreadTypes, DeviceTypes, TakeAction, Goto, bridge, locks, locals,
       device
  <2>5. QED BY <2>1, <2>2, <2>3, <2>4
<1>3. ASSUME NEW c \in Clients, StopMove(c)
      PROVE  TypeOK'
  <2>1. BridgeTypes'
    BY <1>3 DEF BridgeTypes, StopMove, Outcomes, Charge, Drive, Applied, Goto,
    Return, bridge, locks, locals, device
  <2>2. PcTypes'
    BY <1>3, ReturnTyped DEF PcTypes, StopMove, Outcomes, Charge, Drive, Applied,
    Goto, Return, bridge, locks, locals, device
  <2>3. ThreadTypes'
    BY <1>3, ReturnTyped, ZenonT(60) DEF BridgeTypes, DeviceTypes, ThreadTypes, StopMove, Outcomes,
       Charge, Drive, Applied,
    Goto, Return, bridge, locks, locals, device
  <2>4. DeviceTypes'
    BY <1>3 DEF ThreadTypes, DeviceTypes, StopMove, Outcomes, Charge, Drive, Applied,
       Goto,
    Return, bridge, locks, locals, device
  <2>5. QED BY <2>1, <2>2, <2>3, <2>4
<1>4. ASSUME NEW c \in Clients, EngageBrake(c)
      PROVE  TypeOK'
  <2>1. BridgeTypes'
    BY <1>4 DEF BridgeTypes, EngageBrake, Outcomes, Charge, Applied, Branch, Goto,
    bridge, locks, locals, device
  <2>2. PcTypes'
    BY <1>4 DEF PcTypes, EngageBrake, Outcomes, Charge, Applied, Branch, Goto,
    bridge, locks, locals, device
  <2>3. ThreadTypes'
    BY <1>4 DEF BridgeTypes, DeviceTypes, ThreadTypes, EngageBrake, Outcomes, Charge,
       Applied, Branch, Goto,
    bridge, locks, locals, device
  <2>4. DeviceTypes'
    BY <1>4 DEF ThreadTypes, DeviceTypes, EngageBrake, Outcomes, Charge, Applied,
       Branch, Goto,
    bridge, locks, locals, device
  <2>5. QED BY <2>1, <2>2, <2>3, <2>4
<1>5. ASSUME NEW c \in Clients, VerifyBrake(c)
      PROVE  TypeOK'
  <2>1. BridgeTypes'
    BY <1>5 DEF BridgeTypes, VerifyBrake, QueryOutcomes, Outcomes, Charge, Branch,
    Goto, bridge, locks, locals, device
  <2>2. PcTypes'
    BY <1>5 DEF PcTypes, VerifyBrake, QueryOutcomes, Outcomes, Charge, Branch, Goto,
    bridge, locks, locals, device
  <2>3. ThreadTypes'
    BY <1>5 DEF BridgeTypes, DeviceTypes, ThreadTypes, VerifyBrake, QueryOutcomes,
       Outcomes, Charge, Branch,
    Goto, bridge, locks, locals, device
  <2>4. DeviceTypes'
    BY <1>5 DEF ThreadTypes, DeviceTypes, VerifyBrake, QueryOutcomes, Outcomes, Charge,
       Branch,
    Goto, bridge, locks, locals, device
  <2>5. QED BY <2>1, <2>2, <2>3, <2>4
<1>6. ASSUME NEW c \in Clients, LatchBrake(c)
      PROVE  TypeOK'
  <2>1. BridgeTypes'
    BY <1>6 DEF BridgeTypes, LatchBrake, Return, Goto, bridge, locks, locals, device
  <2>2. PcTypes'
    BY <1>6, ReturnTyped DEF PcTypes, LatchBrake, Return, Goto, bridge, locks,
    locals, device
  <2>3. ThreadTypes'
    BY <1>6, ReturnTyped DEF BridgeTypes, DeviceTypes, ThreadTypes, LatchBrake, Return,
       Goto, bridge, locks,
    locals, device
  <2>4. DeviceTypes'
    BY <1>6 DEF ThreadTypes, DeviceTypes, LatchBrake, Return, Goto, bridge, locks,
       locals, device
  <2>5. QED BY <2>1, <2>2, <2>3, <2>4
<1>7. ASSUME NEW p \in Preparers, TakeIo(p)
      PROVE  TypeOK'
  <2>1. BridgeTypes'
    BY <1>7 DEF BridgeTypes, TakeIo, FirstStep, Return, Goto, bridge, locks, locals,
    device
  <2>2. PcTypes'
    BY <1>7, ReturnTyped DEF PcTypes, ThreadTypes, TakeIo, FirstStep, Return, Goto,
       bridge, locks,
    locals, device
  <2>3. ThreadTypes'
    BY <1>7, ReturnTyped DEF BridgeTypes, DeviceTypes, ThreadTypes, TakeIo, FirstStep,
       Return, Goto, bridge,
    locks, locals, device
  <2>4. DeviceTypes'
    BY <1>7 DEF ThreadTypes, DeviceTypes, TakeIo, FirstStep, Return, Goto, bridge,
       locks, locals,
    device
  <2>5. QED BY <2>1, <2>2, <2>3, <2>4
<1>8. ASSUME NEW p \in Preparers, ChangeMode(p)
      PROVE  TypeOK'
  <2>1. BridgeTypes'
    BY <1>8 DEF BridgeTypes, ChangeMode, Outcomes, Charge, Applied, Branch, Goto,
    bridge, locks, locals, device
  <2>2. PcTypes'
    BY <1>8 DEF PcTypes, ChangeMode, Outcomes, Charge, Applied, Branch, Goto, bridge,
    locks, locals, device
  <2>3. ThreadTypes'
    BY <1>8 DEF BridgeTypes, DeviceTypes, ThreadTypes, ChangeMode, Outcomes, Charge,
       Applied, Branch, Goto,
    bridge, locks, locals, device
  <2>4. DeviceTypes'
    BY <1>8 DEF ThreadTypes, DeviceTypes, ChangeMode, Outcomes, Charge, Applied,
       Branch, Goto,
    bridge, locks, locals, device
  <2>5. QED BY <2>1, <2>2, <2>3, <2>4
<1>9. ASSUME NEW p \in Preparers, QueryState(p)
      PROVE  TypeOK'
  <2>1. BridgeTypes'
    BY <1>9 DEF BridgeTypes, QueryState, QueryOutcomes, Outcomes, Charge, Branch,
    Goto, bridge, locks, locals, device
  <2>2. PcTypes'
    BY <1>9 DEF PcTypes, QueryState, QueryOutcomes, Outcomes, Charge, Branch, Goto,
    bridge, locks, locals, device
  <2>3. ThreadTypes'
    BY <1>9 DEF BridgeTypes, DeviceTypes, ThreadTypes, QueryState, QueryOutcomes,
       Outcomes, Charge, Branch,
    Goto, bridge, locks, locals, device
  <2>4. DeviceTypes'
    BY <1>9 DEF ThreadTypes, DeviceTypes, QueryState, QueryOutcomes, Outcomes, Charge,
       Branch,
    Goto, bridge, locks, locals, device
  <2>5. QED BY <2>1, <2>2, <2>3, <2>4
<1>10. ASSUME NEW p \in Preparers, QueryBrake(p)
      PROVE  TypeOK'
  <2>1. BridgeTypes'
    BY <1>10 DEF BridgeTypes, QueryBrake, QueryOutcomes, Outcomes, Charge, Branch,
    Goto, Explicit, AfterBrake, bridge, locks, locals, device
  <2>2. PcTypes'
    BY <1>10 DEF PcTypes, QueryBrake, QueryOutcomes, Outcomes, Charge, Branch, Goto,
    Explicit, AfterBrake, bridge, locks, locals, device
  <2>3. ThreadTypes'
    BY <1>10 DEF BridgeTypes, DeviceTypes, ThreadTypes, QueryBrake, QueryOutcomes,
       Outcomes, Charge, Branch,
    Goto, Explicit, AfterBrake, bridge, locks, locals, device
  <2>4. DeviceTypes'
    BY <1>10 DEF ThreadTypes, DeviceTypes, QueryBrake, QueryOutcomes, Outcomes, Charge,
       Branch,
    Goto, Explicit, AfterBrake, bridge, locks, locals, device
  <2>5. QED BY <2>1, <2>2, <2>3, <2>4
<1>11. ASSUME NEW p \in Preparers, CheckRelease(p)
      PROVE  TypeOK'
  <2>1. BridgeTypes'
    BY <1>11 DEF BridgeTypes, CheckRelease, Branch, Goto, bridge, locks, locals,
    device
  <2>2. PcTypes'
    BY <1>11 DEF PcTypes, CheckRelease, Branch, Goto, bridge, locks, locals, device
  <2>3. ThreadTypes'
    BY <1>11 DEF BridgeTypes, DeviceTypes, ThreadTypes, CheckRelease, Branch, Goto,
       bridge, locks, locals,
    device
  <2>4. DeviceTypes'
    BY <1>11 DEF ThreadTypes, DeviceTypes, CheckRelease, Branch, Goto, bridge, locks,
       locals,
    device
  <2>5. QED BY <2>1, <2>2, <2>3, <2>4
<1>12. ASSUME NEW p \in Preparers, ReleaseBrake(p)
      PROVE  TypeOK'
  <2>1. BridgeTypes'
    BY <1>12 DEF BridgeTypes, ReleaseBrake, Outcomes, Charge, Applied, Branch, Goto,
    bridge, locks, locals, device
  <2>2. PcTypes'
    BY <1>12 DEF PcTypes, ReleaseBrake, Outcomes, Charge, Applied, Branch, Goto,
    bridge, locks, locals, device
  <2>3. ThreadTypes'
    BY <1>12 DEF BridgeTypes, DeviceTypes, ThreadTypes, ReleaseBrake, Outcomes, Charge,
       Applied, Branch, Goto,
    bridge, locks, locals, device
  <2>4. DeviceTypes'
    BY <1>12 DEF ThreadTypes, DeviceTypes, ReleaseBrake, Outcomes, Charge, Applied,
       Branch, Goto,
    bridge, locks, locals, device
  <2>5. QED BY <2>1, <2>2, <2>3, <2>4
<1>13. ASSUME NEW p \in Preparers, ConfirmRelease(p)
      PROVE  TypeOK'
  <2>1. BridgeTypes'
    BY <1>13 DEF BridgeTypes, ConfirmRelease, QueryOutcomes, Outcomes, Charge,
    Branch, Goto, bridge, locks, locals, device
  <2>2. PcTypes'
    BY <1>13 DEF PcTypes, ConfirmRelease, QueryOutcomes, Outcomes, Charge, Branch,
    Goto, bridge, locks, locals, device
  <2>3. ThreadTypes'
    BY <1>13 DEF BridgeTypes, DeviceTypes, ThreadTypes, ConfirmRelease, QueryOutcomes,
       Outcomes, Charge,
    Branch, Goto, bridge, locks, locals, device
  <2>4. DeviceTypes'
    BY <1>13 DEF ThreadTypes, DeviceTypes, ConfirmRelease, QueryOutcomes, Outcomes,
       Charge,
    Branch, Goto, bridge, locks, locals, device
  <2>5. QED BY <2>1, <2>2, <2>3, <2>4
<1>14. ASSUME NEW p \in Preparers, ZeroMove(p)
      PROVE  TypeOK'
  <2>1. BridgeTypes'
    BY <1>14 DEF BridgeTypes, ZeroMove, Outcomes, Charge, Drive, Applied, Branch,
    Goto, bridge, locks, locals, device
  <2>2. PcTypes'
    BY <1>14 DEF PcTypes, ZeroMove, Outcomes, Charge, Drive, Applied, Branch, Goto,
    bridge, locks, locals, device
  <2>3. ThreadTypes'
    BY <1>14 DEF BridgeTypes, DeviceTypes, ThreadTypes, ZeroMove, Outcomes, Charge,
       Drive, Applied, Branch,
    Goto, bridge, locks, locals, device
  <2>4. DeviceTypes'
    BY <1>14 DEF ThreadTypes, DeviceTypes, ZeroMove, Outcomes, Charge, Drive, Applied,
       Branch,
    Goto, bridge, locks, locals, device
  <2>5. QED BY <2>1, <2>2, <2>3, <2>4
<1>15. ASSUME NEW p \in Preparers, Commit(p)
      PROVE  TypeOK'
  <2>1. BridgeTypes'
    <3>1. CASE UNCHANGED bridge
      BY <3>1 DEF BridgeTypes, bridge
    <3>2. CASE ~UNCHANGED bridge
      <4>1. brake' \in BOOLEAN /\ want' \in BOOLEAN /\ estop' \in BOOLEAN
        BY <1>15, <3>2, Zenon DEF BridgeTypes, ThreadTypes, Commit
      <4>2. owned' \in BOOLEAN
        BY <1>15, <3>2, Zenon DEF Commit
      <4>3. motion' \in {"UNKNOWN", "STANDING", "MOVING", "LOCKED", "ESTOP"}
        BY <1>15, <3>2, Zenon DEF Commit
      <4>4. running' \in BOOLEAN /\ connected' \in BOOLEAN /\ battery' \in BOOLEAN
        BY <1>15, <3>2 DEF BridgeTypes, Commit
      <4>5. /\ epoch' \in Nat /\ moveFails' \in Nat /\ stateFails' \in Nat
            /\ cmd' \in Nat \cup {Still}
        BY <1>15, <3>2 DEF BridgeTypes, Commit
      <4>6. QED BY <4>1, <4>2, <4>3, <4>4, <4>5 DEF BridgeTypes
    <3>3. QED BY <3>1, <3>2
  <2>2. PcTypes'
    BY <1>15, ReturnTyped DEF PcTypes, Commit, Explicit, Return, Goto, bridge, locks,
    locals, device
  <2>3. ThreadTypes'
    BY <1>15, ReturnTyped DEF BridgeTypes, DeviceTypes, ThreadTypes, Commit, Explicit,
       Return, Goto, bridge,
    locks, locals, device
  <2>4. DeviceTypes'
    BY <1>15 DEF ThreadTypes, DeviceTypes, Commit, Explicit, Return, Goto, bridge,
       locks, locals,
    device
  <2>5. QED BY <2>1, <2>2, <2>3, <2>4
<1>16. ASSUME NEW p \in Preparers \cup {Control}, Fail(p)
      PROVE  TypeOK'
  <2>1. BridgeTypes'
    <3>1. CASE UNCHANGED bridge
      BY <3>1 DEF BridgeTypes, bridge
    <3>2. CASE ~UNCHANGED bridge
      <4>1. motion' \in {"UNKNOWN", "STANDING", "MOVING", "LOCKED", "ESTOP"}
        BY <1>16, <3>2, Zenon DEF Fail, LinkFailed
      <4>2. /\ running' \in BOOLEAN /\ want' \in BOOLEAN /\ estop' \in BOOLEAN
            /\ brake' \in BOOLEAN /\ connected' \in BOOLEAN /\ owned' \in BOOLEAN
            /\ battery' \in BOOLEAN
        BY <1>16, <3>2 DEF BridgeTypes, Fail, LinkFailed
      <4>3. /\ epoch' \in Nat /\ moveFails' \in Nat /\ stateFails' \in Nat
            /\ cmd' \in Nat \cup {Still}
        BY <1>16, <3>2 DEF BridgeTypes, Fail, LinkFailed
      <4>4. QED BY <4>1, <4>2, <4>3 DEF BridgeTypes
    <3>3. QED BY <3>1, <3>2
  <2>2. PcTypes'
    BY <1>16, ReturnTyped DEF PcTypes, Fail, LinkFailed, Return, Goto, bridge, locks,
    locals, device
  <2>3. ThreadTypes'
    BY <1>16, ReturnTyped DEF BridgeTypes, DeviceTypes, ThreadTypes, Fail, LinkFailed,
       Return, Goto, bridge,
    locks, locals, device
  <2>4. DeviceTypes'
    BY <1>16 DEF ThreadTypes, DeviceTypes, Fail, LinkFailed, Return, Goto, bridge,
       locks, locals,
    device
  <2>5. QED BY <2>1, <2>2, <2>3, <2>4
<1>17. CASE ControlTake
  <2>1. BridgeTypes'
    BY <1>17 DEF BridgeTypes, ControlTake, Permitted, Started, Charge, Goto, bridge,
    locks, locals, device
  <2>2. PcTypes'
    BY <1>17 DEF PcTypes, ControlTake, Permitted, Started, Charge, Goto, bridge,
    locks, locals, device
  <2>3. ThreadTypes'
    BY <1>17 DEF BridgeTypes, DeviceTypes, ThreadTypes, ControlTake, Permitted,
       Started, Charge, Goto, bridge,
    locks, locals, device
  <2>4. DeviceTypes'
    BY <1>17 DEF ThreadTypes, DeviceTypes, ControlTake, Permitted, Started, Charge,
       Goto, bridge,
    locks, locals, device
  <2>5. QED BY <2>1, <2>2, <2>3, <2>4
<1>18. CASE ControlExpire
  <2>1. BridgeTypes'
    BY <1>18 DEF BridgeTypes, ControlExpire, Outcomes, Charge, Drive, Applied, Goto,
    bridge, locks, locals, device
  <2>2. PcTypes'
    BY <1>18 DEF PcTypes, ControlExpire, Outcomes, Charge, Drive, Applied, Goto,
    bridge, locks, locals, device
  <2>3. ThreadTypes'
    BY <1>18 DEF BridgeTypes, DeviceTypes, ThreadTypes, ControlExpire, Outcomes,
       Charge, Drive, Applied, Goto,
    bridge, locks, locals, device
  <2>4. DeviceTypes'
    BY <1>18 DEF ThreadTypes, DeviceTypes, ControlExpire, Outcomes, Charge, Drive,
       Applied, Goto,
    bridge, locks, locals, device
  <2>5. QED BY <2>1, <2>2, <2>3, <2>4
<1>19. CASE ControlSend
  <2>1. BridgeTypes'
    BY <1>19 DEF BridgeTypes, ControlSend, Outcomes, Charge, Drive, Applied,
    Answered, TransportFailure, Goto, bridge, locks, locals, device
  <2>2. PcTypes'
    BY <1>19 DEF PcTypes, ControlSend, Outcomes, Charge, Drive, Applied, Answered,
    TransportFailure, Goto, bridge, locks, locals, device
  <2>3. ThreadTypes'
    BY <1>19 DEF BridgeTypes, DeviceTypes, ThreadTypes, ControlSend, Outcomes, Charge,
       Drive, Applied,
    Answered, TransportFailure, Goto, bridge, locks, locals, device
  <2>4. DeviceTypes'
    BY <1>19 DEF ThreadTypes, DeviceTypes, ControlSend, Outcomes, Charge, Drive,
       Applied,
    Answered, TransportFailure, Goto, bridge, locks, locals, device
  <2>5. QED BY <2>1, <2>2, <2>3, <2>4
<1>20. CASE ControlAck
  <2>1. BridgeTypes'
    BY <1>20 DEF BridgeTypes, ControlAck, Acknowledged, NotAcknowledged, Return,
    Goto, bridge, locks, locals, device
  <2>2. PcTypes'
    BY <1>20, ReturnTyped DEF PcTypes, ControlAck, Acknowledged, NotAcknowledged,
    Return, Goto, bridge, locks, locals, device
  <2>3. ThreadTypes'
    BY <1>20, ReturnTyped DEF BridgeTypes, DeviceTypes, ThreadTypes, ControlAck,
       Acknowledged, NotAcknowledged,
    Return, Goto, bridge, locks, locals, device
  <2>4. DeviceTypes'
    BY <1>20 DEF ThreadTypes, DeviceTypes, ControlAck, Acknowledged, NotAcknowledged,
       Return,
    Goto, bridge, locks, locals, device
  <2>5. QED BY <2>1, <2>2, <2>3, <2>4
<1>21. CASE TelemetryWake
  <2>1. BridgeTypes'
    BY <1>21 DEF BridgeTypes, TelemetryWake, Goto, bridge, locks, locals, device
  <2>2. PcTypes'
    BY <1>21 DEF PcTypes, TelemetryWake, Goto, bridge, locks, locals, device
  <2>3. ThreadTypes'
    BY <1>21 DEF BridgeTypes, DeviceTypes, ThreadTypes, TelemetryWake, Goto, bridge,
       locks, locals, device
  <2>4. DeviceTypes'
    BY <1>21 DEF ThreadTypes, DeviceTypes, TelemetryWake, Goto, bridge, locks, locals,
       device
  <2>5. QED BY <2>1, <2>2, <2>3, <2>4
<1>22. CASE StartPoll
  <2>1. BridgeTypes'
    BY <1>22 DEF BridgeTypes, StartPoll, LoadTicket, Goto, bridge, locks, locals,
    device
  <2>2. PcTypes'
    BY <1>22 DEF PcTypes, StartPoll, LoadTicket, Goto, bridge, locks, locals, device
  <2>3. ThreadTypes'
    BY <1>22 DEF BridgeTypes, DeviceTypes, ThreadTypes, StartPoll, LoadTicket, Goto,
       bridge, locks, locals,
    device
  <2>4. DeviceTypes'
    BY <1>22 DEF ThreadTypes, DeviceTypes, StartPoll, LoadTicket, Goto, bridge, locks,
       locals,
    device
  <2>5. QED BY <2>1, <2>2, <2>3, <2>4
<1>23. CASE StartBattery
  <2>1. BridgeTypes'
    BY <1>23 DEF BridgeTypes, StartBattery, LoadTicket, Goto, bridge, locks, locals,
    device
  <2>2. PcTypes'
    BY <1>23 DEF PcTypes, StartBattery, LoadTicket, Goto, bridge, locks, locals,
    device
  <2>3. ThreadTypes'
    BY <1>23 DEF BridgeTypes, DeviceTypes, ThreadTypes, StartBattery, LoadTicket, Goto,
       bridge, locks, locals,
    device
  <2>4. DeviceTypes'
    BY <1>23 DEF ThreadTypes, DeviceTypes, StartBattery, LoadTicket, Goto, bridge,
       locks, locals,
    device
  <2>5. QED BY <2>1, <2>2, <2>3, <2>4
<1>24. CASE StartReconnect
  <2>1. BridgeTypes'
    BY <1>24 DEF BridgeTypes, StartReconnect, LoadTicket, Goto, bridge, locks,
    locals, device
  <2>2. PcTypes'
    BY <1>24 DEF PcTypes, StartReconnect, LoadTicket, Goto, bridge, locks, locals,
    device
  <2>3. ThreadTypes'
    BY <1>24 DEF BridgeTypes, DeviceTypes, ThreadTypes, StartReconnect, LoadTicket,
       Goto, bridge, locks,
    locals, device
  <2>4. DeviceTypes'
    BY <1>24 DEF ThreadTypes, DeviceTypes, StartReconnect, LoadTicket, Goto, bridge,
       locks,
    locals, device
  <2>5. QED BY <2>1, <2>2, <2>3, <2>4
<1>25. CASE PostponeReconnect
  <2>1. BridgeTypes'
    BY <1>25 DEF BridgeTypes, PostponeReconnect, Goto, bridge, locks, locals, device
  <2>2. PcTypes'
    BY <1>25 DEF PcTypes, PostponeReconnect, Goto, bridge, locks, locals, device
  <2>3. ThreadTypes'
    BY <1>25 DEF BridgeTypes, DeviceTypes, ThreadTypes, PostponeReconnect, Goto,
       bridge, locks, locals, device
  <2>4. DeviceTypes'
    BY <1>25 DEF ThreadTypes, DeviceTypes, PostponeReconnect, Goto, bridge, locks,
       locals, device
  <2>5. QED BY <2>1, <2>2, <2>3, <2>4
<1>26. CASE PollState
  <2>1. BridgeTypes'
    BY <1>26 DEF BridgeTypes, PollState, QueryOutcomes, Outcomes, Charge, Answered,
    TransportFailure, Goto, bridge, locks, locals, device
  <2>2. PcTypes'
    BY <1>26 DEF PcTypes, PollState, QueryOutcomes, Outcomes, Charge, Answered,
    TransportFailure, Goto, bridge, locks, locals, device
  <2>3. ThreadTypes'
    BY <1>26 DEF BridgeTypes, DeviceTypes, ThreadTypes, PollState, QueryOutcomes,
       Outcomes, Charge, Answered,
    TransportFailure, Goto, bridge, locks, locals, device
  <2>4. DeviceTypes'
    BY <1>26 DEF ThreadTypes, DeviceTypes, PollState, QueryOutcomes, Outcomes, Charge,
       Answered,
    TransportFailure, Goto, bridge, locks, locals, device
  <2>5. QED BY <2>1, <2>2, <2>3, <2>4
<1>27. CASE PollBrake
  <2>1. BridgeTypes'
    BY <1>27 DEF BridgeTypes, PollBrake, QueryOutcomes, Outcomes, Charge, Answered,
    TransportFailure, Goto, bridge, locks, locals, device
  <2>2. PcTypes'
    BY <1>27 DEF PcTypes, PollBrake, QueryOutcomes, Outcomes, Charge, Answered,
    TransportFailure, Goto, bridge, locks, locals, device
  <2>3. ThreadTypes'
    BY <1>27 DEF BridgeTypes, DeviceTypes, ThreadTypes, PollBrake, QueryOutcomes,
       Outcomes, Charge, Answered,
    TransportFailure, Goto, bridge, locks, locals, device
  <2>4. DeviceTypes'
    BY <1>27 DEF ThreadTypes, DeviceTypes, PollBrake, QueryOutcomes, Outcomes, Charge,
       Answered,
    TransportFailure, Goto, bridge, locks, locals, device
  <2>5. QED BY <2>1, <2>2, <2>3, <2>4
<1>28. CASE PollDone
  <2>1. BridgeTypes'
    <3>1. brake' \in BOOLEAN /\ want' \in BOOLEAN /\ owned' \in BOOLEAN
      BY <1>28 DEF BridgeTypes, ThreadTypes, PollDone, PollConfirmed, PollFailed
    <3>2. QED BY <1>28, <3>1 DEF BridgeTypes, PollDone, PollConfirmed, PollFailed
  <2>2. PcTypes'
    BY <1>28, ReturnTyped DEF PcTypes, PollDone, PollConfirmed, PollFailed, Return,
    Goto, bridge, locks, locals, device
  <2>3. ThreadTypes'
    BY <1>28, ReturnTyped DEF BridgeTypes, DeviceTypes, ThreadTypes, PollDone,
       PollConfirmed, PollFailed,
    Return, Goto, bridge, locks, locals, device
  <2>4. DeviceTypes'
    BY <1>28 DEF ThreadTypes, DeviceTypes, PollDone, PollConfirmed, PollFailed, Return,
       Goto,
    bridge, locks, locals, device
  <2>5. QED BY <2>1, <2>2, <2>3, <2>4
<1>29. CASE BatteryReply
  <2>1. BridgeTypes'
    BY <1>29 DEF BridgeTypes, BatteryReply, Return, Goto, bridge, locks, locals,
    device
  <2>2. PcTypes'
    BY <1>29, ReturnTyped DEF PcTypes, BatteryReply, Return, Goto, bridge, locks,
    locals, device
  <2>3. ThreadTypes'
    BY <1>29, ReturnTyped DEF BridgeTypes, DeviceTypes, ThreadTypes, BatteryReply,
       Return, Goto, bridge, locks,
    locals, device
  <2>4. DeviceTypes'
    BY <1>29 DEF ThreadTypes, DeviceTypes, BatteryReply, Return, Goto, bridge, locks,
       locals,
    device
  <2>5. QED BY <2>1, <2>2, <2>3, <2>4
<1>30. CASE Move
  <2>1. BridgeTypes'
    BY <1>30 DEF BridgeTypes, Move, Permitted, bridge, locks, locals, device
  <2>2. PcTypes'
    BY <1>30 DEF PcTypes, Move, Permitted, bridge, locks, locals, device
  <2>3. ThreadTypes'
    BY <1>30 DEF BridgeTypes, DeviceTypes, ThreadTypes, Move, Permitted, bridge, locks,
       locals, device
  <2>4. DeviceTypes'
    BY <1>30 DEF ThreadTypes, DeviceTypes, Move, Permitted, bridge, locks, locals,
       device
  <2>5. QED BY <2>1, <2>2, <2>3, <2>4
<1>31. CASE CommandExpires
  <2>1. BridgeTypes'
    BY <1>31 DEF BridgeTypes, CommandExpires, bridge, locks, locals, device
  <2>2. PcTypes'
    BY <1>31 DEF PcTypes, CommandExpires, bridge, locks, locals, device
  <2>3. ThreadTypes'
    BY <1>31 DEF BridgeTypes, DeviceTypes, ThreadTypes, CommandExpires, bridge, locks,
       locals, device
  <2>4. DeviceTypes'
    BY <1>31 DEF ThreadTypes, DeviceTypes, CommandExpires, bridge, locks, locals, device
  <2>5. QED BY <2>1, <2>2, <2>3, <2>4
<1>32. CASE BeginShutdown
  <2>1. BridgeTypes'
    BY <1>32 DEF BridgeTypes, BeginShutdown, Goto, bridge, locks, locals, device
  <2>2. PcTypes'
    BY <1>32 DEF PcTypes, BeginShutdown, Goto, bridge, locks, locals, device
  <2>3. ThreadTypes'
    BY <1>32 DEF BridgeTypes, DeviceTypes, ThreadTypes, BeginShutdown, Goto, bridge,
       locks, locals, device
  <2>4. DeviceTypes'
    BY <1>32 DEF ThreadTypes, DeviceTypes, BeginShutdown, Goto, bridge, locks, locals,
       device
  <2>5. QED BY <2>1, <2>2, <2>3, <2>4
<1>33. CASE StopRunning
  <2>1. BridgeTypes'
    BY <1>33 DEF BridgeTypes, StopRunning, Goto, bridge, locks, locals, device
  <2>2. PcTypes'
    BY <1>33 DEF PcTypes, StopRunning, Goto, bridge, locks, locals, device
  <2>3. ThreadTypes'
    BY <1>33 DEF BridgeTypes, DeviceTypes, ThreadTypes, StopRunning, Goto, bridge,
       locks, locals, device
  <2>4. DeviceTypes'
    BY <1>33 DEF ThreadTypes, DeviceTypes, StopRunning, Goto, bridge, locks, locals,
       device
  <2>5. QED BY <2>1, <2>2, <2>3, <2>4
<1>34. CASE ShutdownInhibit
  <2>1. BridgeTypes'
    BY <1>34, InhibitTyped DEF ShutdownInhibit
  <2>2. PcTypes'
    BY <1>34 DEF PcTypes, ShutdownInhibit, Inhibit, Goto, bridge, locks, locals,
    device
  <2>3. ThreadTypes'
    BY <1>34 DEF BridgeTypes, DeviceTypes, ThreadTypes, ShutdownInhibit, Inhibit, Goto,
       bridge, locks, locals,
    device
  <2>4. DeviceTypes'
    BY <1>34 DEF ThreadTypes, DeviceTypes, ShutdownInhibit, Inhibit, Goto, bridge,
       locks, locals,
    device
  <2>5. QED BY <2>1, <2>2, <2>3, <2>4
<1>35. CASE JoinThreads
  <2>1. BridgeTypes'
    BY <1>35 DEF BridgeTypes, JoinThreads, Goto, bridge, locks, locals, device
  <2>2. PcTypes'
    BY <1>35 DEF PcTypes, JoinThreads, Goto, bridge, locks, locals, device
  <2>3. ThreadTypes'
    BY <1>35 DEF BridgeTypes, DeviceTypes, ThreadTypes, JoinThreads, Goto, bridge,
       locks, locals, device
  <2>4. DeviceTypes'
    BY <1>35 DEF ThreadTypes, DeviceTypes, JoinThreads, Goto, bridge, locks, locals,
       device
  <2>5. QED BY <2>1, <2>2, <2>3, <2>4
<1>36. CASE LastZero
  <2>1. BridgeTypes'
    BY <1>36 DEF BridgeTypes, LastZero, Outcomes, Charge, Drive, Applied, Goto,
    bridge, locks, locals, device
  <2>2. PcTypes'
    BY <1>36 DEF PcTypes, LastZero, Outcomes, Charge, Drive, Applied, Goto, bridge,
    locks, locals, device
  <2>3. ThreadTypes'
    BY <1>36 DEF BridgeTypes, DeviceTypes, ThreadTypes, LastZero, Outcomes, Charge,
       Drive, Applied, Goto,
    bridge, locks, locals, device
  <2>4. DeviceTypes'
    BY <1>36 DEF ThreadTypes, DeviceTypes, LastZero, Outcomes, Charge, Drive, Applied,
       Goto,
    bridge, locks, locals, device
  <2>5. QED BY <2>1, <2>2, <2>3, <2>4
<1>37. CASE ExternalChange
  <2>1. BridgeTypes'
    BY <1>37 DEF BridgeTypes, ExternalChange, bridge, locks, locals, device
  <2>2. PcTypes'
    BY <1>37 DEF PcTypes, ExternalChange, bridge, locks, locals, device
  <2>3. ThreadTypes'
    BY <1>37 DEF BridgeTypes, DeviceTypes, ThreadTypes, ExternalChange, bridge, locks,
       locals, device
  <2>4. DeviceTypes'
    <3>1. devBrake' \in BOOLEAN /\ devIdle' \in BOOLEAN
      BY <1>37, Zenon DEF DeviceTypes, ExternalChange
    <3>2. QED BY <1>37, <3>1 DEF DeviceTypes, ExternalChange
  <2>5. QED BY <2>1, <2>2, <2>3, <2>4
<1>38. CASE UNCHANGED vars
  <2>1. BridgeTypes'
    BY <1>38 DEF BridgeTypes, vars, bridge, locks, locals, device
  <2>2. PcTypes'
    BY <1>38 DEF PcTypes, vars, bridge, locks, locals, device
  <2>3. ThreadTypes'
    BY <1>38 DEF BridgeTypes, DeviceTypes, ThreadTypes, vars, bridge, locks, locals,
       device
  <2>4. DeviceTypes'
    BY <1>38, SMTT(40) DEF ThreadTypes, DeviceTypes, vars, bridge, locks, locals, device
  <2>5. QED BY <2>1, <2>2, <2>3, <2>4
<1>39. QED
  BY <1>1, <1>2, <1>3, <1>4, <1>5, <1>6, <1>7, <1>8, <1>9, <1>10, <1>11, <1>12,
  <1>13, <1>14, <1>15, <1>16, <1>17, <1>18, <1>19, <1>20, <1>21, <1>22, <1>23, <1>24,
  <1>25, <1>26, <1>27, <1>28, <1>29, <1>30, <1>31, <1>32, <1>33, <1>34, <1>35, <1>36,
  <1>37, <1>38 DEF Next, ClientStep, ControlStep, TelemetryStep, MainStep, Prepare,
  Finished

-----------------------------------------------------------------------------
(* Layers of the invariant: each action preserves each of them. *)

(* io excludes, services stay within their steps, tickets stay unique and    *)
(* never ahead of the epoch.                                               *)
LEMMA DisciplineKept ==
  ASSUME TypeOK, Discipline, [Next]_vars
  PROVE  Discipline'
<1> USE ClientsAssumption, OptionsAssumption DEF Discipline, IoExclusive, ServiceSteps,
      TicketOrder, LatestUndecided, Latest, InsideIo, Stops, StopPc, ReleasePc, TypeOK,
      BridgeTypes, PcTypes, ThreadTypes, DeviceTypes, PreparePc, ClientPc, ControlPc,
      TelemetryPc, MainPc
<1>1. ASSUME NEW c \in Clients, NEW o \in {"ready", "stop", "estop"}, Call(c, o)
      PROVE  Discipline'
  BY <1>1 DEF Call, Inhibit, Goto, bridge, locks, locals, device
<1>2. ASSUME NEW c \in Clients, TakeAction(c)
      PROVE  Discipline'
  BY <1>2 DEF TakeAction, Goto, bridge, locks, locals, device
<1>3. ASSUME NEW c \in Clients, StopMove(c)
      PROVE  Discipline'
  BY <1>3 DEF StopMove, Outcomes, Charge, Drive, Applied, Goto, Return, bridge, locks,
  locals, device
<1>4. ASSUME NEW c \in Clients, EngageBrake(c)
      PROVE  Discipline'
  BY <1>4 DEF EngageBrake, Outcomes, Charge, Applied, Branch, Goto, bridge, locks,
  locals, device
<1>5. ASSUME NEW c \in Clients, VerifyBrake(c)
      PROVE  Discipline'
  BY <1>5 DEF VerifyBrake, QueryOutcomes, Outcomes, Charge, Branch, Goto, bridge,
  locks, locals, device
<1>6. ASSUME NEW c \in Clients, LatchBrake(c)
      PROVE  Discipline'
  BY <1>6 DEF LatchBrake, Return, Goto, bridge, locks, locals, device
<1>7. ASSUME NEW p \in Preparers, TakeIo(p)
      PROVE  Discipline'
  BY <1>7 DEF TakeIo, FirstStep, Return, Goto, bridge, locks, locals, device
<1>8. ASSUME NEW p \in Preparers, ChangeMode(p)
      PROVE  Discipline'
  BY <1>8 DEF ChangeMode, Outcomes, Charge, Applied, Branch, Goto, bridge, locks,
  locals, device
<1>9. ASSUME NEW p \in Preparers, QueryState(p)
      PROVE  Discipline'
  BY <1>9 DEF QueryState, QueryOutcomes, Outcomes, Charge, Branch, Goto, bridge, locks,
  locals, device
<1>10. ASSUME NEW p \in Preparers, QueryBrake(p)
      PROVE  Discipline'
  BY <1>10 DEF QueryBrake, QueryOutcomes, Outcomes, Charge, Branch, Goto, Explicit,
  AfterBrake, bridge, locks, locals, device
<1>11. ASSUME NEW p \in Preparers, CheckRelease(p)
      PROVE  Discipline'
  BY <1>11 DEF CheckRelease, Branch, Goto, bridge, locks, locals, device
<1>12. ASSUME NEW p \in Preparers, ReleaseBrake(p)
      PROVE  Discipline'
  BY <1>12 DEF ReleaseBrake, Outcomes, Charge, Applied, Branch, Goto, bridge, locks,
  locals, device
<1>13. ASSUME NEW p \in Preparers, ConfirmRelease(p)
      PROVE  Discipline'
  BY <1>13 DEF ConfirmRelease, QueryOutcomes, Outcomes, Charge, Branch, Goto, bridge,
  locks, locals, device
<1>14. ASSUME NEW p \in Preparers, ZeroMove(p)
      PROVE  Discipline'
  BY <1>14 DEF ZeroMove, Outcomes, Charge, Drive, Applied, Branch, Goto, bridge, locks,
  locals, device
<1>15. ASSUME NEW p \in Preparers, Commit(p)
      PROVE  Discipline'
  BY <1>15 DEF Commit, Explicit, Return, Goto, bridge, locks, locals, device
<1>16. ASSUME NEW p \in Preparers \cup {Control}, Fail(p)
      PROVE  Discipline'
  BY <1>16 DEF Fail, LinkFailed, Return, Goto, bridge, locks, locals, device
<1>17. CASE ControlTake
  BY <1>17 DEF ControlTake, Permitted, Started, Charge, Goto, bridge, locks, locals,
  device
<1>18. CASE ControlExpire
  BY <1>18 DEF ControlExpire, Outcomes, Charge, Drive, Applied, Goto, bridge, locks,
  locals, device
<1>19. CASE ControlSend
  BY <1>19 DEF ControlSend, Outcomes, Charge, Drive, Applied, Answered,
  TransportFailure, Goto, bridge, locks, locals, device
<1>20. CASE ControlAck
  BY <1>20 DEF ControlAck, Acknowledged, NotAcknowledged, Return, Goto, bridge, locks,
  locals, device
<1>21. CASE TelemetryWake
  BY <1>21 DEF TelemetryWake, Goto, bridge, locks, locals, device
<1>22. CASE StartPoll
  BY <1>22 DEF StartPoll, LoadTicket, Goto, bridge, locks, locals, device
<1>23. CASE StartBattery
  BY <1>23 DEF StartBattery, LoadTicket, Goto, bridge, locks, locals, device
<1>24. CASE StartReconnect
  BY <1>24 DEF StartReconnect, LoadTicket, Goto, bridge, locks, locals, device
<1>25. CASE PostponeReconnect
  BY <1>25 DEF PostponeReconnect, Goto, bridge, locks, locals, device
<1>26. CASE PollState
  BY <1>26 DEF PollState, QueryOutcomes, Outcomes, Charge, Answered, TransportFailure,
  Goto, bridge, locks, locals, device
<1>27. CASE PollBrake
  BY <1>27 DEF PollBrake, QueryOutcomes, Outcomes, Charge, Answered, TransportFailure,
  Goto, bridge, locks, locals, device
<1>28. CASE PollDone
  BY <1>28 DEF PollDone, PollConfirmed, PollFailed, Return, Goto, bridge, locks,
  locals, device
<1>29. CASE BatteryReply
  BY <1>29 DEF BatteryReply, Return, Goto, bridge, locks, locals, device
<1>30. CASE Move
  BY <1>30 DEF Move, Permitted, bridge, locks, locals, device
<1>31. CASE CommandExpires
  BY <1>31 DEF CommandExpires, bridge, locks, locals, device
<1>32. CASE BeginShutdown
  BY <1>32 DEF BeginShutdown, Goto, bridge, locks, locals, device
<1>33. CASE StopRunning
  BY <1>33 DEF StopRunning, Goto, bridge, locks, locals, device
<1>34. CASE ShutdownInhibit
  BY <1>34 DEF ShutdownInhibit, Inhibit, Goto, bridge, locks, locals, device
<1>35. CASE JoinThreads
  BY <1>35 DEF JoinThreads, Goto, bridge, locks, locals, device
<1>36. CASE LastZero
  BY <1>36 DEF LastZero, Outcomes, Charge, Drive, Applied, Goto, bridge, locks, locals,
  device
<1>37. CASE ExternalChange
  BY <1>37 DEF ExternalChange, bridge, locks, locals, device
<1>38. CASE UNCHANGED vars
  BY <1>38, SMTT(40) DEF vars, bridge, locks, locals, device
<1> HIDE DEF Discipline, IoExclusive, ServiceSteps, TicketOrder, LatestUndecided,
      Latest, InsideIo, Stops, StopPc, ReleasePc, TypeOK, BridgeTypes, PcTypes,
      ThreadTypes, DeviceTypes, PreparePc, ClientPc, ControlPc, TelemetryPc, MainPc
<1>39. QED
  BY <1>1, <1>2, <1>3, <1>4, <1>5, <1>6, <1>7, <1>8, <1>9, <1>10, <1>11, <1>12, <1>13,
  <1>14, <1>15, <1>16, <1>17, <1>18, <1>19, <1>20, <1>21, <1>22, <1>23, <1>24, <1>25,
  <1>26, <1>27, <1>28, <1>29, <1>30, <1>31, <1>32, <1>33, <1>34, <1>35, <1>36, <1>37,
  <1>38 DEF Next, ClientStep, ControlStep, TelemetryStep, MainStep, Prepare, Finished

(* Permission implies what justifies it, and is gone wherever a thread's   *)
(* place says so.                                                          *)
LEMMA PermitKept ==
  ASSUME TypeOK, Discipline, PermitPart, [Next]_vars
  PROVE  PermitPart'
<1> USE ClientsAssumption, OptionsAssumption DEF Discipline, IoExclusive, ServiceSteps,
      TicketOrder, LatestUndecided, Latest, InsideIo, Stops, StopPc, ReleasePc, TypeOK,
      BridgeTypes, PcTypes, ThreadTypes, DeviceTypes, PreparePc, ClientPc, ControlPc,
      TelemetryPc, MainPc, PermitPart, PermitSound, VelocityFresh, PermitSteps,
      FailureBudgetHonoured, ReportMatchesPermit, BatteryOnlyWhileConnected,
      StopWithdrawsControl
<1>1. ASSUME NEW c \in Clients, NEW o \in {"ready", "stop", "estop"}, Call(c, o)
      PROVE  PermitPart'
  BY <1>1 DEF Call, Inhibit, Goto, bridge, locks, locals, device
<1>2. ASSUME NEW c \in Clients, TakeAction(c)
      PROVE  PermitPart'
  BY <1>2 DEF TakeAction, Goto, bridge, locks, locals, device
<1>3. ASSUME NEW c \in Clients, StopMove(c)
      PROVE  PermitPart'
  BY <1>3 DEF StopMove, Outcomes, Charge, Drive, Applied, Goto, Return, bridge, locks,
  locals, device
<1>4. ASSUME NEW c \in Clients, EngageBrake(c)
      PROVE  PermitPart'
  BY <1>4 DEF EngageBrake, Outcomes, Charge, Applied, Branch, Goto, bridge, locks,
  locals, device
<1>5. ASSUME NEW c \in Clients, VerifyBrake(c)
      PROVE  PermitPart'
  BY <1>5 DEF VerifyBrake, QueryOutcomes, Outcomes, Charge, Branch, Goto, bridge,
  locks, locals, device
<1>6. ASSUME NEW c \in Clients, LatchBrake(c)
      PROVE  PermitPart'
  BY <1>6 DEF LatchBrake, Return, Goto, bridge, locks, locals, device
<1>7. ASSUME NEW p \in Preparers, TakeIo(p)
      PROVE  PermitPart'
  BY <1>7 DEF TakeIo, FirstStep, Return, Goto, bridge, locks, locals, device
<1>8. ASSUME NEW p \in Preparers, ChangeMode(p)
      PROVE  PermitPart'
  BY <1>8 DEF ChangeMode, Outcomes, Charge, Applied, Branch, Goto, bridge, locks,
  locals, device
<1>9. ASSUME NEW p \in Preparers, QueryState(p)
      PROVE  PermitPart'
  BY <1>9 DEF QueryState, QueryOutcomes, Outcomes, Charge, Branch, Goto, bridge, locks,
  locals, device
<1>10. ASSUME NEW p \in Preparers, QueryBrake(p)
      PROVE  PermitPart'
  BY <1>10 DEF QueryBrake, QueryOutcomes, Outcomes, Charge, Branch, Goto, Explicit,
  AfterBrake, bridge, locks, locals, device
<1>11. ASSUME NEW p \in Preparers, CheckRelease(p)
      PROVE  PermitPart'
  BY <1>11 DEF CheckRelease, Branch, Goto, bridge, locks, locals, device
<1>12. ASSUME NEW p \in Preparers, ReleaseBrake(p)
      PROVE  PermitPart'
  BY <1>12 DEF ReleaseBrake, Outcomes, Charge, Applied, Branch, Goto, bridge, locks,
  locals, device
<1>13. ASSUME NEW p \in Preparers, ConfirmRelease(p)
      PROVE  PermitPart'
  BY <1>13 DEF ConfirmRelease, QueryOutcomes, Outcomes, Charge, Branch, Goto, bridge,
  locks, locals, device
<1>14. ASSUME NEW p \in Preparers, ZeroMove(p)
      PROVE  PermitPart'
  BY <1>14 DEF ZeroMove, Outcomes, Charge, Drive, Applied, Branch, Goto, bridge, locks,
  locals, device
<1>15. ASSUME NEW p \in Preparers, Commit(p)
      PROVE  PermitPart'
  BY <1>15 DEF Commit, Explicit, Return, Goto, bridge, locks, locals, device
<1>16. ASSUME NEW p \in Preparers \cup {Control}, Fail(p)
      PROVE  PermitPart'
  BY <1>16 DEF Fail, LinkFailed, Return, Goto, bridge, locks, locals, device
<1>17. CASE ControlTake
  BY <1>17 DEF ControlTake, Permitted, Started, Charge, Goto, bridge, locks, locals,
  device
<1>18. CASE ControlExpire
  BY <1>18 DEF ControlExpire, Outcomes, Charge, Drive, Applied, Goto, bridge, locks,
  locals, device
<1>19. CASE ControlSend
  BY <1>19 DEF ControlSend, Outcomes, Charge, Drive, Applied, Answered,
  TransportFailure, Goto, bridge, locks, locals, device
<1>20. CASE ControlAck
  BY <1>20 DEF ControlAck, Acknowledged, NotAcknowledged, Return, Goto, bridge, locks,
  locals, device
<1>21. CASE TelemetryWake
  BY <1>21 DEF TelemetryWake, Goto, bridge, locks, locals, device
<1>22. CASE StartPoll
  BY <1>22 DEF StartPoll, LoadTicket, Goto, bridge, locks, locals, device
<1>23. CASE StartBattery
  BY <1>23 DEF StartBattery, LoadTicket, Goto, bridge, locks, locals, device
<1>24. CASE StartReconnect
  BY <1>24 DEF StartReconnect, LoadTicket, Goto, bridge, locks, locals, device
<1>25. CASE PostponeReconnect
  BY <1>25 DEF PostponeReconnect, Goto, bridge, locks, locals, device
<1>26. CASE PollState
  BY <1>26 DEF PollState, QueryOutcomes, Outcomes, Charge, Answered, TransportFailure,
  Goto, bridge, locks, locals, device
<1>27. CASE PollBrake
  BY <1>27 DEF PollBrake, QueryOutcomes, Outcomes, Charge, Answered, TransportFailure,
  Goto, bridge, locks, locals, device
<1>28. CASE PollDone
  BY <1>28 DEF PollDone, PollConfirmed, PollFailed, Return, Goto, bridge, locks,
  locals, device
<1>29. CASE BatteryReply
  BY <1>29 DEF BatteryReply, Return, Goto, bridge, locks, locals, device
<1>30. CASE Move
  BY <1>30 DEF Move, Permitted, bridge, locks, locals, device
<1>31. CASE CommandExpires
  BY <1>31 DEF CommandExpires, bridge, locks, locals, device
<1>32. CASE BeginShutdown
  BY <1>32 DEF BeginShutdown, Goto, bridge, locks, locals, device
<1>33. CASE StopRunning
  BY <1>33 DEF StopRunning, Goto, bridge, locks, locals, device
<1>34. CASE ShutdownInhibit
  BY <1>34 DEF ShutdownInhibit, Inhibit, Goto, bridge, locks, locals, device
<1>35. CASE JoinThreads
  BY <1>35 DEF JoinThreads, Goto, bridge, locks, locals, device
<1>36. CASE LastZero
  BY <1>36 DEF LastZero, Outcomes, Charge, Drive, Applied, Goto, bridge, locks, locals,
  device
<1>37. CASE ExternalChange
  BY <1>37 DEF ExternalChange, bridge, locks, locals, device
<1>38. CASE UNCHANGED vars
  BY <1>38, SMTT(40) DEF vars, bridge, locks, locals, device
<1> HIDE DEF Discipline, IoExclusive, ServiceSteps, TicketOrder, LatestUndecided,
      Latest, InsideIo, Stops, StopPc, ReleasePc, TypeOK, BridgeTypes, PcTypes,
      ThreadTypes, DeviceTypes, PreparePc, ClientPc, ControlPc, TelemetryPc, MainPc,
      PermitPart, PermitSound, VelocityFresh, PermitSteps, FailureBudgetHonoured,
      ReportMatchesPermit, BatteryOnlyWhileConnected, StopWithdrawsControl
<1>39. QED
  BY <1>1, <1>2, <1>3, <1>4, <1>5, <1>6, <1>7, <1>8, <1>9, <1>10, <1>11, <1>12, <1>13,
  <1>14, <1>15, <1>16, <1>17, <1>18, <1>19, <1>20, <1>21, <1>22, <1>23, <1>24, <1>25,
  <1>26, <1>27, <1>28, <1>29, <1>30, <1>31, <1>32, <1>33, <1>34, <1>35, <1>36, <1>37,
  <1>38 DEF Next, ClientStep, ControlStep, TelemetryStep, MainStep, Prepare, Finished

(* Confirmed stops and brakes stay true of the device. *)
LEMMA DeviceKept ==
  ASSUME TypeOK, Discipline, PermitPart, DevicePart, [Next]_vars
  PROVE  DevicePart'
<1> USE ClientsAssumption, OptionsAssumption DEF Discipline, IoExclusive, ServiceSteps,
      TicketOrder, LatestUndecided, Latest, InsideIo, Stops, StopPc, ReleasePc, TypeOK,
      BridgeTypes, PcTypes, ThreadTypes, DeviceTypes, PreparePc, ClientPc, ControlPc,
      TelemetryPc, MainPc, PermitPart, PermitSound, PermitSteps, StopWithdrawsControl,
      DevicePart, DeviceSteps, ConfirmedStopIsFinal, ConfirmedBrakeHolds, ShutdownLeavesStill
<1>1. ASSUME NEW c \in Clients, NEW o \in {"ready", "stop", "estop"}, Call(c, o)
      PROVE  DevicePart'
  BY <1>1 DEF Call, Inhibit, Goto, bridge, locks, locals, device
<1>2. ASSUME NEW c \in Clients, TakeAction(c)
      PROVE  DevicePart'
  BY <1>2 DEF TakeAction, Goto, bridge, locks, locals, device
<1>3. ASSUME NEW c \in Clients, StopMove(c)
      PROVE  DevicePart'
  BY <1>3 DEF StopMove, Outcomes, Charge, Drive, Applied, Goto, Return, bridge, locks,
  locals, device
<1>4. ASSUME NEW c \in Clients, EngageBrake(c)
      PROVE  DevicePart'
  BY <1>4 DEF EngageBrake, Outcomes, Charge, Applied, Branch, Goto, bridge, locks,
  locals, device
<1>5. ASSUME NEW c \in Clients, VerifyBrake(c)
      PROVE  DevicePart'
  BY <1>5 DEF VerifyBrake, QueryOutcomes, Outcomes, Charge, Branch, Goto, bridge,
  locks, locals, device
<1>6. ASSUME NEW c \in Clients, LatchBrake(c)
      PROVE  DevicePart'
  BY <1>6 DEF LatchBrake, Return, Goto, bridge, locks, locals, device
<1>7. ASSUME NEW p \in Preparers, TakeIo(p)
      PROVE  DevicePart'
  BY <1>7 DEF TakeIo, FirstStep, Return, Goto, bridge, locks, locals, device
<1>8. ASSUME NEW p \in Preparers, ChangeMode(p)
      PROVE  DevicePart'
  BY <1>8 DEF ChangeMode, Outcomes, Charge, Applied, Branch, Goto, bridge, locks,
  locals, device
<1>9. ASSUME NEW p \in Preparers, QueryState(p)
      PROVE  DevicePart'
  BY <1>9 DEF QueryState, QueryOutcomes, Outcomes, Charge, Branch, Goto, bridge, locks,
  locals, device
<1>10. ASSUME NEW p \in Preparers, QueryBrake(p)
      PROVE  DevicePart'
  BY <1>10 DEF QueryBrake, QueryOutcomes, Outcomes, Charge, Branch, Goto, Explicit,
  AfterBrake, bridge, locks, locals, device
<1>11. ASSUME NEW p \in Preparers, CheckRelease(p)
      PROVE  DevicePart'
  BY <1>11 DEF CheckRelease, Branch, Goto, bridge, locks, locals, device
<1>12. ASSUME NEW p \in Preparers, ReleaseBrake(p)
      PROVE  DevicePart'
  BY <1>12 DEF ReleaseBrake, Outcomes, Charge, Applied, Branch, Goto, bridge, locks,
  locals, device
<1>13. ASSUME NEW p \in Preparers, ConfirmRelease(p)
      PROVE  DevicePart'
  BY <1>13 DEF ConfirmRelease, QueryOutcomes, Outcomes, Charge, Branch, Goto, bridge,
  locks, locals, device
<1>14. ASSUME NEW p \in Preparers, ZeroMove(p)
      PROVE  DevicePart'
  BY <1>14 DEF ZeroMove, Outcomes, Charge, Drive, Applied, Branch, Goto, bridge, locks,
  locals, device
<1>15. ASSUME NEW p \in Preparers, Commit(p)
      PROVE  DevicePart'
  BY <1>15 DEF Commit, Explicit, Return, Goto, bridge, locks, locals, device
<1>16. ASSUME NEW p \in Preparers \cup {Control}, Fail(p)
      PROVE  DevicePart'
  BY <1>16 DEF Fail, LinkFailed, Return, Goto, bridge, locks, locals, device
<1>17. CASE ControlTake
  BY <1>17 DEF ControlTake, Permitted, Started, Charge, Goto, bridge, locks, locals,
  device
<1>18. CASE ControlExpire
  BY <1>18 DEF ControlExpire, Outcomes, Charge, Drive, Applied, Goto, bridge, locks,
  locals, device
<1>19. CASE ControlSend
  BY <1>19 DEF ControlSend, Outcomes, Charge, Drive, Applied, Answered,
  TransportFailure, Goto, bridge, locks, locals, device
<1>20. CASE ControlAck
  BY <1>20 DEF ControlAck, Acknowledged, NotAcknowledged, Return, Goto, bridge, locks,
  locals, device
<1>21. CASE TelemetryWake
  BY <1>21 DEF TelemetryWake, Goto, bridge, locks, locals, device
<1>22. CASE StartPoll
  BY <1>22 DEF StartPoll, LoadTicket, Goto, bridge, locks, locals, device
<1>23. CASE StartBattery
  BY <1>23 DEF StartBattery, LoadTicket, Goto, bridge, locks, locals, device
<1>24. CASE StartReconnect
  BY <1>24 DEF StartReconnect, LoadTicket, Goto, bridge, locks, locals, device
<1>25. CASE PostponeReconnect
  BY <1>25 DEF PostponeReconnect, Goto, bridge, locks, locals, device
<1>26. CASE PollState
  BY <1>26 DEF PollState, QueryOutcomes, Outcomes, Charge, Answered, TransportFailure,
  Goto, bridge, locks, locals, device
<1>27. CASE PollBrake
  BY <1>27 DEF PollBrake, QueryOutcomes, Outcomes, Charge, Answered, TransportFailure,
  Goto, bridge, locks, locals, device
<1>28. CASE PollDone
  BY <1>28 DEF PollDone, PollConfirmed, PollFailed, Return, Goto, bridge, locks,
  locals, device
<1>29. CASE BatteryReply
  BY <1>29 DEF BatteryReply, Return, Goto, bridge, locks, locals, device
<1>30. CASE Move
  BY <1>30 DEF Move, Permitted, bridge, locks, locals, device
<1>31. CASE CommandExpires
  BY <1>31 DEF CommandExpires, bridge, locks, locals, device
<1>32. CASE BeginShutdown
  BY <1>32 DEF BeginShutdown, Goto, bridge, locks, locals, device
<1>33. CASE StopRunning
  BY <1>33 DEF StopRunning, Goto, bridge, locks, locals, device
<1>34. CASE ShutdownInhibit
  BY <1>34 DEF ShutdownInhibit, Inhibit, Goto, bridge, locks, locals, device
<1>35. CASE JoinThreads
  BY <1>35 DEF JoinThreads, Goto, bridge, locks, locals, device
<1>36. CASE LastZero
  BY <1>36 DEF LastZero, Outcomes, Charge, Drive, Applied, Goto, bridge, locks, locals,
  device
<1>37. CASE ExternalChange
  BY <1>37 DEF ExternalChange, bridge, locks, locals, device
<1>38. CASE UNCHANGED vars
  BY <1>38 DEF vars, bridge, locks, locals, device
<1> HIDE DEF Discipline, IoExclusive, ServiceSteps, TicketOrder, LatestUndecided,
      Latest, InsideIo, Stops, StopPc, ReleasePc, TypeOK, BridgeTypes, PcTypes,
      ThreadTypes, DeviceTypes, PreparePc, ClientPc, ControlPc, TelemetryPc, MainPc,
      PermitPart, PermitSound, PermitSteps, StopWithdrawsControl, DevicePart,
      DeviceSteps, ConfirmedStopIsFinal, ConfirmedBrakeHolds, ShutdownLeavesStill
<1>39. QED
  BY <1>1, <1>2, <1>3, <1>4, <1>5, <1>6, <1>7, <1>8, <1>9, <1>10, <1>11, <1>12, <1>13,
  <1>14, <1>15, <1>16, <1>17, <1>18, <1>19, <1>20, <1>21, <1>22, <1>23, <1>24, <1>25,
  <1>26, <1>27, <1>28, <1>29, <1>30, <1>31, <1>32, <1>33, <1>34, <1>35, <1>36, <1>37,
  <1>38 DEF Next, ClientStep, ControlStep, TelemetryStep, MainStep, Prepare, Finished

(* A read-only adapter leaves the device alone. *)
LEMMA DeviceLeftAlone ==
  ASSUME TypeOK, Discipline, PermitPart, DevicePart, [Next]_vars
  PROVE  ~EnableMotion /\ device' # device => external' # external
<1> USE ClientsAssumption, OptionsAssumption DEF Discipline, IoExclusive, ServiceSteps,
      TicketOrder, LatestUndecided, Latest, InsideIo, Stops, StopPc, ReleasePc, TypeOK,
      BridgeTypes, PcTypes, ThreadTypes, DeviceTypes, PreparePc, ClientPc, ControlPc,
      TelemetryPc, MainPc, DevicePart, DeviceSteps
<1>1. ASSUME NEW c \in Clients, NEW o \in {"ready", "stop", "estop"}, Call(c, o)
      PROVE  ~EnableMotion /\ device' # device => external' # external
  BY <1>1 DEF Call, Inhibit, Goto, bridge, locks, locals, device
<1>2. ASSUME NEW c \in Clients, TakeAction(c)
      PROVE  ~EnableMotion /\ device' # device => external' # external
  BY <1>2 DEF TakeAction, Goto, bridge, locks, locals, device
<1>3. ASSUME NEW c \in Clients, StopMove(c)
      PROVE  ~EnableMotion /\ device' # device => external' # external
  BY <1>3 DEF StopMove, Outcomes, Charge, Drive, Applied, Goto, Return, bridge, locks,
  locals, device
<1>4. ASSUME NEW c \in Clients, EngageBrake(c)
      PROVE  ~EnableMotion /\ device' # device => external' # external
  BY <1>4 DEF EngageBrake, Outcomes, Charge, Applied, Branch, Goto, bridge, locks,
  locals, device
<1>5. ASSUME NEW c \in Clients, VerifyBrake(c)
      PROVE  ~EnableMotion /\ device' # device => external' # external
  BY <1>5 DEF VerifyBrake, QueryOutcomes, Outcomes, Charge, Branch, Goto, bridge,
  locks, locals, device
<1>6. ASSUME NEW c \in Clients, LatchBrake(c)
      PROVE  ~EnableMotion /\ device' # device => external' # external
  BY <1>6 DEF LatchBrake, Return, Goto, bridge, locks, locals, device
<1>7. ASSUME NEW p \in Preparers, TakeIo(p)
      PROVE  ~EnableMotion /\ device' # device => external' # external
  BY <1>7 DEF TakeIo, FirstStep, Return, Goto, bridge, locks, locals, device
<1>8. ASSUME NEW p \in Preparers, ChangeMode(p)
      PROVE  ~EnableMotion /\ device' # device => external' # external
  BY <1>8 DEF ChangeMode, Outcomes, Charge, Applied, Branch, Goto, bridge, locks,
  locals, device
<1>9. ASSUME NEW p \in Preparers, QueryState(p)
      PROVE  ~EnableMotion /\ device' # device => external' # external
  BY <1>9 DEF QueryState, QueryOutcomes, Outcomes, Charge, Branch, Goto, bridge, locks,
  locals, device
<1>10. ASSUME NEW p \in Preparers, QueryBrake(p)
      PROVE  ~EnableMotion /\ device' # device => external' # external
  BY <1>10 DEF QueryBrake, QueryOutcomes, Outcomes, Charge, Branch, Goto, Explicit,
  AfterBrake, bridge, locks, locals, device
<1>11. ASSUME NEW p \in Preparers, CheckRelease(p)
      PROVE  ~EnableMotion /\ device' # device => external' # external
  BY <1>11 DEF CheckRelease, Branch, Goto, bridge, locks, locals, device
<1>12. ASSUME NEW p \in Preparers, ReleaseBrake(p)
      PROVE  ~EnableMotion /\ device' # device => external' # external
  BY <1>12 DEF ReleaseBrake, Outcomes, Charge, Applied, Branch, Goto, bridge, locks,
  locals, device
<1>13. ASSUME NEW p \in Preparers, ConfirmRelease(p)
      PROVE  ~EnableMotion /\ device' # device => external' # external
  BY <1>13 DEF ConfirmRelease, QueryOutcomes, Outcomes, Charge, Branch, Goto, bridge,
  locks, locals, device
<1>14. ASSUME NEW p \in Preparers, ZeroMove(p)
      PROVE  ~EnableMotion /\ device' # device => external' # external
  BY <1>14 DEF ZeroMove, Outcomes, Charge, Drive, Applied, Branch, Goto, bridge, locks,
  locals, device
<1>15. ASSUME NEW p \in Preparers, Commit(p)
      PROVE  ~EnableMotion /\ device' # device => external' # external
  BY <1>15 DEF Commit, Explicit, Return, Goto, bridge, locks, locals, device
<1>16. ASSUME NEW p \in Preparers \cup {Control}, Fail(p)
      PROVE  ~EnableMotion /\ device' # device => external' # external
  BY <1>16 DEF Fail, LinkFailed, Return, Goto, bridge, locks, locals, device
<1>17. CASE ControlTake
  BY <1>17 DEF ControlTake, Permitted, Started, Charge, Goto, bridge, locks, locals,
  device
<1>18. CASE ControlExpire
  BY <1>18 DEF ControlExpire, Outcomes, Charge, Drive, Applied, Goto, bridge, locks,
  locals, device
<1>19. CASE ControlSend
  BY <1>19 DEF ControlSend, Outcomes, Charge, Drive, Applied, Answered,
  TransportFailure, Goto, bridge, locks, locals, device
<1>20. CASE ControlAck
  BY <1>20 DEF ControlAck, Acknowledged, NotAcknowledged, Return, Goto, bridge, locks,
  locals, device
<1>21. CASE TelemetryWake
  BY <1>21 DEF TelemetryWake, Goto, bridge, locks, locals, device
<1>22. CASE StartPoll
  BY <1>22 DEF StartPoll, LoadTicket, Goto, bridge, locks, locals, device
<1>23. CASE StartBattery
  BY <1>23 DEF StartBattery, LoadTicket, Goto, bridge, locks, locals, device
<1>24. CASE StartReconnect
  BY <1>24 DEF StartReconnect, LoadTicket, Goto, bridge, locks, locals, device
<1>25. CASE PostponeReconnect
  BY <1>25 DEF PostponeReconnect, Goto, bridge, locks, locals, device
<1>26. CASE PollState
  BY <1>26 DEF PollState, QueryOutcomes, Outcomes, Charge, Answered, TransportFailure,
  Goto, bridge, locks, locals, device
<1>27. CASE PollBrake
  BY <1>27 DEF PollBrake, QueryOutcomes, Outcomes, Charge, Answered, TransportFailure,
  Goto, bridge, locks, locals, device
<1>28. CASE PollDone
  BY <1>28 DEF PollDone, PollConfirmed, PollFailed, Return, Goto, bridge, locks,
  locals, device
<1>29. CASE BatteryReply
  BY <1>29 DEF BatteryReply, Return, Goto, bridge, locks, locals, device
<1>30. CASE Move
  BY <1>30 DEF Move, Permitted, bridge, locks, locals, device
<1>31. CASE CommandExpires
  BY <1>31 DEF CommandExpires, bridge, locks, locals, device
<1>32. CASE BeginShutdown
  BY <1>32 DEF BeginShutdown, Goto, bridge, locks, locals, device
<1>33. CASE StopRunning
  BY <1>33 DEF StopRunning, Goto, bridge, locks, locals, device
<1>34. CASE ShutdownInhibit
  BY <1>34 DEF ShutdownInhibit, Inhibit, Goto, bridge, locks, locals, device
<1>35. CASE JoinThreads
  BY <1>35 DEF JoinThreads, Goto, bridge, locks, locals, device
<1>36. CASE LastZero
  BY <1>36 DEF LastZero, Outcomes, Charge, Drive, Applied, Goto, bridge, locks, locals,
  device
<1>37. CASE ExternalChange
  BY <1>37 DEF ExternalChange, bridge, locks, locals, device
<1>38. CASE UNCHANGED vars
  BY <1>38 DEF vars, bridge, locks, locals, device
<1> HIDE DEF Discipline, IoExclusive, ServiceSteps, TicketOrder, LatestUndecided,
      Latest, InsideIo, Stops, StopPc, ReleasePc, TypeOK, BridgeTypes, PcTypes,
      ThreadTypes, DeviceTypes, PreparePc, ClientPc, ControlPc, TelemetryPc, MainPc,
      DevicePart, DeviceSteps
<1>39. QED
  BY <1>1, <1>2, <1>3, <1>4, <1>5, <1>6, <1>7, <1>8, <1>9, <1>10, <1>11, <1>12, <1>13,
  <1>14, <1>15, <1>16, <1>17, <1>18, <1>19, <1>20, <1>21, <1>22, <1>23, <1>24, <1>25,
  <1>26, <1>27, <1>28, <1>29, <1>30, <1>31, <1>32, <1>33, <1>34, <1>35, <1>36, <1>37,
  <1>38 DEF Next, ClientStep, ControlStep, TelemetryStep, MainStep, Prepare, Finished

-----------------------------------------------------------------------------
(* The invariant holds in the initial states. *)
LEMMA InvInit ==
  ASSUME Init
  PROVE  TankInv
<1> USE ClientsAssumption, OptionsAssumption DEF Init
<1>1. TypeOK
  BY TypeInit
<1>2. Discipline
  <2>1. IoExclusive
    BY DEF IoExclusive, InsideIo, StopPc, ReleasePc, PreparePc
  <2>2. ServiceSteps
    BY DEF ServiceSteps, StopPc, ReleasePc, PreparePc
  <2>3. TicketOrder
    BY DEF TicketOrder
  <2>4. LatestUndecided
    BY DEF LatestUndecided
  <2>5. QED BY <2>1, <2>2, <2>3, <2>4 DEF Discipline
<1>3. PermitPart
  BY DEF PermitPart, PermitSound, VelocityFresh, PermitSteps, FailureBudgetHonoured,
     ReportMatchesPermit, BatteryOnlyWhileConnected, StopWithdrawsControl, Latest,
     StopPc
<1>4. DevicePart
  BY DEF DevicePart, DeviceSteps, ConfirmedStopIsFinal, ConfirmedBrakeHolds,
     ShutdownLeavesStill, Latest
<1>5. QED BY <1>1, <1>2, <1>3, <1>4 DEF TankInv

(* TankInv is an invariant: whatever the number of clients and however      *)
(* services, control loop, telemetry, failures and shutdown interleave.    *)
THEOREM InvariantHolds == Spec => []TankInv
<1>1. Init => TankInv
  BY InvInit
<1>2. TankInv /\ [Next]_vars => TankInv'
  BY TypeKept, DisciplineKept, PermitKept, DeviceKept DEF TankInv
<1>3. QED BY <1>1, <1>2, PTL DEF Spec

(* Every variable keeps its type and every thread stays within its steps.  *)
THEOREM TypeCorrect == Spec => []TypeOK
<1>1. TankInv => TypeOK
  BY DEF TankInv
<1>2. QED BY <1>1, InvariantHolds, PTL

(* Permission to send velocities (control_owned) always has its reasons: a *)
(* link, a wish nobody withdrew, no emergency stop and no brake.           *)
THEOREM PermitIsSound == Spec => []PermitSound
<1>1. TankInv => PermitSound
  BY DEF TankInv, PermitPart
<1>2. QED BY <1>1, InvariantHolds, PTL

(* No velocity accepted before a ready, stop or reconnection is sent after *)
(* it: move()'s cache and the control loop's copy belong to the epoch.     *)
THEOREM VelocityIsFresh == Spec => []VelocityFresh
<1>1. TankInv => VelocityFresh
  BY DEF TankInv, PermitPart
<1>2. QED BY <1>1, InvariantHolds, PTL

(* After a stopping service only a later ready can bring control back,     *)
(* however many ready, reconnection or poll steps it overtook.             *)
THEOREM StopIsObeyed == Spec => []StopWithdrawsControl
<1>1. TankInv => StopWithdrawsControl
  BY DEF TankInv, PermitPart
<1>2. QED BY <1>1, InvariantHolds, PTL

(* A stop that reported success left the robot at rest with no control     *)
(* iteration in flight, until another service is called.                   *)
THEOREM StopIsFinal == Spec => []ConfirmedStopIsFinal
<1>1. TankInv => ConfirmedStopIsFinal
  BY DEF TankInv, DevicePart
<1>2. QED BY <1>1, InvariantHolds, PTL

(* A confirmed soft_estop keeps the device's brake engaged until a later   *)
(* service asks otherwise (if nobody else touches the device).             *)
THEOREM BrakeHolds == Spec => []ConfirmedBrakeHolds
<1>1. TankInv => ConfirmedBrakeHolds
  BY DEF TankInv, DevicePart
<1>2. QED BY <1>1, InvariantHolds, PTL

(* Under permission fewer moves in a row have failed than                  *)
(* move_failure_limit.                                                     *)
THEOREM BudgetHonoured == Spec => []FailureBudgetHonoured
<1>1. TankInv => FailureBudgetHonoured
  BY DEF TankInv, PermitPart
<1>2. QED BY <1>1, InvariantHolds, PTL

(* A late answer never makes the bridge report STANDING or MOVING without  *)
(* permission.                                                             *)
THEOREM ReportsMatch == Spec => []ReportMatchesPermit
<1>1. TankInv => ReportMatchesPermit
  BY DEF TankInv, PermitPart
<1>2. QED BY <1>1, InvariantHolds, PTL

(* A battery level is reported only while the link is up.                  *)
THEOREM BatteryFollowsLink == Spec => []BatteryOnlyWhileConnected
<1>1. TankInv => BatteryOnlyWhileConnected
  BY DEF TankInv, PermitPart
<1>2. QED BY <1>1, InvariantHolds, PTL

(* After an acknowledged disconnect() the robot stands still for good.     *)
THEOREM ShutdownStops == Spec => []ShutdownLeavesStill
<1>1. TankInv => ShutdownLeavesStill
  BY DEF TankInv, DevicePart
<1>2. QED BY <1>1, InvariantHolds, PTL

(* With enable_motion_output off no step of the bridge changes the device.  *)
THEOREM ReadOnlyLeavesDevice == Spec => ReadOnlyNeverControls
<1>1. TankInv /\ [Next]_vars =>
         [~EnableMotion /\ device' # device => external' # external]_vars
  BY DeviceLeftAlone DEF TankInv
<1>2. QED BY <1>1, InvariantHolds, PTL DEF Spec, ReadOnlyNeverControls
=============================================================================
