--------------------------- MODULE X30ChargeProofs ---------------------------
(***************************************************************************)
(* What holds of the charge service of the X30 for every number of calls,  *)
(* lost datagrams and late answers.  That exchanges do not overlap is not  *)
(* inductive: it rests on what each thread that holds the service mutex    *)
(* knows at each of its steps about the datagrams under way.               *)
(***************************************************************************)
EXTENDS X30Charge, TLAPS

(* Where each thread knows that nothing is under way: before it sends a    *)
(* request, and once the answer to it has been stored.                     *)
NothingInFlight ==
    \/ serviceMutex = "none"
    \/ pc \in {"reading", "rereading", "manual"}
    \/ pc \in {"loop", "checking", "asleep"} /\ news
    \/ querying = "locked"
    \/ querying = "waiting" /\ queryNews

AnswersAreOwn == running => InFlight <= late + (IF NothingInFlight THEN 0 ELSE 1)

(* The inductive invariant behind ExchangesDoNotOverlap. *)
X30Inv == TypeOK /\ (running <=> signal = "none") /\ AnswersAreOwn

Exchange(c) == command = c /\ pc \in {"loop", "checking", "asleep"}

(* A START has been sent, and no answer stored since. *)
Asking == Exchange("start") /\ ~news

Quiet == manager \notin {"task", "charging"}

Absent(s, x) == \A i \in DOMAIN s : s[i] # x

(* At most one answer is late.  Outside the exchange of a START, a START   *)
(* request still under way is the next datagram of all to be handled: no   *)
(* answer is before it that a later STOP could take for its own.           *)
StartLeads ==
    late <= 1 /\ running /\ ~Asking =>
        \A i \in DOMAIN requests :
            requests[i] = "start" => i = 1 /\ responses = <<>> /\ receiver # "received"

(* While the robot charges, only the exchange of a START may still be      *)
(* given an IDLE, and the next answer it stores is that IDLE.              *)
IdleLeads ==
    late <= 1 /\ running /\ ~Quiet =>
        /\ \A i \in DOMAIN responses :
              responses[i] = "idle" => i = 1 /\ receiver # "received" /\ Asking
        /\ receiver = "received" /\ received = "idle" => Asking

(* The answer that confirms a STOP has been stored.  After a signal it is  *)
(* used only where the executor thread has passed its test of running_.    *)
Answered ==
    /\ command = "stop"
    /\ \/ pc = "manual"
       \/ /\ news /\ latest = "idle"
          /\ pc = "checking" \/ (running /\ pc \in {"loop", "asleep"})

StopKept ==
    late <= 1 => /\ stopped => Quiet
                 /\ Answered => Quiet /\ Absent(requests, "start")

(* The inductive invariant behind StopHolds. *)
StopInv ==
    /\ X30Inv /\ (pc = "manual" => command = "stop")
    /\ StartLeads /\ IdleLeads /\ StopKept

(* Every step keeps the flags Boolean. *)
LEMMA FlagStep ==
    ASSUME FlagTypes, [Next]_vars
    PROVE  FlagTypes'
<1>1. ASSUME NEW c \in Commands, Call(c) PROVE FlagTypes'
  BY <1>1 DEF FlagTypes, Call, stored, robot, history
<1>2. CASE Prepare
  BY <1>2 DEF FlagTypes, Prepare, Return, stored, robot, history
<1>3. CASE EnterService
  BY <1>3 DEF FlagTypes, EnterService, stored, robot, history
<1>4. CASE SendCommand
  BY <1>4 DEF FlagTypes, SendCommand, Send, Return, robot, history
<1>5. CASE Requery
  BY <1>5 DEF FlagTypes, Requery, Send, Return, robot, history
<1>6. CASE Check
  BY <1>6 DEF FlagTypes, Check, Return, stored, robot, history
<1>7. CASE Sleep
  BY <1>7 DEF FlagTypes, Sleep, stored, robot, history
<1>8. CASE Confirmed
  BY <1>8 DEF FlagTypes, Confirmed, Return, stored, robot, history
<1>9. CASE Refused
  BY <1>9 DEF FlagTypes, Refused, Return, stored, robot
<1>10. CASE NotYet
  BY <1>10 DEF FlagTypes, NotYet, stored, robot, history
<1>11. CASE Manual
  BY <1>11 DEF FlagTypes, Manual, Return, stored, history
<1>12. CASE Exit
  BY <1>12 DEF FlagTypes, Exit, stored, robot, history
<1>13. CASE Receive
  BY <1>13 DEF FlagTypes, Receive, service, stored, robot, history
<1>14. CASE Store
  BY <1>14 DEF FlagTypes, Store, robot, history
<1>15. CASE ReceiverExit
  BY <1>15 DEF FlagTypes, ReceiverExit, service, stored, robot, history
<1>16. CASE QueryBegin
  BY <1>16 DEF FlagTypes, QueryBegin, stored, robot, history
<1>17. CASE QuerySend
  BY <1>17 DEF FlagTypes, QuerySend, service, robot, history
<1>18. CASE QueryEnd
  BY <1>18 DEF FlagTypes, QueryEnd, stored, robot, history
<1>19. CASE QueryExit
  BY <1>19 DEF FlagTypes, QueryExit, service, stored, robot, history
<1>20. CASE Interrupt
  <2>1. Holding \in BOOLEAN
    BY DEF Holding
  <2>2. QED
    BY <1>20, <2>1 DEF FlagTypes, Interrupt, stored, robot
<1>21. CASE Join
  BY <1>21 DEF FlagTypes, Join, service, stored, robot, history
<1>22. CASE Handle
  BY <1>22 DEF FlagTypes, Handle, service, stored
<1>23. CASE Proceed
  BY <1>23 DEF FlagTypes, Proceed, service, stored, history
<1>24. CASE ReportMode
  BY <1>24 DEF FlagTypes, ReportMode, service, stored, history
<1>25. CASE Lose
  BY <1>25 DEF FlagTypes, Lose, service, stored, robot, history
<1>26. CASE UNCHANGED vars
  BY <1>26 DEF FlagTypes, vars, service, stored, robot, history
<1>27. QED
  BY <1>1, <1>2, <1>3, <1>4, <1>5, <1>6, <1>7, <1>8, <1>9, <1>10, <1>11,
     <1>12, <1>13, <1>14, <1>15, <1>16, <1>17, <1>18, <1>19, <1>20, <1>21,
     <1>22, <1>23, <1>24, <1>25, <1>26 DEF Next, Main, Serve, Receiver,
     Querier, Handler, Environment

(* Every step keeps each thread at one of its steps, and the service mutex *)
(* with the thread that is inside its scope.                               *)
LEMMA ThreadStep ==
    ASSUME StepTypes, running <=> signal = "none", [Next]_vars
    PROVE  StepTypes'
<1>1. ASSUME NEW c \in Commands, Call(c) PROVE StepTypes'
  BY <1>1 DEF StepTypes, Owning, Call, Go, threads
<1>2. CASE Prepare
  BY <1>2 DEF StepTypes, Owning, Prepare, Return, Go, threads
<1>3. CASE EnterService
  BY <1>3 DEF StepTypes, Owning, EnterService, Go, threads
<1>4. CASE SendCommand
  BY <1>4 DEF StepTypes, Owning, SendCommand, Send, Return, Go, threads
<1>5. CASE Requery
  BY <1>5 DEF StepTypes, Owning, Requery, Send, Return, Go, threads
<1>6. CASE Check
  BY <1>6 DEF StepTypes, Owning, Check, Return, Go, threads
<1>7. CASE Sleep
  BY <1>7 DEF StepTypes, Owning, Sleep, Go, threads
<1>8. CASE Confirmed
  BY <1>8 DEF StepTypes, Owning, Confirmed, Return, Go, threads
<1>9. CASE Refused
  BY <1>9 DEF StepTypes, Owning, Refused, Return, Go, threads
<1>10. CASE NotYet
  BY <1>10 DEF StepTypes, Owning, NotYet, Go, threads
<1>11. CASE Manual
  BY <1>11 DEF StepTypes, Owning, Manual, Return, Go, threads
<1>12. CASE Exit
  BY <1>12 DEF StepTypes, Owning, Exit, Go, threads
<1>13. CASE Receive
  BY <1>13 DEF StepTypes, Receive, service
<1>14. CASE Store
  BY <1>14 DEF StepTypes, Owning, Store, Wake
<1>15. CASE ReceiverExit
  BY <1>15 DEF StepTypes, ReceiverExit, service
<1>16. CASE QueryBegin
  BY <1>16 DEF StepTypes, QueryBegin
<1>17. CASE QuerySend
  BY <1>17 DEF StepTypes, QuerySend, service
<1>18. CASE QueryEnd
  BY <1>18 DEF StepTypes, QueryEnd
<1>19. CASE QueryExit
  BY <1>19 DEF StepTypes, QueryExit, service
<1>20. CASE Interrupt
  BY <1>20 DEF StepTypes, Owning, Interrupt, Wake, threads
<1>21. CASE Join
  BY <1>21 DEF StepTypes, Join, service, threads
<1>22. CASE Handle
  BY <1>22 DEF StepTypes, Handle, service, threads
<1>23. CASE Proceed
  BY <1>23 DEF StepTypes, Proceed, service, threads
<1>24. CASE ReportMode
  BY <1>24 DEF StepTypes, ReportMode, service, threads
<1>25. CASE Lose
  BY <1>25 DEF StepTypes, Lose, service, threads
<1>26. CASE UNCHANGED vars
  BY <1>26 DEF StepTypes, vars, service, threads
<1>27. QED
  BY <1>1, <1>2, <1>3, <1>4, <1>5, <1>6, <1>7, <1>8, <1>9, <1>10, <1>11,
     <1>12, <1>13, <1>14, <1>15, <1>16, <1>17, <1>18, <1>19, <1>20, <1>21,
     <1>22, <1>23, <1>24, <1>25, <1>26 DEF Next, Main, Serve, Receiver,
     Querier, Handler, Environment

(* Every step keeps the type of the stored states, the datagrams and the   *)
(* counters.                                                               *)
LEMMA DataStep ==
    ASSUME TypeOK, [Next]_vars
    PROVE  DataTypes'
<1>1. ASSUME NEW c \in Commands, Call(c) PROVE DataTypes'
  BY <1>1, BoundsAssumption DEF TypeOK, DataTypes, Call, threads, stored,
     network, robot
<1>2. CASE Prepare
  BY <1>2, BoundsAssumption DEF TypeOK, DataTypes, Prepare, threads, stored,
     network, robot, bounds
<1>3. CASE EnterService
  BY <1>3, BoundsAssumption DEF TypeOK, DataTypes, EnterService, threads,
     stored, network, robot, bounds
<1>4. CASE SendCommand
  <2>1. Append(requests, command) \in Seq(Commands)
    BY DEF TypeOK, StepTypes, DataTypes
  <2>2. requests' \in Seq(Commands)
    BY <1>4, <2>1 DEF TypeOK, DataTypes, SendCommand, Send, network
  <2>3. UNCHANGED <<responses, latest, received, manager, calls, losses, late>>
    BY <1>4 DEF SendCommand, Send, network, threads, robot, bounds
  <2>4. QED
    BY <2>2, <2>3 DEF TypeOK, DataTypes
<1>5. CASE Requery
  BY <1>5, BoundsAssumption DEF TypeOK, DataTypes, Commands, Requery, Send,
     Return, threads, network, robot, bounds
<1>6. CASE Check
  BY <1>6, BoundsAssumption DEF TypeOK, DataTypes, Check, threads, stored,
     network, robot, bounds
<1>7. CASE Sleep
  BY <1>7, BoundsAssumption DEF TypeOK, DataTypes, Sleep, threads, stored,
     network, robot, bounds
<1>8. CASE Confirmed
  BY <1>8, BoundsAssumption DEF TypeOK, DataTypes, Confirmed, threads, stored,
     network, robot, bounds
<1>9. CASE Refused
  BY <1>9, BoundsAssumption DEF TypeOK, DataTypes, Refused, threads, stored,
     network, robot, bounds
<1>10. CASE NotYet
  BY <1>10, BoundsAssumption DEF TypeOK, DataTypes, NotYet, threads, stored,
     network, robot, bounds
<1>11. CASE Manual
  BY <1>11, BoundsAssumption DEF TypeOK, DataTypes, Manual, threads, stored,
     network, bounds
<1>12. CASE Exit
  BY <1>12, BoundsAssumption DEF TypeOK, DataTypes, Exit, threads, stored,
     network, robot, bounds
<1>13. CASE Receive
  BY <1>13, BoundsAssumption DEF TypeOK, DataTypes, Receive, stored, robot,
     bounds
<1>14. CASE Store
  BY <1>14, BoundsAssumption DEF TypeOK, DataTypes, Store, network, robot,
     bounds
<1>15. CASE ReceiverExit
  BY <1>15, BoundsAssumption DEF TypeOK, DataTypes, ReceiverExit, stored,
     network, robot, bounds
<1>16. CASE QueryBegin
  BY <1>16, BoundsAssumption DEF TypeOK, DataTypes, QueryBegin, stored,
     network, robot, bounds
<1>17. CASE QuerySend
  BY <1>17, BoundsAssumption DEF TypeOK, DataTypes, Commands, QuerySend,
     robot, bounds
<1>18. CASE QueryEnd
  BY <1>18, BoundsAssumption DEF TypeOK, DataTypes, QueryEnd, stored, network,
     robot
<1>19. CASE QueryExit
  BY <1>19, BoundsAssumption DEF TypeOK, DataTypes, QueryExit, stored,
     network, robot, bounds
<1>20. CASE Interrupt
  BY <1>20, BoundsAssumption DEF TypeOK, DataTypes, Interrupt, threads,
     stored, network, robot, bounds
<1>21. CASE Join
  BY <1>21, BoundsAssumption DEF TypeOK, DataTypes, Join, threads, stored,
     network, robot, bounds
<1>22. CASE Handle
  BY <1>22, BoundsAssumption DEF TypeOK, DataTypes, Handle, After, threads,
     stored, bounds
<1>23. CASE Proceed
  BY <1>23, BoundsAssumption DEF TypeOK, DataTypes, Proceed, threads, stored,
     network, bounds
<1>24. CASE ReportMode
  BY <1>24, BoundsAssumption DEF TypeOK, DataTypes, ReportMode, threads,
     stored, network, bounds
<1>25. CASE Lose
  <2>1. losses' \in 0..MaxLosses
    BY <1>25, BoundsAssumption DEF TypeOK, DataTypes, Lose
  <2>2. requests' \in Seq(Commands) /\ responses' \in Seq(States)
    <3>1. CASE requests # <<>> /\ requests' = Tail(requests) /\ UNCHANGED responses
      BY <3>1 DEF TypeOK, DataTypes
    <3>2. CASE responses # <<>> /\ responses' = Tail(responses) /\ UNCHANGED requests
      BY <3>2 DEF TypeOK, DataTypes
    <3>3. QED
      BY <1>25, <3>1, <3>2 DEF Lose
  <2>3. QED
    BY <1>25, <2>1, <2>2 DEF TypeOK, DataTypes, Lose, threads, stored, robot
<1>26. CASE UNCHANGED vars
  BY <1>26, BoundsAssumption DEF TypeOK, DataTypes, vars, threads, stored,
     network, robot, bounds
<1>27. QED
  BY <1>1, <1>2, <1>3, <1>4, <1>5, <1>6, <1>7, <1>8, <1>9, <1>10, <1>11,
     <1>12, <1>13, <1>14, <1>15, <1>16, <1>17, <1>18, <1>19, <1>20, <1>21,
     <1>22, <1>23, <1>24, <1>25, <1>26 DEF Next, Main, Serve, Receiver,
     Querier, Handler, Environment

(* Every step keeps the answers under way to those that are late and, but  *)
(* where a thread is about to send, the one the thread waits for.          *)
LEMMA AnswersStep ==
    ASSUME X30Inv, [Next]_vars
    PROVE  AnswersAreOwn'
<1>1. ASSUME NEW c \in Commands, Call(c) PROVE AnswersAreOwn'
  BY <1>1 DEF X30Inv, AnswersAreOwn, NothingInFlight, InFlight, Call, Go,
     threads, stored, network
<1>2. CASE Prepare
  BY <1>2 DEF X30Inv, TypeOK, StepTypes, Owning, AnswersAreOwn,
     NothingInFlight, InFlight, Prepare, Return, Go, threads, stored, network,
     bounds
<1>3. CASE EnterService
  BY <1>3 DEF X30Inv, TypeOK, DataTypes, AnswersAreOwn, NothingInFlight,
     InFlight, EnterService, threads, network, bounds
<1>4. CASE SendCommand
  BY <1>4 DEF X30Inv, TypeOK, StepTypes, DataTypes, Owning, AnswersAreOwn,
     NothingInFlight, InFlight, SendCommand, Send, Return, Go, threads,
     network, bounds
<1>5. CASE Requery
  BY <1>5 DEF X30Inv, TypeOK, StepTypes, DataTypes, Owning, AnswersAreOwn,
     NothingInFlight, InFlight, Requery, Send, Return, Go, threads, network,
     bounds
<1>6. CASE Check
  BY <1>6 DEF X30Inv, AnswersAreOwn, NothingInFlight, InFlight, Check, Go,
     threads, stored, network, bounds
<1>7. CASE Sleep
  BY <1>7 DEF X30Inv, AnswersAreOwn, NothingInFlight, InFlight, Sleep, Go,
     threads, stored, network, bounds
<1>8. CASE Confirmed
  BY <1>8 DEF X30Inv, TypeOK, DataTypes, AnswersAreOwn, NothingInFlight,
     InFlight, Confirmed, threads, network, bounds
<1>9. CASE Refused
  BY <1>9 DEF X30Inv, TypeOK, DataTypes, AnswersAreOwn, NothingInFlight,
     InFlight, Refused, threads, network, bounds
<1>10. CASE NotYet
  BY <1>10 DEF X30Inv, TypeOK, DataTypes, AnswersAreOwn, NothingInFlight,
     InFlight, NotYet, threads, network, bounds
<1>11. CASE Manual
  BY <1>11 DEF X30Inv, TypeOK, DataTypes, AnswersAreOwn, NothingInFlight,
     InFlight, Manual, threads, network, bounds
<1>12. CASE Exit
  BY <1>12 DEF X30Inv, AnswersAreOwn, Exit, Closed
<1>13. CASE Receive
  BY <1>13 DEF X30Inv, AnswersAreOwn, NothingInFlight, InFlight, Receive,
     service, stored, bounds
<1>14. CASE Store
  BY <1>14 DEF X30Inv, TypeOK, DataTypes, AnswersAreOwn, InFlight, Store,
     network, bounds
<1>15. CASE ReceiverExit
  BY <1>15 DEF AnswersAreOwn, ReceiverExit
<1>16. CASE QueryBegin
  BY <1>16 DEF X30Inv, AnswersAreOwn, NothingInFlight, InFlight, QueryBegin,
     network, bounds
<1>17. CASE QuerySend
  BY <1>17 DEF X30Inv, TypeOK, StepTypes, DataTypes, Owning, AnswersAreOwn,
     NothingInFlight, InFlight, QuerySend, service, bounds
<1>18. CASE QueryEnd
  BY <1>18 DEF X30Inv, TypeOK, DataTypes, AnswersAreOwn, NothingInFlight,
     InFlight, QueryEnd, network
<1>19. CASE QueryExit
  BY <1>19 DEF AnswersAreOwn, QueryExit
<1>20. CASE Interrupt
  BY <1>20 DEF AnswersAreOwn, Interrupt
<1>21. CASE Join
  BY <1>21 DEF X30Inv, AnswersAreOwn, Join
<1>22. CASE Handle
  BY <1>22 DEF X30Inv, AnswersAreOwn, NothingInFlight, InFlight, Handle,
     service, threads, stored, bounds
<1>23. CASE Proceed
  BY <1>23 DEF X30Inv, AnswersAreOwn, NothingInFlight, InFlight, Proceed,
     service, threads, stored, network, bounds
<1>24. CASE ReportMode
  BY <1>24 DEF X30Inv, AnswersAreOwn, NothingInFlight, InFlight, ReportMode,
     service, threads, stored, network, bounds
<1>25. CASE Lose
  BY <1>25 DEF X30Inv, TypeOK, DataTypes, AnswersAreOwn, InFlight, Lose,
     threads
<1>26. CASE UNCHANGED vars
  BY <1>26 DEF X30Inv, AnswersAreOwn, NothingInFlight, InFlight, vars,
     service, threads, stored, network, bounds
<1>27. QED
  BY <1>1, <1>2, <1>3, <1>4, <1>5, <1>6, <1>7, <1>8, <1>9, <1>10, <1>11,
     <1>12, <1>13, <1>14, <1>15, <1>16, <1>17, <1>18, <1>19, <1>20, <1>21,
     <1>22, <1>23, <1>24, <1>25, <1>26 DEF Next, Main, Serve, Receiver,
     Querier, Handler, Environment

(* Only the signal handler ends running_, and nothing sets it again. *)
LEMMA SignalStep ==
    ASSUME running <=> signal = "none", [Next]_vars
    PROVE  (running <=> signal = "none")'
  BY DEF Next, Main, Serve, Receiver, Querier, Handler, Environment, Call,
     Check, Confirmed, EnterService, Exit, Handle, Interrupt, Join, Lose, Manual,
     NotYet, Prepare, Proceed, QueryBegin, QueryEnd, QueryExit, QuerySend,
     Receive, ReceiverExit, Refused, ReportMode, Requery, Send, SendCommand,
     Sleep, Store, vars

(* Only a confirmed STOP goes on to manual mode. *)
LEMMA ManualStep ==
    ASSUME pc = "manual" => command = "stop", [Next]_vars
    PROVE  (pc = "manual" => command = "stop")'
<1>1. ASSUME NEW c \in Commands, Call(c) PROVE (pc = "manual" => command = "stop")'
  BY <1>1 DEF Call, Go
<1>2. CASE Prepare
  BY <1>2 DEF Prepare, Return, Go
<1>3. CASE EnterService
  BY <1>3 DEF EnterService, Go
<1>4. CASE SendCommand
  BY <1>4 DEF SendCommand, Send, Return, Go
<1>5. CASE Requery
  BY <1>5 DEF Requery, Send, Return, Go
<1>6. CASE Check
  BY <1>6 DEF Check, Return, Go
<1>7. CASE Sleep
  BY <1>7 DEF Sleep, Go
<1>8. CASE Confirmed
  BY <1>8 DEF Confirmed, Return, Go
<1>9. CASE Refused
  BY <1>9 DEF Refused, Return, Go
<1>10. CASE NotYet
  BY <1>10 DEF NotYet, Go
<1>11. CASE Manual
  BY <1>11 DEF Manual, Return
<1>12. CASE Exit
  BY <1>12 DEF Exit, Go
<1>13. CASE Receive
  BY <1>13 DEF Receive, service
<1>14. CASE Store
  BY <1>14 DEF Store, Wake
<1>15. CASE ReceiverExit
  BY <1>15 DEF ReceiverExit, service
<1>16. CASE QueryBegin
  BY <1>16 DEF QueryBegin
<1>17. CASE QuerySend
  BY <1>17 DEF QuerySend, service
<1>18. CASE QueryEnd
  BY <1>18 DEF QueryEnd
<1>19. CASE QueryExit
  BY <1>19 DEF QueryExit, service
<1>20. CASE Interrupt
  BY <1>20 DEF Interrupt, Wake
<1>21. CASE Join
  BY <1>21 DEF Join, service
<1>22. CASE Handle
  BY <1>22 DEF Handle, service
<1>23. CASE Proceed
  BY <1>23 DEF Proceed, service
<1>24. CASE ReportMode
  BY <1>24 DEF ReportMode, service
<1>25. CASE Lose
  BY <1>25 DEF Lose, service
<1>26. CASE UNCHANGED vars
  BY <1>26 DEF vars, service
<1>27. QED
  BY <1>1, <1>2, <1>3, <1>4, <1>5, <1>6, <1>7, <1>8, <1>9, <1>10, <1>11,
     <1>12, <1>13, <1>14, <1>15, <1>16, <1>17, <1>18, <1>19, <1>20, <1>21,
     <1>22, <1>23, <1>24, <1>25, <1>26 DEF Next, Main, Serve, Receiver,
     Querier, Handler, Environment

(* With at most one answer late, at most two exchanges are under way. *)
LEMMA AtMostTwo ==
    ASSUME X30Inv, late <= 1, running
    PROVE  InFlight <= 2 /\ (NothingInFlight => InFlight <= 1)
  BY DEF X30Inv, TypeOK, DataTypes, AnswersAreOwn, InFlight

(* What is left of a sequence once its head is taken, and after an Append. *)
LEMMA Left ==
    ASSUME NEW S, NEW s \in Seq(S), s # <<>>, NEW i \in DOMAIN Tail(s)
    PROVE  i \in Nat /\ i + 1 \in DOMAIN s /\ i + 1 # 1 /\ Tail(s)[i] = s[i + 1]
  OBVIOUS

LEMMA Added ==
    ASSUME NEW S, NEW s \in Seq(S), NEW x, NEW i \in DOMAIN Append(s, x)
    PROVE  \/ i \in DOMAIN s /\ Append(s, x)[i] = s[i]
           \/ i = Len(s) + 1 /\ Append(s, x)[i] = x
  OBVIOUS

(* Every step keeps a START request of an exchange that is over the next   *)
(* datagram to be handled.                                                 *)
LEMMA StartStep ==
    ASSUME StopInv, [Next]_vars
    PROVE  StartLeads'
<1>1. ASSUME NEW c \in Commands, Call(c) PROVE StartLeads'
  BY <1>1 DEF StopInv, StartLeads, Asking, Exchange, Call, threads, network
<1>2. CASE Prepare
  BY <1>2 DEF StopInv, StartLeads, Asking, Exchange, Prepare, threads,
     network, bounds
<1>3. CASE EnterService
  BY <1>3 DEF StopInv, StartLeads, Asking, Exchange, EnterService, threads,
     network, bounds
<1>4. CASE SendCommand
  BY <1>4 DEF StopInv, StartLeads, Asking, Exchange, SendCommand, Send,
     Return, Go, threads, network, bounds
<1>5. CASE Requery
  BY <1>5 DEF StopInv, StartLeads, Asking, Exchange, Requery, Send, Return,
     threads, network, bounds
<1>6. CASE Check
  BY <1>6 DEF StopInv, StartLeads, Asking, Exchange, Check, Go, threads,
     stored, network, bounds
<1>7. CASE Sleep
  BY <1>7 DEF StopInv, StartLeads, Asking, Exchange, Sleep, Go, threads,
     stored, network, bounds
<1>8. CASE Confirmed
  BY <1>8 DEF StopInv, StartLeads, Asking, Confirmed, threads, network, bounds
<1>9. CASE Refused
  BY <1>9 DEF StopInv, StartLeads, Asking, Refused, threads, network, bounds
<1>10. CASE NotYet
  BY <1>10 DEF StopInv, StartLeads, Asking, NotYet, threads, network, bounds
<1>11. CASE Manual
  BY <1>11 DEF StopInv, StartLeads, Asking, Exchange, Manual, threads,
     network, bounds
<1>12. CASE Exit
  BY <1>12 DEF StopInv, StartLeads, Asking, Exchange, Exit, threads, network,
     bounds
<1>13. CASE Receive
  BY <1>13 DEF StopInv, StartLeads, Asking, Exchange, Receive, service,
     stored, bounds
<1>14. CASE Store
  <2>1. SUFFICES ASSUME late <= 1, running, NEW i \in DOMAIN requests,
                        requests[i] = "start"
                 PROVE  i = 1 /\ responses = <<>>
    BY <1>14 DEF Store, network, bounds, StartLeads
  <2>2. Asking
    BY <1>14, <2>1 DEF Store, StopInv, StartLeads
  <2>3. Len(requests) + Len(responses) <= 1
    BY <1>14, <2>1, AtMostTwo DEF Store, StopInv, InFlight
  <2>4. QED
    BY <2>1, <2>3
<1>15. CASE ReceiverExit
  BY <1>15 DEF StartLeads, ReceiverExit
<1>16. CASE QueryBegin
  BY <1>16 DEF StopInv, StartLeads, Asking, Exchange, QueryBegin, stored,
     network, bounds
<1>17. CASE QuerySend
  BY <1>17 DEF StopInv, StartLeads, Asking, Exchange, QuerySend, service,
     bounds
<1>18. CASE QueryEnd
  BY <1>18 DEF StopInv, X30Inv, TypeOK, DataTypes, StartLeads, Asking,
     Exchange, QueryEnd, stored, network
<1>19. CASE QueryExit
  BY <1>19 DEF StartLeads, QueryExit
<1>20. CASE Interrupt
  BY <1>20 DEF StartLeads, Interrupt
<1>21. CASE Join
  BY <1>21 DEF StopInv, StartLeads, Asking, Exchange, Join, service, threads,
     stored, network, bounds
<1>22. CASE Handle
  <2>1. SUFFICES ASSUME late <= 1, running, ~Asking, NEW i \in DOMAIN requests',
                        requests'[i] = "start"
                 PROVE  FALSE
    BY <1>22 DEF Handle, service, stored, bounds, StartLeads, Asking, Exchange
  <2>2. i + 1 \in DOMAIN requests /\ i + 1 # 1 /\ requests[i + 1] = "start"
    BY <1>22, <2>1, Left DEF Handle, StopInv, X30Inv
  <2>3. QED
    BY <2>1, <2>2 DEF StopInv, StartLeads
<1>23. CASE Proceed
  BY <1>23 DEF StopInv, StartLeads, Asking, Exchange, Proceed, service,
     threads, stored, network, bounds
<1>24. CASE ReportMode
  BY <1>24 DEF StopInv, StartLeads, Asking, Exchange, ReportMode, service,
     threads, stored, network, bounds
<1>25. CASE Lose
  <2>1. SUFFICES ASSUME late <= 1, running, ~Asking, NEW i \in DOMAIN requests',
                        requests'[i] = "start"
                 PROVE  i = 1 /\ responses' = <<>> /\ receiver # "received"
    BY <1>25 DEF Lose, service, threads, stored, StartLeads, Asking, Exchange
  <2>2. CASE requests # <<>> /\ requests' = Tail(requests)
    <3>1. i + 1 \in DOMAIN requests /\ i + 1 # 1 /\ requests[i + 1] = "start"
      BY <2>1, <2>2, Left
    <3>2. QED
      BY <2>1, <3>1 DEF StopInv, StartLeads
  <2>3. CASE responses # <<>> /\ UNCHANGED requests
    BY <2>1, <2>3 DEF StopInv, StartLeads
  <2>4. QED
    BY <1>25, <2>2, <2>3 DEF Lose
<1>26. CASE UNCHANGED vars
  BY <1>26 DEF StopInv, StartLeads, Asking, Exchange, vars, service, threads,
     stored, network, bounds
<1>27. QED
  BY <1>1, <1>2, <1>3, <1>4, <1>5, <1>6, <1>7, <1>8, <1>9, <1>10, <1>11,
     <1>12, <1>13, <1>14, <1>15, <1>16, <1>17, <1>18, <1>19, <1>20, <1>21,
     <1>22, <1>23, <1>24, <1>25, <1>26 DEF Next, Main, Serve, Receiver,
     Querier, Handler, Environment

(* Every step keeps an IDLE under way, while the robot charges, to the     *)
(* exchange of a START.                                                    *)
LEMMA IdleStep ==
    ASSUME StopInv, [Next]_vars
    PROVE  IdleLeads'
<1>1. ASSUME NEW c \in Commands, Call(c) PROVE IdleLeads'
  BY <1>1 DEF StopInv, IdleLeads, Asking, Exchange, Quiet, Call, threads,
     network, robot
<1>2. CASE Prepare
  BY <1>2 DEF StopInv, IdleLeads, Asking, Exchange, Quiet, Prepare, threads,
     network, robot, bounds
<1>3. CASE EnterService
  BY <1>3 DEF StopInv, IdleLeads, Asking, Exchange, Quiet, EnterService,
     threads, network, robot, bounds
<1>4. CASE SendCommand
  BY <1>4 DEF StopInv, IdleLeads, Asking, Exchange, Quiet, SendCommand, Send,
     threads, network, robot, bounds
<1>5. CASE Requery
  BY <1>5 DEF StopInv, IdleLeads, Asking, Exchange, Quiet, Requery, Send,
     threads, network, robot, bounds
<1>6. CASE Check
  BY <1>6 DEF StopInv, IdleLeads, Asking, Exchange, Quiet, Check, Go, threads,
     stored, network, robot, bounds
<1>7. CASE Sleep
  BY <1>7 DEF StopInv, IdleLeads, Asking, Exchange, Quiet, Sleep, Go, threads,
     stored, network, robot, bounds
<1>8. CASE Confirmed
  BY <1>8 DEF StopInv, IdleLeads, Asking, Quiet, Confirmed, threads, network,
     robot, bounds
<1>9. CASE Refused
  BY <1>9 DEF StopInv, IdleLeads, Asking, Quiet, Refused, threads, network,
     robot, bounds
<1>10. CASE NotYet
  BY <1>10 DEF StopInv, IdleLeads, Asking, Quiet, NotYet, threads, network,
     robot, bounds
<1>11. CASE Manual
  BY <1>11 DEF StopInv, IdleLeads, Asking, Exchange, Quiet, Manual, threads,
     network, bounds
<1>12. CASE Exit
  BY <1>12 DEF StopInv, IdleLeads, Asking, Exchange, Quiet, Exit, threads,
     network, robot, bounds
<1>13. CASE Receive
  BY <1>13 DEF StopInv, IdleLeads, Asking, Exchange, Quiet, Receive, service,
     stored, robot, bounds
<1>14. CASE Store
  BY <1>14 DEF StopInv, IdleLeads, Quiet, Store, network, robot, bounds
<1>15. CASE ReceiverExit
  BY <1>15 DEF IdleLeads, ReceiverExit
<1>16. CASE QueryBegin
  BY <1>16 DEF StopInv, IdleLeads, Asking, Exchange, Quiet, QueryBegin,
     stored, network, robot, bounds
<1>17. CASE QuerySend
  BY <1>17 DEF StopInv, IdleLeads, Asking, Exchange, Quiet, QuerySend,
     service, robot, bounds
<1>18. CASE QueryEnd
  BY <1>18 DEF StopInv, X30Inv, TypeOK, DataTypes, IdleLeads, Asking,
     Exchange, Quiet, QueryEnd, stored, network, robot
<1>19. CASE QueryExit
  BY <1>19 DEF IdleLeads, QueryExit
<1>20. CASE Interrupt
  BY <1>20 DEF IdleLeads, Interrupt
<1>21. CASE Join
  BY <1>21 DEF StopInv, IdleLeads, Asking, Exchange, Quiet, Join, service,
     threads, stored, network, robot, bounds
<1>22. CASE Handle
  <2>1. SUFFICES ASSUME late <= 1, running, manager' \in {"task", "charging"}
                 PROVE  /\ \A i \in DOMAIN responses' : responses'[i] = "idle" =>
                             i = 1 /\ receiver # "received" /\ Asking
                        /\ receiver = "received" /\ received = "idle" => Asking
    BY <1>22 DEF Handle, service, threads, stored, bounds, IdleLeads, Quiet,
       Asking, Exchange
  <2>2. ASSUME NEW i \in DOMAIN responses', responses'[i] = "idle"
        PROVE  i \in DOMAIN responses /\ responses[i] = "idle"
    BY <1>22, <2>1, <2>2, Added DEF Handle
  <2>3. CASE ~Quiet
    BY <2>1, <2>2, <2>3 DEF StopInv, IdleLeads
  <2>4. CASE Quiet
    <3>1. Head(requests) = "start"
      BY <1>22, <2>1, <2>4 DEF Handle, After, Obeys, Quiet
    <3>2. 1 \in DOMAIN requests /\ requests[1] = "start" /\ Len(requests) >= 1
      BY <1>22, <3>1 DEF Handle, StopInv, TypeOK, DataTypes
    <3>3. CASE Asking
      <4>1. Len(responses) + (IF receiver = "received" THEN 1 ELSE 0) <= 1
        BY <2>1, <3>2, AtMostTwo DEF StopInv, InFlight
      <4>2. QED
        BY <2>1, <2>2, <3>3, <4>1
    <3>4. CASE ~Asking
      <4>1. responses = <<>> /\ receiver # "received"
        BY <2>1, <3>2, <3>4 DEF StopInv, StartLeads
      <4>2. QED
        BY <2>1, <2>2, <4>1
    <3>5. QED
      BY <3>3, <3>4
  <2>5. QED
    BY <2>3, <2>4
<1>23. CASE Proceed
  BY <1>23 DEF StopInv, IdleLeads, Asking, Exchange, Quiet, Proceed, Proceeds,
     service, threads, stored, network, bounds
<1>24. CASE ReportMode
  BY <1>24 DEF StopInv, IdleLeads, Asking, Exchange, Quiet, ReportMode,
     service, threads, stored, network, bounds
<1>25. CASE Lose
  <2>1. SUFFICES ASSUME late <= 1, running, ~Quiet, NEW i \in DOMAIN responses',
                        responses'[i] = "idle"
                 PROVE  i = 1 /\ receiver # "received" /\ Asking
    BY <1>25 DEF Lose, service, threads, stored, robot, StopInv, IdleLeads,
       Quiet, Asking, Exchange
  <2>2. CASE responses # <<>> /\ responses' = Tail(responses)
    <3>1. i + 1 \in DOMAIN responses /\ i + 1 # 1 /\ responses[i + 1] = "idle"
      BY <2>1, <2>2, Left
    <3>2. QED
      BY <2>1, <3>1 DEF StopInv, IdleLeads
  <2>3. CASE UNCHANGED responses
    BY <2>1, <2>3 DEF StopInv, IdleLeads
  <2>4. QED
    BY <1>25, <2>2, <2>3 DEF Lose
<1>26. CASE UNCHANGED vars
  BY <1>26 DEF StopInv, IdleLeads, Asking, Exchange, Quiet, vars, service,
     threads, stored, network, robot, bounds
<1>27. QED
  BY <1>1, <1>2, <1>3, <1>4, <1>5, <1>6, <1>7, <1>8, <1>9, <1>10, <1>11,
     <1>12, <1>13, <1>14, <1>15, <1>16, <1>17, <1>18, <1>19, <1>20, <1>21,
     <1>22, <1>23, <1>24, <1>25, <1>26 DEF Next, Main, Serve, Receiver,
     Querier, Handler, Environment

(* Every step keeps what a STOP was answered, and what it confirmed, true. *)
LEMMA KeptStep ==
    ASSUME StopInv, [Next]_vars
    PROVE  StopKept'
<1>1. ASSUME NEW c \in Commands, Call(c) PROVE StopKept'
  BY <1>1 DEF StopInv, StopKept, Answered, Quiet, Call, Go, robot, history
<1>2. CASE Prepare
  BY <1>2 DEF StopInv, StopKept, Answered, Quiet, Prepare, Return, Go, robot,
     history, bounds
<1>3. CASE EnterService
  BY <1>3 DEF StopInv, StopKept, Answered, Quiet, EnterService, Go, robot,
     history, bounds
<1>4. CASE SendCommand
  BY <1>4 DEF StopInv, StopKept, Answered, Quiet, SendCommand, Send, Return,
     Go, robot, history, bounds
<1>5. CASE Requery
  BY <1>5 DEF StopInv, StopKept, Answered, Quiet, Requery, Send, Return, Go,
     robot, history, bounds
<1>6. CASE Check
  BY <1>6 DEF StopInv, StopKept, Answered, Quiet, Check, Return, Go, stored,
     network, robot, history, bounds
<1>7. CASE Sleep
  BY <1>7 DEF StopInv, StopKept, Answered, Quiet, Sleep, Go, stored, robot,
     history, bounds
<1>8. CASE Confirmed
  BY <1>8 DEF StopInv, StopKept, Answered, Quiet, Confirmed, Expected, Return,
     network, robot, bounds
<1>9. CASE Refused
  BY <1>9 DEF StopInv, StopKept, Answered, Quiet, Refused, Return, Go, robot,
     bounds
<1>10. CASE NotYet
  BY <1>10 DEF StopInv, StopKept, Answered, Quiet, NotYet, Go, robot, history,
     bounds
<1>11. CASE Manual
  BY <1>11 DEF StopInv, StopKept, Answered, Quiet, Manual, network, bounds
<1>12. CASE Exit
  BY <1>12 DEF StopInv, StopKept, Answered, Quiet, Exit, Go, robot, history,
     bounds
<1>13. CASE Receive
  BY <1>13 DEF StopInv, StopKept, Answered, Quiet, Receive, service, stored,
     robot, history, bounds
<1>14. CASE Store
  <2>1. SUFFICES ASSUME late <= 1, Answered' PROVE Quiet /\ Absent(requests, "start")
    BY <1>14 DEF Store, network, robot, history, bounds, StopInv, StopKept,
       Quiet
  <2>2. CASE pc = "manual"
    BY <1>14, <2>1, <2>2 DEF Answered, StopInv, StopKept
  <2>3. CASE pc # "manual"
    <3>1. command = "stop" /\ running /\ received = "idle"
      BY <1>14, <2>1, <2>3 DEF Store, Holding, Wake, Answered
    <3>2. Quiet
      BY <1>14, <2>1, <3>1 DEF Store, StopInv, IdleLeads, Asking, Exchange
    <3>3. Absent(requests, "start")
      BY <1>14, <2>1, <3>1 DEF Store, StopInv, StartLeads, Asking, Exchange,
         Absent
    <3>4. QED
      BY <3>2, <3>3
  <2>4. QED
    BY <2>2, <2>3
<1>15. CASE ReceiverExit
  BY <1>15 DEF StopInv, StopKept, Answered, Quiet, ReceiverExit, service,
     stored, network, robot, history, bounds
<1>16. CASE QueryBegin
  BY <1>16 DEF StopInv, StopKept, Answered, Quiet, QueryBegin, stored,
     network, robot, history, bounds
<1>17. CASE QuerySend
  <2>1. Absent(requests, "start") => Absent(requests', "start")
    BY <1>17, Added DEF QuerySend, Absent
  <2>2. QED
    BY <1>17, <2>1 DEF StopInv, StopKept, Answered, Quiet, QuerySend, service,
       robot, history, bounds
<1>18. CASE QueryEnd
  <2>1. late' <= 1 => late <= 1
    BY <1>18 DEF QueryEnd, StopInv, X30Inv, TypeOK, DataTypes
  <2>2. QED
    BY <1>18, <2>1 DEF StopInv, StopKept, Answered, Quiet, QueryEnd, stored,
       network, robot, history
<1>19. CASE QueryExit
  BY <1>19 DEF StopInv, StopKept, Answered, Quiet, QueryExit, service, stored,
     network, robot, history, bounds
<1>20. CASE Interrupt
  BY <1>20 DEF StopInv, StopKept, Answered, Quiet, Interrupt, Wake, stored,
     network, robot, bounds
<1>21. CASE Join
  BY <1>21 DEF StopInv, StopKept, Answered, Quiet, Join, service, stored,
     network, robot, history, bounds
<1>22. CASE Handle
  <2>1. Absent(requests, "start") =>
            Absent(requests', "start") /\ Head(requests) # "start"
    BY <1>22, Left DEF Handle, Absent, StopInv, TypeOK, DataTypes
  <2>2. Quiet /\ Head(requests) # "start" => Quiet'
    BY <1>22 DEF Handle, After, Obeys, Quiet
  <2>3. QED
    BY <1>22, <2>1, <2>2 DEF StopInv, StopKept, Answered, Handle, service,
       stored, bounds
<1>23. CASE Proceed
  BY <1>23 DEF StopInv, StopKept, Answered, Quiet, Proceed, Proceeds, service,
     stored, network, history, bounds
<1>24. CASE ReportMode
  BY <1>24 DEF StopInv, StopKept, Answered, Quiet, ReportMode, service,
     stored, network, history, bounds
<1>25. CASE Lose
  <2>1. Absent(requests, "start") => Absent(requests', "start")
    BY <1>25, Left DEF Lose, Absent, StopInv, X30Inv, TypeOK, DataTypes
  <2>2. QED
    BY <1>25, <2>1 DEF StopInv, StopKept, Answered, Quiet, Lose, service,
       stored, robot, history
<1>26. CASE UNCHANGED vars
  BY <1>26 DEF StopInv, StopKept, Answered, Quiet, vars, service, stored,
     network, robot, history, bounds
<1>27. QED
  BY <1>1, <1>2, <1>3, <1>4, <1>5, <1>6, <1>7, <1>8, <1>9, <1>10, <1>11,
     <1>12, <1>13, <1>14, <1>15, <1>16, <1>17, <1>18, <1>19, <1>20, <1>21,
     <1>22, <1>23, <1>24, <1>25, <1>26 DEF Next, Main, Serve, Receiver,
     Querier, Handler, Environment

(* The invariant holds at the start. *)
LEMMA InitHolds == ASSUME Init PROVE X30Inv
<1>1. FlagTypes /\ StepTypes
  BY DEF Init, FlagTypes, StepTypes, Owning, Commands
<1>2. DataTypes
  BY BoundsAssumption DEF Init, DataTypes, States
<1>3. (running <=> signal = "none") /\ AnswersAreOwn
  BY DEF Init, AnswersAreOwn, InFlight
<1>4. QED
  BY <1>1, <1>2, <1>3 DEF X30Inv, TypeOK

(* Every step keeps the invariant. *)
LEMMA InvStep == ASSUME X30Inv, [Next]_vars PROVE X30Inv'
  BY FlagStep, ThreadStep, DataStep, SignalStep, AnswersStep DEF X30Inv,
     TypeOK

(* The invariant holds of every behaviour, for every number of calls,      *)
(* losses, late answers and signals.                                       *)
THEOREM InvariantHolds == Spec => []X30Inv
  BY InitHolds, InvStep, PTL DEF Spec

(* Every variable keeps its type, and the service mutex is owned exactly   *)
(* by the thread inside its scope.                                         *)
THEOREM TypeCorrect == Spec => []TypeOK
<1>1. X30Inv => TypeOK
  BY DEF X30Inv
<1>2. QED
  BY <1>1, InvariantHolds, PTL

(* While no answer is late, the two threads that talk to the charge        *)
(* manager never have two exchanges under way: chargeQueryLoop's try_lock  *)
(* and the service mutex are enough.                                       *)
THEOREM NoOverlap == Spec => []ExchangesDoNotOverlap
<1>1. X30Inv => ExchangesDoNotOverlap
  BY DEF X30Inv, TypeOK, DataTypes, AnswersAreOwn, ExchangesDoNotOverlap, NothingInFlight,
     InFlight
<1>2. QED
  BY <1>1, InvariantHolds, PTL

(* With at most one late answer, no run of commands, losses and signals    *)
(* leaves the robot charging, or driving to the pile, after a STOP that    *)
(* succeeded (ensureManualMode is reached only from a confirmed STOP).     *)
THEOREM StopIsKept == Spec => []StopHolds
<1>1. Init => StopInv
  <2>1. Init => X30Inv
    BY InitHolds
  <2>2. QED
    BY <2>1 DEF Init, StopInv, StartLeads, IdleLeads, StopKept, Answered, Quiet
<1>2. StopInv /\ [Next]_vars => StopInv'
  BY InvStep, ManualStep, StartStep, IdleStep, KeptStep DEF StopInv
<1>3. StopInv => StopHolds
  BY DEF StopInv, StopKept, Quiet, StopHolds
<1>4. QED
  BY <1>1, <1>2, <1>3, PTL DEF Spec
==============================================================================
