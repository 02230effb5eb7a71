------------------------------ MODULE X30Charge ------------------------------
(***************************************************************************)
(* The charge service of the X30 bridge (x30_nav_bridge.cpp): the service  *)
(* on the executor thread, the receive thread, the periodic query thread,  *)
(* and the SIGINT handler, which interrupts the executor thread wherever   *)
(* it is and joins the other two.  Requests and answers are datagrams;     *)
(* answers carry a state and nothing that says what they answer.           *)
(*                                                                         *)
(* Abstractions.  charge_response_seq_ is only compared with a number read *)
(* earlier: news and queryNews say whether it has moved since.  UNDOCK_*   *)
(* send and expect what STOP does.  Failure states are one, "error".       *)
(***************************************************************************)
EXTENDS Naturals, Sequences

CONSTANTS
    MaxCalls,       \* bound: service calls
    MaxLosses,      \* bound: datagrams lost
    MaxLate,        \* bound: answers later than the time limit of the query thread
    MaxSignals      \* bound: interrupts, 0 or 1

ASSUME BoundsAssumption ==
    MaxCalls \in Nat /\ MaxLosses \in Nat /\ MaxLate \in Nat /\ MaxSignals \in {0, 1}

Commands == {"start", "stop", "reset", "query"}
States == {"idle", "task", "charging", "over", "error"}

VARIABLES
    running,                    \* running_
    serviceMutex,               \* charge_service_mutex_
    latest, news, queryNews,    \* latest_charge_response_state_, charge_response_seq_
    pc, command, success,       \* executeChargeCommand
    signal,                     \* shutdown() in the signal handler
    receiver, received,         \* chargeReceiveLoop
    querying,                   \* chargeQueryLoop
    navMode,                    \* is_nav_mode_
    requests, responses,        \* datagrams in flight
    manager,                    \* the charge manager of the robot
    manualSent,                 \* a manual-mode command reached the robot
    stopped,                    \* history: STOP succeeded, and no START since
    caught,                     \* history: the signal came inside a critical section
    calls, losses, late

service == <<pc, command, success, serviceMutex>>
threads == <<receiver, received, querying>>
stored == <<latest, news, queryNews>>
network == <<requests, responses>>
robot == <<manager, navMode, manualSent>>
history == <<stopped, caught>>
bounds == <<calls, losses, late>>
vars == <<running, service, signal, threads, stored, network, robot, history, bounds>>

(* Where the executor thread owns charge_state_mutex_.                     *)
Holding == pc \in {"reading", "rereading", "checking"}

(* The handler runs on the executor thread, which goes on after it.        *)
MainRuns == signal # "joining"
Closed == signal = "closed"
InFlight == Len(requests) + Len(responses) + (IF receiver = "received" THEN 1 ELSE 0)

-----------------------------------------------------------------------------
(* executeChargeCommand                                                    *)

Go(p) == MainRuns /\ pc' = p

Return(good) ==
    /\ Go("idle")
    /\ success' = good
    /\ serviceMutex' = IF serviceMutex = "main" THEN "none" ELSE serviceMutex
    /\ stopped' = (stopped \/ (good /\ command = "stop"))
    /\ UNCHANGED <<command, caught>>

Call(c) ==
    /\ pc = "idle" /\ running /\ calls < MaxCalls
    /\ calls' = calls + 1 /\ command' = c
    /\ Go(IF c = "start" THEN "prepare" ELSE "enter")
    /\ UNCHANGED <<running, success, serviceMutex, signal, threads, stored, network, robot,
                   history, losses, late>>

(* forceStand() out of RL mode and the velocity source, before a START.    *)
Prepare ==
    /\ pc = "prepare"
    /\ \/ ~Closed /\ Go("enter") /\ UNCHANGED <<success, serviceMutex, command, history>>
       \/ Return(FALSE)
    /\ UNCHANGED <<running, signal, threads, stored, network, robot, bounds>>

EnterService ==
    /\ pc = "enter" /\ serviceMutex = "none"
    /\ Go("reading") /\ serviceMutex' = "main"
    /\ UNCHANGED <<running, command, success, signal, threads, stored, network, robot,
                   history, bounds>>

(* before_seq is read under the mutex, then the request is sent.           *)
Send(request) ==
    /\ IF Closed THEN Return(FALSE) /\ UNCHANGED <<network, news>>
                 ELSE /\ Go("loop") /\ news' = FALSE
                      /\ requests' = Append(requests, request)
                      /\ UNCHANGED <<responses, success, serviceMutex, command, history>>
    /\ UNCHANGED <<running, signal, threads, latest, queryNews, robot, bounds>>

SendCommand == pc = "reading" /\ Send(command)
Requery == pc = "rereading" /\ Send("query")

(* Seeded fault: an interrupted wait reports the initial IDLE.             *)
CheckTrusting ==
    /\ pc = "loop"
    /\ IF running THEN Go("checking") /\ UNCHANGED <<success, serviceMutex, command, history>>
                  ELSE Return(TRUE)
    /\ UNCHANGED <<running, signal, threads, stored, network, robot, bounds>>

(* waitForChargeResponse: running_ and the sequence number are examined    *)
(* under the mutex, which the wait then gives up.                          *)
Check ==
    /\ pc = "loop"
    /\ IF running THEN Go("checking") /\ UNCHANGED <<success, serviceMutex, command, history>>
                  ELSE Return(FALSE)
    /\ UNCHANGED <<running, signal, threads, stored, network, robot, bounds>>

Sleep ==
    /\ pc = "checking" /\ ~news
    /\ Go("asleep")
    /\ UNCHANGED <<running, command, success, serviceMutex, signal, threads, stored, network,
                   robot, history, bounds>>

(* Seeded fault: START waits for charging, RESET and QUERY for idle.       *)
ExpectedExactly(c, state) == state = (IF c = "start" THEN "charging" ELSE "idle")

(* isExpectedChargeStateForCommand, isFailureChargeState                   *)
Expected(c, state) ==
    \/ c = "start" /\ state \in {"task", "charging"}
    \/ c \in {"stop", "reset"} /\ state = "idle"
    \/ c = "query"

Waits(c) == c \in {"start", "stop"}     \* should_wait_until_target

Confirmed ==
    /\ pc = "checking" /\ news
    /\ Expected(command, latest)
    /\ IF command = "stop"
         THEN Go("manual") /\ UNCHANGED <<success, serviceMutex, command, history>>
         ELSE Return(TRUE)
    /\ UNCHANGED <<running, signal, threads, stored, network, robot, bounds>>

Refused ==
    /\ pc = "checking" /\ news
    /\ ~Expected(command, latest) /\ (latest = "error" \/ ~Waits(command))
    /\ Return(FALSE)
    /\ UNCHANGED <<running, signal, threads, stored, network, robot, bounds>>

NotYet ==
    /\ pc = "checking" /\ news
    /\ ~Expected(command, latest) /\ latest # "error" /\ Waits(command)
    /\ Go("rereading")
    /\ UNCHANGED <<running, command, success, serviceMutex, signal, threads, stored, network,
                   robot, history, bounds>>

(* ensureManualMode: repeats the command until is_nav_mode_ is false or    *)
(* its time is up.                                                         *)
Manual ==
    /\ pc = "manual"
    /\ \/ ~navMode /\ Return(TRUE) /\ UNCHANGED manualSent
       \/ navMode /\ Return(FALSE) /\ UNCHANGED manualSent
       \/ /\ navMode /\ ~Closed /\ ~manualSent /\ Go("manual") /\ manualSent' = TRUE
          /\ UNCHANGED <<success, serviceMutex, command, history>>
    /\ UNCHANGED <<running, signal, threads, stored, network, manager, navMode, bounds>>

-----------------------------------------------------------------------------
(* chargeReceiveLoop                                                       *)

Receive ==
    /\ receiver = "polling" /\ running /\ responses # <<>>
    /\ receiver' = "received" /\ received' = Head(responses)
    /\ responses' = Tail(responses)
    /\ UNCHANGED <<running, service, signal, querying, stored, requests, robot, history,
                   bounds>>

(* Seeded fault: nothing is notified.                                      *)
WakeNobody == pc

Wake == IF pc = "asleep" THEN "loop" ELSE pc

Store ==
    /\ receiver = "received" /\ ~Holding
    /\ receiver' = "polling"
    /\ latest' = received /\ news' = TRUE /\ queryNews' = TRUE
    /\ pc' = Wake
    /\ UNCHANGED <<running, command, success, serviceMutex, signal, received, querying, network,
                   robot, history, bounds>>

ReceiverExit ==
    /\ receiver = "polling" /\ ~running
    /\ receiver' = "done"
    /\ UNCHANGED <<running, service, signal, received, querying, stored, network, robot,
                   history, bounds>>

(* Seeded fault: the query loop does not try the lock.                     *)
QueryBeginAlways ==
    /\ querying = "sleeping" /\ running
    /\ querying' = "locked"
    /\ UNCHANGED <<running, service, signal, receiver, received, stored, network, robot,
                   history, bounds>>

(* chargeQueryLoop: skipped while a command is being served (try_lock).    *)
QueryBegin ==
    /\ querying = "sleeping" /\ running /\ serviceMutex = "none"
    /\ querying' = "locked" /\ serviceMutex' = "query"
    /\ UNCHANGED <<running, pc, command, success, signal, receiver, received, stored, network,
                   robot, history, bounds>>

QuerySend ==
    /\ querying = "locked" /\ ~Holding
    /\ queryNews' = FALSE /\ requests' = Append(requests, "query")
    /\ querying' = "waiting"
    /\ UNCHANGED <<running, service, signal, receiver, received, latest, news, responses, robot,
                   history, bounds>>

(* waitForChargeResponseFor: answered, shut down, or out of time.          *)
QueryEnd ==
    /\ querying = "waiting" /\ ~Holding
    /\ late' = IF ~queryNews /\ running /\ InFlight > 0 THEN late + 1 ELSE late
    /\ late' \in 0..MaxLate
    /\ querying' = "sleeping" /\ serviceMutex' = "none"
    /\ UNCHANGED <<running, pc, command, success, signal, receiver, received, stored, network,
                   robot, history, calls, losses>>

QueryExit ==
    /\ querying = "sleeping" /\ ~running
    /\ querying' = "done"
    /\ UNCHANGED <<running, service, signal, receiver, received, stored, network, robot,
                   history, bounds>>

-----------------------------------------------------------------------------
(* shutdown() in the signal handler                                        *)

Interrupt ==
    /\ signal = "none" /\ MaxSignals = 1 /\ pc # "exited"
    /\ signal' = "joining" /\ running' = FALSE
    /\ pc' = Wake /\ caught' = Holding
    /\ UNCHANGED <<command, success, serviceMutex, threads, stored, network, robot, stopped,
                   bounds>>

Join ==
    /\ signal = "joining" /\ receiver = "done" /\ querying = "done"
    /\ signal' = "closed"
    /\ UNCHANGED <<running, service, threads, stored, network, robot, history, bounds>>

Exit ==     \* spin() returns
    /\ Closed /\ pc = "idle" /\ Go("exited")
    /\ UNCHANGED <<running, command, success, serviceMutex, signal, threads, stored, network,
                   robot, history, bounds>>

-----------------------------------------------------------------------------
(* The robot and the network                                               *)

Obeys == {<<"start", "idle", "task">>, <<"start", "over", "task">>,
          <<"start", "error", "task">>, <<"start", "error", "error">>, <<"stop", "task", "over">>, <<"stop", "task", "idle">>,
          <<"stop", "charging", "over">>, <<"reset", "error", "idle">>}

After(request) ==
    LET next == {s \in States : <<request, manager, s>> \in Obeys}
    IN  IF next = {} THEN {manager} ELSE next

Handle ==
    /\ requests # <<>>
    /\ requests' = Tail(requests)
    /\ manager' \in After(Head(requests))
    /\ responses' = Append(responses, manager')
    /\ stopped' = (stopped /\ Head(requests) # "start")
    /\ UNCHANGED <<running, service, signal, threads, stored, navMode, manualSent, caught,
                   bounds>>

Proceeds == {<<"task", "charging">>, <<"task", "error">>, <<"charging", "error">>,
             <<"over", "idle">>}

Proceed ==
    /\ manager' \in {s \in States : <<manager, s>> \in Proceeds}
    /\ UNCHANGED <<running, service, signal, threads, stored, network, navMode, manualSent,
                   history, bounds>>

(* RcsData: the charge task drives in navigation mode; a manual-mode       *)
(* command ends it.                                                        *)
ReportMode ==
    /\ \/ manager = "task" /\ ~navMode /\ navMode' = TRUE /\ UNCHANGED manualSent
       \/ manualSent /\ navMode' = FALSE /\ manualSent' = FALSE
    /\ UNCHANGED <<running, service, signal, threads, stored, network, manager, history, bounds>>

Lose ==
    /\ losses < MaxLosses /\ losses' = losses + 1
    /\ \/ requests # <<>> /\ requests' = Tail(requests) /\ UNCHANGED responses
       \/ responses # <<>> /\ responses' = Tail(responses) /\ UNCHANGED requests
    /\ UNCHANGED <<running, service, signal, threads, stored, robot, history, calls, late>>

-----------------------------------------------------------------------------
Init ==
    /\ running = TRUE /\ serviceMutex = "none"
    /\ latest = "idle" /\ news = FALSE /\ queryNews = FALSE
    /\ pc = "idle" /\ command = "query" /\ success = FALSE
    /\ signal = "none"
    /\ receiver = "polling" /\ received = "idle" /\ querying = "sleeping"
    /\ navMode = FALSE /\ manualSent = FALSE
    /\ requests = <<>> /\ responses = <<>>
    /\ manager \in {"idle", "error"}
    /\ stopped = FALSE /\ caught = FALSE
    /\ calls = 0 /\ losses = 0 /\ late = 0

Serve == Prepare \/ SendCommand \/ Requery \/ Check \/ Sleep \/ Confirmed \/ Refused \/ NotYet \/ Manual
Main == (\E c \in Commands : Call(c)) \/ EnterService \/ Serve \/ Exit
Receiver == Receive \/ Store \/ ReceiverExit
Querier == QueryBegin \/ QuerySend \/ QueryEnd \/ QueryExit
Handler == Interrupt \/ Join
Environment == Handle \/ Proceed \/ ReportMode \/ Lose

Next == Main \/ Receiver \/ Querier \/ Handler \/ Environment

Spec == Init /\ [][Next]_vars

(* std::mutex is not fair: the query thread sleeps between two tries, so   *)
(* the executor thread finds the mutex free again and again.  The robot    *)
(* answers, and leaves the charging pile once it has begun to.             *)
FairSpec ==
    /\ Spec
    /\ SF_vars(EnterService) /\ WF_vars(Serve) /\ WF_vars(Exit)
    /\ WF_vars(Receiver) /\ WF_vars(Querier) /\ WF_vars(Join)
    /\ WF_vars(Handle) /\ WF_vars(manager = "over" /\ Proceed)

-----------------------------------------------------------------------------
Owning == {"reading", "loop", "checking", "asleep", "rereading", "manual"}
Serving == pc \notin {"idle", "exited"}

FlagTypes ==
    /\ running \in BOOLEAN /\ news \in BOOLEAN /\ queryNews \in BOOLEAN
    /\ success \in BOOLEAN /\ navMode \in BOOLEAN /\ manualSent \in BOOLEAN
    /\ stopped \in BOOLEAN /\ caught \in BOOLEAN

StepTypes ==
    /\ serviceMutex \in {"none", "main", "query"}
    /\ (serviceMutex = "main") <=> (pc \in Owning)
    /\ (serviceMutex = "query") <=> (querying \in {"locked", "waiting"})
    /\ pc \in {"idle", "prepare", "enter", "reading", "loop", "checking", "asleep",
               "rereading", "manual", "exited"}
    /\ command \in Commands
    /\ signal \in {"none", "joining", "closed"}
    /\ receiver \in {"polling", "received", "done"}
    /\ querying \in {"sleeping", "locked", "waiting", "done"}

DataTypes ==
    /\ latest \in States /\ received \in States /\ manager \in States
    /\ requests \in Seq(Commands) /\ responses \in Seq(States)
    /\ calls \in 0..MaxCalls /\ losses \in 0..MaxLosses /\ late \in 0..MaxLate

(* Types, and which thread owns charge_service_mutex_ at which step. *)
TypeOK == FlagTypes /\ StepTypes /\ DataTypes

(* While no answer has come after the time limit of the periodic query, at *)
(* most one exchange with the charge manager is under way, and a thread    *)
(* that holds charge_service_mutex_ waits for it: the answer stored next   *)
(* belongs to the request sent last, though nothing in it says so.         *)
ExchangesDoNotOverlap ==
    late = 0 /\ running => InFlight <= 1 /\ (InFlight = 1 => serviceMutex # "none")

(* After a STOP that succeeded the robot is neither charging nor on its    *)
(* way to the pile until it handles another START, although the answer     *)
(* that confirmed the STOP may be one late answer to an older query.       *)
StopHolds == late <= 1 /\ stopped => manager \notin {"task", "charging"}

(* A charge command returns unless a datagram was lost: the wait for the   *)
(* answer has no time limit.                                               *)
CommandEnds == Serving ~> ~Serving \/ losses > 0 \/ caught

(* The process ends after SIGINT, unless the signal came while the         *)
(* executor thread held charge_state_mutex_: shutdown() then joins a       *)
(* thread that waits for that mutex, or notifies before the wait begins.   *)
ShutdownCompletes == signal = "joining" ~> pc = "exited" \/ caught

(* CHARGE.md: START waits until the manager is charging.  It then returns. *)
StartReturnsOnceCharging ==
    (Serving /\ command = "start" /\ manager = "charging")
        ~> (~Serving \/ manager # "charging")

=============================================================================
