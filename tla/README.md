# Verification of nav_bridge

TLA+ models, TLC configurations and TLAPS proofs for `nav_bridge`, the ROS 2
bridges between a navigation stack and four robots: X30 (UDP), D1 Max (vendor
SDK), TANK (HTTP) and CYVET (RPC client). Every bridge has the same job: take
velocities and service calls from ROS, keep the right to drive the robot,
give it up at once when asked to stop, and report truthfully. They differ in
how many threads they run and in what can fail between bridge and robot, and
that is where this project looks.

## 1. The system

### 1.1 TANK: `src/src/tank`

*State* (`TankBackend::Impl`): `running`, `epoch` (atomics); under `mutex`:
`want_control`, `local_estop`, `brake`, `cached` (connected, control_owned,
motion_state, battery), the cached velocity and its time, failure counters;
two long-held mutexes, `action_mutex` (services and reconnection) and `io`
(services, reconnection and the control loop).
*Operations*: services `ready`, `lie` / `release_control` (`stop(false)`),
`soft_estop` (`stop(true)`), `/cmd_vel` (`move`), the control loop, the
telemetry loop, `connect`, `disconnect`.
*Interaction*: four executor threads run reentrant services; the control and
telemetry threads are the backend's own; everything meets in `mutex` and in
HTTP exchanges that may be lost.
*Hard*: every service revokes permission first (`inhibit`, a new epoch) and
then waits for two mutexes; whoever finds its epoch outdated gives up; polls
and battery requests run outside `io`; reconnection restores permission by
itself.
*Correct when*: a stop is final until a later ready; permission always has its
justification; no velocity or answer crosses an epoch; calls return.

### 1.2 D1 Max: `src/src/d1_max`

*State* (`D1MaxBackend`): the last task and status the SDK reported, a sequence
number of task reports and the numbers of the last terminal ones,
`undock_required_`, `charge_exit_confirmed_`, the pile's Bluetooth flag, two
batteries, time stamps; `state_` (connection, control ownership, motion).
*Operations*: `charge_command` (START, STOP, QUERY, UNDOCK_START,
UNDOCK_STOP), stand, lie, gait, speed, take and release control, `/cmd_vel`
with a control tick.
*Interaction*: one executor thread runs services and timers; SDK threads call
back between any two critical sections of a service.
*Hard*: a charge command is a sequence of critical sections, requests and
waits; task events are edges that may be missed, repeated or late; a command
that timed out leaves its task running; the pile flag is a radio link, not a
dock; ownership is read, changed and written back without a lock across.
*Correct when*: no exit is confirmed without its evidence, no need to undock is
forgotten, a confirmed exit is published, every command is answered.

### 1.3 X30: `src/src/x30`

*State*: `RobotStateStore` (what UDP reports said last), the control session of
`X30NavBridge` (owned, heartbeat, suppression of velocities), the charge query
sequence, flags of the action executor.
*Operations*: acquire and release control, stand, lie, gait and height,
navigation and manual mode, charge commands, the velocity tick, the receive
and charge-query threads.
*Interaction*: one executor thread; receive threads; UDP in both directions.
*Hard*: lost and late datagrams; toggle commands that are sent again; a wait
without a timeout; services that block the heartbeat.
*Correct when*: a toggle is not undone by its own retry, an answer belongs to
its request, a service answers truly and returns, silence and shutdown end.

### 1.4 CYVET: `src/src/cyvet`

*State*: two job queues (urgent and normal), a generation number that cancels
older jobs, `ready`, `halt_pending`, `halt_escalated`, `estop_latched`,
`stop_requests`, the cached velocity.
*Operations*: submit (acquire, stand, lie, profile, stop, emergency stop,
release), the worker loop, stop recovery, velocity dispatch, telemetry and
connection callbacks, shutdown.
*Interaction*: four executor threads submit and wait; one worker executes; SDK
threads call back.
*Hard*: priorities and cancellation; a stop that fails and is retried; control
acquired by a job that was cancelled meanwhile.
*Correct when*: no velocity after an accepted stop until the next stand, a
stop is never cancelled by a later preparation, a failed stop is recovered,
every job is answered.

### 1.5 The rest

`robot_backend.hpp` (interface), node entry points, launch and configuration
files, deployment scripts under `src/d1_max`, and the vendored SDKs under
`src/third_party` have no state a model would be about; the SDKs and the robots
are the environment of the models.

## 2. Modules

| module | what it is |
| --- | --- |
| `MotionPermit` | abstract specification: what the TANK and CYVET adapters promise about permission, motion and stops, without threads, locks, epochs, jobs, HTTP or RPC |
| `TankBackend` | the TANK adapter, its threads and its device |
| `TankRefinement` | the mapping under which `TankBackend` implements `MotionPermit` |
| `TankInvariant` | the inductive invariant of `TankBackend` |
| `TankProofs`, `TankRefinementProofs` | theorems about the adapter |
| `MCTankBackend` | symmetry for the TANK runs |
| `D1Charge` | the charge and undock commands of the D1 Max backend with the SDK's callbacks |
| `D1Invariant`, `D1Proofs` | its inductive invariant and theorems |
| `CyvetBackend` | the CYVET adapter: services, the worker, the client library's session and the robot |
| `CyvetInvariant` | its properties, and the mapping under which it implements `MotionPermit` |
| `CyvetProofs`, `CyvetRefinementProofs` | theorems about the adapter |
| `MCCyvetBackend` | symmetry for the CYVET safety run |
| `D1Control` | ownership, postures, gaits, speed levels and velocities of the D1 Max bridge, with the SDK's callbacks, the app and the link |
| `D1ControlProofs` | its inductive invariant and theorems |
| `X30Charge` | the charge service of the X30 bridge, its receive and query threads, the signal handler and the charge manager |
| `X30ChargeProofs` | its inductive invariants and theorems |
| `X30Motion` | the actions, gait and height services, soft emergency stop and velocity tick of the X30 bridge |
| `X30MotionProofs` | its inductive invariant and theorems |

`TankBackend` and `CyvetBackend` implement the same abstract `MotionPermit`.
The two D1 modules share the executor thread but no state that either one
changes for the other, and so do the two X30 modules: a charge command and a
motion service never overlap, since one thread serves both.

### 2.1 `TankBackend`

A thread is a value of `Procs` with a `pc`. One action is one critical section
of `Impl::mutex`, one HTTP exchange, or one acquisition of a long-held mutex:
these are the points between which other threads run. `Call` is the immediate
part of a service (`inhibit`), `TakeAction` and `TakeIo` its two waits,
`StopMove`, `EngageBrake`, `VerifyBrake`, `LatchBrake` the stopping services,
`ChangeMode` to `Commit` the exchanges of `prepare()`, shared by `ready`
(explicit), reconnection and start-up. `ControlTake` to `ControlAck` are one
iteration of the control loop, `TelemetryWake` to `BatteryReply` the telemetry
loop, `BeginShutdown` to `LastZero` the end of `main`.

Abstractions. A velocity is the epoch in which `move()` accepted it
(`Still` is zero): nothing asks for its size. Time is a choice: a cached
velocity may expire at any moment (`CommandExpires`), stale telemetry and
overdue acknowledgements are choices charged to `MaxFaults`. A request takes
effect no later than its answer or its timeout. The check and the increment of
`consecutive_state_failures` are one step. `rawVelocityLoop`, which only fills
measured speeds into the published state, the diagnostics and the formatting
are left out. The device has a velocity, a brake that stops it, and a mode
that is Idle or not; `ExternalChange` is somebody else at the device.

### 2.2 `D1Charge`

The service thread is one `pc`, since the executor has one thread and the
service a mutex. One action is one critical section of `mutex_`, one SDK
request, or the end of one wait; `RobotState` and `TaskState` are the two SDK
callbacks and may come between any two. A request that starts a task may be
carried out and acknowledged, carried out with the acknowledgement lost, or
not carried out (`Begin`). A wait may end by its deadline whatever was
reported, because the code does not evaluate its condition again then.

Abstractions. STARTING and RUNNING are one status, *active*. The two batteries
are one (`Powers`). Time stamps are what they are compared for: `fresh`
(younger than 5 s), `sinceSuccess`, `sinceWait`. `takeControl()` and the zero
`Move()` that follows it are one request. `session`, `undocked`, `recharged`
and `failedSince` are history: no action reads them.

### 2.3 `CyvetBackend`

Service threads have a `pc` (idle, checked, queued, answered), a request and
its generation, the `ticket`. The worker has `wpc`; one of its actions is one
RPC, one critical section, or the decision between two of them. `TakeJob` to
`EstopDone` are the jobs; `Loop` to `Disconnect` one round of `run()`; `stop()`
and `confirm()` are subroutines with explicit returns (`after`, `next`,
outcome `good`). `BadReport` is an exception wherever the code asks for a
report and does not catch it. An RPC is acknowledged, carried out with the
answer lost, not carried out, or refused; its outcome and effect are one step,
because services touch nothing an RPC reads. The session changes only while
the worker runs its executor, so `ControlLost` leaves out the steps that
follow a decision with no RPC between.

Abstractions. A velocity is the generation in which `move()` accepted it.
Time is a choice: a velocity may be too old, a rate limit or a retry interval
may not have passed. A confirmation that still can succeed, stale telemetry,
failing RPCs and interventions at the robot are charged to `MaxFaults`. The
robot carries out requests in the order in which they were sent and comes to
rest when told to stop or left without an owner. Capabilities, motor layout,
observations and the two profiles (one command, one confirmation) are left
out; so are `disconnect()` and `takeControl()`, which the node never calls,
and the queue limit of 16, which four threads cannot reach. The destructor runs
after the executor has finished its callbacks (`main`), so `Shutdown` waits
for idle services.

### 2.4 `D1Control`

The executor thread runs a service as a plan of steps (`PlanOf`, from `SetGait`,
`Stand` and `Lie`): a step that the state does not call for is skipped (`Skip`), the others
make an SDK request (`Request`), wait for a reported status (`Awaited`,
`TimeOut`) and commit (`Commit`). `Receive`, `Speed` and `Lost` are the SDK
callbacks. `updateState()` copies the state, changes the copy, stores it and
then calls the node outside the mutex, so a callback is three steps
(`Callback`, `SdkStore`, `SdkPublish`) between which a service may run. `CmdVel`,
`Expire` and `Tick` are the node's velocity callback and control tick; they run
when no service does.

Assumed of the robot, because the vendored SDK shows it only in part: one
thread makes all callbacks; a command without control is refused; a command
that does not suit the posture is ignored; states are reported at 1 Hz. A
service that begins before the last change has been reported is `blind`: it
answers from an old status, and `SuccessIsReal` and `RestsBeforePosture` do
not speak of it (see 3.1). A velocity is zero or not, and a speed level stands
for its limit.

### 2.5 `X30Charge`

Three threads and a handler: the executor thread serves one command (`Call` to
`Manual`), the receive thread stores answers (`Receive`, `Store`), the query
thread asks every second unless a command is being served (`QueryBegin` to
`QueryEnd`), and SIGINT runs `shutdown()` on the executor thread, wherever that
is (`Interrupt`, `Join`). One action is one critical section of
`charge_state_mutex_`, one datagram or one decision. The wait for an answer is
two steps, `Check` and `Sleep`, because the condition variable's predicate and
the notification of the signal handler are not under one mutex.

`charge_response_seq_` is compared with a number read earlier and nothing
else, so `news` and `queryNews` say whether it has moved. Datagrams are two
sequences: they may be lost (`MaxLosses`) and an answer may come after the time
limit of the query (`MaxLate`). The motion receive thread shares no state with
these and is left out.

### 2.6 `X30Motion`

Everything here runs on one executor thread, so a service is a plan of steps
again: `Stand`, `LieDown`, `ForceStand`, `SetNavigationGait` and
`SetBodyHeight` lead from one step to the next (`Follow`). Each step sends a
command (`Send`) and waits for a reported state (`Reach`), or runs out of time
(`TimeOut`) and is repeated or fails as its kind says: `Toggles`, `Singles`,
`Polls`, `Onces`. The velocity tick and callback run between services; an emergency stop asked for
during one waits for it (`waiting`). Commands may be lost; reports follow the
robot at any distance.

A wait runs out of time when the robot has come to rest without the state
waited for; one that ends earlier is charged to `MaxDisturbed`, like a fall or
an intervention with the handheld. Gaits that behave alike are one value. The
heartbeat and the connection query change no state of this part.

## 3. Runs

| run | what it asks | bounds |
| --- | --- | --- |
| `tank_safety` | permission, stops, freshness, the failure limit, the brake, shutdown; the inductive invariant; `MotionPermit` is implemented | 2 clients, 2 calls, 1 failing exchange or change at the device, the first failed move revokes |
| `tank_liveness` | calls return, silence stops, reconnection, shutdown | 1 client, 1 call, 1 failing exchange |
| `d1_charge` | evidence for exits, demands for undocks; the inductive invariant; every command is answered | 2 commands, 1 task of another client |
| `d1_control` | the velocity limit, true answers, rest before a change of posture, ownership and silence heal | 2 events, any initial posture |
| `cyvet_safety` | accepted stops hold, stops are final; the inductive invariant with justified velocities; `MotionPermit` is implemented | 2 clients, 2 calls, 1 velocity, 2 faults |
| `cyvet_liveness` | calls return, an unconfirmed stop is resolved, silence stops | 1 client, 2 calls, 1 velocity, 1 fault |
| `x30_charge` | exchanges do not overlap, a STOP holds, commands and the shutdown end | 3 commands, 1 loss, 1 late answer, 1 signal |
| `x30_motion` | toggles are not undone, answers are true, crawling keeps its gait, services return, silence stops | 2 services, 1 velocity, 1 loss, 1 disturbance, 2 tries |

Four more runs show a disagreement (3.1): `tank_ready_sticks`,
`d1_old_success`, `cyvet_fallback` and `x30_charge_wait`.

`MaxCalls`, `MaxMoves`, `MaxFaults`, `MaxExternal`, `MaxForeign`, `MaxEvents`,
`MaxLosses`, `MaxLate`, `MaxSignals` and `MaxDisturbed` count what the
environment does; nothing bounds what the code does in response, except
`MaxTries`, which stands for deadlines of repeated commands. Two calls of
two clients are the least in which one service overtakes another. The TANK
safety run lets one exchange fail, or the device change by itself once, and
takes the first failed move for the limit, so that the one fault reaches it;
one failed poll stays below its limit of 2. Higher limits and more failures or
changes are left to the proofs, which hold for any number. Two D1
charge commands are the least in which one meets what the other left behind,
and robot reports are not counted at all: `taskStateSequence` is bounded
because a task begins by a command or as a foreign task, and both are. In
`D1Control` one event is a service, a velocity, a failing call, a late report,
a take-over or a lost link; since the robot starts in any posture, a service
and something that interferes with it are enough to reach every step of every
plan. (Its safety properties hold with four events too, in 8 million states;
the liveness properties keep the run at two.) Three X30 charge commands are START, STOP and START. Clients are
interchangeable and no property names one, so the safety runs of TANK and
CYVET use symmetry; the liveness runs do not. One CYVET velocity is dispatched,
times out and is tried again; two faults are what a failed stop and a failed
recovery need, one of them what `HaltResolves` recovers from; one client is
enough for liveness, since a job waits for the worker alone. Motion output is on in every run; that nothing changes the
device while it is off is proved (`ReadOnlyLeavesDevice`). The proofs below
hold for every value of the constants.

The X30 runs and `d1_control` do not check deadlock: calls and datagrams are
bounded, and a bridge nobody calls is at rest.

### 3.1 Where code and documentation disagree

Four runs state what a comment or a document says and find it violated.

* `tank_ready_sticks`. "Discard responses from before a ready/stop
  transition" (`tank_backend.cpp:557`). The epoch changes when a ready starts,
  not when it commits. A poll begun during the ready reads the brake before it
  is released; its answer, applied after the commit, revokes the permission
  the ready just reported.
* `d1_old_success`. "A new charging session must not reuse an old undock
  SUCCESS" (`d1_max_backend.cpp:730`). Only whether the battery charges now is
  asked; a SUCCESS whose command had failed is reused once the battery is full.
* `cyvet_fallback`. "When a stop RPC fails, emergencyStop is requested and
  confirmation goes on" (`CYVET.md:220`). `halt_escalated`, set by the first
  request, is cleared by a confirmed stop only in the walking branch of
  `stop()` (`cyvet_backend.cpp:385`), not in its emergency branch (376), nor by
  `estop()` (514). After a recovery that ended there and a new stand, the
  next stop that fails finds the flag set: a moving robot is sent stop again
  and again, and no emergency stop.
* `x30_charge_wait`. START waits until the manager charges (`CHARGE.md:49`).
  The wait has no time limit, nothing repeats the request, and the periodic
  query is skipped while the service holds the mutex (`x30_nav_bridge.cpp:995`):
  one lost answer and the service, and with it the executor thread, waits for
  ever although the robot charges.

Others were met while modelling and have no run of their own.

*TANK*. A stop "waits for the motion request in flight, then sends the stop
command" (`TANK.md:93`): if that request fails, `linkFailed()` bumps the epoch
and the stop returns as superseded without sending anything; permission stays
withdrawn and the robot is left to its own timeout. After an external emergency
stop only an explicit ready recovers (`TANK.md:154`): a reconnection that sees
the brake keeps `want_control`, and a later one that sees it released restores
permission.

*D1*. A reconnected pile with a charging "or unknown" battery should revoke a
confirmed exit (`charge_handoff.md:16`); an unknown one does not
(`d1_max_backend.cpp:781`). An exit is confirmed at once only if "no SDK charge
or undock task is active" (`charge_handoff.md:8`), but tasks are read in an
earlier critical section than the one that confirms. A velocity is divided by
the limit of the remembered level (`d1_max_backend.cpp:290-292`): before the
first acknowledged SetSpeed, after one that failed, and after a gait change
that failed half way, the robot may have another limit and drive up to three
times faster than asked; `ContractMatches` therefore speaks of a level and a
gait that were acknowledged since a call last failed. `release_control` may answer that there is no session from an
ownership a callback has just overwritten. A ready or stand right after a soft
emergency stop may succeed on the status reported before it. A service that
blocks leaves the robot at its last velocity until it gets to its own zero.

*CYVET*. A stop of the loop whose confirmation is cancelled by a newly accepted
request counts as failed (`cyvet_backend.cpp:384`), so the same round requests
an emergency stop although no RPC failed.

*X30*. A toggle sent again after the warm-up does not look at the state that
arrived meanwhile (`action_executor.cpp:119`, against `README.md:103-104`).
`stand`, `lie` and `force_stand` never ask whether the robot is connected, and
the posture before the first report is 0, LYING_DOWN: a lie answers success
without a robot. The soft emergency stop does not wait for its effect, so the
next service may answer from the posture before it; `SuccessIsReal` leaves such
*blind* services out. Two late answers shift the attribution of those that follow:
a STOP may then succeed that the robot has not handled, which is why `StopHolds`
says "at most one late answer" (`late <= 1`). A STOP whose
robot is already idle fails if manual mode is not reported in time
(`ensureManualMode`). A velocity is stamped when it is handled, not when it was
sent, so one that waited behind a service counts as new
(`x30_nav_bridge.cpp:2041`); the tick goes on after a disconnection, from the
posture reported last (1052); and no heartbeat is sent while a service blocks.

## 4. Fairness

*TANK*: a thread with work keeps running (weak fairness of its steps; HTTP
exchanges end by their timeouts). Waiting for `io` or `action_mutex` is strong
fairness of the acquisition: a holder keeps the mutex for one exchange or one
service and then leaves it free for the rest of its period, so a waiter meets
it free again and again and the scheduler lets it in. `CommandExpires` is
weakly fair because time passes. Calls, velocities, changes at the device and
the decision to shut down are not fair.

*CYVET*: the worker runs, every RPC and confirmation ends by its time limit,
and the robot settles (weak fairness); recovery is tried again every 200 ms,
and when no further velocity is accepted (`MaxMoves` ends them) the last one
becomes too old, which is strong fairness of `RecoverEscalate` and
`DispatchSilent`.

*D1*: the service thread runs and every wait has a deadline, which is weak
fairness of `ServiceStep` and of `Executor`; the control tick runs and a
velocity becomes too old. The SDK's thread runs; states and a lost control are
reported among speeds that come more often, hence strong fairness of `Receive`
and `Lost`. For `D1Charge` the robot owes nothing.

*X30*: the threads run and their waits with a deadline end. `EnterService` is
strongly fair: the query thread holds the service mutex for one exchange and
sleeps between two. The charge manager and the robot answer what reaches them,
report and settle; calls, losses, late answers and the signal are not fair. A
robot that has begun to leave the pile leaves it.

## 5. Proofs

All theorems are about `Spec` for every value of the constants, under
the assumptions named in the modules: client identities differ from the
bridge's own threads, limits are positive, bounds are naturals.

*TANK*. The properties are not inductive. That a confirmed stop is final
depends on who holds `io` (`IoExclusive`), on what a service can be doing at
each step (`ServiceSteps`), on tickets being unique and never ahead of the
epoch (`TicketOrder`), and on a service inside `io` having no result yet if it
is the latest (`LatestUndecided`). `TankInv` is these, the properties, and
what each `pc` says about permission and about the device (`PermitSteps`,
`DeviceSteps`). `TankProofs` proves it in four parts, each a lemma per group
of actions; every safety property and the read-only action property follow.
`TankRefinementProofs` uses it to show that each step of the adapter is a step
of `MotionPermit` or a stutter: a commit is a grant because `devVel = Still`
and no iteration is in flight while `io` is held.

*D1*. `D1Inv` adds to `SessionDemandsUndock` what the service knows at each
step about reports since its last critical section: evidence that confirms a
START has already demanded an undock (`StartPart`); an unused SUCCESS was
reported since the last exit and a failure since joining is newer than the
number waited from (`SuccessPart`); after an exit only charging at the pile or
a task revokes it (`ExitPart`). The action properties follow from the
invariant and the guards of the two actions that hand over.

*D1 control*. That an answer is true, that a robot rests before its posture
changes, and that a velocity is divided by the robot's own limit are claims
about the end of a service, or about one step of it, that rest on all its
earlier steps. `D1ControlInv` therefore follows the plan. `PlanPart` says that
what is left of it belongs to the service called, which step it ends in and
that no step but unlock and take comes before the one that stops the robot
(`Fits`); `LevelPart`, `StairPart` and `ReachPart` say what has been achieved
once a step is no longer ahead, and `LieKnows` and `Seen` in which direction a
status up to a second old may still be trusted. `RestPart` says that a robot
that drives has the stop ahead and that the status copied at the start will
not skip it; for that `DrivePart` says in which postures a robot drives, with
the one exception of a `lie` that began from a wrong picture. `CalmPart` says
that nobody else holds control before something has failed. `ReleasePart`
holds whatever failed: `release_control` has not passed its zero velocity while
the robot drives, so a robot that the bridge no longer controls is at rest
(`ReleasedAtRest`, which no run states: TLC checked it with three events before
the proof). Each part is a
lemma with one step per action; a lemma per executor action (`AckedMoves` to
`PublishMoves`) says how it moves on in the plan. The
number of events is arbitrary; before the proof TLC checked the invariant with
four.

*X30*. Answers carry nothing that says what they answer, so
`ExchangesDoNotOverlap` is what makes them usable, and it is not inductive:
`AnswersAreOwn` says that no more datagrams are under way than have come late,
and, but where the holder of the service mutex has none of its own
(`NothingInFlight`: before it sends, and after it stored an answer), one more.
`StopIsKept` is about at most one late answer, so at most two exchanges
(`AtMostTwo`), and its invariant `StopInv` says in which order they may be
under way. A START request that outlives its exchange is the very next datagram
to be handled, with no answer before it (`StartLeads`); while the robot
charges, an IDLE under way is the next answer, and only the START being served
waits for it (`IdleLeads`). So an IDLE stored for a STOP was given by a robot
that is still quiet and has no START before it (`StopKept`), and this outlasts
the confirmation, losses and a signal at any point. TLC checked the four parts
with two late answers before they were proved.

*X30 motion*. Whether a toggle may be sent again, and whether an answer is
true, depends on everything a plan did before, on commands that may be lost and
on reports that may be late. `X30MotionInv` therefore says for every step what
the robot is like before its command (`Ready`: it will do what the step is for)
and after it (`Done`), and that one of the two holds, with at most one command
in flight (`Sending`, `Waiting`); the store is the robot's state or one from
which it has come to rest by itself (`Lags`). The argument has three turns. A
command that arrives turns ready into done (`CommandWorks`). A wait that runs
out of time undisturbed finds the robot at rest and reported, so done would
have been seen: the robot is still ready, and the repetition is harmless
(`TimeOutKeeps`). A wait that is satisfied is a step that is done, and from
there every branch of every plan leads to a step the robot is ready for, to one
that waits for what is already under way, or to a true answer
(`FollowTracked`). All of this is about the time in which nothing was
disturbed; types, purposes and `RlIsMountain` hold always. TLC checked the
invariant on the instance of `x30_motion`, and that it is inductive from every
state that satisfies it with nothing bounded.

*CYVET*. `StopHoldsReady`, `StoppedStays` and `DriveJustified` are not
inductive: the worker grants readiness at the end of a job it took up long
before. `CyvetInv` adds which request's job runs at each point of the worker
(`JobPart`, where `Point` looks through `stop()` and `confirm()` to where they
return), that a stop has overtaken every preparation (`TicketPart`) and a
preparation runs before later ones (`OrderPart`), hence that nobody waits while
ready; that ready implies control, no emergency stop and no unconfirmed stop
except in the stop after silence, which inhibits when it fails (`ReadyPart`);
that no stop is unconfirmed when a preparation ends (`PreparationPart`); and
what a stopping job knows about the robot at each step (`MotionPart`,
`StoppedPart`, `ActivePart`). Every part was checked by TLC (`cyvet_safety`)
before it was proved, one lemma each with one step per action.
`CyvetRefinementProofs` classifies each step as one that rests, lapses, begins,
carries or ends a velocity (`Kept`), asks, grants or confirms, and maps each
class to an action of `MotionPermit`.

Only model-checked: all liveness properties, which are out of the prover's
reach; and the disagreements of 3.1.

## 6. Not modelled

The X30 motion receive thread, heartbeat timing and connection query, scaling
and clamping of velocities, and the telemetry topics; the RobotBackend methods
no node calls; TANK's `rawVelocityLoop`, JSON and HTTP formatting; `connect`,
sensor streams and queries of the D1 SDK; CYVET's `disconnect()` and
`takeControl()`; parameters, launch files, deployment scripts. They keep no
state the properties are about, or are formatting. Floating-point clamping
(`motion_math.hpp`) has nothing to interleave with. Ages of velocities waiting
in a ROS queue are not part of any state: see 3.1.

What would add most next: composing `X30Charge` with `X30Motion`, whose
services are serialised but whose START runs a forced stand first.
