----------------------------- MODULE Scheduler -----------------------------
(***************************************************************************)
(* Admission, execution and reaping of inference requests:                 *)
(* src/src/scheduler.rs.                                                   *)
(*                                                                         *)
(* Every async function of the file runs on one current-thread runtime, so *)
(* one poll of a caller's future or of Scheduler::run is one step, except  *)
(* where a blocking thread can take the state lock in the middle of it:    *)
(* Shared::execute releases the lock between acquire and spawn_blocking,   *)
(* which is the phase "admitted".  A blocking thread runs the closure of   *)
(* execute, one lock operation at a time.                                  *)
(*                                                                         *)
(* A request is one call of Client::system_one; a client that repeats its  *)
(* request is another element of Requests, as in the code, which neither   *)
(* deduplicates nor retries.                                               *)
(***************************************************************************)
EXTENDS Integers, FiniteSets

CONSTANTS
  Requests,          \* calls of Client::system_one
  Slots,             \* sessions.len(), also the permits of the semaphore
  Capacity,          \* queue_capacity
  QueueTimeout,      \* queue_timeout, in ticks of the clock
  InferenceTimeout,  \* inference_timeout, in ticks of the clock
  ClockMayOverflow,  \* may Instant::checked_add return None?
  EngineResults,     \* what the engine may return when it does not panic
  MaxDrops           \* how often the future of run may be dropped

ASSUME SlotsAssumption    == Slots \in Nat \ {0}
ASSUME CapacityAssumption == Capacity \in Nat
ASSUME TimeoutAssumption  == /\ QueueTimeout \in Nat \ {0}
                             /\ InferenceTimeout \in Nat \ {0}
ASSUME OverflowAssumption == ClockMayOverflow \in BOOLEAN
ASSUME ResultsAssumption  == EngineResults \subseteq {"ok", "error"}
ASSUME DropsAssumption    == MaxDrops \in Nat

VARIABLES
  accepting, waiting, inflight,  \* struct State
  free,       \* permits of the semaphore nobody holds
  permit,     \* per request: its acquire future and the permit it obtained
  ahead,      \* per request: the waiters registered before it
  pc,         \* per request: where the caller's future stands
  left,       \* per request: ticks to the deadline it is waiting for
  outcome,    \* per request: what the caller was told
  task,       \* per request: the blocking task that works for it
  ended,      \* per request: how the work ended
  reply,      \* per request: the oneshot channel back to the caller
  sessions,   \* Resources::sessions, the loaded sessions not in use
  drv,        \* the future of Dispatcher::run
  driver,     \* State::driver holds a waker
  joinWaker,  \* the JoinSet holds a waker
  failure,    \* Dispatcher::failure holds a JoinError
  reported,   \* what run returned
  drops       \* times the future of run was dropped

gaugeVars  == <<waiting, inflight>>
permitVars == <<free, permit, ahead>>
callerVars == <<pc, left, outcome>>
workVars   == <<task, ended, reply, sessions>>
driverVars == <<drv, driver, joinWaker, failure, reported, drops>>
vars == <<accepting, gaugeVars, permitVars, callerVars, workVars, driverVars>>

Outcomes == {"none", "ok", "inference", "task_failed", "queue_full", "queue_timeout",
             "inference_timeout", "unavailable", "cancelled"}

\* The gauges are usize in the code: that they never wrap is GaugesExact.
GaugeTypes == accepting \in BOOLEAN /\ waiting \in Int /\ inflight \in Int

PermitTypes ==
  /\ free \in Nat
  /\ permit \in [Requests -> {"none", "queued", "granted", "held"}]
  /\ ahead \in [Requests -> SUBSET Requests]

CallerTypes ==
  /\ pc \in [Requests -> {"idle", "waiting", "admitted", "executing", "done"}]
  /\ left \in [Requests -> Nat]
  /\ outcome \in [Requests -> Outcomes]

WorkTypes ==
  /\ task \in [Requests -> {"none", "spawned", "running", "unwinding", "returned", "counted",
                            "released", "sent", "finished", "joined"}]
  /\ ended \in [Requests -> {"none", "ok", "error", "no_session", "panic"}]
  /\ reply \in [Requests -> {"empty", "ok", "inference", "unavailable", "dropped"}]
  /\ sessions \in Nat

DriverTypes ==
  /\ drv \in {"off", "runnable", "parked", "done"}
  /\ driver \in BOOLEAN
  /\ joinWaker \in BOOLEAN
  /\ failure \in BOOLEAN
  /\ reported \in {"none", "ok", "task_failed"}
  /\ drops \in Nat

TypeOK == GaugeTypes /\ PermitTypes /\ CallerTypes /\ WorkTypes /\ DriverTypes

Init ==
  /\ accepting = TRUE
  /\ waiting = 0
  /\ inflight = 0
  /\ free = Slots
  /\ permit = [r \in Requests |-> "none"]
  /\ ahead = [r \in Requests |-> {}]
  /\ pc = [r \in Requests |-> "idle"]
  /\ left = [r \in Requests |-> 0]
  /\ outcome = [r \in Requests |-> "none"]
  /\ task = [r \in Requests |-> "none"]
  /\ ended = [r \in Requests |-> "none"]
  /\ reply = [r \in Requests |-> "empty"]
  /\ sessions = Slots
  /\ drv = "off"
  /\ driver = FALSE
  /\ joinWaker = FALSE
  /\ failure = FALSE
  /\ reported = "none"
  /\ drops = 0

-----------------------------------------------------------------------------
(* The tokio primitives the scheduler is built on.                         *)

Queued == {r \in Requests : permit[r] = "queued"}

\* Mutant: any waiter may be woken next.
IsFirstOrNot(r) == permit[r] = "queued"

\* The semaphore wakes waiters in the order they registered.
IsFirst(r) == permit[r] = "queued" /\ ahead[r] \cap Queued = {}

\* Giving back r's permit: the first waiter gets it, or it becomes free.
GiveBack(r) ==
  /\ IF Queued = {}
     THEN /\ free' = free + 1
          /\ permit' = [permit EXCEPT ![r] = "none"]
     ELSE /\ \E q \in Requests : /\ IsFirst(q)
                                 /\ permit' = [permit EXCEPT ![r] = "none", ![q] = "granted"]
          /\ free' = free
  /\ ahead' = [ahead EXCEPT ![r] = {}]

\* Mutant: a permit granted but not yet polled for is forgotten.
DropAcquireForgets(r) ==
  /\ permit' = [permit EXCEPT ![r] = "none"]
  /\ ahead' = [ahead EXCEPT ![r] = {}]
  /\ free' = free

\* Dropping an acquire future: a waiter leaves the queue, a permit already
\* granted to it is given back, after close there may be nothing to undo.
DropAcquire(r) ==
  IF permit[r] = "granted"
  THEN GiveBack(r)
  ELSE /\ permit' = [permit EXCEPT ![r] = "none"]
       /\ ahead' = [ahead EXCEPT ![r] = {}]
       /\ free' = free

\* Another async step may not run in the middle of a caller's poll.
AsyncIdle == \A r \in Requests : pc[r] # "admitted"

\* Mutant: the waker stays where it is.
WakeDriverNever == UNCHANGED <<driver, drv>>

\* state.driver.take().wake(): only a parked future of run notices.
WakeDriver ==
  /\ driver' = FALSE
  /\ drv' = IF driver /\ drv = "parked" THEN "runnable" ELSE drv

\* Closing the semaphore empties its queue; permits that were granted stay
\* with their waiters.
CloseSemaphore ==
  permit' = [r \in Requests |-> IF permit[r] = "queued" THEN "none" ELSE permit[r]]

\* Shared::close
ShutAdmission ==
  /\ accepting' = FALSE
  /\ CloseSemaphore
  /\ WakeDriver

-----------------------------------------------------------------------------
(* A caller's future: Client::system_one, Shared::execute, Shared::acquire *)

Answer(r, o) ==
  /\ pc' = [pc EXCEPT ![r] = "done"]
  /\ left' = [left EXCEPT ![r] = 0]
  /\ outcome' = [outcome EXCEPT ![r] = o]

\* Waiting::start
Admit(r) ==
  /\ inflight' = inflight + 1
  /\ permit' = [permit EXCEPT ![r] = "held"]
  /\ pc' = [pc EXCEPT ![r] = "admitted"]
  /\ left' = [left EXCEPT ![r] = InferenceTimeout]
  /\ UNCHANGED outcome

Arrive(r) == AsyncIdle /\ pc[r] = "idle" /\ UNCHANGED <<accepting, workVars, driverVars>>

\* The first poll after admission was closed.
ArriveClosed(r) ==
  /\ Arrive(r)
  /\ ~accepting
  /\ Answer(r, "unavailable")
  /\ UNCHANGED <<gaugeVars, permitVars>>

\* Mutant: the caller does not ask whether a permit is left.
ArriveStartAnyway(r) ==
  /\ Arrive(r)
  /\ accepting
  /\ free' = free - 1
  /\ ahead' = [ahead EXCEPT ![r] = Queued]
  /\ Admit(r)
  /\ UNCHANGED waiting

\* The first poll finds a free slot: the request never counts as waiting.
ArriveStart(r) ==
  /\ Arrive(r)
  /\ accepting
  /\ free > 0
  /\ free' = free - 1
  /\ ahead' = [ahead EXCEPT ![r] = Queued]
  /\ Admit(r)
  /\ UNCHANGED waiting

ArriveFull(r) ==
  /\ Arrive(r)
  /\ accepting
  /\ free = 0
  /\ waiting = Capacity
  /\ Answer(r, "queue_full")
  /\ UNCHANGED <<gaugeVars, permitVars>>

\* The queue has room: the request waits for its slot with a deadline.
ArriveQueue(r) ==
  /\ Arrive(r)
  /\ accepting
  /\ free = 0
  /\ waiting # Capacity
  /\ waiting' = waiting + 1
  /\ permit' = [permit EXCEPT ![r] = "queued"]
  /\ ahead' = [ahead EXCEPT ![r] = Queued]
  /\ pc' = [pc EXCEPT ![r] = "waiting"]
  /\ left' = [left EXCEPT ![r] = QueueTimeout]
  /\ UNCHANGED <<inflight, free, outcome>>

\* The deadline of the slot just found, or of the queue, cannot be computed.
ArriveOverflow(r) ==
  /\ Arrive(r)
  /\ accepting
  /\ ClockMayOverflow
  /\ free > 0 \/ waiting # Capacity
  /\ Answer(r, "unavailable")
  /\ UNCHANGED <<gaugeVars, permitVars>>

\* A later poll of a waiting request, and the drop of its Waiting entry.
Wait(r) == AsyncIdle /\ pc[r] = "waiting" /\ UNCHANGED <<accepting, workVars, driverVars>>

\* Mutant: Waiting has no destructor.
LeaveQueueUncounted(r) == DropAcquire(r) /\ UNCHANGED gaugeVars

LeaveQueue(r) ==
  /\ DropAcquire(r)
  /\ waiting' = waiting - 1
  /\ UNCHANGED inflight

WaitClosed(r) ==
  /\ Wait(r)
  /\ ~accepting
  /\ Answer(r, "unavailable")
  /\ LeaveQueue(r)

\* Mutant: the deadline is looked at before admission is.
WaitExpiredFirst(r) ==
  /\ Wait(r)
  /\ left[r] = 0
  /\ Answer(r, "queue_timeout")
  /\ LeaveQueue(r)

WaitExpired(r) ==
  /\ Wait(r)
  /\ accepting
  /\ left[r] = 0
  /\ Answer(r, "queue_timeout")
  /\ LeaveQueue(r)

WaitStart(r) ==
  /\ Wait(r)
  /\ accepting
  /\ left[r] > 0
  /\ permit[r] = "granted"
  /\ Admit(r)
  /\ waiting' = waiting - 1
  /\ UNCHANGED <<free, ahead>>

WaitOverflow(r) ==
  /\ Wait(r)
  /\ accepting
  /\ left[r] > 0
  /\ permit[r] = "granted"
  /\ ClockMayOverflow
  /\ Answer(r, "unavailable")
  /\ LeaveQueue(r)

\* The client disconnects and its future is dropped while it waits for a slot.
CancelWaiting(r) ==
  /\ Wait(r)
  /\ Answer(r, "cancelled")
  /\ LeaveQueue(r)

\* Mutant: admission is not looked at again before the task is spawned.
SpawnUnchecked(r) ==
  /\ pc[r] = "admitted"
  /\ task' = [task EXCEPT ![r] = "spawned"]
  /\ pc' = [pc EXCEPT ![r] = "executing"]
  /\ WakeDriver
  /\ UNCHANGED <<accepting, gaugeVars, permitVars, left, outcome, ended, reply, sessions,
                 joinWaker, failure, reported, drops>>

\* execute takes the lock again and hands the slot to a blocking task.
Spawn(r) ==
  /\ pc[r] = "admitted"
  /\ accepting
  /\ task' = [task EXCEPT ![r] = "spawned"]
  /\ pc' = [pc EXCEPT ![r] = "executing"]
  /\ WakeDriver
  /\ UNCHANGED <<accepting, gaugeVars, permitVars, left, outcome, ended, reply, sessions,
                 joinWaker, failure, reported, drops>>

\* A blocking thread closed admission since acquire: Running is dropped.
SpawnRefused(r) ==
  /\ pc[r] = "admitted"
  /\ ~accepting
  /\ inflight' = inflight - 1
  /\ GiveBack(r)
  /\ Answer(r, "unavailable")
  /\ UNCHANGED <<accepting, waiting, workVars, driverVars>>

Execute(r) == AsyncIdle /\ pc[r] = "executing"

\* Mutant: the deadline is looked at only when there is a reply.
AwaitExpiredLate(r) ==
  /\ Execute(r)
  /\ left[r] = 0
  /\ reply[r] # "empty"
  /\ Answer(r, "inference_timeout")
  /\ UNCHANGED <<accepting, gaugeVars, permitVars, workVars, driverVars>>

AwaitExpired(r) ==
  /\ Execute(r)
  /\ left[r] = 0
  /\ Answer(r, "inference_timeout")
  /\ UNCHANGED <<accepting, gaugeVars, permitVars, workVars, driverVars>>

AwaitReply(r) ==
  /\ Execute(r)
  /\ left[r] > 0
  /\ reply[r] # "empty"
  /\ Answer(r, IF reply[r] = "dropped" THEN "task_failed" ELSE reply[r])
  /\ UNCHANGED <<accepting, gaugeVars, permitVars, workVars, driverVars>>

\* The client disconnects: only the receiving end of the channel goes away.
CancelExecuting(r) ==
  /\ Execute(r)
  /\ Answer(r, "cancelled")
  /\ UNCHANGED <<accepting, gaugeVars, permitVars, workVars, driverVars>>

-----------------------------------------------------------------------------
(* The blocking task of a request: the closure passed to spawn_blocking.   *)

Work(r) == UNCHANGED <<callerVars, waiting>>

TakeSession(r) ==
  /\ Work(r)
  /\ task[r] = "spawned"
  /\ IF sessions > 0
     THEN /\ sessions' = sessions - 1
          /\ task' = [task EXCEPT ![r] = "running"]
          /\ UNCHANGED <<ended, accepting, permit, drv, driver>>
     ELSE /\ task' = [task EXCEPT ![r] = "returned"]
          /\ ended' = [ended EXCEPT ![r] = "no_session"]
          /\ ShutAdmission
          /\ UNCHANGED sessions
  /\ UNCHANGED <<inflight, free, ahead, reply, joinWaker, failure, reported, drops>>

\* The engine returns, with a response or an error; the session goes back.
Finish(r) ==
  /\ Work(r)
  /\ task[r] = "running"
  /\ \E e \in EngineResults : ended' = [ended EXCEPT ![r] = e]
  /\ sessions' = sessions + 1
  /\ task' = [task EXCEPT ![r] = "returned"]
  /\ UNCHANGED <<accepting, inflight, permitVars, reply, driverVars>>

\* The engine panics and the session is dropped by the unwinding.
Panic(r) ==
  /\ Work(r)
  /\ task[r] = "running"
  /\ ended' = [ended EXCEPT ![r] = "panic"]
  /\ task' = [task EXCEPT ![r] = "unwinding"]
  /\ UNCHANGED <<accepting, inflight, permitVars, reply, sessions, driverVars>>

\* Mutant: Running::drop does not ask whether the thread panics.
PanicCloseNever(r) ==
  /\ Work(r)
  /\ task[r] = "unwinding"
  /\ task' = [task EXCEPT ![r] = "returned"]
  /\ UNCHANGED <<accepting, inflight, permitVars, ended, reply, sessions, driverVars>>

\* Running is dropped while the thread panics: admission closes first.
PanicClose(r) ==
  /\ Work(r)
  /\ task[r] = "unwinding"
  /\ ShutAdmission
  /\ task' = [task EXCEPT ![r] = "returned"]
  /\ UNCHANGED <<inflight, free, ahead, ended, reply, sessions, joinWaker, failure, reported,
                 drops>>

\* Running::drop counts the slot as free ...
DropRunning(r) ==
  /\ Work(r)
  /\ task[r] = "returned"
  /\ inflight' = inflight - 1
  /\ task' = [task EXCEPT ![r] = "counted"]
  /\ UNCHANGED <<accepting, permitVars, ended, reply, sessions, driverVars>>

\* Mutant: the permit comes back only if the caller still waits.
ReleasePermitIfWatched(r) ==
  /\ Work(r)
  /\ task[r] = "counted"
  /\ IF pc[r] = "executing" THEN GiveBack(r) ELSE UNCHANGED permitVars
  /\ task' = [task EXCEPT ![r] = "released"]
  /\ UNCHANGED <<accepting, inflight, ended, reply, sessions, driverVars>>

\* ... and then its field _permit is dropped.
ReleasePermit(r) ==
  /\ Work(r)
  /\ task[r] = "counted"
  /\ GiveBack(r)
  /\ task' = [task EXCEPT ![r] = "released"]
  /\ UNCHANGED <<accepting, inflight, ended, reply, sessions, driverVars>>

ReplyFor(e) ==
  CASE e = "ok"         -> "ok"
    [] e = "error"      -> "inference"
    [] e = "no_session" -> "unavailable"
    [] OTHER            -> "dropped"

\* Mutant: the result is sent before the slot is given back.
SendFirst(r) ==
  /\ Work(r)
  /\ task[r] = "returned"
  /\ reply[r] = "empty"
  /\ reply' = [reply EXCEPT ![r] = IF pc[r] = "executing" THEN ReplyFor(ended[r]) ELSE @]
  /\ UNCHANGED <<accepting, inflight, permitVars, task, ended, sessions, driverVars>>

\* send.send(result), or the drop of the sender by the unwinding.  Without a
\* receiver the result is dropped here.
Send(r) ==
  /\ Work(r)
  /\ task[r] = "released"
  /\ reply' = [reply EXCEPT ![r] = IF pc[r] = "executing" THEN ReplyFor(ended[r]) ELSE @]
  /\ task' = [task EXCEPT ![r] = "sent"]
  /\ UNCHANGED <<accepting, inflight, permitVars, ended, sessions, driverVars>>

\* The runtime marks the task finished and wakes whoever polls the JoinSet.
Complete(r) ==
  /\ Work(r)
  /\ task[r] = "sent"
  /\ task' = [task EXCEPT ![r] = "finished"]
  /\ joinWaker' = FALSE
  /\ drv' = IF joinWaker /\ drv = "parked" THEN "runnable" ELSE drv
  /\ UNCHANGED <<accepting, inflight, permitVars, ended, reply, sessions, driver, failure,
                 reported, drops>>

-----------------------------------------------------------------------------
(* The future of Dispatcher::run.                                          *)

\* Mutant: only finished tasks keep run going.
TrackedFinished(r) == task[r] = "finished"

Tracked(r)  == task[r] \notin {"none", "joined"}
Unreaped(r) == task[r] = "finished"

Drive == AsyncIdle /\ UNCHANGED <<gaugeVars, free, ahead, callerVars, ended, reply, sessions>>

DriverStart ==
  /\ Drive
  /\ drv = "off"
  /\ drv' = "runnable"
  /\ UNCHANGED <<accepting, permit, task, driver, joinWaker, failure, reported, drops>>

\* Mutant: the failure is a local variable of run.
DriverDropForgets ==
  /\ Drive
  /\ drv \in {"runnable", "parked"}
  /\ drops < MaxDrops
  /\ drops' = drops + 1
  /\ drv' = "off"
  /\ failure' = FALSE
  /\ UNCHANGED <<accepting, permit, task, driver, joinWaker, reported>>

\* The future of run is dropped, its state stays in the Dispatcher.
DriverDrop ==
  /\ Drive
  /\ drv \in {"runnable", "parked"}
  /\ drops < MaxDrops
  /\ drops' = drops + 1
  /\ drv' = "off"
  /\ UNCHANGED <<accepting, permit, task, driver, joinWaker, failure, reported>>

\* One turn of the loop: a finished task is joined.  A panic closes admission,
\* and the waker just registered wakes the future that is being polled.
DriverJoin(r) ==
  /\ Drive
  /\ drv = "runnable"
  /\ Unreaped(r)
  /\ task' = [task EXCEPT ![r] = "joined"]
  /\ driver' = (ended[r] # "panic")
  /\ failure' = (failure \/ ended[r] = "panic")
  /\ IF ended[r] = "panic"
     THEN accepting' = FALSE /\ CloseSemaphore
     ELSE UNCHANGED <<accepting, permit>>
  /\ joinWaker' = TRUE
  /\ UNCHANGED <<drv, reported, drops>>

\* Nothing to join yet, or nothing to join and admission still open.  Only the
\* poll of a set with tasks registers the waker with the JoinSet.
DriverPark ==
  /\ Drive
  /\ drv = "runnable"
  /\ \A r \in Requests : ~Unreaped(r)
  /\ accepting \/ \E r \in Requests : Tracked(r)
  /\ drv' = "parked"
  /\ driver' = TRUE
  /\ joinWaker' = (joinWaker \/ \E r \in Requests : Tracked(r))
  /\ UNCHANGED <<accepting, permit, task, failure, reported, drops>>

DriverDone ==
  /\ Drive
  /\ drv = "runnable"
  /\ \A r \in Requests : ~Tracked(r)
  /\ ~accepting
  /\ drv' = "done"
  /\ driver' = TRUE
  /\ failure' = FALSE
  /\ reported' = IF failure THEN "task_failed" ELSE "ok"
  /\ UNCHANGED <<accepting, permit, task, joinWaker, drops>>

-----------------------------------------------------------------------------
(* The owner of the service and the clock.                                 *)

\* Client::close, called by the server.
Close ==
  /\ AsyncIdle
  /\ ShutAdmission
  /\ UNCHANGED <<gaugeVars, free, ahead, callerVars, workVars, joinWaker, failure, reported,
                 drops>>

\* The monotonic clock: every deadline a caller waits for comes one tick nearer.
Elapse == left' = [r \in Requests |-> IF left[r] > 0 THEN left[r] - 1 ELSE 0]

Tick ==
  /\ \E r \in Requests : left[r] > 0
  /\ Elapse
  /\ UNCHANGED <<accepting, gaugeVars, permitVars, pc, outcome, workVars, driverVars>>

-----------------------------------------------------------------------------
CallerStep(r) ==
  \/ ArriveClosed(r) \/ ArriveStart(r) \/ ArriveFull(r) \/ ArriveQueue(r) \/ ArriveOverflow(r)
  \/ WaitClosed(r) \/ WaitExpired(r) \/ WaitStart(r) \/ WaitOverflow(r)
  \/ Spawn(r) \/ SpawnRefused(r)
  \/ AwaitExpired(r) \/ AwaitReply(r)

Cancel(r) == CancelWaiting(r) \/ CancelExecuting(r)

WorkStep(r) ==
  \/ TakeSession(r) \/ Finish(r) \/ Panic(r) \/ PanicClose(r)
  \/ DropRunning(r) \/ ReleasePermit(r) \/ Send(r) \/ Complete(r)

DriverStep == DriverStart \/ DriverDrop \/ DriverPark \/ DriverDone \/ \E r \in Requests : DriverJoin(r)

Next ==
  \/ \E r \in Requests : CallerStep(r) \/ Cancel(r) \/ WorkStep(r)
  \/ DriverStep
  \/ Close
  \/ Tick

Spec == Init /\ [][Next]_vars

-----------------------------------------------------------------------------
(* Fairness.                                                               *)

\* The clock advances, and tokio polls a future it has woken: the semaphore,
\* the timer and the channel wake the caller whenever one of these can run.
\* Nothing is asked of the blocking threads: an engine call may never return.
CallerFairness ==
  /\ WF_vars(Tick)
  /\ \A r \in Requests :
       /\ WF_vars(WaitClosed(r) \/ WaitExpired(r) \/ WaitStart(r) \/ WaitOverflow(r))
       /\ WF_vars(Spawn(r) \/ SpawnRefused(r))
       /\ WF_vars(AwaitExpired(r) \/ AwaitReply(r))

\* A blocking thread runs its closure to the end, and the engine returns.
WorkFairness ==
  \A r \in Requests :
    /\ WF_vars(TakeSession(r) \/ PanicClose(r) \/ DropRunning(r) \/ ReleasePermit(r))
    /\ WF_vars(Finish(r) \/ Panic(r))
    /\ WF_vars(Send(r) \/ Complete(r))

\* The owner drives run, as the doc comment of Scheduler demands; run is
\* polled when it has been woken.
DriverFairness ==
  /\ WF_vars(DriverStart)
  /\ WF_vars(DriverPark)
  /\ WF_vars(DriverDone)
  /\ \A r \in Requests : WF_vars(DriverJoin(r))

CallerSpec == Spec /\ CallerFairness

-----------------------------------------------------------------------------
(* What admission promises.                                                *)

Owners  == {r \in Requests : permit[r] \in {"granted", "held"}}
Waiters == {r \in Requests : pc[r] = "waiting"}

\* A slot is counted from acquire until the blocking task has dropped Running.
Counted == {r \in Requests : \/ pc[r] = "admitted"
                             \/ task[r] \in {"spawned", "running", "unwinding", "returned"}}

\* No permit is lost or made up: every slot is free or owned by one request,
\* whichever way calls, timeouts, cancellations and panics interleave.
PermitsConserved == free + Cardinality(Owners) = Slots

\* The gauges of State, read by /metrics and compared with queue_capacity, count
\* the callers in Waiting and the slots in Running at every moment.
GaugesExact ==
  /\ waiting = Cardinality(Waiters)
  /\ inflight = Cardinality(Counted)

\* The two limits of the service hold together with the lag between the count
\* and the permit: a slot is counted free before its permit comes back.
Bounded == waiting <= Capacity /\ inflight <= Slots

\* The counters say at every moment what is waiting and what is in use, and so
\* keep both limits: no decrement wraps and no arrival is turned away by mistake.
GaugesHold == GaugesExact /\ Bounded

\* No slot is idle while a request waits for one.
NoIdleSlot == Queued # {} => free = 0

\* First come, first served: nobody owns a slot while a request that queued
\* before its arrival is still in the queue, not even one that never queued.
NoOvertaking == \A r \in Owners : ahead[r] \cap Queued = {}

\* The queue is fair to those in it: a slot goes to the earliest of them as soon as
\* it is free, whichever way timeouts, cancellations and newcomers interleave.
FairQueue == NoIdleSlot /\ NoOvertaking

\* A started task always finds a session: the pop of Client::system_one cannot
\* fail, because the permit of a lost session is offered only after close.
SessionReady == \A r \in Requests : task[r] = "spawned" => sessions > 0

\* A caller that has its reply has given its slot back (run with an empty queue,
\* a client that calls again at once is not turned away by its own last call).
SlotFreedBeforeReply ==
  \A r \in Requests :
    reply[r] # "empty" \/ outcome[r] \in {"ok", "inference", "task_failed"}
      => r \notin Owners \cup Counted

\* A request refused for any reason never runs and owns nothing afterwards.
RejectedNeverRuns ==
  \A r \in Requests :
    outcome[r] \in {"queue_full", "queue_timeout", "unavailable"}
      => task[r] = "none" /\ permit[r] = "none"

\* An answer tells the caller the truth about its slot: refused, it never had one
\* to the end; answered, it has given it back.
HonestAnswers == RejectedNeverRuns /\ SlotFreedBeforeReply

\* A panic in the engine is reported by run, also if the future of run that saw
\* it was dropped and run was called again.
FailureReported ==
  \A r \in Requests :
    ended[r] = "panic" /\ task[r] = "joined" => failure \/ reported = "task_failed"

\* When run returns, all work is over, and none can begin.
DrainedWhenDone ==
  drv = "done" => ~accepting /\ inflight = 0 /\ \A r \in Requests : ~Tracked(r)

\* A parked run will be woken by whatever it has to act on: there is nothing to
\* reap, nothing to return for, and the wakers that announce both are in place.
NoLostWakeup ==
  drv = "parked" =>
    /\ \A r \in Requests : ~Unreaped(r)
    /\ accepting \/ \E r \in Requests : Tracked(r)

\* The future of run neither ends too early nor sleeps for ever: it returns with
\* nothing left to do, and is woken as long as there is something.
RunStopsRight == DrainedWhenDone /\ NoLostWakeup

\* After close a waiting request is answered unavailable, whatever its deadline.
OnlyUnavailableAfterClose ==
  [][\A r \in Requests :
       ~accepting /\ pc[r] = "waiting" /\ pc'[r] # "waiting"
         => outcome'[r] \in {"unavailable", "cancelled"}]_vars

\* Nothing starts once admission is closed, not even a request that had its slot
\* when a blocking thread closed it.
NothingStartsAfterClose ==
  [][~accepting => \A r \in Requests : task[r] = "none" => task'[r] = "none"]_vars

\* Every call is answered within its deadlines although the engine may hang.
EveryCallerAnswered ==
  \A r \in Requests : pc[r] \in {"waiting", "executing"} ~> pc[r] = "done"

\* Once admission is closed and the engine returns, run returns.
ClosedDrains == WorkFairness /\ DriverFairness => (~accepting ~> drv = "done")

\* A slot comes back although its caller timed out or left.
SlotComesBack ==
  WorkFairness => \A r \in Requests : pc[r] = "admitted" ~> permit[r] = "none"

\* Every finished task is joined: handles of late results do not pile up.
FinishedReaped ==
  WorkFairness /\ DriverFairness => \A r \in Requests : task[r] = "finished" ~> task[r] = "joined"

\* Nothing of a call stays behind: neither its slot nor the handle of its task.
WorkIsCollected == SlotComesBack /\ FinishedReaped
=============================================================================
