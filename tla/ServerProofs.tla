---------------------------- MODULE ServerProofs ----------------------------
(***************************************************************************)
(* What the exit status of the process says, and when HTTP is told to      *)
(* stop, for every number of requests and slots, every grace period and    *)
(* every pair of timeouts.                                                 *)
(*                                                                         *)
(* Between two selects a step of Server is, for the scheduler, a step of   *)
(* its own (SchedulerStep), so the invariants of SchedulerProofs are kept  *)
(* by the same lemmas.  Only the select drops a future of run that has not *)
(* returned or calls run again after it has: that step is treated apart,   *)
(* and it is why the failure of a task is tracked only as long as nothing  *)
(* else has already made the exit status a failure.                        *)
(***************************************************************************)
EXTENDS Server, SchedulerProofs

USE DEF gaugeVars, permitVars, callerVars, workVars, driverVars, serverVars, schedulerVars

\* select, drain, exit, in this order; HTTP is told to stop when run has returned.
StageInv ==
  /\ result = "none" <=> stage = "select"
  /\ stopSent => stage # "select" /\ drv = "done"
  /\ exit = "success" => stage = "returned"

\* A request whose connection is not open has not called the scheduler, or has
\* its answer.
ConnectionInv == \A r \in Requests : conn[r] # "open" => pc[r] \in {"idle", "done"}

\* HTTP serves until the select is over; ended because it was told to, it has
\* closed every connection.
HttpInv ==
  /\ stage = "select" => http = "serving"
  /\ http = "done" /\ result = "ok" => stopSent /\ \A r \in Requests : conn[r] # "open"

SchedulerInv == TypeOK /\ Coherence /\ PermitInv /\ GaugeInv /\ DoneInv

\* A panic nobody has reported yet is still known to run.
KnownFailure == result \in {"none", "ok"} => FailureInv

\* The process leaves with success only from the state CleanExit describes.
ExitInv == exit = "success" => /\ stopSent /\ http = "done" /\ result = "ok"
                               /\ reported # "task_failed"

ServerInv ==
  ServerTypeOK /\ StageInv /\ ConnectionInv /\ HttpInv /\ SchedulerInv /\ KnownFailure /\ ExitInv

Selects == SelectStop \/ SelectHttp \/ SelectRun

\* Between two selects the scheduler takes its own steps, or none.
LEMMA SchedulerStep ==
  ASSUME [ServerNext]_allVars, TypeOK
  PROVE  ([Next]_vars /\ result' = result) \/ Selects
<1>1. ASSUME NEW r \in Requests, Connect(r) PROVE [Next]_vars /\ result' = result
  BY <1>1 DEF Connect
<1>2. ASSUME NEW r \in Requests, Handle(r) PROVE [Next]_vars /\ result' = result
  BY <1>2 DEF Handle, Next
<1>3. ASSUME NEW r \in Requests, Abandon(r) PROVE [Next]_vars /\ result' = result
  BY <1>3 DEF Abandon, Next
<1>4. ASSUME NEW r \in Requests, Disconnect(r) PROVE [Next]_vars /\ result' = result
  BY <1>4 DEF Disconnect
<1>5. ASSUME NEW r \in Requests, Background(r) PROVE [Next]_vars /\ result' = result
  BY <1>5 DEF Background, Next
<1>6. ASSUME Begin PROVE [Next]_vars /\ result' = result
  BY <1>6 DEF Begin, Next, DriverStep
<1>7. ASSUME DriveRun PROVE [Next]_vars /\ result' = result
  BY <1>7 DEF DriveRun, Next, DriverStep
<1>8. ASSUME Shutdown PROVE [Next]_vars /\ result' = result
  BY <1>8 DEF Shutdown, SendStop, HttpEnds, HttpFails, Drained, ForceExit, Drain
<1>9. ASSUME ServerTick PROVE [Next]_vars /\ result' = result
  <2>1. CASE \E r \in Requests : left[r] > 0
    <3>1. Tick
      BY <1>9, <2>1 DEF ServerTick, Tick
    <3>2. QED
      BY <1>9, <3>1 DEF Next, ServerTick
  <2>2. CASE \A r \in Requests : ~(left[r] > 0)
    <3>1. left' = left
      BY <1>9, <2>2 DEF ServerTick, Elapse, TypeOK, CallerTypes
    <3>2. QED
      BY <1>9, <3>1 DEF ServerTick, vars
  <2>3. QED
    BY <2>1, <2>2
<1>10. ASSUME UNCHANGED allVars PROVE [Next]_vars /\ result' = result
  BY <1>10 DEF allVars
<1>11. QED
  BY <1>1, <1>2, <1>3, <1>4, <1>5, <1>6, <1>7, <1>8, <1>9, <1>10
     DEF ServerNext, Client, Serve, Selects

\* The select changes the scheduler as Close does, and calls run again.
LEMMA SelectKeeps ==
  ASSUME SchedulerInv, NEW ending \in {"ok", "failed"}, Select(ending)
  PROVE  SchedulerInv'
<1>1. TypeOK'
  BY DEF Select, CloseSemaphore, SchedulerInv, TypeOK, GaugeTypes, PermitTypes, CallerTypes,
     WorkTypes, DriverTypes
<1>2. Coherence'
  BY DEF Select, CloseSemaphore, SchedulerInv, TypeOK, PermitTypes, Coherence, Coherent,
     Holding, Over
<1>3. Owners' = Owners /\ Waiters' = Waiters /\ Counted' = Counted
  BY DEF Select, CloseSemaphore, SchedulerInv, TypeOK, PermitTypes, Owners, Waiters, Counted
<1>4. PermitInv'
  BY <1>3 DEF Select, SchedulerInv, PermitInv, PermitsConserved
<1>5. GaugeInv'
  BY <1>3 DEF Select, SchedulerInv, GaugeInv, GaugesExact
<1>6. DoneInv'
  BY DEF Select, DoneInv
<1>7. QED
  BY <1>1, <1>2, <1>4, <1>5, <1>6 DEF SchedulerInv

\* Every step of the process keeps what the scheduler guarantees.
LEMMA SchedulerInvKept ==
  ASSUME ServerTypeOK, SchedulerInv, [ServerNext]_allVars
  PROVE  SchedulerInv'
<1>1. CASE [Next]_vars
  <2>1. TypeOK' /\ Coherence'
    BY <1>1, TypeKept, CoherenceKept DEF SchedulerInv
  <2>2. PermitInv' /\ GaugeInv' /\ DoneInv'
    BY <1>1, PermitKept, GaugeKept, DoneKept DEF SchedulerInv
  <2>3. QED
    BY <2>1, <2>2 DEF SchedulerInv
<1>2. CASE Selects
  <2>1. PICK ending \in {"ok", "failed"} : Select(ending)
    BY <1>2 DEF Selects, SelectStop, SelectHttp, SelectRun
  <2>2. QED
    BY <2>1, SelectKeeps
<1>3. QED
  BY <1>1, <1>2, SchedulerStep DEF SchedulerInv

\* A panic run has joined is not forgotten while the exit status may still be a
\* success, not even by the select that drops the future of run.
LEMMA KnownFailureKept ==
  ASSUME ServerTypeOK, StageInv, KnownFailure, [ServerNext]_allVars
  PROVE  KnownFailure'
<1>1. CASE [Next]_vars /\ result' = result
  BY <1>1, FailureKept DEF KnownFailure, ServerTypeOK
<1>2. CASE Selects
  <2>1. PICK ending \in {"ok", "failed"} :
          Select(ending) /\ (ending = "ok" => drv # "done")
    BY <1>2 DEF Selects, SelectStop, SelectHttp, SelectRun
  <2>2. result = "none"
    BY <2>1 DEF Select, StageInv
  <2>3. SUFFICES ASSUME ending = "ok" PROVE FailureInv'
    BY <2>1 DEF KnownFailure, Select
  <2>4. FailureInv
    BY <2>2 DEF KnownFailure
  <2>5. QED
    BY <2>1, <2>3, <2>4 DEF Select, FailureInv, FailureReported
<1>3. QED
  BY <1>1, <1>2, SchedulerStep DEF ServerTypeOK

-----------------------------------------------------------------------------
\* What the steps of the scheduler leave alone.

\* A call that is made, polled or dropped changes no other call and does not end
\* or restart run.
LEMMA CallerFrame ==
  ASSUME TypeOK, NEW r \in Requests, CallerStep(r) \/ Cancel(r)
  PROVE  /\ \A q \in Requests \ {r} : pc'[q] = pc[q]
         /\ drv = "done" => drv' = "done"
         /\ reported' = reported
<1> USE DEF TypeOK, CallerTypes, DriverTypes
<1>1. CASE ArriveClosed(r) \/ ArriveFull(r) \/ ArriveOverflow(r)
  BY <1>1 DEF ArriveClosed, ArriveFull, ArriveOverflow, Arrive, Answer
<1>2. CASE ArriveStart(r) \/ ArriveQueue(r)
  BY <1>2 DEF ArriveStart, ArriveQueue, Arrive, Admit
<1>3. CASE WaitClosed(r) \/ WaitExpired(r) \/ WaitOverflow(r) \/ CancelWaiting(r)
  BY <1>3 DEF WaitClosed, WaitExpired, WaitOverflow, CancelWaiting, Wait, Answer
<1>4. CASE WaitStart(r)
  BY <1>4 DEF WaitStart, Wait, Admit
<1>5. CASE Spawn(r)
  BY <1>5 DEF Spawn, WakeDriver
<1>6. CASE SpawnRefused(r)
  BY <1>6 DEF SpawnRefused, Answer
<1>7. CASE AwaitExpired(r) \/ AwaitReply(r) \/ CancelExecuting(r)
  BY <1>7 DEF AwaitExpired, AwaitReply, CancelExecuting, Answer
<1>8. QED
  BY <1>1, <1>2, <1>3, <1>4, <1>5, <1>6, <1>7 DEF CallerStep, Cancel

\* A call that is dropped is over.
LEMMA CancelEnds ==
  ASSUME TypeOK, NEW r \in Requests, Cancel(r)
  PROVE  pc'[r] = "done"
BY DEF TypeOK, CallerTypes, Cancel, CancelWaiting, CancelExecuting, Answer

\* A blocking thread touches no caller, and does not end or restart run.
LEMMA WorkFrame ==
  ASSUME TypeOK, NEW r \in Requests, WorkStep(r)
  PROVE  pc' = pc /\ (drv = "done" => drv' = "done") /\ reported' = reported
<1> USE DEF Work
<1>1. CASE TakeSession(r) \/ PanicClose(r)
  BY <1>1 DEF TakeSession, PanicClose, ShutAdmission, WakeDriver
<1>2. CASE Finish(r) \/ Panic(r) \/ DropRunning(r) \/ ReleasePermit(r) \/ Send(r)
  BY <1>2 DEF Finish, Panic, DropRunning, ReleasePermit, Send
<1>3. CASE Complete(r)
  BY <1>3 DEF Complete
<1>4. QED
  BY <1>1, <1>2, <1>3 DEF WorkStep

\* While run is polled it has not returned, and no caller runs.
LEMMA DriverFrame ==
  ASSUME Begin \/ DriveRun
  PROVE  pc' = pc /\ drv # "done" /\ UNCHANGED <<serverVars, conn>>
BY DEF Begin, DriveRun, DriverStart, DriverPark, DriverDone, DriverJoin, Drive

-----------------------------------------------------------------------------
\* The server's own invariants.
OwnInv == StageInv /\ ConnectionInv /\ HttpInv /\ ExitInv

\* Every step keeps the server's variables within their types.
LEMMA ServerTypeKept ==
  ASSUME ServerTypeOK, SchedulerInv, [ServerNext]_allVars
  PROVE  ServerTypeOK'
<1> USE GraceAssumption DEF GraceAssumption, ServerTypeOK
<1>1. TypeOK'
  BY SchedulerInvKept DEF SchedulerInv
<1>2. ASSUME NEW r \in Requests, Client(r) \/ Background(r) PROVE ServerTypeOK'
  BY <1>1, <1>2 DEF Client, Connect, Handle, Abandon, Disconnect, Background
<1>3. CASE Begin \/ DriveRun
  BY <1>1, <1>3, DriverFrame
<1>4. CASE Serve
  BY <1>1, <1>4 DEF Serve, SelectStop, SelectHttp, SelectRun, Select
<1>5. CASE Shutdown
  BY <1>1, <1>5 DEF Shutdown, SendStop, HttpEnds, HttpFails, Drained, ForceExit, Drain
<1>6. CASE ServerTick
  BY <1>1, <1>6 DEF ServerTick
<1>7. CASE UNCHANGED allVars
  BY <1>1, <1>7 DEF allVars
<1>8. QED
  BY <1>2, <1>3, <1>4, <1>5, <1>6, <1>7 DEF ServerNext

\* Every step keeps the order of select, drain and exit, and closes a connection
\* only when its call is over.
LEMMA OwnKept ==
  ASSUME ServerTypeOK, OwnInv, [ServerNext]_allVars
  PROVE  OwnInv'
<1> USE DEF OwnInv, StageInv, ConnectionInv, HttpInv, ExitInv, Alive, ServerTypeOK
<1>1. ASSUME NEW r \in Requests, Connect(r) PROVE OwnInv'
  BY <1>1 DEF Connect, vars
<1>2. ASSUME NEW r \in Requests, Handle(r) PROVE OwnInv'
  BY <1>2, CallerFrame DEF Handle
<1>3. ASSUME NEW r \in Requests, Abandon(r) PROVE OwnInv'
  BY <1>3, CallerFrame, CancelEnds DEF Abandon
<1>4. ASSUME NEW r \in Requests, Disconnect(r) PROVE OwnInv'
  BY <1>4 DEF Disconnect, vars
<1>5. ASSUME NEW r \in Requests, Background(r) PROVE OwnInv'
  BY <1>5, WorkFrame DEF Background
<1>6. CASE Begin \/ DriveRun
  BY <1>6, DriverFrame DEF Begin, DriveRun
<1>7. CASE Serve
  BY <1>7 DEF Serve, SelectStop, SelectHttp, SelectRun, Select, vars
<1>8. CASE Shutdown
  BY <1>8 DEF Shutdown, SendStop, HttpEnds, HttpFails, Drained, ForceExit, Drain, vars
<1>9. CASE ServerTick
  BY <1>9 DEF ServerTick
<1>10. CASE UNCHANGED allVars
  BY <1>10 DEF allVars, vars
<1>11. QED
  BY <1>1, <1>2, <1>3, <1>4, <1>5, <1>6, <1>7, <1>8, <1>9, <1>10 DEF ServerNext, Client

\* Everything the two theorems below rest on holds in every state of the process.
LEMMA ServerInvariant == ServerSpec => []ServerInv
<1>1. ServerInit => ServerInv
  <2> SUFFICES ASSUME ServerInit PROVE ServerInv
    OBVIOUS
  <2>1. TypeOK /\ Coherence /\ PermitInv /\ GaugeInv
    BY TypeInit, CoherenceInit, PermitInit, GaugeInit DEF ServerInit
  <2>2. DoneInv /\ FailureInv
    BY DEF ServerInit, Init, DoneInv, FailureInv, FailureReported
  <2>3. ServerTypeOK
    <3>1. grace \in 0..Grace
      BY GraceAssumption DEF ServerInit, GraceAssumption
    <3>2. conn \in [Requests -> {"none", "open", "closed"}]
      BY DEF ServerInit
    <3>3. QED
      BY <2>1, <3>1, <3>2 DEF ServerInit, ServerTypeOK
  <2>4. StageInv /\ ConnectionInv /\ HttpInv /\ ExitInv
    BY DEF ServerInit, Init, StageInv, ConnectionInv, HttpInv, ExitInv
  <2>5. QED
    BY <2>1, <2>2, <2>3, <2>4 DEF ServerInit, ServerInv, SchedulerInv, KnownFailure
<1>2. ServerInv /\ [ServerNext]_allVars => ServerInv'
  <2> SUFFICES ASSUME ServerInv, [ServerNext]_allVars PROVE ServerInv'
    OBVIOUS
  <2>1. ServerTypeOK' /\ SchedulerInv' /\ KnownFailure'
    BY ServerTypeKept, SchedulerInvKept, KnownFailureKept DEF ServerInv
  <2>2. OwnInv'
    BY OwnKept DEF ServerInv, OwnInv
  <2>3. QED
    BY <2>1, <2>2 DEF ServerInv, OwnInv
<1>3. QED
  BY <1>1, <1>2, PTL DEF ServerSpec

\* The variables of the process, those of the scheduler included, keep to their
\* types when the future of run is dropped and called again.
THEOREM ServerTypeCorrect == ServerSpec => []ServerTypeOK
<1>1. ServerInv => ServerTypeOK
  BY DEF ServerInv
<1>2. QED
  BY <1>1, ServerInvariant, PTL

\* No permit is lost and both gauges stay exact when the select drops the future
\* of run in whatever state it is, and the drain calls it again.
THEOREM AccountsOutliveTheSelect == ServerSpec => [](PermitsConserved /\ GaugesExact)
<1>1. ServerInv => PermitsConserved /\ GaugesExact
  BY DEF ServerInv, SchedulerInv, PermitInv, GaugeInv
<1>2. QED
  BY <1>1, ServerInvariant, PTL

\* HTTP is told to stop only when admission is closed, every task was reaped and
\* no call holds a slot, however the select ended.
THEOREM StopComesAfterWork == ServerSpec => []StopAfterWork
<1>1. ServerInv => StopAfterWork
  <2> SUFFICES ASSUME ServerInv, stopSent PROVE StopAfterWork
    BY DEF StopAfterWork
  <2>1. ~accepting /\ AsyncIdle /\ \A r \in Requests : ~Tracked(r)
    BY DEF ServerInv, StageInv, SchedulerInv, DoneInv
  <2>2. ASSUME NEW r \in Requests PROVE permit[r] # "held"
    BY <2>1 DEF ServerInv, SchedulerInv, Coherence, Coherent, Over, AsyncIdle, Tracked, TypeOK,
       CallerTypes
  <2>3. QED
    BY <2>1, <2>2 DEF StopAfterWork
<1>2. QED
  BY <1>1, ServerInvariant, PTL

\* A clean exit status hides nothing: no task panicked, every task was reaped,
\* every slot is back, both gauges are zero and every call was answered.
THEOREM ExitIsHonest == ServerSpec => []CleanExit
<1>1. ServerInv => CleanExit
  <2> SUFFICES ASSUME ServerInv, exit = "success" PROVE CleanExit
    BY DEF CleanExit
  <2>1. /\ stopSent /\ http = "done" /\ result = "ok" /\ reported # "task_failed"
        /\ drv = "done"
    BY DEF ServerInv, ExitInv, StageInv
  <2>2. AsyncIdle /\ \A r \in Requests : ~Tracked(r)
    BY <2>1 DEF ServerInv, SchedulerInv, DoneInv
  <2>3. \A r \in Requests : pc[r] \in {"idle", "done"}
    BY <2>1 DEF ServerInv, HttpInv, ConnectionInv
  <2>4. \A r \in Requests : ended[r] # "panic"
    BY <2>1, <2>2 DEF ServerInv, KnownFailure, FailureInv, FailureReported, Tracked
  <2>5. Waiters = {} /\ Counted = {} /\ Owners = {}
    <3>1. Waiters = {} /\ Counted = {}
      BY <2>2, <2>3 DEF Waiters, Counted, Tracked
    <3>2. ASSUME NEW r \in Requests PROVE permit[r] = "none"
      BY <2>2, <2>3 DEF ServerInv, SchedulerInv, Coherence, Coherent, Over, Tracked
    <3>3. QED
      BY <3>1, <3>2 DEF Owners
  <2>6. waiting = 0 /\ inflight = 0 /\ free = Slots
    BY <2>5, FS_EmptySet, SlotsAssumption
       DEF ServerInv, SchedulerInv, GaugeInv, GaugesExact, PermitInv, PermitsConserved, TypeOK,
           PermitTypes, SlotsAssumption
  <2>7. QED
    BY <2>1, <2>2, <2>3, <2>4, <2>6 DEF CleanExit
<1>2. QED
  BY <1>1, ServerInvariant, PTL
=============================================================================
