------------------------------- MODULE Server -------------------------------
(***************************************************************************)
(* The life of the process around the scheduler: src/src/server.rs, with   *)
(* the part of src/src/api.rs that precedes Client::system_one and the     *)
(* exit code of src/src/main.rs.                                           *)
(*                                                                         *)
(* serve polls a stop notification, the HTTP server and Scheduler::run     *)
(* until one of them ends, closes admission, and drains: run is called     *)
(* again, HTTP is told to stop when it has returned, and a grace period    *)
(* bounds both.                                                            *)
(***************************************************************************)
EXTENDS Scheduler

CONSTANTS
  Grace,        \* shutdown_grace, in ticks of the clock
  HttpMayFail   \* may the HTTP server end before it is told to?

ASSUME GraceAssumption == Grace \in Nat \ {0}
ASSUME HttpAssumption  == HttpMayFail \in BOOLEAN

VARIABLES
  stage,    \* where serve stands
  result,   \* how the select ended: "ok" for a stop notification, else its error
  http,     \* the future of axum::serve
  stopSent, \* stop.send(()): HTTP shuts down gracefully
  conn,     \* per request: its connection
  grace,    \* ticks left of the grace period
  exit      \* the exit status of the process

serverVars    == <<stage, result, http, stopSent, grace, exit>>
schedulerVars == vars
allVars       == <<vars, serverVars, conn>>

ServerTypeOK ==
  /\ TypeOK
  /\ stage \in {"select", "draining", "returned", "forced"}
  /\ result \in {"none", "ok", "failed"}
  /\ http \in {"serving", "done", "failed"}
  /\ stopSent \in BOOLEAN
  /\ conn \in [Requests -> {"none", "open", "closed"}]
  /\ grace \in 0..Grace
  /\ exit \in {"none", "success", "failure"}

ServerInit ==
  /\ Init
  /\ stage = "select"
  /\ result = "none"
  /\ http = "serving"
  /\ stopSent = FALSE
  /\ conn = [r \in Requests |-> "none"]
  /\ grace = Grace
  /\ exit = "none"

Alive == stage \in {"select", "draining"}

-----------------------------------------------------------------------------
(* Connections: axum, and respond of api.rs up to Client::system_one.      *)

\* A request reaches its handler, which then reads the body for as long as the
\* client takes to send it.  A server told to stop accepts no connection.
Connect(r) ==
  /\ Alive
  /\ AsyncIdle
  /\ http = "serving" /\ ~stopSent
  /\ conn[r] = "none"
  /\ conn' = [conn EXCEPT ![r] = "open"]
  /\ UNCHANGED <<schedulerVars, serverVars>>

\* The handler is in Client::system_one.
Handle(r) ==
  /\ Alive
  /\ conn[r] = "open"
  /\ CallerStep(r)
  /\ UNCHANGED <<serverVars, conn>>

\* The client goes away, and the future of its call with it.
Abandon(r) ==
  /\ Alive
  /\ conn[r] = "open"
  /\ Cancel(r)
  /\ conn' = [conn EXCEPT ![r] = "closed"]
  /\ UNCHANGED serverVars

\* The connection ends: with the response, or because the client went away or
\* sent something unreadable before its call of the scheduler was made.
Disconnect(r) ==
  /\ Alive
  /\ AsyncIdle
  /\ conn[r] = "open"
  /\ pc[r] \in {"idle", "done"}
  /\ conn' = [conn EXCEPT ![r] = "closed"]
  /\ UNCHANGED <<schedulerVars, serverVars>>

\* Blocking threads run as long as the process does.
Background(r) == Alive /\ WorkStep(r) /\ UNCHANGED <<serverVars, conn>>

-----------------------------------------------------------------------------
(* serve: the select.                                                      *)

\* The first poll of run, by the select.
Begin == Alive /\ DriverStart /\ UNCHANGED <<serverVars, conn>>

DriveRun ==
  /\ Alive
  /\ DriverPark \/ DriverDone \/ \E r \in Requests : DriverJoin(r)
  /\ UNCHANGED <<serverVars, conn>>

\* The select is over: its future of run is dropped if it has not returned, the
\* client closes admission, and drain calls run again and starts the grace.
Select(ending) ==
  /\ stage = "select"
  /\ AsyncIdle
  /\ result' = ending
  /\ stage' = "draining"
  /\ grace' = Grace
  /\ accepting' = FALSE
  /\ CloseSemaphore
  /\ driver' = FALSE
  /\ drv' = "runnable"
  /\ UNCHANGED <<gaugeVars, free, ahead, callerVars, workVars, joinWaker, failure, reported,
                 drops, stopSent, exit, conn>>

\* A stop signal, or the failure to listen for one.
SelectStop ==
  /\ drv # "done"
  /\ \E ending \in {"ok", "failed"} : Select(ending)
  /\ UNCHANGED http

SelectHttp ==
  /\ HttpMayFail
  /\ drv # "done"
  /\ http' = "done"
  /\ Select("failed")

\* Mutant: a task failure does not end the select.
SelectRunUnlessFailed ==
  /\ drv = "done"
  /\ reported = "ok"
  /\ Select("failed")
  /\ UNCHANGED http

\* run returned although nobody asked it to: a task panicked.
SelectRun ==
  /\ drv = "done"
  /\ Select("failed")
  /\ UNCHANGED http

-----------------------------------------------------------------------------
(* serve: drain.                                                           *)

Drain == stage = "draining" /\ AsyncIdle /\ UNCHANGED <<schedulerVars, conn>>

\* Mutant: HTTP is told to stop as soon as the drain begins.
SendStopEarly ==
  /\ Drain
  /\ ~stopSent
  /\ stopSent' = TRUE
  /\ UNCHANGED <<stage, result, http, grace, exit>>

\* run has returned: its end is what tells HTTP to stop.
SendStop ==
  /\ Drain
  /\ drv = "done"
  /\ ~stopSent
  /\ stopSent' = TRUE
  /\ UNCHANGED <<stage, result, http, grace, exit>>

\* axum ends gracefully when the last connection has ended.
HttpEnds ==
  /\ Drain
  /\ http = "serving"
  /\ stopSent /\ \A r \in Requests : conn[r] # "open"
  /\ http' = "done"
  /\ UNCHANGED <<stage, result, stopSent, grace, exit>>

HttpFails ==
  /\ Drain
  /\ HttpMayFail
  /\ http = "serving"
  /\ http' = "failed"
  /\ UNCHANGED <<stage, result, stopSent, grace, exit>>

\* Mutant: the result of run is dropped, as that of the select is at hand.
DrainedIgnoring ==
  /\ Drain
  /\ stopSent
  /\ http # "serving"
  /\ stage' = "returned"
  /\ exit' = IF result = "ok" /\ http # "failed" THEN "success" ELSE "failure"
  /\ UNCHANGED <<result, http, stopSent, grace>>

\* Both have ended, in time or in the very poll the grace period ends in.
Drained ==
  /\ Drain
  /\ stopSent
  /\ http # "serving"
  /\ stage' = "returned"
  /\ exit' = IF reported # "task_failed" /\ http # "failed" /\ result = "ok"
             THEN "success" ELSE "failure"
  /\ UNCHANGED <<result, http, stopSent, grace>>

\* Mutant: the runtime is shut down, which waits for the blocking threads.
ForceExitWaits ==
  /\ Drain
  /\ grace = 0
  /\ \A r \in Requests : ~Tracked(r)
  /\ drv = "done" /\ stopSent /\ http = "serving"
  /\ stage' = "forced"
  /\ exit' = "failure"
  /\ UNCHANGED <<result, http, stopSent, grace>>

\* The grace period is over and the drain, polled once more, is still pending.
ForceExit ==
  /\ Drain
  /\ grace = 0
  /\ \/ drv = "parked"
     \/ drv = "done" /\ stopSent /\ http = "serving"
  /\ stage' = "forced"
  /\ exit' = "failure"
  /\ UNCHANGED <<result, http, stopSent, grace>>

\* Every deadline, that of the drain included, comes nearer at the same pace.
ServerTick ==
  /\ Alive
  /\ \/ \E r \in Requests : left[r] > 0
     \/ stage = "draining" /\ grace > 0
  /\ Elapse
  /\ grace' = IF stage = "draining" /\ grace > 0 THEN grace - 1 ELSE grace
  /\ UNCHANGED <<accepting, gaugeVars, permitVars, pc, outcome, workVars, driverVars,
                 stage, result, http, stopSent, exit, conn>>

-----------------------------------------------------------------------------
Client(r) == Connect(r) \/ Handle(r) \/ Abandon(r) \/ Disconnect(r)

Serve == SelectStop \/ SelectHttp \/ SelectRun

Shutdown == SendStop \/ HttpEnds \/ HttpFails \/ Drained \/ ForceExit

ServerNext ==
  \/ \E r \in Requests : Client(r) \/ Background(r)
  \/ Begin \/ DriveRun \/ Serve \/ Shutdown \/ ServerTick

\* What happens by itself: the clock advances, and the runtime polls what it has
\* woken.  Nothing is asked of the engine, of the clients, or of whoever sends the
\* stop notification.
ByItself ==
  /\ Alive
  /\ \/ Begin \/ SelectRun \/ SendStop \/ HttpEnds \/ Drained \/ ForceExit
     \/ ServerTick \/ DriveRun
     \/ \E r \in Requests : pc[r] # "idle" /\ Handle(r)

\* No step repeats for ever: calls, tasks, deadlines and stages only go forward, and
\* run parks again only when one of them has woken it.  So these steps may share
\* their fairness: none can be left out for ever by the others.
ServerFairness == WF_allVars(ByItself)

\* The engine returns, and blocking threads run.  A task takes a bounded number of
\* steps, so none can be left out for ever.
BackgroundFairness == WF_allVars(\E r \in Requests : Background(r))

ServerSpec     == ServerInit /\ [][ServerNext]_allVars
FairServerSpec == ServerSpec /\ ServerFairness

-----------------------------------------------------------------------------
(* What the process promises.                                              *)

\* A clean exit status means that nothing went wrong: no task panicked, not even
\* one whose failure was seen by the future of run the select dropped; all work
\* was reaped, every slot is back, and every call was answered.
CleanExit ==
  exit = "success" =>
    /\ result = "ok"
    /\ \A r \in Requests : ended[r] # "panic" /\ ~Tracked(r)
    /\ inflight = 0 /\ waiting = 0 /\ free = Slots
    /\ \A r \in Requests : pc[r] \in {"idle", "done"}

\* HTTP is told to stop only when there is no answer left to be waited for by
\* anybody who still could get one from the scheduler's work.
StopAfterWork ==
  stopSent => /\ ~accepting
              /\ \A r \in Requests : ~Tracked(r) /\ permit[r] # "held"

\* A drain ends within the grace period, although the engine may hang in any
\* number of slots and a client may never send its body or read its answer.
DrainEnds == stage = "draining" ~> stage \in {"returned", "forced"}

\* A panic ends the service: it does not go on with the slots that are left.
\* This one needs the engine to return in the other slots, because run drains
\* before it reports and the grace period only starts after that.
PanicStopsService ==
  BackgroundFairness =>
    (\E r \in Requests : task[r] = "finished" /\ ended[r] = "panic") ~> stage # "select"
=============================================================================
