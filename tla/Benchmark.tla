----------------------------- MODULE Benchmark -----------------------------
(***************************************************************************)
(* The benchmark of the built image: docs/validation/benchmark.py, with    *)
(* the container helpers of docs/validation/docker-smoke.py it loads.      *)
(*                                                                         *)
(* One main thread walks through configurations (one container each) and   *)
(* groups (a number of closed-loop clients each).  While a group is        *)
(* measured it runs together with its client threads and with the thread   *)
(* that samples resources.  The service may die at any moment, and every   *)
(* call of docker, every request and every observation may fail.           *)
(*                                                                         *)
(* Latencies, percentiles and the sampled figures are left out; of a row   *)
(* what counts is when it ended and what became of it.  Seconds and        *)
(* requests are counted up to the limits, which are constants here.        *)
(***************************************************************************)
EXTENDS Integers

CONSTANTS
  Configs,       \* number of configurations
  Groups,        \* number of groups of a configuration
  Clients,       \* per group: its client threads
  MinTime,       \* 60 s
  MinCompleted,  \* 100 requests
  MaxTime,       \* 300 s
  MaxAttempts    \* 10000 requests

ASSUME SizeAssumption   == Configs \in Nat \ {0} /\ Groups \in Nat \ {0}
ASSUME ClientAssumption == Clients \in [1..Groups -> Nat \ {0}]
ASSUME LimitAssumption  == /\ MinTime \in Nat /\ MaxTime \in Nat /\ MinTime <= MaxTime
                           /\ MinCompleted \in Nat /\ MaxAttempts \in Nat

VARIABLES
  pc,         \* where the main thread is
  conf, grp,  \* the configuration, the group
  raised,     \* an exception is on its way out of configuration()
  success,    \* run()'s variable
  exit,       \* what the command exits with, -1 until then
  service,    \* the main process of the configuration's container
  removed,    \* that container is removed
  clock,      \* seconds since the group's epoch
  worker,     \* per client thread: where it is
  reply,      \* per client thread: the row of its last request
  started, completed,  \* the shared counters
  rows,       \* how many rows requests.jsonl has
  last,       \* when the last of them ended
  clean,      \* all of them are successes
  opened,     \* requests.jsonl of the group exists
  sampler,    \* where the sampling thread is
  stop,       \* its stop event
  reports,    \* per group of the configuration: summary.json
  failure,    \* its failure.json exists, which repeats the counts of reports
  answered,   \* history: per group, its requests that got an HTTP response
  sound       \* history: the configurations before this one were Sound

main   == <<pc, conf, grp, raised, success, exit>>
docker == <<service, removed>>
tally  == <<started, completed, rows, last, clean>>
load   == <<clock, worker, reply, tally, opened, answered>>
sample == <<sampler, stop>>
files  == <<reports, failure, sound>>
vars   == <<main, docker, load, sample, files>>

Threads  == UNION {1..Clients[g] : g \in 1..Groups}
Outcomes == {"success", "refused", "transport"}
NoReport == [completed |-> 0, last |-> -1, clean |-> FALSE, failed |-> TRUE]
NoReply  == [end |-> 0, outcome |-> "transport"]

At(p) == pc = p

Init ==
  /\ pc = "create" /\ conf = 1 /\ grp = 1
  /\ raised = FALSE /\ success = TRUE /\ exit = -1
  /\ service = "none"
  /\ removed = FALSE
  /\ clock = 0
  /\ worker = [w \in Threads |-> "off"] /\ reply = [w \in Threads |-> NoReply]
  /\ started = 0 /\ completed = 0 /\ rows = 0 /\ last = 0 /\ clean = TRUE
  /\ opened = FALSE
  /\ sampler = "off" /\ stop = FALSE
  /\ reports = [g \in 1..Groups |-> NoReport]
  /\ failure = FALSE
  /\ answered = [g \in 1..Groups |-> 0] /\ sound = TRUE

Serving == service = "running"

\* One docker call of the main thread or one request of it: it goes on, or
\* raises and goes where the next finally or except clause is.
GoTo(p)  == pc' = p /\ UNCHANGED <<conf, raised, success, exit>>
Raise(p) == pc' = p /\ raised' = TRUE /\ UNCHANGED <<conf, success, exit>>

----------------------------------------------------------------------------
\* The container of a configuration.

\* What really became of the configuration: its service ended by itself with exit
\* code 0, its container is gone, and in each of its groups nothing but successes
\* reached both thresholds, all of them in its report.
Sound ==
  /\ service = "exited" /\ removed /\ ~failure
  /\ \A g \in 1..Groups :
       /\ reports[g].clean /\ ~reports[g].failed
       /\ reports[g].last >= MinTime /\ reports[g].completed >= MinCompleted
       /\ reports[g].completed = answered[g]

\* A directory and a container for the configuration.  When docker create times
\* out there may be a container all the same, of which nobody knows.
Create ==
  /\ At("create")
  /\ \/ service' = "created" /\ GoTo("start")
     \/ service' \in {"none", "created"} /\ Raise("failure")
  /\ removed' = FALSE /\ failure' = FALSE
  /\ reports' = [g \in 1..Groups |-> NoReport] /\ answered' = [g \in 1..Groups |-> 0]
  /\ sound' = (conf = 1 \/ (sound /\ Sound))
  /\ UNCHANGED <<grp, clock, worker, reply, tally, opened, sample>>

Start ==
  /\ At("start")
  /\ \/ service' = "running" /\ GoTo("cold")
     \/ service' \in {"created", "running"} /\ Raise("logs")
  /\ UNCHANGED <<grp, removed, load, sample, files>>

\* /readyz within its deadline, the first request, the inventory.
Cold ==
  /\ At("cold")
  /\ (Serving /\ GoTo("warmup")) \/ Raise("state")
  /\ UNCHANGED <<grp, docker, load, sample, files>>

DockerStop ==
  /\ At("stop")
  /\ \/ /\ IF Serving THEN service' = "exited" \/ service' = "died" ELSE UNCHANGED service
        /\ GoTo("state")
     \/ UNCHANGED service /\ Raise("state")
  /\ UNCHANGED <<grp, removed, load, sample, files>>

\* finally: exit.json holds the state docker reports.
WriteState ==
  /\ At("state")
  /\ IF raised THEN GoTo("logs") ELSE GoTo("exitcode") \/ Raise("logs")
  /\ UNCHANGED <<grp, docker, load, sample, files>>

\* docker wait returns when the container has ended, with its exit code.
ExitCode ==
  /\ At("exitcode")
  /\ (service = "exited" /\ GoTo("logs")) \/ Raise("logs")
  /\ UNCHANGED <<grp, docker, load, sample, files>>

\* finally: the logs and the state are printed, which may fail.
Logs ==
  /\ At("logs")
  /\ GoTo("remove") \/ Raise("remove")
  /\ UNCHANGED <<grp, docker, load, sample, files>>

\* finally: docker rm -f, which kills what still runs.
Remove ==
  /\ At("remove")
  /\ \/ /\ removed' = TRUE
        /\ service' = IF Serving THEN "died" ELSE service
        /\ GoTo(IF raised THEN "failure" ELSE "verdict")
     \/ UNCHANGED docker /\ Raise("failure")
  /\ UNCHANGED <<grp, load, sample, files>>

\* Out of memory, or a crash.
ServiceDies ==
  /\ exit = -1 /\ Serving
  /\ service' = "died"
  /\ UNCHANGED <<main, removed, load, sample, files>>

----------------------------------------------------------------------------
\* A group.

\* Ten seconds and ten requests, all of them successes.
Warmup ==
  /\ At("warmup")
  /\ (Serving /\ GoTo("before")) \/ Raise("state")
  /\ UNCHANGED <<grp, docker, load, sample, files>>

\* The first observation; then the sampler and the clients are started.
Before ==
  /\ At("before")
  /\ \/ /\ Serving
        /\ GoTo("load")
        /\ opened' = TRUE
        /\ worker' = [w \in Threads |-> IF w <= Clients[grp] THEN "check" ELSE "off"]
        /\ sampler' = "observing"
     \/ Raise("state") /\ UNCHANGED <<worker, opened, sampler>>
  /\ UNCHANGED <<grp, docker, clock, reply, tally, answered, stop, files>>

\* Time is not counted past the limit of a group: nothing depends on it then.
Tick ==
  /\ At("load")
  /\ clock < MaxTime
  /\ clock' = clock + 1
  /\ UNCHANGED <<main, docker, worker, reply, tally, opened, answered, sample, files>>

ThresholdsMet(time, requests) == time >= MinTime /\ requests >= MinCompleted

EnoughMeasured == ThresholdsMet(clock, completed) \/ clock >= MaxTime \/ started >= MaxAttempts

WorkerReturns(w) ==
  /\ worker[w] = "check"
  /\ EnoughMeasured
  /\ worker' = [worker EXCEPT ![w] = "returned"]
  /\ UNCHANGED <<main, docker, clock, reply, tally, opened, answered, sample, files>>

\* Mutant: an attempt is counted with its row, not when it is reserved.
ReserveUncounted(w) ==
  /\ worker[w] = "check"
  /\ started < MaxAttempts /\ clock < MaxTime /\ ~ThresholdsMet(clock, completed)
  /\ worker' = [worker EXCEPT ![w] = "busy"]
  /\ UNCHANGED <<main, docker, clock, reply, tally, opened, answered, sample, files>>

\* The attempt is reserved under the lock that checked the limits.
WorkerReserves(w) ==
  /\ worker[w] = "check"
  /\ ~EnoughMeasured
  /\ worker' = [worker EXCEPT ![w] = "busy"]
  /\ started' = started + 1
  /\ UNCHANGED <<main, docker, clock, reply, completed, rows, last, clean, opened, answered,
                 sample, files>>

\* The end of a request is read from the clock before the lock is taken again.
Invoke(w) ==
  /\ worker[w] = "busy"
  /\ \E o \in Outcomes :
       /\ o # "transport" => Serving
       /\ reply' = [reply EXCEPT ![w] = [end |-> clock, outcome |-> o]]
       /\ answered' = [answered EXCEPT ![grp] = @ + IF o = "transport" THEN 0 ELSE 1]
  /\ worker' = [worker EXCEPT ![w] = "answered"]
  /\ UNCHANGED <<main, docker, clock, tally, opened, sample, files>>

\* An answer of a shape that invoke does not expect ends the thread.
InvokeRaises(w) ==
  /\ worker[w] = "busy"
  /\ Serving
  /\ worker' = [worker EXCEPT ![w] = "raised"]
  /\ UNCHANGED <<main, docker, clock, reply, tally, opened, answered, sample, files>>

WorkerRecords(w) ==
  /\ worker[w] = "answered"
  /\ worker' = [worker EXCEPT ![w] = "check"]
  /\ rows' = rows + 1
  /\ completed' = completed + IF reply[w].outcome = "transport" THEN 0 ELSE 1
  /\ last' = IF reply[w].end > last THEN reply[w].end ELSE last
  /\ clean' = (clean /\ reply[w].outcome = "success")
  /\ reply' = [reply EXCEPT ![w] = NoReply]
  /\ UNCHANGED <<main, docker, clock, started, opened, answered, sample, files>>

Ended(w) == worker[w] \in {"off", "returned", "raised"}

\* Mutant: the pool is not joined when a client thread has raised.
LoadEndsEarly ==
  /\ At("load")
  /\ \/ \E w \in Threads : worker[w] = "raised"
     \/ \A w \in Threads : Ended(w)
  /\ stop' = TRUE
  /\ IF \E w \in Threads : worker[w] = "raised" THEN Raise("join") ELSE GoTo("join")
  /\ UNCHANGED <<grp, docker, load, sampler, files>>

\* Mutant: the sampler is told to stop only when load() has returned.
LoadEndsNoFinally ==
  /\ At("load")
  /\ \A w \in Threads : Ended(w)
  /\ IF \E w \in Threads : worker[w] = "raised"
     THEN Raise("join") /\ UNCHANGED stop
     ELSE GoTo("join") /\ stop' = TRUE
  /\ UNCHANGED <<grp, docker, load, sampler, files>>

\* The pool waits for all client threads; finally, the sampler is told to stop.
LoadEnds ==
  /\ At("load")
  /\ \A w \in Threads : Ended(w)
  /\ stop' = TRUE
  /\ IF \E w \in Threads : worker[w] = "raised" THEN Raise("join") ELSE GoTo("join")
  /\ UNCHANGED <<grp, docker, load, sampler, files>>

\* The outer pool waits for the sampler; its result raises what it raised.
Join ==
  /\ At("join")
  /\ sampler \in {"ended", "failed"}
  /\ IF raised THEN GoTo("state")
     ELSE IF sampler = "failed" THEN Raise("state") ELSE GoTo("after")
  /\ sampler' = "off" /\ stop' = FALSE
  /\ UNCHANGED <<grp, docker, load, files>>

\* The variables of a group and of its load() go with it.
Leave ==
  /\ clock' = 0 /\ worker' = [w \in Threads |-> "off"] /\ reply' = [w \in Threads |-> NoReply]
  /\ started' = 0 /\ completed' = 0 /\ rows' = 0 /\ last' = 0 /\ clean' = TRUE
  /\ opened' = FALSE
  /\ UNCHANGED answered

Summary(failed) == [completed |-> completed, last |-> last, clean |-> clean, failed |-> failed]

\* The last observation, CLK_TCK, and summary.json.
After ==
  /\ At("after")
  /\ \/ /\ Serving
        /\ reports' = [reports EXCEPT ![grp] = Summary(FALSE)]
        /\ IF grp < Groups THEN GoTo("warmup") /\ grp' = grp + 1
                           ELSE GoTo("stop") /\ grp' = 1
        /\ Leave
     \/ Raise("state") /\ UNCHANGED <<grp, load, reports>>
  /\ UNCHANGED <<docker, sample, failure, sound>>

\* The sampling thread.
Observe ==
  /\ sampler = "observing"
  /\ \/ Serving /\ sampler' = "waiting"
     \/ sampler' = "failed"
  /\ UNCHANGED <<main, docker, load, stop, files>>

SampleAgain ==
  /\ sampler = "waiting"
  /\ sampler' = IF stop THEN "ended" ELSE "observing"
  /\ UNCHANGED <<main, docker, load, stop, files>>

----------------------------------------------------------------------------
\* The end of a configuration and of the run.

Met(r) == ThresholdsMet(r.last, r.completed)

Passed == \A g \in 1..Groups : Met(reports[g]) /\ reports[g].clean

NextConfiguration(ok) ==
  /\ success' = ok
  /\ raised' = FALSE /\ grp' = 1
  /\ Leave
  /\ IF conf < Configs
     THEN conf' = conf + 1 /\ pc' = "create" /\ UNCHANGED exit
     ELSE UNCHANGED conf /\ pc' = "done" /\ exit' = IF ok THEN 0 ELSE 1

\* Mutant: the last configuration decides.
VerdictOfLast ==
  /\ At("verdict")
  /\ NextConfiguration(Passed)
  /\ UNCHANGED <<docker, sample, files>>

Verdict ==
  /\ At("verdict")
  /\ NextConfiguration(Passed /\ success)
  /\ UNCHANGED <<docker, sample, files>>

\* summary.json of the group that was being measured, unless it has one.
Completion == [reports EXCEPT ![grp] =
                 IF opened /\ @ = NoReport THEN Summary(TRUE) ELSE @]

RecordFailure ==
  /\ At("failure")
  /\ reports' = Completion
  /\ failure' = TRUE
  /\ NextConfiguration(FALSE)
  /\ UNCHANGED <<docker, sample, sound>>

\* Writing the report fails as well, or a torn line cannot be read: run() ends.
RecordFails ==
  /\ At("failure")
  /\ pc' = "done" /\ exit' = 1
  /\ UNCHANGED <<conf, grp, raised, success, docker, load, sample, files>>

Main == \/ Create \/ Start \/ Cold \/ Warmup \/ Before \/ LoadEnds \/ Join \/ After \/ DockerStop
        \/ WriteState \/ ExitCode \/ Logs \/ Remove \/ Verdict \/ RecordFailure \/ RecordFails

Worker(w) == \/ WorkerReturns(w) \/ WorkerReserves(w) \/ Invoke(w) \/ InvokeRaises(w)
             \/ WorkerRecords(w)

Sampler == Observe \/ SampleAgain

Next == \/ Create \/ Start \/ Cold \/ Warmup \/ Before \/ LoadEnds \/ Join \/ After \/ DockerStop
        \/ WriteState \/ ExitCode \/ Logs \/ Remove \/ Verdict \/ RecordFailure \/ RecordFails
        \/ \E w \in Threads : \/ WorkerReturns(w) \/ WorkerReserves(w) \/ Invoke(w)
                              \/ InvokeRaises(w) \/ WorkerRecords(w)
        \/ Observe \/ SampleAgain \/ Tick \/ ServiceDies

Spec == Init /\ [][Next]_vars

\* Every thread goes on: calls of docker and requests have timeouts.  Nothing
\* is assumed of the clock, and the service need not die.
FairSpec == /\ Spec
            /\ WF_vars(Main) /\ WF_vars(Sampler) /\ \A w \in Threads : WF_vars(Worker(w))

----------------------------------------------------------------------------

FlagTypes ==
  /\ raised \in BOOLEAN /\ success \in BOOLEAN /\ removed \in BOOLEAN /\ clean \in BOOLEAN
  /\ opened \in BOOLEAN /\ stop \in BOOLEAN /\ failure \in BOOLEAN /\ sound \in BOOLEAN

RunTypes ==
  /\ pc \in {"create", "start", "cold", "warmup", "before", "load", "join", "after", "stop", "state",
             "exitcode", "logs", "remove", "verdict", "failure", "done"}
  /\ conf \in 1..Configs /\ grp \in 1..Groups /\ exit \in {-1, 0, 1}
  /\ service \in {"none", "created", "running", "exited", "died"}
  /\ sampler \in {"off", "observing", "waiting", "ended", "failed"}

LoadTypes ==
  /\ clock \in 0..MaxTime
  /\ worker \in [Threads -> {"off", "check", "busy", "answered", "returned", "raised"}]
  /\ reply \in [Threads -> [end : 0..MaxTime, outcome : Outcomes]]
  /\ started \in Nat /\ completed \in Nat /\ rows \in Nat /\ last \in 0..MaxTime

ReportTypes ==
  /\ reports \in [1..Groups ->
       [completed : Nat, last : -1..MaxTime, clean : BOOLEAN, failed : BOOLEAN]]
  /\ answered \in [1..Groups -> Nat]

TypeOK == FlagTypes /\ RunTypes /\ LoadTypes /\ ReportTypes

\* However the client threads interleave, a group makes no more attempts than
\* the limit, counts no request as completed that it has not recorded, and when
\* it is reported every attempt it made has its row (benchmark.load: the limits
\* are checked and the attempt reserved under one lock, the row counted under another).
LoadIsBounded ==
  /\ started <= MaxAttempts
  /\ completed <= rows
  /\ At("after") => rows = started

\* The command exits with 0 only if every configuration was sound: its service
\* ended with exit code 0, its container is gone, no failure was recorded, and each
\* group reached both thresholds with nothing but successes (benchmark.run: one failing step of one configuration fails the command).
ExitMeansMet == exit = 0 => sound /\ Sound

\* What is written about a configuration that failed has, for each group, the
\* number of requests the service answered (but for those whose thread raised and
\* made no row): those of the group that failed are neither lost nor counted before
\* their threads have ended
\* (benchmark.record_failure; docs/mvp-validation.md: the actual numbers are kept).
FailureIsExact ==
  failure =>
    \A g \in 1..Groups : reports[g].completed = answered[g]

\* The command ends, whichever step fails and whenever the service dies: no
\* client thread and no sampler is waited for in vain
\* (benchmark.group: stop is set in a finally clause before the sampler is joined).
RunEnds == <>(exit # -1)
=============================================================================
