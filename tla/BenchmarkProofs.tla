-------------------------- MODULE BenchmarkProofs --------------------------
(***************************************************************************)
(* Proofs about Benchmark, for any number of configurations, groups and    *)
(* clients, and any limits.                                                *)
(*                                                                         *)
(* Flow says where an exception can be on its way, when the client threads *)
(* are at rest and what a group leaves behind; Tally counts the attempts   *)
(* that have no row yet and the answers that are not counted yet; Exact    *)
(* and Reported compare the reports with what the service answered, and    *)
(* Closing follows a configuration to its verdict.                         *)
(***************************************************************************)
EXTENDS Benchmark, FiniteSetTheorems, TLAPS

USE DEF main, docker, tally, load, sample, files

\* Steps that no exception reaches, and those before or behind the groups.
Straight == {"create", "start", "cold", "warmup", "before", "load", "after", "stop", "exitcode",
             "verdict"}
Outside  == {"create", "start", "cold", "warmup", "before", "stop", "exitcode", "verdict"}

\* No thread has begun anything, and nothing is counted.
Fresh == /\ \A w \in Threads : worker[w] = "off"
         /\ started = 0 /\ rows = 0 /\ completed = 0

Flow ==
  /\ pc \in Straight => ~raised
  /\ pc \in {"load", "join", "after"} => opened
  /\ pc \in Outside => ~opened
  /\ ~opened => Fresh
  /\ pc # "load" => \A w \in Threads : Ended(w)
  /\ pc = "after" \/ (pc = "join" /\ ~raised) => \A w \in Threads : worker[w] # "raised"
  /\ pc = "create" => grp = 1
  /\ exit # -1 <=> pc = "done"
  /\ ~raised /\ pc \in {"state", "logs", "remove"} => ~opened
  /\ failure => pc \in {"create", "done"} /\ ~opened

\* Attempts without a row, and answers that are not counted yet.
Busy       == {w \in Threads : worker[w] \in {"busy", "answered", "raised"}}
Unrecorded == {w \in Threads : worker[w] = "answered" /\ reply[w].outcome # "transport"}

Tally ==
  /\ IsFiniteSet(Busy) /\ IsFiniteSet(Unrecorded)
  /\ started = rows + Cardinality(Busy)
  /\ opened => answered[grp] = completed + Cardinality(Unrecorded)
  /\ completed <= rows /\ started <= MaxAttempts

\* The report of a group agrees with what the service answered, unless the group is
\* the one that is measured and its report is still to be written.
Exact ==
  \A g \in 1..Groups :
    \/ reports[g].completed = answered[g]
    \/ g = grp /\ opened /\ reports[g] = NoReport

\* Groups before this one have their report, this one and those behind it have none.
Reported ==
  /\ pc \in {"start", "cold", "warmup", "before", "load", "join", "after"} =>
       \A g \in 1..Groups : IF g < grp THEN ~reports[g].failed
                            ELSE reports[g] = NoReport /\ (g > grp => answered[g] = 0)
  /\ ~raised /\ pc \in {"stop", "state", "exitcode", "logs", "remove", "verdict"} =>
       \A g \in 1..Groups : ~reports[g].failed

\* Whoever reaches the verdict has seen the service end by itself and its container go.
Closing ==
  /\ ~raised /\ pc \in {"logs", "remove", "verdict"} => service = "exited"
  /\ pc = "verdict" => removed
  /\ success /\ pc # "create" => sound
  /\ success /\ pc = "create" => conf = 1 \/ (sound /\ Sound)
  /\ ExitMeansMet

-----------------------------------------------------------------------------
\* The two ways the last observation of a group can end.
LEMMA AfterSteps ==
  ASSUME After
  PROVE  /\ pc = "after" /\ UNCHANGED <<conf, success, exit, docker, sample, failure, sound>>
         /\ \/ /\ reports' = [reports EXCEPT ![grp] = Summary(FALSE)]
               /\ raised' = raised /\ Leave
               /\ \/ grp < Groups /\ pc' = "warmup" /\ grp' = grp + 1
                  \/ ~(grp < Groups) /\ pc' = "stop" /\ grp' = 1
            \/ pc' = "state" /\ raised' = TRUE /\ UNCHANGED <<grp, load, reports>>
BY DEF After, At, GoTo, Raise

LEMMA FlagsTyped ==
  ASSUME TypeOK, [Next]_vars
  PROVE  FlagTypes'
<1> USE DEF TypeOK, FlagTypes
<1>1. CASE UNCHANGED vars
  BY <1>1 DEF vars
<1>2. CASE Create
  BY <1>2, Zenon DEF Create, At, GoTo, Raise
<1>3. CASE Start
  BY <1>3, Zenon DEF Start, At, GoTo, Raise
<1>4. CASE Cold
  BY <1>4, Zenon DEF Cold, At, GoTo, Raise
<1>5. CASE Warmup
  BY <1>5, Zenon DEF Warmup, At, GoTo, Raise
<1>6. CASE Before
  BY <1>6, Zenon DEF Before, At, GoTo, Raise
<1>7. CASE LoadEnds
  BY <1>7, Zenon DEF LoadEnds, At, GoTo, Raise
<1>8. CASE Join
  BY <1>8, Zenon DEF Join, At, GoTo, Raise
<1>9. CASE After
  BY <1>9, Zenon DEF After, At, GoTo, Raise, Leave
<1>10. CASE DockerStop
  BY <1>10, Zenon DEF DockerStop, At, GoTo, Raise
<1>11. CASE WriteState
  BY <1>11, Zenon DEF WriteState, At, GoTo, Raise
<1>12. CASE ExitCode
  BY <1>12, Zenon DEF ExitCode, At, GoTo, Raise
<1>13. CASE Logs
  BY <1>13, Zenon DEF Logs, At, GoTo, Raise
<1>14. CASE Remove
  BY <1>14, Zenon DEF Remove, At, GoTo, Raise
<1>15. CASE Verdict
  BY <1>15, Zenon DEF Verdict, At, GoTo, Raise, NextConfiguration, Leave
<1>16. CASE RecordFailure
  BY <1>16, Zenon DEF RecordFailure, At, GoTo, Raise, NextConfiguration, Leave
<1>17. CASE RecordFails
  BY <1>17, Zenon DEF RecordFails, At, GoTo, Raise
<1>18. ASSUME NEW w \in Threads, WorkerReturns(w) PROVE FlagTypes'
  BY <1>18, Zenon DEF WorkerReturns, At, GoTo, Raise
<1>19. ASSUME NEW w \in Threads, WorkerReserves(w) PROVE FlagTypes'
  BY <1>19, Zenon DEF WorkerReserves, At, GoTo, Raise
<1>20. ASSUME NEW w \in Threads, Invoke(w) PROVE FlagTypes'
  BY <1>20, Zenon DEF Invoke, At, GoTo, Raise
<1>21. ASSUME NEW w \in Threads, InvokeRaises(w) PROVE FlagTypes'
  BY <1>21, Zenon DEF InvokeRaises, At, GoTo, Raise
<1>22. ASSUME NEW w \in Threads, WorkerRecords(w) PROVE FlagTypes'
  BY <1>22, Zenon DEF WorkerRecords, At, GoTo, Raise
<1>23. CASE Observe
  BY <1>23, Zenon DEF Observe, At, GoTo, Raise
<1>24. CASE SampleAgain
  BY <1>24, Zenon DEF SampleAgain, At, GoTo, Raise
<1>25. CASE Tick
  BY <1>25, Zenon DEF Tick, At, GoTo, Raise
<1>26. CASE ServiceDies
  BY <1>26, Zenon DEF ServiceDies, At, GoTo, Raise
<1>27. QED
  BY <1>1, <1>2, <1>3, <1>4, <1>5, <1>6, <1>7, <1>8, <1>9, <1>10, <1>11, <1>12, <1>13, <1>14,
     <1>15, <1>16, <1>17, <1>18, <1>19, <1>20, <1>21, <1>22, <1>23, <1>24, <1>25, <1>26 DEF Next

LEMMA RunTyped ==
  ASSUME TypeOK, [Next]_vars
  PROVE  RunTypes'
<1> USE DEF TypeOK, RunTypes
<1>1. CASE UNCHANGED vars
  BY <1>1 DEF vars
<1>2. CASE Create
  BY <1>2 DEF Create, At, GoTo, Raise
<1>3. CASE Start
  BY <1>3 DEF Start, At, GoTo, Raise
<1>4. CASE Cold
  BY <1>4 DEF Cold, At, GoTo, Raise
<1>5. CASE Warmup
  BY <1>5 DEF Warmup, At, GoTo, Raise
<1>6. CASE Before
  BY <1>6 DEF Before, At, GoTo, Raise
<1>7. CASE LoadEnds
  BY <1>7 DEF LoadEnds, At, GoTo, Raise
<1>8. CASE Join
  BY <1>8 DEF Join, At, GoTo, Raise
<1>9. CASE After
  <2>1. pc' \in {"warmup", "stop", "state"} /\ UNCHANGED <<conf, exit, service, sampler>>
    BY <1>9, AfterSteps
  <2>2. grp' \in 1..Groups
    <3>1. (grp < Groups /\ grp' = grp + 1) \/ grp' = 1 \/ grp' = grp
      BY <1>9, AfterSteps
    <3>2. QED
      BY <3>1, SizeAssumption
  <2>3. QED
    BY <2>1, <2>2
<1>10. CASE DockerStop
  BY <1>10 DEF DockerStop, At, GoTo, Raise
<1>11. CASE WriteState
  BY <1>11 DEF WriteState, At, GoTo, Raise
<1>12. CASE ExitCode
  BY <1>12 DEF ExitCode, At, GoTo, Raise
<1>13. CASE Logs
  BY <1>13 DEF Logs, At, GoTo, Raise
<1>14. CASE Remove
  BY <1>14 DEF Remove, At, GoTo, Raise
<1>15. CASE Verdict
  BY SizeAssumption, <1>15 DEF Verdict, At, GoTo, Raise, NextConfiguration, Leave
<1>16. CASE RecordFailure
  BY SizeAssumption, <1>16 DEF RecordFailure, At, GoTo, Raise, NextConfiguration, Leave
<1>17. CASE RecordFails
  BY <1>17 DEF RecordFails, At, GoTo, Raise
<1>18. ASSUME NEW w \in Threads, WorkerReturns(w) PROVE RunTypes'
  BY <1>18 DEF WorkerReturns, At, GoTo, Raise
<1>19. ASSUME NEW w \in Threads, WorkerReserves(w) PROVE RunTypes'
  BY <1>19 DEF WorkerReserves, At, GoTo, Raise
<1>20. ASSUME NEW w \in Threads, Invoke(w) PROVE RunTypes'
  BY <1>20 DEF Invoke, At, GoTo, Raise
<1>21. ASSUME NEW w \in Threads, InvokeRaises(w) PROVE RunTypes'
  BY <1>21 DEF InvokeRaises, At, GoTo, Raise
<1>22. ASSUME NEW w \in Threads, WorkerRecords(w) PROVE RunTypes'
  BY <1>22 DEF WorkerRecords, At, GoTo, Raise
<1>23. CASE Observe
  BY <1>23 DEF Observe, At, GoTo, Raise
<1>24. CASE SampleAgain
  BY <1>24 DEF SampleAgain, At, GoTo, Raise
<1>25. CASE Tick
  BY <1>25 DEF Tick, At, GoTo, Raise
<1>26. CASE ServiceDies
  BY <1>26 DEF ServiceDies, At, GoTo, Raise
<1>27. QED
  BY <1>1, <1>2, <1>3, <1>4, <1>5, <1>6, <1>7, <1>8, <1>9, <1>10, <1>11, <1>12, <1>13, <1>14,
     <1>15, <1>16, <1>17, <1>18, <1>19, <1>20, <1>21, <1>22, <1>23, <1>24, <1>25, <1>26 DEF Next

LEMMA LoadTyped ==
  ASSUME TypeOK, [Next]_vars
  PROVE  LoadTypes'
<1> USE DEF TypeOK, LoadTypes
<1>1. CASE UNCHANGED vars
  BY <1>1 DEF vars
<1>2. CASE Create
  BY <1>2 DEF Create, At, GoTo, Raise
<1>3. CASE Start
  BY <1>3 DEF Start, At, GoTo, Raise
<1>4. CASE Cold
  BY <1>4 DEF Cold, At, GoTo, Raise
<1>5. CASE Warmup
  BY <1>5 DEF Warmup, At, GoTo, Raise
<1>6. CASE Before
  BY <1>6 DEF Before, At, GoTo, Raise
<1>7. CASE LoadEnds
  BY <1>7 DEF LoadEnds, At, GoTo, Raise
<1>8. CASE Join
  BY <1>8 DEF Join, At, GoTo, Raise
<1>9. CASE After
  <2>1. CASE UNCHANGED load
    BY <2>1
  <2>2. CASE Leave
    BY <2>2, LimitAssumption DEF Leave, NoReply, Outcomes
  <2>3. QED
    BY <1>9, <2>1, <2>2, AfterSteps
<1>10. CASE DockerStop
  BY <1>10 DEF DockerStop, At, GoTo, Raise
<1>11. CASE WriteState
  BY <1>11 DEF WriteState, At, GoTo, Raise
<1>12. CASE ExitCode
  BY <1>12 DEF ExitCode, At, GoTo, Raise
<1>13. CASE Logs
  BY <1>13 DEF Logs, At, GoTo, Raise
<1>14. CASE Remove
  BY <1>14 DEF Remove, At, GoTo, Raise
<1>15. CASE Verdict
  BY LimitAssumption, <1>15 DEF Verdict, At, GoTo, Raise, NextConfiguration, Leave, NoReply,
     Outcomes
<1>16. CASE RecordFailure
  BY LimitAssumption, <1>16 DEF RecordFailure, At, GoTo, Raise, NextConfiguration, Leave,
     NoReply, Outcomes
<1>17. CASE RecordFails
  BY <1>17 DEF RecordFails, At, GoTo, Raise
<1>18. ASSUME NEW w \in Threads, WorkerReturns(w) PROVE LoadTypes'
  BY <1>18 DEF WorkerReturns, At, GoTo, Raise
<1>19. ASSUME NEW w \in Threads, WorkerReserves(w) PROVE LoadTypes'
  BY <1>19 DEF WorkerReserves, At, GoTo, Raise
<1>20. ASSUME NEW w \in Threads, Invoke(w) PROVE LoadTypes'
  BY LimitAssumption, <1>20 DEF Invoke, At, GoTo, Raise
<1>21. ASSUME NEW w \in Threads, InvokeRaises(w) PROVE LoadTypes'
  BY <1>21 DEF InvokeRaises, At, GoTo, Raise
<1>22. ASSUME NEW w \in Threads, WorkerRecords(w) PROVE LoadTypes'
  BY LimitAssumption, <1>22 DEF WorkerRecords, At, GoTo, Raise, NoReply, Outcomes
<1>23. CASE Observe
  BY <1>23 DEF Observe, At, GoTo, Raise
<1>24. CASE SampleAgain
  BY <1>24 DEF SampleAgain, At, GoTo, Raise
<1>25. CASE Tick
  BY LimitAssumption, <1>25 DEF Tick, At, GoTo, Raise
<1>26. CASE ServiceDies
  BY <1>26 DEF ServiceDies, At, GoTo, Raise
<1>27. QED
  BY <1>1, <1>2, <1>3, <1>4, <1>5, <1>6, <1>7, <1>8, <1>9, <1>10, <1>11, <1>12, <1>13, <1>14,
     <1>15, <1>16, <1>17, <1>18, <1>19, <1>20, <1>21, <1>22, <1>23, <1>24, <1>25, <1>26 DEF Next

LEMMA ReportTyped ==
  ASSUME TypeOK, [Next]_vars
  PROVE  ReportTypes'
<1> USE DEF TypeOK, ReportTypes
<1>1. CASE UNCHANGED vars
  BY <1>1 DEF vars
<1>2. CASE Create
  BY LimitAssumption, <1>2 DEF Create, At, GoTo, Raise, NoReport
<1>3. CASE Start
  BY <1>3 DEF Start, At, GoTo, Raise
<1>4. CASE Cold
  BY <1>4 DEF Cold, At, GoTo, Raise
<1>5. CASE Warmup
  BY <1>5 DEF Warmup, At, GoTo, Raise
<1>6. CASE Before
  BY <1>6 DEF Before, At, GoTo, Raise
<1>7. CASE LoadEnds
  BY <1>7 DEF LoadEnds, At, GoTo, Raise
<1>8. CASE Join
  BY <1>8 DEF Join, At, GoTo, Raise
<1>9. CASE After
  <2>1. CASE reports' = [reports EXCEPT ![grp] = Summary(FALSE)]
    <3>1. Summary(FALSE) \in [completed : Nat, last : -1..MaxTime, clean : BOOLEAN, failed : BOOLEAN]
      BY DEF Summary, FlagTypes, LoadTypes
    <3>2. QED
      BY <1>9, <2>1, <3>1, AfterSteps DEF Leave
  <2>2. CASE UNCHANGED <<reports, load>>
    BY <2>2
  <2>3. QED
    BY <1>9, <2>1, <2>2, AfterSteps
<1>10. CASE DockerStop
  BY <1>10 DEF DockerStop, At, GoTo, Raise
<1>11. CASE WriteState
  BY <1>11 DEF WriteState, At, GoTo, Raise
<1>12. CASE ExitCode
  BY <1>12 DEF ExitCode, At, GoTo, Raise
<1>13. CASE Logs
  BY <1>13 DEF Logs, At, GoTo, Raise
<1>14. CASE Remove
  BY <1>14 DEF Remove, At, GoTo, Raise
<1>15. CASE Verdict
  BY <1>15 DEF Verdict, At, GoTo, Raise, NextConfiguration, Leave
<1>16. CASE RecordFailure
  <2> DEFINE Report == [completed : Nat, last : -1..MaxTime, clean : BOOLEAN, failed : BOOLEAN]
  <2>1. Summary(TRUE) \in Report
    BY DEF Summary, FlagTypes, LoadTypes
  <2>2. Completion \in [1..Groups -> Report]
    <3> HIDE DEF Report
    <3>1. reports \in [1..Groups -> Report]
      BY DEF Report
    <3>2. QED
      BY <2>1, <3>1 DEF Completion
  <2>3. reports' = Completion /\ UNCHANGED answered
    BY <1>16, Zenon DEF RecordFailure, NextConfiguration, Leave
  <2>4. QED
    BY <2>2, <2>3
<1>17. CASE RecordFails
  BY <1>17 DEF RecordFails, At, GoTo, Raise
<1>18. ASSUME NEW w \in Threads, WorkerReturns(w) PROVE ReportTypes'
  BY <1>18 DEF WorkerReturns, At, GoTo, Raise
<1>19. ASSUME NEW w \in Threads, WorkerReserves(w) PROVE ReportTypes'
  BY <1>19 DEF WorkerReserves, At, GoTo, Raise
<1>20. ASSUME NEW w \in Threads, Invoke(w) PROVE ReportTypes'
  BY <1>20 DEF Invoke, At, GoTo, Raise, RunTypes
<1>21. ASSUME NEW w \in Threads, InvokeRaises(w) PROVE ReportTypes'
  BY <1>21 DEF InvokeRaises, At, GoTo, Raise
<1>22. ASSUME NEW w \in Threads, WorkerRecords(w) PROVE ReportTypes'
  BY <1>22 DEF WorkerRecords, At, GoTo, Raise
<1>23. CASE Observe
  BY <1>23 DEF Observe, At, GoTo, Raise
<1>24. CASE SampleAgain
  BY <1>24 DEF SampleAgain, At, GoTo, Raise
<1>25. CASE Tick
  BY <1>25 DEF Tick, At, GoTo, Raise
<1>26. CASE ServiceDies
  BY <1>26 DEF ServiceDies, At, GoTo, Raise
<1>27. QED
  BY <1>1, <1>2, <1>3, <1>4, <1>5, <1>6, <1>7, <1>8, <1>9, <1>10, <1>11, <1>12, <1>13, <1>14,
     <1>15, <1>16, <1>17, <1>18, <1>19, <1>20, <1>21, <1>22, <1>23, <1>24, <1>25, <1>26 DEF Next

\* Every variable keeps to its type; the clock and the last row stay within the limit.
THEOREM TypeCorrect == Spec => []TypeOK
<1>1. Init => FlagTypes
  BY Zenon DEF Init, FlagTypes
<1>2. Init => RunTypes /\ LoadTypes
  BY SizeAssumption, LimitAssumption DEF Init, RunTypes, LoadTypes, NoReply, Outcomes,
     SizeAssumption,
     LimitAssumption
<1>3. Init => ReportTypes
  BY LimitAssumption DEF Init, ReportTypes, NoReport, LimitAssumption
<1>4. TypeOK /\ [Next]_vars => TypeOK'
  BY FlagsTyped, RunTyped, LoadTyped, ReportTyped DEF TypeOK
<1>5. QED
  BY <1>1, <1>2, <1>3, <1>4, PTL DEF Spec, TypeOK

-----------------------------------------------------------------------------
LEMMA FlowInvariant == Spec => []Flow
<1>1. Init => Flow
  BY DEF Init, Flow, Straight, Outside, Fresh, Ended
<1>2. TypeOK /\ Flow /\ [Next]_vars => Flow'
  <2> SUFFICES ASSUME TypeOK, Flow, [Next]_vars PROVE Flow'
    OBVIOUS
  <2>1. CASE UNCHANGED vars
    BY <2>1 DEF Flow, Straight, Outside, Fresh, Ended, vars
  <2>2. CASE Create
    BY <2>2 DEF Create, At, GoTo, Raise, Flow, Straight, Outside, Fresh, Ended
  <2>3. CASE Start
    BY <2>3 DEF Start, At, GoTo, Raise, Flow, Straight, Outside, Fresh, Ended
  <2>4. CASE Cold
    BY <2>4 DEF Cold, At, GoTo, Raise, Flow, Straight, Outside, Fresh, Ended
  <2>5. CASE Warmup
    BY <2>5 DEF Warmup, At, GoTo, Raise, Flow, Straight, Outside, Fresh, Ended
  <2>6. CASE Before
    BY <2>6 DEF Before, At, GoTo, Raise, Flow, Straight, Outside, Fresh, Ended
  <2>7. CASE LoadEnds
    BY <2>7 DEF LoadEnds, At, GoTo, Raise, Flow, Straight, Outside, Fresh, Ended
  <2>8. CASE Join
    BY <2>8 DEF Join, At, GoTo, Raise, Flow, Straight, Outside, Fresh, Ended
  <2>9. CASE After
    BY <2>9 DEF After, At, GoTo, Raise, Leave, Summary, Flow, Straight, Outside, Fresh, Ended
  <2>10. CASE DockerStop
    BY <2>10 DEF DockerStop, At, GoTo, Raise, Flow, Straight, Outside, Fresh, Ended
  <2>11. CASE WriteState
    BY <2>11 DEF WriteState, At, GoTo, Raise, Flow, Straight, Outside, Fresh, Ended
  <2>12. CASE ExitCode
    BY <2>12 DEF ExitCode, At, GoTo, Raise, Flow, Straight, Outside, Fresh, Ended
  <2>13. CASE Logs
    BY <2>13 DEF Logs, At, GoTo, Raise, Flow, Straight, Outside, Fresh, Ended
  <2>14. CASE Remove
    BY <2>14 DEF Remove, At, GoTo, Raise, Flow, Straight, Outside, Fresh, Ended
  <2>15. CASE Verdict
    BY <2>15 DEF Verdict, At, GoTo, Raise, NextConfiguration, Leave, Flow, Straight, Outside,
       Fresh, Ended
  <2>16. CASE RecordFailure
    BY <2>16 DEF RecordFailure, At, GoTo, Raise, NextConfiguration, Leave, Flow, Straight,
       Outside, Fresh, Ended
  <2>17. CASE RecordFails
    BY <2>17 DEF RecordFails, At, GoTo, Raise, Flow, Straight, Outside, Fresh, Ended
  <2>18. ASSUME NEW w \in Threads, WorkerReturns(w) PROVE Flow'
    BY <2>18 DEF WorkerReturns, At, GoTo, Raise, TypeOK, LoadTypes, Flow, Straight, Outside,
       Fresh, Ended
  <2>19. ASSUME NEW w \in Threads, WorkerReserves(w) PROVE Flow'
    BY <2>19 DEF WorkerReserves, At, GoTo, Raise, TypeOK, LoadTypes, Flow, Straight, Outside,
       Fresh, Ended
  <2>20. ASSUME NEW w \in Threads, Invoke(w) PROVE Flow'
    BY <2>20 DEF Invoke, At, GoTo, Raise, TypeOK, LoadTypes, Flow, Straight, Outside, Fresh, Ended
  <2>21. ASSUME NEW w \in Threads, InvokeRaises(w) PROVE Flow'
    BY <2>21 DEF InvokeRaises, At, GoTo, Raise, TypeOK, LoadTypes, Flow, Straight, Outside,
       Fresh, Ended
  <2>22. ASSUME NEW w \in Threads, WorkerRecords(w) PROVE Flow'
    BY <2>22 DEF WorkerRecords, At, GoTo, Raise, TypeOK, LoadTypes, Flow, Straight, Outside,
       Fresh, Ended
  <2>23. CASE Observe
    BY <2>23 DEF Observe, At, GoTo, Raise, Flow, Straight, Outside, Fresh, Ended
  <2>24. CASE SampleAgain
    BY <2>24 DEF SampleAgain, At, GoTo, Raise, Flow, Straight, Outside, Fresh, Ended
  <2>25. CASE Tick
    BY <2>25 DEF Tick, At, GoTo, Raise, Flow, Straight, Outside, Fresh, Ended
  <2>26. CASE ServiceDies
    BY <2>26 DEF ServiceDies, At, GoTo, Raise, Flow, Straight, Outside, Fresh, Ended
  <2>27. QED
    BY <2>1, <2>2, <2>3, <2>4, <2>5, <2>6, <2>7, <2>8, <2>9, <2>10, <2>11, <2>12, <2>13, <2>14,
       <2>15, <2>16, <2>17, <2>18, <2>19, <2>20, <2>21, <2>22, <2>23, <2>24, <2>25, <2>26 DEF Next
<1>3. QED
  BY <1>1, <1>2, TypeCorrect, PTL DEF Spec

LEMMA ReportedInvariant == Spec => []Reported
<1>1. Init => Reported
  BY DEF Init, Reported
<1>2. TypeOK /\ Flow /\ Reported /\ [Next]_vars => Reported'
  <2> SUFFICES ASSUME TypeOK, Flow, Reported, [Next]_vars PROVE Reported'
    OBVIOUS
  <2>1. CASE UNCHANGED vars
    BY <2>1 DEF Reported, vars
  <2>2. CASE Create
    BY SizeAssumption, <2>2 DEF Create, At, GoTo, Raise, Flow, Reported
  <2>3. CASE Start
    BY <2>3 DEF Start, At, GoTo, Raise, Flow, Straight, Reported
  <2>4. CASE Cold
    BY <2>4 DEF Cold, At, GoTo, Raise, Flow, Straight, Reported
  <2>5. CASE Warmup
    BY <2>5 DEF Warmup, At, GoTo, Raise, Reported
  <2>6. CASE Before
    BY <2>6 DEF Before, At, GoTo, Raise, Reported
  <2>7. CASE LoadEnds
    BY <2>7 DEF LoadEnds, At, GoTo, Raise, Reported
  <2>8. CASE Join
    BY <2>8 DEF Join, At, GoTo, Raise, Reported
  <2>9. CASE After
    <3>1. CASE UNCHANGED <<grp, load, reports>> /\ pc' = "state" /\ raised'
      BY <3>1 DEF Reported
    <3>2. CASE /\ reports' = [reports EXCEPT ![grp] = Summary(FALSE)] /\ Leave
               /\ \/ grp < Groups /\ pc' = "warmup" /\ grp' = grp + 1
                  \/ ~(grp < Groups) /\ pc' = "stop" /\ grp' = 1
      <4>1. /\ answered' = answered /\ grp \in 1..Groups
            /\ \A g \in 1..Groups : IF g < grp THEN ~reports[g].failed
                               ELSE reports[g] = NoReport /\ (g > grp => answered[g] = 0)
        BY <2>9, <3>2, AfterSteps DEF Leave, Reported, TypeOK, RunTypes
      <4>2. ~reports'[grp].failed /\ \A g \in 1..Groups : g # grp => reports'[g] = reports[g]
        BY <3>2, <4>1 DEF Summary, TypeOK, ReportTypes
      <4>3. CASE grp < Groups /\ pc' = "warmup" /\ grp' = grp + 1
        BY <4>1, <4>2, <4>3 DEF Reported
      <4>4. CASE ~(grp < Groups) /\ pc' = "stop" /\ grp' = 1
        BY <4>1, <4>2, <4>4, SizeAssumption DEF Reported
      <4>5. QED
        BY <3>2, <4>3, <4>4
    <3>3. QED
      BY <2>9, <3>1, <3>2, AfterSteps
  <2>10. CASE DockerStop
    BY <2>10 DEF DockerStop, At, GoTo, Raise, Flow, Straight, Reported
  <2>11. CASE WriteState
    BY <2>11 DEF WriteState, At, GoTo, Raise, Reported
  <2>12. CASE ExitCode
    BY <2>12 DEF ExitCode, At, GoTo, Raise, Reported
  <2>13. CASE Logs
    BY <2>13 DEF Logs, At, GoTo, Raise, Reported
  <2>14. CASE Remove
    BY <2>14 DEF Remove, At, GoTo, Raise, Reported
  <2>15. CASE Verdict
    BY <2>15 DEF Verdict, At, GoTo, Raise, NextConfiguration, Reported
  <2>16. CASE RecordFailure
    BY <2>16 DEF RecordFailure, At, GoTo, Raise, NextConfiguration, Reported
  <2>17. CASE RecordFails
    BY <2>17 DEF RecordFails, At, GoTo, Raise, Reported
  <2>18. ASSUME NEW w \in Threads, WorkerReturns(w) PROVE Reported'
    BY <2>18 DEF WorkerReturns, At, GoTo, Raise, Reported
  <2>19. ASSUME NEW w \in Threads, WorkerReserves(w) PROVE Reported'
    BY <2>19 DEF WorkerReserves, At, GoTo, Raise, Reported
  <2>20. ASSUME NEW w \in Threads, Invoke(w) PROVE Reported'
    BY <2>20 DEF Invoke, At, GoTo, Raise, TypeOK, RunTypes, ReportTypes, Flow, Ended, Reported
  <2>21. ASSUME NEW w \in Threads, InvokeRaises(w) PROVE Reported'
    BY <2>21 DEF InvokeRaises, At, GoTo, Raise, Reported
  <2>22. ASSUME NEW w \in Threads, WorkerRecords(w) PROVE Reported'
    BY <2>22 DEF WorkerRecords, At, GoTo, Raise, Reported
  <2>23. CASE Observe
    BY <2>23 DEF Observe, At, GoTo, Raise, Reported
  <2>24. CASE SampleAgain
    BY <2>24 DEF SampleAgain, At, GoTo, Raise, Reported
  <2>25. CASE Tick
    BY <2>25 DEF Tick, At, GoTo, Raise, Reported
  <2>26. CASE ServiceDies
    BY <2>26 DEF ServiceDies, At, GoTo, Raise, Reported
  <2>27. QED
    BY <2>1, <2>2, <2>3, <2>4, <2>5, <2>6, <2>7, <2>8, <2>9, <2>10, <2>11, <2>12, <2>13, <2>14,
       <2>15, <2>16, <2>17, <2>18, <2>19, <2>20, <2>21, <2>22, <2>23, <2>24, <2>25, <2>26 DEF Next
<1>3. QED
  BY <1>1, <1>2, TypeCorrect, FlowInvariant, PTL DEF Spec

\* The two counting invariants need each other.
LEMMA TallyKept ==
  ASSUME TypeOK, Flow, Reported, Exact, Tally, [Next]_vars
  PROVE  Tally'
<1>1. CASE UNCHANGED vars
  BY <1>1 DEF Tally, Busy, Unrecorded, vars
<1>2. CASE Create
  <2>1. Busy' = Busy /\ Unrecorded' = Unrecorded /\ UNCHANGED <<started, rows, completed, opened>>
    BY <1>2 DEF Create, Busy, Unrecorded
  <2>2. ~opened
    BY <1>2 DEF Create, At, Flow, Outside
  <2>3. QED
    BY <2>1, <2>2 DEF Tally
<1>3. CASE Start
  <2>1. Busy' = Busy /\ Unrecorded' = Unrecorded
    BY <1>3 DEF Start, Busy, Unrecorded
  <2>2. QED
    BY <1>3, <2>1 DEF Start, Tally, At, GoTo, Raise
<1>4. CASE Cold
  <2>1. Busy' = Busy /\ Unrecorded' = Unrecorded
    BY <1>4 DEF Cold, Busy, Unrecorded
  <2>2. QED
    BY <1>4, <2>1 DEF Cold, Tally, At, GoTo, Raise
<1>5. CASE Warmup
  <2>1. Busy' = Busy /\ Unrecorded' = Unrecorded
    BY <1>5 DEF Warmup, Busy, Unrecorded
  <2>2. QED
    BY <1>5, <2>1 DEF Warmup, Tally, At, GoTo, Raise
<1>6. CASE Before
  <2>1. CASE UNCHANGED <<worker, opened, sampler>>
    BY <1>6, <2>1 DEF Before, GoTo, Raise, Tally, Busy, Unrecorded
  <2>2. CASE opened' = TRUE /\ worker' = [w \in Threads |-> IF w <= Clients[grp] THEN "check" ELSE "off"]
    <3>1. Busy' = {} /\ Unrecorded' = {}
      BY <2>2 DEF Busy, Unrecorded
    <3>2. UNCHANGED <<grp, started, rows, completed, answered>> /\ Fresh /\ ~opened /\ pc = "before"
      BY <1>6 DEF Before, At, Flow, Outside
    <3>3. answered[grp] = 0
      BY <3>2 DEF Exact, Reported, Fresh, TypeOK, RunTypes, ReportTypes, NoReport
    <3>4. QED
      BY <3>1, <3>2, <3>3, FS_EmptySet, LimitAssumption DEF Tally, Fresh, LimitAssumption
  <2>3. QED
    BY <1>6, <2>1, <2>2 DEF Before
<1>7. CASE LoadEnds
  <2>1. Busy' = Busy /\ Unrecorded' = Unrecorded
    BY <1>7 DEF LoadEnds, Busy, Unrecorded
  <2>2. QED
    BY <1>7, <2>1 DEF LoadEnds, Tally, At, GoTo, Raise
<1>8. CASE Join
  <2>1. Busy' = Busy /\ Unrecorded' = Unrecorded
    BY <1>8 DEF Join, Busy, Unrecorded
  <2>2. QED
    BY <1>8, <2>1 DEF Join, Tally, At, GoTo, Raise
<1>9. CASE After
  <2>1. CASE UNCHANGED <<grp, load>>
    BY <2>1 DEF Tally, Busy, Unrecorded
  <2>2. CASE Leave
    <3>1. Busy' = {} /\ Unrecorded' = {}
      BY <2>2 DEF Leave, Busy, Unrecorded
    <3>2. QED
      BY <2>2, <3>1, FS_EmptySet, LimitAssumption DEF Leave, Tally, LimitAssumption
  <2>3. QED
    BY <1>9, <2>1, <2>2 DEF After
<1>10. CASE DockerStop
  <2>1. Busy' = Busy /\ Unrecorded' = Unrecorded
    BY <1>10 DEF DockerStop, Busy, Unrecorded
  <2>2. QED
    BY <1>10, <2>1 DEF DockerStop, Tally, At, GoTo, Raise
<1>11. CASE WriteState
  <2>1. Busy' = Busy /\ Unrecorded' = Unrecorded
    BY <1>11 DEF WriteState, Busy, Unrecorded
  <2>2. QED
    BY <1>11, <2>1 DEF WriteState, Tally, At, GoTo, Raise
<1>12. CASE ExitCode
  <2>1. Busy' = Busy /\ Unrecorded' = Unrecorded
    BY <1>12 DEF ExitCode, Busy, Unrecorded
  <2>2. QED
    BY <1>12, <2>1 DEF ExitCode, Tally, At, GoTo, Raise
<1>13. CASE Logs
  <2>1. Busy' = Busy /\ Unrecorded' = Unrecorded
    BY <1>13 DEF Logs, Busy, Unrecorded
  <2>2. QED
    BY <1>13, <2>1 DEF Logs, Tally, At, GoTo, Raise
<1>14. CASE Remove
  <2>1. Busy' = Busy /\ Unrecorded' = Unrecorded
    BY <1>14 DEF Remove, Busy, Unrecorded
  <2>2. QED
    BY <1>14, <2>1 DEF Remove, Tally, At, GoTo, Raise
<1>15. CASE Verdict
  <2>1. CASE UNCHANGED <<grp, load>>
    BY <2>1 DEF Tally, Busy, Unrecorded
  <2>2. CASE Leave
    <3>1. Busy' = {} /\ Unrecorded' = {}
      BY <2>2 DEF Leave, Busy, Unrecorded
    <3>2. QED
      BY <2>2, <3>1, FS_EmptySet, LimitAssumption DEF Leave, Tally, LimitAssumption
  <2>3. QED
    BY <1>15, <2>1, <2>2 DEF Verdict, NextConfiguration
<1>16. CASE RecordFailure
  <2>1. CASE UNCHANGED <<grp, load>>
    BY <2>1 DEF Tally, Busy, Unrecorded
  <2>2. CASE Leave
    <3>1. Busy' = {} /\ Unrecorded' = {}
      BY <2>2 DEF Leave, Busy, Unrecorded
    <3>2. QED
      BY <2>2, <3>1, FS_EmptySet, LimitAssumption DEF Leave, Tally, LimitAssumption
  <2>3. QED
    BY <1>16, <2>1, <2>2 DEF RecordFailure, NextConfiguration
<1>17. CASE RecordFails
  <2>1. Busy' = Busy /\ Unrecorded' = Unrecorded
    BY <1>17 DEF RecordFails, Busy, Unrecorded
  <2>2. QED
    BY <1>17, <2>1 DEF RecordFails, Tally, At, GoTo, Raise
<1>18. ASSUME NEW w \in Threads, WorkerReturns(w) PROVE Tally'
  <2>1. worker' = [worker EXCEPT ![w] = "returned"] /\ worker[w] = "check"
    BY <1>18 DEF WorkerReturns
  <2>2. Busy' = Busy /\ Unrecorded' = Unrecorded
    BY <1>18, <2>1 DEF WorkerReturns, Busy, Unrecorded, TypeOK, LoadTypes
  <2>3. QED
    BY <1>18, <2>2 DEF WorkerReturns, Tally
<1>19. ASSUME NEW w \in Threads, WorkerReserves(w) PROVE Tally'
  <2>1. worker' = [worker EXCEPT ![w] = "busy"] /\ worker[w] = "check" /\ started < MaxAttempts
    BY <1>19, LimitAssumption DEF WorkerReserves, EnoughMeasured, TypeOK, LoadTypes, LimitAssumption
  <2>2. Busy' = Busy \cup {w} /\ w \notin Busy /\ Unrecorded' = Unrecorded
    BY <1>19, <2>1 DEF WorkerReserves, Busy, Unrecorded, TypeOK, LoadTypes
  <2>3. IsFiniteSet(Busy') /\ Cardinality(Busy') = Cardinality(Busy) + 1
    BY <2>2, FS_AddElement DEF Tally
  <2>4. Cardinality(Busy) \in Nat
    BY FS_CardinalityType DEF Tally
  <2>5. started' = started + 1 /\ UNCHANGED <<rows, completed, opened, answered, grp>>
    BY <1>19 DEF WorkerReserves
  <2>6. QED
    BY <2>1, <2>2, <2>3, <2>4, <2>5, LimitAssumption DEF Tally, TypeOK, LoadTypes, LimitAssumption
<1>20. ASSUME NEW w \in Threads, Invoke(w) PROVE Tally'
  <2>1. worker' = [worker EXCEPT ![w] = "answered"] /\ worker[w] = "busy"
    BY <1>20 DEF Invoke
  <2>2. Busy' = Busy /\ UNCHANGED <<started, rows, completed, opened, grp>>
    BY <1>20, <2>1 DEF Invoke, Busy, TypeOK, LoadTypes
  <2>3. PICK o \in Outcomes :
          /\ reply' = [reply EXCEPT ![w] = [end |-> clock, outcome |-> o]]
          /\ answered' = [answered EXCEPT ![grp] = @ + IF o = "transport" THEN 0 ELSE 1]
    BY <1>20 DEF Invoke
  <2>4. w \notin Unrecorded
    BY <2>1 DEF Unrecorded
  <2>5. CASE o = "transport"
    <3>1. Unrecorded' = Unrecorded
      BY <2>1, <2>3, <2>4, <2>5 DEF Unrecorded, TypeOK, LoadTypes
    <3>2. answered'[grp] = answered[grp]
      BY <2>3, <2>5 DEF TypeOK, RunTypes, ReportTypes
    <3>3. QED
      BY <2>2, <3>1, <3>2 DEF Tally
  <2>6. CASE o # "transport"
    <3>1. Unrecorded' = Unrecorded \cup {w}
      BY <2>1, <2>3, <2>6 DEF Unrecorded, TypeOK, LoadTypes
    <3>2. answered'[grp] = answered[grp] + 1
      BY <2>3, <2>6 DEF TypeOK, RunTypes, ReportTypes
    <3>3. IsFiniteSet(Unrecorded') /\ Cardinality(Unrecorded') = Cardinality(Unrecorded) + 1
      BY <2>4, <3>1, FS_AddElement DEF Tally
    <3>4. Cardinality(Unrecorded) \in Nat
      BY FS_CardinalityType DEF Tally
    <3>5. QED
      BY <2>2, <3>2, <3>3, <3>4 DEF Tally, TypeOK, RunTypes, LoadTypes, ReportTypes
  <2>7. QED
    BY <2>5, <2>6
<1>21. ASSUME NEW w \in Threads, InvokeRaises(w) PROVE Tally'
  <2>1. worker' = [worker EXCEPT ![w] = "raised"] /\ worker[w] = "busy"
    BY <1>21 DEF InvokeRaises
  <2>2. Busy' = Busy /\ Unrecorded' = Unrecorded
    BY <1>21, <2>1 DEF InvokeRaises, Busy, Unrecorded, TypeOK, LoadTypes
  <2>3. QED
    BY <1>21, <2>2 DEF InvokeRaises, Tally
<1>22. ASSUME NEW w \in Threads, WorkerRecords(w) PROVE Tally'
  <2>1. worker' = [worker EXCEPT ![w] = "check"] /\ worker[w] = "answered" /\ w \in Threads
    BY <1>22 DEF WorkerRecords
  <2>2. Busy' = Busy \ {w} /\ w \in Busy
    BY <2>1 DEF Busy, TypeOK, LoadTypes
  <2>3. IsFiniteSet(Busy') /\ Cardinality(Busy') = Cardinality(Busy) - 1
    BY <2>2, FS_RemoveElement DEF Tally
  <2>4. Unrecorded' = Unrecorded \ {w}
    BY <1>22, <2>1 DEF WorkerRecords, Unrecorded, TypeOK, LoadTypes
  <2>5. IsFiniteSet(Unrecorded') /\ Cardinality(Unrecorded') =
          Cardinality(Unrecorded) - IF reply[w].outcome = "transport" THEN 0 ELSE 1
    <3>1. w \in Unrecorded <=> reply[w].outcome # "transport"
      BY <2>1 DEF Unrecorded
    <3>2. Cardinality(Unrecorded) \in Nat
      BY FS_CardinalityType DEF Tally
    <3>3. IsFiniteSet(Unrecorded')
          /\ Cardinality(Unrecorded') = IF w \in Unrecorded THEN Cardinality(Unrecorded) - 1
                                        ELSE Cardinality(Unrecorded)
      BY <2>4, FS_RemoveElement DEF Tally
    <3>4. QED
      BY <3>1, <3>2, <3>3
  <2>6. Cardinality(Busy) \in Nat /\ Cardinality(Unrecorded) \in Nat
    BY FS_CardinalityType DEF Tally
  <2>7. /\ rows' = rows + 1 /\ UNCHANGED <<started, opened, answered, grp>>
        /\ completed' = completed + IF reply[w].outcome = "transport" THEN 0 ELSE 1
    BY <1>22 DEF WorkerRecords
  <2>8. QED
    BY <2>3, <2>5, <2>6, <2>7, LimitAssumption DEF Tally, TypeOK, LoadTypes, LimitAssumption
<1>23. CASE Observe
  <2>1. Busy' = Busy /\ Unrecorded' = Unrecorded
    BY <1>23 DEF Observe, Busy, Unrecorded
  <2>2. QED
    BY <1>23, <2>1 DEF Observe, Tally, At, GoTo, Raise
<1>24. CASE SampleAgain
  <2>1. Busy' = Busy /\ Unrecorded' = Unrecorded
    BY <1>24 DEF SampleAgain, Busy, Unrecorded
  <2>2. QED
    BY <1>24, <2>1 DEF SampleAgain, Tally, At, GoTo, Raise
<1>25. CASE Tick
  <2>1. Busy' = Busy /\ Unrecorded' = Unrecorded
    BY <1>25 DEF Tick, Busy, Unrecorded
  <2>2. QED
    BY <1>25, <2>1 DEF Tick, Tally, At, GoTo, Raise
<1>26. CASE ServiceDies
  <2>1. Busy' = Busy /\ Unrecorded' = Unrecorded
    BY <1>26 DEF ServiceDies, Busy, Unrecorded
  <2>2. QED
    BY <1>26, <2>1 DEF ServiceDies, Tally, At, GoTo, Raise
<1>27. QED
  BY <1>1, <1>2, <1>3, <1>4, <1>5, <1>6, <1>7, <1>8, <1>9, <1>10, <1>11, <1>12, <1>13, <1>14,
     <1>15, <1>16, <1>17, <1>18, <1>19, <1>20, <1>21, <1>22, <1>23, <1>24, <1>25, <1>26 DEF Next

LEMMA ExactKept ==
  ASSUME TypeOK, Flow, Reported, Tally, Exact, [Next]_vars
  PROVE  Exact'
<1>1. CASE UNCHANGED vars
  BY <1>1 DEF Exact, vars
<1>2. CASE Create
  BY <1>2 DEF Create, Exact, NoReport
<1>3. CASE Start
  BY <1>3 DEF Start, At, GoTo, Raise, Exact
<1>4. CASE Cold
  BY <1>4 DEF Cold, At, GoTo, Raise, Exact
<1>5. CASE Warmup
  BY <1>5 DEF Warmup, At, GoTo, Raise, Exact
<1>6. CASE Before
  BY <1>6 DEF Before, Exact
<1>7. CASE LoadEnds
  BY <1>7 DEF LoadEnds, At, GoTo, Raise, Exact
<1>8. CASE Join
  BY <1>8 DEF Join, At, GoTo, Raise, Exact
<1>9. CASE After
  <2>1. CASE UNCHANGED <<grp, load, reports>>
    BY <2>1 DEF Exact
  <2>2. CASE reports' = [reports EXCEPT ![grp] = Summary(FALSE)] /\ Leave
    <3>1. Unrecorded = {} /\ opened
      BY <1>9 DEF After, At, Flow, Ended, Unrecorded
    <3>2. answered[grp] = completed
      BY <3>1, FS_EmptySet DEF Tally, TypeOK, RunTypes, LoadTypes, ReportTypes
    <3>3. reports'[grp].completed = answered[grp] /\ \A g \in 1..Groups : g # grp => reports'[g] = reports[g]
      BY <2>2, <3>2 DEF Summary, TypeOK, RunTypes, ReportTypes
    <3>4. answered' = answered
      BY <2>2 DEF Leave
    <3>5. QED
      BY <3>3, <3>4 DEF Exact
  <2>3. QED
    BY <1>9, <2>1, <2>2 DEF After
<1>10. CASE DockerStop
  BY <1>10 DEF DockerStop, At, GoTo, Raise, Exact
<1>11. CASE WriteState
  BY <1>11 DEF WriteState, At, GoTo, Raise, Exact
<1>12. CASE ExitCode
  BY <1>12 DEF ExitCode, At, GoTo, Raise, Exact
<1>13. CASE Logs
  BY <1>13 DEF Logs, At, GoTo, Raise, Exact
<1>14. CASE Remove
  BY <1>14 DEF Remove, At, GoTo, Raise, Exact
<1>15. CASE Verdict
  BY <1>15 DEF Verdict, At, NextConfiguration, Leave, Exact, Flow, Outside
<1>16. CASE RecordFailure
  <2>1. Unrecorded = {} /\ answered' = answered /\ reports' = Completion
    BY <1>16 DEF RecordFailure, At, Flow, Ended, Unrecorded, NextConfiguration, Leave
  <2>2. opened => answered[grp] = completed
    BY <2>1, FS_EmptySet DEF Tally, TypeOK, RunTypes, LoadTypes, ReportTypes
  <2>3. ASSUME NEW g \in 1..Groups PROVE reports'[g].completed = answered[g]
    <3>1. CASE g = grp /\ opened /\ reports[g] = NoReport
      <4>1. reports'[g] = Summary(TRUE)
        BY <2>1, <3>1 DEF Completion, TypeOK, RunTypes, ReportTypes
      <4>2. QED
        BY <2>2, <3>1, <4>1 DEF Summary
    <3>2. CASE ~(g = grp /\ opened /\ reports[g] = NoReport)
      <4>1. reports'[g] = reports[g]
        BY <2>1, <3>2 DEF Completion, TypeOK, RunTypes, ReportTypes
      <4>2. QED
        BY <3>2, <4>1 DEF Exact
    <3>3. QED
      BY <3>1, <3>2
  <2>4. QED
    BY <2>1, <2>3 DEF Exact
<1>17. CASE RecordFails
  BY <1>17 DEF RecordFails, At, GoTo, Raise, Exact
<1>18. ASSUME NEW w \in Threads, WorkerReturns(w) PROVE Exact'
  BY <1>18 DEF WorkerReturns, At, GoTo, Raise, Exact
<1>19. ASSUME NEW w \in Threads, WorkerReserves(w) PROVE Exact'
  BY <1>19 DEF WorkerReserves, At, GoTo, Raise, Exact
<1>20. ASSUME NEW w \in Threads, Invoke(w) PROVE Exact'
  <2>1. worker[w] = "busy" /\ UNCHANGED <<reports, grp, opened>>
    BY <1>20 DEF Invoke
  <2>2. pc = "load" /\ opened
    BY <2>1 DEF Flow, Ended
  <2>3. \A g \in 1..Groups : g # grp => answered'[g] = answered[g]
    BY <1>20 DEF Invoke, TypeOK, RunTypes, ReportTypes
  <2>4. reports[grp] = NoReport
    BY <2>2 DEF Reported, TypeOK, RunTypes, ReportTypes
  <2>5. QED
    BY <2>1, <2>2, <2>3, <2>4 DEF Exact
<1>21. ASSUME NEW w \in Threads, InvokeRaises(w) PROVE Exact'
  BY <1>21 DEF InvokeRaises, At, GoTo, Raise, Exact
<1>22. ASSUME NEW w \in Threads, WorkerRecords(w) PROVE Exact'
  BY <1>22 DEF WorkerRecords, At, GoTo, Raise, Exact
<1>23. CASE Observe
  BY <1>23 DEF Observe, At, GoTo, Raise, Exact
<1>24. CASE SampleAgain
  BY <1>24 DEF SampleAgain, At, GoTo, Raise, Exact
<1>25. CASE Tick
  BY <1>25 DEF Tick, At, GoTo, Raise, Exact
<1>26. CASE ServiceDies
  BY <1>26 DEF ServiceDies, At, GoTo, Raise, Exact
<1>27. QED
  BY <1>1, <1>2, <1>3, <1>4, <1>5, <1>6, <1>7, <1>8, <1>9, <1>10, <1>11, <1>12, <1>13, <1>14,
     <1>15, <1>16, <1>17, <1>18, <1>19, <1>20, <1>21, <1>22, <1>23, <1>24, <1>25, <1>26 DEF Next

LEMMA CountsInvariant == Spec => [](Tally /\ Exact)
<1>1. Init => Tally /\ Exact
  <2> SUFFICES ASSUME Init PROVE Tally /\ Exact
    OBVIOUS
  <2>1. Busy = {} /\ Unrecorded = {}
    BY DEF Init, Busy, Unrecorded
  <2>2. Tally
    BY <2>1, FS_EmptySet, LimitAssumption DEF Init, Tally, LimitAssumption
  <2>3. Exact
    BY DEF Init, Exact, NoReport
  <2>4. QED
    BY <2>2, <2>3
<1>2. TypeOK /\ Flow /\ Reported /\ Tally /\ Exact /\ [Next]_vars => Tally' /\ Exact'
  BY TallyKept, ExactKept
<1>3. QED
  BY <1>1, <1>2, TypeCorrect, FlowInvariant, ReportedInvariant, PTL DEF Spec

LEMMA ClosingInvariant == Spec => []Closing
<1>1. Init => Closing
  BY DEF Init, Closing, Sound, ExitMeansMet
<1>2. TypeOK /\ Flow /\ Reported /\ Exact /\ Closing /\ [Next]_vars => Closing'
  <2> SUFFICES ASSUME TypeOK, Flow, Reported, Exact, Closing, [Next]_vars PROVE Closing'
    OBVIOUS
  <2>1. CASE UNCHANGED vars
    BY <2>1 DEF Closing, Sound, ExitMeansMet, vars
  <2>2. CASE Create
    <3>1. success => conf = 1 \/ (sound /\ Sound)
      BY <2>2 DEF Create, At, Closing
    <3>2. success => sound'
      BY <2>2, <3>1 DEF Create
    <3>3. UNCHANGED <<success, exit>> /\ pc' \in {"start", "failure"} /\ exit = -1
      BY <2>2 DEF Create, At, GoTo, Raise, Flow, TypeOK, RunTypes
    <3>4. QED
      BY <3>2, <3>3 DEF Closing, ExitMeansMet
  <2>3. CASE Start
    BY <2>3 DEF Start, At, GoTo, Raise, Flow, Closing, Sound, ExitMeansMet
  <2>4. CASE Cold
    BY <2>4 DEF Cold, At, GoTo, Raise, Flow, Closing, Sound, ExitMeansMet
  <2>5. CASE Warmup
    BY <2>5 DEF Warmup, At, GoTo, Raise, Flow, Closing, Sound, ExitMeansMet
  <2>6. CASE Before
    BY <2>6 DEF Before, At, GoTo, Raise, Flow, Closing, Sound, ExitMeansMet
  <2>7. CASE LoadEnds
    BY <2>7 DEF LoadEnds, At, GoTo, Raise, Flow, Closing, Sound, ExitMeansMet
  <2>8. CASE Join
    BY <2>8 DEF Join, At, GoTo, Raise, Flow, Closing, Sound, ExitMeansMet
  <2>9. CASE After
    <3>1. pc' \in {"warmup", "stop", "state"} /\ UNCHANGED <<success, exit, sound>>
      BY <2>9, AfterSteps
    <3>2. pc = "after" /\ exit = -1
      BY <2>9, AfterSteps DEF Flow, TypeOK, RunTypes
    <3>3. QED
      BY <3>1, <3>2 DEF Closing, ExitMeansMet
  <2>10. CASE DockerStop
    BY <2>10 DEF DockerStop, At, GoTo, Raise, Flow, Closing, Sound, ExitMeansMet
  <2>11. CASE WriteState
    BY <2>11 DEF WriteState, At, GoTo, Raise, Flow, Closing, Sound, ExitMeansMet
  <2>12. CASE ExitCode
    BY <2>12 DEF ExitCode, At, GoTo, Raise, Flow, Closing, Sound, ExitMeansMet
  <2>13. CASE Logs
    BY <2>13 DEF Logs, At, GoTo, Raise, Flow, Closing, Sound, ExitMeansMet
  <2>14. CASE Remove
    BY <2>14 DEF Remove, At, GoTo, Raise, Serving, Flow, Closing, Sound, ExitMeansMet
  <2>15. CASE Verdict
    <3>1. (Sound /\ sound) \/ ~(Passed /\ success)
      <4> SUFFICES ASSUME Passed, success PROVE Sound /\ sound
        OBVIOUS
      <4>1. pc = "verdict" /\ ~raised /\ ~failure /\ service = "exited" /\ removed /\ sound
        BY <2>15 DEF Verdict, At, Flow, Straight, Closing
      <4>2. ASSUME NEW g \in 1..Groups
            PROVE  /\ reports[g].clean /\ ~reports[g].failed
                   /\ reports[g].last >= MinTime /\ reports[g].completed >= MinCompleted
                   /\ reports[g].completed = answered[g]
        <5>1. ~reports[g].failed
          BY <4>1 DEF Reported
        <5>2. reports[g] # NoReport
          BY <5>1 DEF NoReport
        <5>3. QED
          BY <5>1, <5>2 DEF Passed, Met, ThresholdsMet, Exact
      <4>3. QED
        BY <4>1, <4>2 DEF Sound
    <3>2. UNCHANGED <<service, removed, failure, reports, answered, sound>>
      BY <2>15 DEF Verdict, NextConfiguration, Leave
    <3>3. Sound' <=> Sound
      BY <3>2 DEF Sound
    <3>4. success' = (Passed /\ success) /\ (exit' = 0 => Passed /\ success)
      BY <2>15 DEF Verdict, NextConfiguration, At, Flow
    <3>5. pc' \in {"create", "done"}
      BY <2>15 DEF Verdict, NextConfiguration
    <3>6. QED
      BY <3>1, <3>2, <3>3, <3>4, <3>5 DEF Closing, ExitMeansMet
  <2>16. CASE RecordFailure
    BY <2>16 DEF RecordFailure, At, GoTo, Raise, NextConfiguration, Flow, Closing, Sound,
       ExitMeansMet
  <2>17. CASE RecordFails
    BY <2>17 DEF RecordFails, At, GoTo, Raise, Closing, Sound, ExitMeansMet
  <2>18. ASSUME NEW w \in Threads, WorkerReturns(w) PROVE Closing'
    BY <2>18 DEF WorkerReturns, At, GoTo, Raise, Closing, Sound, ExitMeansMet
  <2>19. ASSUME NEW w \in Threads, WorkerReserves(w) PROVE Closing'
    BY <2>19 DEF WorkerReserves, At, GoTo, Raise, Closing, Sound, ExitMeansMet
  <2>20. ASSUME NEW w \in Threads, Invoke(w) PROVE Closing'
    BY <2>20 DEF Invoke, At, GoTo, Raise, Flow, Ended, Closing, Sound, ExitMeansMet
  <2>21. ASSUME NEW w \in Threads, InvokeRaises(w) PROVE Closing'
    BY <2>21 DEF InvokeRaises, At, GoTo, Raise, Closing, Sound, ExitMeansMet
  <2>22. ASSUME NEW w \in Threads, WorkerRecords(w) PROVE Closing'
    BY <2>22 DEF WorkerRecords, At, GoTo, Raise, Closing, Sound, ExitMeansMet
  <2>23. CASE Observe
    BY <2>23 DEF Observe, At, GoTo, Raise, Closing, Sound, ExitMeansMet
  <2>24. CASE SampleAgain
    BY <2>24 DEF SampleAgain, At, GoTo, Raise, Closing, Sound, ExitMeansMet
  <2>25. CASE Tick
    BY <2>25 DEF Tick, At, GoTo, Raise, Closing, Sound, ExitMeansMet
  <2>26. CASE ServiceDies
    BY <2>26 DEF ServiceDies, At, GoTo, Raise, Serving, Flow, Closing, Sound, ExitMeansMet
  <2>27. QED
    BY <2>1, <2>2, <2>3, <2>4, <2>5, <2>6, <2>7, <2>8, <2>9, <2>10, <2>11, <2>12, <2>13, <2>14,
       <2>15, <2>16, <2>17, <2>18, <2>19, <2>20, <2>21, <2>22, <2>23, <2>24, <2>25, <2>26 DEF Next
<1>3. QED
  BY <1>1, <1>2, TypeCorrect, FlowInvariant, ReportedInvariant, CountsInvariant, PTL DEF Spec

-----------------------------------------------------------------------------
\* No more attempts than the limit, no completed request without its row, and no
\* attempt of a group that is reported without one.
THEOREM LoadsAreBounded == Spec => []LoadIsBounded
<1>1. TypeOK /\ Flow /\ Tally => LoadIsBounded
  <2> SUFFICES ASSUME TypeOK, Flow, Tally PROVE LoadIsBounded
    OBVIOUS
  <2>1. At("after") => Busy = {}
    BY DEF At, Flow, Ended, Busy
  <2>2. At("after") => rows = started
    BY <2>1, FS_EmptySet DEF Tally, TypeOK, LoadTypes
  <2>3. QED
    BY <2>2 DEF Tally, LoadIsBounded
<1>2. QED
  BY <1>1, TypeCorrect, FlowInvariant, CountsInvariant, PTL

\* A failed configuration is recorded with the exact number of requests answered.
THEOREM FailuresAreExact == Spec => []FailureIsExact
<1>1. Flow /\ Exact => FailureIsExact
  BY DEF Flow, Exact, FailureIsExact
<1>2. QED
  BY <1>1, FlowInvariant, CountsInvariant, PTL

\* Exit code 0 means that every configuration was sound.
THEOREM ExitZeroIsSound == Spec => []ExitMeansMet
<1>1. Closing => ExitMeansMet
  BY DEF Closing
<1>2. QED
  BY <1>1, ClosingInvariant, PTL
=============================================================================
