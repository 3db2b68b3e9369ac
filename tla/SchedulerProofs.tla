-------------------------- MODULE SchedulerProofs --------------------------
(***************************************************************************)
(* What Scheduler guarantees for every number of requests and slots, every *)
(* queue capacity and every pair of timeouts.                              *)
(*                                                                         *)
(* The invariants are layered, each one inductive relative to those before *)
(* it:                                                                     *)
(*   TypeOK                                                                *)
(*   Coherence   caller, permit and blocking task of one request agree     *)
(*   PermitInv   the permits add up; GaugeInv, the gauges count the same   *)
(*   QueueInv    no slot is idle, no waiter is overtaken                   *)
(*   DriverInv   a parked run has its wakers, a panic is not forgotten     *)
(*   LostInv     a session is lost only to a request that keeps its permit *)
(*               until admission is closed; SessionInv, hence one is left  *)
(*               for every task that still has to take one                 *)
(*   OutcomeInv  what a caller was told agrees with what its task did      *)
(*   AdmissionInv  what close and the reply channel contribute             *)
(* For the counting invariants a first lemma describes the effect of every *)
(* step on the set that is counted, a second one does the arithmetic.      *)
(*                                                                         *)
(* The last part shows that the scheduler implements Admission: through    *)
(* the mapping of SchedulerRefinement each of its steps is one of the      *)
(* abstract service or changes nothing of it.                              *)
(***************************************************************************)
EXTENDS SchedulerRefinement, FiniteSetTheorems, TLAPS

USE DEF gaugeVars, permitVars, callerVars, workVars, driverVars

\* Every step keeps every variable within its type.
LEMMA TypeKept ==
  ASSUME TypeOK, [Next]_vars
  PROVE  TypeOK'
<1> USE SlotsAssumption, CapacityAssumption, TimeoutAssumption, OverflowAssumption,
        ResultsAssumption, DropsAssumption
    DEF SlotsAssumption, CapacityAssumption, TimeoutAssumption, OverflowAssumption,
        ResultsAssumption, DropsAssumption
<1>1. ASSUME NEW r \in Requests, ArriveClosed(r) PROVE TypeOK'
  BY <1>1 DEF ArriveClosed, Arrive, Answer, TypeOK, GaugeTypes, PermitTypes, CallerTypes,
     WorkTypes, DriverTypes, Outcomes
<1>2. ASSUME NEW r \in Requests, ArriveStart(r) PROVE TypeOK'
  BY <1>2 DEF ArriveStart, Arrive, Admit, Queued, TypeOK, GaugeTypes, PermitTypes, CallerTypes,
     WorkTypes, DriverTypes, Outcomes
<1>3. ASSUME NEW r \in Requests, ArriveFull(r) PROVE TypeOK'
  BY <1>3 DEF ArriveFull, Arrive, Answer, TypeOK, GaugeTypes, PermitTypes, CallerTypes,
     WorkTypes, DriverTypes, Outcomes
<1>4. ASSUME NEW r \in Requests, ArriveQueue(r) PROVE TypeOK'
  BY <1>4 DEF ArriveQueue, Arrive, Queued, TypeOK, GaugeTypes, PermitTypes, CallerTypes,
     WorkTypes, DriverTypes, Outcomes
<1>5. ASSUME NEW r \in Requests, ArriveOverflow(r) PROVE TypeOK'
  BY <1>5 DEF ArriveOverflow, Arrive, Answer, TypeOK, GaugeTypes, PermitTypes, CallerTypes,
     WorkTypes, DriverTypes, Outcomes
<1>6. ASSUME NEW r \in Requests, WaitClosed(r) PROVE TypeOK'
  BY <1>6 DEF WaitClosed, Wait, Answer, LeaveQueue, DropAcquire, GiveBack, IsFirst, Queued,
     TypeOK, GaugeTypes, PermitTypes, CallerTypes, WorkTypes, DriverTypes, Outcomes
<1>7. ASSUME NEW r \in Requests, WaitExpired(r) PROVE TypeOK'
  BY <1>7 DEF WaitExpired, Wait, Answer, LeaveQueue, DropAcquire, GiveBack, IsFirst, Queued,
     TypeOK, GaugeTypes, PermitTypes, CallerTypes, WorkTypes, DriverTypes, Outcomes
<1>8. ASSUME NEW r \in Requests, WaitStart(r) PROVE TypeOK'
  BY <1>8 DEF WaitStart, Wait, Admit, TypeOK, GaugeTypes, PermitTypes, CallerTypes, WorkTypes,
     DriverTypes, Outcomes
<1>9. ASSUME NEW r \in Requests, WaitOverflow(r) PROVE TypeOK'
  BY <1>9 DEF WaitOverflow, Wait, Answer, LeaveQueue, DropAcquire, GiveBack, IsFirst, Queued,
     TypeOK, GaugeTypes, PermitTypes, CallerTypes, WorkTypes, DriverTypes, Outcomes
<1>10. ASSUME NEW r \in Requests, CancelWaiting(r) PROVE TypeOK'
  BY <1>10 DEF CancelWaiting, Wait, Answer, LeaveQueue, DropAcquire, GiveBack, IsFirst, Queued,
     TypeOK, GaugeTypes, PermitTypes, CallerTypes, WorkTypes, DriverTypes, Outcomes
<1>11. ASSUME NEW r \in Requests, Spawn(r) PROVE TypeOK'
  BY <1>11 DEF Spawn, WakeDriver, TypeOK, GaugeTypes, PermitTypes, CallerTypes, WorkTypes,
     DriverTypes, Outcomes
<1>12. ASSUME NEW r \in Requests, SpawnRefused(r) PROVE TypeOK'
  BY <1>12 DEF SpawnRefused, Answer, GiveBack, IsFirst, Queued, TypeOK, GaugeTypes,
     PermitTypes, CallerTypes, WorkTypes, DriverTypes, Outcomes
<1>13. ASSUME NEW r \in Requests, AwaitExpired(r) PROVE TypeOK'
  BY <1>13 DEF AwaitExpired, Execute, Answer, TypeOK, GaugeTypes, PermitTypes, CallerTypes,
     WorkTypes, DriverTypes, Outcomes
<1>14. ASSUME NEW r \in Requests, AwaitReply(r) PROVE TypeOK'
  BY <1>14 DEF AwaitReply, Execute, Answer, TypeOK, GaugeTypes, PermitTypes, CallerTypes,
     WorkTypes, DriverTypes, Outcomes
<1>15. ASSUME NEW r \in Requests, CancelExecuting(r) PROVE TypeOK'
  BY <1>15 DEF CancelExecuting, Execute, Answer, TypeOK, GaugeTypes, PermitTypes, CallerTypes,
     WorkTypes, DriverTypes, Outcomes
<1>16. ASSUME NEW r \in Requests, TakeSession(r) PROVE TypeOK'
  <2>1. GaugeTypes'
    BY <1>16 DEF TakeSession, Work, ShutAdmission, CloseSemaphore, WakeDriver, TypeOK, GaugeTypes
  <2>2. PermitTypes'
    BY <1>16 DEF TakeSession, Work, ShutAdmission, CloseSemaphore, WakeDriver, TypeOK, PermitTypes
  <2>3. CallerTypes'
    BY <1>16 DEF TakeSession, Work, ShutAdmission, CloseSemaphore, WakeDriver, TypeOK,
       CallerTypes, Outcomes
  <2>4. WorkTypes'
    BY <1>16 DEF TakeSession, Work, ShutAdmission, CloseSemaphore, WakeDriver, TypeOK, WorkTypes
  <2>5. DriverTypes'
    BY <1>16 DEF TakeSession, Work, ShutAdmission, CloseSemaphore, WakeDriver, TypeOK, DriverTypes
  <2>6. QED
    BY <2>1, <2>2, <2>3, <2>4, <2>5 DEF TypeOK
<1>17. ASSUME NEW r \in Requests, Finish(r) PROVE TypeOK'
  BY <1>17 DEF Finish, Work, TypeOK, GaugeTypes, PermitTypes, CallerTypes, WorkTypes,
     DriverTypes, Outcomes
<1>18. ASSUME NEW r \in Requests, Panic(r) PROVE TypeOK'
  BY <1>18 DEF Panic, Work, TypeOK, GaugeTypes, PermitTypes, CallerTypes, WorkTypes,
     DriverTypes, Outcomes
<1>19. ASSUME NEW r \in Requests, PanicClose(r) PROVE TypeOK'
  BY <1>19 DEF PanicClose, Work, ShutAdmission, CloseSemaphore, WakeDriver, TypeOK, GaugeTypes,
     PermitTypes, CallerTypes, WorkTypes, DriverTypes, Outcomes
<1>20. ASSUME NEW r \in Requests, DropRunning(r) PROVE TypeOK'
  BY <1>20 DEF DropRunning, Work, TypeOK, GaugeTypes, PermitTypes, CallerTypes, WorkTypes,
     DriverTypes, Outcomes
<1>21. ASSUME NEW r \in Requests, ReleasePermit(r) PROVE TypeOK'
  BY <1>21 DEF ReleasePermit, Work, GiveBack, IsFirst, Queued, TypeOK, GaugeTypes, PermitTypes,
     CallerTypes, WorkTypes, DriverTypes, Outcomes
<1>22. ASSUME NEW r \in Requests, Send(r) PROVE TypeOK'
  BY <1>22 DEF Send, Work, ReplyFor, TypeOK, GaugeTypes, PermitTypes, CallerTypes, WorkTypes,
     DriverTypes, Outcomes
<1>23. ASSUME NEW r \in Requests, Complete(r) PROVE TypeOK'
  BY <1>23 DEF Complete, Work, TypeOK, GaugeTypes, PermitTypes, CallerTypes, WorkTypes,
     DriverTypes, Outcomes
<1>24. ASSUME NEW r \in Requests, DriverJoin(r) PROVE TypeOK'
  <2>1. GaugeTypes'
    BY <1>24 DEF DriverJoin, Drive, CloseSemaphore, Unreaped, TypeOK, GaugeTypes
  <2>2. PermitTypes'
    BY <1>24 DEF DriverJoin, Drive, CloseSemaphore, Unreaped, TypeOK, PermitTypes
  <2>3. CallerTypes'
    BY <1>24 DEF DriverJoin, Drive, CloseSemaphore, Unreaped, TypeOK, CallerTypes, Outcomes
  <2>4. WorkTypes'
    BY <1>24 DEF DriverJoin, Drive, CloseSemaphore, Unreaped, TypeOK, WorkTypes
  <2>5. DriverTypes'
    BY <1>24 DEF DriverJoin, Drive, CloseSemaphore, Unreaped, TypeOK, DriverTypes
  <2>6. QED
    BY <2>1, <2>2, <2>3, <2>4, <2>5 DEF TypeOK
<1>25. CASE DriverStart
  BY <1>25 DEF DriverStart, Drive, TypeOK, GaugeTypes, PermitTypes, CallerTypes, WorkTypes,
     DriverTypes, Outcomes
<1>26. CASE DriverDrop
  BY <1>26 DEF DriverDrop, Drive, TypeOK, GaugeTypes, PermitTypes, CallerTypes, WorkTypes,
     DriverTypes, Outcomes
<1>27. CASE DriverPark
  BY <1>27 DEF DriverPark, Drive, Tracked, Unreaped, TypeOK, GaugeTypes, PermitTypes,
     CallerTypes, WorkTypes, DriverTypes, Outcomes
<1>28. CASE DriverDone
  BY <1>28 DEF DriverDone, Drive, Tracked, TypeOK, GaugeTypes, PermitTypes, CallerTypes,
     WorkTypes, DriverTypes, Outcomes
<1>29. CASE Close
  BY <1>29 DEF Close, ShutAdmission, CloseSemaphore, WakeDriver, TypeOK, GaugeTypes,
     PermitTypes, CallerTypes, WorkTypes, DriverTypes, Outcomes
<1>30. CASE Tick
  BY <1>30 DEF Tick, Elapse, TypeOK, GaugeTypes, PermitTypes, CallerTypes, WorkTypes,
     DriverTypes, Outcomes
<1>31. CASE UNCHANGED vars
  BY <1>31 DEF vars, TypeOK, GaugeTypes, PermitTypes, CallerTypes, WorkTypes, DriverTypes,
     Outcomes
<1>32. QED
  BY <1>1, <1>2, <1>3, <1>4, <1>5, <1>6, <1>7, <1>8, <1>9, <1>10, <1>11, <1>12, <1>13, <1>14,
     <1>15, <1>16, <1>17, <1>18, <1>19, <1>20, <1>21, <1>22, <1>23, <1>24, <1>25, <1>26, <1>27,
     <1>28, <1>29, <1>30, <1>31 DEF Next, CallerStep, Cancel, WorkStep, DriverStep

\* At the start every variable has a value of its type.
LEMMA TypeInit ==
  ASSUME Init
  PROVE  TypeOK
<1> USE SlotsAssumption DEF SlotsAssumption
<1>1. GaugeTypes
  BY DEF Init, GaugeTypes
<1>2. PermitTypes
  BY DEF Init, PermitTypes
<1>3. CallerTypes
  BY DEF Init, CallerTypes, Outcomes
<1>4. WorkTypes
  BY DEF Init, WorkTypes
<1>5. DriverTypes
  BY DEF Init, DriverTypes
<1>6. QED
  BY <1>1, <1>2, <1>3, <1>4, <1>5 DEF TypeOK

\* Every variable keeps to its type; in particular the number of free permits and
\* of sessions in the pool never becomes negative.
THEOREM TypeCorrect == Spec => []TypeOK
<1>1. Init => TypeOK
  BY TypeInit
<1>2. TypeOK /\ [Next]_vars => TypeOK'
  BY TypeKept
<1>3. QED
  BY <1>1, <1>2, PTL DEF Spec

-----------------------------------------------------------------------------
\* Where a request's caller, its permit and its task can be together.
Holding == {"spawned", "running", "unwinding", "returned", "counted"}
Over    == {"released", "sent", "finished", "joined"}

Coherent(r) ==
  /\ pc[r] = "idle" => task[r] = "none" /\ permit[r] = "none"
  /\ pc[r] = "waiting" => task[r] = "none" /\ permit[r] # "held"
  /\ pc[r] = "admitted" => task[r] = "none" /\ permit[r] = "held"
  /\ pc[r] = "executing" => task[r] # "none"
  /\ pc[r] = "done" /\ task[r] = "none" => permit[r] = "none"
  /\ task[r] \in Holding => permit[r] = "held"
  /\ task[r] \in Over => permit[r] = "none"

Coherence == \A r \in Requests : Coherent(r)

\* No step breaks the agreement of a caller, its permit and its task.
LEMMA CoherenceKept ==
  ASSUME TypeOK, Coherence, [Next]_vars
  PROVE  Coherence'
<1> USE DEF TypeOK, PermitTypes, CallerTypes, WorkTypes
<1>1. ASSUME NEW r \in Requests, ArriveClosed(r) PROVE Coherence'
  BY <1>1 DEF ArriveClosed, Arrive, Answer, Coherence, Coherent, Holding, Over
<1>2. ASSUME NEW r \in Requests, ArriveStart(r) PROVE Coherence'
  BY <1>2 DEF ArriveStart, Arrive, Admit, Queued, Coherence, Coherent, Holding, Over
<1>3. ASSUME NEW r \in Requests, ArriveFull(r) PROVE Coherence'
  BY <1>3 DEF ArriveFull, Arrive, Answer, Coherence, Coherent, Holding, Over
<1>4. ASSUME NEW r \in Requests, ArriveQueue(r) PROVE Coherence'
  BY <1>4 DEF ArriveQueue, Arrive, Queued, Coherence, Coherent, Holding, Over
<1>5. ASSUME NEW r \in Requests, ArriveOverflow(r) PROVE Coherence'
  BY <1>5 DEF ArriveOverflow, Arrive, Answer, Coherence, Coherent, Holding, Over
<1>6. ASSUME NEW r \in Requests, WaitClosed(r) PROVE Coherence'
  BY <1>6 DEF WaitClosed, Wait, Answer, LeaveQueue, DropAcquire, GiveBack, IsFirst, Queued,
     Coherence, Coherent, Holding, Over
<1>7. ASSUME NEW r \in Requests, WaitExpired(r) PROVE Coherence'
  BY <1>7 DEF WaitExpired, Wait, Answer, LeaveQueue, DropAcquire, GiveBack, IsFirst, Queued,
     Coherence, Coherent, Holding, Over
<1>8. ASSUME NEW r \in Requests, WaitStart(r) PROVE Coherence'
  BY <1>8 DEF WaitStart, Wait, Admit, Coherence, Coherent, Holding, Over
<1>9. ASSUME NEW r \in Requests, WaitOverflow(r) PROVE Coherence'
  BY <1>9 DEF WaitOverflow, Wait, Answer, LeaveQueue, DropAcquire, GiveBack, IsFirst, Queued,
     Coherence, Coherent, Holding, Over
<1>10. ASSUME NEW r \in Requests, CancelWaiting(r) PROVE Coherence'
  BY <1>10 DEF CancelWaiting, Wait, Answer, LeaveQueue, DropAcquire, GiveBack, IsFirst, Queued,
     Coherence, Coherent, Holding, Over
<1>11. ASSUME NEW r \in Requests, Spawn(r) PROVE Coherence'
  BY <1>11 DEF Spawn, WakeDriver, Coherence, Coherent, Holding, Over
<1>12. ASSUME NEW r \in Requests, SpawnRefused(r) PROVE Coherence'
  BY <1>12 DEF SpawnRefused, Answer, GiveBack, IsFirst, Queued, Coherence, Coherent, Holding, Over
<1>13. ASSUME NEW r \in Requests, AwaitExpired(r) PROVE Coherence'
  BY <1>13 DEF AwaitExpired, Execute, Answer, Coherence, Coherent, Holding, Over
<1>14. ASSUME NEW r \in Requests, AwaitReply(r) PROVE Coherence'
  BY <1>14 DEF AwaitReply, Execute, Answer, Coherence, Coherent, Holding, Over
<1>15. ASSUME NEW r \in Requests, CancelExecuting(r) PROVE Coherence'
  BY <1>15 DEF CancelExecuting, Execute, Answer, Coherence, Coherent, Holding, Over
<1>16. ASSUME NEW r \in Requests, TakeSession(r) PROVE Coherence'
  BY <1>16 DEF TakeSession, Work, ShutAdmission, CloseSemaphore, WakeDriver, Coherence,
     Coherent, Holding, Over
<1>17. ASSUME NEW r \in Requests, Finish(r) PROVE Coherence'
  BY <1>17 DEF Finish, Work, Coherence, Coherent, Holding, Over
<1>18. ASSUME NEW r \in Requests, Panic(r) PROVE Coherence'
  BY <1>18 DEF Panic, Work, Coherence, Coherent, Holding, Over
<1>19. ASSUME NEW r \in Requests, PanicClose(r) PROVE Coherence'
  BY <1>19 DEF PanicClose, Work, ShutAdmission, CloseSemaphore, WakeDriver, Coherence,
     Coherent, Holding, Over
<1>20. ASSUME NEW r \in Requests, DropRunning(r) PROVE Coherence'
  BY <1>20 DEF DropRunning, Work, Coherence, Coherent, Holding, Over
<1>21. ASSUME NEW r \in Requests, ReleasePermit(r) PROVE Coherence'
  BY <1>21 DEF ReleasePermit, Work, GiveBack, IsFirst, Queued, Coherence, Coherent, Holding, Over
<1>22. ASSUME NEW r \in Requests, Send(r) PROVE Coherence'
  BY <1>22 DEF Send, Work, ReplyFor, Coherence, Coherent, Holding, Over
<1>23. ASSUME NEW r \in Requests, Complete(r) PROVE Coherence'
  BY <1>23 DEF Complete, Work, Coherence, Coherent, Holding, Over
<1>24. ASSUME NEW r \in Requests, DriverJoin(r) PROVE Coherence'
  BY <1>24 DEF DriverJoin, Drive, CloseSemaphore, Unreaped, Coherence, Coherent, Holding, Over
<1>25. CASE DriverStart
  BY <1>25 DEF DriverStart, Drive, Coherence, Coherent, Holding, Over
<1>26. CASE DriverDrop
  BY <1>26 DEF DriverDrop, Drive, Coherence, Coherent, Holding, Over
<1>27. CASE DriverPark
  BY <1>27 DEF DriverPark, Drive, Tracked, Unreaped, Coherence, Coherent, Holding, Over
<1>28. CASE DriverDone
  BY <1>28 DEF DriverDone, Drive, Tracked, Coherence, Coherent, Holding, Over
<1>29. CASE Close
  BY <1>29 DEF Close, ShutAdmission, CloseSemaphore, WakeDriver, Coherence, Coherent, Holding,
     Over
<1>30. CASE Tick
  BY <1>30 DEF Tick, Elapse, Coherence, Coherent, Holding, Over
<1>31. CASE UNCHANGED vars
  BY <1>31 DEF vars, Coherence, Coherent, Holding, Over
<1>32. QED
  BY <1>1, <1>2, <1>3, <1>4, <1>5, <1>6, <1>7, <1>8, <1>9, <1>10, <1>11, <1>12, <1>13, <1>14,
     <1>15, <1>16, <1>17, <1>18, <1>19, <1>20, <1>21, <1>22, <1>23, <1>24, <1>25, <1>26, <1>27,
     <1>28, <1>29, <1>30, <1>31 DEF Next, CallerStep, Cancel, WorkStep, DriverStep

\* At the start no caller has a permit or a task.
LEMMA CoherenceInit == Init => Coherence
BY DEF Init, Coherence, Coherent, Holding, Over

\* The caller's future, its permit and its blocking task agree in every state.
LEMMA CoherenceInvariant == Spec => []Coherence
<1>1. Init => Coherence
  BY CoherenceInit
<1>2. TypeOK /\ Coherence /\ [Next]_vars => Coherence'
  BY CoherenceKept
<1>3. QED
  BY <1>1, <1>2, TypeCorrect, PTL DEF Spec

-----------------------------------------------------------------------------
\* What one step does to the permits: nothing, take a free one, free one, or
\* pass one on.
PermitsAsBefore == free' = free /\ Owners' = Owners
PermitTaken == \E r \in Requests \ Owners : free' = free - 1 /\ Owners' = Owners \cup {r}
PermitFreed == \E r \in Owners : free' = free + 1 /\ Owners' = Owners \ {r}
PermitPassed == \E r \in Owners : \E q \in Requests \ Owners :
                  free' = free /\ Owners' = (Owners \ {r}) \cup {q}

PermitEffect == PermitsAsBefore \/ PermitTaken \/ PermitFreed \/ PermitPassed

\* A permit given back becomes free, or changes its owner.
LEMMA GiveBackEffect ==
  ASSUME TypeOK, NEW r \in Owners, GiveBack(r)
  PROVE  PermitFreed \/ PermitPassed
<1> USE DEF TypeOK, PermitTypes, Owners
<1>1. CASE Queued = {}
  <2>1. free' = free + 1 /\ Owners' = Owners \ {r}
    BY <1>1 DEF GiveBack
  <2>2. QED
    BY <2>1 DEF PermitFreed
<1>2. CASE Queued # {}
  <2>1. PICK q \in Requests : IsFirst(q) /\ permit' = [permit EXCEPT ![r] = "none", ![q] = "granted"]
    BY <1>2 DEF GiveBack
  <2>2. q \in Requests \ Owners
    BY <2>1 DEF IsFirst
  <2>3. Owners' = (Owners \ {r}) \cup {q}
    BY <2>1, <2>2
  <2>4. free' = free
    BY <1>2 DEF GiveBack
  <2>5. QED
    BY <2>2, <2>3, <2>4 DEF PermitPassed
<1>3. QED
  BY <1>1, <1>2

\* Dropping an acquire future leaves the owners alone unless a permit had been
\* granted to it.
LEMMA DropAcquireEffect ==
  ASSUME TypeOK, NEW r \in Requests, permit[r] # "held", DropAcquire(r)
  PROVE  PermitEffect
<1>1. CASE permit[r] = "granted"
  BY <1>1, GiveBackEffect DEF DropAcquire, PermitEffect, Owners
<1>2. CASE permit[r] # "granted"
  BY <1>2 DEF DropAcquire, PermitEffect, PermitsAsBefore, Owners, TypeOK, PermitTypes
<1>3. QED
  BY <1>1, <1>2

\* Every step takes, frees or passes on at most one permit.
LEMMA StepPermitEffect ==
  ASSUME TypeOK, Coherence, [Next]_vars
  PROVE  PermitEffect
<1> USE DEF TypeOK, PermitTypes
<1>1. ASSUME NEW r \in Requests, ArriveClosed(r) PROVE PermitEffect
  BY <1>1 DEF ArriveClosed, Arrive, Answer, PermitEffect, PermitsAsBefore, Owners
<1>2. ASSUME NEW r \in Requests, ArriveStart(r) PROVE PermitEffect
  <2>1. r \in Requests \ Owners
    BY <1>2 DEF ArriveStart, Arrive, Owners, Coherence, Coherent
  <2>2. free' = free - 1 /\ Owners' = Owners \cup {r}
    BY <1>2, <2>1 DEF ArriveStart, Admit, Owners
  <2>3. QED
    BY <2>1, <2>2 DEF PermitEffect, PermitTaken
<1>3. ASSUME NEW r \in Requests, ArriveFull(r) PROVE PermitEffect
  BY <1>3 DEF ArriveFull, Arrive, Answer, PermitEffect, PermitsAsBefore, Owners
<1>4. ASSUME NEW r \in Requests, ArriveQueue(r) PROVE PermitEffect
  BY <1>4 DEF ArriveQueue, Arrive, PermitEffect, PermitsAsBefore, Owners, Coherence, Coherent
<1>5. ASSUME NEW r \in Requests, ArriveOverflow(r) PROVE PermitEffect
  BY <1>5 DEF ArriveOverflow, Arrive, Answer, PermitEffect, PermitsAsBefore, Owners
<1>6. ASSUME NEW r \in Requests, WaitClosed(r) PROVE PermitEffect
  BY <1>6, DropAcquireEffect DEF WaitClosed, Wait, LeaveQueue, Coherence, Coherent
<1>7. ASSUME NEW r \in Requests, WaitExpired(r) PROVE PermitEffect
  BY <1>7, DropAcquireEffect DEF WaitExpired, Wait, LeaveQueue, Coherence, Coherent
<1>8. ASSUME NEW r \in Requests, WaitStart(r) PROVE PermitEffect
  BY <1>8 DEF WaitStart, Wait, Admit, PermitEffect, PermitsAsBefore, Owners
<1>9. ASSUME NEW r \in Requests, WaitOverflow(r) PROVE PermitEffect
  BY <1>9, DropAcquireEffect DEF WaitOverflow, Wait, LeaveQueue, Coherence, Coherent
<1>10. ASSUME NEW r \in Requests, CancelWaiting(r) PROVE PermitEffect
  BY <1>10, DropAcquireEffect DEF CancelWaiting, Wait, LeaveQueue, Coherence, Coherent
<1>11. ASSUME NEW r \in Requests, Spawn(r) PROVE PermitEffect
  BY <1>11 DEF Spawn, WakeDriver, PermitEffect, PermitsAsBefore, Owners
<1>12. ASSUME NEW r \in Requests, SpawnRefused(r) PROVE PermitEffect
  <2>1. r \in Owners
    BY <1>12 DEF SpawnRefused, Owners, Coherence, Coherent, Holding
  <2>2. QED
    BY <1>12, <2>1, GiveBackEffect DEF SpawnRefused, PermitEffect
<1>13. ASSUME NEW r \in Requests, AwaitExpired(r) PROVE PermitEffect
  BY <1>13 DEF AwaitExpired, Execute, Answer, PermitEffect, PermitsAsBefore, Owners
<1>14. ASSUME NEW r \in Requests, AwaitReply(r) PROVE PermitEffect
  BY <1>14 DEF AwaitReply, Execute, Answer, PermitEffect, PermitsAsBefore, Owners
<1>15. ASSUME NEW r \in Requests, CancelExecuting(r) PROVE PermitEffect
  BY <1>15 DEF CancelExecuting, Execute, Answer, PermitEffect, PermitsAsBefore, Owners
<1>16. ASSUME NEW r \in Requests, TakeSession(r) PROVE PermitEffect
  BY <1>16 DEF TakeSession, Work, ShutAdmission, CloseSemaphore, WakeDriver, PermitEffect,
     PermitsAsBefore, Owners
<1>17. ASSUME NEW r \in Requests, Finish(r) PROVE PermitEffect
  BY <1>17 DEF Finish, Work, PermitEffect, PermitsAsBefore, Owners
<1>18. ASSUME NEW r \in Requests, Panic(r) PROVE PermitEffect
  BY <1>18 DEF Panic, Work, PermitEffect, PermitsAsBefore, Owners
<1>19. ASSUME NEW r \in Requests, PanicClose(r) PROVE PermitEffect
  BY <1>19 DEF PanicClose, Work, ShutAdmission, CloseSemaphore, WakeDriver, PermitEffect,
     PermitsAsBefore, Owners
<1>20. ASSUME NEW r \in Requests, DropRunning(r) PROVE PermitEffect
  BY <1>20 DEF DropRunning, Work, PermitEffect, PermitsAsBefore, Owners
<1>21. ASSUME NEW r \in Requests, ReleasePermit(r) PROVE PermitEffect
  <2>1. r \in Owners
    BY <1>21 DEF ReleasePermit, Owners, Coherence, Coherent, Holding
  <2>2. QED
    BY <1>21, <2>1, GiveBackEffect DEF ReleasePermit, PermitEffect
<1>22. ASSUME NEW r \in Requests, Send(r) PROVE PermitEffect
  BY <1>22 DEF Send, Work, ReplyFor, PermitEffect, PermitsAsBefore, Owners
<1>23. ASSUME NEW r \in Requests, Complete(r) PROVE PermitEffect
  BY <1>23 DEF Complete, Work, PermitEffect, PermitsAsBefore, Owners
<1>24. ASSUME NEW r \in Requests, DriverJoin(r) PROVE PermitEffect
  BY <1>24 DEF DriverJoin, Drive, CloseSemaphore, Unreaped, PermitEffect, PermitsAsBefore, Owners
<1>25. CASE DriverStart
  BY <1>25 DEF DriverStart, Drive, PermitEffect, PermitsAsBefore, Owners
<1>26. CASE DriverDrop
  BY <1>26 DEF DriverDrop, Drive, PermitEffect, PermitsAsBefore, Owners
<1>27. CASE DriverPark
  BY <1>27 DEF DriverPark, Drive, Tracked, Unreaped, PermitEffect, PermitsAsBefore, Owners
<1>28. CASE DriverDone
  BY <1>28 DEF DriverDone, Drive, Tracked, PermitEffect, PermitsAsBefore, Owners
<1>29. CASE Close
  BY <1>29 DEF Close, ShutAdmission, CloseSemaphore, WakeDriver, PermitEffect, PermitsAsBefore,
     Owners
<1>30. CASE Tick
  BY <1>30 DEF Tick, Elapse, PermitEffect, PermitsAsBefore, Owners
<1>31. CASE UNCHANGED vars
  BY <1>31 DEF vars, PermitEffect, PermitsAsBefore, Owners
<1>32. QED
  BY <1>1, <1>2, <1>3, <1>4, <1>5, <1>6, <1>7, <1>8, <1>9, <1>10, <1>11, <1>12, <1>13, <1>14,
     <1>15, <1>16, <1>17, <1>18, <1>19, <1>20, <1>21, <1>22, <1>23, <1>24, <1>25, <1>26, <1>27,
     <1>28, <1>29, <1>30, <1>31 DEF Next, CallerStep, Cancel, WorkStep, DriverStep

\* Every slot of the service is free or owned by exactly one request, for any
\* number of requests and slots and any interleaving.
PermitInv == IsFiniteSet(Owners) /\ PermitsConserved

\* Every step keeps the sum of free and owned permits.
LEMMA PermitKept ==
  ASSUME TypeOK, Coherence, PermitInv, [Next]_vars
  PROVE  PermitInv'
<1>1. Cardinality(Owners) \in Nat /\ free \in Nat
  BY FS_CardinalityType DEF PermitInv, TypeOK, PermitTypes
<1>2. CASE PermitsAsBefore
  BY <1>2 DEF PermitsAsBefore, PermitInv, PermitsConserved
<1>3. CASE PermitTaken
  <2>1. PICK r \in Requests \ Owners : free' = free - 1 /\ Owners' = Owners \cup {r}
    BY <1>3 DEF PermitTaken
  <2>2. IsFiniteSet(Owners') /\ Cardinality(Owners') = Cardinality(Owners) + 1
    BY <2>1, FS_AddElement DEF PermitInv
  <2>3. QED
    BY <1>1, <2>1, <2>2 DEF PermitInv, PermitsConserved
<1>4. CASE PermitFreed
  <2>1. PICK r \in Owners : free' = free + 1 /\ Owners' = Owners \ {r}
    BY <1>4 DEF PermitFreed
  <2>2. IsFiniteSet(Owners') /\ Cardinality(Owners') = Cardinality(Owners) - 1
    BY <2>1, FS_RemoveElement DEF PermitInv
  <2>3. QED
    BY <1>1, <2>1, <2>2 DEF PermitInv, PermitsConserved
<1>5. CASE PermitPassed
  <2>1. PICK r \in Owners, q \in Requests \ Owners :
          free' = free /\ Owners' = (Owners \ {r}) \cup {q}
    BY <1>5 DEF PermitPassed
  <2>2. IsFiniteSet(Owners \ {r}) /\ Cardinality(Owners \ {r}) = Cardinality(Owners) - 1
    BY <2>1, FS_RemoveElement DEF PermitInv
  <2>3. IsFiniteSet(Owners') /\ Cardinality(Owners') = Cardinality(Owners \ {r}) + 1
    BY <2>1, <2>2, FS_AddElement
  <2>4. QED
    BY <1>1, <2>1, <2>2, <2>3 DEF PermitInv, PermitsConserved
<1>6. QED
  BY <1>2, <1>3, <1>4, <1>5, StepPermitEffect DEF PermitEffect

\* At the start every permit is free.
LEMMA PermitInit ==
  ASSUME Init
  PROVE  PermitInv
<1>1. Owners = {}
  BY DEF Init, Owners
<1>2. free = Slots
  BY DEF Init
<1>3. QED
  BY <1>1, <1>2, FS_EmptySet, SlotsAssumption DEF PermitInv, PermitsConserved, SlotsAssumption

\* Free and owned permits add up to the number of slots.
LEMMA PermitInvariant == Spec => []PermitInv
<1>1. Init => PermitInv
  BY PermitInit
<1>2. TypeOK /\ Coherence /\ PermitInv /\ [Next]_vars => PermitInv'
  BY PermitKept
<1>3. QED
  BY <1>1, <1>2, TypeCorrect, CoherenceInvariant, PTL DEF Spec

\* No interleaving of calls, timeouts, cancellations and panics loses a permit
\* of the semaphore or makes one up.
THEOREM PermitsAreConserved == Spec => []PermitsConserved
<1>1. PermitInv => PermitsConserved
  BY DEF PermitInv
<1>2. QED
  BY <1>1, PermitInvariant, PTL

-----------------------------------------------------------------------------
\* What one step does to a gauge g and the set S it counts.
Same(g, h, S, T)    == h = g /\ T = S
Raised(g, h, S, T)  == h = g + 1 /\ \E r \in Requests \ S : T = S \cup {r}
Lowered(g, h, S, T) == h = g - 1 /\ \E r \in S : T = S \ {r}

WaitingEffect ==
  \/ Same(waiting, waiting', Waiters, Waiters')
  \/ waiting # Capacity /\ Raised(waiting, waiting', Waiters, Waiters')
  \/ Lowered(waiting, waiting', Waiters, Waiters')

InflightEffect ==
  \/ Same(inflight, inflight', Counted, Counted')
  \/ Raised(inflight, inflight', Counted, Counted')
  \/ Lowered(inflight, inflight', Counted, Counted')

\* Every step changes the gauge of waiting requests with the set it counts.
LEMMA StepWaitingEffect ==
  ASSUME TypeOK, Coherence, [Next]_vars
  PROVE  WaitingEffect
<1> USE DEF TypeOK, GaugeTypes, CallerTypes
<1>1. ASSUME NEW r \in Requests, ArriveClosed(r) PROVE WaitingEffect
  BY <1>1 DEF ArriveClosed, Arrive, Answer, WaitingEffect, Same, Waiters
<1>2. ASSUME NEW r \in Requests, ArriveStart(r) PROVE WaitingEffect
  BY <1>2 DEF ArriveStart, Arrive, Admit, Queued, WaitingEffect, Same, Waiters
<1>3. ASSUME NEW r \in Requests, ArriveFull(r) PROVE WaitingEffect
  BY <1>3 DEF ArriveFull, Arrive, Answer, WaitingEffect, Same, Waiters
<1>4. ASSUME NEW r \in Requests, ArriveQueue(r) PROVE WaitingEffect
  <2>1. r \notin Waiters /\ Waiters' = Waiters \cup {r} /\ waiting' = waiting + 1
    BY <1>4 DEF ArriveQueue, Arrive, Waiters
  <2>2. waiting # Capacity
    BY <1>4 DEF ArriveQueue
  <2>3. QED
    BY <2>1, <2>2 DEF WaitingEffect, Raised
<1>5. ASSUME NEW r \in Requests, ArriveOverflow(r) PROVE WaitingEffect
  BY <1>5 DEF ArriveOverflow, Arrive, Answer, WaitingEffect, Same, Waiters
<1>6. ASSUME NEW r \in Requests, WaitClosed(r) PROVE WaitingEffect
  <2>1. r \in Waiters /\ Waiters' = Waiters \ {r} /\ waiting' = waiting - 1
    BY <1>6 DEF WaitClosed, Wait, Answer, LeaveQueue, Waiters
  <2>2. QED
    BY <2>1 DEF WaitingEffect, Lowered
<1>7. ASSUME NEW r \in Requests, WaitExpired(r) PROVE WaitingEffect
  <2>1. r \in Waiters /\ Waiters' = Waiters \ {r} /\ waiting' = waiting - 1
    BY <1>7 DEF WaitExpired, Wait, Answer, LeaveQueue, Waiters
  <2>2. QED
    BY <2>1 DEF WaitingEffect, Lowered
<1>8. ASSUME NEW r \in Requests, WaitStart(r) PROVE WaitingEffect
  <2>1. r \in Waiters /\ Waiters' = Waiters \ {r} /\ waiting' = waiting - 1
    BY <1>8 DEF WaitStart, Wait, Admit, Waiters
  <2>2. QED
    BY <2>1 DEF WaitingEffect, Lowered
<1>9. ASSUME NEW r \in Requests, WaitOverflow(r) PROVE WaitingEffect
  <2>1. r \in Waiters /\ Waiters' = Waiters \ {r} /\ waiting' = waiting - 1
    BY <1>9 DEF WaitOverflow, Wait, Answer, LeaveQueue, Waiters
  <2>2. QED
    BY <2>1 DEF WaitingEffect, Lowered
<1>10. ASSUME NEW r \in Requests, CancelWaiting(r) PROVE WaitingEffect
  <2>1. r \in Waiters /\ Waiters' = Waiters \ {r} /\ waiting' = waiting - 1
    BY <1>10 DEF CancelWaiting, Wait, Answer, LeaveQueue, Waiters
  <2>2. QED
    BY <2>1 DEF WaitingEffect, Lowered
<1>11. ASSUME NEW r \in Requests, Spawn(r) PROVE WaitingEffect
  BY <1>11 DEF Spawn, WakeDriver, WaitingEffect, Same, Waiters
<1>12. ASSUME NEW r \in Requests, SpawnRefused(r) PROVE WaitingEffect
  BY <1>12 DEF SpawnRefused, Answer, GiveBack, IsFirst, Queued, WaitingEffect, Same, Waiters
<1>13. ASSUME NEW r \in Requests, AwaitExpired(r) PROVE WaitingEffect
  BY <1>13 DEF AwaitExpired, Execute, Answer, WaitingEffect, Same, Waiters
<1>14. ASSUME NEW r \in Requests, AwaitReply(r) PROVE WaitingEffect
  BY <1>14 DEF AwaitReply, Execute, Answer, WaitingEffect, Same, Waiters
<1>15. ASSUME NEW r \in Requests, CancelExecuting(r) PROVE WaitingEffect
  BY <1>15 DEF CancelExecuting, Execute, Answer, WaitingEffect, Same, Waiters
<1>16. ASSUME NEW r \in Requests, TakeSession(r) PROVE WaitingEffect
  BY <1>16 DEF TakeSession, Work, ShutAdmission, CloseSemaphore, WakeDriver, WaitingEffect, Same,
     Waiters
<1>17. ASSUME NEW r \in Requests, Finish(r) PROVE WaitingEffect
  BY <1>17 DEF Finish, Work, WaitingEffect, Same, Waiters
<1>18. ASSUME NEW r \in Requests, Panic(r) PROVE WaitingEffect
  BY <1>18 DEF Panic, Work, WaitingEffect, Same, Waiters
<1>19. ASSUME NEW r \in Requests, PanicClose(r) PROVE WaitingEffect
  BY <1>19 DEF PanicClose, Work, ShutAdmission, CloseSemaphore, WakeDriver, WaitingEffect, Same,
     Waiters
<1>20. ASSUME NEW r \in Requests, DropRunning(r) PROVE WaitingEffect
  BY <1>20 DEF DropRunning, Work, WaitingEffect, Same, Waiters
<1>21. ASSUME NEW r \in Requests, ReleasePermit(r) PROVE WaitingEffect
  BY <1>21 DEF ReleasePermit, Work, GiveBack, IsFirst, Queued, WaitingEffect, Same, Waiters
<1>22. ASSUME NEW r \in Requests, Send(r) PROVE WaitingEffect
  BY <1>22 DEF Send, Work, ReplyFor, WaitingEffect, Same, Waiters
<1>23. ASSUME NEW r \in Requests, Complete(r) PROVE WaitingEffect
  BY <1>23 DEF Complete, Work, WaitingEffect, Same, Waiters
<1>24. ASSUME NEW r \in Requests, DriverJoin(r) PROVE WaitingEffect
  BY <1>24 DEF DriverJoin, Drive, CloseSemaphore, Unreaped, WaitingEffect, Same, Waiters
<1>25. CASE DriverStart
  BY <1>25 DEF DriverStart, Drive, WaitingEffect, Same, Waiters
<1>26. CASE DriverDrop
  BY <1>26 DEF DriverDrop, Drive, WaitingEffect, Same, Waiters
<1>27. CASE DriverPark
  BY <1>27 DEF DriverPark, Drive, Tracked, Unreaped, WaitingEffect, Same, Waiters
<1>28. CASE DriverDone
  BY <1>28 DEF DriverDone, Drive, Tracked, WaitingEffect, Same, Waiters
<1>29. CASE Close
  BY <1>29 DEF Close, ShutAdmission, CloseSemaphore, WakeDriver, WaitingEffect, Same, Waiters
<1>30. CASE Tick
  BY <1>30 DEF Tick, Elapse, WaitingEffect, Same, Waiters
<1>31. CASE UNCHANGED vars
  BY <1>31 DEF vars, WaitingEffect, Same, Waiters
<1>32. QED
  BY <1>1, <1>2, <1>3, <1>4, <1>5, <1>6, <1>7, <1>8, <1>9, <1>10, <1>11, <1>12, <1>13, <1>14,
     <1>15, <1>16, <1>17, <1>18, <1>19, <1>20, <1>21, <1>22, <1>23, <1>24, <1>25, <1>26, <1>27,
     <1>28, <1>29, <1>30, <1>31 DEF Next, CallerStep, Cancel, WorkStep, DriverStep

\* Every step changes the gauge of running requests with the set it counts.
LEMMA StepInflightEffect ==
  ASSUME TypeOK, Coherence, [Next]_vars
  PROVE  InflightEffect
<1> USE DEF TypeOK, GaugeTypes, CallerTypes, WorkTypes
<1>1. ASSUME NEW r \in Requests, ArriveClosed(r) PROVE InflightEffect
  BY <1>1 DEF ArriveClosed, Arrive, Answer, InflightEffect, Same, Counted, Coherence, Coherent
<1>2. ASSUME NEW r \in Requests, ArriveStart(r) PROVE InflightEffect
  <2>1. r \notin Counted /\ Counted' = Counted \cup {r} /\ inflight' = inflight + 1
    BY <1>2 DEF ArriveStart, Arrive, Admit, Counted, Coherence, Coherent
  <2>2. QED
    BY <2>1 DEF InflightEffect, Raised
<1>3. ASSUME NEW r \in Requests, ArriveFull(r) PROVE InflightEffect
  BY <1>3 DEF ArriveFull, Arrive, Answer, InflightEffect, Same, Counted, Coherence, Coherent
<1>4. ASSUME NEW r \in Requests, ArriveQueue(r) PROVE InflightEffect
  BY <1>4 DEF ArriveQueue, Arrive, Queued, InflightEffect, Same, Counted, Coherence, Coherent
<1>5. ASSUME NEW r \in Requests, ArriveOverflow(r) PROVE InflightEffect
  BY <1>5 DEF ArriveOverflow, Arrive, Answer, InflightEffect, Same, Counted, Coherence, Coherent
<1>6. ASSUME NEW r \in Requests, WaitClosed(r) PROVE InflightEffect
  BY <1>6 DEF WaitClosed, Wait, Answer, LeaveQueue, DropAcquire, GiveBack, IsFirst, Queued,
     InflightEffect, Same, Counted, Coherence, Coherent
<1>7. ASSUME NEW r \in Requests, WaitExpired(r) PROVE InflightEffect
  BY <1>7 DEF WaitExpired, Wait, Answer, LeaveQueue, DropAcquire, GiveBack, IsFirst, Queued,
     InflightEffect, Same, Counted, Coherence, Coherent
<1>8. ASSUME NEW r \in Requests, WaitStart(r) PROVE InflightEffect
  <2>1. r \notin Counted /\ Counted' = Counted \cup {r} /\ inflight' = inflight + 1
    BY <1>8 DEF WaitStart, Wait, Admit, Counted, Coherence, Coherent
  <2>2. QED
    BY <2>1 DEF InflightEffect, Raised
<1>9. ASSUME NEW r \in Requests, WaitOverflow(r) PROVE InflightEffect
  BY <1>9 DEF WaitOverflow, Wait, Answer, LeaveQueue, DropAcquire, GiveBack, IsFirst, Queued,
     InflightEffect, Same, Counted, Coherence, Coherent
<1>10. ASSUME NEW r \in Requests, CancelWaiting(r) PROVE InflightEffect
  BY <1>10 DEF CancelWaiting, Wait, Answer, LeaveQueue, DropAcquire, GiveBack, IsFirst, Queued,
     InflightEffect, Same, Counted, Coherence, Coherent
<1>11. ASSUME NEW r \in Requests, Spawn(r) PROVE InflightEffect
  BY <1>11 DEF Spawn, WakeDriver, InflightEffect, Same, Counted, Coherence, Coherent
<1>12. ASSUME NEW r \in Requests, SpawnRefused(r) PROVE InflightEffect
  <2>1. r \in Counted /\ Counted' = Counted \ {r} /\ inflight' = inflight - 1
    BY <1>12 DEF SpawnRefused, Answer, Counted, Coherence, Coherent
  <2>2. QED
    BY <2>1 DEF InflightEffect, Lowered
<1>13. ASSUME NEW r \in Requests, AwaitExpired(r) PROVE InflightEffect
  BY <1>13 DEF AwaitExpired, Execute, Answer, InflightEffect, Same, Counted, Coherence, Coherent
<1>14. ASSUME NEW r \in Requests, AwaitReply(r) PROVE InflightEffect
  BY <1>14 DEF AwaitReply, Execute, Answer, InflightEffect, Same, Counted, Coherence, Coherent
<1>15. ASSUME NEW r \in Requests, CancelExecuting(r) PROVE InflightEffect
  BY <1>15 DEF CancelExecuting, Execute, Answer, InflightEffect, Same, Counted, Coherence, Coherent
<1>16. ASSUME NEW r \in Requests, TakeSession(r) PROVE InflightEffect
  BY <1>16 DEF TakeSession, Work, ShutAdmission, CloseSemaphore, WakeDriver, InflightEffect,
     Same, Counted, Coherence, Coherent
<1>17. ASSUME NEW r \in Requests, Finish(r) PROVE InflightEffect
  BY <1>17 DEF Finish, Work, InflightEffect, Same, Counted, Coherence, Coherent
<1>18. ASSUME NEW r \in Requests, Panic(r) PROVE InflightEffect
  BY <1>18 DEF Panic, Work, InflightEffect, Same, Counted, Coherence, Coherent
<1>19. ASSUME NEW r \in Requests, PanicClose(r) PROVE InflightEffect
  BY <1>19 DEF PanicClose, Work, ShutAdmission, CloseSemaphore, WakeDriver, InflightEffect, Same,
     Counted, Coherence, Coherent
<1>20. ASSUME NEW r \in Requests, DropRunning(r) PROVE InflightEffect
  <2>1. r \in Counted /\ Counted' = Counted \ {r} /\ inflight' = inflight - 1
    BY <1>20 DEF DropRunning, Work, Counted, Coherence, Coherent
  <2>2. QED
    BY <2>1 DEF InflightEffect, Lowered
<1>21. ASSUME NEW r \in Requests, ReleasePermit(r) PROVE InflightEffect
  BY <1>21 DEF ReleasePermit, Work, GiveBack, IsFirst, Queued, InflightEffect, Same, Counted,
     Coherence, Coherent
<1>22. ASSUME NEW r \in Requests, Send(r) PROVE InflightEffect
  BY <1>22 DEF Send, Work, ReplyFor, InflightEffect, Same, Counted, Coherence, Coherent
<1>23. ASSUME NEW r \in Requests, Complete(r) PROVE InflightEffect
  BY <1>23 DEF Complete, Work, InflightEffect, Same, Counted, Coherence, Coherent
<1>24. ASSUME NEW r \in Requests, DriverJoin(r) PROVE InflightEffect
  BY <1>24 DEF DriverJoin, Drive, CloseSemaphore, Unreaped, InflightEffect, Same, Counted,
     Coherence, Coherent
<1>25. CASE DriverStart
  BY <1>25 DEF DriverStart, Drive, InflightEffect, Same, Counted, Coherence, Coherent
<1>26. CASE DriverDrop
  BY <1>26 DEF DriverDrop, Drive, InflightEffect, Same, Counted, Coherence, Coherent
<1>27. CASE DriverPark
  BY <1>27 DEF DriverPark, Drive, Tracked, Unreaped, InflightEffect, Same, Counted, Coherence,
     Coherent
<1>28. CASE DriverDone
  BY <1>28 DEF DriverDone, Drive, Tracked, InflightEffect, Same, Counted, Coherence, Coherent
<1>29. CASE Close
  BY <1>29 DEF Close, ShutAdmission, CloseSemaphore, WakeDriver, InflightEffect, Same, Counted,
     Coherence, Coherent
<1>30. CASE Tick
  BY <1>30 DEF Tick, Elapse, InflightEffect, Same, Counted, Coherence, Coherent
<1>31. CASE UNCHANGED vars
  BY <1>31 DEF vars, InflightEffect, Same, Counted, Coherence, Coherent
<1>32. QED
  BY <1>1, <1>2, <1>3, <1>4, <1>5, <1>6, <1>7, <1>8, <1>9, <1>10, <1>11, <1>12, <1>13, <1>14,
     <1>15, <1>16, <1>17, <1>18, <1>19, <1>20, <1>21, <1>22, <1>23, <1>24, <1>25, <1>26, <1>27,
     <1>28, <1>29, <1>30, <1>31 DEF Next, CallerStep, Cancel, WorkStep, DriverStep

\* The gauges count what they stand for, and stay within the limits.
GaugeInv == IsFiniteSet(Waiters) /\ IsFiniteSet(Counted) /\ GaugesExact /\ waiting <= Capacity

\* Every step keeps both gauges exact and the queue within its capacity.
LEMMA GaugeKept ==
  ASSUME TypeOK, Coherence, GaugeInv, [Next]_vars
  PROVE  GaugeInv'
<1>1. IsFiniteSet(Waiters') /\ waiting' = Cardinality(Waiters') /\ waiting' <= Capacity
  <2>0. waiting \in Int /\ Capacity \in Nat
    BY CapacityAssumption DEF CapacityAssumption, TypeOK, GaugeTypes
  <2>1. CASE Same(waiting, waiting', Waiters, Waiters')
    BY <2>1 DEF Same, GaugeInv, GaugesExact
  <2>2. CASE waiting # Capacity /\ Raised(waiting, waiting', Waiters, Waiters')
    <3>1. PICK r \in Requests \ Waiters : Waiters' = Waiters \cup {r}
      BY <2>2 DEF Raised
    <3>2. IsFiniteSet(Waiters') /\ Cardinality(Waiters') = Cardinality(Waiters) + 1
      BY <3>1, FS_AddElement DEF GaugeInv
    <3>3. waiting' = waiting + 1 /\ waiting < Capacity
      BY <2>0, <2>2 DEF Raised, GaugeInv
    <3>4. QED
      BY <2>0, <3>2, <3>3 DEF GaugeInv, GaugesExact
  <2>3. CASE Lowered(waiting, waiting', Waiters, Waiters')
    BY <2>0, <2>3, FS_RemoveElement DEF Lowered, GaugeInv, GaugesExact
  <2>4. QED
    BY <2>1, <2>2, <2>3, StepWaitingEffect DEF WaitingEffect
<1>2. IsFiniteSet(Counted') /\ inflight' = Cardinality(Counted')
  <2>1. CASE Same(inflight, inflight', Counted, Counted')
    BY <2>1 DEF Same, GaugeInv, GaugesExact
  <2>2. CASE Raised(inflight, inflight', Counted, Counted')
    BY <2>2, FS_AddElement DEF Raised, GaugeInv, GaugesExact
  <2>3. CASE Lowered(inflight, inflight', Counted, Counted')
    BY <2>3, FS_RemoveElement DEF Lowered, GaugeInv, GaugesExact
  <2>4. QED
    BY <2>1, <2>2, <2>3, StepInflightEffect DEF InflightEffect
<1>3. QED
  BY <1>1, <1>2 DEF GaugeInv, GaugesExact

\* At the start both gauges are zero.
LEMMA GaugeInit ==
  ASSUME Init
  PROVE  GaugeInv
<1>1. Waiters = {} /\ Counted = {} /\ waiting = 0 /\ inflight = 0
  BY DEF Init, Waiters, Counted
<1>2. QED
  BY <1>1, FS_EmptySet, CapacityAssumption DEF GaugeInv, GaugesExact, CapacityAssumption

\* Both gauges are exact, and the queue stays within its capacity.
LEMMA GaugeInvariant == Spec => []GaugeInv
<1>1. Init => GaugeInv
  BY GaugeInit
<1>2. TypeOK /\ Coherence /\ GaugeInv /\ [Next]_vars => GaugeInv'
  BY GaugeKept
<1>3. QED
  BY <1>1, <1>2, TypeCorrect, CoherenceInvariant, PTL DEF Spec

\* The counters of State equal the number of callers in the queue and of slots
\* in use; in particular no decrement of the two usize counters wraps.
THEOREM GaugesAreExact == Spec => []GaugesExact
<1>1. GaugeInv => GaugesExact
  BY DEF GaugeInv
<1>2. QED
  BY <1>1, GaugeInvariant, PTL

\* At most Capacity callers wait and at most Slots slots are in use.
THEOREM AdmissionIsBounded == Spec => []Bounded
<1>1. Coherence /\ PermitInv /\ GaugeInv /\ TypeOK => Bounded
  <2> SUFFICES ASSUME Coherence, PermitInv, GaugeInv, TypeOK PROVE Bounded
    OBVIOUS
  <2>1. Counted \in SUBSET Owners
    BY DEF Counted, Owners, Coherence, Coherent, Holding
  <2>2. Cardinality(Counted) <= Cardinality(Owners)
    BY <2>1, FS_Subset DEF PermitInv
  <2>3. Cardinality(Owners) \in Nat /\ Cardinality(Counted) \in Nat
    BY FS_CardinalityType DEF PermitInv, GaugeInv
  <2>4. Cardinality(Owners) <= Slots
    BY <2>3, SlotsAssumption DEF PermitInv, PermitsConserved, TypeOK, PermitTypes, SlotsAssumption
  <2>5. QED
    BY <2>2, <2>3, <2>4, SlotsAssumption DEF GaugeInv, GaugesExact, Bounded, SlotsAssumption
<1>2. QED
  BY <1>1, TypeCorrect, CoherenceInvariant, PermitInvariant, GaugeInvariant, PTL

\* The counters are exact and within both limits at every moment.
THEOREM GaugesAreHeld == Spec => []GaugesHold
<1>1. GaugesExact /\ Bounded => GaugesHold
  BY DEF GaugesHold
<1>2. QED
  BY <1>1, GaugesAreExact, AdmissionIsBounded, PTL

-----------------------------------------------------------------------------
\* The queue.  A newcomer finds only requests that called before it.
QueueInv ==
  /\ NoIdleSlot
  /\ NoOvertaking
  /\ \A r \in Requests : \A q \in ahead[r] : pc[q] # "idle"

\* Handing a permit to the first waiter keeps the order of the queue.
LEMMA GiveBackQueue ==
  ASSUME TypeOK, QueueInv, NEW r \in Owners, GiveBack(r),
         \A q \in Requests : pc[q] # "idle" => pc'[q] # "idle"
  PROVE  QueueInv'
<1> USE DEF TypeOK, PermitTypes, QueueInv, NoIdleSlot, NoOvertaking, Owners, Queued
<1>1. CASE Queued = {}
  BY <1>1 DEF GiveBack
<1>2. CASE Queued # {}
  <2>1. PICK q \in Requests : IsFirst(q) /\ permit' = [permit EXCEPT ![r] = "none", ![q] = "granted"]
    BY <1>2 DEF GiveBack
  <2>2. free' = free /\ free = 0 /\ ahead' = [ahead EXCEPT ![r] = {}]
    BY <1>2 DEF GiveBack
  <2>3. Queued' = Queued \ {q} /\ Owners' = (Owners \ {r}) \cup {q}
    BY <2>1 DEF IsFirst
  <2>4. ahead[q] \cap Queued = {} /\ q # r
    BY <2>1 DEF IsFirst
  <2>5. NoOvertaking'
    BY <2>2, <2>3, <2>4
  <2>6. QED
    BY <2>2, <2>5
<1>3. QED
  BY <1>1, <1>2

\* A waiter that gives up keeps the order of the queue for the others.
LEMMA DropAcquireQueue ==
  ASSUME TypeOK, QueueInv, NEW r \in Requests, permit[r] # "held", DropAcquire(r),
         \A q \in Requests : pc[q] # "idle" => pc'[q] # "idle"
  PROVE  QueueInv'
<1>1. CASE permit[r] = "granted"
  BY <1>1, GiveBackQueue DEF DropAcquire, Owners
<1>2. CASE permit[r] # "granted"
  BY <1>2 DEF DropAcquire, TypeOK, PermitTypes, QueueInv, NoIdleSlot, NoOvertaking, Owners, Queued
<1>3. QED
  BY <1>1, <1>2

\* The order of the queue is kept by every step.
LEMMA QueueInvariant == Spec => []QueueInv
<1>1. Init => QueueInv
  BY DEF Init, QueueInv, NoIdleSlot, NoOvertaking, Queued, Owners
<1>2. TypeOK /\ Coherence /\ QueueInv /\ [Next]_vars => QueueInv'
  <2> SUFFICES ASSUME TypeOK, Coherence, QueueInv, [Next]_vars PROVE QueueInv'
    OBVIOUS
  <2> USE DEF TypeOK, PermitTypes, CallerTypes
  <2>1. ASSUME NEW r \in Requests, ArriveClosed(r) PROVE QueueInv'
    BY <2>1 DEF ArriveClosed, Arrive, Answer, QueueInv, NoIdleSlot, NoOvertaking, Queued, Owners
  <2>2. ASSUME NEW r \in Requests, ArriveStart(r) PROVE QueueInv'
    BY <2>2 DEF ArriveStart, Arrive, Admit, Queued, QueueInv, NoIdleSlot, NoOvertaking, Queued,
       Owners
  <2>3. ASSUME NEW r \in Requests, ArriveFull(r) PROVE QueueInv'
    BY <2>3 DEF ArriveFull, Arrive, Answer, QueueInv, NoIdleSlot, NoOvertaking, Queued, Owners
  <2>4. ASSUME NEW r \in Requests, ArriveQueue(r) PROVE QueueInv'
    BY <2>4 DEF ArriveQueue, Arrive, QueueInv, NoIdleSlot, NoOvertaking, Queued, Owners,
       Coherence, Coherent
  <2>5. ASSUME NEW r \in Requests, ArriveOverflow(r) PROVE QueueInv'
    BY <2>5 DEF ArriveOverflow, Arrive, Answer, QueueInv, NoIdleSlot, NoOvertaking, Queued, Owners
  <2>6. ASSUME NEW r \in Requests, WaitClosed(r) PROVE QueueInv'
    BY <2>6, DropAcquireQueue DEF WaitClosed, Wait, LeaveQueue, Answer, Coherence, Coherent
  <2>7. ASSUME NEW r \in Requests, WaitExpired(r) PROVE QueueInv'
    BY <2>7, DropAcquireQueue DEF WaitExpired, Wait, LeaveQueue, Answer, Coherence, Coherent
  <2>8. ASSUME NEW r \in Requests, WaitStart(r) PROVE QueueInv'
    BY <2>8 DEF WaitStart, Wait, Admit, QueueInv, NoIdleSlot, NoOvertaking, Queued, Owners
  <2>9. ASSUME NEW r \in Requests, WaitOverflow(r) PROVE QueueInv'
    BY <2>9, DropAcquireQueue DEF WaitOverflow, Wait, LeaveQueue, Answer, Coherence, Coherent
  <2>10. ASSUME NEW r \in Requests, CancelWaiting(r) PROVE QueueInv'
    BY <2>10, DropAcquireQueue DEF CancelWaiting, Wait, LeaveQueue, Answer, Coherence, Coherent
  <2>11. ASSUME NEW r \in Requests, Spawn(r) PROVE QueueInv'
    BY <2>11 DEF Spawn, WakeDriver, QueueInv, NoIdleSlot, NoOvertaking, Queued, Owners
  <2>12. ASSUME NEW r \in Requests, SpawnRefused(r) PROVE QueueInv'
    <3>1. r \in Owners
      BY <2>12 DEF SpawnRefused, Owners, Coherence, Coherent
    <3>2. QED
      BY <2>12, <3>1, GiveBackQueue DEF SpawnRefused, Answer
  <2>13. ASSUME NEW r \in Requests, AwaitExpired(r) PROVE QueueInv'
    BY <2>13 DEF AwaitExpired, Execute, Answer, QueueInv, NoIdleSlot, NoOvertaking, Queued, Owners
  <2>14. ASSUME NEW r \in Requests, AwaitReply(r) PROVE QueueInv'
    BY <2>14 DEF AwaitReply, Execute, Answer, QueueInv, NoIdleSlot, NoOvertaking, Queued, Owners
  <2>15. ASSUME NEW r \in Requests, CancelExecuting(r) PROVE QueueInv'
    BY <2>15 DEF CancelExecuting, Execute, Answer, QueueInv, NoIdleSlot, NoOvertaking, Queued,
       Owners
  <2>16. ASSUME NEW r \in Requests, TakeSession(r) PROVE QueueInv'
    BY <2>16 DEF TakeSession, Work, ShutAdmission, CloseSemaphore, WakeDriver, QueueInv,
       NoIdleSlot, NoOvertaking, Queued, Owners
  <2>17. ASSUME NEW r \in Requests, Finish(r) PROVE QueueInv'
    BY <2>17 DEF Finish, Work, QueueInv, NoIdleSlot, NoOvertaking, Queued, Owners
  <2>18. ASSUME NEW r \in Requests, Panic(r) PROVE QueueInv'
    BY <2>18 DEF Panic, Work, QueueInv, NoIdleSlot, NoOvertaking, Queued, Owners
  <2>19. ASSUME NEW r \in Requests, PanicClose(r) PROVE QueueInv'
    BY <2>19 DEF PanicClose, Work, ShutAdmission, CloseSemaphore, WakeDriver, QueueInv,
       NoIdleSlot, NoOvertaking, Queued, Owners
  <2>20. ASSUME NEW r \in Requests, DropRunning(r) PROVE QueueInv'
    BY <2>20 DEF DropRunning, Work, QueueInv, NoIdleSlot, NoOvertaking, Queued, Owners
  <2>21. ASSUME NEW r \in Requests, ReleasePermit(r) PROVE QueueInv'
    <3>1. r \in Owners
      BY <2>21 DEF ReleasePermit, Owners, Coherence, Coherent, Holding
    <3>2. QED
      BY <2>21, <3>1, GiveBackQueue DEF ReleasePermit, Work
  <2>22. ASSUME NEW r \in Requests, Send(r) PROVE QueueInv'
    BY <2>22 DEF Send, Work, ReplyFor, QueueInv, NoIdleSlot, NoOvertaking, Queued, Owners
  <2>23. ASSUME NEW r \in Requests, Complete(r) PROVE QueueInv'
    BY <2>23 DEF Complete, Work, QueueInv, NoIdleSlot, NoOvertaking, Queued, Owners
  <2>24. ASSUME NEW r \in Requests, DriverJoin(r) PROVE QueueInv'
    BY <2>24 DEF DriverJoin, Drive, CloseSemaphore, Unreaped, QueueInv, NoIdleSlot, NoOvertaking,
       Queued, Owners
  <2>25. CASE DriverStart
    BY <2>25 DEF DriverStart, Drive, QueueInv, NoIdleSlot, NoOvertaking, Queued, Owners
  <2>26. CASE DriverDrop
    BY <2>26 DEF DriverDrop, Drive, QueueInv, NoIdleSlot, NoOvertaking, Queued, Owners
  <2>27. CASE DriverPark
    BY <2>27 DEF DriverPark, Drive, Tracked, Unreaped, QueueInv, NoIdleSlot, NoOvertaking,
       Queued, Owners
  <2>28. CASE DriverDone
    BY <2>28 DEF DriverDone, Drive, Tracked, QueueInv, NoIdleSlot, NoOvertaking, Queued, Owners
  <2>29. CASE Close
    BY <2>29 DEF Close, ShutAdmission, CloseSemaphore, WakeDriver, QueueInv, NoIdleSlot,
       NoOvertaking, Queued, Owners
  <2>30. CASE Tick
    BY <2>30 DEF Tick, Elapse, QueueInv, NoIdleSlot, NoOvertaking, Queued, Owners
  <2>31. CASE UNCHANGED vars
    BY <2>31 DEF vars, QueueInv, NoIdleSlot, NoOvertaking, Queued, Owners
  <2>32. QED
    BY <2>1, <2>2, <2>3, <2>4, <2>5, <2>6, <2>7, <2>8, <2>9, <2>10, <2>11, <2>12, <2>13, <2>14,
       <2>15, <2>16, <2>17, <2>18, <2>19, <2>20, <2>21, <2>22, <2>23, <2>24, <2>25, <2>26, <2>27,
       <2>28, <2>29, <2>30, <2>31 DEF Next, CallerStep, Cancel, WorkStep, DriverStep
<1>3. QED
  BY <1>1, <1>2, TypeCorrect, CoherenceInvariant, PTL DEF Spec

\* No slot is idle while somebody waits, and no request owns a slot while one
\* that was in the queue before it arrived is still there.
THEOREM QueueIsFair == Spec => []FairQueue
<1>1. QueueInv => FairQueue
  BY DEF QueueInv, FairQueue
<1>2. QED
  BY <1>1, QueueInvariant, PTL

-----------------------------------------------------------------------------
\* The driver.  A parked run has left a waker with whoever can end its wait.
WakerInv ==
  /\ drv = "parked" => driver
  /\ drv = "parked" /\ (\E r \in Requests : Tracked(r)) => joinWaker
  /\ NoLostWakeup

\* Once run has returned nothing can begin any more.
DoneInv ==
  drv = "done" => ~accepting /\ AsyncIdle /\ \A r \in Requests : ~Tracked(r)

\* A panic is a failure run has seen, or will see when it joins the task, until
\* it reports it.
FailureInv ==
  /\ FailureReported
  /\ IF drv = "done" THEN ~failure ELSE reported = "none"
  /\ \A r \in Requests : task[r] = "none" => ended[r] = "none"

\* No step puts run to sleep over something, or takes a waker from a run that sleeps.
LEMMA WakerKept ==
  ASSUME TypeOK, WakerInv, [Next]_vars
  PROVE  WakerInv'
<1> USE DEF TypeOK, GaugeTypes, CallerTypes, WorkTypes, DriverTypes
<1>1. ASSUME NEW r \in Requests, ArriveClosed(r) PROVE WakerInv'
  BY <1>1 DEF ArriveClosed, Arrive, Answer, WakerInv, NoLostWakeup, Tracked, Unreaped
<1>2. ASSUME NEW r \in Requests, ArriveStart(r) PROVE WakerInv'
  BY <1>2 DEF ArriveStart, Arrive, Admit, Queued, WakerInv, NoLostWakeup, Tracked, Unreaped
<1>3. ASSUME NEW r \in Requests, ArriveFull(r) PROVE WakerInv'
  BY <1>3 DEF ArriveFull, Arrive, Answer, WakerInv, NoLostWakeup, Tracked, Unreaped
<1>4. ASSUME NEW r \in Requests, ArriveQueue(r) PROVE WakerInv'
  BY <1>4 DEF ArriveQueue, Arrive, Queued, WakerInv, NoLostWakeup, Tracked, Unreaped
<1>5. ASSUME NEW r \in Requests, ArriveOverflow(r) PROVE WakerInv'
  BY <1>5 DEF ArriveOverflow, Arrive, Answer, WakerInv, NoLostWakeup, Tracked, Unreaped
<1>6. ASSUME NEW r \in Requests, WaitClosed(r) PROVE WakerInv'
  BY <1>6 DEF WaitClosed, Wait, Answer, LeaveQueue, DropAcquire, GiveBack, IsFirst, Queued,
     WakerInv, NoLostWakeup, Tracked, Unreaped
<1>7. ASSUME NEW r \in Requests, WaitExpired(r) PROVE WakerInv'
  BY <1>7 DEF WaitExpired, Wait, Answer, LeaveQueue, DropAcquire, GiveBack, IsFirst, Queued,
     WakerInv, NoLostWakeup, Tracked, Unreaped
<1>8. ASSUME NEW r \in Requests, WaitStart(r) PROVE WakerInv'
  BY <1>8 DEF WaitStart, Wait, Admit, WakerInv, NoLostWakeup, Tracked, Unreaped
<1>9. ASSUME NEW r \in Requests, WaitOverflow(r) PROVE WakerInv'
  BY <1>9 DEF WaitOverflow, Wait, Answer, LeaveQueue, DropAcquire, GiveBack, IsFirst, Queued,
     WakerInv, NoLostWakeup, Tracked, Unreaped
<1>10. ASSUME NEW r \in Requests, CancelWaiting(r) PROVE WakerInv'
  BY <1>10 DEF CancelWaiting, Wait, Answer, LeaveQueue, DropAcquire, GiveBack, IsFirst, Queued,
     WakerInv, NoLostWakeup, Tracked, Unreaped
<1>11. ASSUME NEW r \in Requests, Spawn(r) PROVE WakerInv'
  BY <1>11 DEF Spawn, WakeDriver, WakerInv, NoLostWakeup, Tracked, Unreaped
<1>12. ASSUME NEW r \in Requests, SpawnRefused(r) PROVE WakerInv'
  BY <1>12 DEF SpawnRefused, Answer, GiveBack, IsFirst, Queued, WakerInv, NoLostWakeup, Tracked,
     Unreaped
<1>13. ASSUME NEW r \in Requests, AwaitExpired(r) PROVE WakerInv'
  BY <1>13 DEF AwaitExpired, Execute, Answer, WakerInv, NoLostWakeup, Tracked, Unreaped
<1>14. ASSUME NEW r \in Requests, AwaitReply(r) PROVE WakerInv'
  BY <1>14 DEF AwaitReply, Execute, Answer, WakerInv, NoLostWakeup, Tracked, Unreaped
<1>15. ASSUME NEW r \in Requests, CancelExecuting(r) PROVE WakerInv'
  BY <1>15 DEF CancelExecuting, Execute, Answer, WakerInv, NoLostWakeup, Tracked, Unreaped
<1>16. ASSUME NEW r \in Requests, TakeSession(r) PROVE WakerInv'
  BY <1>16 DEF TakeSession, Work, ShutAdmission, CloseSemaphore, WakeDriver, WakerInv,
     NoLostWakeup, Tracked, Unreaped
<1>17. ASSUME NEW r \in Requests, Finish(r) PROVE WakerInv'
  BY <1>17 DEF Finish, Work, WakerInv, NoLostWakeup, Tracked, Unreaped
<1>18. ASSUME NEW r \in Requests, Panic(r) PROVE WakerInv'
  BY <1>18 DEF Panic, Work, WakerInv, NoLostWakeup, Tracked, Unreaped
<1>19. ASSUME NEW r \in Requests, PanicClose(r) PROVE WakerInv'
  BY <1>19 DEF PanicClose, Work, ShutAdmission, CloseSemaphore, WakeDriver, WakerInv,
     NoLostWakeup, Tracked, Unreaped
<1>20. ASSUME NEW r \in Requests, DropRunning(r) PROVE WakerInv'
  BY <1>20 DEF DropRunning, Work, WakerInv, NoLostWakeup, Tracked, Unreaped
<1>21. ASSUME NEW r \in Requests, ReleasePermit(r) PROVE WakerInv'
  BY <1>21 DEF ReleasePermit, Work, GiveBack, IsFirst, Queued, WakerInv, NoLostWakeup, Tracked,
     Unreaped
<1>22. ASSUME NEW r \in Requests, Send(r) PROVE WakerInv'
  BY <1>22 DEF Send, Work, ReplyFor, WakerInv, NoLostWakeup, Tracked, Unreaped
<1>23. ASSUME NEW r \in Requests, Complete(r) PROVE WakerInv'
  BY <1>23 DEF Complete, Work, WakerInv, NoLostWakeup, Tracked, Unreaped
<1>24. ASSUME NEW r \in Requests, DriverJoin(r) PROVE WakerInv'
  BY <1>24 DEF DriverJoin, Drive, CloseSemaphore, Unreaped, WakerInv, NoLostWakeup, Tracked
<1>25. CASE DriverStart
  BY <1>25 DEF DriverStart, Drive, WakerInv, NoLostWakeup, Tracked, Unreaped
<1>26. CASE DriverDrop
  BY <1>26 DEF DriverDrop, Drive, WakerInv, NoLostWakeup, Tracked, Unreaped
<1>27. CASE DriverPark
  BY <1>27 DEF DriverPark, Drive, Tracked, Unreaped, WakerInv, NoLostWakeup
<1>28. CASE DriverDone
  BY <1>28 DEF DriverDone, Drive, Tracked, WakerInv, NoLostWakeup, Unreaped
<1>29. CASE Close
  BY <1>29 DEF Close, ShutAdmission, CloseSemaphore, WakeDriver, WakerInv, NoLostWakeup, Tracked,
     Unreaped
<1>30. CASE Tick
  BY <1>30 DEF Tick, Elapse, WakerInv, NoLostWakeup, Tracked, Unreaped
<1>31. CASE UNCHANGED vars
  BY <1>31 DEF vars, WakerInv, NoLostWakeup, Tracked, Unreaped
<1>32. QED
  BY <1>1, <1>2, <1>3, <1>4, <1>5, <1>6, <1>7, <1>8, <1>9, <1>10, <1>11, <1>12, <1>13, <1>14,
     <1>15, <1>16, <1>17, <1>18, <1>19, <1>20, <1>21, <1>22, <1>23, <1>24, <1>25, <1>26, <1>27,
     <1>28, <1>29, <1>30, <1>31 DEF Next, CallerStep, Cancel, WorkStep, DriverStep

\* Nothing begins once run has returned.
LEMMA DoneKept ==
  ASSUME TypeOK, DoneInv, [Next]_vars
  PROVE  DoneInv'
<1> USE DEF TypeOK, GaugeTypes, CallerTypes, WorkTypes, DriverTypes
<1>1. ASSUME NEW r \in Requests, ArriveClosed(r) PROVE DoneInv'
  BY <1>1 DEF ArriveClosed, Arrive, Answer, DoneInv, Tracked, Unreaped, AsyncIdle
<1>2. ASSUME NEW r \in Requests, ArriveStart(r) PROVE DoneInv'
  BY <1>2 DEF ArriveStart, Arrive, Admit, Queued, DoneInv, Tracked, Unreaped, AsyncIdle
<1>3. ASSUME NEW r \in Requests, ArriveFull(r) PROVE DoneInv'
  BY <1>3 DEF ArriveFull, Arrive, Answer, DoneInv, Tracked, Unreaped, AsyncIdle
<1>4. ASSUME NEW r \in Requests, ArriveQueue(r) PROVE DoneInv'
  BY <1>4 DEF ArriveQueue, Arrive, Queued, DoneInv, Tracked, Unreaped, AsyncIdle
<1>5. ASSUME NEW r \in Requests, ArriveOverflow(r) PROVE DoneInv'
  BY <1>5 DEF ArriveOverflow, Arrive, Answer, DoneInv, Tracked, Unreaped, AsyncIdle
<1>6. ASSUME NEW r \in Requests, WaitClosed(r) PROVE DoneInv'
  BY <1>6 DEF WaitClosed, Wait, Answer, LeaveQueue, DropAcquire, GiveBack, IsFirst, Queued,
     DoneInv, Tracked, Unreaped, AsyncIdle
<1>7. ASSUME NEW r \in Requests, WaitExpired(r) PROVE DoneInv'
  BY <1>7 DEF WaitExpired, Wait, Answer, LeaveQueue, DropAcquire, GiveBack, IsFirst, Queued,
     DoneInv, Tracked, Unreaped, AsyncIdle
<1>8. ASSUME NEW r \in Requests, WaitStart(r) PROVE DoneInv'
  BY <1>8 DEF WaitStart, Wait, Admit, DoneInv, Tracked, Unreaped, AsyncIdle
<1>9. ASSUME NEW r \in Requests, WaitOverflow(r) PROVE DoneInv'
  BY <1>9 DEF WaitOverflow, Wait, Answer, LeaveQueue, DropAcquire, GiveBack, IsFirst, Queued,
     DoneInv, Tracked, Unreaped, AsyncIdle
<1>10. ASSUME NEW r \in Requests, CancelWaiting(r) PROVE DoneInv'
  BY <1>10 DEF CancelWaiting, Wait, Answer, LeaveQueue, DropAcquire, GiveBack, IsFirst, Queued,
     DoneInv, Tracked, Unreaped, AsyncIdle
<1>11. ASSUME NEW r \in Requests, Spawn(r) PROVE DoneInv'
  BY <1>11 DEF Spawn, WakeDriver, DoneInv, Tracked, Unreaped, AsyncIdle
<1>12. ASSUME NEW r \in Requests, SpawnRefused(r) PROVE DoneInv'
  BY <1>12 DEF SpawnRefused, Answer, GiveBack, IsFirst, Queued, DoneInv, Tracked, Unreaped,
     AsyncIdle
<1>13. ASSUME NEW r \in Requests, AwaitExpired(r) PROVE DoneInv'
  BY <1>13 DEF AwaitExpired, Execute, Answer, DoneInv, Tracked, Unreaped, AsyncIdle
<1>14. ASSUME NEW r \in Requests, AwaitReply(r) PROVE DoneInv'
  BY <1>14 DEF AwaitReply, Execute, Answer, DoneInv, Tracked, Unreaped, AsyncIdle
<1>15. ASSUME NEW r \in Requests, CancelExecuting(r) PROVE DoneInv'
  BY <1>15 DEF CancelExecuting, Execute, Answer, DoneInv, Tracked, Unreaped, AsyncIdle
<1>16. ASSUME NEW r \in Requests, TakeSession(r) PROVE DoneInv'
  BY <1>16 DEF TakeSession, Work, ShutAdmission, CloseSemaphore, WakeDriver, DoneInv, Tracked,
     Unreaped, AsyncIdle
<1>17. ASSUME NEW r \in Requests, Finish(r) PROVE DoneInv'
  BY <1>17 DEF Finish, Work, DoneInv, Tracked, Unreaped, AsyncIdle
<1>18. ASSUME NEW r \in Requests, Panic(r) PROVE DoneInv'
  BY <1>18 DEF Panic, Work, DoneInv, Tracked, Unreaped, AsyncIdle
<1>19. ASSUME NEW r \in Requests, PanicClose(r) PROVE DoneInv'
  BY <1>19 DEF PanicClose, Work, ShutAdmission, CloseSemaphore, WakeDriver, DoneInv, Tracked,
     Unreaped, AsyncIdle
<1>20. ASSUME NEW r \in Requests, DropRunning(r) PROVE DoneInv'
  BY <1>20 DEF DropRunning, Work, DoneInv, Tracked, Unreaped, AsyncIdle
<1>21. ASSUME NEW r \in Requests, ReleasePermit(r) PROVE DoneInv'
  BY <1>21 DEF ReleasePermit, Work, GiveBack, IsFirst, Queued, DoneInv, Tracked, Unreaped, AsyncIdle
<1>22. ASSUME NEW r \in Requests, Send(r) PROVE DoneInv'
  BY <1>22 DEF Send, Work, ReplyFor, DoneInv, Tracked, Unreaped, AsyncIdle
<1>23. ASSUME NEW r \in Requests, Complete(r) PROVE DoneInv'
  BY <1>23 DEF Complete, Work, DoneInv, Tracked, Unreaped, AsyncIdle
<1>24. ASSUME NEW r \in Requests, DriverJoin(r) PROVE DoneInv'
  BY <1>24 DEF DriverJoin, Drive, CloseSemaphore, Unreaped, DoneInv, Tracked, AsyncIdle
<1>25. CASE DriverStart
  BY <1>25 DEF DriverStart, Drive, DoneInv, Tracked, Unreaped, AsyncIdle
<1>26. CASE DriverDrop
  BY <1>26 DEF DriverDrop, Drive, DoneInv, Tracked, Unreaped, AsyncIdle
<1>27. CASE DriverPark
  BY <1>27 DEF DriverPark, Drive, Tracked, Unreaped, DoneInv, AsyncIdle
<1>28. CASE DriverDone
  BY <1>28 DEF DriverDone, Drive, Tracked, DoneInv, Unreaped, AsyncIdle
<1>29. CASE Close
  BY <1>29 DEF Close, ShutAdmission, CloseSemaphore, WakeDriver, DoneInv, Tracked, Unreaped,
     AsyncIdle
<1>30. CASE Tick
  BY <1>30 DEF Tick, Elapse, DoneInv, Tracked, Unreaped, AsyncIdle
<1>31. CASE UNCHANGED vars
  BY <1>31 DEF vars, DoneInv, Tracked, Unreaped, AsyncIdle
<1>32. QED
  BY <1>1, <1>2, <1>3, <1>4, <1>5, <1>6, <1>7, <1>8, <1>9, <1>10, <1>11, <1>12, <1>13, <1>14,
     <1>15, <1>16, <1>17, <1>18, <1>19, <1>20, <1>21, <1>22, <1>23, <1>24, <1>25, <1>26, <1>27,
     <1>28, <1>29, <1>30, <1>31 DEF Next, CallerStep, Cancel, WorkStep, DriverStep

\* No step forgets a panic that run has joined.
LEMMA FailureKept ==
  ASSUME TypeOK, FailureInv, [Next]_vars
  PROVE  FailureInv'
<1> USE DEF TypeOK, GaugeTypes, CallerTypes, WorkTypes, DriverTypes
<1>1. ASSUME NEW r \in Requests, ArriveClosed(r) PROVE FailureInv'
  BY <1>1 DEF ArriveClosed, Arrive, Answer, FailureInv, FailureReported, Tracked, Unreaped
<1>2. ASSUME NEW r \in Requests, ArriveStart(r) PROVE FailureInv'
  BY <1>2 DEF ArriveStart, Arrive, Admit, Queued, FailureInv, FailureReported, Tracked, Unreaped
<1>3. ASSUME NEW r \in Requests, ArriveFull(r) PROVE FailureInv'
  BY <1>3 DEF ArriveFull, Arrive, Answer, FailureInv, FailureReported, Tracked, Unreaped
<1>4. ASSUME NEW r \in Requests, ArriveQueue(r) PROVE FailureInv'
  BY <1>4 DEF ArriveQueue, Arrive, Queued, FailureInv, FailureReported, Tracked, Unreaped
<1>5. ASSUME NEW r \in Requests, ArriveOverflow(r) PROVE FailureInv'
  BY <1>5 DEF ArriveOverflow, Arrive, Answer, FailureInv, FailureReported, Tracked, Unreaped
<1>6. ASSUME NEW r \in Requests, WaitClosed(r) PROVE FailureInv'
  BY <1>6 DEF WaitClosed, Wait, Answer, LeaveQueue, DropAcquire, GiveBack, IsFirst, Queued,
     FailureInv, FailureReported, Tracked, Unreaped
<1>7. ASSUME NEW r \in Requests, WaitExpired(r) PROVE FailureInv'
  BY <1>7 DEF WaitExpired, Wait, Answer, LeaveQueue, DropAcquire, GiveBack, IsFirst, Queued,
     FailureInv, FailureReported, Tracked, Unreaped
<1>8. ASSUME NEW r \in Requests, WaitStart(r) PROVE FailureInv'
  BY <1>8 DEF WaitStart, Wait, Admit, FailureInv, FailureReported, Tracked, Unreaped
<1>9. ASSUME NEW r \in Requests, WaitOverflow(r) PROVE FailureInv'
  BY <1>9 DEF WaitOverflow, Wait, Answer, LeaveQueue, DropAcquire, GiveBack, IsFirst, Queued,
     FailureInv, FailureReported, Tracked, Unreaped
<1>10. ASSUME NEW r \in Requests, CancelWaiting(r) PROVE FailureInv'
  BY <1>10 DEF CancelWaiting, Wait, Answer, LeaveQueue, DropAcquire, GiveBack, IsFirst, Queued,
     FailureInv, FailureReported, Tracked, Unreaped
<1>11. ASSUME NEW r \in Requests, Spawn(r) PROVE FailureInv'
  BY <1>11 DEF Spawn, WakeDriver, FailureInv, FailureReported, Tracked, Unreaped
<1>12. ASSUME NEW r \in Requests, SpawnRefused(r) PROVE FailureInv'
  BY <1>12 DEF SpawnRefused, Answer, GiveBack, IsFirst, Queued, FailureInv, FailureReported,
     Tracked, Unreaped
<1>13. ASSUME NEW r \in Requests, AwaitExpired(r) PROVE FailureInv'
  BY <1>13 DEF AwaitExpired, Execute, Answer, FailureInv, FailureReported, Tracked, Unreaped
<1>14. ASSUME NEW r \in Requests, AwaitReply(r) PROVE FailureInv'
  BY <1>14 DEF AwaitReply, Execute, Answer, FailureInv, FailureReported, Tracked, Unreaped
<1>15. ASSUME NEW r \in Requests, CancelExecuting(r) PROVE FailureInv'
  BY <1>15 DEF CancelExecuting, Execute, Answer, FailureInv, FailureReported, Tracked, Unreaped
<1>16. ASSUME NEW r \in Requests, TakeSession(r) PROVE FailureInv'
  BY <1>16 DEF TakeSession, Work, ShutAdmission, CloseSemaphore, WakeDriver, FailureInv,
     FailureReported, Tracked, Unreaped
<1>17. ASSUME NEW r \in Requests, Finish(r) PROVE FailureInv'
  BY <1>17 DEF Finish, Work, FailureInv, FailureReported, Tracked, Unreaped
<1>18. ASSUME NEW r \in Requests, Panic(r) PROVE FailureInv'
  BY <1>18 DEF Panic, Work, FailureInv, FailureReported, Tracked, Unreaped
<1>19. ASSUME NEW r \in Requests, PanicClose(r) PROVE FailureInv'
  BY <1>19 DEF PanicClose, Work, ShutAdmission, CloseSemaphore, WakeDriver, FailureInv,
     FailureReported, Tracked, Unreaped
<1>20. ASSUME NEW r \in Requests, DropRunning(r) PROVE FailureInv'
  BY <1>20 DEF DropRunning, Work, FailureInv, FailureReported, Tracked, Unreaped
<1>21. ASSUME NEW r \in Requests, ReleasePermit(r) PROVE FailureInv'
  BY <1>21 DEF ReleasePermit, Work, GiveBack, IsFirst, Queued, FailureInv, FailureReported,
     Tracked, Unreaped
<1>22. ASSUME NEW r \in Requests, Send(r) PROVE FailureInv'
  BY <1>22 DEF Send, Work, ReplyFor, FailureInv, FailureReported, Tracked, Unreaped
<1>23. ASSUME NEW r \in Requests, Complete(r) PROVE FailureInv'
  BY <1>23 DEF Complete, Work, FailureInv, FailureReported, Tracked, Unreaped
<1>24. ASSUME NEW r \in Requests, DriverJoin(r) PROVE FailureInv'
  BY <1>24 DEF DriverJoin, Drive, CloseSemaphore, Unreaped, FailureInv, FailureReported, Tracked
<1>25. CASE DriverStart
  BY <1>25 DEF DriverStart, Drive, FailureInv, FailureReported, Tracked, Unreaped
<1>26. CASE DriverDrop
  BY <1>26 DEF DriverDrop, Drive, FailureInv, FailureReported, Tracked, Unreaped
<1>27. CASE DriverPark
  BY <1>27 DEF DriverPark, Drive, Tracked, Unreaped, FailureInv, FailureReported
<1>28. CASE DriverDone
  BY <1>28 DEF DriverDone, Drive, Tracked, FailureInv, FailureReported, Unreaped
<1>29. CASE Close
  BY <1>29 DEF Close, ShutAdmission, CloseSemaphore, WakeDriver, FailureInv, FailureReported,
     Tracked, Unreaped
<1>30. CASE Tick
  BY <1>30 DEF Tick, Elapse, FailureInv, FailureReported, Tracked, Unreaped
<1>31. CASE UNCHANGED vars
  BY <1>31 DEF vars, FailureInv, FailureReported, Tracked, Unreaped
<1>32. QED
  BY <1>1, <1>2, <1>3, <1>4, <1>5, <1>6, <1>7, <1>8, <1>9, <1>10, <1>11, <1>12, <1>13, <1>14,
     <1>15, <1>16, <1>17, <1>18, <1>19, <1>20, <1>21, <1>22, <1>23, <1>24, <1>25, <1>26, <1>27,
     <1>28, <1>29, <1>30, <1>31 DEF Next, CallerStep, Cancel, WorkStep, DriverStep

DriverInv == WakerInv /\ DoneInv /\ FailureInv

\* The future of run, its wakers and the failure it keeps agree in every state.
LEMMA DriverInvariant == Spec => []DriverInv
<1>1. Init => DriverInv
  BY DEF Init, DriverInv, WakerInv, DoneInv, FailureInv, NoLostWakeup, FailureReported, Tracked,
     Unreaped, AsyncIdle
<1>2. TypeOK /\ DriverInv /\ [Next]_vars => DriverInv'
  BY WakerKept, DoneKept, FailureKept DEF DriverInv
<1>3. QED
  BY <1>1, <1>2, TypeCorrect, PTL DEF Spec

\* A parked run never sleeps over something it has to act on.
THEOREM NoWakeupIsLost == Spec => []NoLostWakeup
<1>1. DriverInv => NoLostWakeup
  BY DEF DriverInv, WakerInv
<1>2. QED
  BY <1>1, DriverInvariant, PTL

\* A panic of a joined task is kept until run reports it.
THEOREM EveryFailureIsReported == Spec => []FailureReported
<1>1. DriverInv => FailureReported
  BY DEF DriverInv, FailureInv
<1>2. QED
  BY <1>1, DriverInvariant, PTL

\* When run has returned, nothing runs and nothing ever will.
THEOREM DoneMeansDrained == Spec => []DrainedWhenDone
<1>1. DriverInv /\ GaugeInv => DrainedWhenDone
  <2> SUFFICES ASSUME DriverInv, GaugeInv, drv = "done" PROVE DrainedWhenDone
    BY DEF DrainedWhenDone
  <2>1. Counted = {}
    BY DEF DriverInv, DoneInv, Counted, Tracked, AsyncIdle
  <2>2. inflight = 0
    BY <2>1, FS_EmptySet DEF GaugeInv, GaugesExact
  <2>3. QED
    BY <2>2 DEF DriverInv, DoneInv, DrainedWhenDone
<1>2. QED
  BY <1>1, DriverInvariant, GaugeInvariant, PTL

\* The future of run neither returns too early nor sleeps over its work.
THEOREM RunStops == Spec => []RunStopsRight
<1>1. DrainedWhenDone /\ NoLostWakeup => RunStopsRight
  BY DEF RunStopsRight
<1>2. QED
  BY <1>1, DoneMeansDrained, NoWakeupIsLost, PTL

-----------------------------------------------------------------------------
\* The sessions.  A lost one keeps its permit from everybody until admission
\* is closed, and from then on no task is added to those that need one.
LostInv ==
  \A r \in Requests :
    ended[r] = "panic" => /\ task[r] \notin {"none", "spawned", "running"}
                          /\ accepting => task[r] = "unwinding"

\* A lost session stays with a permit nobody else gets before admission closes.
LEMMA LostInvariant == Spec => []LostInv
<1>1. Init => LostInv
  BY DEF Init, LostInv
<1>2. TypeOK /\ Coherence /\ LostInv /\ [Next]_vars => LostInv'
  <2> SUFFICES ASSUME TypeOK, Coherence, LostInv, [Next]_vars PROVE LostInv'
    OBVIOUS
  <2> USE DEF TypeOK, GaugeTypes, WorkTypes
  <2>1. ASSUME NEW r \in Requests, ArriveClosed(r) PROVE LostInv'
    BY <2>1 DEF ArriveClosed, Arrive, Answer, LostInv
  <2>2. ASSUME NEW r \in Requests, ArriveStart(r) PROVE LostInv'
    BY <2>2 DEF ArriveStart, Arrive, Admit, Queued, LostInv
  <2>3. ASSUME NEW r \in Requests, ArriveFull(r) PROVE LostInv'
    BY <2>3 DEF ArriveFull, Arrive, Answer, LostInv
  <2>4. ASSUME NEW r \in Requests, ArriveQueue(r) PROVE LostInv'
    BY <2>4 DEF ArriveQueue, Arrive, Queued, LostInv
  <2>5. ASSUME NEW r \in Requests, ArriveOverflow(r) PROVE LostInv'
    BY <2>5 DEF ArriveOverflow, Arrive, Answer, LostInv
  <2>6. ASSUME NEW r \in Requests, WaitClosed(r) PROVE LostInv'
    BY <2>6 DEF WaitClosed, Wait, Answer, LeaveQueue, DropAcquire, GiveBack, IsFirst, Queued,
       LostInv
  <2>7. ASSUME NEW r \in Requests, WaitExpired(r) PROVE LostInv'
    BY <2>7 DEF WaitExpired, Wait, Answer, LeaveQueue, DropAcquire, GiveBack, IsFirst, Queued,
       LostInv
  <2>8. ASSUME NEW r \in Requests, WaitStart(r) PROVE LostInv'
    BY <2>8 DEF WaitStart, Wait, Admit, LostInv
  <2>9. ASSUME NEW r \in Requests, WaitOverflow(r) PROVE LostInv'
    BY <2>9 DEF WaitOverflow, Wait, Answer, LeaveQueue, DropAcquire, GiveBack, IsFirst, Queued,
       LostInv
  <2>10. ASSUME NEW r \in Requests, CancelWaiting(r) PROVE LostInv'
    BY <2>10 DEF CancelWaiting, Wait, Answer, LeaveQueue, DropAcquire, GiveBack, IsFirst, Queued,
       LostInv
  <2>11. ASSUME NEW r \in Requests, Spawn(r) PROVE LostInv'
    BY <2>11 DEF Spawn, WakeDriver, LostInv, Coherence, Coherent
  <2>12. ASSUME NEW r \in Requests, SpawnRefused(r) PROVE LostInv'
    BY <2>12 DEF SpawnRefused, Answer, GiveBack, IsFirst, Queued, LostInv
  <2>13. ASSUME NEW r \in Requests, AwaitExpired(r) PROVE LostInv'
    BY <2>13 DEF AwaitExpired, Execute, Answer, LostInv
  <2>14. ASSUME NEW r \in Requests, AwaitReply(r) PROVE LostInv'
    BY <2>14 DEF AwaitReply, Execute, Answer, LostInv
  <2>15. ASSUME NEW r \in Requests, CancelExecuting(r) PROVE LostInv'
    BY <2>15 DEF CancelExecuting, Execute, Answer, LostInv
  <2>16. ASSUME NEW r \in Requests, TakeSession(r) PROVE LostInv'
    BY <2>16 DEF TakeSession, Work, ShutAdmission, CloseSemaphore, WakeDriver, LostInv
  <2>17. ASSUME NEW r \in Requests, Finish(r) PROVE LostInv'
    BY <2>17, ResultsAssumption DEF Finish, Work, LostInv
  <2>18. ASSUME NEW r \in Requests, Panic(r) PROVE LostInv'
    BY <2>18 DEF Panic, Work, LostInv
  <2>19. ASSUME NEW r \in Requests, PanicClose(r) PROVE LostInv'
    BY <2>19 DEF PanicClose, Work, ShutAdmission, CloseSemaphore, WakeDriver, LostInv
  <2>20. ASSUME NEW r \in Requests, DropRunning(r) PROVE LostInv'
    BY <2>20 DEF DropRunning, Work, LostInv
  <2>21. ASSUME NEW r \in Requests, ReleasePermit(r) PROVE LostInv'
    BY <2>21 DEF ReleasePermit, Work, GiveBack, IsFirst, Queued, LostInv
  <2>22. ASSUME NEW r \in Requests, Send(r) PROVE LostInv'
    BY <2>22 DEF Send, Work, ReplyFor, LostInv
  <2>23. ASSUME NEW r \in Requests, Complete(r) PROVE LostInv'
    BY <2>23 DEF Complete, Work, LostInv
  <2>24. ASSUME NEW r \in Requests, DriverJoin(r) PROVE LostInv'
    BY <2>24 DEF DriverJoin, Drive, CloseSemaphore, Unreaped, LostInv
  <2>25. CASE DriverStart
    BY <2>25 DEF DriverStart, Drive, LostInv
  <2>26. CASE DriverDrop
    BY <2>26 DEF DriverDrop, Drive, LostInv
  <2>27. CASE DriverPark
    BY <2>27 DEF DriverPark, Drive, Tracked, Unreaped, LostInv
  <2>28. CASE DriverDone
    BY <2>28 DEF DriverDone, Drive, Tracked, LostInv
  <2>29. CASE Close
    BY <2>29 DEF Close, ShutAdmission, CloseSemaphore, WakeDriver, LostInv
  <2>30. CASE Tick
    BY <2>30 DEF Tick, Elapse, LostInv
  <2>31. CASE UNCHANGED vars
    BY <2>31 DEF vars, LostInv
  <2>32. QED
    BY <2>1, <2>2, <2>3, <2>4, <2>5, <2>6, <2>7, <2>8, <2>9, <2>10, <2>11, <2>12, <2>13, <2>14,
       <2>15, <2>16, <2>17, <2>18, <2>19, <2>20, <2>21, <2>22, <2>23, <2>24, <2>25, <2>26, <2>27,
       <2>28, <2>29, <2>30, <2>31 DEF Next, CallerStep, Cancel, WorkStep, DriverStep
<1>3. QED
  BY <1>1, <1>2, TypeCorrect, CoherenceInvariant, PTL DEF Spec

InUse   == {r \in Requests : task[r] = "running" \/ ended[r] = "panic"}
Pending == InUse \cup {r \in Requests : task[r] = "spawned"}

SessionInv ==
  /\ IsFiniteSet(Pending)
  /\ Cardinality(Pending) <= Slots
  /\ sessions + Cardinality(InUse) = Slots
  /\ \A r \in Requests : ended[r] # "no_session"

\* As many sessions are left as there are tasks that still have to take one.
LEMMA SessionLeft ==
  ASSUME TypeOK, LostInv, SessionInv, NEW r \in Requests, task[r] = "spawned"
  PROVE  sessions > 0 /\ r \notin InUse /\ IsFiniteSet(InUse)
<1>1. r \notin InUse /\ r \in Pending
  BY DEF LostInv, InUse, Pending
<1>2. IsFiniteSet(InUse) /\ InUse # Pending /\ Cardinality(InUse) <= Cardinality(Pending)
  BY <1>1, FS_Subset DEF SessionInv, Pending
<1>3. Cardinality(InUse) # Cardinality(Pending)
  BY <1>2, FS_Subset DEF SessionInv, Pending
<1>4. Cardinality(InUse) \in Nat /\ Cardinality(Pending) \in Nat
  BY <1>2, FS_CardinalityType DEF SessionInv
<1>5. QED
  BY <1>1, <1>2, <1>3, <1>4, SlotsAssumption DEF SessionInv, TypeOK, WorkTypes, SlotsAssumption

\* What one step does to the sessions.
SessionsAsBefore ==
  InUse' = InUse /\ Pending' = Pending /\ sessions' = sessions
SessionWanted == \E r \in Requests :
  accepting /\ permit[r] = "held" /\ InUse' = InUse /\ Pending' = Pending \cup {r} /\ sessions' = sessions
SessionTaken == \E r \in Requests \ InUse :
  IsFiniteSet(InUse) /\ InUse' = InUse \cup {r} /\ Pending' = Pending /\ sessions' = sessions - 1
SessionReturned == \E r \in InUse :
  InUse' = InUse \ {r} /\ Pending' = Pending \ {r} /\ sessions' = sessions + 1

SessionEffect ==
  /\ SessionsAsBefore \/ SessionWanted \/ SessionTaken \/ SessionReturned
  /\ \A r \in Requests : ended'[r] # "no_session"

\* Every step wants, takes or returns at most one session, and none fails to
\* find one.
LEMMA StepSessionEffect ==
  ASSUME TypeOK, Coherence, LostInv, SessionInv, [Next]_vars
  PROVE  SessionEffect
<1> USE DEF TypeOK, GaugeTypes, WorkTypes, SessionInv
<1>1. ASSUME NEW r \in Requests, ArriveClosed(r) PROVE SessionEffect
  BY <1>1 DEF ArriveClosed, Arrive, Answer, SessionEffect, SessionsAsBefore, InUse, Pending,
     Coherence, Coherent
<1>2. ASSUME NEW r \in Requests, ArriveStart(r) PROVE SessionEffect
  BY <1>2 DEF ArriveStart, Arrive, Admit, Queued, SessionEffect, SessionsAsBefore, InUse,
     Pending, Coherence, Coherent
<1>3. ASSUME NEW r \in Requests, ArriveFull(r) PROVE SessionEffect
  BY <1>3 DEF ArriveFull, Arrive, Answer, SessionEffect, SessionsAsBefore, InUse, Pending,
     Coherence, Coherent
<1>4. ASSUME NEW r \in Requests, ArriveQueue(r) PROVE SessionEffect
  BY <1>4 DEF ArriveQueue, Arrive, Queued, SessionEffect, SessionsAsBefore, InUse, Pending,
     Coherence, Coherent
<1>5. ASSUME NEW r \in Requests, ArriveOverflow(r) PROVE SessionEffect
  BY <1>5 DEF ArriveOverflow, Arrive, Answer, SessionEffect, SessionsAsBefore, InUse, Pending,
     Coherence, Coherent
<1>6. ASSUME NEW r \in Requests, WaitClosed(r) PROVE SessionEffect
  BY <1>6 DEF WaitClosed, Wait, Answer, LeaveQueue, DropAcquire, GiveBack, IsFirst, Queued,
     SessionEffect, SessionsAsBefore, InUse, Pending, Coherence, Coherent
<1>7. ASSUME NEW r \in Requests, WaitExpired(r) PROVE SessionEffect
  BY <1>7 DEF WaitExpired, Wait, Answer, LeaveQueue, DropAcquire, GiveBack, IsFirst, Queued,
     SessionEffect, SessionsAsBefore, InUse, Pending, Coherence, Coherent
<1>8. ASSUME NEW r \in Requests, WaitStart(r) PROVE SessionEffect
  BY <1>8 DEF WaitStart, Wait, Admit, SessionEffect, SessionsAsBefore, InUse, Pending, Coherence,
     Coherent
<1>9. ASSUME NEW r \in Requests, WaitOverflow(r) PROVE SessionEffect
  BY <1>9 DEF WaitOverflow, Wait, Answer, LeaveQueue, DropAcquire, GiveBack, IsFirst, Queued,
     SessionEffect, SessionsAsBefore, InUse, Pending, Coherence, Coherent
<1>10. ASSUME NEW r \in Requests, CancelWaiting(r) PROVE SessionEffect
  BY <1>10 DEF CancelWaiting, Wait, Answer, LeaveQueue, DropAcquire, GiveBack, IsFirst, Queued,
     SessionEffect, SessionsAsBefore, InUse, Pending, Coherence, Coherent
<1>11. ASSUME NEW r \in Requests, Spawn(r) PROVE SessionEffect
  <2>1. accepting /\ permit[r] = "held" /\ sessions' = sessions /\ ended' = ended
    BY <1>11 DEF Spawn, Coherence, Coherent
  <2>2. InUse' = InUse /\ Pending' = Pending \cup {r}
    BY <1>11 DEF Spawn, InUse, Pending, Coherence, Coherent
  <2>3. QED
    BY <2>1, <2>2 DEF SessionEffect, SessionWanted
<1>12. ASSUME NEW r \in Requests, SpawnRefused(r) PROVE SessionEffect
  BY <1>12 DEF SpawnRefused, Answer, GiveBack, IsFirst, Queued, SessionEffect, SessionsAsBefore,
     InUse, Pending, Coherence, Coherent
<1>13. ASSUME NEW r \in Requests, AwaitExpired(r) PROVE SessionEffect
  BY <1>13 DEF AwaitExpired, Execute, Answer, SessionEffect, SessionsAsBefore, InUse, Pending,
     Coherence, Coherent
<1>14. ASSUME NEW r \in Requests, AwaitReply(r) PROVE SessionEffect
  BY <1>14 DEF AwaitReply, Execute, Answer, SessionEffect, SessionsAsBefore, InUse, Pending,
     Coherence, Coherent
<1>15. ASSUME NEW r \in Requests, CancelExecuting(r) PROVE SessionEffect
  BY <1>15 DEF CancelExecuting, Execute, Answer, SessionEffect, SessionsAsBefore, InUse, Pending,
     Coherence, Coherent
<1>16. ASSUME NEW r \in Requests, TakeSession(r) PROVE SessionEffect
  <2>1. sessions > 0 /\ r \notin InUse /\ IsFiniteSet(InUse)
    BY <1>16, SessionLeft DEF TakeSession
  <2>2. InUse' = InUse \cup {r} /\ Pending' = Pending /\ sessions' = sessions - 1 /\ ended' = ended
    BY <1>16, <2>1 DEF TakeSession, InUse, Pending
  <2>3. QED
    BY <2>1, <2>2 DEF SessionEffect, SessionTaken
<1>17. ASSUME NEW r \in Requests, Finish(r) PROVE SessionEffect
  <2>1. r \in InUse /\ InUse' = InUse \ {r} /\ Pending' = Pending \ {r} /\ sessions' = sessions + 1
    BY <1>17, ResultsAssumption DEF Finish, InUse, Pending, LostInv
  <2>2. \A q \in Requests : ended'[q] # "no_session"
    BY <1>17, ResultsAssumption DEF Finish
  <2>3. QED
    BY <2>1, <2>2 DEF SessionEffect, SessionReturned
<1>18. ASSUME NEW r \in Requests, Panic(r) PROVE SessionEffect
  BY <1>18 DEF Panic, Work, SessionEffect, SessionsAsBefore, InUse, Pending, Coherence, Coherent
<1>19. ASSUME NEW r \in Requests, PanicClose(r) PROVE SessionEffect
  BY <1>19 DEF PanicClose, Work, ShutAdmission, CloseSemaphore, WakeDriver, SessionEffect,
     SessionsAsBefore, InUse, Pending, Coherence, Coherent
<1>20. ASSUME NEW r \in Requests, DropRunning(r) PROVE SessionEffect
  BY <1>20 DEF DropRunning, Work, SessionEffect, SessionsAsBefore, InUse, Pending, Coherence,
     Coherent
<1>21. ASSUME NEW r \in Requests, ReleasePermit(r) PROVE SessionEffect
  BY <1>21 DEF ReleasePermit, Work, GiveBack, IsFirst, Queued, SessionEffect, SessionsAsBefore,
     InUse, Pending, Coherence, Coherent
<1>22. ASSUME NEW r \in Requests, Send(r) PROVE SessionEffect
  BY <1>22 DEF Send, Work, ReplyFor, SessionEffect, SessionsAsBefore, InUse, Pending, Coherence,
     Coherent
<1>23. ASSUME NEW r \in Requests, Complete(r) PROVE SessionEffect
  BY <1>23 DEF Complete, Work, SessionEffect, SessionsAsBefore, InUse, Pending, Coherence, Coherent
<1>24. ASSUME NEW r \in Requests, DriverJoin(r) PROVE SessionEffect
  BY <1>24 DEF DriverJoin, Drive, CloseSemaphore, Unreaped, SessionEffect, SessionsAsBefore,
     InUse, Pending, Coherence, Coherent
<1>25. CASE DriverStart
  BY <1>25 DEF DriverStart, Drive, SessionEffect, SessionsAsBefore, InUse, Pending, Coherence,
     Coherent
<1>26. CASE DriverDrop
  BY <1>26 DEF DriverDrop, Drive, SessionEffect, SessionsAsBefore, InUse, Pending, Coherence,
     Coherent
<1>27. CASE DriverPark
  BY <1>27 DEF DriverPark, Drive, Tracked, Unreaped, SessionEffect, SessionsAsBefore, InUse,
     Pending, Coherence, Coherent
<1>28. CASE DriverDone
  BY <1>28 DEF DriverDone, Drive, Tracked, SessionEffect, SessionsAsBefore, InUse, Pending,
     Coherence, Coherent
<1>29. CASE Close
  BY <1>29 DEF Close, ShutAdmission, CloseSemaphore, WakeDriver, SessionEffect, SessionsAsBefore,
     InUse, Pending, Coherence, Coherent
<1>30. CASE Tick
  BY <1>30 DEF Tick, Elapse, SessionEffect, SessionsAsBefore, InUse, Pending, Coherence, Coherent
<1>31. CASE UNCHANGED vars
  BY <1>31 DEF vars, SessionEffect, SessionsAsBefore, InUse, Pending, Coherence, Coherent
<1>32. QED
  BY <1>1, <1>2, <1>3, <1>4, <1>5, <1>6, <1>7, <1>8, <1>9, <1>10, <1>11, <1>12, <1>13, <1>14,
     <1>15, <1>16, <1>17, <1>18, <1>19, <1>20, <1>21, <1>22, <1>23, <1>24, <1>25, <1>26, <1>27,
     <1>28, <1>29, <1>30, <1>31 DEF Next, CallerStep, Cancel, WorkStep, DriverStep

\* Sessions and the tasks that hold, lost or still want one add up.
LEMMA SessionInvariant == Spec => []SessionInv
<1>1. Init => SessionInv
  <2> SUFFICES ASSUME Init PROVE SessionInv
    OBVIOUS
  <2>1. InUse = {} /\ Pending = {} /\ sessions = Slots
    BY DEF Init, InUse, Pending
  <2>2. QED
    BY <2>1, FS_EmptySet, SlotsAssumption DEF SessionInv, SlotsAssumption, Init
<1>2. TypeOK /\ Coherence /\ PermitInv /\ PermitInv' /\ LostInv /\ SessionInv /\ [Next]_vars => SessionInv'
  <2> SUFFICES ASSUME TypeOK, Coherence, PermitInv, PermitInv', LostInv, SessionInv, [Next]_vars
               PROVE  SessionInv'
    OBVIOUS
  <2>1. IsFiniteSet(InUse) /\ IsFiniteSet(Pending)
        /\ Cardinality(InUse) \in Nat /\ Cardinality(Pending) \in Nat
    BY FS_Subset, FS_CardinalityType DEF SessionInv, Pending
  <2>2. Slots \in Nat /\ sessions \in Nat
    BY SlotsAssumption DEF SlotsAssumption, TypeOK, WorkTypes
  <2>3. \A r \in Requests : ended'[r] # "no_session"
    BY StepSessionEffect DEF SessionEffect
  <2>4. CASE SessionsAsBefore
    BY <2>3, <2>4 DEF SessionsAsBefore, SessionInv
  <2>5. CASE SessionWanted
    <3>1. PICK r \in Requests : /\ accepting /\ permit[r] = "held" /\ InUse' = InUse
                                /\ Pending' = Pending \cup {r} /\ sessions' = sessions
      BY <2>5 DEF SessionWanted
    <3>2. Pending' \in SUBSET Owners
      BY <3>1 DEF Pending, InUse, Owners, LostInv, Coherence, Coherent, Holding
    <3>3. IsFiniteSet(Pending') /\ Cardinality(Pending') <= Cardinality(Owners)
      BY <3>2, FS_Subset DEF PermitInv
    <3>4. Cardinality(Owners) <= Slots
      BY <2>2, FS_CardinalityType DEF PermitInv, PermitsConserved, TypeOK, PermitTypes
    <3>5. Cardinality(Pending') \in Nat /\ Cardinality(Owners) \in Nat
      BY <3>3, FS_CardinalityType DEF PermitInv
    <3>6. QED
      BY <2>1, <2>2, <2>3, <3>1, <3>3, <3>4, <3>5 DEF SessionInv
  <2>6. CASE SessionTaken
    <3>1. PICK r \in Requests \ InUse : /\ InUse' = InUse \cup {r} /\ Pending' = Pending
                                        /\ sessions' = sessions - 1
      BY <2>6 DEF SessionTaken
    <3>2. Cardinality(InUse') = Cardinality(InUse) + 1
      BY <2>1, <3>1, FS_AddElement
    <3>3. QED
      BY <2>1, <2>2, <2>3, <3>1, <3>2 DEF SessionInv
  <2>7. CASE SessionReturned
    <3>1. PICK r \in InUse : /\ InUse' = InUse \ {r} /\ Pending' = Pending \ {r}
                             /\ sessions' = sessions + 1
      BY <2>7 DEF SessionReturned
    <3>2. Cardinality(InUse') = Cardinality(InUse) - 1
      BY <2>1, <3>1, FS_RemoveElement
    <3>3. /\ IsFiniteSet(Pending') /\ Cardinality(Pending') = Cardinality(Pending) - 1
          /\ Cardinality(Pending') \in Int
      BY <2>1, <3>1, FS_RemoveElement DEF Pending
    <3>4. QED
      BY <2>1, <2>2, <2>3, <3>1, <3>2, <3>3 DEF SessionInv
  <2>8. QED
    BY <2>4, <2>5, <2>6, <2>7, StepSessionEffect DEF SessionEffect
<1>3. QED
  BY <1>1, <1>2, TypeCorrect, CoherenceInvariant, PermitInvariant, LostInvariant, PTL DEF Spec

\* A started task never finds the pool of sessions empty, whatever panicked.
THEOREM SessionsAreReady == Spec => []SessionReady
<1>1. TypeOK /\ LostInv /\ SessionInv => SessionReady
  BY SessionLeft DEF SessionReady
<1>2. QED
  BY <1>1, TypeCorrect, LostInvariant, SessionInvariant, PTL

-----------------------------------------------------------------------------
\* The answers.
OutcomeInv ==
  \A r \in Requests :
    /\ outcome[r] # "none" => pc[r] = "done"
    /\ outcome[r] \in {"queue_full", "queue_timeout", "unavailable"} => task[r] = "none"
    /\ outcome[r] \in {"ok", "inference", "task_failed"} => task[r] \in Over
    /\ reply[r] # "empty" => task[r] \in Over /\ reply[r] # "unavailable"

\* What a caller was told agrees with what its task has done.
LEMMA OutcomeInvariant == Spec => []OutcomeInv
<1>1. Init => OutcomeInv
  BY DEF Init, OutcomeInv
<1>2. TypeOK /\ Coherence /\ SessionInv /\ OutcomeInv /\ [Next]_vars => OutcomeInv'
  <2> SUFFICES ASSUME TypeOK, Coherence, SessionInv, OutcomeInv, [Next]_vars PROVE OutcomeInv'
    OBVIOUS
  <2> USE DEF TypeOK, CallerTypes, WorkTypes
  <2>1. ASSUME NEW r \in Requests, ArriveClosed(r) PROVE OutcomeInv'
    BY <2>1 DEF ArriveClosed, Arrive, Answer, OutcomeInv, SessionInv, Coherence, Coherent, Over
  <2>2. ASSUME NEW r \in Requests, ArriveStart(r) PROVE OutcomeInv'
    BY <2>2 DEF ArriveStart, Arrive, Admit, Queued, OutcomeInv, SessionInv, Coherence, Coherent,
       Over
  <2>3. ASSUME NEW r \in Requests, ArriveFull(r) PROVE OutcomeInv'
    BY <2>3 DEF ArriveFull, Arrive, Answer, OutcomeInv, SessionInv, Coherence, Coherent, Over
  <2>4. ASSUME NEW r \in Requests, ArriveQueue(r) PROVE OutcomeInv'
    BY <2>4 DEF ArriveQueue, Arrive, Queued, OutcomeInv, SessionInv, Coherence, Coherent, Over
  <2>5. ASSUME NEW r \in Requests, ArriveOverflow(r) PROVE OutcomeInv'
    BY <2>5 DEF ArriveOverflow, Arrive, Answer, OutcomeInv, SessionInv, Coherence, Coherent, Over
  <2>6. ASSUME NEW r \in Requests, WaitClosed(r) PROVE OutcomeInv'
    BY <2>6 DEF WaitClosed, Wait, Answer, LeaveQueue, DropAcquire, GiveBack, IsFirst, Queued,
       OutcomeInv, SessionInv, Coherence, Coherent, Over
  <2>7. ASSUME NEW r \in Requests, WaitExpired(r) PROVE OutcomeInv'
    BY <2>7 DEF WaitExpired, Wait, Answer, LeaveQueue, DropAcquire, GiveBack, IsFirst, Queued,
       OutcomeInv, SessionInv, Coherence, Coherent, Over
  <2>8. ASSUME NEW r \in Requests, WaitStart(r) PROVE OutcomeInv'
    BY <2>8 DEF WaitStart, Wait, Admit, OutcomeInv, SessionInv, Coherence, Coherent, Over
  <2>9. ASSUME NEW r \in Requests, WaitOverflow(r) PROVE OutcomeInv'
    BY <2>9 DEF WaitOverflow, Wait, Answer, LeaveQueue, DropAcquire, GiveBack, IsFirst, Queued,
       OutcomeInv, SessionInv, Coherence, Coherent, Over
  <2>10. ASSUME NEW r \in Requests, CancelWaiting(r) PROVE OutcomeInv'
    BY <2>10 DEF CancelWaiting, Wait, Answer, LeaveQueue, DropAcquire, GiveBack, IsFirst, Queued,
       OutcomeInv, SessionInv, Coherence, Coherent, Over
  <2>11. ASSUME NEW r \in Requests, Spawn(r) PROVE OutcomeInv'
    BY <2>11 DEF Spawn, WakeDriver, OutcomeInv, SessionInv, Coherence, Coherent, Over
  <2>12. ASSUME NEW r \in Requests, SpawnRefused(r) PROVE OutcomeInv'
    BY <2>12 DEF SpawnRefused, Answer, GiveBack, IsFirst, Queued, OutcomeInv, SessionInv,
       Coherence, Coherent, Over
  <2>13. ASSUME NEW r \in Requests, AwaitExpired(r) PROVE OutcomeInv'
    BY <2>13 DEF AwaitExpired, Execute, Answer, OutcomeInv, SessionInv, Coherence, Coherent, Over
  <2>14. ASSUME NEW r \in Requests, AwaitReply(r) PROVE OutcomeInv'
    BY <2>14 DEF AwaitReply, Execute, Answer, OutcomeInv, SessionInv, Coherence, Coherent, Over
  <2>15. ASSUME NEW r \in Requests, CancelExecuting(r) PROVE OutcomeInv'
    BY <2>15 DEF CancelExecuting, Execute, Answer, OutcomeInv, SessionInv, Coherence, Coherent, Over
  <2>16. ASSUME NEW r \in Requests, TakeSession(r) PROVE OutcomeInv'
    BY <2>16 DEF TakeSession, Work, ShutAdmission, CloseSemaphore, WakeDriver, OutcomeInv,
       SessionInv, Coherence, Coherent, Over
  <2>17. ASSUME NEW r \in Requests, Finish(r) PROVE OutcomeInv'
    BY <2>17 DEF Finish, Work, OutcomeInv, SessionInv, Coherence, Coherent, Over
  <2>18. ASSUME NEW r \in Requests, Panic(r) PROVE OutcomeInv'
    BY <2>18 DEF Panic, Work, OutcomeInv, SessionInv, Coherence, Coherent, Over
  <2>19. ASSUME NEW r \in Requests, PanicClose(r) PROVE OutcomeInv'
    BY <2>19 DEF PanicClose, Work, ShutAdmission, CloseSemaphore, WakeDriver, OutcomeInv,
       SessionInv, Coherence, Coherent, Over
  <2>20. ASSUME NEW r \in Requests, DropRunning(r) PROVE OutcomeInv'
    BY <2>20 DEF DropRunning, Work, OutcomeInv, SessionInv, Coherence, Coherent, Over
  <2>21. ASSUME NEW r \in Requests, ReleasePermit(r) PROVE OutcomeInv'
    BY <2>21 DEF ReleasePermit, Work, GiveBack, IsFirst, Queued, OutcomeInv, SessionInv,
       Coherence, Coherent, Over
  <2>22. ASSUME NEW r \in Requests, Send(r) PROVE OutcomeInv'
    BY <2>22 DEF Send, Work, ReplyFor, OutcomeInv, SessionInv, Coherence, Coherent, Over
  <2>23. ASSUME NEW r \in Requests, Complete(r) PROVE OutcomeInv'
    BY <2>23 DEF Complete, Work, OutcomeInv, SessionInv, Coherence, Coherent, Over
  <2>24. ASSUME NEW r \in Requests, DriverJoin(r) PROVE OutcomeInv'
    BY <2>24 DEF DriverJoin, Drive, CloseSemaphore, Unreaped, OutcomeInv, SessionInv, Coherence,
       Coherent, Over
  <2>25. CASE DriverStart
    BY <2>25 DEF DriverStart, Drive, OutcomeInv, SessionInv, Coherence, Coherent, Over
  <2>26. CASE DriverDrop
    BY <2>26 DEF DriverDrop, Drive, OutcomeInv, SessionInv, Coherence, Coherent, Over
  <2>27. CASE DriverPark
    BY <2>27 DEF DriverPark, Drive, Tracked, Unreaped, OutcomeInv, SessionInv, Coherence,
       Coherent, Over
  <2>28. CASE DriverDone
    BY <2>28 DEF DriverDone, Drive, Tracked, OutcomeInv, SessionInv, Coherence, Coherent, Over
  <2>29. CASE Close
    BY <2>29 DEF Close, ShutAdmission, CloseSemaphore, WakeDriver, OutcomeInv, SessionInv,
       Coherence, Coherent, Over
  <2>30. CASE Tick
    BY <2>30 DEF Tick, Elapse, OutcomeInv, SessionInv, Coherence, Coherent, Over
  <2>31. CASE UNCHANGED vars
    BY <2>31 DEF vars, OutcomeInv, SessionInv, Coherence, Coherent, Over
  <2>32. QED
    BY <2>1, <2>2, <2>3, <2>4, <2>5, <2>6, <2>7, <2>8, <2>9, <2>10, <2>11, <2>12, <2>13, <2>14,
       <2>15, <2>16, <2>17, <2>18, <2>19, <2>20, <2>21, <2>22, <2>23, <2>24, <2>25, <2>26, <2>27,
       <2>28, <2>29, <2>30, <2>31 DEF Next, CallerStep, Cancel, WorkStep, DriverStep
<1>3. QED
  BY <1>1, <1>2, TypeCorrect, CoherenceInvariant, SessionInvariant, PTL DEF Spec

\* A refused request never runs and owns nothing; a caller that has its result
\* no longer occupies a slot.
THEOREM AnswersAreHonest == Spec => []HonestAnswers
<1>1. Coherence /\ OutcomeInv => RejectedNeverRuns
  BY DEF Coherence, Coherent, OutcomeInv, RejectedNeverRuns
<1>2. Coherence /\ OutcomeInv => SlotFreedBeforeReply
  BY DEF Coherence, Coherent, OutcomeInv, SlotFreedBeforeReply, Owners, Counted, Over
<1>3. Coherence /\ OutcomeInv => HonestAnswers
  BY <1>1, <1>2 DEF HonestAnswers
<1>4. QED
  BY <1>3, CoherenceInvariant, OutcomeInvariant, PTL

-----------------------------------------------------------------------------
\* The steps after close.

\* Whoever leaves the queue after close is told "unavailable", or told nothing
\* because it left by itself: the deadline is looked at only while admission is
\* open, so a timer that fires together with the close cannot win.
THEOREM CloseIsAnsweredUnavailable == Spec => OnlyUnavailableAfterClose
<1>1. TypeOK /\ [Next]_vars
      => [\A r \in Requests : ~accepting /\ pc[r] = "waiting" /\ pc'[r] # "waiting"
            => outcome'[r] \in {"unavailable", "cancelled"}]_vars
  <2> SUFFICES ASSUME TypeOK, Next, NEW q \in Requests,
                      ~accepting, pc[q] = "waiting", pc'[q] # "waiting"
               PROVE  outcome'[q] \in {"unavailable", "cancelled"}
    OBVIOUS
  <2>0. pc \in [Requests -> {"idle", "waiting", "admitted", "executing", "done"}]
        /\ outcome \in [Requests -> Outcomes]
    BY DEF TypeOK, CallerTypes
  <2>1. ASSUME NEW r \in Requests, CallerStep(r) PROVE r = q /\ (WaitClosed(r) \/ CancelWaiting(r))
    BY <2>0, <2>1 DEF CallerStep, ArriveClosed, ArriveStart, ArriveFull, ArriveQueue,
       ArriveOverflow, Arrive, Admit, Answer, WaitClosed, WaitExpired, WaitStart, WaitOverflow,
       Wait, Spawn, SpawnRefused, AwaitExpired, AwaitReply, Execute
  <2>2. ASSUME NEW r \in Requests, Cancel(r) PROVE r = q /\ CancelWaiting(r)
    BY <2>0, <2>2 DEF Cancel, CancelWaiting, CancelExecuting, Wait, Execute, Answer
  <2>3. ASSUME NEW r \in Requests, WorkStep(r) PROVE pc' = pc
    BY <2>3 DEF WorkStep, TakeSession, Finish, Panic, PanicClose, DropRunning, ReleasePermit,
       Send, Complete, Work, callerVars
  <2>4. CASE DriverStep
    BY <2>4 DEF DriverStep, DriverStart, DriverDrop, DriverPark, DriverDone, DriverJoin, Drive,
       callerVars
  <2>5. CASE Close \/ Tick
    BY <2>5 DEF Close, Tick, callerVars
  <2>6. ASSUME NEW r \in Requests, r = q, WaitClosed(r) \/ CancelWaiting(r)
        PROVE  outcome'[q] \in {"unavailable", "cancelled"}
    BY <2>0, <2>6 DEF WaitClosed, CancelWaiting, Answer
  <2>7. QED
    BY <2>1, <2>2, <2>3, <2>4, <2>5, <2>6 DEF Next
<1>2. QED
  BY <1>1, TypeCorrect, PTL DEF Spec, OnlyUnavailableAfterClose

\* No task is spawned once admission is closed, although a blocking thread can
\* close it between the two locks of execute.
THEOREM CloseStopsSpawning == Spec => NothingStartsAfterClose
<1>1. TypeOK /\ [Next]_vars
      => [~accepting => \A r \in Requests : task[r] = "none" => task'[r] = "none"]_vars
  <2> SUFFICES ASSUME TypeOK, Next, ~accepting, NEW q \in Requests, task[q] = "none"
               PROVE  task'[q] = "none"
    OBVIOUS
  <2>0. task \in [Requests -> {"none", "spawned", "running", "unwinding", "returned", "counted",
                               "released", "sent", "finished", "joined"}]
    BY DEF TypeOK, WorkTypes
  <2>1. ASSUME NEW r \in Requests, CallerStep(r) \/ Cancel(r) PROVE task' = task
    BY <2>1 DEF CallerStep, ArriveClosed, ArriveStart, ArriveFull, ArriveQueue,
       ArriveOverflow, Arrive, WaitClosed, WaitExpired, WaitStart, WaitOverflow, Wait,
       Spawn, SpawnRefused, AwaitExpired, AwaitReply, Cancel, CancelWaiting, CancelExecuting,
       workVars
  <2>2. ASSUME NEW r \in Requests, WorkStep(r) PROVE task'[q] = "none"
    BY <2>0, <2>2 DEF WorkStep, TakeSession, Finish, Panic, PanicClose, DropRunning,
       ReleasePermit, Send, Complete
  <2>3. CASE DriverStep
    BY <2>0, <2>3 DEF DriverStep, DriverStart, DriverDrop, DriverPark, DriverDone, DriverJoin,
       Unreaped
  <2>4. CASE Close \/ Tick
    BY <2>4 DEF Close, Tick, workVars
  <2>5. QED
    BY <2>1, <2>2, <2>3, <2>4 DEF Next
<1>2. QED
  BY <1>1, TypeCorrect, PTL DEF Spec, NothingStartsAfterClose

----------------------------------------------------------------------------
\* While admission is open a waiter is in the queue of the semaphore or has its
\* permit; once it is closed the queue is empty.  Work that is over has ended in
\* some way, and the channel is dropped only by a panic.
AdmissionInv ==
  /\ \A r \in Requests :
       /\ accepting /\ pc[r] = "waiting" => permit[r] \in {"queued", "granted"}
       /\ task[r] \notin {"none", "spawned", "running"} => ended[r] # "none"
       /\ reply[r] = "dropped" => ended[r] = "panic" /\ task[r] \in Over
       /\ task[r] \in {"none", "spawned", "running"} => ended[r] = "none"
  /\ ~accepting => Queued = {}

\* No step takes a waiter out of the queue of an open service, or leaves one in
\* the queue of a closed one.
LEMMA AdmissionKept ==
  ASSUME TypeOK, Coherence, SessionInv, AdmissionInv, [Next]_vars
  PROVE  AdmissionInv'
<1> USE DEF TypeOK, GaugeTypes, PermitTypes, CallerTypes, WorkTypes, DriverTypes
<1>1. ASSUME NEW r \in Requests, ArriveClosed(r) PROVE AdmissionInv'
  BY <1>1 DEF ArriveClosed, Arrive, Answer, AdmissionInv, Queued, Coherence, Coherent,
     Holding, Over
<1>2. ASSUME NEW r \in Requests, ArriveStart(r) PROVE AdmissionInv'
  BY <1>2 DEF ArriveStart, Arrive, Admit, Queued, AdmissionInv, Coherence, Coherent, Holding,
     Over
<1>3. ASSUME NEW r \in Requests, ArriveFull(r) PROVE AdmissionInv'
  BY <1>3 DEF ArriveFull, Arrive, Answer, AdmissionInv, Queued, Coherence, Coherent, Holding,
     Over
<1>4. ASSUME NEW r \in Requests, ArriveQueue(r) PROVE AdmissionInv'
  BY <1>4 DEF ArriveQueue, Arrive, Queued, AdmissionInv, Coherence, Coherent, Holding, Over
<1>5. ASSUME NEW r \in Requests, ArriveOverflow(r) PROVE AdmissionInv'
  BY <1>5 DEF ArriveOverflow, Arrive, Answer, AdmissionInv, Queued, Coherence, Coherent,
     Holding, Over
<1>6. ASSUME NEW r \in Requests, WaitClosed(r) PROVE AdmissionInv'
  BY <1>6 DEF WaitClosed, Wait, Answer, LeaveQueue, DropAcquire, GiveBack, IsFirst, Queued,
     AdmissionInv, Coherence, Coherent, Holding, Over
<1>7. ASSUME NEW r \in Requests, WaitExpired(r) PROVE AdmissionInv'
  BY <1>7 DEF WaitExpired, Wait, Answer, LeaveQueue, DropAcquire, GiveBack, IsFirst, Queued,
     AdmissionInv, Coherence, Coherent, Holding, Over
<1>8. ASSUME NEW r \in Requests, WaitStart(r) PROVE AdmissionInv'
  BY <1>8 DEF WaitStart, Wait, Admit, AdmissionInv, Queued, Coherence, Coherent, Holding, Over
<1>9. ASSUME NEW r \in Requests, WaitOverflow(r) PROVE AdmissionInv'
  BY <1>9 DEF WaitOverflow, Wait, Answer, LeaveQueue, DropAcquire, GiveBack, IsFirst, Queued,
     AdmissionInv, Coherence, Coherent, Holding, Over
<1>10. ASSUME NEW r \in Requests, CancelWaiting(r) PROVE AdmissionInv'
  BY <1>10 DEF CancelWaiting, Wait, Answer, LeaveQueue, DropAcquire, GiveBack, IsFirst,
     Queued, AdmissionInv, Coherence, Coherent, Holding, Over
<1>11. ASSUME NEW r \in Requests, Spawn(r) PROVE AdmissionInv'
  BY <1>11 DEF Spawn, WakeDriver, AdmissionInv, Queued, Coherence, Coherent, Holding, Over
<1>12. ASSUME NEW r \in Requests, SpawnRefused(r) PROVE AdmissionInv'
  BY <1>12 DEF SpawnRefused, Answer, GiveBack, IsFirst, Queued, AdmissionInv, Coherence,
     Coherent, Holding, Over
<1>13. ASSUME NEW r \in Requests, AwaitExpired(r) PROVE AdmissionInv'
  BY <1>13 DEF AwaitExpired, Execute, Answer, AdmissionInv, Queued, Coherence, Coherent,
     Holding, Over
<1>14. ASSUME NEW r \in Requests, AwaitReply(r) PROVE AdmissionInv'
  BY <1>14 DEF AwaitReply, Execute, Answer, AdmissionInv, Queued, Coherence, Coherent,
     Holding, Over
<1>15. ASSUME NEW r \in Requests, CancelExecuting(r) PROVE AdmissionInv'
  BY <1>15 DEF CancelExecuting, Execute, Answer, AdmissionInv, Queued, Coherence, Coherent,
     Holding, Over
<1>16. ASSUME NEW r \in Requests, TakeSession(r) PROVE AdmissionInv'
  BY <1>16 DEF TakeSession, Work, ShutAdmission, CloseSemaphore, WakeDriver, AdmissionInv,
     Queued, Coherence, Coherent, Holding, Over
<1>17. ASSUME NEW r \in Requests, Finish(r) PROVE AdmissionInv'
  BY <1>17, ResultsAssumption DEF ResultsAssumption, Finish, Work, AdmissionInv, Queued,
     Coherence, Coherent, Holding, Over
<1>18. ASSUME NEW r \in Requests, Panic(r) PROVE AdmissionInv'
  BY <1>18 DEF Panic, Work, AdmissionInv, Queued, Coherence, Coherent, Holding, Over
<1>19. ASSUME NEW r \in Requests, PanicClose(r) PROVE AdmissionInv'
  BY <1>19 DEF PanicClose, Work, ShutAdmission, CloseSemaphore, WakeDriver, AdmissionInv,
     Queued, Coherence, Coherent, Holding, Over
<1>20. ASSUME NEW r \in Requests, DropRunning(r) PROVE AdmissionInv'
  BY <1>20 DEF DropRunning, Work, AdmissionInv, Queued, Coherence, Coherent, Holding, Over
<1>21. ASSUME NEW r \in Requests, ReleasePermit(r) PROVE AdmissionInv'
  BY <1>21 DEF ReleasePermit, Work, GiveBack, IsFirst, Queued, AdmissionInv, Coherence,
     Coherent, Holding, Over
<1>22. ASSUME NEW r \in Requests, Send(r) PROVE AdmissionInv'
  BY <1>22 DEF Send, Work, ReplyFor, AdmissionInv, Queued, Coherence, Coherent, Holding, Over
<1>23. ASSUME NEW r \in Requests, Complete(r) PROVE AdmissionInv'
  BY <1>23 DEF Complete, Work, AdmissionInv, Queued, Coherence, Coherent, Holding, Over
<1>24. ASSUME NEW r \in Requests, DriverJoin(r) PROVE AdmissionInv'
  BY <1>24 DEF DriverJoin, Drive, CloseSemaphore, Unreaped, Tracked, AdmissionInv, Queued,
     Coherence, Coherent, Holding, Over
<1>25. CASE DriverStart
  BY <1>25 DEF DriverStart, Drive, AdmissionInv, Queued, Coherence, Coherent, Holding, Over
<1>26. CASE DriverDrop
  BY <1>26 DEF DriverDrop, Drive, AdmissionInv, Queued, Coherence, Coherent, Holding, Over
<1>27. CASE DriverPark
  BY <1>27 DEF DriverPark, Drive, Tracked, Unreaped, AdmissionInv, Queued, Coherence,
     Coherent, Holding, Over
<1>28. CASE DriverDone
  BY <1>28 DEF DriverDone, Drive, Tracked, Unreaped, AdmissionInv, Queued, Coherence,
     Coherent, Holding, Over
<1>29. CASE Close
  BY <1>29 DEF Close, ShutAdmission, CloseSemaphore, WakeDriver, AdmissionInv, Queued,
     Coherence, Coherent, Holding, Over
<1>30. CASE Tick
  BY <1>30 DEF Tick, Elapse, AdmissionInv, Queued, Coherence, Coherent, Holding, Over
<1>31. CASE UNCHANGED vars
  BY <1>31 DEF vars, AdmissionInv, Queued, Coherence, Coherent, Holding, Over
<1>32. QED
  BY <1>1, <1>2, <1>3, <1>4, <1>5, <1>6, <1>7, <1>8, <1>9, <1>10, <1>11, <1>12, <1>13, <1>14,
     <1>15, <1>16, <1>17, <1>18, <1>19, <1>20, <1>21, <1>22, <1>23, <1>24, <1>25, <1>26, <1>27,
     <1>28, <1>29, <1>30, <1>31 DEF Next, CallerStep, Cancel, WorkStep, DriverStep

-----------------------------------------------------------------------------
\* The mapping.
Mapped ==
  /\ TypeOK /\ Coherence
  /\ PermitInv /\ GaugeInv /\ QueueInv
  /\ LostInv /\ SessionInv /\ OutcomeInv /\ AdmissionInv

PlaceMeans ==
  \A r \in Requests :
    /\ Place(r) \in {"new", "queued", "assigned", "working", "out"}
    /\ Place(r) = "new" <=> pc[r] = "idle"
    /\ Place(r) = "queued" <=> pc[r] = "waiting" /\ permit[r] # "granted"
    /\ Place(r) = "assigned" <=> permit[r] = "granted" \/ pc[r] = "admitted"
    /\ Place(r) = "working" <=> permit[r] = "held" /\ pc[r] # "admitted"
    /\ Place(r) = "out" <=> pc[r] \in {"executing", "done"} /\ permit[r] = "none"

\* The cases of Place exclude each other, as caller, permit and task agree.
LEMMA PlaceMeaning == TypeOK /\ Coherence => PlaceMeans
<1> SUFFICES ASSUME TypeOK, Coherence, NEW r \in Requests
             PROVE  /\ Place(r) \in {"new", "queued", "assigned", "working", "out"}
                    /\ Place(r) = "new" <=> pc[r] = "idle"
                    /\ Place(r) = "queued" <=> pc[r] = "waiting" /\ permit[r] # "granted"
                    /\ Place(r) = "assigned" <=> permit[r] = "granted" \/ pc[r] = "admitted"
                    /\ Place(r) = "working" <=> permit[r] = "held" /\ pc[r] # "admitted"
                    /\ Place(r) = "out" <=> pc[r] \in {"executing", "done"} /\ permit[r] = "none"
  BY DEF PlaceMeans
<1>1. /\ pc[r] \in {"idle", "waiting", "admitted", "executing", "done"}
      /\ permit[r] \in {"none", "queued", "granted", "held"}
      /\ task[r] \in {"none"} \cup Holding \cup Over
  BY DEF TypeOK, CallerTypes, PermitTypes, WorkTypes, Holding, Over
<1>2. /\ permit[r] \in {"granted", "queued"} => pc[r] = "waiting"
      /\ pc[r] = "admitted" => permit[r] = "held"
      /\ pc[r] = "idle" => permit[r] = "none"
      /\ pc[r] = "waiting" => permit[r] # "held"
  BY <1>1 DEF Coherence, Coherent
<1>3. QED
  BY <1>1, <1>2 DEF Place

\* The same of the state after a step.
LEMMA PlaceMeaningNext == TypeOK' /\ Coherence' => PlaceMeans'
BY PlaceMeaning, PTL

\* Both modules count with the Cardinality of FiniteSets.
LEMMA SameCardinality == \A S : Abstract!Cardinality(S) = Cardinality(S)
BY DEF Cardinality, Abstract!Cardinality

\* What the guards of Admission count is what the scheduler counts.
LEMMA CountedAlike ==
  ASSUME Mapped
  PROVE  /\ Abstract!Busy = Owners
         /\ Abstract!InQueue \in SUBSET Waiters
         /\ AsyncIdle => Abstract!InQueue \cup Abstract!At("assigned") = Waiters
         /\ accepting => Abstract!InQueue = Queued
<1>1. PlaceMeans
  BY PlaceMeaning DEF Mapped
<1> USE DEF Abstract!Busy, Abstract!InQueue, Abstract!At
<1>2. Abstract!Busy = Owners
  BY <1>1 DEF PlaceMeans, Owners, Mapped, Coherence, Coherent
<1>3. Abstract!InQueue \in SUBSET Waiters
  BY <1>1 DEF PlaceMeans, Waiters
<1>4. ASSUME AsyncIdle PROVE Abstract!InQueue \cup Abstract!At("assigned") = Waiters
  <2>1. \A r \in Requests : permit[r] = "granted" => pc[r] = "waiting"
    BY DEF Mapped, TypeOK, CallerTypes, PermitTypes, WorkTypes, Coherence, Coherent, Holding, Over
  <2>2. QED
    BY <1>1, <1>4, <2>1 DEF PlaceMeans, Waiters, AsyncIdle
<1>5. ASSUME accepting PROVE Abstract!InQueue = Queued
  <2>1. \A r \in Requests : permit[r] = "queued" => pc[r] = "waiting"
    BY DEF Mapped, TypeOK, CallerTypes, PermitTypes, WorkTypes, Coherence, Coherent, Holding, Over
  <2>2. QED
    BY <1>1, <1>5, <2>1 DEF PlaceMeans, Queued, Mapped, AdmissionInv
<1>6. QED
  BY <1>2, <1>3, <1>4, <1>5

-----------------------------------------------------------------------------
\* What a step looks like through the mapping.

\* A step that moves no request changes nothing of the abstract service.
LEMMA Unseen ==
  ASSUME Mapped, accepting' = accepting, outcome' = outcome, ahead' = ahead,
         \A r \in Requests : Place(r)' = Place(r)
  PROVE  UNCHANGED Abstract!vars
BY DEF Abstract!vars, Mapped, TypeOK, PermitTypes

\* Closing admission is one step of the abstract service the first time, and none
\* later: the queue the semaphore has emptied is still there for it.
LEMMA ShutSeen ==
  ASSUME Mapped, accepting' = FALSE, CloseSemaphore, pc' = pc, ahead' = ahead, outcome' = outcome
  PROVE  Abstract!Shut \/ UNCHANGED Abstract!vars
<1>1. CASE accepting
  <2>1. \A r \in Requests : Place(r)' = Place(r)
    BY DEF Place, CloseSemaphore, Mapped, TypeOK, CallerTypes, PermitTypes, WorkTypes, Coherence,
       Coherent, Holding, Over
  <2>2. QED
    BY <1>1, <2>1 DEF Abstract!Shut, Mapped, TypeOK, PermitTypes
<1>2. CASE ~accepting
  <2>1. permit' = permit
    BY <1>2 DEF CloseSemaphore, Mapped, AdmissionInv, Queued, TypeOK, PermitTypes
  <2>2. \A r \in Requests : Place(r)' = Place(r)
    BY <2>1 DEF Place
  <2>3. QED
    BY <1>2, <2>2, Unseen DEF Mapped, TypeOK, GaugeTypes
<1>3. QED
  BY <1>1, <1>2

\* A permit given back passes the slot to the request that has waited longest.
LEMMA GiveBackSeen ==
  ASSUME Mapped, NEW r \in Owners, GiveBack(r), accepting' = accepting,
         pc' \in [Requests -> {"idle", "waiting", "admitted", "executing", "done"}],
         pc'[r] \in {"executing", "done"},
         \A s \in Requests \ {r} : pc'[s] = pc[s]
  PROVE  Abstract!Handoff(r)
<1>1. PlaceMeans
  BY PlaceMeaning DEF Mapped
<1>2. CASE Queued = {}
  <2>1. accepting => Abstract!InQueue = {}
    BY <1>2, CountedAlike
  <2>2. /\ permit' = [permit EXCEPT ![r] = "none"]
        /\ ahead' = [ahead EXCEPT ![r] = {}]
    BY <1>2 DEF GiveBack
  <2>3. Place(r)' = "out" /\ \A s \in Requests \ {r} : Place(s)' = Place(s)
    <3>1. permit'[r] = "none" /\ \A s \in Requests \ {r} : permit'[s] = permit[s]
      BY <2>2 DEF Mapped, TypeOK, PermitTypes, Owners
    <3>2. Place(r)' = "out"
      BY <3>1 DEF Place
    <3>3. ASSUME NEW s \in Requests \ {r} PROVE Place(s)' = Place(s)
      BY <3>1 DEF Place
    <3>4. QED
      BY <3>2, <3>3
  <2>4. Place(r) # "queued"
    BY <1>1 DEF PlaceMeans, Owners, Mapped, Coherence, Coherent
  <2>5. QED
    BY <2>1, <2>2, <2>3, <2>4 DEF Abstract!Handoff, Owners, Mapped, TypeOK, PermitTypes
<1>3. CASE Queued # {}
  <2>1. accepting
    BY <1>3 DEF Mapped, AdmissionInv
  <2>2. Abstract!InQueue = Queued
    BY <2>1, CountedAlike
  <2>3. PICK q \in Requests : /\ IsFirst(q)
                              /\ permit' = [permit EXCEPT ![r] = "none", ![q] = "granted"]
    BY <1>3 DEF GiveBack
  <2>4. ahead' = [ahead EXCEPT ![r] = {}]
    BY <1>3 DEF GiveBack
  <2>5. q # r /\ q \in Queued
    BY <2>3 DEF IsFirst, Queued, Owners
  <2>6. /\ Place(r)' = "out"
        /\ Place(q)' = "assigned"
        /\ \A s \in Requests \ {r, q} : Place(s)' = Place(s)
    <3>1. /\ permit'[r] = "none" /\ permit'[q] = "granted"
          /\ \A s \in Requests \ {r, q} : permit'[s] = permit[s]
      BY <2>3, <2>5 DEF Mapped, TypeOK, PermitTypes, Owners, Queued
    <3>2. Place(r)' = "out"
      BY <3>1 DEF Place
    <3>3. pc'[q] = "waiting"
      BY <2>5 DEF Queued, Mapped, TypeOK, CallerTypes, PermitTypes, WorkTypes, Coherence, Coherent,
         Holding, Over
    <3>4. Place(q)' = "assigned"
      BY <3>1, <3>3 DEF Place
    <3>5. ASSUME NEW s \in Requests \ {r, q} PROVE Place(s)' = Place(s)
      BY <3>1 DEF Place
    <3>6. QED
      BY <3>2, <3>4, <3>5
  <2>7. Place(r) # "queued"
    BY <1>1 DEF PlaceMeans, Owners, Mapped, Coherence, Coherent
  <2>8. {p \in ahead[q] : Place(p) = "queued"} = {}
    BY <2>2, <2>3 DEF IsFirst, Mapped, TypeOK, PermitTypes, Abstract!InQueue, Abstract!At
  <2>9. QED
    BY <2>1, <2>2, <2>4, <2>5, <2>6, <2>7, <2>8
       DEF Abstract!Handoff, Abstract!Gone, Owners, Queued, Mapped, TypeOK, PermitTypes
<1>4. QED
  BY <1>2, <1>3

\* A waiter that gives up leaves the abstract queue, or yields the slot it had.
LEMMA LeaveSeen ==
  ASSUME Mapped, Coherence', TypeOK', NEW r \in Requests, Wait(r), DropAcquire(r),
         NEW o \in {"queue_timeout", "unavailable", "cancelled"}, Answer(r, o),
         o = "queue_timeout" => accepting,
         o = "unavailable" /\ accepting => permit[r] = "granted"
  PROVE  Abstract!Leave(r) \/ Abstract!Yield(r)
<1>1. PlaceMeans /\ PlaceMeans'
  BY PlaceMeaning, PlaceMeaningNext DEF Mapped
<1>2. /\ outcome[r] = "none"
      /\ outcome' = [outcome EXCEPT ![r] = o]
      /\ pc' = [pc EXCEPT ![r] = "done"]
  BY DEF Wait, Answer, Mapped, OutcomeInv
<1>3. Abstract!GiveUp(r)
  BY <1>2 DEF Abstract!GiveUp, Abstract!Say
<1>4. CASE permit[r] = "granted"
  <2>1. Abstract!Handoff(r)
    BY <1>2, <1>4, GiveBackSeen DEF DropAcquire, Owners, Wait, Mapped, TypeOK, CallerTypes
  <2>2. Place(r) = "assigned"
    BY <1>1, <1>4 DEF PlaceMeans
  <2>3. QED
    BY <1>3, <2>1, <2>2 DEF Abstract!Yield, Wait
<1>5. CASE permit[r] # "granted"
  <2>1. /\ permit' = [permit EXCEPT ![r] = "none"]
        /\ ahead' = [ahead EXCEPT ![r] = {}]
    BY <1>5 DEF DropAcquire
  <2>2. Place(r) = "queued" /\ Place(r)' = "out"
    BY <1>1, <1>2, <1>5, <2>1 DEF PlaceMeans, Wait, Mapped, TypeOK, PermitTypes, CallerTypes
  <2>3. ASSUME NEW s \in Requests \ {r} PROVE Place(s)' = Place(s)
    BY <1>2, <2>1 DEF Place, Mapped, TypeOK, PermitTypes, CallerTypes
  <2>4. accepting => outcome'[r] # "unavailable"
    BY <1>2, <1>5 DEF Mapped, TypeOK, CallerTypes
  <2>5. ahead \in [Requests -> SUBSET Requests] /\ accepting' = accepting
    BY DEF Wait, Mapped, TypeOK, PermitTypes
  <2>6. ASSUME NEW s \in Requests \ {r}, Place(s) = "queued"
        PROVE  {q \in ahead'[s] : Place(q)' = "queued"}
                 = {q \in ahead[s] : Place(q) = "queued"} \ {r}
    BY <2>1, <2>2, <2>3, <2>5
  <2>7. [s \in Requests |-> IF Place(s)' = "queued"
                            THEN {q \in ahead'[s] : Place(q)' = "queued"} ELSE {}]
          = Abstract!Gone(r)
    BY <2>2, <2>3, <2>6 DEF Abstract!Gone
  <2>8. [s \in Requests |-> Place(s)'] = [[s \in Requests |-> Place(s)] EXCEPT ![r] = "out"]
    BY <2>2, <2>3
  <2>9. QED
    BY <1>3, <2>2, <2>4, <2>5, <2>7, <2>8 DEF Abstract!Leave
<1>6. QED
  BY <1>4, <1>5

\* A request turned away by its first poll is refused by the abstract service, and
\* for a full queue only when its slots and its queue are full.
LEMMA RefuseSeen ==
  ASSUME Mapped, NEW r \in Requests, Arrive(r), UNCHANGED permitVars,
         NEW o \in {"unavailable", "queue_full"}, Answer(r, o),
         o = "queue_full" => accepting /\ free = 0 /\ waiting = Capacity
  PROVE  Abstract!Refuse(r)
<1>1. PlaceMeans
  BY PlaceMeaning DEF Mapped
<1>2. /\ outcome[r] = "none"
      /\ outcome' = [outcome EXCEPT ![r] = o]
      /\ pc' = [pc EXCEPT ![r] = "done"]
      /\ permit[r] = "none"
  BY DEF Arrive, Answer, Mapped, OutcomeInv, Coherence, Coherent
<1>3. Place(r) = "new" /\ Place(r)' = "out"
  <2>1. pc'[r] = "done" /\ permit'[r] = "none"
    BY <1>2 DEF Mapped, TypeOK, CallerTypes
  <2>2. Place(r)' = "out"
    BY <2>1 DEF Place
  <2>3. QED
    BY <1>1, <2>2 DEF PlaceMeans, Arrive
<1>4. ASSUME NEW s \in Requests \ {r} PROVE Place(s)' = Place(s)
  BY <1>2 DEF Place, Mapped, TypeOK, CallerTypes
<1>5. /\ [s \in Requests |-> Place(s)'] = [[s \in Requests |-> Place(s)] EXCEPT ![r] = "out"]
      /\ ahead' = ahead /\ accepting' = accepting
  BY <1>3, <1>4 DEF Arrive
<1>6. ASSUME NEW s \in Requests
      PROVE  (IF Place(s)' = "queued" THEN {q \in ahead'[s] : Place(q)' = "queued"} ELSE {})
               = IF Place(s) = "queued" THEN {q \in ahead[s] : Place(q) = "queued"} ELSE {}
  <2>1. ahead[s] \in SUBSET Requests
    BY DEF Mapped, TypeOK, PermitTypes
  <2>2. \A q \in Requests : Place(q)' = "queued" <=> Place(q) = "queued"
    BY <1>3, <1>4
  <2>3. QED
    BY <1>5, <2>1, <2>2
<1>7. /\ [s \in Requests |-> IF Place(s)' = "queued"
                             THEN {q \in ahead'[s] : Place(q)' = "queued"} ELSE {}]
           = [s \in Requests |-> IF Place(s) = "queued"
                                THEN {q \in ahead[s] : Place(q) = "queued"} ELSE {}]
      /\ Abstract!Say(r, o)
  BY <1>2, <1>6 DEF Abstract!Say
<1>8. CASE o = "unavailable"
  BY <1>3, <1>5, <1>7, <1>8 DEF Abstract!Refuse
<1>9. CASE o = "queue_full"
  <2>0. accepting /\ free = 0 /\ waiting = Capacity
    BY <1>9
  <2>1. Cardinality(Abstract!Busy) = Slots
    BY <2>0, CountedAlike, FS_CardinalityType, SlotsAssumption
       DEF Mapped, PermitInv, PermitsConserved, SlotsAssumption
  <2>2. Cardinality(Abstract!InQueue \cup Abstract!At("assigned")) = Capacity
    BY <2>0, CountedAlike DEF Arrive, Mapped, GaugeInv, GaugesExact
  <2>3. Cardinality(Abstract!InQueue \cup Abstract!At("assigned")) >= Capacity
    BY <2>2, CapacityAssumption DEF CapacityAssumption
  <2>4. QED
    BY <1>3, <1>5, <1>7, <1>9, <2>0, <2>1, <2>3, SameCardinality
       DEF Abstract!Refuse
<1>10. QED
  BY <1>8, <1>9

\* A free slot means that nobody queues: the newcomer overtakes no one.
LEMMA StartSeen ==
  ASSUME Mapped, NEW r \in Requests, ArriveStart(r)
  PROVE  Abstract!Start(r)
<1>1. PlaceMeans
  BY PlaceMeaning DEF Mapped
<1>2. /\ Abstract!InQueue = {}
      /\ Cardinality(Abstract!Busy) < Slots
  <2>1. Queued = {}
    BY DEF ArriveStart, Mapped, QueueInv, NoIdleSlot, TypeOK, PermitTypes
  <2>2. Cardinality(Owners) \in Nat /\ free \in Nat /\ free > 0
    BY FS_CardinalityType DEF ArriveStart, Mapped, PermitInv, TypeOK, PermitTypes
  <2>3. Cardinality(Owners) < Slots
    BY <2>2, SlotsAssumption DEF Mapped, PermitInv, PermitsConserved, SlotsAssumption
  <2>4. QED
    BY <2>1, <2>3, CountedAlike DEF ArriveStart
<1>3. /\ pc' = [pc EXCEPT ![r] = "admitted"]
      /\ permit' = [permit EXCEPT ![r] = "held"]
      /\ ahead' = [ahead EXCEPT ![r] = Queued]
  BY DEF ArriveStart, Admit
<1>4. Place(r) = "new" /\ Place(r)' = "assigned"
  <2>1. pc'[r] = "admitted" /\ permit'[r] = "held"
    BY <1>3 DEF Mapped, TypeOK, CallerTypes, PermitTypes
  <2>2. Place(r)' = "assigned"
    BY <2>1 DEF Place
  <2>3. QED
    BY <1>1, <2>2 DEF PlaceMeans, ArriveStart, Arrive
<1>5. ASSUME NEW s \in Requests \ {r} PROVE Place(s)' = Place(s) /\ ahead'[s] = ahead[s]
  BY <1>3 DEF Place, Mapped, TypeOK, CallerTypes, PermitTypes
<1>6. [s \in Requests |-> Place(s)'] = [[s \in Requests |-> Place(s)] EXCEPT ![r] = "assigned"]
  BY <1>4, <1>5
<1>7. ASSUME NEW s \in Requests
      PROVE  (IF Place(s)' = "queued" THEN {q \in ahead'[s] : Place(q)' = "queued"} ELSE {})
               = IF Place(s) = "queued" THEN {q \in ahead[s] : Place(q) = "queued"} ELSE {}
  <2>1. ahead[s] \in SUBSET Requests
    BY DEF Mapped, TypeOK, PermitTypes
  <2>2. \A q \in Requests : Place(q)' = "queued" <=> Place(q) = "queued"
    BY <1>4, <1>5
  <2>3. QED
    BY <1>4, <1>5, <2>1, <2>2
<1>8. [s \in Requests |-> IF Place(s)' = "queued"
                             THEN {q \in ahead'[s] : Place(q)' = "queued"} ELSE {}]
           = [s \in Requests |-> IF Place(s) = "queued"
                                THEN {q \in ahead[s] : Place(q) = "queued"} ELSE {}]
  BY <1>7
<1>9. QED
  BY <1>2, <1>4, <1>6, <1>8, SameCardinality
     DEF Abstract!Start, ArriveStart, Arrive, Admit

\* A request that queues has everybody in the queue before it, and nobody after it.
LEMMA EnterSeen ==
  ASSUME Mapped, NEW r \in Requests, ArriveQueue(r)
  PROVE  Abstract!Enter(r)
<1>1. PlaceMeans
  BY PlaceMeaning DEF Mapped
<1>2. Cardinality(Abstract!Busy) = Slots
  BY CountedAlike, FS_CardinalityType, SlotsAssumption
     DEF ArriveQueue, Mapped, PermitInv, PermitsConserved, SlotsAssumption
<1>3. Cardinality(Abstract!InQueue) < Capacity
  <2>1. IsFiniteSet(Waiters) /\ Cardinality(Waiters) = waiting
    BY DEF Mapped, GaugeInv, GaugesExact
  <2>2. /\ IsFiniteSet(Abstract!InQueue)
        /\ Cardinality(Abstract!InQueue) <= Cardinality(Waiters)
    BY <2>1, CountedAlike, FS_Subset
  <2>3. /\ Cardinality(Abstract!InQueue) \in Nat /\ Cardinality(Waiters) \in Nat
        /\ Cardinality(Waiters) < Capacity
    BY <2>1, <2>2, FS_CardinalityType, CapacityAssumption
       DEF ArriveQueue, Mapped, GaugeInv, CapacityAssumption
  <2>4. QED
    BY <2>2, <2>3, CapacityAssumption DEF CapacityAssumption
<1>4. /\ pc' = [pc EXCEPT ![r] = "waiting"]
      /\ permit' = [permit EXCEPT ![r] = "queued"]
      /\ ahead' = [ahead EXCEPT ![r] = Queued]
  BY DEF ArriveQueue
<1>5. Place(r) = "new" /\ Place(r)' = "queued"
  <2>1. pc'[r] = "waiting" /\ permit'[r] = "queued"
    BY <1>4 DEF Mapped, TypeOK, CallerTypes, PermitTypes
  <2>2. Place(r)' = "queued"
    BY <2>1 DEF Place
  <2>3. QED
    BY <1>1, <2>2 DEF PlaceMeans, ArriveQueue, Arrive
<1>6. ASSUME NEW s \in Requests \ {r} PROVE Place(s)' = Place(s) /\ ahead'[s] = ahead[s]
  BY <1>4 DEF Place, Mapped, TypeOK, CallerTypes, PermitTypes
<1>7. [s \in Requests |-> Place(s)'] = [[s \in Requests |-> Place(s)] EXCEPT ![r] = "queued"]
  BY <1>5, <1>6
<1>8. {q \in ahead'[r] : Place(q)' = "queued"} = Abstract!InQueue
  <2>1. Abstract!InQueue = Queued
    BY CountedAlike DEF ArriveQueue
  <2>2. ahead'[r] = Queued /\ r \notin Queued
    BY <1>4 DEF Queued, ArriveQueue, Arrive, Mapped, TypeOK, PermitTypes, Coherence, Coherent
  <2>3. \A q \in Queued : Place(q)' = "queued"
    BY <1>6, <2>1, <2>2 DEF Abstract!InQueue, Abstract!At, Queued
  <2>4. QED
    BY <2>1, <2>2, <2>3
<1>9. ASSUME NEW s \in Requests \ {r}
      PROVE  (IF Place(s)' = "queued" THEN {q \in ahead'[s] : Place(q)' = "queued"} ELSE {})
               = IF Place(s) = "queued" THEN {q \in ahead[s] : Place(q) = "queued"} ELSE {}
  <2>1. ahead[s] \in SUBSET (Requests \ {r})
    BY DEF ArriveQueue, Arrive, Mapped, TypeOK, PermitTypes, QueueInv
  <2>2. \A q \in Requests \ {r} : Place(q)' = Place(q)
    BY <1>6
  <2>3. QED
    BY <1>6, <2>1, <2>2
<1>10. [s \in Requests |-> IF Place(s)' = "queued"
                          THEN {q \in ahead'[s] : Place(q)' = "queued"} ELSE {}]
         = [[s \in Requests |-> IF Place(s) = "queued"
                               THEN {q \in ahead[s] : Place(q) = "queued"} ELSE {}]
              EXCEPT ![r] = Abstract!InQueue]
  BY <1>5, <1>8, <1>9
<1>11. QED
  BY <1>2, <1>3, <1>5, <1>7, <1>10, SameCardinality
     DEF Abstract!Enter, ArriveQueue, Arrive

\* A caller that stops waiting moves nothing: what it is told fits where its slot is.
LEMMA TellSeen ==
  ASSUME Mapped, NEW r \in Requests, Execute(r), UNCHANGED <<accepting, permitVars>>,
         NEW o, Answer(r, o),
         \/ o \in {"inference_timeout", "cancelled"}
         \/ permit[r] = "none" /\ o \in {"ok", "inference"}
         \/ permit[r] = "none" /\ o = "task_failed" /\ ~accepting
  PROVE  Abstract!Tell(r)
<1>1. PlaceMeans
  BY PlaceMeaning DEF Mapped
<1>2. /\ outcome[r] = "none"
      /\ outcome' = [outcome EXCEPT ![r] = o]
      /\ pc' = [pc EXCEPT ![r] = "done"] /\ pc[r] = "executing"
  BY DEF Execute, Answer, Mapped, OutcomeInv
<1>3. permit[r] \in {"none", "held"}
  BY <1>2 DEF Mapped, TypeOK, WorkTypes, Coherence, Coherent, Holding, Over
<1>4. Place(r) = (IF permit[r] = "held" THEN "working" ELSE "out")
  BY <1>1, <1>2, <1>3 DEF PlaceMeans
<1>5. ASSUME NEW s \in Requests PROVE Place(s)' = Place(s)
  <2>1. CASE s = r
    BY <1>2, <1>3, <2>1 DEF Place, Mapped, TypeOK, CallerTypes
  <2>2. CASE s # r
    BY <1>2, <2>2 DEF Place, Mapped, TypeOK, CallerTypes
  <2>3. QED
    BY <2>1, <2>2
<1>6. Abstract!Say(r, o)
  BY <1>2 DEF Abstract!Say
<1>7. UNCHANGED <<accepting, [s \in Requests |-> Place(s)],
                  [s \in Requests |-> IF Place(s) = "queued"
                                      THEN {q \in ahead[s] : Place(q) = "queued"} ELSE {}]>>
  BY <1>5 DEF Mapped, TypeOK, PermitTypes
<1>8. QED
  BY <1>3, <1>4, <1>6, <1>7 DEF Abstract!Tell

\* The slot of a request that is still held by its work goes on.
LEMMA EndSeen ==
  ASSUME Mapped, NEW r \in Requests, ReleasePermit(r)
  PROVE  Abstract!End(r)
<1>1. PlaceMeans
  BY PlaceMeaning DEF Mapped
<1>2. permit[r] = "held" /\ pc[r] \in {"executing", "done"} /\ r \in Owners
  BY DEF ReleasePermit, Owners, Mapped, TypeOK, CallerTypes, Coherence, Coherent, Holding
<1>3. Abstract!Handoff(r)
  BY <1>2, GiveBackSeen DEF ReleasePermit, Work, Mapped, TypeOK, CallerTypes
<1>4. QED
  BY <1>1, <1>2, <1>3 DEF Abstract!End, PlaceMeans, ReleasePermit, Work

\* A request refused between its slot and its task yields the slot.
LEMMA SpawnRefusedSeen ==
  ASSUME Mapped, NEW r \in Requests, SpawnRefused(r)
  PROVE  Abstract!Yield(r)
<1>1. PlaceMeans
  BY PlaceMeaning DEF Mapped
<1>2. /\ outcome[r] = "none"
      /\ outcome' = [outcome EXCEPT ![r] = "unavailable"]
      /\ pc' = [pc EXCEPT ![r] = "done"]
      /\ r \in Owners
  BY DEF SpawnRefused, Answer, Mapped, OutcomeInv, Coherence, Coherent, Owners
<1>3. Abstract!Handoff(r)
  BY <1>2, GiveBackSeen DEF SpawnRefused, Mapped, TypeOK, CallerTypes
<1>4. Abstract!GiveUp(r)
  BY <1>2 DEF Abstract!GiveUp, Abstract!Say
<1>5. QED
  BY <1>1, <1>3, <1>4 DEF Abstract!Yield, PlaceMeans, SpawnRefused

\* The task is spawned: the abstract request begins to work.
LEMMA BeginSeen ==
  ASSUME Mapped, NEW r \in Requests, Spawn(r)
  PROVE  Abstract!Begin(r)
<1>1. PlaceMeans
  BY PlaceMeaning DEF Mapped
<1>2. /\ pc' = [pc EXCEPT ![r] = "executing"]
      /\ permit[r] = "held" /\ permit' = permit /\ ahead' = ahead /\ accepting' = accepting
      /\ outcome' = outcome
  BY DEF Spawn, Mapped, Coherence, Coherent
<1>3. Place(r) = "assigned" /\ Place(r)' = "working"
  <2>1. pc'[r] = "executing"
    BY <1>2 DEF Mapped, TypeOK, CallerTypes
  <2>2. Place(r)' = "working"
    BY <1>2, <2>1 DEF Place
  <2>3. QED
    BY <1>1, <2>2 DEF PlaceMeans, Spawn
<1>4. ASSUME NEW s \in Requests \ {r} PROVE Place(s)' = Place(s)
  BY <1>2 DEF Place, Mapped, TypeOK, CallerTypes
<1>5. [s \in Requests |-> Place(s)'] = [[s \in Requests |-> Place(s)] EXCEPT ![r] = "working"]
  BY <1>3, <1>4
<1>6. UNCHANGED [s \in Requests |-> IF Place(s) = "queued"
                                  THEN {q \in ahead[s] : Place(q) = "queued"} ELSE {}]
  <2>1. \A q \in Requests : Place(q)' = "queued" <=> Place(q) = "queued"
    BY <1>3, <1>4
  <2>2. QED
    BY <1>2, <2>1 DEF Mapped, TypeOK, PermitTypes
<1>7. QED
  BY <1>2, <1>3, <1>5, <1>6 DEF Abstract!Begin, Spawn

-----------------------------------------------------------------------------
\* Every step of the scheduler is a step of the abstract service, or none.
LEMMA StepSeen ==
  ASSUME Mapped, TypeOK', Coherence', [Next]_vars
  PROVE  Abstract!Next \/ UNCHANGED Abstract!vars
<1> DEFINE Simulated == Abstract!Next \/ UNCHANGED Abstract!vars
<1>1. ASSUME NEW r \in Requests, ArriveClosed(r) \/ ArriveOverflow(r) \/ ArriveFull(r)
      PROVE  Simulated
  <2>1. Abstract!Refuse(r)
    BY <1>1, RefuseSeen DEF ArriveClosed, ArriveOverflow, ArriveFull
  <2>2. QED
    BY <2>1 DEF Abstract!Next
<1>2. ASSUME NEW r \in Requests, ArriveStart(r) PROVE Simulated
  BY <1>2, StartSeen DEF Abstract!Next
<1>3. ASSUME NEW r \in Requests, ArriveQueue(r) PROVE Simulated
  BY <1>3, EnterSeen DEF Abstract!Next
<1>4. ASSUME NEW r \in Requests,
             WaitClosed(r) \/ WaitExpired(r) \/ WaitOverflow(r) \/ CancelWaiting(r)
      PROVE  Simulated
  <2>1. Abstract!Leave(r) \/ Abstract!Yield(r)
    BY <1>4, LeaveSeen DEF WaitClosed, WaitExpired, WaitOverflow, CancelWaiting, LeaveQueue
  <2>2. QED
    BY <2>1 DEF Abstract!Next
<1>5. ASSUME NEW r \in Requests, WaitStart(r) PROVE Simulated
  <2>1. /\ pc' = [pc EXCEPT ![r] = "admitted"] /\ pc[r] = "waiting"
        /\ permit' = [permit EXCEPT ![r] = "held"] /\ permit[r] = "granted"
        /\ accepting' = accepting /\ outcome' = outcome /\ ahead' = ahead
    BY <1>5 DEF WaitStart, Wait, Admit
  <2>2. ASSUME NEW s \in Requests PROVE Place(s)' = Place(s)
    <3>1. CASE s = r
      BY <2>1, <3>1 DEF Place, Mapped, TypeOK, CallerTypes, PermitTypes
    <3>2. CASE s # r
      BY <2>1, <3>2 DEF Place, Mapped, TypeOK, CallerTypes, PermitTypes
    <3>3. QED
      BY <3>1, <3>2
  <2>3. QED
    BY <2>1, <2>2, Unseen
<1>6. ASSUME NEW r \in Requests, Spawn(r) PROVE Simulated
  BY <1>6, BeginSeen DEF Abstract!Next
<1>7. ASSUME NEW r \in Requests, SpawnRefused(r) PROVE Simulated
  BY <1>7, SpawnRefusedSeen DEF Abstract!Next
<1>8. ASSUME NEW r \in Requests, AwaitExpired(r) \/ CancelExecuting(r) PROVE Simulated
  <2>1. Abstract!Tell(r)
    BY <1>8, TellSeen DEF AwaitExpired, CancelExecuting
  <2>2. QED
    BY <2>1 DEF Abstract!Next
<1>9. ASSUME NEW r \in Requests, AwaitReply(r) PROVE Simulated
  <2>1. task[r] \in Over /\ reply[r] \in {"ok", "inference", "dropped"}
    BY <1>9 DEF AwaitReply, Mapped, OutcomeInv, TypeOK, WorkTypes
  <2>2. permit[r] = "none"
    BY <2>1 DEF Mapped, Coherence, Coherent
  <2>3. reply[r] = "dropped" => ~accepting
    BY <2>1 DEF Mapped, AdmissionInv, LostInv, Over
  <2>4. Abstract!Tell(r)
    BY <1>9, <2>1, <2>2, <2>3, TellSeen DEF AwaitReply
  <2>5. QED
    BY <2>4 DEF Abstract!Next
<1>10. ASSUME NEW r \in Requests, TakeSession(r) PROVE Simulated
  <2>1. sessions > 0
    BY <1>10, SessionLeft DEF TakeSession, Mapped
  <2>2. UNCHANGED <<accepting, permit, pc, ahead, outcome>>
    BY <1>10, <2>1 DEF TakeSession, Work
  <2>3. QED
    BY <2>2, Unseen DEF Place
<1>11. ASSUME NEW r \in Requests,
              Finish(r) \/ Panic(r) \/ DropRunning(r) \/ Send(r) \/ Complete(r)
       PROVE  Simulated
  <2>1. UNCHANGED <<accepting, permit, pc, ahead, outcome>>
    BY <1>11 DEF Finish, Panic, DropRunning, Send, Complete, Work
  <2>2. QED
    BY <2>1, Unseen DEF Place
<1>12. ASSUME NEW r \in Requests, PanicClose(r) PROVE Simulated
  BY <1>12, ShutSeen DEF PanicClose, Work, ShutAdmission, Abstract!Next
<1>13. ASSUME NEW r \in Requests, ReleasePermit(r) PROVE Simulated
  BY <1>13, EndSeen DEF Abstract!Next
<1>14. ASSUME NEW r \in Requests, DriverJoin(r) PROVE Simulated
  <2>1. CASE ended[r] = "panic"
    BY <1>14, <2>1, ShutSeen DEF DriverJoin, Drive, Abstract!Next
  <2>2. CASE ended[r] # "panic"
    <3>1. UNCHANGED <<accepting, permit, pc, ahead, outcome>>
      BY <1>14, <2>2 DEF DriverJoin, Drive
    <3>2. QED
      BY <3>1, Unseen DEF Place
  <2>3. QED
    BY <2>1, <2>2
<1>15. CASE DriverStart \/ DriverDrop \/ DriverPark \/ DriverDone \/ Tick \/ UNCHANGED vars
  <2>1. UNCHANGED <<accepting, permit, pc, ahead, outcome>>
    BY <1>15 DEF DriverStart, DriverDrop, DriverPark, DriverDone, Drive, Tick, vars
  <2>2. QED
    BY <2>1, Unseen DEF Place
<1>16. CASE Close
  BY <1>16, ShutSeen DEF Close, ShutAdmission, Abstract!Next
<1>17. QED
  BY <1>1, <1>2, <1>3, <1>4, <1>5, <1>6, <1>7, <1>8, <1>9, <1>10, <1>11, <1>12, <1>13, <1>14,
     <1>15, <1>16 DEF Next, CallerStep, Cancel, WorkStep, DriverStep

\* What close and the reply channel contribute holds in every state.
LEMMA AdmissionInvariant == Spec => []AdmissionInv
<1>1. Init => AdmissionInv
  BY DEF Init, AdmissionInv, Queued
<1>2. TypeOK /\ Coherence /\ SessionInv /\ AdmissionInv /\ [Next]_vars => AdmissionInv'
  BY AdmissionKept
<1>3. QED
  BY <1>1, <1>2, TypeCorrect, CoherenceInvariant, SessionInvariant, PTL DEF Spec

\* The scheduler implements the bounded first-come first-served service its
\* callers are promised: no interleaving of calls, timeouts, cancellations,
\* panics and close shows them a behaviour Admission does not have.
THEOREM SchedulerImplementsAdmission == Spec => ImplementsAdmission
<1>1. Init => Abstract!Init
  BY DEF Init, Abstract!Init, Place
<1>2. Mapped /\ TypeOK' /\ Coherence' /\ [Next]_vars => [Abstract!Next]_(Abstract!vars)
  BY StepSeen
<1>3. TypeOK /\ Coherence /\ PermitInv /\ GaugeInv /\ QueueInv /\ LostInv /\ SessionInv
        /\ OutcomeInv /\ AdmissionInv => Mapped
  BY DEF Mapped
<1>4. QED
  BY <1>1, <1>2, <1>3, TypeCorrect, CoherenceInvariant, PermitInvariant, GaugeInvariant,
     QueueInvariant, LostInvariant, SessionInvariant, OutcomeInvariant, AdmissionInvariant, PTL
     DEF Spec, ImplementsAdmission, Abstract!Spec
=============================================================================
