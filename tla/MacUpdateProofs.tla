-------------------------- MODULE MacUpdateProofs --------------------------
(***************************************************************************)
(* What the deployment command for macOS guarantees for any number of      *)
(* terminals, releases and processes, and any number of signals and kills. *)
(* All but the types is about the time before a signal falls between rmdir *)
(* and locked=0 of release_lock (Misled): after it nothing is claimed.     *)
(*                                                                         *)
(* TypeInv    types, and what the next phase of a subroutine can be        *)
(* LockInv    a shell in an operation holds the lock; this makes every     *)
(*            operation the only one                                       *)
(* RecordInv  no process is on record that runs when a shell is about to   *)
(*            record its child or to remove the record                     *)
(* ReleaseInv a shell that made the lock knows of it and finds its file    *)
(* VersionInv the version in hand is the one the transaction names, and it *)
(*            was validated before it is committed                         *)
(* RunsInv    the process on record runs the version in hand               *)
(* ChildInv   every process is on record, a stray, or the child of the     *)
(*            only shell that works on the deployment                      *)
(***************************************************************************)
EXTENDS MacUpdate, FiniteSetTheorems, TLAPS

USE DEF files, dir, procs, control, hold, bounds, rest

StopPhases == {"stop", "stopping", "unrecord"}

TypeInv ==
  /\ TypeOK
  /\ \A t \in Terminals :
       /\ pc[t] \in StopPhases => after[t] \in {"exit", "launch", "restore", "previous", "revert"}
       /\ pc[t] = "prepare" /\ job[t] = "update" => current # None
       /\ pc[t] \in {"launch", "record", "validate"} \/ (pc[t] \in StopPhases /\ after[t] = "launch")
            => version[t] # None
       /\ pc[t] = "waiting" \/ (pc[t] \in {"release", "rmdir", "unlock"} /\ after[t] = "console")
            => child[t] # None
       /\ pc[t] \in {"release", "rmdir", "unlock"} => after[t] \in {"console", "cleanup"}

\* TypeInv is inductive, whatever becomes of the lock.
LEMMA TypeInvariance == Spec => []TypeInv
<1> USE NoneAssumption, TerminalAssumption, BoundAssumption
    DEF NoneAssumption, TerminalAssumption, BoundAssumption, TypeInv, TypeOK, Transactions,
        TransactionFiles, Saved, StopPhases, WorkPhases, Phases
<1>1. Init => TypeInv
  <2> SUFFICES ASSUME Init PROVE TypeInv
    OBVIOUS
  <2>1. TypeOK
    <3>1. owner \in BOOLEAN /\ (lock = "free" => ~owner)
      BY DEF Init
    <3>2. QED
      BY <3>1 DEF Init
  <2>2. QED
    BY <2>1 DEF Init
<1>2. TypeInv /\ [Next]_vars => TypeInv'
  <2> SUFFICES ASSUME TypeInv, [Next]_vars PROVE TypeInv'
    OBVIOUS
  <2> USE DEF At, Goto, Cleaning
  <2>1. ASSUME NEW t \in Terminals, Begin(t) PROVE TypeInv'
    BY <2>1 DEF Begin
  <2>2. ASSUME NEW t \in Terminals, Refuse(t) PROVE TypeInv'
    BY <2>2 DEF Refuse, Moves
  <2>3. ASSUME NEW t \in Terminals, PrepareFails(t) PROVE TypeInv'
    BY <2>3 DEF PrepareFails, Moves
  <2>4. ASSUME NEW t \in Terminals, StartInstall(t) PROVE TypeInv'
    BY <2>4 DEF StartInstall, Moves
  <2>5. ASSUME NEW t \in Terminals, Install(t) PROVE TypeInv'
    BY <2>5 DEF Install, Shell, Allowed
  <2>6. ASSUME NEW t \in Terminals, Start(t) PROVE TypeInv'
    BY <2>6 DEF Start, Shell, Allowed
  <2>7. ASSUME NEW t \in Terminals, Stop(t) PROVE TypeInv'
    BY <2>7 DEF Stop, Calls, Shell
  <2>8. ASSUME NEW t \in Terminals, Recover(t) PROVE TypeInv'
    BY <2>8 DEF Recover, Calls, Shell
  <2>9. ASSUME NEW t \in Terminals, Update(t) PROVE TypeInv'
    BY <2>9 DEF Update, Shell, Allowed, Owned
  <2>10. ASSUME NEW t \in Terminals, Prepare(t) PROVE TypeInv'
    BY <2>10 DEF Prepare, Shell
  <2>11. ASSUME NEW t \in Terminals, StopNothing(t) PROVE TypeInv'
    BY <2>11 DEF StopNothing, Moves
  <2>12. ASSUME NEW t \in Terminals, StopSignal(t) PROVE TypeInv'
    BY <2>12 DEF StopSignal, Owned
  <2>13. ASSUME NEW t \in Terminals, Stopped(t) PROVE TypeInv'
    BY <2>13 DEF Stopped
  <2>14. ASSUME NEW t \in Terminals, Unrecord(t) PROVE TypeInv'
    BY <2>14 DEF Unrecord, Shell
  <2>15. ASSUME NEW t \in Terminals, StopTimesOut(t) PROVE TypeInv'
    BY <2>15 DEF StopTimesOut
  <2>16. ASSUME NEW t \in Terminals, Spawn(t) PROVE TypeInv'
    BY <2>16 DEF Spawn, Unused
  <2>17. ASSUME NEW t \in Terminals, LaunchRefused(t) PROVE TypeInv'
    BY <2>17 DEF LaunchRefused, Moves
  <2>18. ASSUME NEW t \in Terminals, Record(t) PROVE TypeInv'
    BY <2>18 DEF Record, Shell
  <2>19. ASSUME NEW t \in Terminals, LaunchFails(t) PROVE TypeInv'
    BY <2>19 DEF LaunchFails, Fail, Shell
  <2>20. ASSUME NEW t \in Terminals, Validated(t) PROVE TypeInv'
    <3>1. CASE job[t] = "start"
      BY <2>20, <3>1 DEF Validated, Shell
    <3>2. CASE job[t] = "update"
      BY <2>20, <3>2 DEF Validated, Shell
    <3>3. CASE job[t] \notin {"start", "update"}
      BY <2>20, <3>3 DEF Validated, Shell
    <3>4. QED
      BY <3>1, <3>2, <3>3
  <2>21. ASSUME NEW t \in Terminals, ValidateFails(t) PROVE TypeInv'
    BY <2>21 DEF ValidateFails, Fail, Shell
  <2>22. ASSUME NEW t \in Terminals, Restore(t) PROVE TypeInv'
    BY <2>22 DEF Restore, Shell
  <2>23. ASSUME NEW t \in Terminals, SwitchFails(t) PROVE TypeInv'
    BY <2>23 DEF SwitchFails, Moves
  <2>24. ASSUME NEW t \in Terminals, KeepPrevious(t) PROVE TypeInv'
    BY <2>24 DEF KeepPrevious, Shell
  <2>25. ASSUME NEW t \in Terminals, Commit(t) PROVE TypeInv'
    BY <2>25 DEF Commit, Shell
  <2>26. ASSUME NEW t \in Terminals, RemoveFile(t) PROVE TypeInv'
    BY <2>26 DEF RemoveFile, Shell
  <2>27. ASSUME NEW t \in Terminals, RemoveDirectory(t) PROVE TypeInv'
    BY <2>27 DEF RemoveDirectory, Shell
  <2>28. ASSUME NEW t \in Terminals, Finish(t) PROVE TypeInv'
    BY <2>28 DEF Finish, Moves, Calls, Shell
  <2>29. ASSUME NEW t \in Terminals, MakeLock(t) PROVE TypeInv'
    BY <2>29 DEF MakeLock
  <2>30. ASSUME NEW t \in Terminals, MakeLockFails(t) PROVE TypeInv'
    BY <2>30 DEF MakeLockFails, Cleared
  <2>31. ASSUME NEW t \in Terminals, Lock(t) PROVE TypeInv'
    BY <2>31 DEF Lock
  <2>32. ASSUME NEW t \in Terminals, WriteOwner(t) PROVE TypeInv'
    BY <2>32 DEF WriteOwner, Locked
  <2>33. ASSUME NEW t \in Terminals, WriteOwnerFails(t) PROVE TypeInv'
    <3>1. CASE Cleaning(t)
      <4>1. Vanish(t) /\ UNCHANGED bounds
        BY <2>33, <3>1 DEF WriteOwnerFails, Fails
      <4>2. QED
        BY <2>33, <3>1, <4>1 DEF WriteOwnerFails, Vanish
    <3>2. CASE ~Cleaning(t)
      BY <2>33, <3>2 DEF WriteOwnerFails, Fails, Moves
    <3>3. QED
      BY <3>1, <3>2
  <2>34. ASSUME NEW t \in Terminals, RemoveOwner(t) PROVE TypeInv'
    BY <2>34 DEF RemoveOwner
  <2>35. ASSUME NEW t \in Terminals, RemoveOwnerFails(t) PROVE TypeInv'
    <3>1. CASE Cleaning(t)
      <4>1. Vanish(t) /\ UNCHANGED bounds
        BY <2>35, <3>1 DEF RemoveOwnerFails, Fails
      <4>2. QED
        BY <2>35, <3>1, <4>1 DEF RemoveOwnerFails, Vanish
    <3>2. CASE ~Cleaning(t)
      BY <2>35, <3>2 DEF RemoveOwnerFails, Fails, Moves
    <3>3. QED
      BY <3>1, <3>2
  <2>36. ASSUME NEW t \in Terminals, RemoveLock(t) PROVE TypeInv'
    BY <2>36 DEF RemoveLock
  <2>37. ASSUME NEW t \in Terminals, RemoveLockFails(t) PROVE TypeInv'
    <3>1. CASE Cleaning(t)
      <4>1. Vanish(t) /\ UNCHANGED bounds
        BY <2>37, <3>1 DEF RemoveLockFails, Fails
      <4>2. QED
        BY <2>37, <3>1, <4>1 DEF RemoveLockFails, Vanish
    <3>2. CASE ~Cleaning(t)
      BY <2>37, <3>2 DEF RemoveLockFails, Fails, Moves
    <3>3. QED
      BY <3>1, <3>2
  <2>38. ASSUME NEW t \in Terminals, Unlock(t) PROVE TypeInv'
    BY <2>38 DEF Unlock
  <2>39. ASSUME NEW t \in Terminals, Reap(t) PROVE TypeInv'
    BY <2>39 DEF Reap
  <2>40. ASSUME NEW t \in Terminals, Test(t) PROVE TypeInv'
    BY <2>40 DEF Test, Moves
  <2>41. ASSUME NEW t \in Terminals, TestOther(t) PROVE TypeInv'
    BY <2>41 DEF TestOther, Cleared
  <2>42. ASSUME NEW t \in Terminals, Forget(t) PROVE TypeInv'
    BY <2>42 DEF Forget, Cleared
  <2>43. ASSUME NEW t \in Terminals, ForgetFails(t) PROVE TypeInv'
    <3>1. CASE Cleaning(t)
      <4>1. Vanish(t) /\ UNCHANGED bounds
        BY <2>43, <3>1 DEF ForgetFails, Fails
      <4>2. QED
        BY <2>43, <3>1, <4>1 DEF ForgetFails, Vanish
    <3>2. CASE ~Cleaning(t)
      BY <2>43, <3>2 DEF ForgetFails, Fails, Moves
    <3>3. QED
      BY <3>1, <3>2
  <2>44. ASSUME NEW t \in Terminals, ExitWaits(t) PROVE TypeInv'
    BY <2>44 DEF ExitWaits, Moves
  <2>45. ASSUME NEW t \in Terminals, Exit(t) PROVE TypeInv'
    BY <2>45 DEF Exit
  <2>46. ASSUME NEW t \in Terminals, ExitGivesUp(t) PROVE TypeInv'
    BY <2>46 DEF ExitGivesUp, Shell
  <2>47. ASSUME NEW t \in Terminals, ExitEnds(t) PROVE TypeInv'
    BY <2>47 DEF ExitEnds, Vanish
  <2>48. ASSUME NEW t \in Terminals, Signal(t) PROVE TypeInv'
    BY <2>48 DEF Signal, Window
  <2>49. ASSUME NEW t \in Terminals, SignalAgain(t) PROVE TypeInv'
    BY <2>49 DEF SignalAgain, Vanish
  <2>50. ASSUME NEW t \in Terminals, Kill(t) PROVE TypeInv'
    BY <2>50 DEF Kill, Vanish
  <2>51. ASSUME NEW p \in Pids, ProcessEnds(p) PROVE TypeInv'
    BY <2>51 DEF ProcessEnds
  <2>52. CASE PowerLoss
    BY <2>52 DEF PowerLoss
  <2>53. CASE RenameStaleLock
    BY <2>53 DEF RenameStaleLock
  <2>54. CASE UNCHANGED vars
    BY <2>54 DEF vars
  <2>55. QED
    BY <2>1, <2>2, <2>3, <2>4, <2>5, <2>6, <2>7, <2>8, <2>9, <2>10, <2>11, <2>12, <2>13, <2>14,
       <2>15, <2>16, <2>17, <2>18, <2>19, <2>20, <2>21, <2>22, <2>23, <2>24, <2>25, <2>26, <2>27,
       <2>28, <2>29, <2>30, <2>31, <2>32, <2>33, <2>34, <2>35, <2>36, <2>37, <2>38, <2>39, <2>40,
       <2>41, <2>42, <2>43, <2>44, <2>45, <2>46, <2>47, <2>48, <2>49, <2>50, <2>51, <2>52, <2>53,
       <2>54
    DEF Next, ShellStep, Main, Process, Switch, Locking, Leaving
<1>3. QED
  BY <1>1, <1>2, PTL DEF Spec

\* Every variable of the deployment keeps to its type, also when shells work on
\* it at once.
THEOREM TypeCorrect == Spec => []TypeOK
<1>1. TypeInv => TypeOK
  BY DEF TypeInv
<1>2. QED
  BY <1>1, TypeInvariance, PTL

\* What a signal has done to the lock is not forgotten.
LEMMA HitLasts == ASSUME [Next]_vars PROVE hit \subseteq hit'
<1>1. ASSUME NEW t \in Terminals,
             Refuse(t) \/ PrepareFails(t) \/ StartInstall(t) \/ Install(t) \/ Start(t) \/
             Stop(t) \/ Recover(t) \/ Update(t) \/ Prepare(t)
      PROVE hit \subseteq hit'
  BY <1>1 DEF Refuse, Moves, PrepareFails, StartInstall, Install, Shell, Start, Stop, Calls,
         Recover, Update, Prepare
<1>2. ASSUME NEW t \in Terminals,
             StopNothing(t) \/ StopSignal(t) \/ Stopped(t) \/ Unrecord(t) \/ StopTimesOut(t)
             \/ Spawn(t) \/ LaunchRefused(t) \/ Record(t) \/ LaunchFails(t) \/ Validated(t)
             \/ ValidateFails(t)
      PROVE hit \subseteq hit'
  BY <1>2 DEF StopNothing, Moves, StopSignal, Stopped, Unrecord, Shell, StopTimesOut, Spawn,
         LaunchRefused, Record, LaunchFails, Fail, Validated, ValidateFails
<1>3. ASSUME NEW t \in Terminals,
             Restore(t) \/ SwitchFails(t) \/ KeepPrevious(t) \/ Commit(t) \/ RemoveFile(t) \/
             RemoveDirectory(t) \/ Finish(t)
      PROVE hit \subseteq hit'
  BY <1>3 DEF Restore, Shell, SwitchFails, Moves, KeepPrevious, Commit, RemoveFile,
         RemoveDirectory, Finish, Calls
<1>4. ASSUME NEW t \in Terminals,
             MakeLock(t) \/ MakeLockFails(t) \/ Lock(t) \/ WriteOwner(t) \/
             WriteOwnerFails(t) \/ RemoveOwner(t) \/ RemoveOwnerFails(t) \/ RemoveLock(t) \/
             RemoveLockFails(t) \/ Unlock(t)
      PROVE hit \subseteq hit'
  BY <1>4 DEF MakeLock, MakeLockFails, Cleared, Lock, WriteOwner, Locked, WriteOwnerFails,
         Fails, Moves, Vanish, RemoveOwner, RemoveOwnerFails, RemoveLock, RemoveLockFails,
         Unlock
<1>5. ASSUME NEW t \in Terminals,
             Reap(t) \/ Test(t) \/ TestOther(t) \/ Forget(t) \/ ForgetFails(t) \/
             ExitWaits(t) \/ Exit(t) \/ ExitGivesUp(t) \/ ExitEnds(t)
      PROVE hit \subseteq hit'
  BY <1>5 DEF Reap, Test, Moves, TestOther, Cleared, Forget, ForgetFails, Fails, Vanish,
         ExitWaits, Exit, ExitGivesUp, Shell, ExitEnds
<1>6. ASSUME NEW t \in Terminals, Begin(t) \/ Signal(t) \/ SignalAgain(t) \/ Kill(t)
      PROVE hit \subseteq hit'
  BY <1>6 DEF Begin, Signal, SignalAgain, Kill, Vanish
<1>7. CASE (\E p \in Pids : ProcessEnds(p)) \/ PowerLoss \/ RenameStaleLock \/ UNCHANGED vars
  BY <1>7 DEF ProcessEnds, PowerLoss, RenameStaleLock, vars
<1>8. QED
  BY <1>1, <1>2, <1>3, <1>4, <1>5, <1>6, <1>7
  DEF Next, ShellStep, Main, Process, Switch, Locking, Leaving

LEMMA TrustLasts == ASSUME [Next]_vars, ~Misled' PROVE ~Misled
BY HitLasts DEF Misled

-----------------------------------------------------------------------------
\* A shell in these phases has made the lock, and has it still.
Holds(t) == \/ pc[t] \in WorkPhases \cup {"lock", "owner", "rmdir"}
            \/ locked[t] /\ pc[t] # "unlock"

LockInv ==
  \A t \in Terminals :
    /\ Holds(t) => lock = t
    /\ pc[t] \in WorkPhases \cup {"owner", "rmdir", "unlock"} => locked[t]
    /\ pc[t] = "unlock" => lock # t
    /\ pc[t] = "rmdir" => ~owner

\* LockInv is inductive as long as no shell is misled.
LEMMA LockInvariance == Spec => [](Misled \/ LockInv)
<1> USE TerminalAssumption DEF TerminalAssumption, WorkPhases
<1>1. Init => Misled \/ LockInv
  BY DEF Init, LockInv, Holds
<1>2. (Misled \/ LockInv) /\ TypeInv /\ [Next]_vars => (Misled \/ LockInv)'
  <2> SUFFICES ASSUME Misled \/ LockInv, TypeInv, [Next]_vars, ~Misled' PROVE LockInv'
    OBVIOUS
  <2>0. ~Misled /\ LockInv
    BY TrustLasts
  <2> USE DEF LockInv, Holds, TypeInv, TypeOK, StopPhases, Phases, At, Goto, Misled
  <2>1. ASSUME NEW t \in Terminals, Begin(t) PROVE LockInv'
    BY <2>1, <2>0 DEF Begin
  <2>2. ASSUME NEW t \in Terminals, Refuse(t) PROVE LockInv'
    BY <2>2, <2>0 DEF Refuse, Moves
  <2>3. ASSUME NEW t \in Terminals, PrepareFails(t) PROVE LockInv'
    BY <2>3, <2>0 DEF PrepareFails, Moves
  <2>4. ASSUME NEW t \in Terminals, StartInstall(t) PROVE LockInv'
    BY <2>4, <2>0 DEF StartInstall, Moves
  <2>5. ASSUME NEW t \in Terminals, Install(t) PROVE LockInv'
    BY <2>5, <2>0 DEF Install, Shell
  <2>6. ASSUME NEW t \in Terminals, Start(t) PROVE LockInv'
    BY <2>6, <2>0 DEF Start, Shell
  <2>7. ASSUME NEW t \in Terminals, Stop(t) PROVE LockInv'
    BY <2>7, <2>0 DEF Stop, Calls, Shell
  <2>8. ASSUME NEW t \in Terminals, Recover(t) PROVE LockInv'
    BY <2>8, <2>0 DEF Recover, Calls, Shell
  <2>9. ASSUME NEW t \in Terminals, Update(t) PROVE LockInv'
    BY <2>9, <2>0 DEF Update, Shell
  <2>10. ASSUME NEW t \in Terminals, Prepare(t) PROVE LockInv'
    BY <2>10, <2>0 DEF Prepare, Shell
  <2>11. ASSUME NEW t \in Terminals, StopNothing(t) PROVE LockInv'
    BY <2>11, <2>0 DEF StopNothing, Moves
  <2>12. ASSUME NEW t \in Terminals, StopSignal(t) PROVE LockInv'
    BY <2>12, <2>0 DEF StopSignal
  <2>13. ASSUME NEW t \in Terminals, Stopped(t) PROVE LockInv'
    BY <2>13, <2>0 DEF Stopped
  <2>14. ASSUME NEW t \in Terminals, Unrecord(t) PROVE LockInv'
    BY <2>14, <2>0 DEF Unrecord, Shell
  <2>15. ASSUME NEW t \in Terminals, StopTimesOut(t) PROVE LockInv'
    BY <2>15, <2>0 DEF StopTimesOut
  <2>16. ASSUME NEW t \in Terminals, Spawn(t) PROVE LockInv'
    BY <2>16, <2>0 DEF Spawn
  <2>17. ASSUME NEW t \in Terminals, LaunchRefused(t) PROVE LockInv'
    BY <2>17, <2>0 DEF LaunchRefused, Moves
  <2>18. ASSUME NEW t \in Terminals, Record(t) PROVE LockInv'
    BY <2>18, <2>0 DEF Record, Shell
  <2>19. ASSUME NEW t \in Terminals, LaunchFails(t) PROVE LockInv'
    BY <2>19, <2>0 DEF LaunchFails, Fail, Shell
  <2>20. ASSUME NEW t \in Terminals, Validated(t) PROVE LockInv'
    BY <2>20, <2>0 DEF Validated, Shell
  <2>21. ASSUME NEW t \in Terminals, ValidateFails(t) PROVE LockInv'
    BY <2>21, <2>0 DEF ValidateFails, Fail, Shell
  <2>22. ASSUME NEW t \in Terminals, Restore(t) PROVE LockInv'
    BY <2>22, <2>0 DEF Restore, Shell
  <2>23. ASSUME NEW t \in Terminals, SwitchFails(t) PROVE LockInv'
    BY <2>23, <2>0 DEF SwitchFails, Moves
  <2>24. ASSUME NEW t \in Terminals, KeepPrevious(t) PROVE LockInv'
    BY <2>24, <2>0 DEF KeepPrevious, Shell
  <2>25. ASSUME NEW t \in Terminals, Commit(t) PROVE LockInv'
    BY <2>25, <2>0 DEF Commit, Shell
  <2>26. ASSUME NEW t \in Terminals, RemoveFile(t) PROVE LockInv'
    BY <2>26, <2>0 DEF RemoveFile, Shell
  <2>27. ASSUME NEW t \in Terminals, RemoveDirectory(t) PROVE LockInv'
    BY <2>27, <2>0 DEF RemoveDirectory, Shell
  <2>28. ASSUME NEW t \in Terminals, Finish(t) PROVE LockInv'
    BY <2>28, <2>0 DEF Finish, Moves, Calls, Shell
  <2>29. ASSUME NEW t \in Terminals, MakeLock(t) PROVE LockInv'
    BY <2>29, <2>0 DEF MakeLock
  <2>30. ASSUME NEW t \in Terminals, MakeLockFails(t) PROVE LockInv'
    BY <2>30, <2>0 DEF MakeLockFails, Cleared
  <2>31. ASSUME NEW t \in Terminals, Lock(t) PROVE LockInv'
    BY <2>31, <2>0 DEF Lock
  <2>32. ASSUME NEW t \in Terminals, WriteOwner(t) PROVE LockInv'
    BY <2>32, <2>0 DEF WriteOwner, Locked
  <2>33. ASSUME NEW t \in Terminals, WriteOwnerFails(t) PROVE LockInv'
    <3>1. CASE Cleaning(t)
      <4>1. Vanish(t) /\ UNCHANGED bounds
        BY <2>33, <2>0, <3>1 DEF WriteOwnerFails, Fails
      <4>2. QED
        BY <2>33, <2>0, <3>1, <4>1 DEF WriteOwnerFails, Vanish
    <3>2. CASE ~Cleaning(t)
      BY <2>33, <2>0, <3>2 DEF WriteOwnerFails, Fails, Moves
    <3>3. QED
      BY <3>1, <3>2
  <2>34. ASSUME NEW t \in Terminals, RemoveOwner(t) PROVE LockInv'
    BY <2>34, <2>0 DEF RemoveOwner
  <2>35. ASSUME NEW t \in Terminals, RemoveOwnerFails(t) PROVE LockInv'
    <3>1. CASE Cleaning(t)
      <4>1. Vanish(t) /\ UNCHANGED bounds
        BY <2>35, <2>0, <3>1 DEF RemoveOwnerFails, Fails
      <4>2. QED
        BY <2>35, <2>0, <3>1, <4>1 DEF RemoveOwnerFails, Vanish
    <3>2. CASE ~Cleaning(t)
      BY <2>35, <2>0, <3>2 DEF RemoveOwnerFails, Fails, Moves
    <3>3. QED
      BY <3>1, <3>2
  <2>36. ASSUME NEW t \in Terminals, RemoveLock(t) PROVE LockInv'
    BY <2>36, <2>0 DEF RemoveLock
  <2>37. ASSUME NEW t \in Terminals, RemoveLockFails(t) PROVE LockInv'
    <3>1. CASE Cleaning(t)
      <4>1. Vanish(t) /\ UNCHANGED bounds
        BY <2>37, <2>0, <3>1 DEF RemoveLockFails, Fails
      <4>2. QED
        BY <2>37, <2>0, <3>1, <4>1 DEF RemoveLockFails, Vanish
    <3>2. CASE ~Cleaning(t)
      BY <2>37, <2>0, <3>2 DEF RemoveLockFails, Fails, Moves
    <3>3. QED
      BY <3>1, <3>2
  <2>38. ASSUME NEW t \in Terminals, Unlock(t) PROVE LockInv'
    BY <2>38, <2>0 DEF Unlock
  <2>39. ASSUME NEW t \in Terminals, Reap(t) PROVE LockInv'
    BY <2>39, <2>0 DEF Reap
  <2>40. ASSUME NEW t \in Terminals, Test(t) PROVE LockInv'
    BY <2>40, <2>0 DEF Test, Moves
  <2>41. ASSUME NEW t \in Terminals, TestOther(t) PROVE LockInv'
    BY <2>41, <2>0 DEF TestOther, Cleared
  <2>42. ASSUME NEW t \in Terminals, Forget(t) PROVE LockInv'
    BY <2>42, <2>0 DEF Forget, Cleared
  <2>43. ASSUME NEW t \in Terminals, ForgetFails(t) PROVE LockInv'
    <3>1. CASE Cleaning(t)
      <4>1. Vanish(t) /\ UNCHANGED bounds
        BY <2>43, <2>0, <3>1 DEF ForgetFails, Fails
      <4>2. QED
        BY <2>43, <2>0, <3>1, <4>1 DEF ForgetFails, Vanish
    <3>2. CASE ~Cleaning(t)
      BY <2>43, <2>0, <3>2 DEF ForgetFails, Fails, Moves
    <3>3. QED
      BY <3>1, <3>2
  <2>44. ASSUME NEW t \in Terminals, ExitWaits(t) PROVE LockInv'
    BY <2>44, <2>0 DEF ExitWaits, Moves
  <2>45. ASSUME NEW t \in Terminals, Exit(t) PROVE LockInv'
    BY <2>45, <2>0 DEF Exit
  <2>46. ASSUME NEW t \in Terminals, ExitGivesUp(t) PROVE LockInv'
    BY <2>46, <2>0 DEF ExitGivesUp, Shell
  <2>47. ASSUME NEW t \in Terminals, ExitEnds(t) PROVE LockInv'
    BY <2>47, <2>0 DEF ExitEnds, Vanish
  <2>48. ASSUME NEW t \in Terminals, Signal(t) PROVE LockInv'
    BY <2>48, <2>0 DEF Signal, Window
  <2>49. ASSUME NEW t \in Terminals, SignalAgain(t) PROVE LockInv'
    BY <2>49, <2>0 DEF SignalAgain, Vanish
  <2>50. ASSUME NEW t \in Terminals, Kill(t) PROVE LockInv'
    BY <2>50, <2>0 DEF Kill, Vanish
  <2>51. ASSUME NEW p \in Pids, ProcessEnds(p) PROVE LockInv'
    BY <2>51, <2>0 DEF ProcessEnds
  <2>52. CASE PowerLoss
    BY <2>52, <2>0 DEF PowerLoss
  <2>53. CASE RenameStaleLock
    BY <2>53, <2>0 DEF RenameStaleLock
  <2>54. CASE UNCHANGED vars
    BY <2>54, <2>0 DEF vars
  <2>55. QED
    BY <2>1, <2>2, <2>3, <2>4, <2>5, <2>6, <2>7, <2>8, <2>9, <2>10, <2>11, <2>12, <2>13, <2>14,
       <2>15, <2>16, <2>17, <2>18, <2>19, <2>20, <2>21, <2>22, <2>23, <2>24, <2>25, <2>26, <2>27,
       <2>28, <2>29, <2>30, <2>31, <2>32, <2>33, <2>34, <2>35, <2>36, <2>37, <2>38, <2>39, <2>40,
       <2>41, <2>42, <2>43, <2>44, <2>45, <2>46, <2>47, <2>48, <2>49, <2>50, <2>51, <2>52, <2>53,
       <2>54
    DEF Next, ShellStep, Main, Process, Switch, Locking, Leaving
<1>3. QED
  BY <1>1, <1>2, TypeInvariance, PTL DEF Spec

\* Operations exclude each other, for any number of terminals, until a signal falls
\* between rmdir and locked=0.
THEOREM OperationsExclude == Spec => []OneOperation
<1>1. (Misled \/ LockInv) => OneOperation
  BY DEF LockInv, Holds, OneOperation
<1>2. QED
  BY <1>1, LockInvariance, PTL

-----------------------------------------------------------------------------
\* In these phases clear_child_record is about the child that has ended.
Clears(t) == \/ pc[t] \in {"mkdir", "test", "forget"}
             \/ pc[t] \in {"lock", "owner"} /\ after[t] # "main"

\* No shell is about to record its process, or to remove the record, while a
\* process that runs is on record.
RecordInv ==
  \A t \in Terminals :
    /\ pc[t] \in {"record", "unrecord"} => record \notin alive
    /\ pc[t] = "stopping" => target[t] = record
    /\ Clears(t) => target[t] \in Pids \ alive
    /\ pc[t] = "forget" => target[t] = record

\* RecordInv is inductive as long as operations exclude each other.
LEMMA RecordInvariance == Spec => [](Misled \/ RecordInv)
<1> USE NoneAssumption DEF NoneAssumption
<1>1. Init => Misled \/ RecordInv
  BY DEF Init, RecordInv, Clears
<1>2. (Misled \/ RecordInv) /\ (Misled \/ LockInv) /\ TypeInv /\ [Next]_vars
        => (Misled \/ RecordInv)'
  <2> SUFFICES ASSUME Misled \/ RecordInv, Misled \/ LockInv, TypeInv, [Next]_vars, ~Misled'
               PROVE  RecordInv'
    OBVIOUS
  <2>0. RecordInv /\ LockInv
    BY TrustLasts
  <2> USE DEF RecordInv, Clears, LockInv, Holds, WorkPhases, TypeInv, TypeOK, StopPhases, Phases, At, Goto,
              Owned
  <2>1. ASSUME NEW t \in Terminals, Begin(t) PROVE RecordInv'
    BY <2>1, <2>0 DEF Begin
  <2>2. ASSUME NEW t \in Terminals, Refuse(t) PROVE RecordInv'
    BY <2>2, <2>0 DEF Refuse, Moves
  <2>3. ASSUME NEW t \in Terminals, PrepareFails(t) PROVE RecordInv'
    BY <2>3, <2>0 DEF PrepareFails, Moves
  <2>4. ASSUME NEW t \in Terminals, StartInstall(t) PROVE RecordInv'
    BY <2>4, <2>0 DEF StartInstall, Moves
  <2>5. ASSUME NEW t \in Terminals, Install(t) PROVE RecordInv'
    BY <2>5, <2>0 DEF Install, Shell
  <2>6. ASSUME NEW t \in Terminals, Start(t) PROVE RecordInv'
    BY <2>6, <2>0 DEF Start, Shell
  <2>7. ASSUME NEW t \in Terminals, Stop(t) PROVE RecordInv'
    BY <2>7, <2>0 DEF Stop, Calls, Shell
  <2>8. ASSUME NEW t \in Terminals, Recover(t) PROVE RecordInv'
    BY <2>8, <2>0 DEF Recover, Calls, Shell
  <2>9. ASSUME NEW t \in Terminals, Update(t) PROVE RecordInv'
    BY <2>9, <2>0 DEF Update, Shell
  <2>10. ASSUME NEW t \in Terminals, Prepare(t) PROVE RecordInv'
    BY <2>10, <2>0 DEF Prepare, Shell
  <2>11. ASSUME NEW t \in Terminals, StopNothing(t) PROVE RecordInv'
    BY <2>11, <2>0 DEF StopNothing, Moves
  <2>12. ASSUME NEW t \in Terminals, StopSignal(t) PROVE RecordInv'
    BY <2>12, <2>0 DEF StopSignal
  <2>13. ASSUME NEW t \in Terminals, Stopped(t) PROVE RecordInv'
    BY <2>13, <2>0 DEF Stopped
  <2>14. ASSUME NEW t \in Terminals, Unrecord(t) PROVE RecordInv'
    BY <2>14, <2>0 DEF Unrecord, Shell
  <2>15. ASSUME NEW t \in Terminals, StopTimesOut(t) PROVE RecordInv'
    BY <2>15, <2>0 DEF StopTimesOut
  <2>16. ASSUME NEW t \in Terminals, Spawn(t) PROVE RecordInv'
    BY <2>16, <2>0 DEF Spawn, Unused
  <2>17. ASSUME NEW t \in Terminals, LaunchRefused(t) PROVE RecordInv'
    BY <2>17, <2>0 DEF LaunchRefused, Moves
  <2>18. ASSUME NEW t \in Terminals, Record(t) PROVE RecordInv'
    BY <2>18, <2>0 DEF Record, Shell
  <2>19. ASSUME NEW t \in Terminals, LaunchFails(t) PROVE RecordInv'
    BY <2>19, <2>0 DEF LaunchFails, Fail, Shell
  <2>20. ASSUME NEW t \in Terminals, Validated(t) PROVE RecordInv'
    BY <2>20, <2>0 DEF Validated, Shell
  <2>21. ASSUME NEW t \in Terminals, ValidateFails(t) PROVE RecordInv'
    BY <2>21, <2>0 DEF ValidateFails, Fail, Shell
  <2>22. ASSUME NEW t \in Terminals, Restore(t) PROVE RecordInv'
    BY <2>22, <2>0 DEF Restore, Shell
  <2>23. ASSUME NEW t \in Terminals, SwitchFails(t) PROVE RecordInv'
    BY <2>23, <2>0 DEF SwitchFails, Moves
  <2>24. ASSUME NEW t \in Terminals, KeepPrevious(t) PROVE RecordInv'
    BY <2>24, <2>0 DEF KeepPrevious, Shell
  <2>25. ASSUME NEW t \in Terminals, Commit(t) PROVE RecordInv'
    BY <2>25, <2>0 DEF Commit, Shell
  <2>26. ASSUME NEW t \in Terminals, RemoveFile(t) PROVE RecordInv'
    BY <2>26, <2>0 DEF RemoveFile, Shell
  <2>27. ASSUME NEW t \in Terminals, RemoveDirectory(t) PROVE RecordInv'
    BY <2>27, <2>0 DEF RemoveDirectory, Shell
  <2>28. ASSUME NEW t \in Terminals, Finish(t) PROVE RecordInv'
    BY <2>28, <2>0 DEF Finish, Moves, Calls, Shell
  <2>29. ASSUME NEW t \in Terminals, MakeLock(t) PROVE RecordInv'
    BY <2>29, <2>0 DEF MakeLock
  <2>30. ASSUME NEW t \in Terminals, MakeLockFails(t) PROVE RecordInv'
    BY <2>30, <2>0 DEF MakeLockFails, Cleared
  <2>31. ASSUME NEW t \in Terminals, Lock(t) PROVE RecordInv'
    BY <2>31, <2>0 DEF Lock
  <2>32. ASSUME NEW t \in Terminals, WriteOwner(t) PROVE RecordInv'
    BY <2>32, <2>0 DEF WriteOwner, Locked
  <2>33. ASSUME NEW t \in Terminals, WriteOwnerFails(t) PROVE RecordInv'
    <3>1. CASE Cleaning(t)
      <4>1. Vanish(t) /\ UNCHANGED bounds
        BY <2>33, <2>0, <3>1 DEF WriteOwnerFails, Fails
      <4>2. QED
        BY <2>33, <2>0, <3>1, <4>1 DEF WriteOwnerFails, Vanish
    <3>2. CASE ~Cleaning(t)
      BY <2>33, <2>0, <3>2 DEF WriteOwnerFails, Fails, Moves
    <3>3. QED
      BY <3>1, <3>2
  <2>34. ASSUME NEW t \in Terminals, RemoveOwner(t) PROVE RecordInv'
    BY <2>34, <2>0 DEF RemoveOwner
  <2>35. ASSUME NEW t \in Terminals, RemoveOwnerFails(t) PROVE RecordInv'
    <3>1. CASE Cleaning(t)
      <4>1. Vanish(t) /\ UNCHANGED bounds
        BY <2>35, <2>0, <3>1 DEF RemoveOwnerFails, Fails
      <4>2. QED
        BY <2>35, <2>0, <3>1, <4>1 DEF RemoveOwnerFails, Vanish
    <3>2. CASE ~Cleaning(t)
      BY <2>35, <2>0, <3>2 DEF RemoveOwnerFails, Fails, Moves
    <3>3. QED
      BY <3>1, <3>2
  <2>36. ASSUME NEW t \in Terminals, RemoveLock(t) PROVE RecordInv'
    BY <2>36, <2>0 DEF RemoveLock
  <2>37. ASSUME NEW t \in Terminals, RemoveLockFails(t) PROVE RecordInv'
    <3>1. CASE Cleaning(t)
      <4>1. Vanish(t) /\ UNCHANGED bounds
        BY <2>37, <2>0, <3>1 DEF RemoveLockFails, Fails
      <4>2. QED
        BY <2>37, <2>0, <3>1, <4>1 DEF RemoveLockFails, Vanish
    <3>2. CASE ~Cleaning(t)
      BY <2>37, <2>0, <3>2 DEF RemoveLockFails, Fails, Moves
    <3>3. QED
      BY <3>1, <3>2
  <2>38. ASSUME NEW t \in Terminals, Unlock(t) PROVE RecordInv'
    BY <2>38, <2>0 DEF Unlock
  <2>39. ASSUME NEW t \in Terminals, Reap(t) PROVE RecordInv'
    BY <2>39, <2>0 DEF Reap
  <2>40. ASSUME NEW t \in Terminals, Test(t) PROVE RecordInv'
    BY <2>40, <2>0 DEF Test, Moves
  <2>41. ASSUME NEW t \in Terminals, TestOther(t) PROVE RecordInv'
    BY <2>41, <2>0 DEF TestOther, Cleared
  <2>42. ASSUME NEW t \in Terminals, Forget(t) PROVE RecordInv'
    BY <2>42, <2>0 DEF Forget, Cleared
  <2>43. ASSUME NEW t \in Terminals, ForgetFails(t) PROVE RecordInv'
    <3>1. CASE Cleaning(t)
      <4>1. Vanish(t) /\ UNCHANGED bounds
        BY <2>43, <2>0, <3>1 DEF ForgetFails, Fails
      <4>2. QED
        BY <2>43, <2>0, <3>1, <4>1 DEF ForgetFails, Vanish
    <3>2. CASE ~Cleaning(t)
      BY <2>43, <2>0, <3>2 DEF ForgetFails, Fails, Moves
    <3>3. QED
      BY <3>1, <3>2
  <2>44. ASSUME NEW t \in Terminals, ExitWaits(t) PROVE RecordInv'
    BY <2>44, <2>0 DEF ExitWaits, Moves
  <2>45. ASSUME NEW t \in Terminals, Exit(t) PROVE RecordInv'
    BY <2>45, <2>0 DEF Exit
  <2>46. ASSUME NEW t \in Terminals, ExitGivesUp(t) PROVE RecordInv'
    BY <2>46, <2>0 DEF ExitGivesUp, Shell
  <2>47. ASSUME NEW t \in Terminals, ExitEnds(t) PROVE RecordInv'
    BY <2>47, <2>0 DEF ExitEnds, Vanish
  <2>48. ASSUME NEW t \in Terminals, Signal(t) PROVE RecordInv'
    BY <2>48, <2>0 DEF Signal, Window
  <2>49. ASSUME NEW t \in Terminals, SignalAgain(t) PROVE RecordInv'
    BY <2>49, <2>0 DEF SignalAgain, Vanish
  <2>50. ASSUME NEW t \in Terminals, Kill(t) PROVE RecordInv'
    BY <2>50, <2>0 DEF Kill, Vanish
  <2>51. ASSUME NEW p \in Pids, ProcessEnds(p) PROVE RecordInv'
    BY <2>51, <2>0 DEF ProcessEnds
  <2>52. CASE PowerLoss
    BY <2>52, <2>0 DEF PowerLoss
  <2>53. CASE RenameStaleLock
    BY <2>53, <2>0 DEF RenameStaleLock
  <2>54. CASE UNCHANGED vars
    BY <2>54, <2>0 DEF vars
  <2>55. QED
    BY <2>1, <2>2, <2>3, <2>4, <2>5, <2>6, <2>7, <2>8, <2>9, <2>10, <2>11, <2>12, <2>13, <2>14,
       <2>15, <2>16, <2>17, <2>18, <2>19, <2>20, <2>21, <2>22, <2>23, <2>24, <2>25, <2>26, <2>27,
       <2>28, <2>29, <2>30, <2>31, <2>32, <2>33, <2>34, <2>35, <2>36, <2>37, <2>38, <2>39, <2>40,
       <2>41, <2>42, <2>43, <2>44, <2>45, <2>46, <2>47, <2>48, <2>49, <2>50, <2>51, <2>52, <2>53,
       <2>54
    DEF Next, ShellStep, Main, Process, Switch, Locking, Leaving
<1>3. QED
  BY <1>1, <1>2, LockInvariance, TypeInvariance, PTL DEF Spec

\* The record of a process that runs stays, whatever other terminals do that are not
\* misled by such a signal.
THEOREM RecordsAreKept == Spec => RecordIsKept
<1>1. (Misled \/ RecordInv) /\ [Next]_vars => [~Misled /\ record' # record => ~Owned]_vars
  <2> SUFFICES ASSUME RecordInv, [Next]_vars, record' # record PROVE ~Owned
    OBVIOUS
  <2> USE NoneAssumption DEF NoneAssumption, RecordInv, Clears, Owned, At
  <2>1. ASSUME NEW t \in Terminals, Unrecord(t) PROVE ~Owned
    BY <2>1 DEF Unrecord
  <2>2. ASSUME NEW t \in Terminals, Record(t) PROVE ~Owned
    BY <2>2 DEF Record
  <2>3. ASSUME NEW t \in Terminals, Forget(t) PROVE ~Owned
    BY <2>3 DEF Forget
  <2>4. ASSUME NEW t \in Terminals,
               Refuse(t) \/ PrepareFails(t) \/ StartInstall(t) \/ Install(t) \/ Start(t) \/
               Stop(t) \/ Recover(t) \/ Update(t) \/ Prepare(t)
        PROVE ~Owned
    BY <2>4 DEF Refuse, Moves, PrepareFails, StartInstall, Install, Shell, Start, Stop, Calls,
           Recover, Update, Prepare
  <2>5. ASSUME NEW t \in Terminals,
               StopNothing(t) \/ StopSignal(t) \/ Stopped(t) \/ StopTimesOut(t) \/ Spawn(t) \/
               LaunchRefused(t) \/ LaunchFails(t) \/ Validated(t) \/ ValidateFails(t)
        PROVE ~Owned
    BY <2>5 DEF StopNothing, Moves, StopSignal, Stopped, StopTimesOut, Spawn, LaunchRefused,
           LaunchFails, Fail, Shell, Validated, ValidateFails
  <2>6. ASSUME NEW t \in Terminals,
               Restore(t) \/ SwitchFails(t) \/ KeepPrevious(t) \/ Commit(t) \/ RemoveFile(t) \/
               RemoveDirectory(t) \/ Finish(t)
        PROVE ~Owned
    BY <2>6 DEF Restore, Shell, SwitchFails, Moves, KeepPrevious, Commit, RemoveFile,
           RemoveDirectory, Finish, Calls
  <2>7. ASSUME NEW t \in Terminals,
               MakeLock(t) \/ MakeLockFails(t) \/ Lock(t) \/ WriteOwner(t) \/
               WriteOwnerFails(t) \/ RemoveOwner(t) \/ RemoveOwnerFails(t) \/ RemoveLock(t) \/
               RemoveLockFails(t) \/ Unlock(t)
        PROVE ~Owned
    BY <2>7 DEF MakeLock, MakeLockFails, Cleared, Lock, WriteOwner, Locked, WriteOwnerFails,
           Fails, Moves, Vanish, RemoveOwner, RemoveOwnerFails, RemoveLock, RemoveLockFails,
           Unlock
  <2>8. ASSUME NEW t \in Terminals,
               Reap(t) \/ Test(t) \/ TestOther(t) \/ ForgetFails(t) \/ ExitWaits(t) \/ Exit(t)
               \/ ExitGivesUp(t) \/ ExitEnds(t)
        PROVE ~Owned
    BY <2>8 DEF Reap, Test, Moves, TestOther, Cleared, ForgetFails, Fails, Vanish, ExitWaits,
           Exit, ExitGivesUp, Shell, ExitEnds
  <2>9. ASSUME NEW t \in Terminals, Begin(t) \/ Signal(t) \/ SignalAgain(t) \/ Kill(t)
        PROVE ~Owned
    BY <2>9 DEF Begin, Signal, SignalAgain, Kill, Vanish
  <2>10. CASE (\E p \in Pids : ProcessEnds(p)) \/ PowerLoss \/ RenameStaleLock \/ UNCHANGED vars
    BY <2>10 DEF ProcessEnds, PowerLoss, RenameStaleLock, vars
  <2>11. QED
    BY <2>1, <2>2, <2>3, <2>4, <2>5, <2>6, <2>7, <2>8, <2>9, <2>10
    DEF Next, ShellStep, Main, Process, Switch, Locking, Leaving
<1>2. QED
  BY <1>1, RecordInvariance, PTL DEF Spec, RecordIsKept

-----------------------------------------------------------------------------
\* As long as no signal has hit the lock, a shell that made it knows of it, and
\* release_lock will find the file it removes first.
ReleaseInv ==
  /\ lock = "stale" => kills > 0
  /\ \A t \in Terminals :
       lock = t => /\ locked[t] \/ pc[t] = "lock"
                   /\ owner \/ pc[t] \in {"lock", "owner", "rmdir"}

\* ReleaseInv is inductive until a signal hits.
LEMMA ReleaseInvariance == Spec => [](hit # {} \/ ReleaseInv)
<1> USE NoneAssumption, TerminalAssumption, BoundAssumption
    DEF NoneAssumption, TerminalAssumption, BoundAssumption
<1>1. Init => hit # {} \/ ReleaseInv
  BY DEF Init, ReleaseInv
<1>2. /\ hit # {} \/ ReleaseInv
      /\ Misled \/ LockInv
      /\ Misled \/ RecordInv
      /\ TypeInv
      /\ [Next]_vars
      => (hit # {} \/ ReleaseInv)'
  <2> SUFFICES ASSUME hit # {} \/ ReleaseInv, Misled \/ LockInv, Misled \/ RecordInv, TypeInv,
                      [Next]_vars, hit' = {}
               PROVE  ReleaseInv'
    OBVIOUS
  <2>0. hit = {} /\ ReleaseInv /\ LockInv /\ RecordInv
    BY HitLasts DEF Misled
  <2> USE DEF ReleaseInv, RecordInv, Clears, LockInv, Holds, WorkPhases, TypeInv, TypeOK, StopPhases,
              Phases, At, Goto, Cleaning
  <2>1. ASSUME NEW t \in Terminals, Begin(t) PROVE ReleaseInv'
    BY <2>1, <2>0 DEF Begin
  <2>2. ASSUME NEW t \in Terminals, Refuse(t) PROVE ReleaseInv'
    BY <2>2, <2>0 DEF Refuse, Moves
  <2>3. ASSUME NEW t \in Terminals, PrepareFails(t) PROVE ReleaseInv'
    BY <2>3, <2>0 DEF PrepareFails, Moves
  <2>4. ASSUME NEW t \in Terminals, StartInstall(t) PROVE ReleaseInv'
    BY <2>4, <2>0 DEF StartInstall, Moves
  <2>5. ASSUME NEW t \in Terminals, Install(t) PROVE ReleaseInv'
    BY <2>5, <2>0 DEF Install, Shell
  <2>6. ASSUME NEW t \in Terminals, Start(t) PROVE ReleaseInv'
    BY <2>6, <2>0 DEF Start, Shell
  <2>7. ASSUME NEW t \in Terminals, Stop(t) PROVE ReleaseInv'
    BY <2>7, <2>0 DEF Stop, Calls, Shell
  <2>8. ASSUME NEW t \in Terminals, Recover(t) PROVE ReleaseInv'
    BY <2>8, <2>0 DEF Recover, Calls, Shell
  <2>9. ASSUME NEW t \in Terminals, Update(t) PROVE ReleaseInv'
    BY <2>9, <2>0 DEF Update, Shell
  <2>10. ASSUME NEW t \in Terminals, Prepare(t) PROVE ReleaseInv'
    BY <2>10, <2>0 DEF Prepare, Shell
  <2>11. ASSUME NEW t \in Terminals, StopNothing(t) PROVE ReleaseInv'
    BY <2>11, <2>0 DEF StopNothing, Moves
  <2>12. ASSUME NEW t \in Terminals, StopSignal(t) PROVE ReleaseInv'
    BY <2>12, <2>0 DEF StopSignal
  <2>13. ASSUME NEW t \in Terminals, Stopped(t) PROVE ReleaseInv'
    BY <2>13, <2>0 DEF Stopped
  <2>14. ASSUME NEW t \in Terminals, Unrecord(t) PROVE ReleaseInv'
    BY <2>14, <2>0 DEF Unrecord, Shell
  <2>15. ASSUME NEW t \in Terminals, StopTimesOut(t) PROVE ReleaseInv'
    BY <2>15, <2>0 DEF StopTimesOut
  <2>16. ASSUME NEW t \in Terminals, Spawn(t) PROVE ReleaseInv'
    BY <2>16, <2>0 DEF Spawn, Unused
  <2>17. ASSUME NEW t \in Terminals, LaunchRefused(t) PROVE ReleaseInv'
    BY <2>17, <2>0 DEF LaunchRefused, Moves
  <2>18. ASSUME NEW t \in Terminals, Record(t) PROVE ReleaseInv'
    BY <2>18, <2>0 DEF Record, Shell
  <2>19. ASSUME NEW t \in Terminals, LaunchFails(t) PROVE ReleaseInv'
    BY <2>19, <2>0 DEF LaunchFails, Fail, Shell
  <2>20. ASSUME NEW t \in Terminals, Validated(t) PROVE ReleaseInv'
    BY <2>20, <2>0 DEF Validated, Shell
  <2>21. ASSUME NEW t \in Terminals, ValidateFails(t) PROVE ReleaseInv'
    BY <2>21, <2>0 DEF ValidateFails, Fail, Shell
  <2>22. ASSUME NEW t \in Terminals, Restore(t) PROVE ReleaseInv'
    BY <2>22, <2>0 DEF Restore, Shell
  <2>23. ASSUME NEW t \in Terminals, SwitchFails(t) PROVE ReleaseInv'
    BY <2>23, <2>0 DEF SwitchFails, Moves
  <2>24. ASSUME NEW t \in Terminals, KeepPrevious(t) PROVE ReleaseInv'
    BY <2>24, <2>0 DEF KeepPrevious, Shell
  <2>25. ASSUME NEW t \in Terminals, Commit(t) PROVE ReleaseInv'
    BY <2>25, <2>0 DEF Commit, Shell
  <2>26. ASSUME NEW t \in Terminals, RemoveFile(t) PROVE ReleaseInv'
    BY <2>26, <2>0 DEF RemoveFile, Shell
  <2>27. ASSUME NEW t \in Terminals, RemoveDirectory(t) PROVE ReleaseInv'
    BY <2>27, <2>0 DEF RemoveDirectory, Shell
  <2>28. ASSUME NEW t \in Terminals, Finish(t) PROVE ReleaseInv'
    BY <2>28, <2>0 DEF Finish, Moves, Calls, Shell
  <2>29. ASSUME NEW t \in Terminals, MakeLock(t) PROVE ReleaseInv'
    BY <2>29, <2>0 DEF MakeLock
  <2>30. ASSUME NEW t \in Terminals, MakeLockFails(t) PROVE ReleaseInv'
    BY <2>30, <2>0 DEF MakeLockFails, Cleared
  <2>31. ASSUME NEW t \in Terminals, Lock(t) PROVE ReleaseInv'
    BY <2>31, <2>0 DEF Lock
  <2>32. ASSUME NEW t \in Terminals, WriteOwner(t) PROVE ReleaseInv'
    BY <2>32, <2>0 DEF WriteOwner, Locked
  <2>33. ASSUME NEW t \in Terminals, WriteOwnerFails(t) PROVE ReleaseInv'
    <3>1. CASE Cleaning(t)
      <4>1. Vanish(t) /\ UNCHANGED bounds
        BY <2>33, <2>0, <3>1 DEF WriteOwnerFails, Fails
      <4>2. QED
        BY <2>33, <2>0, <3>1, <4>1 DEF WriteOwnerFails, Vanish
    <3>2. CASE ~Cleaning(t)
      BY <2>33, <2>0, <3>2 DEF WriteOwnerFails, Fails, Moves
    <3>3. QED
      BY <3>1, <3>2
  <2>34. ASSUME NEW t \in Terminals, RemoveOwner(t) PROVE ReleaseInv'
    BY <2>34, <2>0 DEF RemoveOwner
  <2>35. ASSUME NEW t \in Terminals, RemoveOwnerFails(t) PROVE ReleaseInv'
    <3>1. CASE Cleaning(t)
      <4>1. Vanish(t) /\ UNCHANGED bounds
        BY <2>35, <2>0, <3>1 DEF RemoveOwnerFails, Fails
      <4>2. QED
        BY <2>35, <2>0, <3>1, <4>1 DEF RemoveOwnerFails, Vanish
    <3>2. CASE ~Cleaning(t)
      BY <2>35, <2>0, <3>2 DEF RemoveOwnerFails, Fails, Moves
    <3>3. QED
      BY <3>1, <3>2
  <2>36. ASSUME NEW t \in Terminals, RemoveLock(t) PROVE ReleaseInv'
    BY <2>36, <2>0 DEF RemoveLock
  <2>37. ASSUME NEW t \in Terminals, RemoveLockFails(t) PROVE ReleaseInv'
    <3>1. CASE Cleaning(t)
      <4>1. Vanish(t) /\ UNCHANGED bounds
        BY <2>37, <2>0, <3>1 DEF RemoveLockFails, Fails
      <4>2. QED
        BY <2>37, <2>0, <3>1, <4>1 DEF RemoveLockFails, Vanish
    <3>2. CASE ~Cleaning(t)
      BY <2>37, <2>0, <3>2 DEF RemoveLockFails, Fails, Moves
    <3>3. QED
      BY <3>1, <3>2
  <2>38. ASSUME NEW t \in Terminals, Unlock(t) PROVE ReleaseInv'
    BY <2>38, <2>0 DEF Unlock
  <2>39. ASSUME NEW t \in Terminals, Reap(t) PROVE ReleaseInv'
    BY <2>39, <2>0 DEF Reap
  <2>40. ASSUME NEW t \in Terminals, Test(t) PROVE ReleaseInv'
    BY <2>40, <2>0 DEF Test, Moves
  <2>41. ASSUME NEW t \in Terminals, TestOther(t) PROVE ReleaseInv'
    BY <2>41, <2>0 DEF TestOther, Cleared
  <2>42. ASSUME NEW t \in Terminals, Forget(t) PROVE ReleaseInv'
    BY <2>42, <2>0 DEF Forget, Cleared
  <2>43. ASSUME NEW t \in Terminals, ForgetFails(t) PROVE ReleaseInv'
    <3>1. CASE Cleaning(t)
      <4>1. Vanish(t) /\ UNCHANGED bounds
        BY <2>43, <2>0, <3>1 DEF ForgetFails, Fails
      <4>2. QED
        BY <2>43, <2>0, <3>1, <4>1 DEF ForgetFails, Vanish
    <3>2. CASE ~Cleaning(t)
      BY <2>43, <2>0, <3>2 DEF ForgetFails, Fails, Moves
    <3>3. QED
      BY <3>1, <3>2
  <2>44. ASSUME NEW t \in Terminals, ExitWaits(t) PROVE ReleaseInv'
    BY <2>44, <2>0 DEF ExitWaits, Moves
  <2>45. ASSUME NEW t \in Terminals, Exit(t) PROVE ReleaseInv'
    BY <2>45, <2>0 DEF Exit
  <2>46. ASSUME NEW t \in Terminals, ExitGivesUp(t) PROVE ReleaseInv'
    BY <2>46, <2>0 DEF ExitGivesUp, Shell
  <2>47. ASSUME NEW t \in Terminals, ExitEnds(t) PROVE ReleaseInv'
    BY <2>47, <2>0 DEF ExitEnds, Vanish
  <2>48. ASSUME NEW t \in Terminals, Signal(t) PROVE ReleaseInv'
    BY <2>48, <2>0 DEF Signal, Window
  <2>49. ASSUME NEW t \in Terminals, SignalAgain(t) PROVE ReleaseInv'
    BY <2>49, <2>0 DEF SignalAgain, Vanish
  <2>50. ASSUME NEW t \in Terminals, Kill(t) PROVE ReleaseInv'
    BY <2>50, <2>0 DEF Kill, Vanish
  <2>51. ASSUME NEW p \in Pids, ProcessEnds(p) PROVE ReleaseInv'
    BY <2>51, <2>0 DEF ProcessEnds
  <2>52. CASE PowerLoss
    BY <2>52, <2>0 DEF PowerLoss
  <2>53. CASE RenameStaleLock
    BY <2>53, <2>0 DEF RenameStaleLock
  <2>54. CASE UNCHANGED vars
    BY <2>54, <2>0 DEF vars
  <2>55. QED
    BY <2>1, <2>2, <2>3, <2>4, <2>5, <2>6, <2>7, <2>8, <2>9, <2>10, <2>11, <2>12, <2>13, <2>14,
       <2>15, <2>16, <2>17, <2>18, <2>19, <2>20, <2>21, <2>22, <2>23, <2>24, <2>25, <2>26, <2>27,
       <2>28, <2>29, <2>30, <2>31, <2>32, <2>33, <2>34, <2>35, <2>36, <2>37, <2>38, <2>39, <2>40,
       <2>41, <2>42, <2>43, <2>44, <2>45, <2>46, <2>47, <2>48, <2>49, <2>50, <2>51, <2>52, <2>53,
       <2>54
    DEF Next, ShellStep, Main, Process, Switch, Locking, Leaving
<1>3. QED
  BY <1>1, <1>2, LockInvariance, RecordInvariance, TypeInvariance, PTL DEF Spec

\* Whatever ends an operation releases its lock, but for a kill and the signals
\* that hit the lock in the making, in the removal, or in cleanup.
THEOREM LocksAreReleased == Spec => []LockIsReleased
<1>1. (hit # {} \/ ReleaseInv) => LockIsReleased
  BY DEF ReleaseInv, LockIsReleased
<1>2. QED
  BY <1>1, ReleaseInvariance, PTL

-----------------------------------------------------------------------------
\* Where a shell is on its way to phase q: there, or in stop_owned before it.
Towards(t, q) == pc[t] = q \/ (pc[t] \in StopPhases /\ after[t] = q)

\* Switching with a candidate, and with the deployment before it.
Forward(t)  == job[t] = "update" /\ (Towards(t, "launch") \/ Towards(t, "previous")
                                     \/ pc[t] \in {"record", "validate", "commit"})
Backward(t) == job[t] = "recover" /\ (pc[t] \in {"launch", "record", "validate"}
                                      \/ Towards(t, "revert"))

\* What a shell in an operation knows of the switch.
VersionInv ==
  \A t \in Terminals :
    /\ pc[t] \in {"launch", "record", "validate"} => job[t] \in {"start", "update", "recover"}
    /\ pc[t] = "prepare" => /\ transaction = None
                            /\ job[t] = "update" \/ (job[t] = "install" /\ current = None)
    /\ pc[t] \in {"launch", "record"} /\ job[t] = "start" => version[t] = current
    /\ pc[t] \in {"previous", "commit"} => job[t] = "update"
    /\ pc[t] \in {"restore", "revert"} => job[t] = "recover"
    /\ pc[t] \in StopPhases =>
         \/ after[t] = "exit"
         \/ job[t] = "update" /\ after[t] \in {"launch", "previous"}
         \/ job[t] = "recover" /\ after[t] \in {"restore", "revert"}
    /\ Forward(t) => transaction # None /\ "old" \in transaction.files /\ version[t] = transaction.new
    /\ Backward(t) => transaction # None /\ "old" \in transaction.files /\ version[t] = transaction.old
    /\ Towards(t, "restore") \/ pc[t] = "remove" => transaction # None
    /\ Towards(t, "previous") \/ Towards(t, "revert") \/ pc[t] = "commit" => version[t] \in validated[t]

\* VersionInv is inductive: only the shell that holds the lock changes what it
\* speaks of.
LEMMA VersionInvariance == Spec => [](Misled \/ VersionInv)
<1> USE NoneAssumption DEF NoneAssumption
<1>1. Init => Misled \/ VersionInv
  BY DEF Init, VersionInv, Towards, Forward, Backward, StopPhases
<1>2. /\ Misled \/ VersionInv
      /\ Misled \/ LockInv
      /\ TypeInv /\ [Next]_vars
      => (Misled \/ VersionInv)'
  <2> SUFFICES ASSUME Misled \/ VersionInv,
                      Misled \/ LockInv, TypeInv, [Next]_vars, ~Misled'
               PROVE  VersionInv'
    OBVIOUS
  <2>0. ~Misled /\ VersionInv /\ LockInv
    BY TrustLasts
  <2> USE DEF VersionInv, Towards, Forward, Backward, LockInv, Holds, WorkPhases, TypeInv, TypeOK, StopPhases, Phases, At, Goto,
              Cleaning, Transactions, Saved, TransactionFiles
  <2>1. ASSUME NEW t \in Terminals, Begin(t) PROVE VersionInv'
    BY <2>1, <2>0 DEF Begin
  <2>2. ASSUME NEW t \in Terminals, Refuse(t) PROVE VersionInv'
    BY <2>2, <2>0 DEF Refuse, Moves
  <2>3. ASSUME NEW t \in Terminals, PrepareFails(t) PROVE VersionInv'
    BY <2>3, <2>0 DEF PrepareFails, Moves
  <2>4. ASSUME NEW t \in Terminals, StartInstall(t) PROVE VersionInv'
    BY <2>4, <2>0 DEF StartInstall, Moves, Allowed
  <2>5. ASSUME NEW t \in Terminals, Install(t) PROVE VersionInv'
    BY <2>5, <2>0 DEF Install, Shell
  <2>6. ASSUME NEW t \in Terminals, Start(t) PROVE VersionInv'
    BY <2>6, <2>0 DEF Start, Shell, Allowed
  <2>7. ASSUME NEW t \in Terminals, Stop(t) PROVE VersionInv'
    BY <2>7, <2>0 DEF Stop, Calls, Shell, Allowed
  <2>8. ASSUME NEW t \in Terminals, Recover(t) PROVE VersionInv'
    BY <2>8, <2>0 DEF Recover, Calls, Shell, Allowed
  <2>9. ASSUME NEW t \in Terminals, Update(t) PROVE VersionInv'
    BY <2>9, <2>0 DEF Update, Shell, Allowed
  <2>10. ASSUME NEW t \in Terminals, Prepare(t) PROVE VersionInv'
    BY <2>10, <2>0 DEF Prepare, Shell
  <2>11. ASSUME NEW t \in Terminals, StopNothing(t) PROVE VersionInv'
    BY <2>11, <2>0 DEF StopNothing, Moves
  <2>12. ASSUME NEW t \in Terminals, StopSignal(t) PROVE VersionInv'
    BY <2>12, <2>0 DEF StopSignal
  <2>13. ASSUME NEW t \in Terminals, Stopped(t) PROVE VersionInv'
    BY <2>13, <2>0 DEF Stopped
  <2>14. ASSUME NEW t \in Terminals, Unrecord(t) PROVE VersionInv'
    BY <2>14, <2>0 DEF Unrecord, Shell
  <2>15. ASSUME NEW t \in Terminals, StopTimesOut(t) PROVE VersionInv'
    BY <2>15, <2>0 DEF StopTimesOut
  <2>16. ASSUME NEW t \in Terminals, Spawn(t) PROVE VersionInv'
    BY <2>16, <2>0 DEF Spawn, Unused
  <2>17. ASSUME NEW t \in Terminals, LaunchRefused(t) PROVE VersionInv'
    BY <2>17, <2>0 DEF LaunchRefused, Moves
  <2>18. ASSUME NEW t \in Terminals, Record(t) PROVE VersionInv'
    BY <2>18, <2>0 DEF Record, Shell
  <2>19. ASSUME NEW t \in Terminals, LaunchFails(t) PROVE VersionInv'
    BY <2>19, <2>0 DEF LaunchFails, Fail, Shell
  <2>20. ASSUME NEW t \in Terminals, Validated(t) PROVE VersionInv'
    <3>1. CASE job[t] = "start"
      BY <2>20, <2>0, <3>1 DEF Validated, Shell
    <3>2. CASE job[t] = "update"
      BY <2>20, <2>0, <3>2 DEF Validated, Shell
    <3>3. CASE job[t] \notin {"start", "update"}
      BY <2>20, <2>0, <3>3 DEF Validated, Shell
    <3>4. QED
      BY <3>1, <3>2, <3>3
  <2>21. ASSUME NEW t \in Terminals, ValidateFails(t) PROVE VersionInv'
    BY <2>21, <2>0 DEF ValidateFails, Fail, Shell
  <2>22. ASSUME NEW t \in Terminals, Restore(t) PROVE VersionInv'
    BY <2>22, <2>0 DEF Restore, Shell
  <2>23. ASSUME NEW t \in Terminals, SwitchFails(t) PROVE VersionInv'
    BY <2>23, <2>0 DEF SwitchFails, Moves
  <2>24. ASSUME NEW t \in Terminals, KeepPrevious(t) PROVE VersionInv'
    BY <2>24, <2>0 DEF KeepPrevious, Shell
  <2>25. ASSUME NEW t \in Terminals, Commit(t) PROVE VersionInv'
    BY <2>25, <2>0 DEF Commit, Shell
  <2>26. ASSUME NEW t \in Terminals, RemoveFile(t) PROVE VersionInv'
    BY <2>26, <2>0 DEF RemoveFile, Shell
  <2>27. ASSUME NEW t \in Terminals, RemoveDirectory(t) PROVE VersionInv'
    BY <2>27, <2>0 DEF RemoveDirectory, Shell
  <2>28. ASSUME NEW t \in Terminals, Finish(t) PROVE VersionInv'
    BY <2>28, <2>0 DEF Finish, Moves, Calls, Shell
  <2>29. ASSUME NEW t \in Terminals, MakeLock(t) PROVE VersionInv'
    BY <2>29, <2>0 DEF MakeLock
  <2>30. ASSUME NEW t \in Terminals, MakeLockFails(t) PROVE VersionInv'
    BY <2>30, <2>0 DEF MakeLockFails, Cleared
  <2>31. ASSUME NEW t \in Terminals, Lock(t) PROVE VersionInv'
    BY <2>31, <2>0 DEF Lock
  <2>32. ASSUME NEW t \in Terminals, WriteOwner(t) PROVE VersionInv'
    BY <2>32, <2>0 DEF WriteOwner, Locked
  <2>33. ASSUME NEW t \in Terminals, WriteOwnerFails(t) PROVE VersionInv'
    <3>1. CASE Cleaning(t)
      <4>1. Vanish(t) /\ UNCHANGED bounds
        BY <2>33, <2>0, <3>1 DEF WriteOwnerFails, Fails
      <4>2. QED
        BY <2>33, <2>0, <3>1, <4>1 DEF WriteOwnerFails, Vanish
    <3>2. CASE ~Cleaning(t)
      BY <2>33, <2>0, <3>2 DEF WriteOwnerFails, Fails, Moves
    <3>3. QED
      BY <3>1, <3>2
  <2>34. ASSUME NEW t \in Terminals, RemoveOwner(t) PROVE VersionInv'
    BY <2>34, <2>0 DEF RemoveOwner
  <2>35. ASSUME NEW t \in Terminals, RemoveOwnerFails(t) PROVE VersionInv'
    <3>1. CASE Cleaning(t)
      <4>1. Vanish(t) /\ UNCHANGED bounds
        BY <2>35, <2>0, <3>1 DEF RemoveOwnerFails, Fails
      <4>2. QED
        BY <2>35, <2>0, <3>1, <4>1 DEF RemoveOwnerFails, Vanish
    <3>2. CASE ~Cleaning(t)
      BY <2>35, <2>0, <3>2 DEF RemoveOwnerFails, Fails, Moves
    <3>3. QED
      BY <3>1, <3>2
  <2>36. ASSUME NEW t \in Terminals, RemoveLock(t) PROVE VersionInv'
    BY <2>36, <2>0 DEF RemoveLock
  <2>37. ASSUME NEW t \in Terminals, RemoveLockFails(t) PROVE VersionInv'
    <3>1. CASE Cleaning(t)
      <4>1. Vanish(t) /\ UNCHANGED bounds
        BY <2>37, <2>0, <3>1 DEF RemoveLockFails, Fails
      <4>2. QED
        BY <2>37, <2>0, <3>1, <4>1 DEF RemoveLockFails, Vanish
    <3>2. CASE ~Cleaning(t)
      BY <2>37, <2>0, <3>2 DEF RemoveLockFails, Fails, Moves
    <3>3. QED
      BY <3>1, <3>2
  <2>38. ASSUME NEW t \in Terminals, Unlock(t) PROVE VersionInv'
    BY <2>38, <2>0 DEF Unlock
  <2>39. ASSUME NEW t \in Terminals, Reap(t) PROVE VersionInv'
    BY <2>39, <2>0 DEF Reap
  <2>40. ASSUME NEW t \in Terminals, Test(t) PROVE VersionInv'
    BY <2>40, <2>0 DEF Test, Moves
  <2>41. ASSUME NEW t \in Terminals, TestOther(t) PROVE VersionInv'
    BY <2>41, <2>0 DEF TestOther, Cleared
  <2>42. ASSUME NEW t \in Terminals, Forget(t) PROVE VersionInv'
    BY <2>42, <2>0 DEF Forget, Cleared
  <2>43. ASSUME NEW t \in Terminals, ForgetFails(t) PROVE VersionInv'
    <3>1. CASE Cleaning(t)
      <4>1. Vanish(t) /\ UNCHANGED bounds
        BY <2>43, <2>0, <3>1 DEF ForgetFails, Fails
      <4>2. QED
        BY <2>43, <2>0, <3>1, <4>1 DEF ForgetFails, Vanish
    <3>2. CASE ~Cleaning(t)
      BY <2>43, <2>0, <3>2 DEF ForgetFails, Fails, Moves
    <3>3. QED
      BY <3>1, <3>2
  <2>44. ASSUME NEW t \in Terminals, ExitWaits(t) PROVE VersionInv'
    BY <2>44, <2>0 DEF ExitWaits, Moves
  <2>45. ASSUME NEW t \in Terminals, Exit(t) PROVE VersionInv'
    BY <2>45, <2>0 DEF Exit
  <2>46. ASSUME NEW t \in Terminals, ExitGivesUp(t) PROVE VersionInv'
    BY <2>46, <2>0 DEF ExitGivesUp, Shell
  <2>47. ASSUME NEW t \in Terminals, ExitEnds(t) PROVE VersionInv'
    BY <2>47, <2>0 DEF ExitEnds, Vanish
  <2>48. ASSUME NEW t \in Terminals, Signal(t) PROVE VersionInv'
    BY <2>48, <2>0 DEF Signal, Window
  <2>49. ASSUME NEW t \in Terminals, SignalAgain(t) PROVE VersionInv'
    BY <2>49, <2>0 DEF SignalAgain, Vanish
  <2>50. ASSUME NEW t \in Terminals, Kill(t) PROVE VersionInv'
    BY <2>50, <2>0 DEF Kill, Vanish
  <2>51. ASSUME NEW p \in Pids, ProcessEnds(p) PROVE VersionInv'
    BY <2>51, <2>0 DEF ProcessEnds
  <2>52. CASE PowerLoss
    BY <2>52, <2>0 DEF PowerLoss
  <2>53. CASE RenameStaleLock
    BY <2>53, <2>0 DEF RenameStaleLock
  <2>54. CASE UNCHANGED vars
    BY <2>54, <2>0 DEF vars
  <2>55. QED
    BY <2>1, <2>2, <2>3, <2>4, <2>5, <2>6, <2>7, <2>8, <2>9, <2>10, <2>11, <2>12, <2>13, <2>14,
       <2>15, <2>16, <2>17, <2>18, <2>19, <2>20, <2>21, <2>22, <2>23, <2>24, <2>25, <2>26, <2>27,
       <2>28, <2>29, <2>30, <2>31, <2>32, <2>33, <2>34, <2>35, <2>36, <2>37, <2>38, <2>39, <2>40,
       <2>41, <2>42, <2>43, <2>44, <2>45, <2>46, <2>47, <2>48, <2>49, <2>50, <2>51, <2>52, <2>53,
       <2>54
    DEF Next, ShellStep, Main, Process, Switch, Locking, Leaving
<1>3. QED
  BY <1>1, <1>2, LockInvariance, TypeInvariance, PTL DEF Spec

\* A configuration in use is replaced only by one the operation with the lock has
\* validated, until a signal falls between rmdir and locked=0.
THEOREM CommitsAreValidated == Spec => CommittedIsValidated
<1>1. (Misled \/ VersionInv) /\ (Misled \/ LockInv) /\ TypeInv /\ [Next]_vars
        => [~Misled /\ current' # current /\ current # None
              => \E t \in Terminals : lock = t /\ current' \in validated[t]]_vars
  <2> SUFFICES ASSUME VersionInv, LockInv, TypeInv, [Next]_vars, current' # current, current # None
               PROVE  \E t \in Terminals : lock = t /\ current' \in validated[t]
    OBVIOUS
  <2> DEFINE Validly == \E t \in Terminals : lock = t /\ current' \in validated[t]
  <2> USE DEF At
  <2>1. ASSUME NEW t \in Terminals, Commit(t) PROVE Validly
    BY <2>1 DEF Commit, VersionInv, LockInv, Holds, WorkPhases, Forward, Backward, Towards, Saved
  <2>2. ASSUME NEW t \in Terminals, Install(t) PROVE Validly
    BY <2>2 DEF Install, VersionInv
  <2>3. ASSUME NEW t \in Terminals,
               Refuse(t) \/ PrepareFails(t) \/ StartInstall(t) \/ Start(t) \/ Stop(t) \/
               Recover(t) \/ Update(t) \/ Prepare(t)
        PROVE Validly
    BY <2>3 DEF Refuse, Moves, PrepareFails, StartInstall, Start, Shell, Stop, Calls, Recover,
           Update, Prepare
  <2>4. ASSUME NEW t \in Terminals,
               StopNothing(t) \/ StopSignal(t) \/ Stopped(t) \/ Unrecord(t) \/ StopTimesOut(t)
               \/ Spawn(t) \/ LaunchRefused(t) \/ Record(t) \/ LaunchFails(t) \/ Validated(t)
               \/ ValidateFails(t)
        PROVE Validly
    BY <2>4 DEF StopNothing, Moves, StopSignal, Stopped, Unrecord, Shell, StopTimesOut, Spawn,
           LaunchRefused, Record, LaunchFails, Fail, Validated, ValidateFails
  <2>5. ASSUME NEW t \in Terminals,
               Restore(t) \/ SwitchFails(t) \/ KeepPrevious(t) \/ RemoveFile(t) \/
               RemoveDirectory(t) \/ Finish(t)
        PROVE Validly
    BY <2>5 DEF Restore, Shell, SwitchFails, Moves, KeepPrevious, RemoveFile, RemoveDirectory,
           Finish, Calls
  <2>6. ASSUME NEW t \in Terminals,
               MakeLock(t) \/ MakeLockFails(t) \/ Lock(t) \/ WriteOwner(t) \/
               WriteOwnerFails(t) \/ RemoveOwner(t) \/ RemoveOwnerFails(t) \/ RemoveLock(t) \/
               RemoveLockFails(t) \/ Unlock(t)
        PROVE Validly
    BY <2>6 DEF MakeLock, MakeLockFails, Cleared, Lock, WriteOwner, Locked, WriteOwnerFails,
           Fails, Moves, Vanish, RemoveOwner, RemoveOwnerFails, RemoveLock, RemoveLockFails,
           Unlock
  <2>7. ASSUME NEW t \in Terminals,
               Reap(t) \/ Test(t) \/ TestOther(t) \/ Forget(t) \/ ForgetFails(t) \/
               ExitWaits(t) \/ Exit(t) \/ ExitGivesUp(t) \/ ExitEnds(t)
        PROVE Validly
    BY <2>7 DEF Reap, Test, Moves, TestOther, Cleared, Forget, ForgetFails, Fails, Vanish,
           ExitWaits, Exit, ExitGivesUp, Shell, ExitEnds
  <2>8. ASSUME NEW t \in Terminals, Begin(t) \/ Signal(t) \/ SignalAgain(t) \/ Kill(t)
        PROVE Validly
    BY <2>8 DEF Begin, Signal, SignalAgain, Kill, Vanish
  <2>9. CASE (\E p \in Pids : ProcessEnds(p)) \/ PowerLoss \/ RenameStaleLock \/ UNCHANGED vars
    BY <2>9 DEF ProcessEnds, PowerLoss, RenameStaleLock, vars
  <2>10. QED
    BY <2>1, <2>2, <2>3, <2>4, <2>5, <2>6, <2>7, <2>8, <2>9
    DEF Next, ShellStep, Main, Process, Switch, Locking, Leaving
<1>2. QED
  BY <1>1, VersionInvariance, LockInvariance, TypeInvariance, PTL DEF Spec, CommittedIsValidated

-----------------------------------------------------------------------------
\* The process on record runs what its operation has in hand.
RunsInv ==
  /\ \A p \in alive : runs[p] # None
  /\ \A t \in Terminals :
       /\ pc[t] = "record" /\ child[t] \in alive => runs[child[t]] = version[t]
       /\ Owned /\ (pc[t] \in {"validate", "commit"} \/ Towards(t, "previous") \/ Towards(t, "revert"))
            => runs[record] = version[t]
       /\ Owned /\ pc[t] = "remove" => runs[record] = current
  /\ Owned /\ runs[record] # current => "old" \in Saved

\* RunsInv is inductive relative to the invariants above.
LEMMA RunsInvariance == Spec => [](Misled \/ RunsInv)
<1> USE NoneAssumption DEF NoneAssumption
<1>1. Init => Misled \/ RunsInv
  BY DEF Init, RunsInv, Owned, Towards, StopPhases
<1>2. /\ Misled \/ RunsInv
      /\ Misled \/ VersionInv
      /\ Misled \/ RecordInv
      /\ Misled \/ LockInv
      /\ TypeInv /\ [Next]_vars
      => (Misled \/ RunsInv)'
  <2> SUFFICES ASSUME Misled \/ RunsInv,
                      Misled \/ VersionInv,
                      Misled \/ RecordInv,
                      Misled \/ LockInv, TypeInv, [Next]_vars, ~Misled'
               PROVE  RunsInv'
    OBVIOUS
  <2>0. ~Misled /\ RunsInv /\ VersionInv /\ RecordInv /\ LockInv
    BY TrustLasts
  <2> USE DEF RunsInv, Owned, VersionInv, Towards, Forward, Backward, RecordInv, Clears,
              LockInv, Holds, WorkPhases, TypeInv, TypeOK, StopPhases, Phases, At, Goto,
              Cleaning, Transactions, Saved, TransactionFiles
  <2>1. ASSUME NEW t \in Terminals, Begin(t) PROVE RunsInv'
    BY <2>1, <2>0 DEF Begin
  <2>2. ASSUME NEW t \in Terminals, Refuse(t) PROVE RunsInv'
    BY <2>2, <2>0 DEF Refuse, Moves
  <2>3. ASSUME NEW t \in Terminals, PrepareFails(t) PROVE RunsInv'
    BY <2>3, <2>0 DEF PrepareFails, Moves
  <2>4. ASSUME NEW t \in Terminals, StartInstall(t) PROVE RunsInv'
    BY <2>4, <2>0 DEF StartInstall, Moves, Allowed
  <2>5. ASSUME NEW t \in Terminals, Install(t) PROVE RunsInv'
    BY <2>5, <2>0 DEF Install, Shell
  <2>6. ASSUME NEW t \in Terminals, Start(t) PROVE RunsInv'
    BY <2>6, <2>0 DEF Start, Shell, Allowed
  <2>7. ASSUME NEW t \in Terminals, Stop(t) PROVE RunsInv'
    BY <2>7, <2>0 DEF Stop, Calls, Shell, Allowed
  <2>8. ASSUME NEW t \in Terminals, Recover(t) PROVE RunsInv'
    BY <2>8, <2>0 DEF Recover, Calls, Shell, Allowed
  <2>9. ASSUME NEW t \in Terminals, Update(t) PROVE RunsInv'
    BY <2>9, <2>0 DEF Update, Shell, Allowed
  <2>10. ASSUME NEW t \in Terminals, Prepare(t) PROVE RunsInv'
    BY <2>10, <2>0 DEF Prepare, Shell
  <2>11. ASSUME NEW t \in Terminals, StopNothing(t) PROVE RunsInv'
    BY <2>11, <2>0 DEF StopNothing, Moves
  <2>12. ASSUME NEW t \in Terminals, StopSignal(t) PROVE RunsInv'
    BY <2>12, <2>0 DEF StopSignal
  <2>13. ASSUME NEW t \in Terminals, Stopped(t) PROVE RunsInv'
    BY <2>13, <2>0 DEF Stopped
  <2>14. ASSUME NEW t \in Terminals, Unrecord(t) PROVE RunsInv'
    BY <2>14, <2>0 DEF Unrecord, Shell
  <2>15. ASSUME NEW t \in Terminals, StopTimesOut(t) PROVE RunsInv'
    BY <2>15, <2>0 DEF StopTimesOut
  <2>16. ASSUME NEW t \in Terminals, Spawn(t) PROVE RunsInv'
    BY <2>16, <2>0 DEF Spawn, Unused
  <2>17. ASSUME NEW t \in Terminals, LaunchRefused(t) PROVE RunsInv'
    BY <2>17, <2>0 DEF LaunchRefused, Moves
  <2>18. ASSUME NEW t \in Terminals, Record(t) PROVE RunsInv'
    BY <2>18, <2>0 DEF Record, Shell
  <2>19. ASSUME NEW t \in Terminals, LaunchFails(t) PROVE RunsInv'
    BY <2>19, <2>0 DEF LaunchFails, Fail, Shell
  <2>20. ASSUME NEW t \in Terminals, Validated(t) PROVE RunsInv'
    <3>1. CASE job[t] = "start"
      BY <2>20, <2>0, <3>1 DEF Validated, Shell
    <3>2. CASE job[t] = "update"
      BY <2>20, <2>0, <3>2 DEF Validated, Shell
    <3>3. CASE job[t] \notin {"start", "update"}
      BY <2>20, <2>0, <3>3 DEF Validated, Shell
    <3>4. QED
      BY <3>1, <3>2, <3>3
  <2>21. ASSUME NEW t \in Terminals, ValidateFails(t) PROVE RunsInv'
    BY <2>21, <2>0 DEF ValidateFails, Fail, Shell
  <2>22. ASSUME NEW t \in Terminals, Restore(t) PROVE RunsInv'
    BY <2>22, <2>0 DEF Restore, Shell
  <2>23. ASSUME NEW t \in Terminals, SwitchFails(t) PROVE RunsInv'
    BY <2>23, <2>0 DEF SwitchFails, Moves
  <2>24. ASSUME NEW t \in Terminals, KeepPrevious(t) PROVE RunsInv'
    BY <2>24, <2>0 DEF KeepPrevious, Shell
  <2>25. ASSUME NEW t \in Terminals, Commit(t) PROVE RunsInv'
    BY <2>25, <2>0 DEF Commit, Shell
  <2>26. ASSUME NEW t \in Terminals, RemoveFile(t) PROVE RunsInv'
    BY <2>26, <2>0 DEF RemoveFile, Shell
  <2>27. ASSUME NEW t \in Terminals, RemoveDirectory(t) PROVE RunsInv'
    BY <2>27, <2>0 DEF RemoveDirectory, Shell
  <2>28. ASSUME NEW t \in Terminals, Finish(t) PROVE RunsInv'
    BY <2>28, <2>0 DEF Finish, Moves, Calls, Shell
  <2>29. ASSUME NEW t \in Terminals, MakeLock(t) PROVE RunsInv'
    BY <2>29, <2>0 DEF MakeLock
  <2>30. ASSUME NEW t \in Terminals, MakeLockFails(t) PROVE RunsInv'
    BY <2>30, <2>0 DEF MakeLockFails, Cleared
  <2>31. ASSUME NEW t \in Terminals, Lock(t) PROVE RunsInv'
    BY <2>31, <2>0 DEF Lock
  <2>32. ASSUME NEW t \in Terminals, WriteOwner(t) PROVE RunsInv'
    BY <2>32, <2>0 DEF WriteOwner, Locked
  <2>33. ASSUME NEW t \in Terminals, WriteOwnerFails(t) PROVE RunsInv'
    <3>1. CASE Cleaning(t)
      <4>1. Vanish(t) /\ UNCHANGED bounds
        BY <2>33, <2>0, <3>1 DEF WriteOwnerFails, Fails
      <4>2. QED
        BY <2>33, <2>0, <3>1, <4>1 DEF WriteOwnerFails, Vanish
    <3>2. CASE ~Cleaning(t)
      BY <2>33, <2>0, <3>2 DEF WriteOwnerFails, Fails, Moves
    <3>3. QED
      BY <3>1, <3>2
  <2>34. ASSUME NEW t \in Terminals, RemoveOwner(t) PROVE RunsInv'
    BY <2>34, <2>0 DEF RemoveOwner
  <2>35. ASSUME NEW t \in Terminals, RemoveOwnerFails(t) PROVE RunsInv'
    <3>1. CASE Cleaning(t)
      <4>1. Vanish(t) /\ UNCHANGED bounds
        BY <2>35, <2>0, <3>1 DEF RemoveOwnerFails, Fails
      <4>2. QED
        BY <2>35, <2>0, <3>1, <4>1 DEF RemoveOwnerFails, Vanish
    <3>2. CASE ~Cleaning(t)
      BY <2>35, <2>0, <3>2 DEF RemoveOwnerFails, Fails, Moves
    <3>3. QED
      BY <3>1, <3>2
  <2>36. ASSUME NEW t \in Terminals, RemoveLock(t) PROVE RunsInv'
    BY <2>36, <2>0 DEF RemoveLock
  <2>37. ASSUME NEW t \in Terminals, RemoveLockFails(t) PROVE RunsInv'
    <3>1. CASE Cleaning(t)
      <4>1. Vanish(t) /\ UNCHANGED bounds
        BY <2>37, <2>0, <3>1 DEF RemoveLockFails, Fails
      <4>2. QED
        BY <2>37, <2>0, <3>1, <4>1 DEF RemoveLockFails, Vanish
    <3>2. CASE ~Cleaning(t)
      BY <2>37, <2>0, <3>2 DEF RemoveLockFails, Fails, Moves
    <3>3. QED
      BY <3>1, <3>2
  <2>38. ASSUME NEW t \in Terminals, Unlock(t) PROVE RunsInv'
    BY <2>38, <2>0 DEF Unlock
  <2>39. ASSUME NEW t \in Terminals, Reap(t) PROVE RunsInv'
    BY <2>39, <2>0 DEF Reap
  <2>40. ASSUME NEW t \in Terminals, Test(t) PROVE RunsInv'
    BY <2>40, <2>0 DEF Test, Moves
  <2>41. ASSUME NEW t \in Terminals, TestOther(t) PROVE RunsInv'
    BY <2>41, <2>0 DEF TestOther, Cleared
  <2>42. ASSUME NEW t \in Terminals, Forget(t) PROVE RunsInv'
    BY <2>42, <2>0 DEF Forget, Cleared
  <2>43. ASSUME NEW t \in Terminals, ForgetFails(t) PROVE RunsInv'
    <3>1. CASE Cleaning(t)
      <4>1. Vanish(t) /\ UNCHANGED bounds
        BY <2>43, <2>0, <3>1 DEF ForgetFails, Fails
      <4>2. QED
        BY <2>43, <2>0, <3>1, <4>1 DEF ForgetFails, Vanish
    <3>2. CASE ~Cleaning(t)
      BY <2>43, <2>0, <3>2 DEF ForgetFails, Fails, Moves
    <3>3. QED
      BY <3>1, <3>2
  <2>44. ASSUME NEW t \in Terminals, ExitWaits(t) PROVE RunsInv'
    BY <2>44, <2>0 DEF ExitWaits, Moves
  <2>45. ASSUME NEW t \in Terminals, Exit(t) PROVE RunsInv'
    BY <2>45, <2>0 DEF Exit
  <2>46. ASSUME NEW t \in Terminals, ExitGivesUp(t) PROVE RunsInv'
    BY <2>46, <2>0 DEF ExitGivesUp, Shell
  <2>47. ASSUME NEW t \in Terminals, ExitEnds(t) PROVE RunsInv'
    BY <2>47, <2>0 DEF ExitEnds, Vanish
  <2>48. ASSUME NEW t \in Terminals, Signal(t) PROVE RunsInv'
    BY <2>48, <2>0 DEF Signal, Window
  <2>49. ASSUME NEW t \in Terminals, SignalAgain(t) PROVE RunsInv'
    BY <2>49, <2>0 DEF SignalAgain, Vanish
  <2>50. ASSUME NEW t \in Terminals, Kill(t) PROVE RunsInv'
    BY <2>50, <2>0 DEF Kill, Vanish
  <2>51. ASSUME NEW p \in Pids, ProcessEnds(p) PROVE RunsInv'
    BY <2>51, <2>0 DEF ProcessEnds
  <2>52. CASE PowerLoss
    BY <2>52, <2>0 DEF PowerLoss
  <2>53. CASE RenameStaleLock
    BY <2>53, <2>0 DEF RenameStaleLock
  <2>54. CASE UNCHANGED vars
    BY <2>54, <2>0 DEF vars
  <2>55. QED
    BY <2>1, <2>2, <2>3, <2>4, <2>5, <2>6, <2>7, <2>8, <2>9, <2>10, <2>11, <2>12, <2>13, <2>14,
       <2>15, <2>16, <2>17, <2>18, <2>19, <2>20, <2>21, <2>22, <2>23, <2>24, <2>25, <2>26, <2>27,
       <2>28, <2>29, <2>30, <2>31, <2>32, <2>33, <2>34, <2>35, <2>36, <2>37, <2>38, <2>39, <2>40,
       <2>41, <2>42, <2>43, <2>44, <2>45, <2>46, <2>47, <2>48, <2>49, <2>50, <2>51, <2>52, <2>53,
       <2>54
    DEF Next, ShellStep, Main, Process, Switch, Locking, Leaving
<1>3. QED
  BY <1>1, <1>2, VersionInvariance, RecordInvariance, LockInvariance, TypeInvariance, PTL DEF Spec

\* An unfinished switch can be undone, whatever has interrupted it, as long as no shell
\* is misled about the lock.
THEOREM SwitchesAreRecoverable == Spec => []SwitchIsRecoverable
<1>1. (Misled \/ RunsInv) => SwitchIsRecoverable
  BY DEF RunsInv, SwitchIsRecoverable
<1>2. QED
  BY <1>1, RunsInvariance, PTL

-----------------------------------------------------------------------------
\* Every process that is not a stray is on record, or the child of the only
\* shell that works on the deployment.  That shell may be an update that goes
\* back, its candidate not recorded.
ChildInv ==
  /\ \A p \in alive \ strays : p = record \/ \E t \in Terminals : child[t] = p
  /\ \A t \in Terminals :
       child[t] \in alive => \/ child[t] = record
                             \/ child[t] \in strays
                             \/ /\ locked[t] /\ record \notin alive
                                /\ \/ pc[t] \in {"restore", "launch", "record", "exit", "ending"}
                                   \/ pc[t] \in StopPhases /\ after[t] \in {"exit", "launch", "restore"}

\* ChildInv is inductive relative to LockInv and RecordInv.
LEMMA ChildInvariance == Spec => [](Misled \/ ChildInv)
<1> USE NoneAssumption DEF NoneAssumption
<1>1. Init => Misled \/ ChildInv
  BY DEF Init, ChildInv
<1>2. /\ Misled \/ ChildInv
      /\ Misled \/ RecordInv
      /\ Misled \/ LockInv
      /\ TypeInv /\ [Next]_vars
      => (Misled \/ ChildInv)'
  <2> SUFFICES ASSUME Misled \/ ChildInv,
                      Misled \/ RecordInv,
                      Misled \/ LockInv, TypeInv, [Next]_vars, ~Misled'
               PROVE  ChildInv'
    OBVIOUS
  <2>0. ~Misled /\ ChildInv /\ RecordInv /\ LockInv
    BY TrustLasts
  <2> USE DEF ChildInv, Owned, RecordInv, Clears,
              LockInv, Holds, WorkPhases, TypeInv, TypeOK, StopPhases, Phases, At, Goto,
              Cleaning, Transactions, Saved, TransactionFiles
  <2>1. ASSUME NEW t \in Terminals, Begin(t) PROVE ChildInv'
    BY <2>1, <2>0 DEF Begin
  <2>2. ASSUME NEW t \in Terminals, Refuse(t) PROVE ChildInv'
    BY <2>2, <2>0 DEF Refuse, Moves
  <2>3. ASSUME NEW t \in Terminals, PrepareFails(t) PROVE ChildInv'
    BY <2>3, <2>0 DEF PrepareFails, Moves
  <2>4. ASSUME NEW t \in Terminals, StartInstall(t) PROVE ChildInv'
    BY <2>4, <2>0 DEF StartInstall, Moves
  <2>5. ASSUME NEW t \in Terminals, Install(t) PROVE ChildInv'
    BY <2>5, <2>0 DEF Install, Shell
  <2>6. ASSUME NEW t \in Terminals, Start(t) PROVE ChildInv'
    BY <2>6, <2>0 DEF Start, Shell
  <2>7. ASSUME NEW t \in Terminals, Stop(t) PROVE ChildInv'
    BY <2>7, <2>0 DEF Stop, Calls, Shell
  <2>8. ASSUME NEW t \in Terminals, Recover(t) PROVE ChildInv'
    BY <2>8, <2>0 DEF Recover, Calls, Shell
  <2>9. ASSUME NEW t \in Terminals, Update(t) PROVE ChildInv'
    BY <2>9, <2>0 DEF Update, Shell
  <2>10. ASSUME NEW t \in Terminals, Prepare(t) PROVE ChildInv'
    BY <2>10, <2>0 DEF Prepare, Shell
  <2>11. ASSUME NEW t \in Terminals, StopNothing(t) PROVE ChildInv'
    BY <2>11, <2>0 DEF StopNothing, Moves
  <2>12. ASSUME NEW t \in Terminals, StopSignal(t) PROVE ChildInv'
    BY <2>12, <2>0 DEF StopSignal
  <2>13. ASSUME NEW t \in Terminals, Stopped(t) PROVE ChildInv'
    BY <2>13, <2>0 DEF Stopped
  <2>14. ASSUME NEW t \in Terminals, Unrecord(t) PROVE ChildInv'
    BY <2>14, <2>0 DEF Unrecord, Shell
  <2>15. ASSUME NEW t \in Terminals, StopTimesOut(t) PROVE ChildInv'
    BY <2>15, <2>0 DEF StopTimesOut
  <2>16. ASSUME NEW t \in Terminals, Spawn(t) PROVE ChildInv'
    BY <2>16, <2>0 DEF Spawn, Unused
  <2>17. ASSUME NEW t \in Terminals, LaunchRefused(t) PROVE ChildInv'
    BY <2>17, <2>0 DEF LaunchRefused, Moves
  <2>18. ASSUME NEW t \in Terminals, Record(t) PROVE ChildInv'
    BY <2>18, <2>0 DEF Record, Shell
  <2>19. ASSUME NEW t \in Terminals, LaunchFails(t) PROVE ChildInv'
    BY <2>19, <2>0 DEF LaunchFails, Fail, Shell
  <2>20. ASSUME NEW t \in Terminals, Validated(t) PROVE ChildInv'
    <3>1. CASE job[t] = "start"
      BY <2>20, <2>0, <3>1 DEF Validated, Shell
    <3>2. CASE job[t] = "update"
      BY <2>20, <2>0, <3>2 DEF Validated, Shell
    <3>3. CASE job[t] \notin {"start", "update"}
      BY <2>20, <2>0, <3>3 DEF Validated, Shell
    <3>4. QED
      BY <3>1, <3>2, <3>3
  <2>21. ASSUME NEW t \in Terminals, ValidateFails(t) PROVE ChildInv'
    BY <2>21, <2>0 DEF ValidateFails, Fail, Shell
  <2>22. ASSUME NEW t \in Terminals, Restore(t) PROVE ChildInv'
    BY <2>22, <2>0 DEF Restore, Shell
  <2>23. ASSUME NEW t \in Terminals, SwitchFails(t) PROVE ChildInv'
    BY <2>23, <2>0 DEF SwitchFails, Moves
  <2>24. ASSUME NEW t \in Terminals, KeepPrevious(t) PROVE ChildInv'
    BY <2>24, <2>0 DEF KeepPrevious, Shell
  <2>25. ASSUME NEW t \in Terminals, Commit(t) PROVE ChildInv'
    BY <2>25, <2>0 DEF Commit, Shell
  <2>26. ASSUME NEW t \in Terminals, RemoveFile(t) PROVE ChildInv'
    BY <2>26, <2>0 DEF RemoveFile, Shell
  <2>27. ASSUME NEW t \in Terminals, RemoveDirectory(t) PROVE ChildInv'
    BY <2>27, <2>0 DEF RemoveDirectory, Shell
  <2>28. ASSUME NEW t \in Terminals, Finish(t) PROVE ChildInv'
    BY <2>28, <2>0 DEF Finish, Moves, Calls, Shell
  <2>29. ASSUME NEW t \in Terminals, MakeLock(t) PROVE ChildInv'
    BY <2>29, <2>0 DEF MakeLock
  <2>30. ASSUME NEW t \in Terminals, MakeLockFails(t) PROVE ChildInv'
    BY <2>30, <2>0 DEF MakeLockFails, Cleared
  <2>31. ASSUME NEW t \in Terminals, Lock(t) PROVE ChildInv'
    BY <2>31, <2>0 DEF Lock
  <2>32. ASSUME NEW t \in Terminals, WriteOwner(t) PROVE ChildInv'
    BY <2>32, <2>0 DEF WriteOwner, Locked
  <2>33. ASSUME NEW t \in Terminals, WriteOwnerFails(t) PROVE ChildInv'
    <3>1. CASE Cleaning(t)
      <4>1. Vanish(t) /\ UNCHANGED bounds
        BY <2>33, <2>0, <3>1 DEF WriteOwnerFails, Fails
      <4>2. QED
        BY <2>33, <2>0, <3>1, <4>1 DEF WriteOwnerFails, Vanish
    <3>2. CASE ~Cleaning(t)
      BY <2>33, <2>0, <3>2 DEF WriteOwnerFails, Fails, Moves
    <3>3. QED
      BY <3>1, <3>2
  <2>34. ASSUME NEW t \in Terminals, RemoveOwner(t) PROVE ChildInv'
    BY <2>34, <2>0 DEF RemoveOwner
  <2>35. ASSUME NEW t \in Terminals, RemoveOwnerFails(t) PROVE ChildInv'
    <3>1. CASE Cleaning(t)
      <4>1. Vanish(t) /\ UNCHANGED bounds
        BY <2>35, <2>0, <3>1 DEF RemoveOwnerFails, Fails
      <4>2. QED
        BY <2>35, <2>0, <3>1, <4>1 DEF RemoveOwnerFails, Vanish
    <3>2. CASE ~Cleaning(t)
      BY <2>35, <2>0, <3>2 DEF RemoveOwnerFails, Fails, Moves
    <3>3. QED
      BY <3>1, <3>2
  <2>36. ASSUME NEW t \in Terminals, RemoveLock(t) PROVE ChildInv'
    BY <2>36, <2>0 DEF RemoveLock
  <2>37. ASSUME NEW t \in Terminals, RemoveLockFails(t) PROVE ChildInv'
    <3>1. CASE Cleaning(t)
      <4>1. Vanish(t) /\ UNCHANGED bounds
        BY <2>37, <2>0, <3>1 DEF RemoveLockFails, Fails
      <4>2. QED
        BY <2>37, <2>0, <3>1, <4>1 DEF RemoveLockFails, Vanish
    <3>2. CASE ~Cleaning(t)
      BY <2>37, <2>0, <3>2 DEF RemoveLockFails, Fails, Moves
    <3>3. QED
      BY <3>1, <3>2
  <2>38. ASSUME NEW t \in Terminals, Unlock(t) PROVE ChildInv'
    BY <2>38, <2>0 DEF Unlock
  <2>39. ASSUME NEW t \in Terminals, Reap(t) PROVE ChildInv'
    BY <2>39, <2>0 DEF Reap
  <2>40. ASSUME NEW t \in Terminals, Test(t) PROVE ChildInv'
    BY <2>40, <2>0 DEF Test, Moves
  <2>41. ASSUME NEW t \in Terminals, TestOther(t) PROVE ChildInv'
    BY <2>41, <2>0 DEF TestOther, Cleared
  <2>42. ASSUME NEW t \in Terminals, Forget(t) PROVE ChildInv'
    BY <2>42, <2>0 DEF Forget, Cleared
  <2>43. ASSUME NEW t \in Terminals, ForgetFails(t) PROVE ChildInv'
    <3>1. CASE Cleaning(t)
      <4>1. Vanish(t) /\ UNCHANGED bounds
        BY <2>43, <2>0, <3>1 DEF ForgetFails, Fails
      <4>2. QED
        BY <2>43, <2>0, <3>1, <4>1 DEF ForgetFails, Vanish
    <3>2. CASE ~Cleaning(t)
      BY <2>43, <2>0, <3>2 DEF ForgetFails, Fails, Moves
    <3>3. QED
      BY <3>1, <3>2
  <2>44. ASSUME NEW t \in Terminals, ExitWaits(t) PROVE ChildInv'
    BY <2>44, <2>0 DEF ExitWaits, Moves
  <2>45. ASSUME NEW t \in Terminals, Exit(t) PROVE ChildInv'
    BY <2>45, <2>0 DEF Exit
  <2>46. ASSUME NEW t \in Terminals, ExitGivesUp(t) PROVE ChildInv'
    BY <2>46, <2>0 DEF ExitGivesUp, Shell
  <2>47. ASSUME NEW t \in Terminals, ExitEnds(t) PROVE ChildInv'
    BY <2>47, <2>0 DEF ExitEnds, Vanish
  <2>48. ASSUME NEW t \in Terminals, Signal(t) PROVE ChildInv'
    BY <2>48, <2>0 DEF Signal, Window
  <2>49. ASSUME NEW t \in Terminals, SignalAgain(t) PROVE ChildInv'
    BY <2>49, <2>0 DEF SignalAgain, Vanish
  <2>50. ASSUME NEW t \in Terminals, Kill(t) PROVE ChildInv'
    BY <2>50, <2>0 DEF Kill, Vanish
  <2>51. ASSUME NEW p \in Pids, ProcessEnds(p) PROVE ChildInv'
    BY <2>51, <2>0 DEF ProcessEnds
  <2>52. CASE PowerLoss
    BY <2>52, <2>0 DEF PowerLoss
  <2>53. CASE RenameStaleLock
    BY <2>53, <2>0 DEF RenameStaleLock
  <2>54. CASE UNCHANGED vars
    BY <2>54, <2>0 DEF vars
  <2>55. QED
    BY <2>1, <2>2, <2>3, <2>4, <2>5, <2>6, <2>7, <2>8, <2>9, <2>10, <2>11, <2>12, <2>13, <2>14,
       <2>15, <2>16, <2>17, <2>18, <2>19, <2>20, <2>21, <2>22, <2>23, <2>24, <2>25, <2>26, <2>27,
       <2>28, <2>29, <2>30, <2>31, <2>32, <2>33, <2>34, <2>35, <2>36, <2>37, <2>38, <2>39, <2>40,
       <2>41, <2>42, <2>43, <2>44, <2>45, <2>46, <2>47, <2>48, <2>49, <2>50, <2>51, <2>52, <2>53,
       <2>54
    DEF Next, ShellStep, Main, Process, Switch, Locking, Leaving
<1>3. QED
  BY <1>1, <1>2, RecordInvariance, LockInvariance, TypeInvariance, PTL DEF Spec

\* There is one server in a deployment, but for processes nobody could know of, until a
\* signal falls between rmdir and locked=0.
THEOREM ServersAreOne == Spec => []OneServer
<1>1. ChildInv /\ LockInv => OneServer
  <2> SUFFICES ASSUME ChildInv, LockInv PROVE OneServer
    OBVIOUS
  <2> DEFINE S == {p \in alive : p \in strays => p = record}
  <2>1. ASSUME NEW p \in S, NEW q \in S PROVE p = q
    <3>1. p = record \/ \E t \in Terminals : child[t] = p /\ lock = t /\ record \notin alive
      BY DEF ChildInv, LockInv, Holds, StopPhases
    <3>2. q = record \/ \E t \in Terminals : child[t] = q /\ lock = t /\ record \notin alive
      BY DEF ChildInv, LockInv, Holds, StopPhases
    <3>3. QED
      BY <3>1, <3>2
  <2>2. CASE S = {}
    BY <2>2, FS_EmptySet DEF OneServer
  <2>3. ASSUME NEW p \in S PROVE Cardinality(S) <= 1
    <3>1. S = {p}
      BY <2>1
    <3>2. Cardinality({p}) = 1
      BY FS_Singleton
    <3>3. QED
      BY <3>1, <3>2
  <2>4. QED
    BY <2>2, <2>3 DEF OneServer
<1>2. Misled => OneServer
  BY DEF OneServer
<1>3. QED
  BY <1>1, <1>2, ChildInvariance, LockInvariance, PTL
=============================================================================
