------------------------ MODULE WindowsUpdateProofs ------------------------
(***************************************************************************)
(* What the command for Windows guarantees for any number of               *)
(* configurations, servers and kills.                                      *)
(*                                                                         *)
(* ServerInv           where the servers are that are no strays            *)
(* StartInv, StopInv,  what the operation is about at every phase, and     *)
(* PhaseInv            what it has seen to answer before it commits        *)
(* RunsInv             what the server on record runs, and where none is   *)
(*                                                                         *)
(* ServerInv and the control invariants are inductive with the types,      *)
(* RunsInv relative to both.                                               *)
(***************************************************************************)
EXTENDS WindowsUpdate, TLAPS

Launching == pc \in {"launch", "record", "reclaim", "validate"}
Stopping  == pc \in {"stop", "stopping"}
Restoring == job \in {"recover", "rollback"}
Pending   == transaction # None

\* Every server is a stray, on record, or the one being started; that one is
\* started only when none is owned.
ServerInv ==
  /\ alive \ strays \subseteq {record, child}
  /\ child # None <=> pc \in {"record", "reclaim"}
  /\ pc \in {"record", "reclaim"} => ~Owned /\ child # record /\ runs[child] = config
  /\ pc = "validate" => record # None /\ runs[record] = config

\* What a phase starts or stops, and what has been seen to answer.
StartInv ==
  Launching =>
    /\ config # None
    /\ \/ job = "start" /\ ~Pending /\ config = current
       \/ Switching /\ Pending /\ config = transaction.new
       \/ Restoring /\ Pending /\ config = transaction.old

StopInv ==
  Stopping =>
    \/ job = "stop" /\ ~Pending /\ after = "exit"
    \/ Switching /\ Pending /\ after = "launch" /\ config = transaction.new
    \/ Switching /\ Pending /\ after = "commit" /\ ~transaction.was /\ transaction.new \in validated
    \/ Restoring /\ Pending /\ after = "restore"
    \/ Restoring /\ Pending /\ after = "revert" /\ ~transaction.was /\ transaction.old \in validated

PhaseInv ==
  /\ pc \in {"prepare", "begin"} => Switching /\ ~Pending /\ (wasRunning => current # None)
  /\ pc = "begin" => config # None
  /\ pc = "restore" => Restoring /\ Pending
  /\ pc = "commit" => Switching /\ Pending /\ transaction.new \in validated
  /\ pc = "previous" => Pending /\ transaction.new \in validated /\ current = transaction.new
  /\ pc = "revert" => Restoring /\ Pending /\ transaction.old \in validated \cup {None}
  /\ pc = "remove" => /\ Pending
                      /\ current \in {transaction.old, transaction.new}
                      /\ current \in validated \cup {None}
  /\ Pending /\ transaction.old = None => ~transaction.was

\* The server on record is the one of c, if it was running before the switch.
Kept(c) == IF transaction.was THEN record # None /\ runs[record] = c ELSE ~Owned

RunsInv ==
  /\ ~Pending /\ Owned => runs[record] = current
  /\ pc = "restore" => ~Owned
  /\ pc \in {"commit", "previous"} => Kept(transaction.new)
  /\ pc = "revert" => Kept(transaction.old)
  /\ pc = "remove" => Kept(current)

Control == StartInv /\ StopInv /\ PhaseInv

-----------------------------------------------------------------------------
(* Every step keeps the invariants.                                        *)

LEMMA TypeKept ==
  TypeOK /\ Control /\ [Next]_vars => TypeOK'
<1> SUFFICES ASSUME TypeOK, Control, [Next]_vars
             PROVE  TypeOK'
  OBVIOUS
<1> USE DEF vars, files, procs, locals, TypeOK, Phases
<1>0. /\ pc = "begin" => config # None
      /\ pc \in {"restore", "revert", "commit", "previous"} => transaction \in Transactions
      /\ pc = "validate" => config # None
  BY DEF Control, PhaseInv, StartInv, Launching, Pending
<1>1. ASSUME NEW a \in {"install", "start", "stop", "update", "recover"}, Begin(a)
      PROVE  TypeOK'
  BY <1>1 DEF Begin
<1>2. CASE Refuse
  BY <1>2 DEF Refuse, Leave, Owned, Allowed
<1>3. CASE Start
  BY <1>3 DEF Start, Owned, Allowed
<1>4. CASE Stop
  BY <1>4 DEF Stop, Owned, Allowed
<1>5. CASE Recover
  BY <1>5 DEF Recover, Owned, Allowed
<1>6. CASE Install
  BY <1>6 DEF Install, Switching, Owned, Allowed
<1>7. CASE Prepare
  BY <1>7 DEF Prepare
<1>8. CASE WriteTransaction
  BY <1>0, <1>8 DEF WriteTransaction, Transactions
<1>9. CASE StopNothing
  BY <1>9 DEF StopNothing, Leave, Goto, Return, Owned
<1>10. CASE StopAsked
  BY <1>10 DEF StopAsked, Goto, Owned
<1>11. CASE Stopped
  BY <1>11 DEF Stopped, Leave, Goto, Return, Owned
<1>12. CASE Launch
  BY <1>12 DEF Launch, Owned
<1>13. CASE Record
  BY <1>13 DEF Record
<1>14. CASE RecordFails
  BY <1>14 DEF RecordFails, Goto
<1>15. CASE Reclaim
  BY <1>15 DEF Reclaim, Leave, Throw, Switching, Guarded
<1>16. CASE Validated
  <2>1. validated' \subseteq Configs
    BY <1>0, <1>16 DEF Validated, Leave
  <2>2. pc' \in Phases /\ after' \in {"exit", "launch", "restore", "commit", "revert"}
    BY <1>16 DEF Validated, Leave
  <2>3. CASE job = "start"
    BY <1>16, <2>3 DEF Validated, Leave
  <2>4. CASE job # "start"
    BY <1>16, <2>1, <2>2, <2>4 DEF Validated
  <2> QED
    BY <2>3, <2>4
<1>17. CASE Restore
  BY <1>0, <1>17 DEF Restore, Transactions
<1>18. CASE Revert
  BY <1>0, <1>18 DEF Revert, Transactions, Goto
<1>19. CASE Commit
  BY <1>0, <1>19 DEF Commit, Transactions, Goto
<1>20. CASE KeepPrevious
  BY <1>0, <1>20 DEF KeepPrevious, Transactions, Goto
<1>21. CASE Remove
  BY <1>21 DEF Remove, Leave
<1>22. CASE Fails
  BY <1>22 DEF Fails, Leave, Throw, Switching, Guarded
<1>23. CASE Kill
  <2>1. kills' \in 0..MaxKills
    BY <1>23, BoundAssumption DEF BoundAssumption, Kill
  <2> QED
    BY <1>23, <2>1 DEF Kill, Leave
<1>24. CASE PowerLoss
  <2>1. kills' \in 0..MaxKills
    BY <1>24, BoundAssumption DEF BoundAssumption, PowerLoss
  <2> QED
    BY <1>24, <2>1 DEF PowerLoss, Leave
<1>25. CASE Reuse
  BY <1>25 DEF Reuse, Owned
<1>26. ASSUME NEW p \in Processes, ProcessEnds(p)
      PROVE  TypeOK'
  BY <1>26 DEF ProcessEnds
<1>27. CASE UNCHANGED vars
  BY <1>27 DEF Owned, Switching
<1> QED
  BY <1>1, <1>2, <1>3, <1>4, <1>5, <1>6, <1>7, <1>8, <1>9, <1>10, <1>11, <1>12, <1>13, <1>14,
     <1>15, <1>16, <1>17, <1>18, <1>19, <1>20, <1>21, <1>22, <1>23, <1>24, <1>25, <1>26, <1>27 DEF Next, Main, Process, Switch

LEMMA ControlKept ==
  TypeOK /\ Control /\ [Next]_vars => Control'
<1> SUFFICES ASSUME TypeOK /\ Control, [Next]_vars
             PROVE  Control'
  OBVIOUS
<1> USE NoneAssumption DEF NoneAssumption, vars, files, procs, locals, TypeOK, Transactions, Control, StartInv, StopInv, PhaseInv, Launching, Stopping, Restoring, Pending, Allowed
<1>1. ASSUME NEW a \in {"install", "start", "stop", "update", "recover"}, Begin(a)
      PROVE  Control'
  BY <1>1 DEF Begin, Switching
<1>2. CASE Refuse
  BY <1>2 DEF Refuse, Leave, Switching, Owned, Allowed
<1>3. CASE Start
  BY <1>3 DEF Start, Switching, Owned, Allowed
<1>4. CASE Stop
  BY <1>4 DEF Stop, Switching, Owned, Allowed
<1>5. CASE Recover
  BY <1>5 DEF Recover, Switching, Owned, Allowed
<1>6. CASE Install
  BY <1>6 DEF Install, Switching, Owned, Allowed
<1>7. CASE Prepare
  BY <1>7 DEF Prepare, Switching
<1>8. CASE WriteTransaction
  BY <1>8 DEF WriteTransaction, Switching
<1>9. CASE StopNothing
  BY <1>9 DEF StopNothing, Leave, Goto, Return, Switching, Owned
<1>10. CASE StopAsked
  BY <1>10 DEF StopAsked, Goto, Switching, Owned
<1>11. CASE Stopped
  BY <1>11 DEF Stopped, Leave, Goto, Return, Switching, Owned
<1>12. CASE Launch
  BY <1>12 DEF Launch, Switching, Owned
<1>13. CASE Record
  BY <1>13 DEF Record, Switching
<1>14. CASE RecordFails
  BY <1>14 DEF RecordFails, Goto, Switching
<1>15. CASE Reclaim
  BY <1>15 DEF Reclaim, Leave, Throw, Switching, Guarded
<1>16. CASE Validated
  BY <1>16 DEF Validated, Leave, Switching, Owned
<1>17. CASE Restore
  BY <1>17 DEF Restore, Switching
<1>18. CASE Revert
  BY <1>18 DEF Revert, Goto, Switching
<1>19. CASE Commit
  BY <1>19 DEF Commit, Goto, Switching
<1>20. CASE KeepPrevious
  BY <1>20 DEF KeepPrevious, Goto, Switching
<1>21. CASE Remove
  BY <1>21 DEF Remove, Leave, Switching
<1>22. CASE Fails
  BY <1>22 DEF Fails, Leave, Throw, Switching, Guarded
<1>23. CASE Kill
  BY <1>23 DEF Kill, Leave, Switching
<1>24. CASE PowerLoss
  BY <1>24 DEF PowerLoss, Leave, Switching
<1>25. CASE Reuse
  BY <1>25 DEF Reuse, Switching, Owned
<1>26. ASSUME NEW p \in Processes, ProcessEnds(p)
      PROVE  Control'
  BY <1>26 DEF ProcessEnds, Switching
<1>27. CASE UNCHANGED vars
  BY <1>27 DEF Owned, Switching
<1> QED
  BY <1>1, <1>2, <1>3, <1>4, <1>5, <1>6, <1>7, <1>8, <1>9, <1>10, <1>11, <1>12, <1>13, <1>14,
     <1>15, <1>16, <1>17, <1>18, <1>19, <1>20, <1>21, <1>22, <1>23, <1>24, <1>25, <1>26, <1>27 DEF Next, Main, Process, Switch

LEMMA ServerKept ==
  TypeOK /\ ServerInv /\ [Next]_vars => ServerInv'
<1> SUFFICES ASSUME TypeOK /\ ServerInv, [Next]_vars
             PROVE  ServerInv'
  OBVIOUS
<1> USE NoneAssumption DEF NoneAssumption, vars, files, procs, locals, TypeOK, ServerInv
<1>1. ASSUME NEW a \in {"install", "start", "stop", "update", "recover"}, Begin(a)
      PROVE  ServerInv'
  BY <1>1 DEF Begin, Owned
<1>2. CASE Refuse
  BY <1>2 DEF Refuse, Leave, Owned, Allowed
<1>3. CASE Start
  BY <1>3 DEF Start, Owned, Allowed
<1>4. CASE Stop
  BY <1>4 DEF Stop, Owned, Allowed
<1>5. CASE Recover
  BY <1>5 DEF Recover, Owned, Allowed
<1>6. CASE Install
  BY <1>6 DEF Install, Switching, Owned, Allowed
<1>7. CASE Prepare
  BY <1>7 DEF Prepare, Owned
<1>8. CASE WriteTransaction
  BY <1>8 DEF WriteTransaction, Owned
<1>9. CASE StopNothing
  BY <1>9 DEF StopNothing, Leave, Goto, Return, Owned
<1>10. CASE StopAsked
  BY <1>10 DEF StopAsked, Goto, Owned
<1>11. CASE Stopped
  BY <1>11 DEF Stopped, Leave, Goto, Return, Owned
<1>12. CASE Launch
  BY <1>12 DEF Launch, Owned
<1>13. CASE Record
  BY <1>13 DEF Record, Owned
<1>14. CASE RecordFails
  BY <1>14 DEF RecordFails, Goto, Owned
<1>15. CASE Reclaim
  BY <1>15 DEF Reclaim, Leave, Throw, Switching, Owned, Guarded
<1>16. CASE Validated
  BY <1>16 DEF Validated, Leave, Switching, Owned
<1>17. CASE Restore
  BY <1>17 DEF Restore, Owned
<1>18. CASE Revert
  BY <1>18 DEF Revert, Goto, Owned
<1>19. CASE Commit
  BY <1>19 DEF Commit, Goto, Owned
<1>20. CASE KeepPrevious
  BY <1>20 DEF KeepPrevious, Goto, Owned
<1>21. CASE Remove
  BY <1>21 DEF Remove, Leave, Owned
<1>22. CASE Fails
  BY <1>22 DEF Fails, Leave, Throw, Switching, Owned, Guarded
<1>23. CASE Kill
  BY <1>23 DEF Kill, Leave, Owned
<1>24. CASE PowerLoss
  BY <1>24 DEF PowerLoss, Leave, Owned
<1>25. CASE Reuse
  BY <1>25 DEF Reuse, Owned
<1>26. ASSUME NEW p \in Processes, ProcessEnds(p)
      PROVE  ServerInv'
  BY <1>26 DEF ProcessEnds, Owned
<1>27. CASE UNCHANGED vars
  BY <1>27 DEF Owned, Switching
<1> QED
  BY <1>1, <1>2, <1>3, <1>4, <1>5, <1>6, <1>7, <1>8, <1>9, <1>10, <1>11, <1>12, <1>13, <1>14,
     <1>15, <1>16, <1>17, <1>18, <1>19, <1>20, <1>21, <1>22, <1>23, <1>24, <1>25, <1>26, <1>27 DEF Next, Main, Process, Switch

LEMMA RunsKept ==
  TypeOK /\ Control /\ ServerInv /\ RunsInv /\ [Next]_vars => RunsInv'
<1> SUFFICES ASSUME TypeOK /\ Control /\ ServerInv /\ RunsInv, [Next]_vars
             PROVE  RunsInv'
  OBVIOUS
<1> USE NoneAssumption DEF NoneAssumption, vars, files, procs, locals, TypeOK, Transactions, Control, StartInv, StopInv, PhaseInv, Launching, Stopping, Restoring, Pending, ServerInv, RunsInv, Kept, Allowed
<1>1. ASSUME NEW a \in {"install", "start", "stop", "update", "recover"}, Begin(a)
      PROVE  RunsInv'
  BY <1>1 DEF Begin, Switching, Owned
<1>2. CASE Refuse
  BY <1>2 DEF Refuse, Leave, Switching, Owned, Allowed
<1>3. CASE Start
  BY <1>3 DEF Start, Switching, Owned, Allowed
<1>4. CASE Stop
  BY <1>4 DEF Stop, Switching, Owned, Allowed
<1>5. CASE Recover
  BY <1>5 DEF Recover, Switching, Owned, Allowed
<1>6. CASE Install
  BY <1>6 DEF Install, Switching, Owned, Allowed
<1>7. CASE Prepare
  BY <1>7 DEF Prepare, Switching, Owned
<1>8. CASE WriteTransaction
  BY <1>8 DEF WriteTransaction, Switching, Owned
<1>9. CASE StopNothing
  BY <1>9 DEF StopNothing, Leave, Goto, Return, Switching, Owned
<1>10. CASE StopAsked
  BY <1>10 DEF StopAsked, Goto, Switching, Owned
<1>11. CASE Stopped
  BY <1>11 DEF Stopped, Leave, Goto, Return, Switching, Owned
<1>12. CASE Launch
  BY <1>12 DEF Launch, Switching, Owned
<1>13. CASE Record
  BY <1>13 DEF Record, Switching, Owned
<1>14. CASE RecordFails
  BY <1>14 DEF RecordFails, Goto, Switching, Owned
<1>15. CASE Reclaim
  BY <1>15 DEF Reclaim, Leave, Throw, Switching, Owned, Guarded
<1>16. CASE Validated
  BY <1>16 DEF Validated, Leave, Switching, Owned
<1>17. CASE Restore
  BY <1>17 DEF Restore, Switching, Owned
<1>18. CASE Revert
  BY <1>18 DEF Revert, Goto, Switching, Owned
<1>19. CASE Commit
  BY <1>19 DEF Commit, Goto, Switching, Owned
<1>20. CASE KeepPrevious
  BY <1>20 DEF KeepPrevious, Goto, Switching, Owned
<1>21. CASE Remove
  BY <1>21 DEF Remove, Leave, Switching, Owned
<1>22. CASE Fails
  BY <1>22 DEF Fails, Leave, Throw, Switching, Owned, Guarded
<1>23. CASE Kill
  BY <1>23 DEF Kill, Leave, Switching, Owned
<1>24. CASE PowerLoss
  BY <1>24 DEF PowerLoss, Leave, Switching, Owned
<1>25. CASE Reuse
  BY <1>25 DEF Reuse, Switching, Owned
<1>26. ASSUME NEW p \in Processes, ProcessEnds(p)
      PROVE  RunsInv'
  BY <1>26 DEF ProcessEnds, Switching, Owned
<1>27. CASE UNCHANGED vars
  BY <1>27 DEF Owned, Switching
<1> QED
  BY <1>1, <1>2, <1>3, <1>4, <1>5, <1>6, <1>7, <1>8, <1>9, <1>10, <1>11, <1>12, <1>13, <1>14,
     <1>15, <1>16, <1>17, <1>18, <1>19, <1>20, <1>21, <1>22, <1>23, <1>24, <1>25, <1>26, <1>27 DEF Next, Main, Process, Switch

-----------------------------------------------------------------------------
(* The theorems.                                                           *)

LEMMA Invariance == Spec => [](TypeOK /\ Control /\ ServerInv /\ RunsInv)
<1>1. Init => TypeOK /\ Control /\ ServerInv /\ RunsInv
  <2>1. Init => TypeOK
    <3>1. Init => kills \in 0..MaxKills
      BY BoundAssumption DEF BoundAssumption, Init
    <3> QED
      BY <3>1 DEF Init, TypeOK, Phases
  <2>2. Init => Control
    BY DEF Init, Control, StartInv, StopInv, PhaseInv, Launching, Stopping, Pending
  <2>3. Init => ServerInv /\ RunsInv
    BY DEF Init, ServerInv, RunsInv, Owned
  <2> QED
    BY <2>1, <2>2, <2>3
<1>2. TypeOK /\ Control /\ ServerInv /\ RunsInv /\ [Next]_vars
        => (TypeOK /\ Control /\ ServerInv /\ RunsInv)'
  BY TypeKept, ControlKept, ServerKept, RunsKept
<1> QED
  BY <1>1, <1>2, PTL DEF Spec

\* Files and processes stay what they are: the type invariant.
THEOREM TypeCorrect == Spec => []TypeOK
  BY Invariance, PTL

\* Unless a transaction is unfinished, one server runs at most, apart from
\* processes nobody could record, and it runs what current.json says.
THEOREM CommittedIsServed == Spec => []ServesCommitted
<1>1. TypeOK /\ Control /\ ServerInv /\ RunsInv => ServesCommitted
  <2> SUFFICES ASSUME TypeOK, Control, ServerInv, RunsInv, transaction = None,
                      NEW p \in alive \ strays, NEW q \in alive \ strays
               PROVE  p = q /\ runs[p] = current
    BY DEF ServesCommitted
  <2>1. CASE child = None
    BY <2>1, NoneAssumption DEF TypeOK, ServerInv, RunsInv, Pending, Owned
  <2>2. CASE child # None
    BY <2>2 DEF TypeOK, ServerInv, Control, StartInv, Launching, Pending, Owned
  <2> QED
    BY <2>1, <2>2
<1> QED
  BY <1>1, Invariance, PTL

\* A switch ends with its old or its new configuration, seen to answer, and in
\* the running state it found, whatever failed or crashed in between.
THEOREM SwitchesEndWhole == Spec => SwitchEndsWhole
<1>1. TypeOK /\ Control /\ ServerInv /\ RunsInv /\ [Next]_vars
        => [transaction # None /\ transaction' = None
              => /\ current \in {transaction.old, transaction.new}
                 /\ current # None => current \in validated
                 /\ IF transaction.was THEN record # None /\ runs[record] = current ELSE ~Owned]_vars
  <2> SUFFICES ASSUME Control, RunsInv, TypeOK, Next, transaction # None, transaction' = None
               PROVE  /\ current \in {transaction.old, transaction.new}
                      /\ current # None => current \in validated
                      /\ IF transaction.was THEN record # None /\ runs[record] = current ELSE ~Owned
    OBVIOUS
  <2>1. Remove
    BY NoneAssumption
    DEF NoneAssumption, Control, PhaseInv, Pending, Leave, Goto, Throw, Return, Next, Main, Process, Switch, Begin, Refuse, Start, Stop, Recover, Install, Prepare,
        WriteTransaction, StopNothing, StopAsked, Stopped, Launch, Record, RecordFails, Reclaim,
        Validated, Restore, Revert, Commit, KeepPrevious, Fails, Kill, PowerLoss, Reuse,
        ProcessEnds,
        files, TypeOK, Transactions
  <2> QED
    BY <2>1 DEF Remove, Control, PhaseInv, RunsInv, Kept, Pending
<1> QED
  BY <1>1, Invariance, PTL DEF Spec, SwitchEndsWhole
=============================================================================
