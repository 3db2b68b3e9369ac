--------------------------- MODULE WindowsUpdate ---------------------------
(***************************************************************************)
(* The deployment command for Windows: src/scripts/laya.ps1.               *)
(*                                                                         *)
(* One operation at a time: the system lends operation.lock to one process *)
(* and takes it back when that ends, however it ends.  A second invocation *)
(* is turned away before it has done anything.  Each file is replaced as a *)
(* whole.  Every step that changes a file or a process is an action,       *)
(* because a command may throw, and the operation may be killed, between   *)
(* any two.  Ctrl-C is a kill here: it skips every catch.                  *)
(*                                                                         *)
(* Downloads, verification and the check of the running server succeed or  *)
(* fail; a server that does not get the port, for instance, fails.         *)
(***************************************************************************)
EXTENDS Naturals

CONSTANTS
  Configs,    \* releases with their settings
  Processes,  \* server processes: a PID with its start time
  None,
  MaxKills    \* ends of an operation from outside, loss of power

Transactions == [old : Configs \cup {None}, new : Configs, was : BOOLEAN]

ASSUME NoneAssumption  == None \notin Configs \cup Processes \cup Transactions
ASSUME BoundAssumption == MaxKills \in Nat

VARIABLES
  current,      \* current.json
  previous,     \* previous.json
  transaction,  \* transaction.json
  record,       \* process.json
  reused,       \* the PID on record belongs to another process now
  alive,        \* servers that run
  runs,         \* per server: the configuration it was started with
  strays,       \* servers whose operation has ended without a record of them
  pc,           \* where the operation is, "idle" if there is none
  job,          \* its action; "rollback" once its switch has failed
  after,        \* what follows Stop-Owned
  config,       \* what it has prepared, or is starting
  wasRunning,   \* $running
  child,        \* the server it has started and not yet recorded
  validated,    \* configurations it has seen answer
  kills

files   == <<current, previous, transaction>>
procs   == <<record, reused, alive, runs, strays>>
locals  == <<job, after, config, wasRunning, child, validated>>
vars    == <<files, procs, pc, locals, kills>>

Phases == {"idle", "main", "prepare", "begin", "stop", "stopping", "restore", "launch", "record",
           "reclaim", "validate", "commit", "revert", "previous", "remove"}

TypeOK ==
  /\ current \in Configs \cup {None}
  /\ previous \in Configs \cup {None}
  /\ transaction \in Transactions \cup {None}
  /\ record \in Processes \cup {None}
  /\ reused \in BOOLEAN
  /\ alive \subseteq Processes
  /\ runs \in [Processes -> Configs \cup {None}]
  /\ strays \subseteq Processes
  /\ pc \in Phases
  /\ job \in {"install", "start", "stop", "update", "recover", "rollback"}
  /\ after \in {"exit", "launch", "restore", "commit", "revert"}
  /\ config \in Configs \cup {None}
  /\ wasRunning \in BOOLEAN
  /\ child \in Processes \cup {None}
  /\ validated \subseteq Configs
  /\ kills \in 0..MaxKills

Init ==
  /\ current = None /\ previous = None /\ transaction = None
  /\ record = None /\ reused = FALSE
  /\ alive = {} /\ strays = {}
  /\ runs = [p \in Processes |-> None]
  /\ pc = "idle"
  /\ job = "stop" /\ after = "exit" /\ config = None /\ wasRunning = FALSE /\ child = None
  /\ validated = {}
  /\ kills = 0

\* Owned-Process has a process to return.  It throws if the PID was reused.
Owned == record \in alive

\* The process of the operation ends, and its variables with it.
Leave ==
  /\ pc' = "idle"
  /\ job' = "stop" /\ after' = "exit" /\ config' = None /\ wasRunning' = FALSE /\ child' = None
  /\ validated' = {}

Goto(p) == pc' = p /\ UNCHANGED locals

Switching == job \in {"install", "update"}

\* What is inside the try of Switch-Candidate, and of Start.
Guarded == {"stop", "stopping", "launch", "reclaim", "validate", "commit"}

\* An exception: a failed candidate is replaced by the deployment before it, a
\* failed start is stopped again; anything else ends the operation.
Throw ==
  \/ /\ Switching /\ pc \in Guarded
     /\ pc' = "stop" /\ job' = "rollback" /\ after' = "restore" /\ child' = None
     /\ UNCHANGED <<config, wasRunning, validated>>
  \/ /\ job = "start" /\ pc \in Guarded
     /\ pc' = "stop" /\ job' = "stop" /\ after' = "exit" /\ child' = None
     /\ UNCHANGED <<config, wasRunning, validated>>
  \/ /\ ~(pc \in Guarded /\ (Switching \/ job = "start"))
     /\ Leave

Fails ==
  /\ pc \notin {"idle", "main", "record", "reclaim"}
  /\ Throw
  /\ UNCHANGED <<files, procs, kills>>

-----------------------------------------------------------------------------
(* The body of the script, and Install-OrUpdate.                           *)

Begin(action) ==
  /\ pc = "idle"
  /\ pc' = "main" /\ job' = action
  /\ UNCHANGED <<files, procs, after, config, wasRunning, child, validated, kills>>

\* What the action at hand requires of the deployment.
Allowed ==
  /\ transaction # None <=> job = "recover"
  /\ job \in {"start", "stop", "update"} => current # None
  /\ job = "install" /\ current = None => ~Owned
  /\ job = "start" => ~Owned
  /\ job \in {"install", "update", "start"} => ~reused

Refuse ==
  /\ pc = "main"
  /\ ~Allowed
  /\ Leave
  /\ UNCHANGED <<files, procs, kills>>

Start ==
  /\ pc = "main" /\ Allowed /\ job = "start"
  /\ config' = current
  /\ pc' = "launch"
  /\ UNCHANGED <<files, procs, job, after, wasRunning, child, validated, kills>>

Stop ==
  /\ pc = "main" /\ Allowed /\ job = "stop"
  /\ pc' = "stop" /\ after' = "exit"
  /\ UNCHANGED <<files, procs, job, config, wasRunning, child, validated, kills>>

\* Restore-Transaction: what is owned is stopped first.
Recover ==
  /\ pc = "main" /\ Allowed /\ job = "recover"
  /\ pc' = "stop" /\ after' = "restore"
  /\ UNCHANGED <<files, procs, job, config, wasRunning, child, validated, kills>>

\* $running is taken before the download and not looked at again.
Install ==
  /\ pc = "main" /\ Allowed /\ Switching
  /\ wasRunning' = Owned
  /\ pc' = "prepare"
  /\ UNCHANGED <<files, procs, job, after, config, child, validated, kills>>

Prepare ==
  /\ pc = "prepare"
  /\ \E c \in Configs : config' = c
  /\ pc' = "begin"
  /\ UNCHANGED <<files, procs, job, after, wasRunning, child, validated, kills>>

\* The transaction is written before anything is touched.
WriteTransaction ==
  /\ pc = "begin"
  /\ transaction' = [old |-> current, new |-> config, was |-> wasRunning]
  /\ IF wasRunning THEN pc' = "stop" /\ after' = "launch" ELSE pc' = "launch" /\ UNCHANGED after
  /\ UNCHANGED <<current, previous, procs, job, config, wasRunning, child, validated, kills>>

-----------------------------------------------------------------------------
(* Stop-Owned.                                                             *)

Return == IF after = "exit" THEN Leave ELSE Goto(after)

StopNothing ==
  /\ pc = "stop"
  /\ ~Owned /\ ~reused
  /\ Return
  /\ UNCHANGED <<files, procs, kills>>

\* The stop file is written: from now on the server may end because of it.
StopAsked ==
  /\ pc = "stop"
  /\ Owned
  /\ Goto("stopping")
  /\ UNCHANGED <<files, procs, kills>>

\* WaitForExit saw the end in time.  That it did not, or that a file cannot be
\* removed, is in Fails.
Stopped ==
  /\ pc = "stopping"
  /\ ~Owned
  /\ record' = None /\ reused' = FALSE
  /\ Return
  /\ UNCHANGED <<files, alive, runs, strays, kills>>

-----------------------------------------------------------------------------
(* Start-Owned, Validate-Running.                                          *)

Launch ==
  /\ pc = "launch"
  /\ ~Owned /\ ~reused
  /\ \E p \in Processes \ (alive \cup {record}) :
       /\ alive' = alive \cup {p}
       /\ runs' = [runs EXCEPT ![p] = config]
       /\ strays' = strays \ {p}
       /\ child' = p
  /\ pc' = "record"
  /\ UNCHANGED <<files, record, reused, job, after, config, wasRunning, validated, kills>>

Record ==
  /\ pc = "record"
  /\ record' = child /\ reused' = FALSE
  /\ child' = None
  /\ pc' = "validate"
  /\ UNCHANGED <<files, alive, runs, strays, job, after, config, wasRunning, validated, kills>>

\* Mutant: the process that could not be recorded is left alone.
Forget ==
  /\ pc = "record"
  /\ Leave
  /\ UNCHANGED <<files, procs, kills>>

\* process.json cannot be written: the new process is told to stop.
RecordFails ==
  /\ pc = "record"
  /\ Goto("reclaim")
  /\ UNCHANGED <<files, procs, kills>>

\* It stops, or it is left to the user.
Reclaim ==
  /\ pc = "reclaim"
  /\ strays' = strays \cup ({child} \cap alive)
  /\ Throw
  /\ UNCHANGED <<files, record, reused, alive, runs, kills>>

\* Mutant: the server is left running, whatever was before.
ValidatedKept ==
  /\ pc = "validate"
  /\ Owned
  /\ IF job = "start" THEN Leave
     ELSE /\ validated' = validated \cup {config}
          /\ pc' = IF Switching THEN "commit" ELSE "revert"
          /\ UNCHANGED <<job, after, config, wasRunning, child>>
  /\ UNCHANGED <<files, procs, kills>>

\* The process on record answers as it should.  A deployment that was stopped
\* is stopped again before it is committed.
Validated ==
  /\ pc = "validate"
  /\ Owned
  /\ LET goal == IF Switching THEN "commit" ELSE "revert"
     IN IF job = "start" THEN Leave
        ELSE /\ validated' = validated \cup {config}
             /\ IF transaction.was THEN pc' = goal /\ UNCHANGED after
                ELSE pc' = "stop" /\ after' = goal
             /\ UNCHANGED <<job, config, wasRunning, child>>
  /\ UNCHANGED <<files, procs, kills>>

-----------------------------------------------------------------------------
(* Restore-Transaction and the end of Switch-Candidate.                    *)

Restore ==
  /\ pc = "restore"
  /\ config' = transaction.old
  /\ pc' = IF transaction.old = None THEN "revert" ELSE "launch"
  /\ UNCHANGED <<files, procs, job, after, wasRunning, child, validated, kills>>

\* current.json is written again, or removed if there was none.
Revert ==
  /\ pc = "revert"
  /\ current' = transaction.old
  /\ Goto("remove")
  /\ UNCHANGED <<previous, transaction, procs, kills>>

Commit ==
  /\ pc = "commit"
  /\ current' = transaction.new
  /\ Goto(IF transaction.old = None THEN "remove" ELSE "previous")
  /\ UNCHANGED <<previous, transaction, procs, kills>>

KeepPrevious ==
  /\ pc = "previous"
  /\ previous' = transaction.old
  /\ Goto("remove")
  /\ UNCHANGED <<current, transaction, procs, kills>>

Remove ==
  /\ pc = "remove"
  /\ transaction' = None
  /\ Leave
  /\ UNCHANGED <<current, previous, procs, kills>>

-----------------------------------------------------------------------------
(* The environment.                                                        *)

\* The operation is interrupted: a server it has not recorded is left over.
Kill ==
  /\ pc # "idle"
  /\ kills < MaxKills
  /\ kills' = kills + 1
  /\ strays' = strays \cup ({child} \cap alive)
  /\ Leave
  /\ UNCHANGED <<files, record, reused, alive, runs>>

PowerLoss ==
  /\ kills < MaxKills
  /\ kills' = kills + 1
  /\ alive' = {} /\ strays' = {} /\ reused' = FALSE
  /\ Leave
  /\ UNCHANGED <<files, record, runs>>

\* A server ends: it was told to, it crashed, or its console was closed.
ProcessEnds(p) ==
  /\ p \in alive
  /\ alive' = alive \ {p}
  /\ strays' = strays \ {p}
  /\ UNCHANGED <<files, record, reused, runs, pc, locals, kills>>

\* Another process gets the PID of a server that has ended, or ends itself.
Reuse ==
  /\ record # None /\ ~Owned
  /\ reused' = ~reused
  /\ UNCHANGED <<files, record, alive, runs, strays, pc, locals, kills>>

-----------------------------------------------------------------------------
Main == Refuse \/ Start \/ Stop \/ Recover \/ Install \/ Prepare \/ WriteTransaction
Process ==
  StopNothing \/ StopAsked \/ Stopped \/ Launch \/ Record \/ RecordFails \/ Reclaim \/ Validated
Switch == Restore \/ Revert \/ Commit \/ KeepPrevious \/ Remove

Next ==
  \/ \E action \in {"install", "start", "stop", "update", "recover"} : Begin(action)
  \/ Main \/ Process \/ Switch \/ Fails
  \/ Kill \/ PowerLoss \/ Reuse
  \/ \E p \in Processes : ProcessEnds(p)

Spec == Init /\ [][Next]_vars

-----------------------------------------------------------------------------
\* Unless a transaction is unfinished, one server runs at most, and it runs the
\* configuration in current.json: after a failed start or switch, a rollback, a
\* crash and its recovery.  Only processes that nobody could record are left out.
ServesCommitted ==
  transaction = None => \A p, q \in alive \ strays : p = q /\ runs[p] = current

\* However a switch ends - completed, rolled back, or recovered after crashes
\* anywhere, also in earlier recoveries - it leaves its old or its new
\* configuration, seen to answer by the operation that ends it; a deployment that
\* was stopped is stopped, and one that ran was started with that configuration.
SwitchEndsWhole ==
  [][transaction # None /\ transaction' = None
       => /\ current \in {transaction.old, transaction.new}
          /\ current # None => current \in validated
          /\ IF transaction.was THEN record # None /\ runs[record] = current ELSE ~Owned]_vars
=============================================================================
