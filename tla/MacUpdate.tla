----------------------------- MODULE MacUpdate -----------------------------
(***************************************************************************)
(* The deployment command for macOS: src/scripts/laya-macos.sh.            *)
(*                                                                         *)
(* Every invocation is a shell in some terminal.  Shells share the files   *)
(* of one deployment and the server processes they started; an operation   *)
(* directory serves as the lock.  Every step that changes a shared file or *)
(* process is an action, because a signal, a kill or a power failure may   *)
(* come between any two of them.  A trapped signal is handled when the     *)
(* command at hand has ended, which is when the shell takes its next step. *)
(*                                                                         *)
(* Downloads, verification and the checks against the running server are   *)
(* steps that succeed or fail; what identifies a process (PID, start time, *)
(* executable, working directory) is its identity here.                    *)
(***************************************************************************)
EXTENDS Naturals, FiniteSets

CONSTANTS
  Terminals,   \* where the command is invoked
  Versions,    \* releases that can be installed
  Pids,        \* server processes
  None,
  MaxSignals,  \* trapped signals: INT, TERM, HUP
  MaxKills     \* SIGKILL of a shell, loss of power

TransactionFiles == {"old", "new", "was"}

\* transaction/ with the files that are left in it.
Transactions == [files : SUBSET TransactionFiles, old : Versions, new : Versions, was : BOOLEAN]

ASSUME NoneAssumption     == None \notin Versions \cup Pids \cup Transactions
ASSUME TerminalAssumption == "free" \notin Terminals /\ "stale" \notin Terminals
ASSUME BoundAssumption    == MaxSignals \in Nat /\ MaxKills \in Nat

VARIABLES
  current,      \* current.env
  previous,     \* previous.env
  transaction,  \* transaction/
  record,       \* process.env: the process it names
  lock,         \* operation.lock: free, made by a shell that lives, or stale
  owner,        \* operation.lock/owner exists
  alive,        \* server processes that run
  runs,         \* per process: the version it runs
  strays,       \* processes no shell knows of any more
  pc,           \* per terminal: where its shell is, "idle" if there is none
  job,          \* per shell: action and --recover; "recover" also in a rollback
  after,        \* per shell: what follows the subroutine it is in
  version,      \* per shell: the version it prepared or loaded
  wasRunning,   \* per shell: was_running
  child,        \* per shell: child_pid
  target,       \* per shell: the process a subroutine is about ($1, stopped)
  locked,       \* per shell: its variable locked
  validated,    \* per shell: versions its API check has accepted
  hit,          \* history: where signals fell that the lock does not survive
  signals, kills

files   == <<current, previous, transaction>>
dir     == <<lock, owner>>
procs   == <<alive, runs, strays>>
control == <<pc, job, after, version, wasRunning>>
hold    == <<child, target, locked>>
bounds  == <<hit, signals, kills>>
rest    == <<files, record, procs, job, after, version, wasRunning, validated, bounds>>
vars    == <<files, record, dir, procs, control, hold, validated, bounds>>

\* In these phases a shell reads or changes the files and processes of the
\* deployment.
WorkPhases == {"main", "prepare", "stop", "stopping", "unrecord", "restore", "launch", "record",
               "validate", "previous", "commit", "revert", "remove", "finish", "test", "forget"}
Phases == WorkPhases \cup {"idle", "mkdir", "lock", "owner", "release", "rmdir", "unlock",
                           "waiting", "exit", "ending"}

TypeOK ==
  /\ current \in Versions \cup {None}
  /\ previous \in Versions \cup {None}
  /\ transaction \in Transactions \cup {None}
  /\ record \in Pids \cup {None}
  /\ lock \in Terminals \cup {"free", "stale"}
  /\ owner \in BOOLEAN /\ (lock = "free" => ~owner)
  /\ alive \subseteq Pids
  /\ runs \in [Pids -> Versions \cup {None}]
  /\ strays \subseteq Pids
  /\ pc \in [Terminals -> Phases]
  /\ job \in [Terminals -> {"install", "start", "stop", "update", "recover"}]
  /\ after \in [Terminals -> {"main", "console", "cleanup", "exit", "launch", "restore",
                              "previous", "revert"}]
  /\ version \in [Terminals -> Versions \cup {None}]
  /\ wasRunning \in [Terminals -> BOOLEAN]
  /\ child \in [Terminals -> Pids \cup {None}]
  /\ target \in [Terminals -> Pids \cup {None}]
  /\ locked \in [Terminals -> BOOLEAN]
  /\ validated \in [Terminals -> SUBSET Versions]
  /\ hit \subseteq {"held", "released"}
  /\ signals \in 0..MaxSignals
  /\ kills \in 0..MaxKills

Init ==
  /\ current = None /\ previous = None /\ transaction = None
  /\ record = None
  /\ lock = "free" /\ owner = FALSE
  /\ alive = {} /\ strays = {}
  /\ runs = [p \in Pids |-> None]
  /\ pc = [t \in Terminals |-> "idle"]
  /\ job = [t \in Terminals |-> "start"]
  /\ after = [t \in Terminals |-> "exit"]
  /\ version = [t \in Terminals |-> None]
  /\ wasRunning = [t \in Terminals |-> FALSE]
  /\ child = [t \in Terminals |-> None]
  /\ target = [t \in Terminals |-> None]
  /\ locked = [t \in Terminals |-> FALSE]
  /\ validated = [t \in Terminals |-> {}]
  /\ hit = {}
  /\ signals = 0 /\ kills = 0

\* owned_process: the record names a process that runs.
Owned == record \in alive

\* The files left in transaction/, none without the directory.
Saved == IF transaction = None THEN {} ELSE transaction.files

At(t, p)  == pc[t] = p
Goto(t, p) == pc' = [pc EXCEPT ![t] = p]
Shell(t)  == UNCHANGED <<dir, hold, bounds>>

\* The shell goes on at p, and changes nothing.
Moves(t, p) == Goto(t, p) /\ UNCHANGED <<rest, dir, hold>>

\* It goes on at p, a subroutine that is followed by q.
Calls(t, p, q) ==
  /\ Goto(t, p)
  /\ after' = [after EXCEPT ![t] = q]
  /\ Shell(t)
  /\ UNCHANGED <<files, record, procs, job, version, wasRunning, validated>>

-----------------------------------------------------------------------------
(* main and install.                                                       *)

\* mkdir operation.lock.  A shell that finds it there changes nothing.
Begin(t) ==
  /\ At(t, "idle")
  /\ lock = "free"
  /\ lock' = t
  /\ Goto(t, "lock")
  /\ \E j \in {"install", "start", "stop", "update", "recover"} : job' = [job EXCEPT ![t] = j]
  /\ after' = [after EXCEPT ![t] = "main"]
  /\ UNCHANGED <<files, record, owner, procs, version, wasRunning, hold, validated, bounds>>

\* What the action at hand requires of the deployment.
Allowed(t) ==
  /\ transaction # None <=> job[t] = "recover"
  /\ current = None <=> job[t] = "install"
  /\ job[t] = "start" => ~Owned

Refuse(t) == At(t, "main") /\ ~Allowed(t) /\ Moves(t, "exit")

\* A download or a verification fails.
PrepareFails(t) == At(t, "prepare") /\ Moves(t, "exit")

\* The deployment may change while the candidate is prepared, if the lock is lost.
StartInstall(t) == At(t, "main") /\ job[t] = "install" /\ Allowed(t) /\ Moves(t, "prepare")

Install(t) ==
  /\ At(t, "prepare") /\ job[t] = "install"
  /\ \E v \in Versions : current' = v
  /\ Goto(t, "exit")
  /\ Shell(t)
  /\ UNCHANGED <<previous, transaction, record, procs, job, after, version, wasRunning, validated>>

Start(t) ==
  /\ At(t, "main") /\ job[t] = "start" /\ Allowed(t)
  /\ version' = [version EXCEPT ![t] = current]
  /\ Goto(t, "launch")
  /\ Shell(t)
  /\ UNCHANGED <<files, record, procs, job, after, wasRunning, validated>>

Stop(t) == At(t, "main") /\ job[t] = "stop" /\ Allowed(t) /\ Calls(t, "stop", "exit")

Recover(t) == At(t, "main") /\ job[t] = "recover" /\ Allowed(t) /\ Calls(t, "stop", "restore")

Update(t) ==
  /\ At(t, "main") /\ job[t] = "update" /\ Allowed(t)
  /\ wasRunning' = [wasRunning EXCEPT ![t] = Owned]
  /\ Goto(t, "prepare")
  /\ Shell(t)
  /\ UNCHANGED <<files, record, procs, job, after, version, validated>>

\* The candidate is in place; the transaction appears as a whole, by a rename,
\* which puts it inside another's if that is there already.
Prepare(t) ==
  /\ At(t, "prepare") /\ job[t] = "update"
  /\ \E v \in Versions :
       /\ version' = [version EXCEPT ![t] = v]
       /\ transaction' = IF transaction # None THEN transaction
                         ELSE [files |-> TransactionFiles, old |-> current, new |-> v,
                               was |-> wasRunning[t]]
  /\ after' = [after EXCEPT ![t] = "launch"]
  /\ Goto(t, "stop")
  /\ Shell(t)
  /\ UNCHANGED <<current, previous, record, procs, job, wasRunning, validated>>

-----------------------------------------------------------------------------
(* stop_owned.                                                             *)

StopNothing(t) == At(t, "stop") /\ ~Owned /\ Moves(t, "unrecord")

\* SIGTERM; the server ends when it has drained.
StopSignal(t) ==
  /\ At(t, "stop")
  /\ Owned
  /\ target' = [target EXCEPT ![t] = record]
  /\ Goto(t, "stopping")
  /\ UNCHANGED <<rest, dir, child, locked>>

\* It has ended, or is not on record any more; a child is waited for.
Stopped(t) ==
  /\ At(t, "stopping")
  /\ target[t] \notin alive \/ (~Owned /\ child[t] # target[t])
  /\ child' = [child EXCEPT ![t] = IF @ = target[t] THEN None ELSE @]
  /\ target' = [target EXCEPT ![t] = None]
  /\ Goto(t, "unrecord")
  /\ UNCHANGED <<rest, dir, locked>>

\* rm -f process.env, whatever it says by now.
Unrecord(t) ==
  /\ At(t, "unrecord")
  /\ record' = None
  /\ Goto(t, after[t])
  /\ Shell(t)
  /\ UNCHANGED <<files, procs, job, after, version, wasRunning, validated>>

\* Grace and 15 seconds are over: every caller of stop_owned gives up.
StopTimesOut(t) ==
  /\ At(t, "stopping")
  /\ target[t] \in alive /\ Owned
  /\ target' = [target EXCEPT ![t] = None]
  /\ Goto(t, "exit")
  /\ UNCHANGED <<rest, dir, child, locked>>

-----------------------------------------------------------------------------
(* launch, validate_running.                                               *)

\* A PID that nothing refers to.
Unused == Pids \ (alive \cup {record} \cup {child[t] : t \in Terminals}
                        \cup {target[t] : t \in Terminals})

\* An update whose candidate could not be recorded overwrites child_pid here:
\* nobody knows of that process any more.
Spawn(t) ==
  /\ At(t, "launch")
  /\ ~Owned
  /\ \E p \in Unused :
       /\ alive' = alive \cup {p}
       /\ runs' = [runs EXCEPT ![p] = version[t]]
       /\ strays' = (strays \cup ({child[t]} \cap alive)) \ {p}
       /\ child' = [child EXCEPT ![t] = p]
  /\ Goto(t, "record")
  /\ UNCHANGED <<files, record, dir, job, after, version, wasRunning, target, locked, validated,
                 bounds>>

\* launch refuses to start beside a managed process; this ends the command.
LaunchRefused(t) == At(t, "launch") /\ Owned /\ Moves(t, "exit")

Record(t) ==
  /\ At(t, "record")
  /\ child[t] \in alive
  /\ record' = child[t]
  /\ Goto(t, "validate")
  /\ Shell(t)
  /\ UNCHANGED <<files, procs, job, after, version, wasRunning, validated>>

\* What a shell does when launch or validate_running has failed: the candidate
\* of an update is replaced by the deployment before it.
Fail(t) ==
  /\ IF job[t] = "update"
     THEN /\ job' = [job EXCEPT ![t] = "recover"]
          /\ after' = [after EXCEPT ![t] = "restore"]
          /\ Goto(t, "stop")
     ELSE Goto(t, "exit") /\ UNCHANGED <<job, after>>
  /\ Shell(t)
  /\ UNCHANGED <<files, record, procs, version, wasRunning, validated>>

\* The files do not verify; the child has ended, or cannot be recorded.
LaunchFails(t) == ((At(t, "launch") /\ ~Owned) \/ At(t, "record")) /\ Fail(t)

ValidateFails(t) == At(t, "validate") /\ Fail(t)

\* Where a validated start, update or restoration goes on.  A process that was
\* not running before is stopped; without the file was-running it is kept.
Validated(t) ==
  /\ At(t, "validate")
  /\ child[t] \in alive /\ Owned
  /\ validated' = [validated EXCEPT ![t] = @ \cup {version[t]}]
  /\ LET commit == IF job[t] = "update" THEN "previous" ELSE "revert"
         keep   == IF job[t] = "update" THEN wasRunning[t]
                   ELSE "was" \in Saved => transaction.was
     IN IF job[t] = "start"
        THEN Goto(t, "release") /\ after' = [after EXCEPT ![t] = "console"]
        ELSE IF keep THEN Goto(t, commit) /\ UNCHANGED after
        ELSE Goto(t, "stop") /\ after' = [after EXCEPT ![t] = commit]
  /\ Shell(t)
  /\ UNCHANGED <<files, record, procs, job, version, wasRunning>>

-----------------------------------------------------------------------------
(* update and restore_transaction: the switch of the configuration.        *)

\* Mutant: the old configuration is trusted without a launch.
RestoreUnchecked(t) ==
  /\ At(t, "restore")
  /\ "old" \in Saved
  /\ version' = [version EXCEPT ![t] = transaction.old]
  /\ Goto(t, "revert")
  /\ Shell(t)
  /\ UNCHANGED <<files, record, procs, job, after, wasRunning, validated>>

\* load_config of the saved configuration, which may have been removed.
Restore(t) ==
  /\ At(t, "restore")
  /\ "old" \in Saved
  /\ version' = [version EXCEPT ![t] = transaction.old]
  /\ Goto(t, "launch")
  /\ Shell(t)
  /\ UNCHANGED <<files, record, procs, job, after, wasRunning, validated>>

\* A copy, a rename or a removal fails, or a file of the transaction is missing.
SwitchFails(t) ==
  /\ pc[t] \in {"restore", "previous", "commit", "revert", "remove"}
  /\ Moves(t, "exit")

\* Mutant: the transaction is removed, the new configuration not in place.
KeepPreviousOnly(t) ==
  /\ At(t, "previous") /\ "old" \in Saved
  /\ previous' = transaction.old
  /\ Goto(t, "remove")
  /\ Shell(t)
  /\ UNCHANGED <<current, transaction, record, procs, job, after, version, wasRunning, validated>>

KeepPrevious(t) ==
  /\ At(t, "previous") /\ "old" \in Saved
  /\ previous' = transaction.old
  /\ Goto(t, "commit")
  /\ Shell(t)
  /\ UNCHANGED <<current, transaction, record, procs, job, after, version, wasRunning, validated>>

Commit(t) ==
  /\ (At(t, "commit") /\ "new" \in Saved) \/ (At(t, "revert") /\ "old" \in Saved)
  /\ current' = IF At(t, "commit") THEN transaction.new ELSE transaction.old
  /\ Goto(t, "remove")
  /\ Shell(t)
  /\ UNCHANGED <<previous, transaction, record, procs, job, after, version, wasRunning, validated>>

\* rm -r removes the files one by one, in the order of the directory, ...
RemoveFile(t) ==
  /\ At(t, "remove")
  /\ \E f \in Saved : transaction' = [transaction EXCEPT !.files = @ \ {f}]
  /\ Shell(t)
  /\ UNCHANGED <<current, previous, record, procs, control, validated>>

\* ... and then the directory.
RemoveDirectory(t) ==
  /\ At(t, "remove")
  /\ transaction # None /\ Saved = {}
  /\ transaction' = None
  /\ Goto(t, "finish")
  /\ Shell(t)
  /\ UNCHANGED <<current, previous, record, procs, job, after, version, wasRunning, validated>>

\* What a console serves is left to console_wait, which begins with release_lock.
Finish(t) ==
  /\ At(t, "finish")
  /\ IF child[t] = None THEN Moves(t, "exit") ELSE Calls(t, "release", "console")

-----------------------------------------------------------------------------
(* The end of a shell.                                                     *)

\* The shell is in cleanup, the trap on EXIT.
Cleaning(t) == pc[t] \in {"exit", "ending"} \/ after[t] = "cleanup"

\* The variables of a shell end with it; a lock it made is stale then.
Vanish(t) ==
  /\ lock' = IF lock = t THEN "stale" ELSE lock
  /\ strays' = strays \cup ({child[t]} \cap alive)
  /\ job' = [job EXCEPT ![t] = "start"]
  /\ after' = [after EXCEPT ![t] = "exit"]
  /\ version' = [version EXCEPT ![t] = None]
  /\ wasRunning' = [wasRunning EXCEPT ![t] = FALSE]
  /\ child' = [child EXCEPT ![t] = None]
  /\ target' = [target EXCEPT ![t] = None]
  /\ locked' = [locked EXCEPT ![t] = FALSE]
  /\ validated' = [validated EXCEPT ![t] = {}]
  /\ Goto(t, "idle")
  /\ UNCHANGED <<files, record, owner, alive, runs>>

\* A command fails.  set -e ends the shell, through its trap or in it; in the
\* console_wait of an update it is off, and the shell goes on.
Fails(t, next) ==
  /\ IF Cleaning(t) THEN Vanish(t)
     ELSE Moves(t, IF after[t] = "console" /\ job[t] # "start" THEN next ELSE "exit")
  /\ UNCHANGED bounds

-----------------------------------------------------------------------------
(* The lock: acquire_lock, release_lock, clear_child_record.               *)

\* Mutant: the lock is taken without a look at its owner.
MakeLockAnyway(t) ==
  /\ At(t, "mkdir")
  /\ lock' = t /\ owner' = FALSE
  /\ Goto(t, "lock")
  /\ UNCHANGED <<rest, hold>>

\* clear_child_record takes the lock, unless an operation is going on elsewhere.
MakeLock(t) ==
  /\ At(t, "mkdir")
  /\ lock = "free"
  /\ lock' = t
  /\ Goto(t, "lock")
  /\ UNCHANGED <<rest, owner, hold>>

\* What follows clear_child_record.
Cleared(t) ==
  /\ target' = [target EXCEPT ![t] = None]
  /\ Goto(t, IF Cleaning(t) THEN "release" ELSE "exit")
  /\ UNCHANGED <<files, dir, procs, job, after, version, wasRunning, child, locked, validated,
                 bounds>>

MakeLockFails(t) == At(t, "mkdir") /\ lock # "free" /\ Cleared(t) /\ UNCHANGED record

\* locked=1: from here on cleanup knows of the lock.
Lock(t) ==
  /\ At(t, "lock")
  /\ locked' = [locked EXCEPT ![t] = TRUE]
  /\ Goto(t, "owner")
  /\ UNCHANGED <<rest, dir, child, target>>

\* What follows the making of the lock.
Locked(t) == IF after[t] = "main" THEN "main" ELSE "test"

WriteOwner(t) ==
  /\ At(t, "owner")
  /\ lock # "free"
  /\ owner' = TRUE
  /\ Goto(t, Locked(t))
  /\ UNCHANGED <<rest, lock, hold>>

WriteOwnerFails(t) == At(t, "owner") /\ lock = "free" /\ Fails(t, "test")

\* Mutant: whatever the record says, it is removed.
TestAny(t) == At(t, "test") /\ Moves(t, "forget")

\* The record is removed only if it still names the child of this shell.
Test(t) == At(t, "test") /\ record = target[t] /\ Moves(t, "forget")

TestOther(t) == At(t, "test") /\ record # target[t] /\ Cleared(t) /\ UNCHANGED record

Forget(t) == At(t, "forget") /\ record # None /\ record' = None /\ Cleared(t)
ForgetFails(t) == At(t, "forget") /\ record = None /\ Fails(t, "exit")

\* Mutant: release_lock leaves the directory.
RemoveOwnerOnly(t) ==
  /\ At(t, "release")
  /\ locked[t]
  /\ owner
  /\ owner' = FALSE
  /\ Goto(t, "unlock")
  /\ UNCHANGED <<rest, lock, hold>>

\* rm owner, of whoever has the lock; ...
RemoveOwner(t) ==
  /\ At(t, "release")
  /\ locked[t]
  /\ owner
  /\ owner' = FALSE
  /\ Goto(t, "rmdir")
  /\ UNCHANGED <<rest, lock, hold>>

RemoveOwnerFails(t) == At(t, "release") /\ locked[t] /\ ~owner /\ Fails(t, "rmdir")

\* ... rmdir; ...
RemoveLock(t) ==
  /\ At(t, "rmdir")
  /\ lock # "free" /\ ~owner
  /\ lock' = "free"
  /\ Goto(t, "unlock")
  /\ UNCHANGED <<rest, owner, hold>>

RemoveLockFails(t) == At(t, "rmdir") /\ (lock = "free" \/ owner) /\ Fails(t, "unlock")

\* ... locked=0.  The terminal owns the process; others may operate on it now.
Unlock(t) ==
  /\ At(t, "unlock") /\ ~Cleaning(t)
  /\ locked' = [locked EXCEPT ![t] = FALSE]
  /\ Goto(t, "waiting")
  /\ UNCHANGED <<rest, dir, child, target>>

-----------------------------------------------------------------------------
(* console_wait after release_lock, cleanup.                               *)

\* The process has ended.
Reap(t) ==
  /\ At(t, "waiting")
  /\ child[t] \notin alive
  /\ target' = [target EXCEPT ![t] = child[t]]
  /\ child' = [child EXCEPT ![t] = None]
  /\ Goto(t, "mkdir")
  /\ UNCHANGED <<rest, dir, locked>>

\* SIGTERM to the child this shell still has.
ExitWaits(t) == At(t, "exit") /\ child[t] \in alive /\ Moves(t, "ending")

\* Mutant: the shell does not wait for its child.
ExitAtOnce(t) ==
  /\ At(t, "exit") \/ At(t, "ending")
  /\ Calls(t, "release", "cleanup")

\* clear_child_record for the child, which takes the lock if the shell has none.
Exit(t) ==
  /\ At(t, "exit") \/ At(t, "ending")
  /\ child[t] \notin alive
  /\ after' = [after EXCEPT ![t] = "cleanup"]
  /\ target' = [target EXCEPT ![t] = child[t]]
  /\ Goto(t, IF child[t] = None THEN "release" ELSE IF locked[t] THEN "test" ELSE "mkdir")
  /\ UNCHANGED <<files, record, dir, procs, job, version, wasRunning, child, locked, validated,
                 bounds>>

\* The child did not end: its record is kept, and manual recovery is asked for.
ExitGivesUp(t) ==
  /\ At(t, "ending")
  /\ child[t] \in alive
  /\ strays' = strays \cup {child[t]}
  /\ after' = [after EXCEPT ![t] = "cleanup"]
  /\ Goto(t, "release")
  /\ Shell(t)
  /\ UNCHANGED <<files, record, alive, runs, job, version, wasRunning, validated>>

\* The last of release_lock, or a release_lock that has nothing to release.
ExitEnds(t) ==
  /\ (At(t, "unlock") /\ Cleaning(t)) \/ (At(t, "release") /\ ~locked[t])
  /\ Vanish(t)
  /\ UNCHANGED bounds

-----------------------------------------------------------------------------
(* The environment.                                                        *)

\* Where a signal makes cleanup and the lock disagree: cleanup takes a lock for
\* its own that was released, or does not release the one this shell made.
Window(t) ==
  IF At(t, "unlock") THEN {"released"}
  ELSE IF pc[t] \in {"lock", "owner", "rmdir"} THEN {"held"} ELSE {}

\* A trapped signal: the shell exits as soon as the command at hand has ended.
Signal(t) ==
  /\ ~At(t, "idle") /\ ~Cleaning(t)
  /\ signals < MaxSignals
  /\ signals' = signals + 1
  /\ hit' = hit \cup Window(t)
  /\ Goto(t, "exit")
  /\ UNCHANGED <<files, record, dir, procs, job, after, version, wasRunning, hold, validated,
                 kills>>

\* The traps of INT, TERM and HUP are still set in cleanup, that of EXIT is not:
\* a second signal ends the shell in the middle of it.
SignalAgain(t) ==
  /\ Cleaning(t)
  /\ signals < MaxSignals
  /\ signals' = signals + 1
  /\ hit' = hit \cup {"held"}
  /\ Vanish(t)
  /\ UNCHANGED kills

Kill(t) ==
  /\ ~At(t, "idle")
  /\ kills < MaxKills
  /\ kills' = kills + 1
  /\ Vanish(t)
  /\ UNCHANGED <<hit, signals>>

PowerLoss ==
  /\ kills < MaxKills
  /\ kills' = kills + 1
  /\ alive' = {} /\ strays' = {}
  /\ runs' = [p \in Pids |-> None]
  /\ lock' = IF lock = "free" THEN "free" ELSE "stale"
  /\ pc' = [t \in Terminals |-> "idle"]
  /\ job' = [t \in Terminals |-> "start"]
  /\ after' = [t \in Terminals |-> "exit"]
  /\ version' = [t \in Terminals |-> None]
  /\ wasRunning' = [t \in Terminals |-> FALSE]
  /\ child' = [t \in Terminals |-> None]
  /\ target' = [t \in Terminals |-> None]
  /\ locked' = [t \in Terminals |-> FALSE]
  /\ validated' = [t \in Terminals |-> {}]
  /\ UNCHANGED <<files, record, owner, hit, signals>>

\* A server ends: it was told to, it crashed, or its console was closed.
ProcessEnds(p) ==
  /\ p \in alive
  /\ alive' = alive \ {p}
  /\ runs' = [runs EXCEPT ![p] = None]
  /\ strays' = strays \ {p}
  /\ UNCHANGED <<files, record, dir, control, hold, validated, bounds>>

\* The user has made sure that the owner of the lock is gone, and renames it.
RenameStaleLock ==
  /\ lock = "stale"
  /\ lock' = "free" /\ owner' = FALSE
  /\ UNCHANGED <<files, record, procs, control, hold, validated, bounds>>

-----------------------------------------------------------------------------
Main(t) ==
  \/ Refuse(t) \/ PrepareFails(t) \/ StartInstall(t) \/ Install(t) \/ Start(t) \/ Stop(t)
  \/ Recover(t) \/ Update(t) \/ Prepare(t)
Process(t) ==
  \/ StopNothing(t) \/ StopSignal(t) \/ Stopped(t) \/ Unrecord(t) \/ StopTimesOut(t)
  \/ Spawn(t) \/ LaunchRefused(t) \/ Record(t) \/ LaunchFails(t) \/ Validated(t)
  \/ ValidateFails(t)
Switch(t) ==
  \/ Restore(t) \/ SwitchFails(t) \/ KeepPrevious(t) \/ Commit(t)
  \/ RemoveFile(t) \/ RemoveDirectory(t) \/ Finish(t)
Locking(t) ==
  \/ MakeLock(t) \/ MakeLockFails(t) \/ Lock(t) \/ WriteOwner(t) \/ WriteOwnerFails(t)
  \/ RemoveOwner(t) \/ RemoveOwnerFails(t) \/ RemoveLock(t) \/ RemoveLockFails(t) \/ Unlock(t)
Leaving(t) ==
  \/ Reap(t) \/ Test(t) \/ TestOther(t) \/ Forget(t) \/ ForgetFails(t)
  \/ ExitWaits(t) \/ Exit(t) \/ ExitGivesUp(t) \/ ExitEnds(t)

ShellStep(t) == Main(t) \/ Process(t) \/ Switch(t) \/ Locking(t) \/ Leaving(t)

Next ==
  \/ \E t \in Terminals : Begin(t) \/ ShellStep(t) \/ Signal(t) \/ SignalAgain(t) \/ Kill(t)
  \/ \E p \in Pids : ProcessEnds(p)
  \/ PowerLoss \/ RenameStaleLock

Spec == Init /\ [][Next]_vars

-----------------------------------------------------------------------------
\* A shell was interrupted between rmdir and locked=0: it takes whatever lock is
\* there for its own.  The safety properties are about the time before that;
\* WorkHasLock below shows what it leads to.
Misled == "released" \in hit

\* Operations exclude each other: a shell that reads or changes the deployment
\* holds the lock, also one that took it again to clear its record, and after a
\* stale lock was renamed.
OneOperation == ~Misled => \A t \in Terminals : pc[t] \in WorkPhases => lock = t

\* A lock without its shell is left by a kill, or by a signal while the lock was
\* being made or removed or cleanup was at work, which docs/macos.md:112 does not
\* mention; any other signal, and whatever else ends an operation, releases it.
LockIsReleased == lock = "stale" => kills > 0 \/ hit # {}

\* A deployment runs one server.  The exception are processes nobody could know
\* of: their shell was killed, gave them up, or could not record them.
OneServer == ~Misled => Cardinality({p \in alive : p \in strays => p = record}) <= 1

\* The record of a process that runs is never removed or replaced, not even by a
\* console that wakes up late, when another terminal has started a new server.
RecordIsKept == [][~Misled /\ record' # record => ~Owned]_vars

\* A configuration in use is replaced only by one whose real API check succeeded
\* in the same operation, in an update as in its rollback and in a recovery.
CommittedIsValidated ==
  [][~Misled /\ current' # current /\ current # None
       => \E t \in Terminals : lock = t /\ current' \in validated[t]]_vars

\* Whenever the server that runs is not the one configured, there is a
\* transaction that says what to return to.
SwitchIsRecoverable == ~Misled /\ Owned /\ runs[record] # current => "old" \in Saved

-----------------------------------------------------------------------------
(* What the documentation promises and the script does not keep.           *)

\* docs/macos.md:60: transaction/ holds the old and the new configuration and
\* the state before, while a switch is unfinished; update --recover relies on it
\* after any interruption.
TransactionIsComplete ==
  transaction # None /\ (\A t \in Terminals : At(t, "idle")) => Saved = TransactionFiles

\* docs/macos.md:115: the script never removes a lock that is not its own, so
\* the operation at work keeps the lock it has made.
WorkHasLock == \A t \in Terminals : pc[t] \in WorkPhases /\ ~Cleaning(t) => lock = t
=============================================================================
