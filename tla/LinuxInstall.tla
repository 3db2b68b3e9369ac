---------------------------- MODULE LinuxInstall ----------------------------
(***************************************************************************)
(* The native installer for Linux: src/scripts/install.sh.                 *)
(*                                                                         *)
(* One shell at a time installs, upgrades or uninstalls: a directory is    *)
(* the lock, and a shell that finds it there ends without effect.  Every   *)
(* command that changes a shared file, the service manager or the user     *)
(* database is an action.  Any command may fail, a trapped signal is       *)
(* handled between two of them, and the shell or the machine may die.      *)
(* A write that does not end leaves its file cut off: Torn.                *)
(*                                                                         *)
(* server.conf is the port in it, token.env the token, a directory under   *)
(* versions/ the release and the port its launch script was written with.  *)
(* Downloads and checks of files succeed or fail.  The four service        *)
(* managers are one: stop and disable fail for a service without a file,   *)
(* start does not touch a service that is up.                              *)
(***************************************************************************)
EXTENDS Naturals, FiniteSets

CONSTANTS
  Versions,    \* releases
  Configs,     \* ports, and tokens
  None, Torn,
  MaxSignals,  \* trapped signals: INT, TERM, HUP
  MaxKills     \* SIGKILL of the shell, loss of power

Destinations == [version : Versions, port : Configs]
Copies       == [server : Configs, token : Configs]
Choices      == [version : Versions, port : Configs, token : Configs]

ASSUME NoneAssumption ==
  None \notin {Torn} \cup Configs \cup Destinations \cup Copies \cup Choices
                     \cup [link : Destinations, token : Configs]
ASSUME TornAssumption  == Torn \notin Configs
ASSUME BoundAssumption == MaxSignals \in Nat /\ MaxKills \in Nat

VARIABLES
  server,      \* server.conf
  token,       \* token.env
  manager,     \* the file manager exists
  service,     \* the service file exists
  link,        \* current: the directory it points to
  user,        \* the user laya-server exists
  owned,       \* user-owned: the installer made that user
  enabled,     \* started at boot
  wanted,      \* kept up by the service manager
  up,          \* the running service: what it was started from
  lock,        \* free, held by a living shell, stale
  pc,          \* where the shell is
  new,         \* the version, port and token chosen
  old,         \* current before the activation
  work,        \* copies of server.conf and token.env in the shell's directory
  switched,    \* cleanup has to roll back
  backups,     \* copies of shells that could not roll back, or were killed
  report,      \* what the last shell told its user
  before,      \* what was deployed when the shell took the lock
  good,        \* what the last accepted API check used
  signals, kills

config  == <<server, token>>
account == <<user, owned>>
process == <<enabled, wanted, up>>
shell   == <<new, old, work, switched>>
ghosts  == <<before, good>>
bounds  == <<signals, kills>>
vars    == <<config, manager, service, link, account, process, lock, pc, shell, backups,
             report, ghosts, bounds>>

Activating   == {"activate", "stop", "server", "token", "manager", "link", "service", "start",
                 "validate"}
Uninstalling == {"halt", "disable", "remove", "forget", "erase", "deluser", "purge"}
RollingBack  == {"undo", "unserver", "untoken", "unservice", "unlink", "restart", "revalidate",
                 "unregister", "unfile", "unmanage"}
Phases == {"idle", "lock", "plan", "user", "mark", "exit"} \cup Activating \cup Uninstalling
            \cup RollingBack

\* Where a trapped signal or a failing command ends in cleanup.
Trapped == {"plan", "user", "mark"} \cup Activating \cup Uninstalling

Flags ==
  /\ manager \in BOOLEAN /\ service \in BOOLEAN
  /\ user \in BOOLEAN /\ owned \in BOOLEAN
  /\ enabled \in BOOLEAN /\ wanted \in BOOLEAN
  /\ switched \in BOOLEAN

Values ==
  /\ server \in Configs \cup {None, Torn}
  /\ token \in Configs \cup {None, Torn}
  /\ link \in Destinations \cup {None}
  /\ up \in [link : Destinations, token : Configs] \cup {None}
  /\ lock \in {"free", "held", "stale"}
  /\ pc \in Phases
  /\ new \in Choices \cup {None}
  /\ old \in Destinations \cup {None}
  /\ work \in Copies \cup {None}
  /\ backups \subseteq Copies
  /\ report \in {"none", "installed", "restored", "removed"}
  /\ good \in Copies \cup {None}
  /\ signals \in 0..MaxSignals
  /\ kills \in 0..MaxKills

TypeOK == Flags /\ Values

Deployment == [server |-> server, token |-> token, link |-> link]

Init ==
  /\ server = None /\ token = None /\ link = None /\ up = None
  /\ manager = FALSE /\ service = FALSE /\ user = FALSE /\ owned = FALSE
  /\ enabled = FALSE /\ wanted = FALSE
  /\ lock = "free" /\ pc = "idle"
  /\ new = None /\ old = None /\ work = None /\ switched = FALSE
  /\ backups = {}
  /\ report = "none"
  /\ before = Deployment /\ good = None
  /\ signals = 0 /\ kills = 0

Step(p, q) == pc = p /\ pc' = q

\* What the steps of a shell leave alone, apart from those that say otherwise.
Files   == UNCHANGED <<config, manager, service, link, account>>
Shell   == UNCHANGED <<lock, shell, backups, report, ghosts, bounds>>
Process == UNCHANGED process

-----------------------------------------------------------------------------
(* preflight, choose_config, create_user.                                  *)

Begin ==
  /\ lock = "free"
  /\ lock' = "held"
  /\ Step("idle", "lock")
  /\ report' = "none" /\ before' = Deployment
  /\ Files /\ Process
  /\ UNCHANGED <<shell, backups, good, bounds>>

\* locked=1: from here on cleanup knows of the lock.
Locked ==
  /\ \/ Step("lock", "plan")
     \/ Step("lock", IF manager THEN "halt" ELSE "erase")
  /\ Files /\ Process /\ Shell

\* load_config, check_service_conflicts.
Accepted ==
  /\ server # None => {server, token} \subseteq Configs
  /\ service => manager

\* The user takes or edits the configuration; a missing token is made up.
Plan ==
  /\ Accepted
  /\ Step("plan", "user")
  /\ \E v \in Versions, p, t \in Configs : new' = [version |-> v, port |-> p, token |-> t]
  /\ old' = link
  /\ Files /\ Process
  /\ UNCHANGED <<lock, work, switched, backups, report, ghosts, bounds>>

CreateUser ==
  /\ ~user
  /\ Step("user", "mark")
  /\ user' = TRUE
  /\ Process /\ Shell
  /\ UNCHANGED <<config, manager, service, link, owned>>

\* A user of that name is taken over only if the installer made it.
KeepUser ==
  /\ user /\ owned
  /\ Step("user", "activate")
  /\ Files /\ Process /\ Shell

MarkUser ==
  /\ Step("mark", "activate")
  /\ owned' = TRUE
  /\ Process /\ Shell
  /\ UNCHANGED <<config, manager, service, link, user>>

-----------------------------------------------------------------------------
(* activate_version.                                                       *)

FirstActivation ==
  /\ old = None
  /\ Step("activate", "server")
  /\ switched' = TRUE
  /\ Files /\ Process
  /\ UNCHANGED <<lock, new, old, work, backups, report, ghosts, bounds>>

\* Mutant: cleanup is not told that the service is being switched.
BackupUnarmed ==
  /\ old # None
  /\ {server, token} \subseteq Configs /\ service
  /\ Step("activate", "stop")
  /\ work' = [server |-> server, token |-> token]
  /\ Files /\ Process
  /\ UNCHANGED <<lock, new, old, switched, backups, report, ghosts, bounds>>

Backup ==
  /\ old # None
  /\ {server, token} \subseteq Configs /\ service
  /\ Step("activate", "stop")
  /\ work' = [server |-> server, token |-> token]
  /\ switched' = TRUE
  /\ Files /\ Process
  /\ UNCHANGED <<lock, new, old, backups, report, ghosts, bounds>>

\* Mutant: the old service is left running.
StopForgotten == up' = up /\ wanted' = wanted /\ enabled' = enabled

StopService ==
  /\ service
  /\ up' = None /\ wanted' = FALSE /\ enabled' = enabled

StopOld == Step("stop", "server") /\ StopService /\ Files /\ Shell

WriteServer ==
  /\ Step("server", "token")
  /\ server' = new.port
  /\ Process /\ Shell
  /\ UNCHANGED <<token, manager, service, link, account>>

WriteToken ==
  /\ Step("token", "manager")
  /\ token' = new.token
  /\ Process /\ Shell
  /\ UNCHANGED <<server, manager, service, link, account>>

WriteManager ==
  /\ Step("manager", "link")
  /\ manager' = TRUE
  /\ Process /\ Shell
  /\ UNCHANGED <<config, service, link, account>>

Relink ==
  /\ Step("link", "service")
  /\ link' = [version |-> new.version, port |-> new.port]
  /\ Process /\ Shell
  /\ UNCHANGED <<config, manager, service, account>>

WriteService ==
  /\ Step("service", "start")
  /\ service' = TRUE
  /\ Process /\ Shell
  /\ UNCHANGED <<config, manager, link, account>>

Launched == [link |-> link, token |-> token]

StartService ==
  /\ service
  /\ up' = IF up = None THEN Launched ELSE up
  /\ wanted' = TRUE /\ enabled' = TRUE

StartNew == Step("start", "validate") /\ StartService /\ Files /\ Shell

\* check_api: the service answers at the configured port and to the token.
Serving == up # None /\ up.link.port = server /\ up.token = token

Installed ==
  /\ Serving
  /\ Step("validate", "exit")
  /\ switched' = FALSE
  /\ report' = "installed"
  /\ good' = [server |-> server, token |-> token]
  /\ Files /\ Process
  /\ UNCHANGED <<lock, new, old, work, backups, before, bounds>>

-----------------------------------------------------------------------------
(* uninstall_service.                                                      *)

StopForGood == Step("halt", "disable") /\ StopService /\ Files /\ Shell

\* service_remove, here and in a rollback: not started at boot, then without a file.
Disable ==
  /\ service
  /\ Step("disable", "remove") \/ Step("unregister", "unfile")
  /\ enabled' = FALSE
  /\ Files /\ Shell
  /\ UNCHANGED <<wanted, up>>

RemoveService ==
  /\ Step("remove", "forget") \/ Step("unfile", "unmanage")
  /\ service' = FALSE
  /\ Process /\ Shell
  /\ UNCHANGED <<config, manager, link, account>>

ForgetManager ==
  /\ Step("forget", "erase")
  /\ manager' = FALSE
  /\ Process /\ Shell
  /\ UNCHANGED <<config, service, link, account>>

\* The programs are removed; models and configuration too, if that is confirmed.
Erase ==
  /\ Step("erase", "exit") \/ Step("erase", "deluser")
  /\ link' = None
  /\ good' = None
  /\ Process
  /\ UNCHANGED <<config, manager, service, account, lock, shell, backups, report, before, bounds>>

DeleteUser ==
  /\ Step("deluser", "purge")
  /\ user' = (user /\ ~owned)
  /\ Process /\ Shell
  /\ UNCHANGED <<config, manager, service, link, owned>>

Purge ==
  /\ Step("purge", "exit")
  /\ server' = None /\ token' = None /\ manager' = FALSE /\ owned' = FALSE
  /\ Process /\ Shell
  /\ UNCHANGED <<service, link, user>>

-----------------------------------------------------------------------------
(* cleanup and rollback.                                                   *)

\* exit with a status other than zero, from anywhere before cleanup.
Abort == pc' = IF switched THEN "undo" ELSE "exit"

\* A write that fails, or dies with the shell, may have emptied its file.
Cut(phases, file) == file' = file \/ (pc \in phases /\ file' = Torn)

CutOff == Cut({"server", "unserver"}, server) /\ Cut({"token", "untoken"}, token)

\* A command fails, the check of the API does, or the user declines.
CommandFails ==
  /\ pc \in Trapped
  /\ Abort
  /\ CutOff
  /\ Process /\ Shell
  /\ UNCHANGED <<manager, service, link, account>>

RollbackStop ==
  /\ Step("undo", IF old = None THEN "unregister" ELSE "unserver")
  /\ StopService /\ Files /\ Shell

RestoreServer ==
  /\ Step("unserver", "untoken")
  /\ server' = work.server
  /\ Process /\ Shell
  /\ UNCHANGED <<token, manager, service, link, account>>

RestoreToken ==
  /\ Step("untoken", "unservice")
  /\ token' = work.token
  /\ Process /\ Shell
  /\ UNCHANGED <<server, manager, service, link, account>>

RestoreService ==
  /\ Step("unservice", "unlink")
  /\ service' = TRUE
  /\ Process /\ Shell
  /\ UNCHANGED <<config, manager, link, account>>

\* Mutant: mv without -T puts the link into the directory that current points to.
RestoreLinkInside == Step("unlink", "restart") /\ Files /\ Process /\ Shell

RestoreLink ==
  /\ Step("unlink", "restart")
  /\ link' = old
  /\ Process /\ Shell
  /\ UNCHANGED <<config, manager, service, account>>

RestartOld == Step("restart", "revalidate") /\ StartService /\ Files /\ Shell

Restored ==
  /\ Serving
  /\ Step("revalidate", "exit")
  /\ report' = "restored"
  /\ good' = [server |-> server, token |-> token]
  /\ Files /\ Process
  /\ UNCHANGED <<lock, shell, backups, before, bounds>>

\* The rm of current and manager is not looked at: it fails for either, or both, and
\* rollback tells its user all the same that the service has been removed.
Removed ==
  /\ Step("unmanage", "exit")
  /\ link' \in {None, link} /\ (manager' = manager \/ manager' = FALSE)
  /\ report' = "removed"
  /\ Process
  /\ UNCHANGED <<config, service, account, lock, shell, backups, ghosts, bounds>>

\* The copies that are not removed with the shell's directory.
Kept == backups' = IF work = None THEN backups ELSE backups \cup {work}

\* A step of rollback fails, but for that rm: the copies are kept and the user is told
\* so.  Before the rm it is the daemon-reload of service_remove that may fail.
RollbackFails ==
  /\ pc \in RollingBack
  /\ pc' = "exit"
  /\ CutOff
  /\ Kept /\ work' = None
  /\ Process
  /\ UNCHANGED <<manager, service, link, account, lock, new, old, switched, report, ghosts, bounds>>

\* The variables of a shell end with it.
Ended ==
  /\ pc' = "idle"
  /\ new' = None /\ old' = None /\ work' = None /\ switched' = FALSE

Exit ==
  /\ pc = "exit"
  /\ Ended
  /\ lock' = "free"
  /\ Files /\ Process
  /\ UNCHANGED <<backups, report, ghosts, bounds>>

-----------------------------------------------------------------------------
(* The environment.                                                        *)

Signal ==
  /\ pc \in Trapped
  /\ signals < MaxSignals
  /\ signals' = signals + 1
  /\ Abort
  /\ Files /\ Process
  /\ UNCHANGED <<lock, shell, backups, report, ghosts, kills>>

\* The shell ends without cleanup, or with one that knows of no lock.
Vanish ==
  /\ pc # "idle"
  /\ Ended /\ Kept /\ CutOff
  /\ lock' = "stale"
  /\ Process
  /\ UNCHANGED <<manager, service, link, account, report, ghosts>>

\* cleanup has reset the traps: a signal ends the shell in the middle of it.
SignalUntrapped ==
  /\ pc \notin Trapped
  /\ signals < MaxSignals
  /\ signals' = signals + 1
  /\ Vanish
  /\ UNCHANGED kills

Kill ==
  /\ kills < MaxKills
  /\ kills' = kills + 1
  /\ Vanish
  /\ UNCHANGED signals

\* The lock is in /run, which is empty after a boot; enabled services start.
PowerLoss ==
  /\ kills < MaxKills
  /\ kills' = kills + 1
  /\ Ended /\ Kept /\ CutOff
  /\ lock' = "free"
  /\ up' = None /\ wanted' = (enabled /\ service)
  /\ UNCHANGED <<manager, service, link, account, enabled, report, ghosts, signals>>

\* The user has made sure that the installer is gone, and removes its lock.
RemoveStaleLock ==
  /\ lock = "stale"
  /\ lock' = "free"
  /\ Files /\ Process
  /\ UNCHANGED <<pc, shell, backups, report, ghosts, bounds>>

Crash ==
  /\ up # None
  /\ up' = None
  /\ Files /\ Shell
  /\ UNCHANGED <<enabled, wanted, pc>>

\* The service manager starts what it keeps up, from the files as they are.
Respawn ==
  /\ up = None /\ wanted /\ service
  /\ link # None /\ token \in Configs
  /\ up' = Launched
  /\ Files /\ Shell
  /\ UNCHANGED <<enabled, wanted, pc>>

-----------------------------------------------------------------------------
Prepare  == Begin \/ Locked \/ Plan \/ CreateUser \/ KeepUser \/ MarkUser
Activate ==
  \/ FirstActivation \/ Backup \/ StopOld \/ WriteServer \/ WriteToken \/ WriteManager
  \/ Relink \/ WriteService \/ StartNew \/ Installed
Uninstall ==
  \/ StopForGood \/ Disable \/ RemoveService \/ ForgetManager \/ Erase \/ DeleteUser \/ Purge
Rollback ==
  \/ RollbackStop \/ RestoreServer \/ RestoreToken \/ RestoreService \/ RestoreLink
  \/ RestartOld \/ Restored \/ Removed \/ RollbackFails
Environment ==
  \/ Signal \/ SignalUntrapped \/ Kill \/ PowerLoss \/ RemoveStaleLock \/ Crash \/ Respawn

Next == Prepare \/ Activate \/ Uninstall \/ CommandFails \/ Rollback \/ Exit \/ Environment

Spec == Init /\ [][Next]_vars

-----------------------------------------------------------------------------
(* What the installer promises.                                            *)

\* A deployment reported as installed or restored is the one that serves: not a
\* process that survived the switch, not one with another token or port.
ServedAsReported ==
  [][report' # report /\ report' \in {"installed", "restored"}
       => up' = [link |-> link', token |-> token'] /\ link'.port = server']_vars

\* Restored means as before: link, port and token are those the shell found.
\* Removed means that nothing of a service runs, now or after a boot; link and manager
\* file may stay, because rollback does not look whether their rm succeeds.
RollbackRestores ==
  [][report' # report =>
       /\ report' = "restored" => Deployment' = before
       /\ report' = "removed" => ~service' /\ up' = None /\ ~wanted' /\ ~enabled']_vars

\* The port and token of the last deployment that was accepted are in place or
\* in a copy, whatever was interrupted, as long as it was not uninstalled.
LastGoodIsKept ==
  good # None =>
    \/ server = good.server /\ token = good.token
    \/ good \in backups \cup {work}
=============================================================================
