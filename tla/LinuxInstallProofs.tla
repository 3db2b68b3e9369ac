------------------------- MODULE LinuxInstallProofs -------------------------
(***************************************************************************)
(* What the installer for Linux guarantees for any number of releases,     *)
(* configurations, signals, failing commands and kills.                    *)
(*                                                                         *)
(* ShellInv    what the variables of the shell are at every phase          *)
(* ServiceInv  what is up was started from the link in place, and nothing  *)
(*             is up while link and configuration are exchanged            *)
(* BeforeInv   what has been copied or changed of the deployment so far    *)
(* GoodInv     where the configuration accepted last is at every phase     *)
(*                                                                         *)
(* ShellInv is inductive with the types; ServiceInv and BeforeInv are      *)
(* relative to it, and GoodInv relative to ServiceInv too.                 *)
(***************************************************************************)
EXTENDS LinuxInstall, TLAPS

USE DEF config, account, process, shell, ghosts, bounds, Step, Files, Shell, Process

\* The phases of a rollback to an old deployment.
Restoring == {"unserver", "untoken", "unservice", "unlink", "restart", "revalidate"}

ShellInv ==
  /\ pc \in {"user", "mark"} \cup Activating => new # None
  /\ pc \in (Activating \ {"activate"}) \cup RollingBack => switched
  /\ pc \in {"idle", "lock", "plan", "user", "mark", "activate"} \cup Uninstalling
       => ~switched /\ work = None
  /\ pc \in (Activating \ {"activate"}) \cup {"undo"} /\ old # None => work # None
  /\ pc = "stop" \/ pc \in Restoring => old # None /\ work # None
  /\ pc \in {"unregister", "unfile", "unmanage"} => old = None
  /\ pc \in {"manager", "link", "service", "start"} => token = new.token
  /\ pc \in {"unservice", "unlink", "restart"} => token = work.token
  /\ pc \in {"service", "start", "restart"} => link # None

\* Values and ShellInv are inductive.
LEMMA ShellInvariance == Spec => [](Values /\ ShellInv)
<1> USE NoneAssumption, TornAssumption, BoundAssumption
    DEF NoneAssumption, TornAssumption, BoundAssumption, Values, ShellInv
<1>1. Init => Values /\ ShellInv
  BY DEF Init, Phases, Activating, Uninstalling, RollingBack, Restoring
<1>2. Values /\ ShellInv /\ [Next]_vars => (Values /\ ShellInv)'
  <2> SUFFICES ASSUME Values, ShellInv, [Next]_vars PROVE (Values /\ ShellInv)'
    OBVIOUS
  <2> USE DEF Phases, Activating, Uninstalling, RollingBack, Restoring
  <2>1. CASE Begin
    BY <2>1 DEF Begin
  <2>2. CASE Locked
    BY <2>2 DEF Locked
  <2>3. CASE Plan
    BY <2>3 DEF Plan, Accepted, Choices
  <2>4. CASE CreateUser
    BY <2>4 DEF CreateUser
  <2>5. CASE KeepUser
    BY <2>5 DEF KeepUser
  <2>6. CASE MarkUser
    BY <2>6 DEF MarkUser
  <2>7. CASE FirstActivation
    BY <2>7 DEF FirstActivation
  <2>8. CASE Backup
    BY <2>8 DEF Backup, Copies
  <2>9. CASE StopOld
    BY <2>9 DEF StopOld, StopService
  <2>10. CASE WriteServer
    BY <2>10 DEF WriteServer, Choices
  <2>11. CASE WriteToken
    BY <2>11 DEF WriteToken, Choices
  <2>12. CASE WriteManager
    BY <2>12 DEF WriteManager
  <2>13. CASE Relink
    BY <2>13 DEF Relink, Destinations, Choices
  <2>14. CASE WriteService
    BY <2>14 DEF WriteService
  <2>15. CASE StartNew
    BY <2>15 DEF StartNew, StartService, Launched, Choices
  <2>16. CASE Installed
    BY <2>16 DEF Installed, Serving, Copies, Destinations
  <2>17. CASE StopForGood
    BY <2>17 DEF StopForGood, StopService
  <2>18. CASE RemoveService
    BY <2>18 DEF RemoveService
  <2>19. CASE ForgetManager
    BY <2>19 DEF ForgetManager
  <2>20. CASE Erase
    BY <2>20 DEF Erase
  <2>21. CASE DeleteUser
    BY <2>21 DEF DeleteUser
  <2>22. CASE Purge
    BY <2>22 DEF Purge
  <2>23. CASE CommandFails
    BY <2>23 DEF CommandFails, Abort, CutOff, Cut, Trapped
  <2>24. CASE RollbackStop
    BY <2>24 DEF RollbackStop, StopService
  <2>25. CASE RestoreServer
    <3>1. work \in Copies
      BY <2>25, SMT DEF RestoreServer
    <3>2. QED
      BY <2>25, <3>1 DEF RestoreServer, Copies
  <2>26. CASE RestoreToken
    <3>1. work \in Copies
      BY <2>26, SMT DEF RestoreToken
    <3>2. QED
      BY <2>26, <3>1 DEF RestoreToken, Copies
  <2>27. CASE RestoreService
    BY <2>27 DEF RestoreService
  <2>28. CASE RestoreLink
    BY <2>28 DEF RestoreLink
  <2>29. CASE RestartOld
    <3>1. work \in Copies
      BY <2>29, SMT DEF RestartOld
    <3>2. QED
      BY <2>29, <3>1 DEF RestartOld, StartService, Launched, Copies
  <2>30. CASE Restored
    BY <2>30 DEF Restored, Serving, Copies, Destinations
  <2>31. CASE Disable
    BY <2>31 DEF Disable
  <2>32. CASE Removed
    BY <2>32 DEF Removed
  <2>33. CASE RollbackFails
    BY <2>33 DEF RollbackFails, CutOff, Cut, Kept
  <2>34. CASE Exit
    BY <2>34 DEF Exit, Ended
  <2>35. CASE Signal
    BY <2>35 DEF Signal, Abort, Trapped
  <2>36. CASE SignalUntrapped
    BY <2>36 DEF SignalUntrapped, Vanish, Ended, Kept, CutOff, Cut, Trapped
  <2>37. CASE Kill
    BY <2>37 DEF Kill, Vanish, Ended, Kept, CutOff, Cut
  <2>38. CASE PowerLoss
    BY <2>38 DEF PowerLoss, Ended, Kept, CutOff, Cut
  <2>39. CASE RemoveStaleLock
    BY <2>39 DEF RemoveStaleLock
  <2>40. CASE Crash
    BY <2>40 DEF Crash
  <2>41. CASE Respawn
    BY <2>41 DEF Respawn, Launched
  <2>42. CASE UNCHANGED vars
    BY <2>42 DEF vars
  <2> HIDE DEF Values, ShellInv
  <2>43. QED
    BY <2>1, <2>2, <2>3, <2>4, <2>5, <2>6, <2>7, <2>8, <2>9, <2>10, <2>11, <2>12, <2>13,
       <2>14, <2>15, <2>16, <2>17, <2>18, <2>19, <2>20, <2>21, <2>22, <2>23, <2>24, <2>25,
       <2>26, <2>27, <2>28, <2>29, <2>30, <2>31, <2>32, <2>33, <2>34, <2>35, <2>36, <2>37,
       <2>38, <2>39, <2>40, <2>41, <2>42
    DEF Next, Prepare, Activate, Uninstall, Rollback, Environment
<1>3. QED
  BY <1>1, <1>2, PTL DEF Spec

\* The phases between the stop and the start of an old service.
Stopped == {"server", "token", "manager", "link", "service", "start"}

ServiceInv ==
  /\ up # None => up.link = link
  /\ service => manager
  /\ ~service => up = None /\ ~wanted /\ ~enabled
  /\ pc \in {"remove", "unfile"} => ~enabled
  /\ pc \in Stopped /\ old # None => up = None /\ ~wanted
  /\ pc \in {"disable", "remove", "unregister", "unfile"} \cup (Restoring \ {"revalidate"}) => up = None /\ ~wanted
  /\ pc \in {"forget", "erase", "deluser", "purge", "unmanage"} => ~service
  /\ pc \in {"user", "mark", "activate", "stop", "server", "token", "manager", "link"}
       => link = old
  /\ pc \in {"link", "service", "start", "validate"} => manager
  /\ pc \in {"unserver", "untoken", "unservice", "unlink"} => service

\* What is up was started from the link in place, and nothing is up while it is replaced.
LEMMA ServiceInvariance == Spec => []ServiceInv
<1> USE NoneAssumption, TornAssumption, BoundAssumption
    DEF NoneAssumption, TornAssumption, BoundAssumption, Values, ServiceInv
<1>1. Init => ServiceInv
  BY DEF Init, Phases, Activating, Uninstalling, RollingBack, Restoring, Stopped
<1>2. Values /\ ShellInv /\ Values' /\ ServiceInv /\ [Next]_vars => ServiceInv'
  <2> SUFFICES ASSUME Values, Values', ShellInv, ServiceInv, [Next]_vars PROVE ServiceInv'
    OBVIOUS
  <2> USE DEF ShellInv, Phases, Activating, Uninstalling, RollingBack, Restoring, Stopped
  <2>1. CASE Begin
    BY <2>1 DEF Begin
  <2>2. CASE Locked
    BY <2>2 DEF Locked
  <2>3. CASE Plan
    BY <2>3 DEF Plan, Accepted, Choices
  <2>4. CASE CreateUser
    BY <2>4 DEF CreateUser
  <2>5. CASE KeepUser
    BY <2>5 DEF KeepUser
  <2>6. CASE MarkUser
    BY <2>6 DEF MarkUser
  <2>7. CASE FirstActivation
    BY <2>7 DEF FirstActivation
  <2>8. CASE Backup
    BY <2>8 DEF Backup, Copies
  <2>9. CASE StopOld
    BY <2>9 DEF StopOld, StopService
  <2>10. CASE WriteServer
    BY <2>10 DEF WriteServer, Choices
  <2>11. CASE WriteToken
    BY <2>11 DEF WriteToken, Choices
  <2>12. CASE WriteManager
    BY <2>12 DEF WriteManager
  <2>13. CASE Relink
    <3>1. up = None \/ up.link \in Destinations
      BY SMT
    <3>2. up = None
      BY <2>13, <3>1 DEF Relink
    <3>3. QED
      BY <2>13, <3>2 DEF Relink
  <2>14. CASE WriteService
    BY <2>14 DEF WriteService
  <2>15. CASE StartNew
    BY <2>15 DEF StartNew, StartService, Launched, Choices
  <2>16. CASE Installed
    BY <2>16 DEF Installed, Serving, Copies, Destinations
  <2>17. CASE StopForGood
    BY <2>17 DEF StopForGood, StopService
  <2>18. CASE RemoveService
    BY <2>18 DEF RemoveService
  <2>19. CASE ForgetManager
    BY <2>19 DEF ForgetManager
  <2>20. CASE Erase
    BY <2>20 DEF Erase
  <2>21. CASE DeleteUser
    BY <2>21 DEF DeleteUser
  <2>22. CASE Purge
    BY <2>22 DEF Purge
  <2>23. CASE CommandFails
    BY <2>23 DEF CommandFails, Abort, CutOff, Cut, Trapped
  <2>24. CASE RollbackStop
    BY <2>24 DEF RollbackStop, StopService
  <2>25. CASE RestoreServer
    BY <2>25 DEF RestoreServer, Copies
  <2>26. CASE RestoreToken
    BY <2>26 DEF RestoreToken, Copies
  <2>27. CASE RestoreService
    BY <2>27 DEF RestoreService
  <2>28. CASE RestoreLink
    BY <2>28 DEF RestoreLink
  <2>29. CASE RestartOld
    BY <2>29 DEF RestartOld, StartService, Launched
  <2>30. CASE Restored
    BY <2>30 DEF Restored, Serving, Copies, Destinations
  <2>31. CASE Disable
    BY <2>31 DEF Disable
  <2>32. CASE Removed
    BY <2>32 DEF Removed
  <2>33. CASE RollbackFails
    BY <2>33 DEF RollbackFails, CutOff, Cut, Kept
  <2>34. CASE Exit
    BY <2>34 DEF Exit, Ended
  <2>35. CASE Signal
    BY <2>35 DEF Signal, Abort, Trapped
  <2>36. CASE SignalUntrapped
    BY <2>36 DEF SignalUntrapped, Vanish, Ended, Kept, CutOff, Cut, Trapped
  <2>37. CASE Kill
    BY <2>37 DEF Kill, Vanish, Ended, Kept, CutOff, Cut
  <2>38. CASE PowerLoss
    BY <2>38 DEF PowerLoss, Ended, Kept, CutOff, Cut
  <2>39. CASE RemoveStaleLock
    BY <2>39 DEF RemoveStaleLock
  <2>40. CASE Crash
    BY <2>40 DEF Crash
  <2>41. CASE Respawn
    BY <2>41 DEF Respawn, Launched
  <2>42. CASE UNCHANGED vars
    BY <2>42 DEF vars
  <2> HIDE DEF Values, ShellInv, ServiceInv
  <2>43. QED
    BY <2>1, <2>2, <2>3, <2>4, <2>5, <2>6, <2>7, <2>8, <2>9, <2>10, <2>11, <2>12, <2>13,
       <2>14, <2>15, <2>16, <2>17, <2>18, <2>19, <2>20, <2>21, <2>22, <2>23, <2>24, <2>25,
       <2>26, <2>27, <2>28, <2>29, <2>30, <2>31, <2>32, <2>33, <2>34, <2>35, <2>36, <2>37,
       <2>38, <2>39, <2>40, <2>41, <2>42
    DEF Next, Prepare, Activate, Uninstall, Rollback, Environment
<1>3. QED
  BY <1>1, <1>2, ShellInvariance, PTL DEF Spec

BeforeInv ==
  /\ before = [server |-> before.server, token |-> before.token, link |-> before.link]
  /\ pc \in {"lock", "plan", "user", "mark", "activate", "stop", "server"} => Deployment = before
  /\ pc \in {"user", "mark"} \cup Activating \cup RollingBack => old = before.link
  /\ work # None => work = [server |-> before.server, token |-> before.token]
  /\ pc \in Restoring \ {"unserver"} => server = before.server
  /\ pc \in Restoring \ {"unserver", "untoken"} => token = before.token
  /\ pc \in {"restart", "revalidate"} => link = before.link

\* The deployment found is in place until it is copied, and comes back piece by piece.
LEMMA BeforeInvariance == Spec => []BeforeInv
<1> USE NoneAssumption, TornAssumption, BoundAssumption
    DEF NoneAssumption, TornAssumption, BoundAssumption, Values, BeforeInv
<1>1. Init => BeforeInv
  BY DEF Init, Deployment, Restoring, Activating, RollingBack
<1>2. Values /\ ShellInv /\ Values' /\ BeforeInv /\ [Next]_vars => BeforeInv'
  <2> SUFFICES ASSUME Values, Values', ShellInv, BeforeInv, [Next]_vars PROVE BeforeInv'
    OBVIOUS
  <2> USE DEF ShellInv, Phases, Activating, Uninstalling, RollingBack, Restoring, Deployment
  <2>1. CASE Begin
    BY <2>1 DEF Begin
  <2>2. CASE Locked
    BY <2>2 DEF Locked
  <2>3. CASE Plan
    BY <2>3 DEF Plan, Accepted, Choices
  <2>4. CASE CreateUser
    BY <2>4 DEF CreateUser
  <2>5. CASE KeepUser
    BY <2>5 DEF KeepUser
  <2>6. CASE MarkUser
    BY <2>6 DEF MarkUser
  <2>7. CASE FirstActivation
    BY <2>7 DEF FirstActivation
  <2>8. CASE Backup
    BY <2>8 DEF Backup, Copies
  <2>9. CASE StopOld
    BY <2>9 DEF StopOld, StopService
  <2>10. CASE WriteServer
    BY <2>10 DEF WriteServer, Choices
  <2>11. CASE WriteToken
    BY <2>11 DEF WriteToken, Choices
  <2>12. CASE WriteManager
    BY <2>12 DEF WriteManager
  <2>13. CASE Relink
    BY <2>13 DEF Relink, Destinations, Choices
  <2>14. CASE WriteService
    BY <2>14 DEF WriteService
  <2>15. CASE StartNew
    BY <2>15 DEF StartNew, StartService, Launched, Choices
  <2>16. CASE Installed
    BY <2>16 DEF Installed, Serving, Copies, Destinations
  <2>17. CASE StopForGood
    BY <2>17 DEF StopForGood, StopService
  <2>18. CASE RemoveService
    BY <2>18 DEF RemoveService
  <2>19. CASE ForgetManager
    BY <2>19 DEF ForgetManager
  <2>20. CASE Erase
    BY <2>20 DEF Erase
  <2>21. CASE DeleteUser
    BY <2>21 DEF DeleteUser
  <2>22. CASE Purge
    BY <2>22 DEF Purge
  <2>23. CASE CommandFails
    BY <2>23 DEF CommandFails, Abort, CutOff, Cut, Trapped
  <2>24. CASE RollbackStop
    BY <2>24 DEF RollbackStop, StopService
  <2>25. CASE RestoreServer
    BY <2>25 DEF RestoreServer, Copies
  <2>26. CASE RestoreToken
    BY <2>26 DEF RestoreToken, Copies
  <2>27. CASE RestoreService
    BY <2>27 DEF RestoreService
  <2>28. CASE RestoreLink
    BY <2>28 DEF RestoreLink
  <2>29. CASE RestartOld
    BY <2>29 DEF RestartOld, StartService, Launched
  <2>30. CASE Restored
    BY <2>30 DEF Restored, Serving, Copies, Destinations
  <2>31. CASE Disable
    BY <2>31 DEF Disable
  <2>32. CASE Removed
    BY <2>32 DEF Removed
  <2>33. CASE RollbackFails
    BY <2>33 DEF RollbackFails, CutOff, Cut, Kept
  <2>34. CASE Exit
    BY <2>34 DEF Exit, Ended
  <2>35. CASE Signal
    BY <2>35 DEF Signal, Abort, Trapped
  <2>36. CASE SignalUntrapped
    BY <2>36 DEF SignalUntrapped, Vanish, Ended, Kept, CutOff, Cut, Trapped
  <2>37. CASE Kill
    BY <2>37 DEF Kill, Vanish, Ended, Kept, CutOff, Cut
  <2>38. CASE PowerLoss
    BY <2>38 DEF PowerLoss, Ended, Kept, CutOff, Cut
  <2>39. CASE RemoveStaleLock
    BY <2>39 DEF RemoveStaleLock
  <2>40. CASE Crash
    BY <2>40 DEF Crash
  <2>41. CASE Respawn
    BY <2>41 DEF Respawn, Launched
  <2>42. CASE UNCHANGED vars
    BY <2>42 DEF vars
  <2> HIDE DEF Values, ShellInv, BeforeInv
  <2>43. QED
    BY <2>1, <2>2, <2>3, <2>4, <2>5, <2>6, <2>7, <2>8, <2>9, <2>10, <2>11, <2>12, <2>13,
       <2>14, <2>15, <2>16, <2>17, <2>18, <2>19, <2>20, <2>21, <2>22, <2>23, <2>24, <2>25,
       <2>26, <2>27, <2>28, <2>29, <2>30, <2>31, <2>32, <2>33, <2>34, <2>35, <2>36, <2>37,
       <2>38, <2>39, <2>40, <2>41, <2>42
    DEF Next, Prepare, Activate, Uninstall, Rollback, Environment
<1>3. QED
  BY <1>1, <1>2, ShellInvariance, PTL DEF Spec

\* The phases in which the configuration may have been replaced.
Switching == (Activating \ {"activate"}) \cup RollingBack

GoodInv ==
  /\ link = None => good = None
  /\ pc \in {"deluser", "purge"} => good = None
  /\ pc \in Switching /\ old = None => good = None
  /\ pc \in Switching /\ good # None => good \in backups \cup {work}
  /\ pc \notin Switching /\ good # None
       => (server = good.server /\ token = good.token) \/ good \in backups

\* The configuration accepted last is in place, or in a copy as soon as it may be replaced.
LEMMA GoodInvariance == Spec => []GoodInv
<1> USE NoneAssumption, TornAssumption, BoundAssumption
    DEF NoneAssumption, TornAssumption, BoundAssumption, Values, GoodInv
<1>1. Init => GoodInv
  BY DEF Init, Switching, Activating, RollingBack
<1>2. Values /\ ShellInv /\ ServiceInv /\ Values' /\ GoodInv /\ [Next]_vars => GoodInv'
  <2> SUFFICES ASSUME Values, Values', ShellInv, ServiceInv, GoodInv, [Next]_vars PROVE GoodInv'
    OBVIOUS
  <2> USE DEF ShellInv, ServiceInv, Phases, Activating, Uninstalling, RollingBack, Restoring,
             Switching
  <2>1. CASE Begin
    BY <2>1 DEF Begin
  <2>2. CASE Locked
    BY <2>2 DEF Locked
  <2>3. CASE Plan
    BY <2>3 DEF Plan, Accepted, Choices
  <2>4. CASE CreateUser
    BY <2>4 DEF CreateUser
  <2>5. CASE KeepUser
    BY <2>5 DEF KeepUser
  <2>6. CASE MarkUser
    BY <2>6 DEF MarkUser
  <2>7. CASE FirstActivation
    BY <2>7 DEF FirstActivation
  <2>8. CASE Backup
    BY <2>8 DEF Backup, Copies
  <2>9. CASE StopOld
    BY <2>9 DEF StopOld, StopService
  <2>10. CASE WriteServer
    BY <2>10 DEF WriteServer, Choices
  <2>11. CASE WriteToken
    BY <2>11 DEF WriteToken, Choices
  <2>12. CASE WriteManager
    BY <2>12 DEF WriteManager
  <2>13. CASE Relink
    BY <2>13 DEF Relink, Destinations, Choices
  <2>14. CASE WriteService
    BY <2>14 DEF WriteService
  <2>15. CASE StartNew
    BY <2>15 DEF StartNew, StartService, Launched, Choices
  <2>16. CASE Installed
    BY <2>16 DEF Installed, Serving, Copies, Destinations
  <2>17. CASE StopForGood
    BY <2>17 DEF StopForGood, StopService
  <2>18. CASE RemoveService
    BY <2>18 DEF RemoveService
  <2>19. CASE ForgetManager
    BY <2>19 DEF ForgetManager
  <2>20. CASE Erase
    BY <2>20 DEF Erase
  <2>21. CASE DeleteUser
    BY <2>21 DEF DeleteUser
  <2>22. CASE Purge
    BY <2>22 DEF Purge
  <2>23. CASE CommandFails
    BY <2>23 DEF CommandFails, Abort, CutOff, Cut, Trapped
  <2>24. CASE RollbackStop
    BY <2>24 DEF RollbackStop, StopService
  <2>25. CASE RestoreServer
    BY <2>25 DEF RestoreServer, Copies
  <2>26. CASE RestoreToken
    BY <2>26 DEF RestoreToken, Copies
  <2>27. CASE RestoreService
    BY <2>27 DEF RestoreService
  <2>28. CASE RestoreLink
    BY <2>28 DEF RestoreLink
  <2>29. CASE RestartOld
    BY <2>29 DEF RestartOld, StartService, Launched
  <2>30. CASE Restored
    BY <2>30 DEF Restored, Serving, Copies, Destinations
  <2>31. CASE Disable
    BY <2>31 DEF Disable
  <2>32. CASE Removed
    BY <2>32 DEF Removed
  <2>33. CASE RollbackFails
    BY <2>33 DEF RollbackFails, CutOff, Cut, Kept
  <2>34. CASE Exit
    BY <2>34 DEF Exit, Ended
  <2>35. CASE Signal
    BY <2>35 DEF Signal, Abort, Trapped
  <2>36. CASE SignalUntrapped
    BY <2>36 DEF SignalUntrapped, Vanish, Ended, Kept, CutOff, Cut, Trapped
  <2>37. CASE Kill
    BY <2>37 DEF Kill, Vanish, Ended, Kept, CutOff, Cut
  <2>38. CASE PowerLoss
    BY <2>38 DEF PowerLoss, Ended, Kept, CutOff, Cut
  <2>39. CASE RemoveStaleLock
    BY <2>39 DEF RemoveStaleLock
  <2>40. CASE Crash
    BY <2>40 DEF Crash
  <2>41. CASE Respawn
    BY <2>41 DEF Respawn, Launched
  <2>42. CASE UNCHANGED vars
    BY <2>42 DEF vars
  <2> HIDE DEF Values, ShellInv, ServiceInv, GoodInv
  <2>43. QED
    BY <2>1, <2>2, <2>3, <2>4, <2>5, <2>6, <2>7, <2>8, <2>9, <2>10, <2>11, <2>12, <2>13,
       <2>14, <2>15, <2>16, <2>17, <2>18, <2>19, <2>20, <2>21, <2>22, <2>23, <2>24, <2>25,
       <2>26, <2>27, <2>28, <2>29, <2>30, <2>31, <2>32, <2>33, <2>34, <2>35, <2>36, <2>37,
       <2>38, <2>39, <2>40, <2>41, <2>42
    DEF Next, Prepare, Activate, Uninstall, Rollback, Environment
<1>3. QED
  BY <1>1, <1>2, ShellInvariance, ServiceInvariance, PTL DEF Spec

\* Every flag is a Boolean in every reachable state.
LEMMA FlagsInvariance == Spec => []Flags
<1>1. Init => Flags
  BY DEF Init, Flags
<1>2. Flags /\ [Next]_vars => Flags'
  <2> SUFFICES ASSUME Flags, [Next]_vars PROVE Flags'
    OBVIOUS
  <2> USE DEF Flags
  <2>1. CASE Begin
    BY <2>1, Zenon DEF Begin
  <2>2. CASE Locked
    BY <2>2, Zenon DEF Locked
  <2>3. CASE Plan
    BY <2>3, Zenon DEF Plan, Accepted, Choices
  <2>4. CASE CreateUser
    BY <2>4, Zenon DEF CreateUser
  <2>5. CASE KeepUser
    BY <2>5, Zenon DEF KeepUser
  <2>6. CASE MarkUser
    BY <2>6, Zenon DEF MarkUser
  <2>7. CASE FirstActivation
    BY <2>7, Zenon DEF FirstActivation
  <2>8. CASE Backup
    BY <2>8, Zenon DEF Backup, Copies
  <2>9. CASE StopOld
    BY <2>9, Zenon DEF StopOld, StopService
  <2>10. CASE WriteServer
    BY <2>10, Zenon DEF WriteServer, Choices
  <2>11. CASE WriteToken
    BY <2>11, Zenon DEF WriteToken, Choices
  <2>12. CASE WriteManager
    BY <2>12, Zenon DEF WriteManager
  <2>13. CASE Relink
    BY <2>13, Zenon DEF Relink, Destinations, Choices
  <2>14. CASE WriteService
    BY <2>14, Zenon DEF WriteService
  <2>15. CASE StartNew
    BY <2>15, Zenon DEF StartNew, StartService, Launched, Choices
  <2>16. CASE Installed
    BY <2>16, Zenon DEF Installed, Serving, Copies, Destinations
  <2>17. CASE StopForGood
    BY <2>17, Zenon DEF StopForGood, StopService
  <2>18. CASE RemoveService
    BY <2>18, Zenon DEF RemoveService
  <2>19. CASE ForgetManager
    BY <2>19, Zenon DEF ForgetManager
  <2>20. CASE Erase
    BY <2>20, Zenon DEF Erase
  <2>21. CASE DeleteUser
    BY <2>21, Zenon DEF DeleteUser
  <2>22. CASE Purge
    BY <2>22, Zenon DEF Purge
  <2>23. CASE CommandFails
    BY <2>23, Zenon DEF CommandFails, Abort, CutOff, Cut, Trapped
  <2>24. CASE RollbackStop
    BY <2>24, Zenon DEF RollbackStop, StopService
  <2>25. CASE RestoreServer
    BY <2>25, Zenon DEF RestoreServer, Copies
  <2>26. CASE RestoreToken
    BY <2>26, Zenon DEF RestoreToken, Copies
  <2>27. CASE RestoreService
    BY <2>27, Zenon DEF RestoreService
  <2>28. CASE RestoreLink
    BY <2>28, Zenon DEF RestoreLink
  <2>29. CASE RestartOld
    BY <2>29, Zenon DEF RestartOld, StartService, Launched
  <2>30. CASE Restored
    BY <2>30, Zenon DEF Restored, Serving, Copies, Destinations
  <2>31. CASE Disable
    BY <2>31, Zenon DEF Disable
  <2>32. CASE Removed
    BY <2>32, Zenon DEF Removed
  <2>33. CASE RollbackFails
    BY <2>33, Zenon DEF RollbackFails, CutOff, Cut, Kept
  <2>34. CASE Exit
    BY <2>34, Zenon DEF Exit, Ended
  <2>35. CASE Signal
    BY <2>35, Zenon DEF Signal, Abort, Trapped
  <2>36. CASE SignalUntrapped
    BY <2>36, Zenon DEF SignalUntrapped, Vanish, Ended, Kept, CutOff, Cut, Trapped
  <2>37. CASE Kill
    BY <2>37, Zenon DEF Kill, Vanish, Ended, Kept, CutOff, Cut
  <2>38. CASE PowerLoss
    BY <2>38, Zenon DEF PowerLoss, Ended, Kept, CutOff, Cut
  <2>39. CASE RemoveStaleLock
    BY <2>39, Zenon DEF RemoveStaleLock
  <2>40. CASE Crash
    BY <2>40, Zenon DEF Crash
  <2>41. CASE Respawn
    BY <2>41, Zenon DEF Respawn, Launched
  <2>42. CASE UNCHANGED vars
    BY <2>42, Zenon DEF vars
  <2> HIDE DEF Flags
  <2>43. QED
    BY <2>1, <2>2, <2>3, <2>4, <2>5, <2>6, <2>7, <2>8, <2>9, <2>10, <2>11, <2>12, <2>13,
       <2>14, <2>15, <2>16, <2>17, <2>18, <2>19, <2>20, <2>21, <2>22, <2>23, <2>24, <2>25,
       <2>26, <2>27, <2>28, <2>29, <2>30, <2>31, <2>32, <2>33, <2>34, <2>35, <2>36, <2>37,
       <2>38, <2>39, <2>40, <2>41, <2>42
    DEF Next, Prepare, Activate, Uninstall, Rollback, Environment
<1>3. QED
  BY <1>1, <1>2, PTL DEF Spec

\* Every variable has its type, in every reachable state of every instance.
THEOREM TypeCorrect == Spec => []TypeOK
<1>1. Flags /\ Values => TypeOK
  BY DEF TypeOK
<1>2. QED
  BY <1>1, FlagsInvariance, ShellInvariance, PTL

\* The configuration that was accepted last is never lost (LastGoodIsKept): neither a
\* signal, a failing command, a kill nor a loss of power, in an installation, in its
\* rollback or in between, leaves it neither in place nor in a copy.
THEOREM AcceptedConfigurationKept == Spec => []LastGoodIsKept
<1>1. GoodInv => LastGoodIsKept
  BY DEF GoodInv, LastGoodIsKept, Switching
<1>2. QED
  BY <1>1, GoodInvariance, PTL

\* Only four actions change what the user has been told.
LEMMA Reports ==
  ASSUME [Next]_vars, report' # report
  PROVE  Begin \/ Installed \/ Restored \/ Removed
<1>1. CASE Begin
  BY <1>1
<1>2. CASE Locked
  BY <1>2 DEF Locked
<1>3. CASE Plan
  BY <1>3 DEF Plan
<1>4. CASE CreateUser
  BY <1>4 DEF CreateUser
<1>5. CASE KeepUser
  BY <1>5 DEF KeepUser
<1>6. CASE MarkUser
  BY <1>6 DEF MarkUser
<1>7. CASE FirstActivation
  BY <1>7 DEF FirstActivation
<1>8. CASE Backup
  BY <1>8 DEF Backup
<1>9. CASE StopOld
  BY <1>9 DEF StopOld
<1>10. CASE WriteServer
  BY <1>10 DEF WriteServer
<1>11. CASE WriteToken
  BY <1>11 DEF WriteToken
<1>12. CASE WriteManager
  BY <1>12 DEF WriteManager
<1>13. CASE Relink
  BY <1>13 DEF Relink
<1>14. CASE WriteService
  BY <1>14 DEF WriteService
<1>15. CASE StartNew
  BY <1>15 DEF StartNew
<1>16. CASE Installed
  BY <1>16
<1>17. CASE StopForGood
  BY <1>17 DEF StopForGood
<1>18. CASE RemoveService
  BY <1>18 DEF RemoveService
<1>19. CASE ForgetManager
  BY <1>19 DEF ForgetManager
<1>20. CASE Erase
  BY <1>20 DEF Erase
<1>21. CASE DeleteUser
  BY <1>21 DEF DeleteUser
<1>22. CASE Purge
  BY <1>22 DEF Purge
<1>23. CASE CommandFails
  BY <1>23 DEF CommandFails
<1>24. CASE RollbackStop
  BY <1>24 DEF RollbackStop
<1>25. CASE RestoreServer
  BY <1>25 DEF RestoreServer
<1>26. CASE RestoreToken
  BY <1>26 DEF RestoreToken
<1>27. CASE RestoreService
  BY <1>27 DEF RestoreService
<1>28. CASE RestoreLink
  BY <1>28 DEF RestoreLink
<1>29. CASE RestartOld
  BY <1>29 DEF RestartOld
<1>30. CASE Restored
  BY <1>30
<1>31. CASE Disable
  BY <1>31 DEF Disable
<1>32. CASE Removed
  BY <1>32
<1>33. CASE RollbackFails
  BY <1>33 DEF RollbackFails
<1>34. CASE Exit
  BY <1>34 DEF Exit, Ended
<1>35. CASE Signal
  BY <1>35 DEF Signal
<1>36. CASE SignalUntrapped
  BY <1>36 DEF SignalUntrapped, Vanish, Ended
<1>37. CASE Kill
  BY <1>37 DEF Kill, Vanish, Ended
<1>38. CASE PowerLoss
  BY <1>38 DEF PowerLoss, Ended
<1>39. CASE RemoveStaleLock
  BY <1>39 DEF RemoveStaleLock
<1>40. CASE Crash
  BY <1>40 DEF Crash
<1>41. CASE Respawn
  BY <1>41 DEF Respawn
<1>42. CASE UNCHANGED vars
  BY <1>42 DEF vars
<1>43. QED
  BY <1>1, <1>2, <1>3, <1>4, <1>5, <1>6, <1>7, <1>8, <1>9, <1>10, <1>11, <1>12, <1>13,
     <1>14, <1>15, <1>16, <1>17, <1>18, <1>19, <1>20, <1>21, <1>22, <1>23, <1>24, <1>25,
     <1>26, <1>27, <1>28, <1>29, <1>30, <1>31, <1>32, <1>33, <1>34, <1>35, <1>36, <1>37,
     <1>38, <1>39, <1>40, <1>41, <1>42
  DEF Next, Prepare, Activate, Uninstall, Rollback, Environment

\* A deployment is reported as installed or restored only if the process that is up
\* was started from the link and the token in place, at the port in place
\* (ServedAsReported).
THEOREM ReportedIsServed == Spec => ServedAsReported
<1> DEFINE Served == report' # report /\ report' \in {"installed", "restored"}
                       => up' = [link |-> link', token |-> token'] /\ link'.port = server'
<1>1. Values /\ ServiceInv /\ [Next]_vars => Served
  <2> SUFFICES ASSUME Values, ServiceInv, [Next]_vars,
                      report' # report, report' \in {"installed", "restored"}
               PROVE  up' = [link |-> link', token |-> token'] /\ link'.port = server'
    OBVIOUS
  <2>1. Installed \/ Restored
    BY Reports DEF Begin, Removed
  <2>2. Serving /\ UNCHANGED <<server, token, link, up>>
    BY <2>1 DEF Installed, Restored
  <2>3. up \in [link : Destinations, token : Configs] /\ up.link = link
    BY <2>2 DEF Serving, Values, ServiceInv
  <2>4. up = [link |-> link, token |-> token] /\ link.port = server
    BY <2>2, <2>3 DEF Serving
  <2>5. QED
    BY <2>2, <2>4
<1>2. QED
  BY <1>1, ShellInvariance, ServiceInvariance, PTL DEF Spec, ServedAsReported

\* A deployment reported as restored is the one the shell found; one reported as removed
\* leaves no service, nothing that is up and nothing that a boot starts
\* (RollbackRestores).  Its link and its manager file may stay.
THEOREM RestoredIsAsBefore == Spec => RollbackRestores
<1> DEFINE AsBefore == report' # report =>
             /\ report' = "restored" => Deployment' = before
             /\ report' = "removed" => ~service' /\ up' = None /\ ~wanted' /\ ~enabled'
<1>1. ServiceInv /\ BeforeInv /\ [Next]_vars => AsBefore
  <2> SUFFICES ASSUME ServiceInv, BeforeInv, [Next]_vars, report' # report PROVE AsBefore
    OBVIOUS
  <2>1. CASE Begin
    BY <2>1 DEF Begin
  <2>2. CASE Installed
    BY <2>2 DEF Installed
  <2>3. CASE Restored
    BY <2>3 DEF Restored, BeforeInv, Restoring, Deployment
  <2>4. CASE Removed
    BY <2>4 DEF Removed, ServiceInv
  <2>5. QED
    BY <2>1, <2>2, <2>3, <2>4, Reports
<1>2. QED
  BY <1>1, ServiceInvariance, BeforeInvariance, PTL DEF Spec, RollbackRestores
=============================================================================
