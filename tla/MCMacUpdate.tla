---------------------------- MODULE MCMacUpdate ----------------------------
(* Reductions for the runs of MacUpdate.                                     *)
EXTENDS MacUpdate, TLC

\* Terminals, releases and processes are model values, and Init treats them alike.
Symmetry == Permutations(Terminals) \cup Permutations(Versions) \cup Permutations(Pids)

\* What is left of a shell's variables: those a later step of it reads before
\* it sets them again.  A shell that has ended leaves none.
Reads(t) ==
  LET choosing  == pc[t] \in {"main", "prepare"} \/ (pc[t] \in {"lock", "owner"} /\ after[t] = "main")
      stopping  == pc[t] \in {"stop", "stopping", "unrecord"}
      called    == stopping \/ pc[t] \in {"mkdir", "lock", "owner", "test", "forget", "release",
                                          "rmdir", "unlock"}
      launching == pc[t] \in {"launch", "record", "validate"} \/ (stopping /\ after[t] = "launch")
      switching == stopping \/ pc[t] \in {"previous", "commit", "revert"}
  IN  <<pc[t], IF choosing \/ launching THEN job[t] ELSE None,
        IF called THEN after[t] ELSE None,
        IF launching THEN version[t] ELSE None,
        (launching \/ At(t, "prepare")) /\ job[t] = "update" /\ wasRunning[t],
        IF switching THEN validated[t] ELSE {}>>

\* No step reads previous.env, or the version of a process that has ended.
Seen == <<current, transaction, record, dir, alive, strays, hold, bounds,
          [p \in alive |-> runs[p]], [t \in Terminals |-> Reads(t)]>>

\* Constraints.  Of three processes at once all but one are strays, or OneServer is
\* violated already; what follows is left out.  So is a kill besides a signal that the
\* lock does not survive: it would be the second of its kind.
FewProcesses == Cardinality(alive) <= 2
OneLoss      == hit # {} => kills = 0

\* Nothing is claimed of what follows Misled, but it can happen: a part of it shows how
\* commands fail there.  In that part Seen does not tell apart all operations in which
\* they do.
LittleMisled == Misled => transaction = None /\ Cardinality(alive) <= 1
=============================================================================
