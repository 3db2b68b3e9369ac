------------------------ MODULE SchedulerRefinement ------------------------
(***************************************************************************)
(* The scheduler implements the abstract queue of Admission.  The mapping  *)
(* forgets how a slot is represented: a permit granted to a waiter that    *)
(* has not been polled yet, or held by a caller that has not spawned its   *)
(* task yet, is a slot assigned; the gauge that lags behind the permit, the *)
(* sessions, the channel and the driver have no counterpart.               *)
(***************************************************************************)
EXTENDS MCScheduler

Place(r) ==
  CASE permit[r] = "granted" \/ pc[r] = "admitted"    -> "assigned"
    [] permit[r] = "held" /\ pc[r] # "admitted"       -> "working"
    [] pc[r] = "waiting" /\ permit[r] # "granted"     -> "queued"
    [] pc[r] = "idle"                                 -> "new"
    [] OTHER                                          -> "out"

Abstract == INSTANCE Admission WITH
  open    <- accepting,
  place   <- [r \in Requests |-> Place(r)],
  earlier <- [r \in Requests |-> IF Place(r) = "queued"
                                 THEN {q \in ahead[r] : Place(q) = "queued"} ELSE {}],
  answer  <- outcome

\* Every step of the scheduler is a step of the bounded first-come first-served
\* service that Scheduler's callers are promised, or changes nothing they see.
ImplementsAdmission == Abstract!Spec
=============================================================================
