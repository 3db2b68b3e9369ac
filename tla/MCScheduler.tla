---------------------------- MODULE MCScheduler ----------------------------
(* Reductions for the model-checking instances of Scheduler that check no    *)
(* liveness.  Both keep every behaviour up to what the actions can see.      *)
EXTENDS Scheduler, TLC

\* Requests are model values that only ever index the state.
Symmetry == Permutations(Requests)

\* A request never queues twice, so those that have left the queue are of no
\* consequence in ahead: every use of it intersects it with Queued.
Seen == <<accepting, gaugeVars, free, permit, [r \in Requests |-> ahead[r] \cap Queued],
          callerVars, workVars, driverVars>>
=============================================================================
