----------------------------- MODULE Admission -----------------------------
(***************************************************************************)
(* What the scheduler promises its callers, without semaphore, wakers,     *)
(* clocks or threads (docs/compatibility.md 7.3): a bounded first-come     *)
(* first-served queue in front of a fixed number of slots, a slot kept by  *)
(* the work and not by the caller, one answer for every call.              *)
(* Scheduler is shown to implement it in SchedulerRefinement.              *)
(***************************************************************************)
EXTENDS Naturals, FiniteSets

CONSTANTS Requests, Slots, Capacity

VARIABLES
  open,     \* are requests admitted?
  place,    \* per request: where it stands
  earlier,  \* per queued request: the queued requests that came before it
  answer    \* per request: what its caller was told

vars == <<open, place, earlier, answer>>

Answers == {"ok", "inference", "task_failed", "queue_full", "queue_timeout",
            "inference_timeout", "unavailable", "cancelled"}

At(p)   == {r \in Requests : place[r] = p}
InQueue == At("queued")
Busy    == At("assigned") \cup At("working")

TypeOK ==
  /\ open \in BOOLEAN
  /\ place \in [Requests -> {"new", "queued", "assigned", "working", "out"}]
  /\ earlier \in [Requests -> SUBSET Requests]
  /\ answer \in [Requests -> Answers \cup {"none"}]

Init ==
  /\ open = TRUE
  /\ place = [r \in Requests |-> "new"]
  /\ earlier = [r \in Requests |-> {}]
  /\ answer = [r \in Requests |-> "none"]

Say(r, a) == answer[r] = "none" /\ answer' = [answer EXCEPT ![r] = a]

\* Nobody queues behind q any more.
Gone(q) == [r \in Requests |-> IF r = q THEN {} ELSE earlier[r] \ {q}]

Refuse(r) ==
  /\ place[r] = "new"
  /\ place' = [place EXCEPT ![r] = "out"]
  /\ \/ Say(r, "unavailable")
     \/ /\ open
        /\ Cardinality(Busy) = Slots
        /\ Cardinality(InQueue \cup At("assigned")) >= Capacity
        /\ Say(r, "queue_full")
  /\ UNCHANGED <<open, earlier>>

Start(r) ==
  /\ place[r] = "new"
  /\ open
  /\ InQueue = {}
  /\ Cardinality(Busy) < Slots
  /\ place' = [place EXCEPT ![r] = "assigned"]
  /\ UNCHANGED <<open, earlier, answer>>

Enter(r) ==
  /\ place[r] = "new"
  /\ open
  /\ Cardinality(Busy) = Slots
  /\ Cardinality(InQueue) < Capacity
  /\ place' = [place EXCEPT ![r] = "queued"]
  /\ earlier' = [earlier EXCEPT ![r] = InQueue]
  /\ UNCHANGED <<open, answer>>

\* A request that is not working gives up: in time, or because service ended.
GiveUp(r) ==
  \/ open /\ Say(r, "queue_timeout")
  \/ Say(r, "unavailable")
  \/ Say(r, "cancelled")

\* A waiter that has no slot is told "unavailable" only when service has ended.
Leave(r) ==
  /\ place[r] = "queued"
  /\ GiveUp(r)
  /\ open => answer'[r] # "unavailable"
  /\ place' = [place EXCEPT ![r] = "out"]
  /\ earlier' = Gone(r)
  /\ UNCHANGED open

\* The slot of r goes straight to the first in the queue.
Handoff(r) ==
  IF open /\ InQueue # {}
  THEN \E q \in InQueue :
         /\ earlier[q] = {}
         /\ place' = [place EXCEPT ![r] = "out", ![q] = "assigned"]
         /\ earlier' = Gone(q)
  ELSE /\ place' = [place EXCEPT ![r] = "out"]
       /\ earlier' = earlier

Yield(r) ==
  /\ place[r] = "assigned"
  /\ GiveUp(r)
  /\ Handoff(r)
  /\ UNCHANGED open

Begin(r) ==
  /\ place[r] = "assigned"
  /\ open
  /\ place' = [place EXCEPT ![r] = "working"]
  /\ UNCHANGED <<open, earlier, answer>>

End(r) ==
  /\ place[r] = "working"
  /\ Handoff(r)
  /\ UNCHANGED <<open, answer>>

\* Only the end of its wait may be told to a caller before the slot is back.
Tell(r) ==
  /\ \/ place[r] \in {"working", "out"} /\ \E a \in {"inference_timeout", "cancelled"} : Say(r, a)
     \/ place[r] = "out" /\ \E a \in {"ok", "inference"} : Say(r, a)
     \/ place[r] = "out" /\ ~open /\ Say(r, "task_failed")
  /\ UNCHANGED <<open, place, earlier>>

Shut == open /\ open' = FALSE /\ UNCHANGED <<place, earlier, answer>>

Next ==
  \/ \E r \in Requests : \/ Refuse(r) \/ Start(r) \/ Enter(r) \/ Leave(r) \/ Yield(r)
                         \/ Begin(r) \/ End(r) \/ Tell(r)
  \/ Shut

Spec == Init /\ [][Next]_vars
=============================================================================
