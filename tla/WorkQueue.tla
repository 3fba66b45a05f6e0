------------------------------ MODULE WorkQueue ------------------------------
(* What conduit::enqueue_dispatch() promises its caller, with no thread, no   *)
(* lock and no condition variable in sight: a work item is handed out in the  *)
(* order it was queued, at most once, and is finished only after it was       *)
(* handed out.  DispatchPool implements this specification.                   *)
EXTENDS Sequences, SequencesExt

CONSTANT Work       \* the work items that may ever be queued

VARIABLES pending,  \* the items queued and not handed out, oldest first
          active,   \* the items some thread is running
          finished  \* the items that ran to their end

vars == <<pending, active, finished>>

Init == /\ pending = <<>>
        /\ active = {}
        /\ finished = {}

\* A caller queues an item nobody queued before.
Submit(x) == /\ x \notin Range(pending) \cup active \cup finished
             /\ pending' = Append(pending, x)
             /\ UNCHANGED <<active, finished>>

\* The oldest item is handed out.
Begin == /\ pending # <<>>
         /\ active' = active \cup {Head(pending)}
         /\ pending' = Tail(pending)
         /\ UNCHANGED finished

Finish(x) == /\ x \in active
             /\ active' = active \ {x}
             /\ finished' = finished \cup {x}
             /\ UNCHANGED pending

Next == \/ \E x \in Work : Submit(x) \/ Finish(x)
        \/ Begin

Spec == Init /\ [][Next]_vars
==============================================================================
