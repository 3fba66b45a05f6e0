------------------------- MODULE MCConduitLifecycle --------------------------
(* ConduitLifecycle for TLC: the plain use of a conduit and functions that    *)
(* throw with all clients, the other uses with a single one.  Clients and     *)
(* consumers that are alike are taken in order, and the application holds one *)
(* consumer at a time, which it adds again when its removal is through.       *)
EXTENDS ConduitLifecycle

CONSTANT Client,  \* the client that is constructed first, in other uses the only one
         Consumer \* the consumer that is created first, without replacements the only one

MCNext == /\ Next
          /\ used' \subseteq {Client} \/ (uses \subseteq {"throw"} /\ Client \in used')
          /\ appRef' \subseteq appRef \/ appRef = {}
          /\ tracked' \in {None, tracked} \/ KeepItem(tracked') \notin Closures
          /\ \/ appRef' \subseteq {Consumer}
             \/ "app_replace" \in uses /\ (Alive(Consumer) \/ userReqs[Consumer] # {})

\* Fairness, which the ways that use all of UseKinds do not need: nothing is promised of them.
Fair(A) == uses # UseKinds /\ A
MCSpec == /\ Init /\ [][MCNext]_vars
          /\ WF_vars(Fair(Loop)) /\ WF_vars(Fair(RunDeferred)) /\ WF_vars(Fair(PollEnd))
          /\ WF_vars(Fair(StopSteps))
          /\ \A h \in Hooks : WF_vars(Fair(HookBegin(h))) /\ WF_vars(Fair(HookEnd(h)))
==============================================================================
