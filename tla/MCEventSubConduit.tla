------------------------- MODULE MCEventSubConduit ---------------------------
(* EventSubConduit for TLC: calls and subscriptions that fail and are dropped *)
(* in two runs of a conduit with one shard; two shards that reconnect and are *)
(* deleted; and two shards with handlers that throw.                          *)
EXTENDS EventSubConduit

Calling == "fail" \in uses
Throwing == "throw" \in uses
MCInit == Init /\ shardCount = IF Calling THEN 1 ELSE 2
MCNext == /\ Next
          /\ Calling => Len(conns') <= 2
          /\ ~Calling => starts' <= 1
          /\ Throwing => /\ Cardinality(thrown') <= 2 /\ (up => up')
                         /\ Cardinality({o \in Opens : result'[o] # "new"}) <= 1
                         /\ Cardinality({c \in DOMAIN conns' : conns'[c].state # "connecting"}) <= 1

\* The fairness of FairSpec, where calls fail or throw.
Ending == Calling \/ Throwing
MCSpec == /\ MCInit /\ [][MCNext]_vars
          /\ WF_vars(Ending /\ \E r \in reqs : Serve(r) \/ Fail(r))
          /\ WF_vars(Ending /\ \E a \in answers : Handle(a))
          /\ WF_vars(Ending /\ Finish)
          /\ \A s \in Subs : WF_vars(Ending /\ SubscribeSend(s))

\* CallsEnd: a call that is under way, or a subscription that was taken from the pending lists,
\* comes to an end, which may be that it is lost to an exception.
CallsEndThere ==
  \A x \in Calls : Ending /\ (result[x] \in {"called", "checked"} \/ x \in taken)
                    ~> result[x] \in {"done", "failed", "dropped", "lost"}
==============================================================================
