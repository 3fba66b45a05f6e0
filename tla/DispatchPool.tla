---------------------------- MODULE DispatchPool -----------------------------
(* The dispatch thread pool of tpp::conduit (src/conduit.cpp): the deque      *)
(* dispatch_queue_ filled by enqueue_dispatch(), the threads that run         *)
(* dispatch_worker_loop(), and the part of start() and stop() that spawns,    *)
(* drains and joins them.  A step is one critical section of dispatch_mutex_, *)
(* one notification of dispatch_cv_, or one hook call made outside the lock.  *)
EXTENDS Naturals, FiniteSets, Sequences, SequencesExt

CONSTANTS Workers,    \* the dispatch threads (DISPATCH_THREAD_COUNT of them)
          Io,         \* the IO thread, which queues the EventSub notifications
          Apps,       \* application threads calling the public enqueue_dispatch()
          Work,       \* the work items that may ever be queued
          None,       \* no work item
          MaxStarts   \* bound: how often start() is called

Producers == {Io} \cup Apps
Threads == Workers \cup Producers

ASSUME ThreadsAssumption == /\ Workers \cap Producers = {}
                            /\ Io \notin Apps
                            /\ Workers # {}
                            /\ IsFiniteSet(Threads)
ASSUME NoneAssumption == None \notin Work
ASSUME MaxStartsAssumption == MaxStarts \in Nat

VARIABLES queue,    \* dispatch_queue_
          stop,     \* dispatch_stop_
          pc,       \* where each thread is in enqueue_dispatch or dispatch_worker_loop
          held,     \* the local variable `work` of each dispatch thread
          ctl,      \* where the thread calling start() and stop() is
          starts,   \* how often start() was called
          order,    \* history: every item, in the order it was queued
          taken,    \* history: every item, in the order it was handed out
          done,     \* history: the items whose hook returned
          owed      \* history: the items a stop() may not leave behind

vars == <<queue, stop, pc, held, ctl, starts, order, taken, done, owed>>
history == <<order, taken, done, owed>>

WorkerStates == {"none", "check", "waiting", "running", "notify", "exited"}
ProducerStates == {"idle", "notify"}
ControlStates == {"down", "starting", "up", "flagged", "joining"}

Init == /\ queue = <<>>
        /\ stop = FALSE
        /\ pc = [t \in Threads |-> IF t \in Workers THEN "none" ELSE "idle"]
        /\ held = [w \in Workers |-> None]
        /\ ctl = "down"
        /\ starts = 0
        /\ order = <<>>
        /\ taken = <<>>
        /\ done = {}
        /\ owed = {}

------------------------------------------------------------------------------
(* enqueue_dispatch: push under the lock, then notify_one without it.         *)

\* Who may be inside enqueue_dispatch: the IO thread while it runs (start()
\* creates it before the pool and stop() joins it before it sets
\* dispatch_stop_), an application thread at any time, and a dispatch thread
\* from inside a hook.
MayEnqueue(t) == \/ t = Io /\ pc[t] = "idle" /\ ctl \in {"starting", "up"}
                 \/ t \in Apps /\ pc[t] = "idle"
                 \/ t \in Workers /\ pc[t] = "running"

\* Fault: the item is queued and nobody is notified.
PushUnnotified(t, x) == /\ MayEnqueue(t)
                        /\ x \notin Range(order)
                        /\ queue' = Append(queue, x)
                        /\ order' = Append(order, x)
                        /\ owed' = IF t \in Apps THEN owed ELSE owed \cup {x}
                        /\ UNCHANGED <<stop, pc, held, ctl, starts, taken, done>>

Push(t, x) == /\ MayEnqueue(t)
              /\ x \notin Range(order)
              /\ queue' = Append(queue, x)
              /\ order' = Append(order, x)
              /\ owed' = IF t \in Apps THEN owed ELSE owed \cup {x}
              /\ pc' = [pc EXCEPT ![t] = "notify"]
              /\ UNCHANGED <<stop, held, ctl, starts, taken, done>>

Waiting == {w \in Workers : pc[w] = "waiting"}
AfterNotify(t) == IF t \in Workers THEN "running" ELSE "idle"

\* dispatch_cv_.notify_one(): wakes one waiting thread, or is lost.
NotifyOne(t) == /\ pc[t] = "notify"
                /\ \/ /\ Waiting = {}
                      /\ pc' = [pc EXCEPT ![t] = AfterNotify(t)]
                   \/ \E w \in Waiting :
                        pc' = [pc EXCEPT ![t] = AfterNotify(t), ![w] = "check"]
                /\ UNCHANGED <<queue, stop, held, ctl, starts>>
                /\ UNCHANGED history

------------------------------------------------------------------------------
(* dispatch_worker_loop: "check" is a thread about to evaluate the predicate  *)
(* of the wait under the lock, "running" one that calls work() outside it.    *)

\* Fault: the newest item is taken.
TakeNewest(w) == /\ pc[w] = "check"
                 /\ queue # <<>>
                 /\ held' = [held EXCEPT ![w] = Last(queue)]
                 /\ taken' = Append(taken, Last(queue))
                 /\ queue' = Front(queue)
                 /\ pc' = [pc EXCEPT ![w] = "running"]
                 /\ UNCHANGED <<stop, ctl, starts, order, done, owed>>

Take(w) == /\ pc[w] = "check"
           /\ queue # <<>>
           /\ held' = [held EXCEPT ![w] = Head(queue)]
           /\ taken' = Append(taken, Head(queue))
           /\ queue' = Tail(queue)
           /\ pc' = [pc EXCEPT ![w] = "running"]
           /\ UNCHANGED <<stop, ctl, starts, order, done, owed>>

Wait(w) == /\ pc[w] = "check"
           /\ queue = <<>> /\ ~stop
           /\ pc' = [pc EXCEPT ![w] = "waiting"]
           /\ UNCHANGED <<queue, stop, held, ctl, starts>>
           /\ UNCHANGED history

\* Fault: dispatch_stop_ ends the loop with items still queued.
ExitUndrained(w) == /\ pc[w] = "check"
                    /\ stop
                    /\ pc' = [pc EXCEPT ![w] = "exited"]
                    /\ UNCHANGED <<queue, stop, held, ctl, starts>>
                    /\ UNCHANGED history

Exit(w) == /\ pc[w] = "check"
           /\ queue = <<>> /\ stop
           /\ pc' = [pc EXCEPT ![w] = "exited"]
           /\ UNCHANGED <<queue, stop, held, ctl, starts>>
           /\ UNCHANGED history

\* The hook returns and the loop goes round.
Finish(w) == /\ pc[w] = "running"
             /\ done' = done \cup {held[w]}
             /\ held' = [held EXCEPT ![w] = None]
             /\ pc' = [pc EXCEPT ![w] = "check"]
             /\ UNCHANGED <<queue, stop, ctl, starts, order, taken, owed>>

\* A condition variable may return without a notification.
SpuriousWake(w) == /\ pc[w] = "waiting"
                   /\ pc' = [pc EXCEPT ![w] = "check"]
                   /\ UNCHANGED <<queue, stop, held, ctl, starts>>
                   /\ UNCHANGED history

------------------------------------------------------------------------------
(* start() and stop(), as far as they concern the pool.                       *)

Start == /\ ctl = "down"
         /\ starts < MaxStarts
         /\ starts' = starts + 1
         /\ ctl' = "starting"
         /\ UNCHANGED <<queue, stop, pc, held>>
         /\ UNCHANGED history

Spawn(w) == /\ ctl = "starting"
            /\ pc[w] = "none"
            /\ pc' = [pc EXCEPT ![w] = "check"]
            /\ ctl' = IF \A v \in Workers \ {w} : pc[v] # "none"
                      THEN "up" ELSE "starting"
            /\ UNCHANGED <<queue, stop, held, starts>>
            /\ UNCHANGED history

\* stop() has joined the IO thread and sets dispatch_stop_ under the lock.
SetStop == /\ ctl = "up"
           /\ pc[Io] = "idle"
           /\ stop' = TRUE
           /\ owed' = Range(order)
           /\ ctl' = "flagged"
           /\ UNCHANGED <<queue, pc, held, starts, order, taken, done>>

\* Fault: stop() sends one notification instead of notify_all().
NotifyJustOne == /\ ctl = "flagged"
                 /\ \/ Waiting = {} /\ pc' = pc
                    \/ \E w \in Waiting : pc' = [pc EXCEPT ![w] = "check"]
                 /\ ctl' = "joining"
                 /\ UNCHANGED <<queue, stop, held, starts>>
                 /\ UNCHANGED history

NotifyAll == /\ ctl = "flagged"
             /\ pc' = [t \in Threads |-> IF pc[t] = "waiting" THEN "check" ELSE pc[t]]
             /\ ctl' = "joining"
             /\ UNCHANGED <<queue, stop, held, starts>>
             /\ UNCHANGED history

\* One join() returns.  The threads are joined in the order of the vector;
\* the order has no effect, so any exited thread may be next.
Join(w) == /\ ctl = "joining"
           /\ pc[w] = "exited"
           /\ pc' = [pc EXCEPT ![w] = "none"]
           /\ UNCHANGED <<queue, stop, held, ctl, starts>>
           /\ UNCHANGED history

\* All threads are joined: dispatch_threads_.clear(), dispatch_stop_ = false.
Stopped == /\ ctl = "joining"
           /\ \A w \in Workers : pc[w] = "none"
           /\ stop' = FALSE
           /\ ctl' = "down"
           /\ UNCHANGED <<queue, pc, held, starts>>
           /\ UNCHANGED history

------------------------------------------------------------------------------
Loop(w) == Take(w) \/ Wait(w) \/ Exit(w)

Next == \/ \E t \in Threads : NotifyOne(t) \/ \E x \in Work : Push(t, x)
        \/ \E w \in Workers : \/ Take(w) \/ Wait(w) \/ Exit(w)
                              \/ Finish(w) \/ SpuriousWake(w)
                              \/ Spawn(w) \/ Join(w)
        \/ Start \/ SetStop \/ NotifyAll \/ Stopped

Spec == Init /\ [][Next]_vars

\* Every thread is scheduled and every hook returns.  Nothing makes a caller
\* enqueue, start or stop.
Fairness == /\ \A t \in Threads : WF_vars(NotifyOne(t))
            /\ \A w \in Workers : /\ WF_vars(Loop(w))
                                  /\ WF_vars(Finish(w))
                                  /\ WF_vars(Spawn(w))
                                  /\ WF_vars(Join(w))
            /\ WF_vars(NotifyAll)
            /\ WF_vars(Stopped)

FairSpec == Spec /\ Fairness

------------------------------------------------------------------------------
TypeOK == /\ queue \in Seq(Work)
          /\ stop \in BOOLEAN
          /\ pc \in [Threads -> WorkerStates \cup ProducerStates]
          /\ \A w \in Workers : pc[w] \in WorkerStates
          /\ \A p \in Producers : pc[p] \in ProducerStates
          /\ held \in [Workers -> Work \cup {None}]
          /\ ctl \in ControlStates
          /\ starts \in 0..MaxStarts
          /\ order \in Seq(Work)
          /\ taken \in Seq(Work)
          /\ done \subseteq Work
          /\ owed \subseteq Work

\* FirstInFirstOut: what was handed out followed by what is still queued is
\* exactly what was queued, in that order: enqueue_dispatch() loses nothing,
\* repeats nothing and overtakes nothing, over restarts too (stop() keeps
\* dispatch_queue_).
FirstInFirstOut == order = taken \o queue

\* NoStrandedWork: a thread sleeps on dispatch_cv_ only while the threads
\* about to look at the queue, and the notifications still to be sent, are
\* enough for all queued items.  This is what sending notify_one() after the
\* unlock has to guarantee, so that a slow hook on one thread never holds up
\* an item another thread could run.
Awake == {w \in Workers : pc[w] = "check"}
Notifying == {t \in Threads : pc[t] = "notify"}
NoStrandedWork ==
  Waiting # {} => Len(queue) <= Cardinality(Awake) + Cardinality(Notifying)

\* NoSleeperAtJoin: once stop() is joining the dispatch threads, none of them
\* sleeps on dispatch_cv_, so that no join() waits for a thread nobody wakes.
NoSleeperAtJoin == ctl = "joining" => Waiting = {}

\* DrainedWhenDown: when stop() is over, every item that was queued before it
\* set dispatch_stop_, every notification the IO thread queued and every item
\* a hook queued while the pool was draining has run to its end.
DrainedWhenDown == ctl = "down" => owed \subseteq done

\* The parts of the inductive invariant that the three properties above need.
\* A thread holds an item exactly while it is inside the hook.
HeldInHook == \A w \in Workers : (held[w] # None) <=> pc[w] \in {"running", "notify"}

\* dispatch_stop_ and the threads' states follow the progress of start() and stop().
ControlOK == /\ stop <=> ctl \in {"flagged", "joining"}
             /\ ctl = "down" => \A w \in Workers : pc[w] = "none"
             /\ ctl \in {"up", "flagged"} => \A w \in Workers : pc[w] # "none"
             /\ ~stop => \A w \in Workers : pc[w] # "exited"

\* What was handed out is finished or held by a thread.
Running == {held[w] : w \in Workers} \ {None}
Accounted == Range(taken) = done \cup Running

\* AtMostOnce: no item is queued twice, in the hands of two threads, or both
\* running and finished: a notification never reaches the application's hook
\* a second time or on two threads at once.
AtMostOnce == /\ \A i, j \in DOMAIN order : order[i] = order[j] => i = j
              /\ \A v, w \in Workers : held[v] = held[w] /\ v # w => held[v] = None
              /\ Running \cap done = {}

\* While the pool drains, an owed item in the queue has a thread that will
\* look at the queue again.
Live == {w \in Workers : pc[w] \notin {"none", "exited"}}
OwedIsWatched == /\ owed \subseteq Range(order)
                 /\ stop /\ Live = {} => owed \cap Range(queue) = {}

\* InductiveInvariant: the invariant the proofs of DispatchPoolProofs use.
InductiveInvariant == /\ TypeOK /\ HeldInHook /\ ControlOK
                      /\ FirstInFirstOut /\ Accounted /\ AtMostOnce /\ OwedIsWatched
                      /\ NoStrandedWork /\ NoSleeperAtJoin /\ DrainedWhenDown

\* EveryItemRuns: an item that is queued while the pool is up is run to its
\* end, whether stop() is called or not, provided hooks return.
EveryItemRuns ==
  \A x \in Work : (ctl = "up" /\ x \in Range(order)) ~> x \in done

\* StopReturns: once stop() has set dispatch_stop_ it gets through joining
\* the dispatch threads, provided hooks return.
StopReturns == ctl = "flagged" ~> ctl = "down"

\* ImplementsWorkQueue: the pool implements WorkQueue: sleeping, waking, spawning and joining are
\* invisible, and the items the threads hold are the active ones.
Abstract == INSTANCE WorkQueue
              WITH pending <- queue, active <- Running, finished <- done
ImplementsWorkQueue == Abstract!Spec
==============================================================================
