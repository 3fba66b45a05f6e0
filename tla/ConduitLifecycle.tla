-------------------------- MODULE ConduitLifecycle ---------------------------
(* The life of a tpp::conduit (src/conduit.cpp): start(), join() and stop(),  *)
(* the IO thread's worker_loop(), the deferred queue, and the objects that    *)
(* have to be gone before stop() resets the socket engine: the https_clients  *)
(* in pending_app_requests_ and those owned by consumers.                     *)
(*                                                                            *)
(* The dispatch pool is abstracted to what DispatchPool proves about it: it   *)
(* runs every notification the IO thread queued, and stop() waits for that.   *)
(* All consumers belong to one Twitch user, so that consumers_ has one slot.  *)
(* What follows an erasure of what is not there is undefined: the thread that *)
(* ran it makes no step any more.                                             *)
EXTENDS Naturals, FiniteSets, Sequences, SequencesExt

CONSTANTS Clients,    \* the https_client objects that may ever exist
          Consumers,  \* the consumer objects that may ever exist
          Hooks,      \* the dispatch threads, each running one hook at a time
          None,       \* no consumer
          Uses,       \* the ways to use a conduit, each a set of UseKinds
          MaxNotes,   \* bound: notifications queued at a time
          MaxDeferred, \* bound: closures deferred when remove_consumer() or a throw adds one
          MaxStarts   \* bound: how often start() is called

\* What may happen to a conduit, and may not:
\*   hook_remove   a hook calls remove_consumer()
\*   app_keep      the application keeps its own shared_ptr to a consumer past stop()
\*   app_replace   add_consumer() is called for a user that is tracked already
\*   start_wait    start(true), with stop() called from another thread
\*   throw         a `completed` throws: it calls a function of the application or constructs
\*                 a client, or a value of the answer has another type
UseKinds == {"hook_remove", "app_keep", "app_replace", "start_wait", "throw"}

ASSUME LifecycleAssumption == /\ None \notin Consumers
                              /\ Uses \subseteq SUBSET UseKinds
                              /\ {MaxNotes, MaxDeferred, MaxStarts} \subseteq Nat

VARIABLES uses,      \* what may happen; it never changes
          running,   \* running_
          engine,    \* whether socketengine is set
          io,        \* where the IO thread is in worker_loop()
          ctl,       \* where the thread that starts and stops the conduit is
          waiter,    \* where the thread in start(true) is
          deferred,  \* deferred_
          batch,     \* the local `pending` of run_deferred()
          position,  \* the next element of batch to run
          appReqs,   \* pending_app_requests_
          userReqs,  \* pending_requests_ of each consumer
          flying,    \* the clients whose `completed` was not called
          used,      \* the clients constructed so far
          tracked,   \* consumers_
          appRef,    \* the consumers the application holds a shared_ptr to
          hookRef,   \* the consumer each hook holds a shared_ptr to
          hook,      \* whether each dispatch thread is in a hook
          notes,     \* notifications in dispatch_queue_
          starts     \* how often start() was called
\* History:
VARIABLES thrown,    \* the clients whose `completed` threw
          loose      \* the consumers that lost the reference of consumers_ while somebody held
                     \* another one or by replacement, or were used by who held one later

deferral == <<deferred, batch, position>>
requests == <<appReqs, userReqs, flying, used, thrown>>
owners == <<tracked, appRef, hookRef, loose>>
dispatch == <<hook, notes>>
threads == <<uses, running, engine, io, ctl, waiter, starts>>
vars == <<threads, deferral, requests, owners, dispatch>>

\* The closures defer() is called with: the erasure of a finished client from
\* the list of the conduit (owner None) or of a consumer, which is captured as
\* a raw pointer; and the last reference remove_consumer() keeps alive.
EraseItem(c, r) == [kind |-> "erase", owner |-> c, client |-> r]
KeepItem(c) == [kind |-> "keep", owner |-> c]
Items == {EraseItem(c, r) : c \in Consumers \cup {None}, r \in Clients}
           \cup {KeepItem(c) : c \in Consumers}

\* The closures that exist: run_deferred() destroys `pending` when all ran.
Closures == Range(deferred) \cup Range(batch)
NotRun == Range(deferred) \cup {batch[i] : i \in position..Len(batch)}

\* A consumer exists as long as somebody holds a shared_ptr to it.
Held(c) == c \in appRef \/ \E h \in Hooks : hookRef[h] = c
Alive(c) == tracked = c \/ Held(c) \/ KeepItem(c) \in Closures

\* The clients that exist, by the list that owns them.
LiveClients == appReqs \cup UNION {userReqs[c] : c \in {d \in Consumers : Alive(d)}}

Init == /\ uses \in Uses
        /\ running = FALSE /\ engine = FALSE
        /\ io = "none" /\ ctl = "down" /\ waiter = "none" /\ starts = 0
        /\ deferred = <<>> /\ batch = <<>> /\ position = 1
        /\ appReqs = {} /\ userReqs = [c \in Consumers |-> {}]
        /\ flying = {} /\ used = {} /\ thrown = {}
        /\ tracked = None /\ appRef = {} /\ hookRef = [h \in Hooks |-> None] /\ loose = {}
        /\ hook = [h \in Hooks |-> "idle"] /\ notes = 0

------------------------------------------------------------------------------
(* start(), and the application while the conduit is up.                      *)

Start == /\ ctl = "down" /\ ~running
         /\ starts < MaxStarts
         /\ waiter \in {"none", "returned"}
         /\ starts' = starts + 1
         /\ engine' = TRUE /\ running' = TRUE /\ io' = "top" /\ ctl' = "up"
         /\ waiter' = IF "start_wait" \in uses THEN "joining" ELSE "none"
         /\ UNCHANGED <<uses, deferral, requests, owners, dispatch>>

Construct(r) == /\ r \notin used
                /\ used' = used \cup {r} /\ flying' = flying \cup {r}
                /\ UNCHANGED thrown

\* A Helix call with the app token (get_users, subscribe, open_conduit, ...).
NewAppRequest(r) == /\ Construct(r)
                    /\ appReqs' = appReqs \cup {r}
                    /\ UNCHANGED <<userReqs, owners>>

\* helix_post(): a call on behalf of a consumer the caller holds, which may have been removed or
\* replaced since the caller looked it up.
NewUserRequest(c, r) == /\ Construct(r)
                        /\ userReqs' = [userReqs EXCEPT ![c] = @ \cup {r}]
                        /\ loose' = IF tracked = c THEN loose ELSE loose \cup {c}
                        /\ UNCHANGED <<appReqs, tracked, appRef, hookRef>>

AppRequest(r) == /\ ctl = "up"
                 /\ NewAppRequest(r) \/ \E c \in appRef : NewUserRequest(c, r)
                 /\ UNCHANGED <<threads, deferral, dispatch>>

CreateConsumer(c) == /\ ctl = "up"
                     /\ ~Alive(c) /\ userReqs[c] = {}
                     /\ \A x \in Closures : x.owner # c
                     /\ appRef' = appRef \cup {c} /\ loose' = loose \ {c}
                     /\ UNCHANGED <<tracked, hookRef, threads, deferral, requests, dispatch>>

\* A consumer that is replaced loses the reference of consumers_ at once, on the calling thread.
AddConsumer(c) == /\ ctl = "up"
                  /\ c \in appRef
                  /\ tracked = None \/ "app_replace" \in uses
                  /\ tracked' = c
                  /\ loose' = IF tracked \in {None, c} THEN loose ELSE loose \cup {tracked}
                  /\ UNCHANGED <<appRef, hookRef, threads, deferral, requests, dispatch>>

\* get_consumer(), by the application or within a call like send_message(user).
AppLookup == /\ ctl = "up" /\ tracked # None
             /\ appRef' = appRef \cup {tracked}
             /\ UNCHANGED <<tracked, hookRef, loose, threads, deferral, requests, dispatch>>

\* The reference of consumers_ is not the last one.
LoosenIfHeld ==
  loose' = IF tracked # None /\ Held(tracked) THEN loose \cup {tracked} ELSE loose

\* remove_consumer(): the reference moves from consumers_ to the closure.
\* Fault: the reference is dropped on the calling thread.
RemoveConsumerNow == /\ tracked # None
                     /\ tracked' = None
                     /\ LoosenIfHeld
                     /\ UNCHANGED <<appRef, hookRef, deferral>>

RemoveConsumer == /\ tracked # None /\ Len(deferred) < MaxDeferred
                  /\ deferred' = Append(deferred, KeepItem(tracked))
                  /\ tracked' = None
                  /\ LoosenIfHeld
                  /\ UNCHANGED <<appRef, hookRef, batch, position>>

AppRemove == /\ ctl = "up"
             /\ RemoveConsumer
             /\ UNCHANGED <<threads, requests, dispatch>>

AppDrop(c) == /\ c \in appRef
              /\ appRef' = appRef \ {c}
              /\ UNCHANGED <<tracked, hookRef, loose, threads, deferral, requests, dispatch>>

------------------------------------------------------------------------------
(* The IO thread: while (running_) { run_deferred(); process_events(); }      *)

\* Fault: the loop does not look at running_.
LoopForever == /\ io = "top"
               /\ io' = "swap"
               /\ UNCHANGED <<running, engine, ctl, waiter, starts, uses>>
               /\ UNCHANGED <<deferral, requests, owners, dispatch>>

Loop == /\ io = "top"
        /\ io' = IF running THEN "swap" ELSE "done"
        /\ UNCHANGED <<running, engine, ctl, waiter, starts, uses>>
        /\ UNCHANGED <<deferral, requests, owners, dispatch>>

\* Fault: deferred_ is cleared instead of swapped.
SwapLost == /\ batch' = <<>>
            /\ deferred' = <<>>
            /\ position' = 1

\* run_deferred() is called by the IO thread, and by stop() after joining it.
Swap == /\ batch' = deferred
        /\ deferred' = <<>>
        /\ position' = 1

Erase(x) == IF x.owner = None
            THEN appReqs' = appReqs \ {x.client} /\ UNCHANGED userReqs
            ELSE /\ userReqs' = [userReqs EXCEPT ![x.owner] = @ \ {x.client}]
                 /\ UNCHANGED appReqs

\* What the closure points to: an element of the conduit's list, or a consumer and one of its.
Finds(x) == IF x.owner = None THEN x.client \in appReqs
            ELSE Alive(x.owner) /\ x.client \in userReqs[x.owner]

RunNext == /\ position <= Len(batch)
           /\ LET x == batch[position]
              IN  IF x.kind = "erase" THEN Finds(x) /\ Erase(x)
                  ELSE UNCHANGED <<appReqs, userReqs>>
           /\ position' = position + 1
           /\ UNCHANGED <<deferred, batch, flying, used, thrown>>

\* list::erase() of an iterator that was erased, or in a consumer that is gone.
RunDangling == /\ position <= Len(batch)
               /\ batch[position].kind = "erase" /\ ~Finds(batch[position])
               /\ UNCHANGED <<deferral, requests>>

EndBatch == /\ position > Len(batch)
            /\ batch' = <<>> /\ position' = 1
            /\ UNCHANGED deferred

IoDeferred == \/ /\ io = "swap" /\ Swap
                 /\ io' = "run"
                 /\ UNCHANGED requests
              \/ /\ io = "run" /\ RunNext
                 /\ UNCHANGED io
              \/ /\ io = "run" /\ RunDangling
                 /\ io' = "undefined"
              \/ /\ io = "run" /\ EndBatch
                 /\ io' = "poll"
                 /\ UNCHANGED requests

RunDeferred == /\ IoDeferred
               /\ UNCHANGED <<running, engine, ctl, waiter, starts, uses, owners, dispatch>>

\* process_events(): a response arrives or a request times out.  `completed`
\* is called and defers the erasure of the client.
Complete(r) == /\ io = "poll"
               /\ r \in flying \cap LiveClients
               /\ flying' = flying \ {r}
               /\ \/ /\ r \in appReqs
                     /\ deferred' = Append(deferred, EraseItem(None, r))
                  \/ \E c \in Consumers :
                       /\ r \in userReqs[c]
                       /\ deferred' = Append(deferred, EraseItem(c, r))
               /\ UNCHANGED <<appReqs, userReqs, used, thrown, batch, position>>
               /\ UNCHANGED <<threads, owners, dispatch>>

\* It throws, when it has deferred the erasure (delete_conduit, create_conduit, subscribe,
\* unsubscribe) or before (helix_get): close() calls it again, at once when it was called for
\* what was read, and later or never when a timer called it (HttpsClient).
CompleteThrows(r) == /\ "throw" \in uses /\ Len(deferred) < MaxDeferred
                     /\ io = "poll"
                     /\ r \in flying \cap appReqs
                     /\ thrown' = thrown \cup {r}
                     /\ deferred' \in {deferred, Append(deferred, EraseItem(None, r))}
                     /\ UNCHANGED <<appReqs, userReqs, flying, used, batch, position>>
                     /\ UNCHANGED <<threads, owners, dispatch>>

\* process_events(): a shard receives a notification with a hook.
Notify == /\ io = "poll"
          /\ notes < MaxNotes
          /\ notes' = notes + 1
          /\ UNCHANGED <<hook, threads, deferral, requests, owners>>

PollEnd == /\ io = "poll"
           /\ io' = "top"
           /\ UNCHANGED <<running, engine, ctl, waiter, starts, uses>>
           /\ UNCHANGED <<deferral, requests, owners, dispatch>>

------------------------------------------------------------------------------
(* The hooks, on the dispatch threads.                                        *)

PoolIsUp == ctl \in {"up", "joining", "swap", "run", "draining"}

HookBegin(h) == /\ PoolIsUp
                /\ hook[h] = "idle" /\ notes > 0
                /\ notes' = notes - 1
                /\ hook' = [hook EXCEPT ![h] = "in"]
                /\ UNCHANGED <<threads, deferral, requests, owners>>

\* get_consumer(), by a hook or within a call like send_message(user).
HookLookup(h) == /\ hook[h] = "in" /\ tracked # None
                 /\ hookRef' = [hookRef EXCEPT ![h] = tracked]
                 /\ UNCHANGED <<tracked, appRef, loose, threads, deferral, requests, dispatch>>

HookRequest(h, r) == /\ hook[h] = "in"
                     /\ \/ NewAppRequest(r)
                        \/ hookRef[h] # None /\ NewUserRequest(hookRef[h], r)
                     /\ UNCHANGED <<threads, deferral, dispatch>>

HookRelease(h) == /\ hookRef[h] # None
                  /\ hookRef' = [hookRef EXCEPT ![h] = None]
                  /\ UNCHANGED <<tracked, appRef, loose, threads, deferral, requests, dispatch>>

HookRemove(h) == /\ "hook_remove" \in uses
                 /\ hook[h] = "in"
                 /\ RemoveConsumer
                 /\ UNCHANGED <<threads, requests, dispatch>>

HookEnd(h) == /\ hook[h] = "in"
              /\ hook' = [hook EXCEPT ![h] = "idle"]
              /\ hookRef' = [hookRef EXCEPT ![h] = None]
              /\ UNCHANGED <<notes, tracked, appRef, loose, threads, deferral, requests>>

------------------------------------------------------------------------------
(* join() and stop().                                                         *)

\* start(true) returns from join().
WaiterReturns == /\ waiter = "joining" /\ io = "done"
                 /\ waiter' = "returned"
                 /\ UNCHANGED <<running, engine, io, ctl, starts, uses>>
                 /\ UNCHANGED <<deferral, requests, owners, dispatch>>

\* An application that keeps no reference lets go of the last one before.
StopBegin == /\ ctl = "up" /\ running
             /\ appRef = {} \/ "app_keep" \in uses
             /\ running' = FALSE
             /\ ctl' = "joining"
             /\ UNCHANGED <<engine, io, waiter, starts, uses>>
             /\ UNCHANGED <<deferral, requests, owners, dispatch>>

StopJoined == /\ ctl = "joining" /\ io = "done"
              /\ ctl' = "swap"
              /\ UNCHANGED <<running, engine, io, waiter, starts, uses>>
              /\ UNCHANGED <<deferral, requests, owners, dispatch>>

\* Two threads join the same std::thread: the behaviour is undefined, and
\* with pthreads the second join fails and std::thread::join throws.
JoinFails == /\ ctl = "joining" /\ waiter = "joining"
             /\ \/ ctl' = "failed" /\ UNCHANGED waiter
                \/ waiter' = "failed" /\ UNCHANGED ctl
             /\ UNCHANGED <<running, engine, io, starts, uses>>
             /\ UNCHANGED <<deferral, requests, owners, dispatch>>

StopDeferred == /\ \/ /\ ctl = "swap" /\ Swap
                      /\ ctl' = "run"
                      /\ UNCHANGED requests
                   \/ /\ ctl = "run" /\ RunNext
                      /\ UNCHANGED ctl
                   \/ /\ ctl = "run" /\ RunDangling
                      /\ ctl' = "undefined"
                   \/ /\ ctl = "run" /\ EndBatch
                      /\ ctl' = "draining"
                      /\ UNCHANGED requests
                /\ UNCHANGED <<running, engine, io, waiter, starts, uses, owners, dispatch>>

\* dispatch_stop_ is set, and the dispatch threads are joined: they have run
\* all notifications.
StopDispatch == /\ ctl = "draining"
                /\ notes = 0 /\ \A h \in Hooks : hook[h] = "idle"
                /\ ctl' = "clearing"
                /\ UNCHANGED <<running, engine, io, waiter, starts, uses>>
                /\ UNCHANGED <<deferral, requests, owners, dispatch>>

\* Fault: pending_app_requests_ is left to the destructor.
StopClearConsumers == /\ ctl = "clearing"
                      /\ tracked' = None
                      /\ ctl' = "reset"
                      /\ LoosenIfHeld
                      /\ UNCHANGED <<requests, appRef, hookRef>>
                      /\ UNCHANGED <<running, engine, io, waiter, starts, uses, deferral, dispatch>>

\* consumers_.clear(), pending_app_requests_.clear().
StopClear == /\ ctl = "clearing"
             /\ tracked' = None
             /\ appReqs' = {}
             /\ ctl' = "reset"
             /\ LoosenIfHeld
             /\ UNCHANGED <<userReqs, flying, used, thrown, appRef, hookRef>>
             /\ UNCHANGED <<running, engine, io, waiter, starts, uses, deferral, dispatch>>

\* socketengine.reset(): a client that survives is never polled again.
StopReset == /\ ctl = "reset"
             /\ engine' = FALSE
             /\ flying' = {}
             /\ io' = "none" /\ ctl' = "down"
             /\ UNCHANGED <<running, waiter, starts, uses, appReqs, userReqs, used, thrown>>
             /\ UNCHANGED <<deferral, owners, dispatch>>

------------------------------------------------------------------------------
App == \/ \E r \in Clients : AppRequest(r)
       \/ \E c \in Consumers : CreateConsumer(c) \/ AddConsumer(c) \/ AppDrop(c)
       \/ AppLookup \/ AppRemove

Io == Loop \/ RunDeferred \/ PollEnd \/ Notify
      \/ \E r \in Clients : Complete(r) \/ CompleteThrows(r)

Hook(h) == \/ HookBegin(h) \/ HookLookup(h) \/ HookRelease(h) \/ HookRemove(h) \/ HookEnd(h)
           \/ \E r \in Clients : HookRequest(h, r)

Stop == \/ StopBegin \/ StopJoined \/ JoinFails \/ StopDeferred
        \/ StopDispatch \/ StopClear \/ StopReset

Next == Start \/ App \/ Io \/ Stop \/ WaiterReturns \/ \E h \in Hooks : Hook(h)

Spec == Init /\ [][Next]_vars

\* The IO thread and the thread in stop() are scheduled, poll() comes back
\* (it has a timeout), and every hook begins and returns.
StopSteps == StopJoined \/ StopDeferred \/ StopDispatch \/ StopClear \/ StopReset
Fairness == /\ WF_vars(Loop) /\ WF_vars(RunDeferred) /\ WF_vars(PollEnd)
            /\ WF_vars(StopSteps)
            /\ \A h \in Hooks : WF_vars(HookBegin(h)) /\ WF_vars(HookEnd(h))

FairSpec == Spec /\ Fairness

------------------------------------------------------------------------------
TypeOK == /\ uses \in Uses
          /\ running \in BOOLEAN /\ engine \in BOOLEAN
          /\ io \in {"none", "top", "swap", "run", "poll", "undefined", "done"}
          /\ ctl \in {"down", "up", "joining", "failed", "swap", "run",
                      "undefined", "draining", "clearing", "reset"}
          /\ waiter \in {"none", "joining", "returned", "failed"}
          /\ starts \in 0..MaxStarts
          /\ deferred \in Seq(Items) /\ batch \in Seq(Items)
          /\ position \in 1..(Len(batch) + 1)
          /\ appReqs \subseteq Clients /\ flying \subseteq Clients /\ used \subseteq Clients
          /\ thrown \subseteq Clients
          /\ userReqs \in [Consumers -> SUBSET Clients]
          /\ tracked \in Consumers \cup {None}
          /\ appRef \subseteq Consumers /\ loose \subseteq Consumers
          /\ hookRef \in [Hooks -> Consumers \cup {None}]
          /\ hook \in [Hooks -> {"idle", "in"}]
          /\ notes \in 0..MaxNotes

\* AppEraseSafe: the closure that erases a client from pending_app_requests_
\* holds an iterator; until it has run, the client is in the list.  Clearing
\* the list in stop() would otherwise erase it twice, and so does a `completed` that throws.
Erasures == {x \in NotRun : x.kind = "erase" /\ x.client \notin thrown}
AppEraseSafe == \A x \in Erasures : x.owner = None => x.client \in appReqs

\* UserEraseSafe (comment in remove_consumer(): "Holds the last reference until
\* the next event loop tick, in case a hook on this consumer is what called
\* remove_consumer()"): the closure of helix_post() holds a raw pointer to the
\* consumer; until it has run, the consumer exists and owns the client, unless
\* it was replaced or somebody else's reference outlived that of consumers_.
UserEraseSafe == \A x \in Erasures : x.owner \notin loose \cup {None} =>
                   Alive(x.owner) /\ x.client \in userReqs[x.owner]

\* OneRunner: run_deferred() is never run by the IO thread and by stop() at
\* the same time, so that the closures of a conduit are run one by one.
OneRunner == ~(io \in {"swap", "run", "poll"} /\ ctl \in {"swap", "run"})

\* EraseSafe: an erasure that is deferred finds what it erases, and erasures are
\* run one by one, whatever hooks and threads do; but not that of a request whose
\* `completed` threw, nor that of a consumer let go of past remove_consumer().
EraseSafe == TypeOK /\ AppEraseSafe /\ UserEraseSafe /\ OneRunner

Undefined == "undefined" \in {io, ctl}

\* EngineOutlivesClients (comments in stop() and on conduit::socketengine): the
\* destructor of an https_client calls socketengine, so none exists without it.
EngineOutlivesClients == ~engine => LiveClients = {}

\* DeferredDrained (comment in stop(): "Drains work queued while stopping,
\* before it can touch socketengine after that is reset below"): when the
\* engine is gone nothing that was deferred is left.
DeferredDrained == ~engine => deferred = <<>> /\ batch = <<>>

\* EngineGoesLast: both hold as long as no hook removes a consumer and the
\* application keeps none past stop(), whatever throws, is replaced or is undefined.
EngineGoesLast == /\ uses \cap {"hook_remove", "app_keep"} = {}
                       => EngineOutlivesClients
                  /\ "hook_remove" \notin uses => DeferredDrained

\* NoFailedJoin (conduit.h: start(true) "blocks until stop() is called from
\* another thread"): neither start() nor stop() fails in join().
NoFailedJoin == ctl # "failed" /\ waiter # "failed"

\* EraseRuns: a completed client does not stay in its list: its erasure is run,
\* by the IO thread or by stop(), unless a consumer outlives the engine or an
\* erasure before it was undefined.
EraseRuns == \A r \in Clients :
               (uses \subseteq {"app_replace", "throw"} /\ r \in LiveClients /\ r \notin flying)
                 ~> (r \notin LiveClients \/ Undefined)

\* StopReturns: a stop() that has begun comes to its end, unless another thread
\* is in start(true), or an erasure was undefined.
StopReturns == ("start_wait" \notin uses /\ ctl = "joining") ~> (ctl = "down" \/ Undefined)
------------------------------------------------------------------------------
(* The inductive invariant of the proofs.                                     *)

\* Which thread is where: the IO thread is gone when stop() runs the queue, the batch is
\* one thread's, hooks have returned when the consumers are cleared, and who holds what.
Places == /\ engine <=> ctl # "down"
          /\ ctl = "down" => io = "none"
          /\ ctl \in {"swap", "run", "undefined", "draining", "clearing", "reset"} => io = "done"
          /\ batch # <<>> => io \in {"run", "undefined"} \/ ctl \in {"run", "undefined"}
          /\ ctl \in {"clearing", "reset", "down"} => \A h \in Hooks : hook[h] = "idle"
          /\ \A h \in Hooks : hookRef[h] # None => hook[h] = "in"
          /\ appRef # {} => ctl = "up" \/ "app_keep" \in uses
          /\ "start_wait" \notin uses => waiter = "none" /\ ctl # "failed"
          /\ ctl \in {"reset", "down"} => tracked = None /\ appReqs = {}

\* From the last run of the queue on, only hooks defer anything, and no erasure.
LateItems == ctl \in {"run", "undefined", "draining", "clearing", "reset", "down"} =>
               /\ \A x \in Range(deferred) : x.kind = "keep"
               /\ "hook_remove" \notin uses => deferred = <<>>

\* A client is constructed once and is in one list.
OneList == /\ flying \subseteq used /\ appReqs \subseteq used
           /\ \A c \in Consumers : userReqs[c] \subseteq used /\ userReqs[c] \cap appReqs = {}
           /\ \A c, d \in Consumers : c # d => userReqs[c] \cap userReqs[d] = {}

\* An erasure is of a completed client in the list of its owner.
ErasureOwned == \A x \in Erasures :
                  /\ x.client \in used \ flying
                  /\ x.client \in IF x.owner = None THEN appReqs ELSE userReqs[x.owner]

\* No client is erased twice.
SameClient(x, y) == /\ x.kind = "erase" /\ y.kind = "erase"
                    /\ x.client = y.client /\ x.client \notin thrown
ErasedOnce == /\ \A i, j \in 1..Len(deferred) : SameClient(deferred[i], deferred[j]) => i = j
              /\ \A i, j \in position..Len(batch) : SameClient(batch[i], batch[j]) => i = j
              /\ \A i \in 1..Len(deferred), j \in position..Len(batch) :
                   ~SameClient(deferred[i], batch[j])

\* The consumer of an erasure is tracked, or its last reference is deferred with it or later.
Kept(x, closures) ==
  x.kind = "erase" /\ x.owner \notin loose \cup {None} =>
    tracked = x.owner \/ KeepItem(x.owner) \in closures
OwnersKept == /\ \A x \in Range(deferred) : Kept(x, Range(deferred))
              /\ \A i \in position..Len(batch) : Kept(batch[i], Closures)

\* What a consumer that is not loose is held by.
TightOwners == \A c \in Consumers \ loose : c # tracked /\ userReqs[c] # {} => ~Held(c)

InductiveInvariant == /\ TypeOK /\ Places /\ LateItems /\ OneList
                      /\ ErasureOwned /\ ErasedOnce /\ OwnersKept /\ TightOwners
==============================================================================
