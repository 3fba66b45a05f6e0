----------------------------- MODULE EventRouter ----------------------------
(***************************************************************************)
(* A notification on its way to the listeners: eventsub_client takes it    *)
(* from the socket on the IO thread, the handler of its subscription type  *)
(* enqueues a job unless nobody listens, a dispatch worker fills the       *)
(* payload struct and calls the event_router_t of the conduit, whose       *)
(* listeners other threads attach and detach meanwhile.                    *)
(***************************************************************************)
EXTENDS EventHandlers, Naturals, FiniteSets

CONSTANTS Listener,          \* callbacks of the application, each attached once at most
          Worker,            \* dispatch workers
          MaxNotifications,  \* bound: notifications that arrive
          Focus,             \* the subscription types, one of which is received
          WrongKinds         \* whether Twitch may send a field of another kind

ASSUME RouterAssumption ==
  /\ IsFiniteSet(Worker)
  /\ MaxNotifications \in Nat
  /\ WrongKinds \in BOOLEAN

VARIABLES topic,       \* the subscription type of this behaviour's notifications
          handlers,    \* listener -> the router it was attached to, "none" before
          gone,        \* listeners whose detach() returned
          received,    \* number of notifications handled on the IO thread
          queue,       \* jobs of dispatch_queue_t
          worker,      \* what each dispatch worker is doing
          heard,       \* listener -> the notifications it was called with, in order
          late,        \* listener -> calls since detach() returned
          owed,        \* listener -> the notifications that came while it was attached
          unhandled,   \* subscription types that had no handler
          wrong,       \* whether a notification had a field of a wrong kind
          terminated   \* whether an exception left a dispatch worker

vars == <<topic, handlers, gone, received, queue, worker, heard, late, owed, unhandled, wrong,
          terminated>>

Routers == {d.through : d \in Declared} \cup {"on_channel_follow", "none"}
Job == [n : 1..MaxNotifications, type : DOMAIN event_map, throws : BOOLEAN]
Idle == [pc |-> "idle"]

Init ==
  /\ topic \in Focus
  /\ handlers = [l \in Listener |-> "none"]
  /\ gone = {}
  /\ received = 0
  /\ queue = <<>>
  /\ worker = [w \in Worker |-> Idle]
  /\ heard = [l \in Listener |-> <<>>]
  /\ late = [l \in Listener |-> 0]
  /\ owed = [l \in Listener |-> {}]
  /\ unhandled = {}
  /\ wrong = FALSE
  /\ terminated = FALSE

-----------------------------------------------------------------------------
\* The router a listener for notifications of the type is told to use.
DocumentedRouters(t) == {d.through : d \in {e \in Declared : e.of = t}}

\* Attaches the listener: the routers of interest are the documented one and another.
Attach(l) ==
  /\ ~terminated
  /\ handlers[l] = "none"
  /\ \E r \in DocumentedRouters(topic) \cup {"on_channel_follow"} :
       handlers' = [handlers EXCEPT ![l] = r]
  /\ UNCHANGED <<topic, gone, received, queue, worker, heard, late, owed, unhandled, wrong,
                 terminated>>

Detach(l) ==
  /\ ~terminated
  /\ handlers[l] # "none"
  /\ l \notin gone
  /\ gone' = gone \cup {l}
  /\ UNCHANGED <<topic, handlers, received, queue, worker, heard, late, owed, unhandled, wrong,
                 terminated>>

Attached(router) == {l \in Listener \ gone : handlers[l] = router}

\* One value of the payload has the kind given, every other the kind meant: what the
\* handler's reads make of it.
ThrowsOn(handler, at, kind) ==
  \E m \in DOMAIN handler.fills : \E r \in handler.fills[m].reads :
    r.at = at /\ Throws(r.as, kind)

Paths(handler) == UNION {{r.at : r \in handler.fills[m].reads} : m \in DOMAIN handler.fills}
MeantAt(handler, at) ==
  UNION {{Meant[r.as] : r \in {q \in handler.fills[m].reads : q.at = at}} :
         m \in DOMAIN handler.fills}

\* The kinds Twitch may send at a path: absent and null always, wrong ones if allowed.
\* payload.event itself is always an object.
SentKinds(handler, at) ==
  IF at = <<>> THEN {"object"}
  ELSE {"absent", "null"} \cup MeantAt(handler, at) \cup (IF WrongKinds THEN Kinds ELSE {})

\* What a payload with one such value leads to: whether it throws, and whether the value
\* had a kind no read of it is meant for.
Outcomes(t) ==
  LET handler == event_map[t] IN
  UNION {{[type |-> t, throws |-> ThrowsOn(handler, at, kind),
           wrong |-> kind \notin {"absent", "null"} \cup MeantAt(handler, at)] :
          kind \in SentKinds(handler, at)} : at \in Paths(handler)}
AllOutcomes == UNION {Outcomes(t) : t \in DOMAIN event_map}

\* handle_event(): the IO thread asks the router whether anybody listens.
HandleEvent(t) ==
  /\ ~terminated
  /\ received < MaxNotifications
  /\ received' = received + 1
  /\ owed' = [l \in Listener |->
       IF t = topic /\ l \notin gone /\ handlers[l] \in DocumentedRouters(t)
       THEN owed[l] \cup {received'} ELSE owed[l]]
  /\ IF t \in DOMAIN event_map
     THEN /\ UNCHANGED unhandled
          /\ IF Attached(event_map[t].router) = {}
             THEN UNCHANGED <<queue, wrong>>
             ELSE \E o \in {p \in AllOutcomes : p.type = t} :
                    /\ queue' = Append(queue, [n |-> received', type |-> t, throws |-> o.throws])
                    /\ wrong' = (wrong \/ o.wrong)
     ELSE unhandled' = unhandled \cup {t} /\ UNCHANGED <<queue, wrong>>
  /\ UNCHANGED <<topic, handlers, gone, worker, heard, late, terminated>>

\* handle_frame(): a notification of the type, or of one the library does not know.
Notification == \E t \in {topic, "unknown.type"} : HandleEvent(t)

-----------------------------------------------------------------------------
Take(w) ==
  /\ ~terminated
  /\ worker[w].pc = "idle"
  /\ queue # <<>>
  /\ worker' = [worker EXCEPT ![w] = [pc |-> "fill", job |-> Head(queue)]]
  /\ queue' = Tail(queue)
  /\ UNCHANGED <<topic, handlers, gone, received, heard, late, owed, unhandled, wrong, terminated>>

\* The job fills the payload struct; an exception leaves the worker's thread function.
Fill(w) ==
  /\ ~terminated
  /\ worker[w].pc = "fill"
  /\ IF worker[w].job.throws
     THEN terminated' = TRUE /\ UNCHANGED worker
     ELSE worker' = [worker EXCEPT ![w].pc = "copy"] /\ UNCHANGED terminated
  /\ UNCHANGED <<topic, handlers, gone, received, queue, heard, late, owed, unhandled, wrong>>

\* Fault: handlers that are detached are copied too.
CopyDetached(w) ==
  /\ ~terminated
  /\ worker[w].pc = "copy"
  /\ worker' = [worker EXCEPT ![w] =
       [pc |-> "call", job |-> worker[w].job,
        left |-> {l \in Listener : handlers[l] = event_map[worker[w].job.type].router}]]
  /\ UNCHANGED <<topic, handlers, gone, received, queue, heard, late, owed, unhandled, wrong,
                 terminated>>

\* event_router_t::call(): copies the handlers under the lock ...
Copy(w) ==
  /\ ~terminated
  /\ worker[w].pc = "copy"
  /\ worker' = [worker EXCEPT ![w] =
       [pc |-> "call", job |-> worker[w].job,
        left |-> Attached(event_map[worker[w].job.type].router)]]
  /\ UNCHANGED <<topic, handlers, gone, received, queue, heard, late, owed, unhandled, wrong,
                 terminated>>

\* ... and calls them in the order of the hash table, without it.
CallListener(w) ==
  /\ ~terminated
  /\ worker[w].pc = "call"
  /\ \E l \in worker[w].left :
       /\ heard' = [heard EXCEPT ![l] = Append(@, worker[w].job.n)]
       /\ late' = [late EXCEPT ![l] = IF l \in gone THEN @ + 1 ELSE @]
       /\ worker' = [worker EXCEPT ![w].left = @ \ {l}]
  /\ UNCHANGED <<topic, handlers, gone, received, queue, owed, unhandled, wrong, terminated>>

\* Fault: call() returns after the first handler.
ReturnAfterOne(w) ==
  /\ ~terminated
  /\ worker[w].pc = "call"
  /\ Cardinality(worker[w].left) <= 1
  /\ worker' = [worker EXCEPT ![w] = Idle]
  /\ UNCHANGED <<topic, handlers, gone, received, queue, heard, late, owed, unhandled, wrong,
                 terminated>>

Return(w) ==
  /\ ~terminated
  /\ worker[w].pc = "call"
  /\ worker[w].left = {}
  /\ worker' = [worker EXCEPT ![w] = Idle]
  /\ UNCHANGED <<topic, handlers, gone, received, queue, heard, late, owed, unhandled, wrong,
                 terminated>>

Work(w) == Take(w) \/ Fill(w) \/ Copy(w) \/ CallListener(w) \/ Return(w)

Next ==
  \/ \E l \in Listener : Attach(l) \/ Detach(l)
  \/ Notification
  \/ \E w \in Worker : Work(w)

\* The workers are threads of the process; nothing obliges a notification to come.
Spec == Init /\ [][Next]_vars /\ \A w \in Worker : WF_vars(Work(w))
-----------------------------------------------------------------------------
TypeOK ==
  /\ topic \in Focus
  /\ handlers \in [Listener -> Routers]
  /\ gone \subseteq Listener
  /\ received \in 0..MaxNotifications
  /\ queue \in Seq(Job)
  /\ worker \in [Worker -> {Idle} \cup [pc : {"fill", "copy"}, job : Job]
                              \cup [pc : {"call"}, job : Job, left : SUBSET Listener]]
  /\ heard \in [Listener -> Seq(1..MaxNotifications)]
  /\ late \in [Listener -> Nat]
  /\ owed \in [Listener -> SUBSET (1..MaxNotifications)]
  /\ unhandled \subseteq Focus \cup {"unknown.type"}
  /\ wrong \in BOOLEAN
  /\ terminated \in BOOLEAN

Filled(fills) == [m \in DOMAIN fills |-> fills[m].is]

\* The structs that listeners get from the router and of the members that are declared,
\* for the type that is declared.
GivenAsDeclared ==
  {d \in Declared : /\ d.of \in DOMAIN event_map
                    /\ d.through = event_map[d.of].router
                    /\ d.members = Filled(event_map[d.of].fills)}
PartsAsDeclared == {p \in Parts : Filled(p.fill.fills) = p.declared}

\* What a listener is called with is what dispatcher.h declares: the struct that documents
\* this subscription type and this router, with every member filled, by a value of its
\* type, and so in every struct it contains.
AsDocumented ==
  \A l \in Listener : heard[l] # <<>> =>
    /\ \E g \in GivenAsDeclared : g.of = topic /\ g.through = handlers[l]
    /\ PartsAsDeclared = Parts

\* A field that is absent or null is harmless, whatever the field: the process is only
\* terminated when a value has a kind that no read of it is meant for.
MissingIsHarmless == terminated => wrong

\* A notification that was subscribed to through an event:: factory finds its handler in
\* event_map instead of being logged and dropped.
SubscribedIsHandled == unhandled \cap Subscribable = {}

\* A listener is called with a notification at most once, however many workers there are and
\* whatever is attached and detached meanwhile.
HeardOnce ==
  \A l \in Listener : \A i, j \in DOMAIN heard[l] : heard[l][i] = heard[l][j] => i = j

\* detach() does not wait for calls under way, but the listener is called at most once more
\* by each worker, the one that had copied the handlers before.
LateCallsBounded == \A l \in Listener : late[l] <= Cardinality(Worker)

\* Both: no listener is called too often.
CallsBounded == TypeOK /\ HeardOnce /\ LateCallsBounded

\* A listener that is attached when a notification of its type comes in, and stays attached,
\* is called with it.
AttachedHears ==
  \A l \in Listener : \A n \in 1..MaxNotifications :
    (n \in owed[l]) ~> (\/ l \in gone \/ terminated
                        \/ \E i \in DOMAIN heard[l] : heard[l][i] = n)

-----------------------------------------------------------------------------
(* The invariants these properties follow from (EventRouterProofs).          *)

Busy == {w \in Worker : worker[w].pc # "idle"}
Calling(l) == {w \in Worker : worker[w].pc = "call" /\ l \in worker[w].left}

\* The workers that are about to call a listener which is gone had copied it before; none of
\* them has called it since.
LateCounted ==
  \A l \in Listener :
    /\ l \notin gone => late[l] = 0
    /\ late[l] + Cardinality(Calling(l)) <= Cardinality(Worker)

\* Notifications wait in the order of their numbers, those that workers have came before, each
\* has its own, and the listeners it has yet to call have not heard of it.
ToCome(w, l) == worker[w].pc = "call" => l \in worker[w].left
InOrder ==
  /\ \A i \in DOMAIN queue : queue[i].n <= received
  /\ \A i, j \in DOMAIN queue : i < j => queue[i].n < queue[j].n
  /\ \A w \in Busy : /\ worker[w].job.n <= received
                     /\ \A i \in DOMAIN queue : worker[w].job.n < queue[i].n
  /\ \A v, w \in Busy : worker[v].job.n = worker[w].job.n => v = w
Unheard ==
  \A l \in Listener : \A k \in DOMAIN heard[l] :
    /\ heard[l][k] <= received
    /\ \A i \in DOMAIN queue : heard[l][k] < queue[i].n
    /\ \A w \in Busy : ToCome(w, l) => heard[l][k] # worker[w].job.n

InductiveInvariant == TypeOK /\ LateCounted /\ InOrder /\ Unheard /\ HeardOnce

\* The tables of the library: a type that has a handler is declared, with its router and
\* members, and no field that is absent, null or of its kind makes a handler throw.
TablesAgree ==
  /\ \A t \in Focus \cap DOMAIN event_map :
       event_map[t].router # "none" /\ \E g \in GivenAsDeclared : g.of = t
  /\ PartsAsDeclared = Parts
  /\ \A o \in AllOutcomes : o.throws => o.wrong

\* The notifications that are handled are those of the topic, and reach listeners of its router
\* only; what throws had a value of a wrong kind.
Jobs == {queue[i] : i \in DOMAIN queue} \cup {worker[w].job : w \in Busy}
Routed ==
  /\ \A j \in Jobs : j.type = topic /\ (j.throws => wrong)
  /\ \A l \in Listener :
       heard[l] # <<>> \/ Calling(l) # {} =>
         topic \in DOMAIN event_map /\ handlers[l] = event_map[topic].router
  /\ MissingIsHarmless
=============================================================================
