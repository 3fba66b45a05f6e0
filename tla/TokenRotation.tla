----------------------------- MODULE TokenRotation -----------------------------
(***************************************************************************)
(* The access tokens of tpp::conduit (src/conduit.cpp): the app token and  *)
(* those of the consumers of one user id, each with a one-shot timer that  *)
(* refreshes it before it expires.  Answers of the token service come in   *)
(* any order, fail, or are lost with the request when stop() destroys it.  *)
(* Consumers are shared: the conduit tracks one, the application holds     *)
(* some, a deferred function and a running callback keep theirs alive.     *)
(***************************************************************************)
EXTENDS Integers, Sequences, SequencesExt

CONSTANTS Consumers,   \* the consumers that may be created, all of one user id
          Refreshable, \* those with a refresh token
          App,         \* stands for the app token
          Lifetimes,   \* expires_in, as the service may answer
          Margin,      \* safety_margin, 60 seconds
          Latency,     \* longest time a request may take, 10 to 20 seconds
          MaxTime,     \* bound: time(nullptr)
          MaxRequests, \* bound: requests in flight for one token
          None

Owners == Consumers \cup {App}

ASSUME TokenAssumption ==
  /\ Refreshable \subseteq Consumers /\ App \notin Consumers
  /\ None \notin Consumers \cup {App} /\ None \notin Nat
  /\ Lifetimes \subseteq Nat
  /\ {Margin, Latency, MaxTime, MaxRequests} \subseteq Nat

\* A refresh that is late and one that follows it fit into the margin, 60 seconds, and into
\* the life of a token, which is hours.
ASSUME TimeAssumption ==
  /\ Margin > 2 * Latency
  /\ \A l \in Lifetimes : l > 2 * Latency

VARIABLES running,
          now,
          created, tracked, held, deferred, \* who refers to a consumer: consumers_, the
                                            \* application, remove_consumer()'s function
          adding,   \* the consumer add_consumer() is about to insert, or None
          firing,   \* the consumer whose timer calls refresh_access_token(), or None
          expires,  \* token_expires_at_ and app_access_token_expires_at_, 0 if unknown
          valid,    \* external: until when the service takes the token, 0 if there is none
          timer,    \* when the rotation timer is due, or None
          requests, \* when each request in flight was sent
          failed,   \* history: whether a request failed or was destroyed since then
          ontime    \* history: whether the token was refreshed in time ever since it was set

refs == <<created, tracked, held, deferred>>
tokens == <<expires, valid, timer, requests, failed, ontime>>
vars == <<running, now, refs, adding, firing, tokens>>

Init ==
  /\ running = FALSE /\ now = 0
  /\ created = {} /\ tracked = None /\ held = {} /\ deferred = {}
  /\ adding = None /\ firing = None
  /\ expires = [o \in Owners |-> 0] /\ valid = [o \in Owners |-> 0]
  /\ timer = [o \in Owners |-> None] /\ requests = [o \in Owners |-> <<>>]
  /\ failed = [o \in Owners |-> FALSE] /\ ontime = [o \in Owners |-> FALSE]

\* A consumer that others than the running callback refer to, and one that still exists.
Referred(c) == c = tracked \/ c \in held \/ c \in deferred \/ c = adding
Alive(o) == o = App \/ Referred(o) \/ o = firing

\* ~consumer() destroys the timer.
Release == timer' = [o \in Owners |-> IF Alive(o)' THEN timer[o] ELSE None]

-----------------------------------------------------------------------------
(* The timer.                                                                *)

Later(a, b) == IF a > b THEN a ELSE b

\* Fault: no safety margin.
DueAtExpiry(o, at) == IF o \in Consumers \ Refreshable \/ at = 0 THEN None ELSE Later(at, now + 1)

\* schedule_token_rotation() and schedule_app_token_rotation().
Due(o, at) ==
  IF o \in Consumers \ Refreshable \/ at = 0 THEN None ELSE Later(at - Margin, now + 1)

-----------------------------------------------------------------------------
(* Consumers.                                                                *)

\* create_consumer(), which may not know when the token expires.
CreateConsumer(c) ==
  /\ c \notin created
  /\ created' = created \cup {c} /\ held' = held \cup {c}
  /\ \E l \in Lifetimes, known \in BOOLEAN :
       /\ valid' = [valid EXCEPT ![c] = now + l]
       /\ expires' = [expires EXCEPT ![c] = IF known THEN now + l ELSE 0]
  /\ UNCHANGED <<running, now, tracked, deferred, adding, firing, timer, requests, failed, ontime>>

\* add_consumer() sets the timer, and then takes the lock; what it replaces there loses a
\* reference.
AddConsumer(c) ==
  /\ c \in held /\ adding = None
  /\ adding' = c
  /\ timer' = [timer EXCEPT ![c] = Due(c, expires[c])]
  /\ failed' = [failed EXCEPT ![c] = FALSE]
  /\ ontime' = [ontime EXCEPT ![c] = running /\ expires[c] - now >= Margin]
  /\ UNCHANGED <<running, now, refs, firing, expires, valid, requests>>

TrackConsumer ==
  /\ adding # None
  /\ tracked' = adding /\ adding' = None
  /\ UNCHANGED <<running, now, created, held, deferred, firing, expires, valid, requests, failed, ontime>>
  /\ Release

\* Fault: remove_consumer() does not defer.
RemoveConsumerAtOnce ==
  /\ tracked # None
  /\ tracked' = None
  /\ UNCHANGED <<running, now, created, held, deferred, adding, firing, expires, valid, requests,
                 failed, ontime>>
  /\ Release

\* remove_consumer() leaves the last reference to a deferred function.
RemoveConsumer ==
  /\ tracked # None
  /\ deferred' = deferred \cup {tracked} /\ tracked' = None
  /\ UNCHANGED <<running, now, created, held, adding, firing, tokens>>

Drop(c) ==
  /\ c \in held /\ adding # c
  /\ held' = held \ {c}
  /\ UNCHANGED <<running, now, created, tracked, deferred, adding, firing, expires, valid,
                 requests, failed, ontime>>
  /\ Release

-----------------------------------------------------------------------------
(* The IO thread.                                                            *)

RunDeferred ==
  /\ running /\ firing = None /\ deferred # {}
  /\ deferred' = {}
  /\ UNCHANGED <<running, now, created, tracked, held, adding, firing, expires, valid, requests,
                 failed, ontime>>
  /\ Release

IsDue(o) == timer[o] # None /\ timer[o] <= now

\* tick_timers(): the callback of a consumer's timer locks its weak_ptr ...
Fire(c) ==
  /\ running /\ firing = None /\ IsDue(c) /\ Len(requests[c]) < MaxRequests
  /\ firing' = c
  /\ timer' = [timer EXCEPT ![c] = None]
  /\ UNCHANGED <<running, now, refs, adding, expires, valid, requests, failed, ontime>>

\* ... sends the request and gives the reference up.  The one-shot timer is used once more, to
\* stop it.
Fired ==
  /\ firing # None
  /\ firing' = None
  /\ requests' = [requests EXCEPT ![firing] = Append(@, now)]
  /\ UNCHANGED <<running, now, refs, adding, expires, valid, failed, ontime>>
  /\ Release

FireApp ==
  /\ running /\ firing = None /\ IsDue(App) /\ Len(requests[App]) < MaxRequests
  /\ timer' = [timer EXCEPT ![App] = None]
  /\ requests' = [requests EXCEPT ![App] = Append(@, now)]
  /\ UNCHANGED <<running, now, refs, adding, firing, expires, valid, failed, ontime>>

\* ensure_app_access_token(), of any thread.  Nothing tells that a request is in flight.
EnsureAppToken ==
  /\ running /\ valid[App] = 0 /\ Len(requests[App]) < MaxRequests
  /\ requests' = [requests EXCEPT ![App] = Append(@, now)]
  /\ UNCHANGED <<running, now, refs, adding, firing, expires, valid, timer, failed, ontime>>

Answered(o, i) == requests' = [requests EXCEPT ![o] = RemoveAt(@, i)]

TakeToken(o, i) ==
  /\ \E issued \in requests[o][i]..now, l \in Lifetimes, known \in BOOLEAN :
       /\ valid' = [valid EXCEPT ![o] = issued + l]
       /\ expires' = [expires EXCEPT ![o] = IF known THEN now + l ELSE 0]
  /\ timer' = [timer EXCEPT ![o] = Due(o, expires'[o])]
  /\ failed' = [failed EXCEPT ![o] = FALSE]
  /\ ontime' = [ontime EXCEPT ![o] = TRUE]

\* Fault: the weak_ptr is not checked.
AnswerUnchecked(o, i) ==
  /\ running /\ firing = None /\ Answered(o, i)
  /\ TakeToken(o, i)
  /\ UNCHANGED <<running, now, refs, adding, firing>>

\* A new token, issued while the request was on its way; the consumer counts from when the
\* answer comes.  An answer for a consumer that is gone changes nothing.
Answer(o, i) ==
  /\ running /\ firing = None /\ Answered(o, i)
  /\ IF Alive(o) THEN TakeToken(o, i) ELSE UNCHANGED <<expires, valid, timer, failed, ontime>>
  /\ UNCHANGED <<running, now, refs, adding, firing>>

\* A failure is logged.
AnswerFails(o, i) ==
  /\ running /\ firing = None /\ Answered(o, i)
  /\ failed' = [failed EXCEPT ![o] = TRUE]
  /\ ontime' = [ontime EXCEPT ![o] = FALSE]
  /\ UNCHANGED <<running, now, refs, adding, firing, expires, valid, timer>>

-----------------------------------------------------------------------------
(* start() and stop().                                                       *)

\* start() ends with ensure_app_access_token().
Start ==
  /\ ~running
  /\ running' = TRUE
  /\ requests' = [requests EXCEPT ![App] = Append(@, now)]
  /\ UNCHANGED <<now, refs, adding, firing, expires, valid, timer, failed, ontime>>

\* stop(), when the IO thread has ended: deferred functions run, consumers_ is cleared, the app
\* token and its timer go, and the requests are destroyed without an answer.
Stop ==
  /\ running /\ firing = None
  /\ running' = FALSE
  /\ deferred' = {} /\ tracked' = None
  /\ expires' = [expires EXCEPT ![App] = 0] /\ valid' = [valid EXCEPT ![App] = 0]
  /\ requests' = [o \in Owners |-> <<>>]
  /\ failed' = [o \in Owners |-> failed[o] \/ requests[o] # <<>>]
  /\ ontime' = [o \in Owners |-> FALSE]
  /\ UNCHANGED <<now, created, held, adding, firing>>
  /\ timer' = [o \in Owners |-> IF o \in Consumers /\ Alive(o)' THEN timer[o] ELSE None]

\* The clock.  The IO thread ticks the timers every second and gives up on a request in time.
Tick ==
  /\ now < MaxTime
  /\ running => firing = None /\ \A o \in Owners : ~IsDue(o)
  /\ \A o \in Owners : \A i \in DOMAIN requests[o] : now - requests[o][i] < Latency
  /\ now' = now + 1
  /\ UNCHANGED <<running, refs, adding, firing, tokens>>

Next ==
  \/ \E c \in Consumers : CreateConsumer(c) \/ AddConsumer(c) \/ Drop(c) \/ Fire(c)
  \/ TrackConsumer \/ RemoveConsumer \/ RunDeferred \/ Fired \/ FireApp \/ EnsureAppToken
  \/ \E o \in Owners : \E i \in DOMAIN requests[o] : Answer(o, i) \/ AnswerFails(o, i)
  \/ Start \/ Stop \/ Tick

Spec == Init /\ [][Next]_vars
-----------------------------------------------------------------------------
(* Properties.                                                               *)

\* A token that can be refreshed and expires has a timer or a request on its way, however
\* add_consumer() and answers come in between, until a request fails or stop() has
\* destroyed it, which it also does to that of a consumer add_consumer() is just inserting.
NeverStranded ==
  \A o \in Refreshable \cup {App} :
    expires[o] # 0 /\ ~failed[o] /\ (o = tracked \/ o = App) =>
      timer[o] # None \/ firing = o \/ requests[o] # <<>>

\* Although the service counts from when it issued the token and the client from when it heard
\* of it, a token whose refreshes did not fail is never used after it has expired, also when
\* two refreshes are answered out of order.
TokenStaysValid ==
  \A o \in Refreshable \cup {App} :
    Alive(o) /\ expires[o] # 0 /\ ontime[o] => now <= valid[o]

\* Both: a token is rotated, and in time, until a refresh fails.
TokensKept == NeverStranded /\ TokenStaysValid

\* An answer that comes after a consumer is gone does not touch it.
GoneIsUntouched ==
  [][\A c \in Consumers : ~Alive(c) /\ c \in created =>
       /\ timer'[c] = None
       /\ <<expires[c], valid[c]>>' = <<expires[c], valid[c]>>]_vars

\* While the callback of its timer runs, a consumer, and so the timer, loses its last other
\* reference only to the application itself, by dropping, replacing or adding it on another thread.
TimerOutlivesCallback ==
  [][firing # None /\ firing' = firing /\ Referred(firing) =>
       Referred(firing)' \/ held' # held \/ adding' # adding]_vars
-----------------------------------------------------------------------------
(* The inductive invariant these properties follow from (TokenRotationProofs). *)

TypeOK ==
  /\ running \in BOOLEAN /\ now \in Nat
  /\ created \subseteq Consumers /\ held \subseteq created /\ deferred \subseteq created
  /\ tracked \in created \cup {None} /\ adding \in held \cup {None}
  /\ firing \in created \cup {None}
  /\ expires \in [Owners -> Nat] /\ valid \in [Owners -> Nat]
  /\ timer \in [Owners -> Nat \cup {None}] /\ requests \in [Owners -> Seq(Nat)]
  /\ failed \in [Owners -> BOOLEAN] /\ ontime \in [Owners -> BOOLEAN]

\* A timer goes with its consumer, and nothing is in time that was not created.
TimersAlive ==
  \A c \in Consumers :
    /\ timer[c] # None => Alive(c)
    /\ ontime[c] => c \in created

\* Nothing fires, is on its way or is in time while the conduit is stopped.
Stopped ==
  ~running => firing = None /\ \A o \in Owners : requests[o] = <<>> /\ ~ontime[o]

\* A request is answered or given up in time.
RequestsFresh ==
  \A o \in Owners : \A i \in DOMAIN requests[o] :
    requests[o][i] <= now /\ now <= requests[o][i] + Latency

\* The client is late by no more than a request takes.
AlmostValid == \A o \in Owners : expires[o] # 0 => expires[o] <= valid[o] + Latency

\* Whoever is to refresh the token will be in time: the timer, its callback or a request.
InTime ==
  \A o \in Refreshable \cup {App} :
    Alive(o) /\ expires[o] # 0 /\ ontime[o] =>
      /\ timer[o] # None => now <= timer[o]
      /\ \/ timer[o] # None /\ timer[o] + Latency <= valid[o]
         \/ firing = o /\ now + Latency <= valid[o]
         \/ \E i \in DOMAIN requests[o] : requests[o][i] + Latency <= valid[o]

\* NeverStranded, already while add_consumer() is about to insert the consumer.
Scheduled ==
  \A o \in Refreshable \cup {App} :
    expires[o] # 0 /\ ~failed[o] /\ o \in {tracked, adding, App} =>
      timer[o] # None \/ firing = o \/ requests[o] # <<>>

InductiveInvariant ==
  /\ TypeOK /\ TimersAlive /\ Stopped /\ RequestsFresh
  /\ AlmostValid /\ InTime /\ Scheduled
=============================================================================
