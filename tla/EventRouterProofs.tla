-------------------------- MODULE EventRouterProofs --------------------------
(* Proofs about EventRouter, for any listeners and workers and any number of  *)
(* notifications; those about the payloads rest on TablesAgree.               *)
EXTENDS EventRouter, FiniteSetTheorems, TLAPS

\* The table has a row for the subscription type of every factory.
LEMMA EveryFactoryHasItsHandler == Subscribable \subseteq DOMAIN event_map
<1> DEFINE Handled(t) == t \in DOMAIN event_map
<1>1. \A t, h : <<t, h>> \in EventMapRows => Handled(t)
  BY DEF event_map
<1> HIDE DEF Handled
<1>2. \A t \in FirstFactories : Handled(t)
  <2>1. /\ Handled("channel.chat.message") /\ Handled("automod.message.hold")
        /\ Handled("automod.message.update") /\ Handled("automod.settings.update")
        /\ Handled("automod.terms.update") /\ Handled("channel.update")
        /\ Handled("channel.follow") /\ Handled("channel.ad_break.begin")
        /\ Handled("channel.chat.clear") /\ Handled("channel.chat.clear_user_messages")
        /\ Handled("channel.chat.message_delete") /\ Handled("channel.chat.notification")
        /\ Handled("channel.chat_settings.update") /\ Handled("channel.chat.user_message_hold")
        /\ Handled("channel.chat.user_message_update") /\ Handled("channel.shared_chat.begin")
        /\ Handled("channel.shared_chat.update") /\ Handled("channel.shared_chat.end")
        /\ Handled("channel.subscribe") /\ Handled("channel.subscription.end")
        /\ Handled("channel.subscription.gift") /\ Handled("channel.subscription.message")
        /\ Handled("channel.cheer") /\ Handled("channel.raid") /\ Handled("channel.ban")
        /\ Handled("channel.unban")
    BY <1>1 DEF EventMapRows
  <2>2. QED  BY <2>1 DEF FirstFactories
<1>3. \A t \in MiddleFactories : Handled(t)
  <2>1. /\ Handled("channel.unban_request.create") /\ Handled("channel.unban_request.resolve")
        /\ Handled("channel.moderate") /\ Handled("channel.moderator.add")
        /\ Handled("channel.moderator.remove") /\ Handled("channel.guest_star_session.begin")
        /\ Handled("channel.guest_star_session.end")
        /\ Handled("channel.guest_star_guest.update")
        /\ Handled("channel.guest_star_settings.update")
        /\ Handled("channel.channel_points_automatic_reward_redemption.add")
        /\ Handled("channel.channel_points_custom_reward.add")
        /\ Handled("channel.channel_points_custom_reward.update")
        /\ Handled("channel.channel_points_custom_reward.remove")
        /\ Handled("channel.channel_points_custom_reward_redemption.add")
        /\ Handled("channel.channel_points_custom_reward_redemption.update")
        /\ Handled("channel.poll.begin") /\ Handled("channel.poll.progress")
        /\ Handled("channel.poll.end") /\ Handled("channel.prediction.begin")
        /\ Handled("channel.prediction.progress") /\ Handled("channel.prediction.lock")
        /\ Handled("channel.prediction.end") /\ Handled("channel.suspicious_user.message")
        /\ Handled("channel.suspicious_user.update") /\ Handled("channel.vip.add")
        /\ Handled("channel.vip.remove")
    BY <1>1 DEF EventMapRows
  <2>2. QED  BY <2>1 DEF MiddleFactories
<1>4. \A t \in LastFactories : Handled(t)
  <2>1. /\ Handled("channel.warning.acknowledge") /\ Handled("channel.warning.send")
        /\ Handled("channel.charity_campaign.donate")
        /\ Handled("channel.charity_campaign.start")
        /\ Handled("channel.charity_campaign.progress")
        /\ Handled("channel.charity_campaign.stop") /\ Handled("channel.goal.begin")
        /\ Handled("channel.goal.progress") /\ Handled("channel.goal.end")
        /\ Handled("channel.hype_train.begin") /\ Handled("channel.hype_train.progress")
        /\ Handled("channel.hype_train.end") /\ Handled("channel.shield_mode.begin")
        /\ Handled("channel.shield_mode.end") /\ Handled("channel.shoutout.create")
        /\ Handled("channel.shoutout.receive") /\ Handled("conduit.shard.disabled")
        /\ Handled("drop.entitlement.grant") /\ Handled("extension.bits_transaction.create")
        /\ Handled("stream.online") /\ Handled("stream.offline")
        /\ Handled("user.authorization.grant") /\ Handled("user.authorization.revoke")
        /\ Handled("user.update") /\ Handled("user.whisper.message")
    BY <1>1 DEF EventMapRows
  <2>2. QED  BY <2>1 DEF LastFactories
<1>5. QED  BY <1>2, <1>3, <1>4 DEF Subscribable, Handled

\* It has none for a type that the library does not know.
LEMMA UnknownTypeHasNoHandler == "unknown.type" \notin DOMAIN event_map
<1>1. DOMAIN event_map = {row[1] : row \in EventMapRows}  BY DEF event_map
<1>2. \A row \in EventMapRows : row[1] # "unknown.type"  BY DEF EventMapRows
<1>3. QED  BY <1>1, <1>2

\* What the IO thread enqueues is a job of a type that has a handler.
LEMMA OutcomeTypes ==
  ASSUME NEW o \in AllOutcomes PROVE o.throws \in BOOLEAN /\ o.type \in DOMAIN event_map
<1>1. PICK t \in DOMAIN event_map : o \in Outcomes(t)
  BY DEF AllOutcomes
<1>2. PICK at \in Paths(event_map[t]) :
        \E kind \in SentKinds(event_map[t], at) :
          o = [type |-> t, throws |-> ThrowsOn(event_map[t], at, kind),
               wrong |-> kind \notin {"absent", "null"} \cup MeantAt(event_map[t], at)]
  BY <1>1 DEF Outcomes
<1>3. \A kind : ThrowsOn(event_map[t], at, kind) \in BOOLEAN
  BY DEF ThrowsOn
<1>4. QED  BY <1>2, <1>3

\* Handling a notification enqueues one job for it, or none.
LEMMA Enqueued ==
  ASSUME NEW t, HandleEvent(t)
  PROVE  \/ UNCHANGED <<queue, wrong>>
         \/ \E o \in AllOutcomes : /\ o.type = t
                                   /\ queue' = Append(queue, [n |-> received', type |-> t,
                                                              throws |-> o.throws])
                                   /\ wrong' = (wrong \/ o.wrong)
BY DEF HandleEvent

\* Where a worker is says what it holds.
LEMMA Workers ==
  ASSUME TypeOK, NEW w \in Worker
  PROVE  /\ worker[w].pc \in {"idle", "fill", "copy", "call"}
         /\ worker[w].pc # "idle" => worker[w].job \in Job
         /\ worker[w].pc = "call" =>
              /\ worker[w] \in [pc : {"call"}, job : Job, left : SUBSET Listener]
              /\ worker[w].left \in SUBSET Listener
         /\ worker[w].pc \in {"fill", "copy"} => worker[w] \in [pc : {"fill", "copy"}, job : Job]
BY DEF TypeOK, Idle

LEMMA TypeStep == TypeOK /\ [Next]_vars => TypeOK'
<1> SUFFICES ASSUME TypeOK, [Next]_vars PROVE TypeOK'  OBVIOUS
<1> USE RouterAssumption
<1>1. CASE UNCHANGED vars
  BY <1>1 DEF TypeOK, vars
<1>2. ASSUME NEW l \in Listener, Attach(l) PROVE TypeOK'
  <2>1. DocumentedRouters(topic) \cup {"on_channel_follow"} \subseteq Routers
    BY DEF DocumentedRouters, Routers
  <2>2. handlers' \in [Listener -> Routers]
    BY <1>2, <2>1 DEF Attach, TypeOK
  <2>3. QED  BY <1>2, <2>2 DEF Attach, TypeOK
<1>3. ASSUME NEW l \in Listener, Detach(l) PROVE TypeOK'
  BY <1>3 DEF Detach, TypeOK
<1>4. ASSUME NEW t \in {topic, "unknown.type"}, HandleEvent(t) PROVE TypeOK'
  <2>1. received' \in 1..MaxNotifications /\ received' \in 0..MaxNotifications
    BY <1>4 DEF HandleEvent, TypeOK
  <2>2. queue' \in Seq(Job) /\ wrong' \in BOOLEAN
    <3>1. CASE UNCHANGED <<queue, wrong>>  BY <3>1 DEF TypeOK
    <3>2. CASE \E o \in AllOutcomes :
                 /\ o.type = t
                 /\ queue' = Append(queue, [n |-> received', type |-> t, throws |-> o.throws])
                 /\ wrong' = (wrong \/ o.wrong)
      <4>1. PICK o \in AllOutcomes :
              /\ o.type = t
              /\ queue' = Append(queue, [n |-> received', type |-> t, throws |-> o.throws])
              /\ wrong' = (wrong \/ o.wrong)
        BY <3>2
      <4>2. [n |-> received', type |-> t, throws |-> o.throws] \in Job
        BY <2>1, <4>1, OutcomeTypes DEF Job
      <4>3. wrong' \in BOOLEAN  BY <4>1
      <4>4. QED  BY <4>1, <4>2, <4>3 DEF TypeOK
    <3>3. QED  BY <1>4, <3>1, <3>2, Enqueued
  <2>3. owed' \in [Listener -> SUBSET (1..MaxNotifications)]
    BY <1>4, <2>1 DEF HandleEvent, TypeOK
  <2>4. unhandled' \subseteq Focus \cup {"unknown.type"}
    BY <1>4 DEF HandleEvent, TypeOK
  <2>5. QED  BY <1>4, <2>1, <2>2, <2>3, <2>4 DEF HandleEvent, TypeOK
<1>5. ASSUME NEW w \in Worker, Work(w) PROVE TypeOK'
  <2>0. worker[w].pc # "idle" => worker[w].job \in Job  BY Workers
  <2> DEFINE W == {Idle} \cup [pc : {"fill", "copy"}, job : Job]
                         \cup [pc : {"call"}, job : Job, left : SUBSET Listener]
  <2>1. CASE Take(w)
    <3>1. Head(queue) \in Job /\ queue' \in Seq(Job)
      BY <2>1 DEF Take, TypeOK
    <3>2. [pc |-> "fill", job |-> Head(queue)] \in W  BY <3>1
    <3>3. worker' \in [Worker -> W]
      BY <2>1, <3>2 DEF Take, TypeOK
    <3>4. QED  BY <2>1, <3>1, <3>3 DEF Take, TypeOK
  <2>2. CASE Fill(w)
    <3>1. worker[w].pc = "fill" => [worker[w] EXCEPT !.pc = "copy"] \in W
      BY Workers
    <3>2. worker' \in [Worker -> W] /\ terminated' \in BOOLEAN
      BY <2>2, <3>1 DEF Fill, TypeOK
    <3>3. QED  BY <2>2, <3>2 DEF Fill, TypeOK
  <2>3. CASE Copy(w)
    <3>1. [pc |-> "call", job |-> worker[w].job,
           left |-> Attached(event_map[worker[w].job.type].router)] \in W
      BY <2>0, <2>3 DEF Copy, Attached
    <3>2. worker' \in [Worker -> W]  BY <2>3, <3>1 DEF Copy, TypeOK
    <3>3. QED  BY <2>3, <3>2 DEF Copy, TypeOK
  <2>4. CASE CallListener(w)
    <3>1. PICK l \in worker[w].left :
            /\ heard' = [heard EXCEPT ![l] = Append(@, worker[w].job.n)]
            /\ late' = [late EXCEPT ![l] = IF l \in gone THEN @ + 1 ELSE @]
            /\ worker' = [worker EXCEPT ![w].left = @ \ {l}]
      BY <2>4 DEF CallListener
    <3>2. worker[w].pc = "call"  BY <2>4 DEF CallListener
    <3>3. l \in Listener /\ worker[w].job.n \in 1..MaxNotifications
      BY <3>1, <3>2, Workers DEF Job
    <3>4. [worker[w] EXCEPT !.left = worker[w].left \ {l}] \in W
      BY <3>2, Workers
    <3>5. worker' \in [Worker -> W]  BY <3>1, <3>4 DEF TypeOK
    <3>6. heard' \in [Listener -> Seq(1..MaxNotifications)] /\ late' \in [Listener -> Nat]
      BY <3>1, <3>3 DEF TypeOK
    <3>7. QED  BY <2>4, <3>5, <3>6 DEF CallListener, TypeOK
  <2>5. CASE Return(w)
    BY <2>5 DEF Return, TypeOK
  <2>6. QED  BY <1>5, <2>1, <2>2, <2>3, <2>4, <2>5 DEF Work
<1>6. QED  BY <1>1, <1>2, <1>3, <1>4, <1>5 DEF Next, Notification

\* How a worker's step changes what the workers hold.
LEMMA Turns ==
  ASSUME TypeOK, NEW w \in Worker, Work(w)
  PROVE  /\ \A v \in Worker \ {w} : worker'[v] = worker[v]
         /\ Take(w) => /\ worker[w].pc = "idle"
                       /\ worker'[w].pc = "fill" /\ worker'[w].job = Head(queue)
         /\ Fill(w) => /\ worker[w].pc = "fill" /\ worker'[w].pc \in {"fill", "copy"}
                       /\ worker'[w].job = worker[w].job
         /\ Copy(w) => /\ worker[w].pc = "copy" /\ worker'[w].pc = "call"
                       /\ worker'[w].job = worker[w].job
                       /\ worker'[w].left = Attached(event_map[worker[w].job.type].router)
         /\ Return(w) => worker[w].pc = "call" /\ worker'[w].pc = "idle"
<1>1. \A v \in Worker \ {w} : worker'[v] = worker[v]
  BY DEF Work, Take, Fill, Copy, CallListener, Return, TypeOK
<1>2. ASSUME Take(w)
      PROVE  worker[w].pc = "idle" /\ worker'[w].pc = "fill" /\ worker'[w].job = Head(queue)
  BY <1>2 DEF Take, TypeOK
<1>3. ASSUME Fill(w)
      PROVE  /\ worker[w].pc = "fill" /\ worker'[w].pc \in {"fill", "copy"}
             /\ worker'[w].job = worker[w].job
  <2>1. CASE UNCHANGED worker  BY <1>3, <2>1 DEF Fill
  <2>2. CASE worker' = [worker EXCEPT ![w].pc = "copy"]
    <3>1. worker'[w] = [worker[w] EXCEPT !.pc = "copy"]  BY <2>2 DEF TypeOK
    <3>2. worker[w] \in [pc : {"fill", "copy"}, job : Job] /\ worker[w].pc = "fill"
      BY <1>3, Workers DEF Fill
    <3>3. QED  BY <3>1, <3>2
  <2>3. QED  BY <1>3, <2>1, <2>2 DEF Fill
<1>4. ASSUME Copy(w)
      PROVE  /\ worker[w].pc = "copy" /\ worker'[w].pc = "call"
             /\ worker'[w].job = worker[w].job
             /\ worker'[w].left = Attached(event_map[worker[w].job.type].router)
  BY <1>4 DEF Copy, TypeOK
<1>5. ASSUME Return(w) PROVE worker[w].pc = "call" /\ worker'[w].pc = "idle"
  BY <1>5 DEF Return, Idle, TypeOK
<1>6. QED  BY <1>1, <1>2, <1>3, <1>4, <1>5

\* What a worker's call of a listener changes.
LEMMA Calls ==
  ASSUME TypeOK, NEW w \in Worker, CallListener(w)
  PROVE  \E l \in Listener :
           /\ worker[w].pc = "call" /\ l \in worker[w].left
           /\ heard' = [heard EXCEPT ![l] = Append(heard[l], worker[w].job.n)]
           /\ late' = [late EXCEPT ![l] = IF l \in gone THEN late[l] + 1 ELSE late[l]]
           /\ worker' = [worker EXCEPT ![w].left = worker[w].left \ {l}]
           /\ worker'[w].pc = "call" /\ worker'[w].job = worker[w].job
           /\ worker'[w].left = worker[w].left \ {l}
<1>1. PICK l \in worker[w].left :
        /\ heard' = [heard EXCEPT ![l] = Append(@, worker[w].job.n)]
        /\ late' = [late EXCEPT ![l] = IF l \in gone THEN @ + 1 ELSE @]
        /\ worker' = [worker EXCEPT ![w].left = @ \ {l}]
  BY DEF CallListener
<1>2. worker[w].pc = "call"  BY DEF CallListener
<1>3. l \in Listener /\ worker[w] \in [pc : {"call"}, job : Job, left : SUBSET Listener]
  BY <1>2, Workers
<1>4. worker'[w] = [worker[w] EXCEPT !.left = worker[w].left \ {l}]
  BY <1>1 DEF TypeOK
<1>5. /\ worker'[w].pc = "call" /\ worker'[w].job = worker[w].job
      /\ worker'[w].left = worker[w].left \ {l}
  BY <1>3, <1>4
<1>6. QED  BY <1>1, <1>2, <1>3, <1>5

LEMMA LateStep == TypeOK /\ LateCounted /\ [Next]_vars => LateCounted'
<1> SUFFICES ASSUME TypeOK, LateCounted, [Next]_vars PROVE LateCounted'  OBVIOUS
<1> USE RouterAssumption
<1>0. /\ Cardinality(Worker) \in Nat
      /\ \A l \in Listener : /\ Calling(l) \subseteq Worker /\ IsFiniteSet(Calling(l))
                             /\ Cardinality(Calling(l)) \in Nat
                             /\ late[l] \in Nat
                             /\ Calling(l)' \subseteq Worker
                             /\ Cardinality(Calling(l)') <= Cardinality(Worker)
  <2>1. \A l \in Listener : Calling(l) \subseteq Worker /\ Calling(l)' \subseteq Worker
    BY DEF Calling
  <2>2. \A S \in SUBSET Worker : IsFiniteSet(S) /\ Cardinality(S) \in Nat
                                 /\ Cardinality(S) <= Cardinality(Worker)
    BY FS_Subset, FS_CardinalityType
  <2>3. QED  BY <2>1, <2>2, FS_CardinalityType DEF TypeOK
<1>1. CASE UNCHANGED <<gone, late, worker>>
  BY <1>1 DEF LateCounted, Calling
<1>2. ASSUME NEW l \in Listener, Detach(l) PROVE LateCounted'
  BY <1>2 DEF Detach, LateCounted, Calling
<1>3. ASSUME NEW w \in Worker, Work(w) PROVE LateCounted'
  <2>1. CASE CallListener(w)
    <3>1. PICK l \in Listener :
            /\ worker[w].pc = "call" /\ l \in worker[w].left
            /\ late' = [late EXCEPT ![l] = IF l \in gone THEN late[l] + 1 ELSE late[l]]
            /\ worker' = [worker EXCEPT ![w].left = worker[w].left \ {l}]
            /\ worker'[w].pc = "call" /\ worker'[w].left = worker[w].left \ {l}
      BY <2>1, Calls
    <3>2. Calling(l)' = Calling(l) \ {w} /\ w \in Calling(l)
      BY <1>3, <3>1, Turns DEF Calling
    <3>3. Cardinality(Calling(l)') = Cardinality(Calling(l)) - 1
      BY <1>0, <3>2, FS_RemoveElement
    <3>4. \A k \in Listener \ {l} : Calling(k)' = Calling(k) /\ late'[k] = late[k]
      BY <1>3, <3>1, Turns DEF Calling, TypeOK
    <3>5. late'[l] = IF l \in gone THEN late[l] + 1 ELSE late[l]
      BY <3>1 DEF TypeOK
    <3>6. UNCHANGED gone  BY <2>1 DEF CallListener
    <3>7. QED  BY <1>0, <3>3, <3>4, <3>5, <3>6 DEF LateCounted
  <2>2. CASE ~CallListener(w)
    <3>1. UNCHANGED <<gone, late>>
      BY <1>3, <2>2 DEF Work, Take, Fill, Copy, Return
    <3>2. ASSUME NEW l \in gone, l \in Listener PROVE Calling(l)' \subseteq Calling(l)
      <4>1. worker'[w].pc # "call" \/ (worker'[w].pc = "call" => l \notin worker'[w].left)
        <5>1. CASE Take(w)
          BY <1>3, <5>1, Turns
        <5>2. CASE Fill(w)
          BY <1>3, <5>2, Turns
        <5>3. CASE Copy(w)
          BY <1>3, <3>2, <5>3, Turns DEF Attached
        <5>4. CASE Return(w)
          BY <1>3, <5>4, Turns
        <5>5. QED  BY <1>3, <2>2, <5>1, <5>2, <5>3, <5>4 DEF Work
      <4>2. QED  BY <1>3, <4>1, Turns DEF Calling
    <3>3. ASSUME NEW l \in Listener PROVE
            /\ l \notin gone' => late'[l] = 0
            /\ late'[l] + Cardinality(Calling(l)') <= Cardinality(Worker)
      <4>1. CASE l \in gone
        <5>1. /\ Cardinality(Calling(l)') <= Cardinality(Calling(l))
              /\ Cardinality(Calling(l)') \in Nat
          BY <1>0, <3>2, <4>1, FS_Subset, FS_CardinalityType
        <5>2. QED  BY <1>0, <3>1, <4>1, <5>1 DEF LateCounted
      <4>2. CASE l \notin gone
        <5>1. late'[l] = 0  BY <3>1, <4>2 DEF LateCounted
        <5>2. Cardinality(Calling(l)') \in Nat  BY <1>0, FS_Subset, FS_CardinalityType
        <5>3. QED  BY <1>0, <3>1, <5>1, <5>2
      <4>3. QED  BY <4>1, <4>2
    <3>4. QED  BY <3>3 DEF LateCounted
  <2>3. QED  BY <2>1, <2>2
<1>4. QED
  BY <1>1, <1>2, <1>3 DEF Next, Attach, Notification, HandleEvent, vars

------------------------------------------------------------------------------
(* The numbers of the notifications.                                          *)

\* What the steps do to the queue: a notification comes last, and a worker takes the first.
LEMMA Enqueuing ==
  ASSUME TypeOK, NEW t, HandleEvent(t)
  PROVE  /\ received' = received + 1
         /\ \/ queue' = queue
            \/ /\ DOMAIN queue' = 1..Len(queue) + 1
               /\ \A i \in DOMAIN queue : queue'[i] = queue[i]
               /\ queue'[Len(queue) + 1].n = received'
<1>1. queue \in Seq(Job)  BY DEF TypeOK
<1>2. CASE UNCHANGED queue  BY <1>2 DEF HandleEvent
<1>3. ASSUME NEW e, queue' = Append(queue, e), e.n = received'
      PROVE  /\ DOMAIN queue' = 1..Len(queue) + 1
             /\ \A i \in DOMAIN queue : queue'[i] = queue[i]
             /\ queue'[Len(queue) + 1].n = received'
  BY <1>1, <1>3
<1>4. CASE \E o \in AllOutcomes :
             queue' = Append(queue, [n |-> received', type |-> t, throws |-> o.throws])
  BY <1>3, <1>4 DEF HandleEvent
<1>5. QED  BY <1>2, <1>4, Enqueued DEF HandleEvent

LEMMA Taking ==
  ASSUME TypeOK, NEW w \in Worker, Take(w)
  PROVE  /\ 1 \in DOMAIN queue /\ worker'[w].job = queue[1]
         /\ \A i \in DOMAIN queue' : i + 1 \in DOMAIN queue /\ queue'[i] = queue[i + 1]
<1>1. queue \in Seq(Job) /\ queue # <<>>  BY DEF Take, TypeOK
<1>2. Head(queue) = queue[1] /\ 1 \in DOMAIN queue  BY <1>1
<1>3. worker'[w].job = Head(queue)  BY Turns DEF Work
<1>4. queue' = Tail(queue)  BY DEF Take
<1>5. \A i \in DOMAIN Tail(queue) : i + 1 \in DOMAIN queue /\ Tail(queue)[i] = queue[i + 1]
  BY <1>1
<1>6. QED  BY <1>2, <1>3, <1>4, <1>5

\* Of a step that takes nothing, a worker keeps its job.
LEMMA Keeping ==
  ASSUME TypeOK, NEW w \in Worker, Work(w), ~Take(w)
  PROVE  /\ UNCHANGED <<queue, received>>
         /\ Busy' \subseteq Busy
         /\ \A v \in Busy : v \in Busy' => worker'[v].job = worker[v].job
<1>1. UNCHANGED <<queue, received>>
  BY DEF Work, Fill, Copy, CallListener, Return
<1>2. \A v \in Worker \ {w} : worker'[v] = worker[v]  BY Turns
<1>3. /\ worker[w].pc # "idle"
      /\ worker'[w].pc # "idle" => worker'[w].job = worker[w].job
  <2>1. CASE CallListener(w)  BY <2>1, Calls
  <2>2. CASE ~CallListener(w)  BY <2>2, Turns DEF Work
  <2>3. QED  BY <2>1, <2>2
<1>4. QED  BY <1>1, <1>2, <1>3 DEF Busy

LEMMA Numbers ==
  TypeOK => /\ received \in Nat
            /\ \A i \in DOMAIN queue : i \in Nat /\ i <= Len(queue) /\ queue[i].n \in Nat
            /\ \A w \in Busy : worker[w].job.n \in Nat
            /\ \A l \in Listener : \A k \in DOMAIN heard[l] : heard[l][k] \in Nat
<1> SUFFICES ASSUME TypeOK
             PROVE  /\ received \in Nat
                    /\ \A i \in DOMAIN queue : i \in Nat /\ i <= Len(queue) /\ queue[i].n \in Nat
                    /\ \A w \in Busy : worker[w].job.n \in Nat
                    /\ \A l \in Listener : \A k \in DOMAIN heard[l] : heard[l][k] \in Nat
  OBVIOUS
<1>1. received \in Nat  BY DEF TypeOK
<1>2. \A i \in DOMAIN queue : i \in Nat /\ i <= Len(queue) /\ queue[i].n \in Nat
  <2>1. queue \in Seq(Job)  BY DEF TypeOK
  <2>2. \A i \in DOMAIN queue : i \in Nat /\ i <= Len(queue) /\ queue[i] \in Job  BY <2>1
  <2>3. QED  BY <2>2 DEF Job
<1>3. \A w \in Busy : worker[w].job.n \in Nat
  BY Workers DEF Busy, Job
<1>4. ASSUME NEW l \in Listener, NEW k \in DOMAIN heard[l] PROVE heard[l][k] \in Nat
  <2>1. heard[l] \in Seq(1..MaxNotifications)  BY DEF TypeOK
  <2>2. \A S : \A s \in Seq(S) : \A i \in DOMAIN s : s[i] \in S  OBVIOUS
  <2>3. heard[l][k] \in 1..MaxNotifications  BY <2>1, <2>2
  <2>4. QED  BY <2>3
<1>5. QED  BY <1>1, <1>2, <1>3, <1>4

LEMMA InOrderStep == TypeOK /\ InOrder /\ [Next]_vars => InOrder'
<1> SUFFICES ASSUME TypeOK, InOrder, [Next]_vars PROVE InOrder'  OBVIOUS
<1>0. TypeOK' /\ queue \in Seq(Job)  BY TypeStep DEF TypeOK
<1>1. CASE UNCHANGED <<queue, received, worker>>
  BY <1>1 DEF InOrder, Busy
<1>2. ASSUME NEW t \in {topic, "unknown.type"}, HandleEvent(t) PROVE InOrder'
  <2>1. UNCHANGED worker /\ Busy' = Busy  BY <1>2 DEF HandleEvent, Busy
  <2>2. received' = received + 1  BY <1>2, Enqueuing
  <2>3. CASE queue' = queue
    BY <2>1, <2>2, <2>3, Numbers DEF InOrder
  <2>4. CASE /\ DOMAIN queue' = 1..Len(queue) + 1
             /\ \A i \in DOMAIN queue : queue'[i] = queue[i]
             /\ queue'[Len(queue) + 1].n = received'
    <3>1. \A i \in DOMAIN queue' : i = Len(queue) + 1 \/ i \in DOMAIN queue
      BY <1>0, <2>4
    <3>2. \A i \in DOMAIN queue : queue'[i].n <= received
      BY <2>4 DEF InOrder
    <3>3. \A i \in DOMAIN queue' : queue'[i].n <= received'
      BY <2>2, <2>4, <3>1, <3>2, Numbers
    <3>4. ASSUME NEW i \in DOMAIN queue', NEW j \in DOMAIN queue', i < j
          PROVE  queue'[i].n < queue'[j].n
      <4>1. i \in DOMAIN queue  BY <1>0, <2>4, <3>1, <3>4
      <4>2. CASE j \in DOMAIN queue  BY <2>4, <3>4, <4>1, <4>2 DEF InOrder
      <4>3. CASE j = Len(queue) + 1
        <5>1. queue'[i].n \in Nat  BY <2>4, <4>1, Numbers
        <5>2. QED  BY <2>2, <2>4, <3>2, <4>1, <4>3, <5>1, Numbers
      <4>4. QED  BY <3>1, <4>2, <4>3
    <3>5. ASSUME NEW w \in Busy', NEW i \in DOMAIN queue' PROVE worker'[w].job.n < queue'[i].n
      BY <2>1, <2>2, <2>4, <3>1, Numbers DEF InOrder
    <3>6. QED  BY <2>1, <2>2, <3>3, <3>4, <3>5, Numbers DEF InOrder
  <2>5. QED  BY <1>2, <2>3, <2>4, Enqueuing
<1>3. ASSUME NEW w \in Worker, Take(w) PROVE InOrder'
  <2>1. /\ 1 \in DOMAIN queue /\ worker'[w].job = queue[1]
        /\ \A i \in DOMAIN queue' : i + 1 \in DOMAIN queue /\ queue'[i] = queue[i + 1]
    BY <1>3, Taking
  <2>2. UNCHANGED received  BY <1>3 DEF Take
  <2>3. /\ Busy' = Busy \cup {w} /\ w \notin Busy
        /\ \A v \in Busy : worker'[v] = worker[v]
    BY <1>3, Turns DEF Work, Busy
  <2>4. \A i \in DOMAIN queue' : i \in Nat /\ i > 0  BY <1>0 DEF TypeOK
  <2>5. \A i \in DOMAIN queue' : queue'[i].n <= received'
    BY <2>1, <2>2 DEF InOrder
  <2>6. \A i, j \in DOMAIN queue' : i < j => queue'[i].n < queue'[j].n
    BY <2>1, <2>4 DEF InOrder
  <2>7. ASSUME NEW v \in Busy'
        PROVE  /\ worker'[v].job.n <= received'
               /\ \A i \in DOMAIN queue' : worker'[v].job.n < queue'[i].n
    BY <2>1, <2>2, <2>3, <2>4 DEF InOrder
  <2>8. ASSUME NEW u \in Busy', NEW v \in Busy', worker'[u].job.n = worker'[v].job.n PROVE u = v
    <3>1. \A x \in Busy : worker[x].job.n < queue[1].n  BY <2>1 DEF InOrder
    <3>2. QED  BY <2>1, <2>3, <2>8, <3>1, Numbers DEF InOrder
  <2>9. QED  BY <2>5, <2>6, <2>7, <2>8 DEF InOrder
<1>4. ASSUME NEW w \in Worker, Work(w), ~Take(w) PROVE InOrder'
  BY <1>4, Keeping DEF InOrder
<1>5. QED
  BY <1>1, <1>2, <1>3, <1>4 DEF Next, Attach, Detach, Notification, vars

\* A call makes the job's notification the last one that the listener heard.
LEMMA Hearing ==
  ASSUME TypeOK, NEW w \in Worker, CallListener(w)
  PROVE  /\ w \in Busy /\ Busy' = Busy /\ \A v \in Worker : worker'[v].job = worker[v].job
         /\ \A v \in Worker, k \in Listener : ToCome(v, k)' => ToCome(v, k)
         /\ \E l \in Listener :
              /\ ToCome(w, l) /\ ~ToCome(w, l)'
              /\ DOMAIN heard'[l] = 1..Len(heard[l]) + 1
              /\ DOMAIN heard[l] = 1..Len(heard[l]) /\ Len(heard[l]) \in Nat
              /\ \A k \in DOMAIN heard[l] : heard'[l][k] = heard[l][k]
              /\ heard'[l][Len(heard[l]) + 1] = worker[w].job.n
              /\ \A k \in Listener \ {l} : heard'[k] = heard[k]
<1>1. PICK l \in Listener :
        /\ worker[w].pc = "call" /\ l \in worker[w].left
        /\ heard' = [heard EXCEPT ![l] = Append(heard[l], worker[w].job.n)]
        /\ worker'[w].pc = "call" /\ worker'[w].job = worker[w].job
        /\ worker'[w].left = worker[w].left \ {l}
  BY Calls
<1>2. \A v \in Worker \ {w} : worker'[v] = worker[v]
  BY Turns DEF Work
<1>3. w \in Busy /\ Busy' = Busy /\ \A v \in Worker : worker'[v].job = worker[v].job
  BY <1>1, <1>2 DEF Busy
<1>4. \A v \in Worker, k \in Listener : ToCome(v, k)' => ToCome(v, k)
  BY <1>1, <1>2 DEF ToCome
<1>5. ToCome(w, l) /\ ~ToCome(w, l)'
  BY <1>1 DEF ToCome
<1>6. heard[l] \in Seq(1..MaxNotifications) /\ heard'[l] = Append(heard[l], worker[w].job.n)
  BY <1>1 DEF TypeOK
<1>7. \A S : \A s \in Seq(S) : \A e :
        /\ DOMAIN Append(s, e) = 1..Len(s) + 1 /\ DOMAIN s = 1..Len(s) /\ Len(s) \in Nat
        /\ \A k \in DOMAIN s : Append(s, e)[k] = s[k]
        /\ Append(s, e)[Len(s) + 1] = e
  OBVIOUS
<1>8. /\ DOMAIN heard'[l] = 1..Len(heard[l]) + 1
      /\ DOMAIN heard[l] = 1..Len(heard[l]) /\ Len(heard[l]) \in Nat
      /\ \A k \in DOMAIN heard[l] : heard'[l][k] = heard[l][k]
      /\ heard'[l][Len(heard[l]) + 1] = worker[w].job.n
  BY <1>6, <1>7
<1>9. \A k \in Listener \ {l} : heard'[k] = heard[k]
  BY <1>1 DEF TypeOK
<1>10. QED  BY <1>3, <1>4, <1>5, <1>8, <1>9

LEMMA UnheardStep == TypeOK /\ InOrder /\ Unheard /\ [Next]_vars => Unheard'
<1> SUFFICES ASSUME TypeOK, InOrder, Unheard, [Next]_vars PROVE Unheard'  OBVIOUS
<1>1. CASE UNCHANGED <<queue, received, worker, heard>>
  BY <1>1 DEF Unheard, Busy, ToCome
<1>2. ASSUME NEW t \in {topic, "unknown.type"}, HandleEvent(t) PROVE Unheard'
  <2>1. UNCHANGED <<worker, heard>> /\ Busy' = Busy  BY <1>2 DEF HandleEvent, Busy
  <2>2. received' = received + 1  BY <1>2, Enqueuing
  <2>3. \A i \in DOMAIN queue' :
          \/ i \in DOMAIN queue /\ queue'[i] = queue[i]
          \/ queue'[i].n = received'
    <3>1. queue \in Seq(Job)  BY DEF TypeOK
    <3>2. QED  BY <1>2, <3>1, Enqueuing
  <2>4. QED  BY <2>1, <2>2, <2>3, Numbers DEF Unheard, ToCome
<1>3. ASSUME NEW w \in Worker, Take(w) PROVE Unheard'
  <2>1. /\ 1 \in DOMAIN queue /\ worker'[w].job = queue[1]
        /\ \A i \in DOMAIN queue' : i + 1 \in DOMAIN queue /\ queue'[i] = queue[i + 1]
    BY <1>3, Taking
  <2>2. UNCHANGED <<received, heard>>  BY <1>3 DEF Take
  <2>3. Busy' = Busy \cup {w} /\ \A v \in Busy : worker'[v] = worker[v]
    BY <1>3, Turns DEF Work, Busy
  <2>4. \A v \in Busy, l \in Listener : ToCome(v, l)' <=> ToCome(v, l)
    BY <2>3 DEF ToCome
  <2>5. \A l \in Listener : \A k \in DOMAIN heard[l] : heard[l][k] # worker'[w].job.n
    BY <2>1, Numbers DEF Unheard
  <2>6. QED  BY <2>1, <2>2, <2>3, <2>4, <2>5 DEF Unheard
<1>4. ASSUME NEW w \in Worker, Fill(w) \/ Copy(w) \/ Return(w) PROVE Unheard'
  <2>1. UNCHANGED <<queue, received, heard>> /\ ~Take(w) /\ Work(w)
    BY <1>4 DEF Fill, Copy, Return, Work, Take
  <2>2. Busy' \subseteq Busy /\ \A v \in Busy' : worker'[v].job = worker[v].job
    BY <2>1, Keeping
  <2>3. \A v \in Busy', l \in Listener : ToCome(v, l)' => ToCome(v, l)
    BY <1>4, <2>1, Turns DEF ToCome, Busy
  <2>4. QED  BY <2>1, <2>2, <2>3 DEF Unheard
<1>5. ASSUME NEW w \in Worker, CallListener(w) PROVE Unheard'
  <2>1. PICK l \in Listener :
          /\ ToCome(w, l) /\ ~ToCome(w, l)'
          /\ DOMAIN heard'[l] = 1..Len(heard[l]) + 1
          /\ DOMAIN heard[l] = 1..Len(heard[l]) /\ Len(heard[l]) \in Nat
          /\ \A k \in DOMAIN heard[l] : heard'[l][k] = heard[l][k]
          /\ heard'[l][Len(heard[l]) + 1] = worker[w].job.n
          /\ \A k \in Listener \ {l} : heard'[k] = heard[k]
    BY <1>5, Hearing
  <2>2. /\ w \in Busy /\ Busy' = Busy /\ \A v \in Worker : worker'[v].job = worker[v].job
        /\ \A v \in Worker, k \in Listener : ToCome(v, k)' => ToCome(v, k)
    BY <1>5, Hearing
  <2>3. UNCHANGED <<queue, received>>  BY <1>5 DEF CallListener
  <2>4. Busy \subseteq Worker  BY DEF Busy
  <2>5. ASSUME NEW m \in Listener, NEW k \in DOMAIN heard'[m]
        PROVE  /\ heard'[m][k] <= received'
               /\ \A i \in DOMAIN queue' : heard'[m][k] < queue'[i].n
               /\ \A v \in Busy' : ToCome(v, m)' => heard'[m][k] # worker'[v].job.n
    <3>1. CASE k \in DOMAIN heard[m] /\ heard'[m][k] = heard[m][k]
      BY <2>2, <2>3, <2>4, <3>1 DEF Unheard
    <3>2. CASE m = l /\ k = Len(heard[l]) + 1
      <4>1. heard'[m][k] = worker[w].job.n  BY <2>1, <3>2
      <4>2. \A v \in Busy : worker[v].job.n = worker[w].job.n => v = w
        BY <2>2 DEF InOrder
      <4>3. QED  BY <2>1, <2>2, <2>3, <2>4, <3>2, <4>1, <4>2 DEF InOrder
    <3>3. QED  BY <2>1, <2>5, <3>1, <3>2
  <2>6. QED  BY <2>5 DEF Unheard
<1>6. QED
  BY <1>1, <1>2, <1>3, <1>4, <1>5 DEF Next, Work, Attach, Detach, Notification, vars

LEMMA HeardOnceStep == TypeOK /\ Unheard /\ HeardOnce /\ [Next]_vars => HeardOnce'
<1> SUFFICES ASSUME TypeOK, Unheard, HeardOnce, [Next]_vars PROVE HeardOnce'  OBVIOUS
<1>1. CASE UNCHANGED heard
  BY <1>1 DEF HeardOnce
<1>2. ASSUME NEW w \in Worker, CallListener(w) PROVE HeardOnce'
  <2>1. PICK l \in Listener :
          /\ ToCome(w, l)
          /\ DOMAIN heard'[l] = 1..Len(heard[l]) + 1
          /\ DOMAIN heard[l] = 1..Len(heard[l]) /\ Len(heard[l]) \in Nat
          /\ \A k \in DOMAIN heard[l] : heard'[l][k] = heard[l][k]
          /\ heard'[l][Len(heard[l]) + 1] = worker[w].job.n
          /\ \A k \in Listener \ {l} : heard'[k] = heard[k]
    BY <1>2, Hearing
  <2>2. \A k \in DOMAIN heard[l] : heard[l][k] # worker[w].job.n
    BY <1>2, <2>1, Hearing DEF Unheard
  <2>3. ASSUME NEW m \in Listener, NEW i \in DOMAIN heard'[m], NEW j \in DOMAIN heard'[m],
               heard'[m][i] = heard'[m][j]
        PROVE  i = j
    <3>1. CASE m # l  BY <2>1, <2>3, <3>1 DEF HeardOnce
    <3>2. CASE m = l
      <4>1. \A k \in DOMAIN heard'[l] : k \in DOMAIN heard[l] \/ k = Len(heard[l]) + 1
        BY <2>1
      <4>2. \A k \in DOMAIN heard[l] : heard'[l][k] # worker[w].job.n
        BY <2>1, <2>2
      <4>3. CASE i \in DOMAIN heard[l] /\ j \in DOMAIN heard[l]
        BY <2>1, <2>3, <3>2, <4>3 DEF HeardOnce
      <4>4. QED  BY <2>1, <2>3, <3>2, <4>1, <4>2, <4>3
    <3>3. QED  BY <3>1, <3>2
  <2>4. QED  BY <2>3 DEF HeardOnce
<1>3. QED
  BY <1>1, <1>2
  DEF Next, Work, Attach, Detach, Notification, HandleEvent, Take, Fill, Copy, Return, vars

------------------------------------------------------------------------------
(* The payloads, by the tables.                                               *)

LEMMA JobsStep ==
  ASSUME TypeOK, Routed, TablesAgree, [Next]_vars
  PROVE  \A j \in Jobs' : j.type = topic' /\ (j.throws => wrong')
<1>0. /\ UNCHANGED topic /\ (wrong => wrong') /\ topic \in Focus
      /\ \A j \in Jobs : j.type = topic /\ (j.throws => wrong)
  BY DEF Routed, TypeOK, Next, Attach, Detach, Notification, HandleEvent, Work, Take, Fill, Copy,
         CallListener, Return, vars
<1>1. CASE Jobs' \subseteq Jobs
  BY <1>0, <1>1
<1>2. CASE UNCHANGED <<queue, worker>>
  BY <1>1, <1>2 DEF Jobs, Busy
<1>3. ASSUME NEW t \in {topic, "unknown.type"}, HandleEvent(t)
      PROVE  \A j \in Jobs' : j.type = topic' /\ (j.throws => wrong')
  <2>1. UNCHANGED worker  BY <1>3 DEF HandleEvent
  <2>2. CASE UNCHANGED <<queue, wrong>>
    BY <1>2, <2>1, <2>2
  <2>3. ASSUME NEW o \in AllOutcomes, o.type = t,
               queue' = Append(queue, [n |-> received', type |-> t, throws |-> o.throws]),
               wrong' = (wrong \/ o.wrong)
        PROVE  \A j \in Jobs' : j.type = topic' /\ (j.throws => wrong')
    <3>1. t = topic  BY <2>3, OutcomeTypes, UnknownTypeHasNoHandler
    <3>2. o.throws => wrong'  BY <2>3 DEF TablesAgree
    <3>3. queue \in Seq(Job)  BY DEF TypeOK
    <3>4. \A i \in DOMAIN queue' :
            \/ i \in DOMAIN queue /\ queue'[i] = queue[i]
            \/ queue'[i] = [n |-> received', type |-> t, throws |-> o.throws]
      BY <2>3, <3>3
    <3>5. ASSUME NEW j \in Jobs'
          PROVE  j \in Jobs \/ j = [n |-> received', type |-> t, throws |-> o.throws]
      BY <2>1, <3>4, <3>5 DEF Jobs, Busy
    <3>6. QED  BY <1>0, <3>1, <3>2, <3>5
  <2>4. QED  BY <1>3, <2>2, <2>3, Enqueued
<1>4. ASSUME NEW w \in Worker, Take(w) PROVE Jobs' \subseteq Jobs
  <2>1. /\ 1 \in DOMAIN queue /\ worker'[w].job = queue[1]
        /\ \A i \in DOMAIN queue' : i + 1 \in DOMAIN queue /\ queue'[i] = queue[i + 1]
    BY <1>4, Taking
  <2>2. Busy' = Busy \cup {w} /\ w \notin Busy /\ \A v \in Busy : worker'[v] = worker[v]
    BY <1>4, Turns DEF Work, Busy
  <2>3. QED  BY <2>1, <2>2 DEF Jobs
<1>5. ASSUME NEW w \in Worker, Work(w), ~Take(w) PROVE Jobs' \subseteq Jobs
  BY <1>5, Keeping DEF Jobs
<1>6. QED
  BY <1>1, <1>2, <1>3, <1>4, <1>5 DEF Next, Attach, Detach, Notification, vars

LEMMA RoutedStep == TypeOK /\ Routed /\ TablesAgree /\ [Next]_vars => Routed'
<1> SUFFICES ASSUME TypeOK, Routed, TablesAgree, [Next]_vars PROVE Routed'  OBVIOUS
<1>1. MissingIsHarmless'
  <2>1. CASE terminated' = terminated /\ (wrong => wrong')
    BY <2>1 DEF Routed, MissingIsHarmless
  <2>2. ASSUME NEW w \in Worker, Fill(w) PROVE MissingIsHarmless'
    <3>1. worker[w].job \in Jobs  BY <2>2 DEF Fill, Jobs, Busy
    <3>2. QED  BY <2>2, <3>1 DEF Fill, Routed, MissingIsHarmless
  <2>3. ASSUME NEW t, HandleEvent(t) PROVE MissingIsHarmless'
    <3>1. terminated' = terminated /\ (wrong => wrong')
      BY <2>3, Enqueued DEF HandleEvent
    <3>2. QED  BY <2>1, <3>1
  <2>4. QED
    BY <2>1, <2>2, <2>3
    DEF Next, Attach, Detach, Notification, Work, Take, Copy, CallListener, Return, vars
<1>2. ASSUME NEW l \in Listener, heard'[l] # <<>> \/ Calling(l)' # {}
      PROVE  topic' \in DOMAIN event_map /\ handlers'[l] = event_map[topic'].router
  <2>1. UNCHANGED topic /\ topic \in Focus
    BY DEF TypeOK, Next, Attach, Detach, Notification, HandleEvent, Work, Take, Fill, Copy,
           CallListener, Return, vars
  <2>2. CASE heard[l] # <<>> \/ Calling(l) # {}
    <3>1. topic \in DOMAIN event_map /\ handlers[l] = event_map[topic].router
      BY <2>2 DEF Routed
    <3>2. handlers[l] # "none"  BY <2>1, <3>1 DEF TablesAgree
    <3>3. handlers'[l] = handlers[l]
      BY <3>2
      DEF TypeOK, Next, Attach, Detach, Notification, HandleEvent, Work, Take, Fill, Copy,
          CallListener, Return, vars
    <3>4. QED  BY <2>1, <3>1, <3>3
  <2>3. CASE heard[l] = <<>> /\ Calling(l) = {}
    <3>1. CASE UNCHANGED <<heard, worker>>
      BY <1>2, <2>3, <3>1 DEF Calling
    <3>2. ASSUME NEW w \in Worker, Work(w), ~Copy(w) PROVE FALSE
      <4>1. \A v \in Worker \ {w} : worker'[v] = worker[v]  BY <3>2, Turns
      <4>2. CASE CallListener(w)
        <5>1. PICK k \in Listener :
                /\ worker[w].pc = "call" /\ k \in worker[w].left
                /\ heard' = [heard EXCEPT ![k] = Append(heard[k], worker[w].job.n)]
                /\ worker'[w].left = worker[w].left \ {k}
          BY <4>2, Calls
        <5>2. k # l  BY <2>3, <5>1 DEF Calling
        <5>3. heard'[l] = <<>>  BY <2>3, <5>1, <5>2 DEF TypeOK
        <5>4. Calling(l)' = {}  BY <2>3, <4>1, <5>1 DEF Calling
        <5>5. QED  BY <1>2, <5>3, <5>4
      <4>3. CASE Take(w) \/ Fill(w) \/ Return(w)
        <5>1. heard' = heard  BY <4>3 DEF Take, Fill, Return
        <5>2. worker'[w].pc # "call"  BY <3>2, <4>3, Turns
        <5>3. QED  BY <1>2, <2>3, <4>1, <5>1, <5>2 DEF Calling
      <4>4. QED  BY <3>2, <4>2, <4>3 DEF Work
    <3>3. ASSUME NEW w \in Worker, Copy(w)
          PROVE  topic' \in DOMAIN event_map /\ handlers'[l] = event_map[topic'].router
      <4>1. \A v \in Worker \ {w} : worker'[v] = worker[v]  BY <3>3, Turns DEF Work
      <4>2. UNCHANGED <<heard, handlers>>  BY <3>3 DEF Copy
      <4>3. l \in worker'[w].left  BY <1>2, <2>3, <4>1, <4>2 DEF Calling
      <4>4. handlers[l] = event_map[worker[w].job.type].router
        BY <3>3, <4>3, Turns DEF Work, Attached
      <4>5. worker[w].job \in Jobs /\ worker[w].job \in Job
        BY <3>3, Workers DEF Copy, Jobs, Busy
      <4>6. worker[w].job.type = topic /\ topic \in DOMAIN event_map
        BY <4>5 DEF Routed, Job
      <4>7. QED  BY <2>1, <4>2, <4>4, <4>6
    <3>4. QED
      BY <3>1, <3>2, <3>3 DEF Next, Attach, Detach, Notification, HandleEvent, Work, vars
  <2>4. QED  BY <2>2, <2>3
<1>3. QED  BY <1>1, <1>2, JobsStep DEF Routed

------------------------------------------------------------------------------
(* The theorems.                                                              *)

LEMMA InitInvariant == Init => InductiveInvariant
<1> SUFFICES ASSUME Init PROVE InductiveInvariant  OBVIOUS
<1> USE RouterAssumption DEF Init
<1>1. Busy = {} /\ \A l \in Listener : Calling(l) = {}
  BY DEF Busy, Calling, Idle
<1>2. TypeOK
  <2>1. <<>> \in Seq(Job) /\ <<>> \in Seq(1..MaxNotifications) /\ "none" \in Routers
    BY DEF Routers
  <2>2. worker \in [Worker -> {Idle}]  OBVIOUS
  <2>3. /\ heard \in [Listener -> Seq(1..MaxNotifications)] /\ queue \in Seq(Job)
        /\ handlers \in [Listener -> Routers]
    BY <2>1
  <2>4. received \in 0..MaxNotifications  OBVIOUS
  <2>5. QED  BY <2>2, <2>3, <2>4 DEF TypeOK
<1>3. LateCounted
  <2>1. Cardinality({}) = 0 /\ Cardinality(Worker) \in Nat
    BY FS_EmptySet, FS_CardinalityType
  <2>2. \A l \in Listener : late[l] = 0 /\ Cardinality(Calling(l)) = 0
    BY <1>1, <2>1
  <2>3. QED  BY <2>1, <2>2 DEF LateCounted
<1>4. InOrder /\ Unheard /\ HeardOnce
  BY <1>1 DEF InOrder, Unheard, HeardOnce
<1>5. QED  BY <1>2, <1>3, <1>4 DEF InductiveInvariant

\* InductiveInvariantHolds: where the notifications are and which listeners have yet to hear of
\* them is kept by every step, for any listeners, workers and notifications.
THEOREM InductiveInvariantHolds == Spec => []InductiveInvariant
<1>1. InductiveInvariant /\ [Next]_vars => InductiveInvariant'
  BY TypeStep, LateStep, InOrderStep, UnheardStep, HeardOnceStep DEF InductiveInvariant
<1>2. QED  BY <1>1, InitInvariant, PTL DEF Spec

\* CallsBoundedHolds (event_router_t): for any number of workers, however their calls, attach()
\* and detach() fall, no listener is called twice with a notification, and after its detach()
\* returned it is called at most once more by each worker.
THEOREM CallsBoundedHolds == Spec => []CallsBounded
<1>1. InductiveInvariant => CallsBounded
  <2> SUFFICES ASSUME InductiveInvariant, NEW l \in Listener
               PROVE  late[l] <= Cardinality(Worker)
    BY DEF InductiveInvariant, CallsBounded, LateCallsBounded
  <2>1. Calling(l) \subseteq Worker  BY DEF Calling
  <2>2. /\ Cardinality(Calling(l)) \in Nat /\ Cardinality(Worker) \in Nat
        /\ late[l] \in Nat /\ late[l] + Cardinality(Calling(l)) <= Cardinality(Worker)
    BY <2>1, RouterAssumption, FS_Subset, FS_CardinalityType
    DEF InductiveInvariant, LateCounted, TypeOK
  <2>3. QED  BY <2>2
<1>2. QED  BY <1>1, InductiveInvariantHolds, PTL

\* RoutedHolds: where the tables agree, what is enqueued is of the type that was received, and
\* only listeners of its router are called.
THEOREM RoutedHolds == ASSUME TablesAgree PROVE Spec => []Routed
<1>1. Init => Routed
  BY DEF Init, Routed, Jobs, Busy, Calling, Idle, MissingIsHarmless
<1>2. InductiveInvariant /\ Routed /\ [Next]_vars => Routed'
  BY RoutedStep DEF InductiveInvariant
<1>3. QED  BY <1>1, <1>2, InductiveInvariantHolds, PTL DEF Spec

\* AsDocumentedHolds (dispatcher.h, events/*.cpp): where the tables agree, a listener only gets
\* the struct that is documented for the type received and the router it was attached to,
\* whatever else is attached, for any listeners and workers.
THEOREM AsDocumentedHolds == ASSUME TablesAgree PROVE Spec => []AsDocumented
<1>1. TypeOK /\ Routed => AsDocumented
  <2> SUFFICES ASSUME TypeOK, Routed, NEW l \in Listener, heard[l] # <<>>
               PROVE  /\ \E g \in GivenAsDeclared : g.of = topic /\ g.through = handlers[l]
                      /\ PartsAsDeclared = Parts
    BY DEF AsDocumented
  <2>1. topic \in Focus \cap DOMAIN event_map /\ handlers[l] = event_map[topic].router
    BY DEF TypeOK, Routed
  <2>2. PICK g \in GivenAsDeclared : g.of = topic  BY <2>1 DEF TablesAgree
  <2>3. g.through = event_map[g.of].router  BY <2>2 DEF GivenAsDeclared
  <2>4. QED  BY <2>1, <2>2, <2>3 DEF TablesAgree
<1>2. InductiveInvariant => TypeOK
  BY DEF InductiveInvariant
<1>3. QED  BY <1>1, <1>2, RoutedHolds, InductiveInvariantHolds, PTL

\* MissingIsHarmlessHolds (event.h): where no accessor throws on a value that is absent, null or
\* of its kind, the process is terminated only by a value of another kind.
THEOREM MissingIsHarmlessHolds == ASSUME TablesAgree PROVE Spec => []MissingIsHarmless
<1>1. Routed => MissingIsHarmless
  BY DEF Routed
<1>2. QED  BY <1>1, RoutedHolds, PTL

\* SubscribedIsHandledHolds (eventsub_events.cpp): whatever comes, and of whichever type, no
\* notification that a factory subscribes to is dropped for want of a handler.
THEOREM SubscribedIsHandledHolds == Spec => []SubscribedIsHandled
<1>1. Init => SubscribedIsHandled
  BY DEF Init, SubscribedIsHandled
<1>2. SubscribedIsHandled /\ [Next]_vars => SubscribedIsHandled'
  <2> SUFFICES ASSUME SubscribedIsHandled, [Next]_vars PROVE SubscribedIsHandled'
    OBVIOUS
  <2>1. \/ unhandled' = unhandled
        \/ \E t : t \notin DOMAIN event_map /\ unhandled' = unhandled \cup {t}
    BY DEF Next, vars, Attach, Detach, Notification, HandleEvent, Work, Take, Fill, Copy,
      CallListener, Return
  <2>2. QED  BY <2>1, EveryFactoryHasItsHandler DEF SubscribedIsHandled
<1>3. QED  BY <1>1, <1>2, PTL DEF Spec
==============================================================================
