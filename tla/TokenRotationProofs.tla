------------------------- MODULE TokenRotationProofs --------------------------
(* Proofs about TokenRotation, for any consumers, any bounds and any times    *)
(* that satisfy TimeAssumption, with the app token and the consumers at once. *)
EXTENDS TokenRotation, SequenceTheorems, TLAPS

USE TokenAssumption

------------------------------------------------------------------------------
(* Lemmas on the operators of the module.                                     *)

\* What is left of a sequence was in it.
LEMMA RemoveAtKeeps ==
  ASSUME NEW S, NEW s \in Seq(S), NEW i \in DOMAIN s
  PROVE  /\ RemoveAt(s, i) \in Seq(S)
         /\ \A j \in DOMAIN RemoveAt(s, i) : \E k \in DOMAIN s : RemoveAt(s, i)[j] = s[k]
<1> DEFINE a == SubSeq(s, 1, i - 1)
           b == SubSeq(s, i + 1, Len(s))
<1>1. i \in 1..Len(s) /\ Len(s) \in Nat  OBVIOUS
<1>2. /\ a \in Seq(S) /\ Len(a) = i - 1
      /\ \A j \in 1..(i - 1) : a[j] = s[j]
  BY <1>1
<1>3. /\ b \in Seq(S) /\ Len(b) = Len(s) - i
      /\ \A j \in 1..(Len(s) - i) : b[j] = s[i + j]
  BY <1>1
<1>4. RemoveAt(s, i) = a \o b  BY DEF RemoveAt
<1> HIDE DEF a, b
<1>5. /\ a \o b \in Seq(S) /\ Len(a \o b) = Len(a) + Len(b)
      /\ \A j \in 1..(Len(a) + Len(b)) : (a \o b)[j] = IF j <= Len(a) THEN a[j] ELSE b[j - Len(a)]
  BY <1>2, <1>3, ConcatProperties
<1>6. ASSUME NEW j \in 1..(Len(s) - 1) PROVE \E k \in DOMAIN s : (a \o b)[j] = s[k]
  <2>0. j \in 1..(Len(a) + Len(b)) /\ DOMAIN s = 1..Len(s)  BY <1>1, <1>2, <1>3
  <2>1. CASE j <= i - 1
    <3>1. (a \o b)[j] = s[j]  BY <1>1, <1>2, <1>5, <2>0, <2>1
    <3>2. j \in DOMAIN s  BY <1>1, <2>0
    <3>3. QED  BY <3>1, <3>2
  <2>2. CASE j > i - 1
    <3>1. j - (i - 1) \in 1..(Len(s) - i) /\ i + (j - (i - 1)) = j + 1  BY <1>1, <2>2
    <3>2. (a \o b)[j] = b[j - (i - 1)]  BY <1>1, <1>2, <1>5, <2>0, <2>2
    <3>3. b[j - (i - 1)] = s[j + 1]  BY <1>3, <3>1
    <3>4. j + 1 \in DOMAIN s  BY <1>1, <2>0
    <3>5. QED  BY <3>2, <3>3, <3>4
  <2>3. j <= i - 1 \/ j > i - 1  BY <1>1
  <2>4. QED  BY <2>1, <2>2, <2>3
<1>7. DOMAIN (a \o b) = 1..(Len(s) - 1)
  <2>1. Len(a \o b) = Len(s) - 1  BY <1>1, <1>2, <1>3, <1>5
  <2>2. QED  BY <1>5, <2>1
<1>8. QED  BY <1>4, <1>5, <1>6, <1>7

\* What appending adds to a sequence.
LEMMA AppendKeeps ==
  ASSUME NEW S, NEW s \in Seq(S), NEW x \in S
  PROVE  /\ Append(s, x) \in Seq(S) /\ Append(s, x) # <<>>
         /\ \A j \in DOMAIN s : j \in DOMAIN Append(s, x) /\ Append(s, x)[j] = s[j]
         /\ \E j \in DOMAIN Append(s, x) : Append(s, x)[j] = x
         /\ \A j \in DOMAIN Append(s, x) : Append(s, x)[j] = x \/ j \in DOMAIN s
<1>1. /\ Append(s, x) \in Seq(S) /\ Len(Append(s, x)) = Len(s) + 1 /\ Len(s) \in Nat
      /\ \A j \in 1..Len(s) : Append(s, x)[j] = s[j]
      /\ Append(s, x)[Len(s) + 1] = x
      /\ DOMAIN Append(s, x) = 1..(Len(s) + 1) /\ DOMAIN s = 1..Len(s)
  OBVIOUS
<1>2. Len(s) + 1 \in DOMAIN Append(s, x)  BY <1>1
<1>3. Append(s, x) # <<>>  BY <1>1
<1>4. QED  BY <1>1, <1>2, <1>3

\* A timer is set for a token that can be refreshed and expires, later than now and, when the
\* token lives longer than the margin, the margin before.
LEMMA DueTime ==
  ASSUME NEW o \in Owners, NEW at \in Nat, now \in Nat
  PROVE  /\ Due(o, at) \in Nat \cup {None}
         /\ Due(o, at) # None => now < Due(o, at) /\ (Due(o, at) = now + 1 \/ Due(o, at) = at - Margin)
         /\ o \in Refreshable \cup {App} /\ at # 0 => Due(o, at) # None
<1>1. Later(at - Margin, now + 1) \in Nat  BY DEF Later
<1>2. QED  BY <1>1 DEF Due, Later, Owners

------------------------------------------------------------------------------
(* The types.                                                                 *)

LEMMA TypeStep == InductiveInvariant /\ [Next]_vars => TypeOK'
<1> SUFFICES ASSUME InductiveInvariant, [Next]_vars PROVE TypeOK'
  OBVIOUS
<1> USE DEF InductiveInvariant, TypeOK, refs, tokens
<1>r. ASSUME Release PROVE timer' \in [Owners -> Nat \cup {None}]
  BY <1>r DEF Release
<1>1. ASSUME NEW c \in Consumers, CreateConsumer(c) PROVE TypeOK'
  <2>1. PICK l \in Lifetimes, known \in BOOLEAN :
          /\ valid' = [valid EXCEPT ![c] = now + l]
          /\ expires' = [expires EXCEPT ![c] = IF known THEN now + l ELSE 0]
    BY <1>1 DEF CreateConsumer
  <2>2. now + l \in Nat  OBVIOUS
  <2>3. valid' \in [Owners -> Nat] /\ expires' \in [Owners -> Nat]  BY <2>1, <2>2
  <2>4. QED  BY <1>1, <2>3 DEF CreateConsumer
<1>2. ASSUME NEW c \in Consumers, AddConsumer(c) PROVE TypeOK'
  <2>1. Due(c, expires[c]) \in Nat \cup {None}  BY DueTime DEF Owners
  <2>2. timer' \in [Owners -> Nat \cup {None}]  BY <1>2, <2>1 DEF AddConsumer
  <2>3. QED  BY <1>2, <2>2 DEF AddConsumer
<1>3. CASE TrackConsumer
  BY <1>3, <1>r DEF TrackConsumer
<1>4. CASE RemoveConsumer
  BY <1>4 DEF RemoveConsumer
<1>5. ASSUME NEW c \in Consumers, Drop(c) PROVE TypeOK'
  BY <1>5, <1>r DEF Drop
<1>6. CASE RunDeferred
  BY <1>6, <1>r DEF RunDeferred
<1>7. ASSUME NEW c \in Consumers, Fire(c) PROVE TypeOK'
  <2>1. c \in created
    BY <1>7 DEF Fire, IsDue, TimersAlive, Alive, Referred
  <2>2. timer' \in [Owners -> Nat \cup {None}]  BY <1>7 DEF Fire
  <2>3. QED  BY <1>7, <2>1, <2>2 DEF Fire
<1>8. CASE Fired
  <2>1. requests' \in [Owners -> Seq(Nat)]  BY <1>8 DEF Fired, Owners
  <2>2. QED  BY <1>8, <1>r, <2>1 DEF Fired
<1>9. CASE FireApp
  <2>1. requests' \in [Owners -> Seq(Nat)] /\ timer' \in [Owners -> Nat \cup {None}]
    BY <1>9 DEF FireApp, Owners
  <2>2. QED  BY <1>9, <2>1 DEF FireApp
<1>10. CASE EnsureAppToken
  <2>1. requests' \in [Owners -> Seq(Nat)]  BY <1>10 DEF EnsureAppToken, Owners
  <2>2. QED  BY <1>10, <2>1 DEF EnsureAppToken
<1>a. ASSUME NEW o \in Owners, NEW i \in DOMAIN requests[o], Answered(o, i)
      PROVE  requests' \in [Owners -> Seq(Nat)]
  BY <1>a, RemoveAtKeeps DEF Answered
<1>11. ASSUME NEW o \in Owners, NEW i \in DOMAIN requests[o], Answer(o, i) PROVE TypeOK'
  <2>1. requests' \in [Owners -> Seq(Nat)]  BY <1>11, <1>a DEF Answer
  <2>2. CASE TakeToken(o, i)
    <3>1. PICK issued \in requests[o][i]..now, l \in Lifetimes, known \in BOOLEAN :
            /\ valid' = [valid EXCEPT ![o] = issued + l]
            /\ expires' = [expires EXCEPT ![o] = IF known THEN now + l ELSE 0]
      BY <2>2 DEF TakeToken
    <3>2. requests[o][i] \in Nat /\ issued + l \in Nat /\ now + l \in Nat  BY <3>1
    <3>3. valid' \in [Owners -> Nat] /\ expires' \in [Owners -> Nat]  BY <3>1, <3>2
    <3>4. Due(o, expires'[o]) \in Nat \cup {None}  BY <3>3, DueTime
    <3>5. /\ timer' \in [Owners -> Nat \cup {None}] /\ failed' \in [Owners -> BOOLEAN]
          /\ ontime' \in [Owners -> BOOLEAN]
      BY <2>2, <3>4 DEF TakeToken
    <3>6. QED  BY <1>11, <2>1, <3>3, <3>5 DEF Answer
  <2>3. CASE UNCHANGED <<expires, valid, timer, failed, ontime>>
    BY <1>11, <2>1, <2>3 DEF Answer
  <2>4. QED  BY <1>11, <2>2, <2>3 DEF Answer
<1>12. ASSUME NEW o \in Owners, NEW i \in DOMAIN requests[o], AnswerFails(o, i) PROVE TypeOK'
  <2>1. requests' \in [Owners -> Seq(Nat)]  BY <1>12, <1>a DEF AnswerFails
  <2>2. failed' \in [Owners -> BOOLEAN] /\ ontime' \in [Owners -> BOOLEAN]
    BY <1>12 DEF AnswerFails
  <2>3. QED  BY <1>12, <2>1, <2>2 DEF AnswerFails
<1>13. CASE Start
  <2>1. requests' \in [Owners -> Seq(Nat)]  BY <1>13 DEF Start, Owners
  <2>2. QED  BY <1>13, <2>1 DEF Start
<1>14. CASE Stop
  <2>1. /\ expires' \in [Owners -> Nat] /\ valid' \in [Owners -> Nat]
        /\ requests' \in [Owners -> Seq(Nat)]
    BY <1>14 DEF Stop, Owners
  <2>2. timer' \in [Owners -> Nat \cup {None}]  BY <1>14 DEF Stop
  <2>3. failed' \in [Owners -> BOOLEAN] /\ ontime' \in [Owners -> BOOLEAN]
    BY <1>14 DEF Stop
  <2>4. QED  BY <1>14, <2>1, <2>2, <2>3 DEF Stop
<1>15. CASE Tick
  BY <1>15 DEF Tick
<1>16. CASE UNCHANGED vars
  BY <1>16 DEF vars
<1>17. QED
  BY <1>1, <1>2, <1>3, <1>4, <1>5, <1>6, <1>7, <1>8, <1>9, <1>10, <1>11, <1>12, <1>13,
     <1>14, <1>15, <1>16 DEF Next

------------------------------------------------------------------------------
(* What a step does to one owner of a token.                                  *)

\* A consumer that is gone stays gone, and one that was not created is not there yet.
LEMMA AliveStep ==
  ASSUME InductiveInvariant, [Next]_vars, NEW c \in Consumers
  PROVE  /\ c \in created => c \in created' /\ (Alive(c)' => Alive(c))
         /\ c \notin created => /\ ~Alive(c)
                                /\ CreateConsumer(c) \/ (~Alive(c)' /\ c \notin created')
<1> DEFINE Goal == /\ c \in created => c \in created' /\ (Alive(c)' => Alive(c))
                   /\ c \notin created => /\ ~Alive(c)
                                          /\ CreateConsumer(c) \/ (~Alive(c)' /\ c \notin created')
<1> USE DEF InductiveInvariant, TypeOK, Alive, Referred, refs
<1>1. ASSUME NEW d \in Consumers, CreateConsumer(d) PROVE Goal
  BY <1>1 DEF CreateConsumer
<1>2. ASSUME NEW d \in Consumers, AddConsumer(d) PROVE Goal
  BY <1>2 DEF AddConsumer
<1>3. CASE TrackConsumer
  BY <1>3 DEF TrackConsumer
<1>4. CASE RemoveConsumer
  BY <1>4 DEF RemoveConsumer
<1>5. ASSUME NEW d \in Consumers, Drop(d) PROVE Goal
  BY <1>5 DEF Drop
<1>6. CASE RunDeferred
  BY <1>6 DEF RunDeferred
<1>7. ASSUME NEW d \in Consumers, Fire(d) PROVE Goal
  BY <1>7 DEF Fire, IsDue, TimersAlive
<1>8. CASE Fired
  BY <1>8 DEF Fired
<1>9. CASE Stop
  BY <1>9 DEF Stop
<1>10. ASSUME UNCHANGED <<refs, adding, firing>> PROVE Goal
  BY <1>10
<1>11. QED
  BY <1>1, <1>2, <1>3, <1>4, <1>5, <1>6, <1>7, <1>8, <1>9, <1>10
     DEF Next, vars, FireApp, EnsureAppToken, Answer, AnswerFails, Start, Tick

\* The timer of an owner goes when it does.
TimerGoesAlong(o) ==
  \/ timer'[o] = timer[o] /\ (Alive(o) => Alive(o)')
  \/ timer'[o] = None /\ ~Alive(o)'

\* Nothing of an owner changes but that it may go.
Untouched(o) ==
  /\ expires'[o] = expires[o] /\ valid'[o] = valid[o] /\ requests'[o] = requests[o]
  /\ failed'[o] = failed[o] /\ ontime'[o] = ontime[o]
  /\ firing' = o <=> firing = o
  /\ TimerGoesAlong(o)
  /\ UNCHANGED <<running, now>>

\* The refresh of an owner's token is sent.
Sends(o) ==
  /\ running /\ requests'[o] = Append(requests[o], now)
  /\ \/ o = App /\ UNCHANGED firing /\ timer'[o] = timer[o]
     \/ o = App /\ UNCHANGED firing /\ IsDue(App) /\ timer'[o] = None
     \/ firing = o /\ firing' = None /\ TimerGoesAlong(o)
  /\ UNCHANGED <<running, now, expires, valid, failed, ontime>>

\* Every step, seen from one owner of a token.
LEMMA StepOf ==
  ASSUME InductiveInvariant, [Next]_vars, NEW o \in Owners
  PROVE  \/ Untouched(o)
         \/ o \in Consumers /\ (CreateConsumer(o) \/ AddConsumer(o) \/ Fire(o))
         \/ \E i \in DOMAIN requests[o] : Answer(o, i) \/ AnswerFails(o, i)
         \/ Sends(o)
         \/ Start \/ Stop \/ Tick
<1> DEFINE Goal == \/ Untouched(o)
                   \/ o \in Consumers /\ (CreateConsumer(o) \/ AddConsumer(o) \/ Fire(o))
                   \/ \E i \in DOMAIN requests[o] : Answer(o, i) \/ AnswerFails(o, i)
                   \/ Sends(o)
                   \/ Start \/ Stop \/ Tick
<1> USE DEF InductiveInvariant, TypeOK, tokens, refs
<1>r. ASSUME Release PROVE TimerGoesAlong(o)
  BY <1>r DEF Release, TimerGoesAlong
<1>k. ASSUME timer'[o] = timer[o], Alive(o) => Alive(o)' PROVE TimerGoesAlong(o)
  BY <1>k DEF TimerGoesAlong
<1>1. ASSUME NEW d \in Consumers, CreateConsumer(d) PROVE Goal
  BY <1>1, <1>k DEF CreateConsumer, Untouched, Alive, Referred
<1>2. ASSUME NEW d \in Consumers, AddConsumer(d) PROVE Goal
  BY <1>2, <1>k DEF AddConsumer, Untouched, Alive, Referred, Owners
<1>3. CASE TrackConsumer
  BY <1>3, <1>r DEF TrackConsumer, Untouched
<1>4. CASE RemoveConsumer
  BY <1>4, <1>k DEF RemoveConsumer, Untouched, Alive, Referred
<1>5. ASSUME NEW d \in Consumers, Drop(d) PROVE Goal
  BY <1>5, <1>r DEF Drop, Untouched
<1>6. CASE RunDeferred
  BY <1>6, <1>r DEF RunDeferred, Untouched
<1>7. ASSUME NEW d \in Consumers, Fire(d) PROVE Goal
  <2>1. o # d => Untouched(o)  BY <1>7, <1>k DEF Fire, Untouched, Owners, Alive, Referred
  <2>2. QED  BY <1>7, <2>1
<1>8. CASE Fired
  <2>1. running  BY <1>8 DEF Fired, Stopped
  <2>2. o = firing => Sends(o)  BY <1>8, <1>r, <2>1 DEF Fired, Sends
  <2>3. o # firing => Untouched(o)  BY <1>8, <1>r DEF Fired, Untouched, Owners
  <2>4. QED  BY <2>2, <2>3
<1>9. CASE FireApp
  <2>1. o = App => Sends(o)  BY <1>9 DEF FireApp, Sends
  <2>2. o # App => Untouched(o)  BY <1>9, <1>k DEF FireApp, Untouched, Alive, Referred
  <2>3. QED  BY <2>1, <2>2
<1>10. CASE EnsureAppToken
  <2>1. o = App => Sends(o)  BY <1>10 DEF EnsureAppToken, Sends
  <2>2. o # App => Untouched(o)  BY <1>10, <1>k DEF EnsureAppToken, Untouched, Alive, Referred
  <2>3. QED  BY <2>1, <2>2
<1>11. ASSUME NEW p \in Owners, NEW i \in DOMAIN requests[p], Answer(p, i) PROVE Goal
  <2>1. o # p => Untouched(o)
    BY <1>11, <1>k DEF Answer, TakeToken, Answered, Untouched, Alive, Referred
  <2>2. QED  BY <1>11, <2>1
<1>12. ASSUME NEW p \in Owners, NEW i \in DOMAIN requests[p], AnswerFails(p, i) PROVE Goal
  <2>1. o # p => Untouched(o)
    BY <1>12, <1>k DEF AnswerFails, Answered, Untouched, Alive, Referred
  <2>2. QED  BY <1>12, <2>1
<1>13. CASE UNCHANGED vars
  BY <1>13, <1>k DEF vars, Untouched, Alive, Referred
<1>14. QED
  BY <1>1, <1>2, <1>3, <1>4, <1>5, <1>6, <1>7, <1>8, <1>9, <1>10, <1>11, <1>12, <1>13
     DEF Next

------------------------------------------------------------------------------
(* The inductive invariant, conjunct by conjunct.                             *)

LEMMA InitInvariant == Init => InductiveInvariant
<1> SUFFICES ASSUME Init PROVE InductiveInvariant
  OBVIOUS
<1> USE DEF Init
<1>1. TypeOK
  <2>1. requests \in [Owners -> Seq(Nat)]  OBVIOUS
  <2>2. timer \in [Owners -> Nat \cup {None}]  OBVIOUS
  <2>3. QED  BY <2>1, <2>2 DEF TypeOK
<1>2. TimersAlive /\ Stopped /\ AlmostValid /\ InTime /\ Scheduled
  BY DEF TimersAlive, Stopped, AlmostValid, InTime, Scheduled, Owners
<1>3. RequestsFresh  BY DEF RequestsFresh
<1>4. QED  BY <1>1, <1>2, <1>3 DEF InductiveInvariant

LEMMA TimersAliveStep == InductiveInvariant /\ [Next]_vars => TimersAlive'
<1> SUFFICES ASSUME InductiveInvariant, [Next]_vars, NEW c \in Consumers
             PROVE  (timer[c] # None => Alive(c))' /\ (ontime[c] => c \in created)'
  BY DEF TimersAlive
<1> DEFINE Goal == (timer[c] # None => Alive(c))' /\ (ontime[c] => c \in created)'
<1> USE DEF InductiveInvariant
<1>0. c \in Owners /\ c # App /\ TypeOK'  BY TypeStep DEF Owners
<1>1. /\ timer[c] # None => Alive(c) /\ c \in created
      /\ ontime[c] => c \in created
  BY DEF TimersAlive, TypeOK, Alive, Referred
<1>2. CASE Untouched(c)
  BY <1>1, <1>2, AliveStep DEF Untouched, TimerGoesAlong
<1>3. CASE CreateConsumer(c)
  BY <1>1, <1>3 DEF CreateConsumer, refs, TypeOK, Alive, Referred
<1>4. CASE AddConsumer(c)
  BY <1>0, <1>4 DEF AddConsumer, refs, TypeOK, Alive, Referred
<1>5. CASE Fire(c)
  BY <1>0, <1>1, <1>5 DEF Fire, refs, TypeOK
<1>6. ASSUME NEW i \in DOMAIN requests[c], Answer(c, i) PROVE Goal
  <2>1. CASE Alive(c)
    BY <1>0, <1>1, <1>6, <2>1 DEF Answer, TakeToken, TypeOK, Alive, Referred, refs
  <2>2. CASE ~Alive(c)
    BY <1>1, <1>6, <2>2 DEF Answer, refs
  <2>3. QED  BY <2>1, <2>2
<1>7. ASSUME NEW i \in DOMAIN requests[c], AnswerFails(c, i) PROVE Goal
  BY <1>1, <1>7 DEF AnswerFails, TypeOK, Alive, Referred, refs
<1>8. CASE Sends(c)
  BY <1>0, <1>1, <1>8, AliveStep DEF Sends, TimerGoesAlong
<1>9. CASE Start
  BY <1>1, <1>9 DEF Start, Alive, Referred, refs
<1>10. CASE Stop
  BY <1>0, <1>1, <1>10 DEF Stop
<1>11. CASE Tick
  BY <1>1, <1>11 DEF Tick, Alive, Referred, refs, tokens
<1>12. QED
  BY <1>0, <1>2, <1>3, <1>4, <1>5, <1>6, <1>7, <1>8, <1>9, <1>10, <1>11, StepOf

LEMMA StoppedStep == InductiveInvariant /\ [Next]_vars => Stopped'
<1> SUFFICES ASSUME InductiveInvariant, [Next]_vars, ~running'
             PROVE  firing' = None /\ \A o \in Owners : requests'[o] = <<>> /\ ~ontime'[o]
  BY DEF Stopped
<1> USE DEF InductiveInvariant, TypeOK
<1>1. CASE Stop
  BY <1>1 DEF Stop
<1>2. CASE ~running
  <2>1. firing = None /\ \A o \in Owners : DOMAIN requests[o] = {} /\ requests[o] = <<>> /\ ~ontime[o]
    BY <1>2 DEF Stopped
  <2>2. ASSUME NEW o \in Owners PROVE requests'[o] = <<>> /\ ~ontime'[o]
    <3>1. CASE Untouched(o)  BY <2>1, <3>1 DEF Untouched
    <3>2. CASE CreateConsumer(o) \/ Fire(o)
      BY <2>1, <3>2 DEF CreateConsumer, Fire
    <3>3. CASE AddConsumer(o)
      BY <1>2, <2>1, <3>3 DEF AddConsumer
    <3>4. CASE Stop \/ Tick
      BY <1>2, <2>1, <3>4 DEF Stop, Tick, tokens
    <3>5. QED  BY <1>2, <2>1, <3>1, <3>2, <3>3, <3>4, StepOf DEF Sends, Start
  <2>3. firing' = None
    <3>1. ~\E c \in Consumers : Fire(c)  BY <1>2 DEF Fire
    <3>2. ~\E o \in Owners : \E i \in DOMAIN requests[o] : Answer(o, i) \/ AnswerFails(o, i)
      BY <2>1
    <3>3. QED
      BY <1>2, <2>1, <3>1, <3>2
         DEF Next, vars, CreateConsumer, AddConsumer, TrackConsumer, RemoveConsumer, Drop,
             RunDeferred, Fired, FireApp, EnsureAppToken, Start, Stop, Tick
  <2>4. QED  BY <2>2, <2>3
<1>3. CASE running /\ ~Stop
  BY <1>3
     DEF Next, vars, CreateConsumer, AddConsumer, TrackConsumer, RemoveConsumer, Drop,
         RunDeferred, Fire, Fired, FireApp, EnsureAppToken, Answer, AnswerFails, Start, Tick
<1>4. QED  BY <1>1, <1>2, <1>3

LEMMA RequestsFreshStep == InductiveInvariant /\ [Next]_vars => RequestsFresh'
<1> SUFFICES ASSUME InductiveInvariant, [Next]_vars, NEW o \in Owners, NEW j \in DOMAIN requests'[o]
             PROVE  requests'[o][j] <= now' /\ now' <= requests'[o][j] + Latency
  BY DEF RequestsFresh
<1> DEFINE Goal == requests'[o][j] <= now' /\ now' <= requests'[o][j] + Latency
<1> USE DEF InductiveInvariant, TypeOK
<1>1. \A k \in DOMAIN requests[o] :
        requests[o][k] \in Nat /\ requests[o][k] <= now /\ now <= requests[o][k] + Latency
  BY DEF RequestsFresh
<1>2. CASE requests'[o] = requests[o] /\ now' = now
  BY <1>1, <1>2
<1>3. CASE requests'[o] = Append(requests[o], now) /\ now' = now
  <2>1. \A k \in DOMAIN requests[o] : Append(requests[o], now)[k] = requests[o][k]
    BY AppendKeeps
  <2>2. requests'[o][j] = now \/ j \in DOMAIN requests[o]
    BY <1>3, AppendKeeps
  <2>3. QED  BY <1>1, <1>3, <2>1, <2>2
<1>4. ASSUME NEW i \in DOMAIN requests[o], Answered(o, i), now' = now PROVE Goal
  <2>1. requests'[o] = RemoveAt(requests[o], i)  BY <1>4 DEF Answered
  <2>2. PICK k \in DOMAIN requests[o] : requests'[o][j] = requests[o][k]
    BY <2>1, RemoveAtKeeps
  <2>3. QED  BY <1>1, <1>4, <2>2
<1>5. CASE Stop
  BY <1>5 DEF Stop
<1>6. CASE Tick
  <2>1. \A k \in DOMAIN requests[o] : now - requests[o][k] < Latency
    BY <1>6 DEF Tick
  <2>2. requests'[o] = requests[o] /\ now' = now + 1  BY <1>6 DEF Tick, tokens
  <2>3. QED  BY <1>1, <2>1, <2>2
<1>7. QED
  BY <1>2, <1>3, <1>4, <1>5, <1>6, StepOf
     DEF Untouched, CreateConsumer, AddConsumer, Fire, Answer, AnswerFails, Sends, Start

\* What the owner knows of a token after an answer, and after how long it was issued.
LEMMA TakeTokenTimes ==
  ASSUME InductiveInvariant, NEW o \in Owners, NEW i \in DOMAIN requests[o], TakeToken(o, i),
         expires'[o] # 0
  PROVE  \E l \in Lifetimes :
           /\ expires'[o] = now + l /\ valid'[o] \in Nat
           /\ now + l <= valid'[o] + Latency
           /\ timer'[o] = Due(o, now + l)
<1> USE DEF InductiveInvariant, TypeOK
<1>1. PICK issued \in requests[o][i]..now, l \in Lifetimes, known \in BOOLEAN :
        /\ valid' = [valid EXCEPT ![o] = issued + l]
        /\ expires' = [expires EXCEPT ![o] = IF known THEN now + l ELSE 0]
  BY DEF TakeToken
<1>2. requests[o][i] \in Nat /\ now <= requests[o][i] + Latency  BY DEF RequestsFresh
<1>3. issued \in Nat /\ now + l <= issued + l + Latency  BY <1>2
<1>4. valid'[o] = issued + l /\ expires'[o] = now + l  BY <1>1
<1>5. timer'[o] = Due(o, now + l)  BY <1>4 DEF TakeToken
<1>6. QED  BY <1>3, <1>4, <1>5

LEMMA AlmostValidStep == InductiveInvariant /\ [Next]_vars => AlmostValid'
<1> SUFFICES ASSUME InductiveInvariant, [Next]_vars, NEW o \in Owners, expires'[o] # 0
             PROVE  expires'[o] <= valid'[o] + Latency
  BY DEF AlmostValid
<1> USE DEF InductiveInvariant, TypeOK
<1>1. CASE expires'[o] = expires[o] /\ valid'[o] = valid[o]
  BY <1>1 DEF AlmostValid
<1>2. CASE o \in Consumers /\ CreateConsumer(o)
  <2>1. PICK l \in Lifetimes, known \in BOOLEAN :
          /\ valid' = [valid EXCEPT ![o] = now + l]
          /\ expires' = [expires EXCEPT ![o] = IF known THEN now + l ELSE 0]
    BY <1>2 DEF CreateConsumer
  <2>2. now + l \in Nat /\ valid'[o] = now + l /\ expires'[o] = now + l  BY <2>1
  <2>3. QED  BY <2>2
<1>3. ASSUME NEW i \in DOMAIN requests[o], Answer(o, i) PROVE expires'[o] <= valid'[o] + Latency
  <2>1. CASE TakeToken(o, i)  BY <2>1, TakeTokenTimes
  <2>2. QED  BY <1>1, <1>3, <2>1 DEF Answer
<1>4. CASE Stop
  BY <1>1, <1>4 DEF Stop
<1>5. QED
  BY <1>1, <1>2, <1>3, <1>4, StepOf
     DEF Untouched, AddConsumer, Fire, AnswerFails, Sends, Start, Tick, tokens

LEMMA ScheduledStep == InductiveInvariant /\ [Next]_vars => Scheduled'
<1> SUFFICES ASSUME InductiveInvariant, [Next]_vars, NEW o \in Refreshable \cup {App},
                    expires'[o] # 0, ~failed'[o], o \in {tracked', adding', App}
             PROVE  timer'[o] # None \/ firing' = o \/ requests'[o] # <<>>
  BY DEF Scheduled
<1> DEFINE Goal == timer'[o] # None \/ firing' = o \/ requests'[o] # <<>>
<1> USE DEF InductiveInvariant, TypeOK
<1>0. o \in Owners /\ TypeOK'  BY TypeStep DEF Owners
<1>a. Alive(o)'  BY DEF Alive, Referred
<1>b. o \in {tracked, adding, App} \/ (o \in Consumers /\ AddConsumer(o))
  <2>1. \/ UNCHANGED <<tracked, adding>> \/ TrackConsumer \/ RemoveConsumer \/ Stop
        \/ \E d \in Consumers : AddConsumer(d)
    BY DEF Next, vars, refs, CreateConsumer, Drop, RunDeferred, Fire, Fired, FireApp,
           EnsureAppToken, Answer, AnswerFails, Start, Tick
  <2>2. ASSUME NEW d \in Consumers, AddConsumer(d)
        PROVE  o \in {tracked, adding, App} \/ o = d
    BY <2>2 DEF AddConsumer, refs
  <2>3. QED
    BY <1>0, <2>1, <2>2 DEF TrackConsumer, RemoveConsumer, Stop, Owners
<1>c. expires[o] # 0 /\ ~failed[o] /\ o \in {tracked, adding, App} =>
        timer[o] # None \/ firing = o \/ requests[o] # <<>>
  BY DEF Scheduled
<1>1. CASE Untouched(o) /\ o \in {tracked, adding, App}
  BY <1>0, <1>a, <1>c, <1>1 DEF Untouched, TimerGoesAlong
<1>2. CASE o \in Consumers /\ CreateConsumer(o)
  BY <1>0, <1>b, <1>2 DEF CreateConsumer, refs
<1>3. CASE o \in Consumers /\ AddConsumer(o)
  <2>1. timer'[o] = Due(o, expires[o]) /\ expires[o] # 0  BY <1>0, <1>3 DEF AddConsumer
  <2>2. QED  BY <1>0, <2>1, DueTime
<1>4. CASE o \in Consumers /\ Fire(o)
  BY <1>4 DEF Fire
<1>5. ASSUME NEW i \in DOMAIN requests[o], Answer(o, i) PROVE Goal
  <2>1. Alive(o)
    BY <1>a, <1>5 DEF Answer, Alive, Referred, refs
  <2>2. TakeToken(o, i)  BY <1>5, <2>1 DEF Answer
  <2>3. PICK l \in Lifetimes : now + l # 0 /\ timer'[o] = Due(o, now + l)
    BY <1>0, <2>2, TakeTokenTimes
  <2>4. QED  BY <1>0, <2>3, DueTime
<1>6. ASSUME NEW i \in DOMAIN requests[o], AnswerFails(o, i) PROVE Goal
  BY <1>0, <1>6 DEF AnswerFails
<1>7. CASE Sends(o)
  BY <1>0, <1>7, AppendKeeps DEF Sends
<1>8. CASE Start /\ o \in {tracked, adding, App}
  <2>1. timer' = timer /\ firing' = firing /\ expires' = expires /\ failed' = failed
    BY <1>8 DEF Start
  <2>2. requests[o] # <<>> => requests'[o] # <<>>
    BY <1>0, <1>8, AppendKeeps DEF Start
  <2>3. QED  BY <1>c, <1>8, <2>1, <2>2
<1>9. CASE Stop /\ o \in {tracked, adding, App}
  <2>1. o \in Consumers  BY <1>0, <1>9 DEF Stop, Owners
  <2>2. /\ requests[o] = <<>> /\ ~failed[o] /\ expires'[o] = expires[o] /\ firing = None
        /\ timer'[o] = timer[o]
    BY <1>0, <1>a, <1>9, <2>1 DEF Stop
  <2>3. QED  BY <1>c, <1>9, <2>2
<1>10. CASE Tick /\ o \in {tracked, adding, App}
  BY <1>c, <1>10 DEF Tick, tokens
<1>11. QED
  BY <1>0, <1>b, <1>1, <1>2, <1>3, <1>4, <1>5, <1>6, <1>7, <1>8, <1>9, <1>10, StepOf DEF Owners

LEMMA InTimeStep == InductiveInvariant /\ [Next]_vars => InTime'
<1> DEFINE Covered(o) == \/ timer[o] # None /\ timer[o] + Latency <= valid[o]
                         \/ firing = o /\ now + Latency <= valid[o]
                         \/ \E i \in DOMAIN requests[o] : requests[o][i] + Latency <= valid[o]
           Ahead(o) == timer[o] # None => now <= timer[o]
<1> SUFFICES ASSUME InductiveInvariant, [Next]_vars, NEW o \in Refreshable \cup {App},
                    Alive(o)', expires'[o] # 0, ontime'[o]
             PROVE  Ahead(o)' /\ Covered(o)'
  BY DEF InTime
<1> USE DEF InductiveInvariant, TypeOK
<1>0. /\ o \in Owners /\ TypeOK'
      /\ o = App \/ o \in Consumers
      /\ Margin > 2 * Latency /\ Latency \in Nat /\ Margin \in Nat
  BY TypeStep, TimeAssumption DEF Owners
<1>1. ontime[o] => Alive(o)
  <2>1. ontime[o] => o = App \/ o \in created  BY <1>0 DEF TimersAlive
  <2>2. QED  BY <1>0, <2>1, AliveStep DEF Alive
<1>2. expires[o] # 0 /\ ontime[o] => Ahead(o) /\ Covered(o)
  BY <1>1 DEF InTime
<1>3. ontime[o] => running
  BY <1>0 DEF Stopped
<1>4. CASE Untouched(o)
  <2>1. timer'[o] = timer[o]  BY <1>4 DEF Untouched, TimerGoesAlong
  <2>2. QED  BY <1>2, <1>4, <2>1 DEF Untouched
<1>5. CASE o \in Consumers /\ CreateConsumer(o)
  BY <1>5 DEF CreateConsumer, TimersAlive
<1>6. CASE o \in Consumers /\ AddConsumer(o)
  <2>1. /\ timer'[o] = Due(o, expires[o]) /\ expires[o] # 0 /\ expires[o] - now >= Margin
        /\ valid' = valid /\ now' = now
    BY <1>0, <1>6 DEF AddConsumer
  <2>2. expires[o] <= valid[o] + Latency  BY <1>0, <2>1 DEF AlmostValid
  <2>3. /\ Due(o, expires[o]) \in Nat /\ Due(o, expires[o]) # None /\ now < Due(o, expires[o])
        /\ Due(o, expires[o]) = now + 1 \/ Due(o, expires[o]) = expires[o] - Margin
    BY <1>0, <2>1, DueTime
  <2>4. valid[o] \in Nat /\ expires[o] \in Nat  BY <1>0
  <2>5. Due(o, expires[o]) + Latency <= valid[o]  BY <1>0, <2>1, <2>2, <2>3, <2>4
  <2>6. QED  BY <2>1, <2>3, <2>5
<1>7. CASE o \in Consumers /\ Fire(o)
  <2>1. /\ firing = None /\ firing' = o /\ timer'[o] = None /\ timer[o] # None /\ timer[o] <= now
        /\ UNCHANGED <<now, expires, valid, requests, ontime>>
    BY <1>0, <1>7 DEF Fire, IsDue
  <2>2. timer[o] = now  BY <1>0, <1>2, <2>1
  <2>3. QED  BY <1>0, <1>2, <2>1, <2>2
<1>8. ASSUME NEW i \in DOMAIN requests[o], Answer(o, i) PROVE Ahead(o)' /\ Covered(o)'
  <2>1. TakeToken(o, i) /\ now' = now
    BY <1>0, <1>8 DEF Answer, Alive, Referred, refs
  <2>2. PICK l \in Lifetimes :
          /\ expires'[o] = now + l /\ valid'[o] \in Nat
          /\ now + l <= valid'[o] + Latency
          /\ timer'[o] = Due(o, now + l)
    BY <1>0, <2>1, TakeTokenTimes
  <2>3. l \in Nat /\ l > 2 * Latency /\ now + l \in Nat /\ now + l # 0
    BY <2>2, TimeAssumption
  <2>4. /\ Due(o, now + l) \in Nat /\ Due(o, now + l) # None /\ now < Due(o, now + l)
        /\ Due(o, now + l) = now + 1 \/ Due(o, now + l) = (now + l) - Margin
    BY <1>0, <2>3, DueTime
  <2>5. Due(o, now + l) + Latency <= valid'[o]
    <3>1. /\ Due(o, now + l) \in Nat /\ valid'[o] \in Nat /\ now \in Nat /\ l \in Nat
          /\ now + l <= valid'[o] + Latency /\ l > 2 * Latency
      BY <2>2, <2>3, <2>4
    <3>2. CASE Due(o, now + l) = now + 1  BY <1>0, <3>1, <3>2
    <3>3. CASE Due(o, now + l) = (now + l) - Margin  BY <1>0, <3>1, <3>3
    <3>4. QED  BY <2>4, <3>2, <3>3
  <2>6. QED  BY <2>1, <2>2, <2>4, <2>5
<1>9. ASSUME NEW i \in DOMAIN requests[o], AnswerFails(o, i) PROVE FALSE
  BY <1>0, <1>9 DEF AnswerFails
<1>10. CASE Sends(o)
  <2>1. /\ requests'[o] = Append(requests[o], now) /\ now \in Nat
        /\ UNCHANGED <<now, expires, valid, ontime>>
    BY <1>10 DEF Sends
  <2>2. /\ \E i \in DOMAIN requests'[o] : requests'[o][i] = now
        /\ \A i \in DOMAIN requests[o] : i \in DOMAIN requests'[o] /\ requests'[o][i] = requests[o][i]
    <3>1. requests[o] \in Seq(Nat)  BY <1>0
    <3> DEFINE r == Append(requests[o], now)
    <3>2. \E i \in DOMAIN r : r[i] = now
      <4>1. Len(requests[o]) + 1 \in DOMAIN r /\ r[Len(requests[o]) + 1] = now
        BY <2>1, <3>1
      <4>2. QED  BY <4>1
    <3>3. \A i \in DOMAIN requests[o] : i \in DOMAIN r /\ r[i] = requests[o][i]
      BY <2>1, <3>1, AppendKeeps
    <3> HIDE DEF r
    <3>4. requests'[o] = r  BY <2>1 DEF r
    <3>5. QED  BY <3>2, <3>3, <3>4
  <2>3. Ahead(o) /\ Covered(o)  BY <1>2, <2>1
  <2>4. now + Latency <= valid[o] => \E i \in DOMAIN requests'[o] : requests'[o][i] + Latency <= valid'[o]
    BY <2>1, <2>2
  <2>5. (\E i \in DOMAIN requests[o] : requests[o][i] + Latency <= valid[o]) =>
           \E i \in DOMAIN requests'[o] : requests'[o][i] + Latency <= valid'[o]
    BY <2>1, <2>2
  <2>6. CASE timer'[o] = timer[o]
    BY <2>1, <2>3, <2>4, <2>5, <2>6
  <2>7. CASE timer'[o] = None /\ IsDue(App) /\ o = App
    <3>1. timer[o] = now  BY <1>0, <2>3, <2>7 DEF IsDue
    <3>2. QED  BY <2>3, <2>4, <2>5, <2>7, <3>1
  <2>8. QED  BY <1>10, <2>6, <2>7 DEF Sends, TimerGoesAlong
<1>11. CASE Start
  BY <1>3, <1>11 DEF Start
<1>12. CASE Stop
  BY <1>0, <1>12 DEF Stop
<1>13. CASE Tick
  <2>1. running /\ firing = None /\ ~IsDue(o) /\ now' = now + 1 /\ UNCHANGED tokens
    BY <1>0, <1>3, <1>13 DEF Tick, tokens
  <2>2. Ahead(o) /\ Covered(o)  BY <1>2, <2>1 DEF tokens
  <2>3. timer[o] # None => now + 1 <= timer[o]  BY <1>0, <2>1, <2>2 DEF IsDue
  <2>4. QED  BY <1>0, <2>1, <2>2, <2>3 DEF tokens
<1>14. QED
  BY <1>0, <1>4, <1>5, <1>6, <1>7, <1>8, <1>9, <1>10, <1>11, <1>12, <1>13, StepOf

------------------------------------------------------------------------------
(* The theorems.                                                              *)

\* What the properties rest on: who refreshes each token, and that it is in time.
THEOREM InductiveInvariantHolds == Spec => []InductiveInvariant
<1>1. InductiveInvariant /\ [Next]_vars => InductiveInvariant'
  BY TypeStep, TimersAliveStep, StoppedStep, RequestsFreshStep, AlmostValidStep, InTimeStep,
     ScheduledStep DEF InductiveInvariant
<1>2. QED  BY InitInvariant, <1>1, PTL DEF Spec

\* A token is rotated, and in time, until a refresh fails: schedule_token_rotation(), add_consumer()
\* and answers in any order leave a timer, a callback or a request that is early enough.
THEOREM TokensKeptHolds == Spec => []TokensKept
<1>1. InductiveInvariant => TokensKept
  <2> SUFFICES ASSUME InductiveInvariant PROVE TokensKept
    OBVIOUS
  <2> USE DEF InductiveInvariant
  <2>1. NeverStranded  BY DEF NeverStranded, Scheduled
  <2>2. ASSUME NEW o \in Refreshable \cup {App}, Alive(o), expires[o] # 0, ontime[o]
        PROVE  now <= valid[o]
    <3>1. o \in Owners /\ Latency \in Nat  BY DEF Owners
    <3>2. /\ timer[o] \in Nat \cup {None} /\ valid[o] \in Nat /\ now \in Nat
          /\ \A i \in DOMAIN requests[o] :
               requests[o][i] \in Nat /\ now <= requests[o][i] + Latency
      BY <3>1 DEF TypeOK, RequestsFresh
    <3>3. QED  BY <2>2, <3>1, <3>2 DEF InTime
  <2>3. QED  BY <2>1, <2>2 DEF TokensKept, TokenStaysValid
<1>2. QED  BY <1>1, InductiveInvariantHolds, PTL

\* An answer, a timer or stop() never touches a consumer that is gone.
THEOREM GoneIsUntouchedHolds == Spec => GoneIsUntouched
<1>1. InductiveInvariant /\ [Next]_vars =>
        [\A c \in Consumers : ~Alive(c) /\ c \in created =>
           /\ timer'[c] = None
           /\ <<expires[c], valid[c]>>' = <<expires[c], valid[c]>>]_vars
  <2> SUFFICES ASSUME InductiveInvariant, [Next]_vars, NEW c \in Consumers, ~Alive(c), c \in created
               PROVE  timer'[c] = None /\ expires'[c] = expires[c] /\ valid'[c] = valid[c]
    OBVIOUS
  <2>1. c \in Owners /\ c # App /\ timer[c] = None /\ c \notin held /\ firing # c
    BY DEF InductiveInvariant, TimersAlive, Owners, Alive, Referred
  <2>2. timer'[c] = None
    <3>1. ~Alive(c)'  BY AliveStep
    <3>2. QED  BY <2>1, <3>1, TypeStep, TimersAliveStep DEF TimersAlive
  <2>3. expires'[c] = expires[c] /\ valid'[c] = valid[c]
    <3>1. ~CreateConsumer(c) /\ ~AddConsumer(c)
      BY <2>1 DEF CreateConsumer, AddConsumer, InductiveInvariant, TypeOK
    <3>2. CASE Stop
      BY <2>1, <3>2 DEF Stop, InductiveInvariant, TypeOK
    <3>3. ASSUME NEW i \in DOMAIN requests[c], Answer(c, i)
          PROVE  expires' = expires /\ valid' = valid
      BY <3>3 DEF Answer
    <3>4. QED
      BY <2>1, <3>1, <3>2, <3>3, StepOf DEF Untouched, Fire, AnswerFails, Sends, Start, Tick, tokens
  <2>4. QED  BY <2>2, <2>3
<1>2. QED  BY <1>1, InductiveInvariantHolds, PTL DEF Spec, GoneIsUntouched

\* While the callback of its timer runs, remove_consumer() and stop() do not destroy a consumer.
THEOREM TimerOutlivesCallbackHolds == Spec => TimerOutlivesCallback
<1>1. InductiveInvariant /\ [Next]_vars =>
        [firing # None /\ firing' = firing /\ Referred(firing) =>
           Referred(firing)' \/ held' # held \/ adding' # adding]_vars
  <2> SUFFICES ASSUME InductiveInvariant, [Next]_vars, firing # None, firing' = firing,
                      Referred(firing), held' = held, adding' = adding
               PROVE  Referred(firing)'
    OBVIOUS
  <2> USE DEF InductiveInvariant, TypeOK, Referred
  <2>1. CASE UNCHANGED refs
    BY <2>1 DEF refs
  <2>2. CASE RemoveConsumer
    BY <2>2 DEF RemoveConsumer
  <2>3. QED
    BY <2>1, <2>2
       DEF Next, vars, refs, CreateConsumer, AddConsumer, TrackConsumer, Drop, RunDeferred, Fire,
           Fired, FireApp, EnsureAppToken, Answer, AnswerFails, Start, Stop, Tick
<1>2. QED  BY <1>1, InductiveInvariantHolds, PTL DEF Spec, TimerOutlivesCallback
==============================================================================
