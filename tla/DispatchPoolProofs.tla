------------------------- MODULE DispatchPoolProofs --------------------------
(* Proofs about DispatchPool, for any number of dispatch threads, application *)
(* threads, work items and starts.                                            *)
EXTENDS DispatchPool, FiniteSetTheorems, TLAPS

------------------------------------------------------------------------------
(* Lemmas on sequences.                                                       *)

\* Appending adds one element to the range of a sequence.
LEMMA RangeAppend ==
  ASSUME NEW S, NEW s \in Seq(S), NEW x \in S
  PROVE  Range(Append(s, x)) = Range(s) \cup {x}
<1>1. /\ Append(s, x) \in Seq(S)
      /\ DOMAIN Append(s, x) = 1..(Len(s) + 1)
      /\ DOMAIN s = 1..Len(s)
      /\ \A i \in 1..Len(s) : Append(s, x)[i] = s[i]
      /\ Append(s, x)[Len(s) + 1] = x
      /\ Len(s) \in Nat
  OBVIOUS
<1>2. ASSUME NEW y \in Range(Append(s, x)) PROVE y \in Range(s) \cup {x}
  BY <1>1 DEF Range
<1>3. ASSUME NEW y \in Range(s) \cup {x} PROVE y \in Range(Append(s, x))
  <2>1. CASE y = x
    <3>1. Len(s) + 1 \in DOMAIN Append(s, x)  BY <1>1
    <3>2. QED  BY <1>1, <2>1, <3>1 DEF Range
  <2>2. CASE y \in Range(s)
    <3>1. PICK i \in 1..Len(s) : y = s[i]  BY <1>1, <2>2 DEF Range
    <3>2. i \in DOMAIN Append(s, x) /\ Append(s, x)[i] = y  BY <1>1, <3>1
    <3>3. QED  BY <3>2 DEF Range
  <2>3. QED  BY <2>1, <2>2
<1>4. QED  BY <1>2, <1>3

\* A non-empty sequence consists of its head and its tail.
LEMMA RangeHeadTail ==
  ASSUME NEW S, NEW s \in Seq(S), s # <<>>
  PROVE  /\ Head(s) \in S
         /\ Tail(s) \in Seq(S)
         /\ Len(Tail(s)) = Len(s) - 1
         /\ Range(s) = {Head(s)} \cup Range(Tail(s))
<1>1. /\ Len(s) \in Nat \ {0}
      /\ DOMAIN s = 1..Len(s)
      /\ Head(s) = s[1]
      /\ Tail(s) \in Seq(S)
      /\ Len(Tail(s)) = Len(s) - 1
      /\ DOMAIN Tail(s) = 1..(Len(s) - 1)
      /\ \A i \in 1..(Len(s) - 1) : Tail(s)[i] = s[i + 1]
  OBVIOUS
<1>2. Head(s) \in S  BY <1>1
<1>3. ASSUME NEW y \in Range(s) PROVE y \in {Head(s)} \cup Range(Tail(s))
  <2>1. PICK i \in 1..Len(s) : y = s[i]  BY <1>1 DEF Range
  <2>2. CASE i = 1  BY <1>1, <2>1, <2>2
  <2>3. CASE i # 1
    <3>1. (i - 1) \in DOMAIN Tail(s) /\ Tail(s)[i - 1] = y
      BY <1>1, <2>1, <2>3
    <3>2. QED  BY <3>1 DEF Range
  <2>4. QED  BY <2>2, <2>3
<1>4. ASSUME NEW y \in {Head(s)} \cup Range(Tail(s)) PROVE y \in Range(s)
  <2>1. CASE y = Head(s)
    <3>1. 1 \in DOMAIN s  BY <1>1
    <3>2. QED  BY <1>1, <2>1, <3>1 DEF Range
  <2>2. CASE y \in Range(Tail(s))
    <3>1. PICK i \in 1..(Len(s) - 1) : y = Tail(s)[i]  BY <1>1, <2>2 DEF Range
    <3>2. i + 1 \in DOMAIN s /\ s[i + 1] = y  BY <1>1, <3>1
    <3>3. QED  BY <3>2 DEF Range
  <2>3. QED  BY <2>1, <2>2
<1>5. QED  BY <1>1, <1>2, <1>3, <1>4

\* Moving the head of one sequence to the end of another does not change
\* their concatenation.
LEMMA MoveHead ==
  ASSUME NEW S, NEW s \in Seq(S), NEW t \in Seq(S), t # <<>>
  PROVE  Append(s, Head(t)) \o Tail(t) = s \o t
OBVIOUS

\* Appending to the second of two sequences appends to their concatenation.
LEMMA AppendConcat ==
  ASSUME NEW S, NEW s \in Seq(S), NEW t \in Seq(S), NEW x \in S
  PROVE  s \o Append(t, x) = Append(s \o t, x)
OBVIOUS

\* A concatenation holds the elements of both sequences.
LEMMA RangeConcat ==
  ASSUME NEW S, NEW s \in Seq(S), NEW t \in Seq(S)
  PROVE  Range(s \o t) = Range(s) \cup Range(t)
<1>1. /\ s \o t \in Seq(S)
      /\ Len(s) \in Nat /\ Len(t) \in Nat
      /\ DOMAIN s = 1..Len(s)
      /\ DOMAIN t = 1..Len(t)
      /\ DOMAIN (s \o t) = 1..(Len(s) + Len(t))
      /\ \A i \in 1..Len(s) : (s \o t)[i] = s[i]
      /\ \A i \in 1..Len(t) : (s \o t)[Len(s) + i] = t[i]
  OBVIOUS
<1>2. ASSUME NEW y \in Range(s \o t) PROVE y \in Range(s) \cup Range(t)
  <2>1. PICK i \in 1..(Len(s) + Len(t)) : y = (s \o t)[i]  BY <1>1 DEF Range
  <2>2. CASE i <= Len(s)  BY <1>1, <2>1, <2>2 DEF Range
  <2>3. CASE i > Len(s)
    <3>1. (i - Len(s)) \in DOMAIN t /\ t[i - Len(s)] = y
      BY <1>1, <2>1, <2>3
    <3>2. QED  BY <3>1 DEF Range
  <2>4. QED  BY <1>1, <2>1, <2>2, <2>3
<1>3. ASSUME NEW y \in Range(s) PROVE y \in Range(s \o t)
  <2>1. PICK i \in 1..Len(s) : y = s[i]  BY <1>1 DEF Range
  <2>2. i \in DOMAIN (s \o t) /\ (s \o t)[i] = y  BY <1>1, <2>1
  <2>3. QED  BY <2>2 DEF Range
<1>4. ASSUME NEW y \in Range(t) PROVE y \in Range(s \o t)
  <2>1. PICK i \in 1..Len(t) : y = t[i]  BY <1>1 DEF Range
  <2>2. Len(s) + i \in DOMAIN (s \o t) /\ (s \o t)[Len(s) + i] = y
    BY <1>1, <2>1
  <2>3. QED  BY <2>2 DEF Range
<1>5. QED  BY <1>2, <1>3, <1>4

------------------------------------------------------------------------------
(* Each part of the inductive invariant is preserved by every step.           *)

\* Types, and a thread holds an item exactly while it is inside the hook.
LEMMA TypeStep ==
  ASSUME TypeOK, HeldInHook, [Next]_vars
  PROVE  TypeOK' /\ HeldInHook'
<1> DEFINE Good == TypeOK' /\ HeldInHook'
<1> USE ThreadsAssumption, NoneAssumption, MaxStartsAssumption
    DEF TypeOK, HeldInHook, Threads, Producers,
        WorkerStates, ProducerStates, ControlStates
<1>1. ASSUME NEW t \in Threads, NEW x \in Work, Push(t, x) PROVE Good
  <2>1. queue' \in Seq(Work) /\ order' \in Seq(Work)  BY <1>1 DEF Push
  <2>2. pc' \in [Threads -> WorkerStates \cup ProducerStates]  BY <1>1 DEF Push
  <2>3. \A w \in Workers : pc'[w] \in WorkerStates  BY <1>1 DEF Push
  <2>4. \A p \in Producers : pc'[p] \in ProducerStates  BY <1>1 DEF Push
  <2>5. owed' \subseteq Work  BY <1>1 DEF Push
  <2>6. HeldInHook'  BY <1>1 DEF Push, MayEnqueue
  <2>7. QED  BY <1>1, <2>1, <2>2, <2>3, <2>4, <2>5, <2>6 DEF Push
<1>2. ASSUME NEW t \in Threads, NotifyOne(t) PROVE Good
  <2>1. CASE pc' = [pc EXCEPT ![t] = AfterNotify(t)]
    BY <1>2, <2>1 DEF NotifyOne, AfterNotify, history
  <2>2. CASE \E w \in Waiting : pc' = [pc EXCEPT ![t] = AfterNotify(t), ![w] = "check"]
    BY <1>2, <2>2 DEF NotifyOne, Waiting, AfterNotify, history
  <2>3. QED  BY <1>2, <2>1, <2>2 DEF NotifyOne
<1>3. ASSUME NEW w \in Workers, Take(w) PROVE Good
  <2>1. Head(queue) \in Work /\ Tail(queue) \in Seq(Work)
    BY <1>3, RangeHeadTail DEF Take
  <2>2. taken' \in Seq(Work)  BY <1>3, <2>1 DEF Take
  <2>3. QED  BY <1>3, <2>1, <2>2 DEF Take
<1>4. ASSUME NEW w \in Workers, Wait(w) \/ Exit(w) \/ SpuriousWake(w) PROVE Good
  BY <1>4 DEF Wait, Exit, SpuriousWake, history
<1>5. ASSUME NEW w \in Workers, Finish(w) PROVE Good
  BY <1>5 DEF Finish
<1>6. ASSUME NEW w \in Workers, Spawn(w) \/ Join(w) PROVE Good
  BY <1>6 DEF Spawn, Join, history
<1>7. CASE Start \/ NotifyAll \/ Stopped
  <2>1. CASE Start  BY <2>1 DEF Start, history
  <2>2. CASE NotifyAll  BY <2>2 DEF NotifyAll, history
  <2>3. CASE Stopped  BY <2>3 DEF Stopped, history
  <2>4. QED  BY <1>7, <2>1, <2>2, <2>3
<1>8. CASE SetStop
  <2>1. Range(order) \subseteq Work
    <3>1. \A i \in DOMAIN order : order[i] \in Work  OBVIOUS
    <3>2. QED  BY <3>1 DEF Range
  <2>2. owed' \subseteq Work  BY <1>8, <2>1 DEF SetStop
  <2>3. QED  BY <1>8, <2>2 DEF SetStop
<1>9. CASE UNCHANGED vars
  BY <1>9 DEF vars
<1>10. QED
  BY <1>1, <1>2, <1>3, <1>4, <1>5, <1>6, <1>7, <1>8, <1>9 DEF Next

\* dispatch_stop_ and the threads follow start() and stop(), and no thread
\* sleeps while stop() joins.
LEMMA ControlStep ==
  ASSUME TypeOK, ControlOK, NoSleeperAtJoin, [Next]_vars
  PROVE  ControlOK' /\ NoSleeperAtJoin'
<1> DEFINE Good == ControlOK' /\ NoSleeperAtJoin'
<1> USE ThreadsAssumption DEF TypeOK, ControlOK, NoSleeperAtJoin, Waiting, Threads, Producers
<1>1. ASSUME NEW t \in Threads, NEW x \in Work, Push(t, x) PROVE Good
  BY <1>1 DEF Push, MayEnqueue
<1>2. ASSUME NEW t \in Threads, NotifyOne(t) PROVE Good
  <2>1. CASE pc' = [pc EXCEPT ![t] = AfterNotify(t)]
    BY <1>2, <2>1 DEF NotifyOne, AfterNotify, history
  <2>2. CASE \E w \in Waiting : pc' = [pc EXCEPT ![t] = AfterNotify(t), ![w] = "check"]
    BY <1>2, <2>2 DEF NotifyOne, AfterNotify, history
  <2>3. QED  BY <1>2, <2>1, <2>2 DEF NotifyOne
<1>3. ASSUME NEW w \in Workers, Take(w) PROVE Good
  BY <1>3 DEF Take
<1>4. ASSUME NEW w \in Workers, Wait(w) PROVE Good
  BY <1>4 DEF Wait, history
<1>5. ASSUME NEW w \in Workers, Exit(w) \/ SpuriousWake(w) PROVE Good
  BY <1>5 DEF Exit, SpuriousWake, history
<1>6. ASSUME NEW w \in Workers, Finish(w) PROVE Good
  BY <1>6 DEF Finish
<1>7. ASSUME NEW w \in Workers, Spawn(w) PROVE Good
  BY <1>7 DEF Spawn, history
<1>8. ASSUME NEW w \in Workers, Join(w) PROVE Good
  BY <1>8 DEF Join, history
<1>9. CASE Start  BY <1>9 DEF Start, history
<1>10. CASE SetStop
  <2>1. stop' = TRUE /\ ctl' = "flagged" /\ pc' = pc  BY <1>10 DEF SetStop
  <2>2. \A w \in Workers : pc[w] # "none"  BY <1>10 DEF SetStop
  <2>3. QED  BY <2>1, <2>2
<1>11. CASE NotifyAll  BY <1>11 DEF NotifyAll, history
<1>12. CASE Stopped
  <2>1. stop' = FALSE /\ ctl' = "down" /\ pc' = pc  BY <1>12 DEF Stopped
  <2>2. \A w \in Workers : pc'[w] = "none"  BY <1>12, <2>1 DEF Stopped
  <2>3. ~(ctl' \in {"flagged", "joining"}) /\ ctl' \notin {"up", "flagged"}
    BY <2>1
  <2>4. stop' <=> ctl' \in {"flagged", "joining"}  BY <2>1, <2>3
  <2>5. ControlOK'  BY <2>2, <2>3, <2>4 DEF ControlOK
  <2>6. NoSleeperAtJoin'  BY <2>1 DEF NoSleeperAtJoin
  <2>7. QED  BY <2>5, <2>6
<1>13. CASE UNCHANGED vars  BY <1>13 DEF vars
<1>14. QED
  BY <1>1, <1>2, <1>3, <1>4, <1>5, <1>6, <1>7, <1>8, <1>9, <1>10, <1>11,
     <1>12, <1>13 DEF Next

\* FirstInFirstOut: only Push and Take touch the queue.
LEMMA FifoStep ==
  ASSUME TypeOK, FirstInFirstOut, [Next]_vars
  PROVE  FirstInFirstOut'
<1> USE DEF TypeOK, FirstInFirstOut
<1>1. ASSUME NEW t \in Threads, NEW x \in Work, Push(t, x) PROVE FirstInFirstOut'
  <2>1. /\ order' = Append(order, x) /\ queue' = Append(queue, x)
        /\ taken' = taken
    BY <1>1 DEF Push
  <2>2. taken \o Append(queue, x) = Append(taken \o queue, x)
    BY AppendConcat
  <2>3. QED  BY <2>1, <2>2
<1>2. ASSUME NEW w \in Workers, Take(w) PROVE FirstInFirstOut'
  <2>1. /\ order' = order /\ queue # <<>>
        /\ taken' = Append(taken, Head(queue)) /\ queue' = Tail(queue)
    BY <1>2 DEF Take
  <2>2. Append(taken, Head(queue)) \o Tail(queue) = taken \o queue
    BY <2>1, MoveHead
  <2>3. QED  BY <2>1, <2>2
<1>3. ASSUME UNCHANGED <<queue, order, taken>> PROVE FirstInFirstOut'
  BY <1>3
<1>4. QED
  BY <1>1, <1>2, <1>3
  DEF Next, NotifyOne, Wait, Exit, Finish, SpuriousWake, Spawn, Join, Start,
      SetStop, NotifyAll, Stopped, history, vars

\* Accounted: an item goes from the queue into a thread and from there to done.
LEMMA AccountedStep ==
  ASSUME TypeOK, HeldInHook, Accounted, [Next]_vars
  PROVE  Accounted'
<1> USE NoneAssumption DEF TypeOK, HeldInHook, Accounted, Running
<1>1. ASSUME NEW w \in Workers, Take(w) PROVE Accounted'
  <2>1. Head(queue) \in Work  BY <1>1, RangeHeadTail DEF Take
  <2>2. Range(taken') = Range(taken) \cup {Head(queue)}
    BY <1>1, <2>1, RangeAppend DEF Take
  <2>3. held[w] = None  BY <1>1 DEF Take
  <2>4. Running' = Running \cup {Head(queue)}
    BY <1>1, <2>1, <2>3 DEF Take
  <2>5. done' = done  BY <1>1 DEF Take
  <2>6. QED  BY <2>2, <2>4, <2>5 DEF Accounted
<1>2. ASSUME NEW w \in Workers, Finish(w) PROVE Accounted'
  <2>1. held[w] \in Work  BY <1>2 DEF Finish
  <2>2. Running \subseteq Running' \cup {held[w]} /\ Running' \subseteq Running
    BY <1>2 DEF Finish
  <2>3. held[w] \in Running  BY <2>1
  <2>4. done' = done \cup {held[w]} /\ taken' = taken  BY <1>2 DEF Finish
  <2>5. QED  BY <2>2, <2>3, <2>4 DEF Accounted
<1>3. ASSUME UNCHANGED <<taken, done, held>> PROVE Accounted'
  BY <1>3
<1>4. QED
  BY <1>1, <1>2, <1>3
  DEF Next, Push, NotifyOne, Wait, Exit, SpuriousWake, Spawn, Join, Start,
      SetStop, NotifyAll, Stopped, history, vars

\* AtMostOnce: the item a thread takes was never handed out before.
LEMMA AtMostOnceStep ==
  ASSUME TypeOK, HeldInHook, FirstInFirstOut, Accounted, AtMostOnce, [Next]_vars
  PROVE  AtMostOnce'
<1> USE NoneAssumption DEF TypeOK, HeldInHook, AtMostOnce, Running
<1>1. ASSUME NEW t \in Threads, NEW x \in Work, Push(t, x) PROVE AtMostOnce'
  <2>1. order' = Append(order, x) /\ x \notin Range(order)
    BY <1>1 DEF Push
  <2>2. /\ DOMAIN order = 1..Len(order)
        /\ DOMAIN order' = 1..(Len(order) + 1)
        /\ \A i \in 1..Len(order) : order'[i] = order[i]
        /\ order'[Len(order) + 1] = x
        /\ Len(order) \in Nat
    BY <2>1
  <2>3. \A i \in 1..Len(order) : order[i] # x  BY <2>1, <2>2 DEF Range
  <2>4. \A i, j \in DOMAIN order' : order'[i] = order'[j] => i = j
    BY <2>2, <2>3
  <2>5. held' = held /\ done' = done  BY <1>1 DEF Push
  <2>6. QED  BY <2>4, <2>5
<1>2. ASSUME NEW w \in Workers, Take(w) PROVE AtMostOnce'
  <2>1. /\ queue # <<>> /\ Head(queue) \in Work /\ held[w] = None
        /\ held' = [held EXCEPT ![w] = Head(queue)]
        /\ order' = order /\ done' = done
    BY <1>2, RangeHeadTail DEF Take
  <2>2. Head(queue) \notin Range(taken)
    <3>1. /\ DOMAIN order = 1..(Len(taken) + Len(queue))
          /\ Len(taken) \in Nat /\ Len(queue) \in Nat \ {0}
          /\ DOMAIN taken = 1..Len(taken)
          /\ \A i \in 1..Len(taken) : order[i] = taken[i]
          /\ order[Len(taken) + 1] = Head(queue)
      BY <2>1 DEF FirstInFirstOut
    <3>2. ASSUME NEW i \in 1..Len(taken) PROVE taken[i] # Head(queue)
      <4>1. i \in DOMAIN order /\ Len(taken) + 1 \in DOMAIN order /\ i # Len(taken) + 1
        BY <3>1
      <4>2. order[i] # order[Len(taken) + 1]  BY <4>1 DEF AtMostOnce
      <4>3. QED  BY <3>1, <4>2
    <3>3. QED  BY <3>1, <3>2 DEF Range
  <2>3. Head(queue) \notin done /\ Head(queue) \notin Running
    BY <2>2 DEF Accounted
  <2>4. \A v \in Workers : held[v] # Head(queue)  BY <2>1, <2>3
  <2>5. Running' = Running \cup {Head(queue)}
    BY <2>1
  <2>6. Running' \cap done' = {}  BY <2>1, <2>3, <2>5
  <2>7. \A u, v \in Workers : held'[u] = held'[v] /\ u # v => held'[u] = None
    BY <2>1, <2>4
  <2>8. QED  BY <2>1, <2>6, <2>7
<1>3. ASSUME NEW w \in Workers, Finish(w) PROVE AtMostOnce'
  <2>1. /\ held[w] \in Work /\ held' = [held EXCEPT ![w] = None]
        /\ done' = done \cup {held[w]} /\ order' = order
    BY <1>3 DEF Finish
  <2>2. Running' \subseteq Running \ {held[w]}  BY <2>1
  <2>3. QED  BY <2>1, <2>2
<1>4. ASSUME UNCHANGED <<order, held, done>> PROVE AtMostOnce'
  BY <1>4
<1>5. QED
  BY <1>1, <1>2, <1>3, <1>4
  DEF Next, NotifyOne, Wait, Exit, SpuriousWake, Spawn, Join, Start,
      SetStop, NotifyAll, Stopped, history, vars

\* OwedIsWatched and DrainedWhenDown: an owed item leaves the queue only into
\* a thread, and the last thread leaves only when the queue is empty.
LEMMA OwedStep ==
  ASSUME TypeOK, HeldInHook, ControlOK, FirstInFirstOut, Accounted,
         OwedIsWatched, DrainedWhenDown, [Next]_vars
  PROVE  OwedIsWatched' /\ DrainedWhenDown'
<1> DEFINE Good == OwedIsWatched' /\ DrainedWhenDown'
<1> USE DEF OwedIsWatched, DrainedWhenDown, Live
<1>1. ASSUME NEW t \in Threads, NEW x \in Work, Push(t, x) PROVE Good
  <2>1. /\ Range(order') = Range(order) \cup {x}
        /\ Range(queue') = Range(queue) \cup {x}
    BY <1>1, RangeAppend DEF Push, TypeOK
  <2>2. CASE t \in Apps
    <3>1. t \notin Workers /\ owed' = owed /\ x \notin owed
      BY <1>1, <2>2, ThreadsAssumption DEF Push, Producers
    <3>2. \A w \in Workers : pc'[w] = pc[w]
      BY <1>1, <3>1, ThreadsAssumption DEF Push, TypeOK, Threads
    <3>3. stop' = stop /\ ctl' = ctl /\ done' = done  BY <1>1 DEF Push
    <3>4. QED  BY <2>1, <3>1, <3>2, <3>3
  <2>3. CASE t = Io
    <3>1. ctl \in {"starting", "up"}
      BY <1>1, <2>3, ThreadsAssumption DEF Push, MayEnqueue, Producers
    <3>2. ~stop' /\ ctl' # "down"  BY <1>1, <3>1 DEF Push, ControlOK
    <3>3. owed' \subseteq Range(order')  BY <1>1, <2>1 DEF Push
    <3>4. QED  BY <3>2, <3>3
  <2>4. CASE t \in Workers
    <3>1. pc'[t] = "notify" /\ pc[t] = "running"
      BY <1>1, <2>4, ThreadsAssumption DEF Push, MayEnqueue, TypeOK, Threads, Producers
    <3>2. ctl' # "down"  BY <1>1, <2>4, <3>1 DEF Push, ControlOK
    <3>3. owed' \subseteq Range(order')  BY <1>1, <2>1 DEF Push
    <3>4. Live' # {}  BY <2>4, <3>1
    <3>5. QED  BY <3>2, <3>3, <3>4
  <2>5. QED  BY <2>2, <2>3, <2>4 DEF Threads, Producers
<1>2. ASSUME NEW t \in Threads, NotifyOne(t) PROVE Good
  <2>1. Live' = Live
    <3>1. CASE pc' = [pc EXCEPT ![t] = AfterNotify(t)]
      BY <1>2, <3>1, ThreadsAssumption DEF NotifyOne, AfterNotify, TypeOK, Threads, Producers
    <3>2. CASE \E w \in Waiting : pc' = [pc EXCEPT ![t] = AfterNotify(t), ![w] = "check"]
      BY <1>2, <3>2, ThreadsAssumption
      DEF NotifyOne, AfterNotify, Waiting, TypeOK, Threads, Producers
    <3>3. QED  BY <1>2, <3>1, <3>2 DEF NotifyOne
  <2>2. UNCHANGED <<queue, stop, ctl, order, done, owed>>
    BY <1>2 DEF NotifyOne, history
  <2>3. QED  BY <2>1, <2>2
<1>3. ASSUME NEW w \in Workers, Take(w) PROVE Good
  <2>1. Range(queue') \subseteq Range(queue)
    BY <1>3, RangeHeadTail DEF Take, TypeOK
  <2>2. ctl' # "down"  BY <1>3 DEF Take, ControlOK
  <2>3. w \in Live'  BY <1>3 DEF Take, TypeOK, Threads
  <2>4. owed' = owed /\ order' = order  BY <1>3 DEF Take
  <2>5. QED  BY <2>2, <2>3, <2>4
<1>4. ASSUME NEW w \in Workers, Wait(w) \/ Exit(w) PROVE Good
  <2>1. Range(queue') = {}  BY <1>4 DEF Wait, Exit, Range
  <2>2. UNCHANGED <<ctl, order, done, owed>>  BY <1>4 DEF Wait, Exit, history
  <2>3. QED  BY <2>1, <2>2
<1>5. ASSUME NEW w \in Workers, Finish(w) PROVE Good
  <2>1. w \in Live'  BY <1>5 DEF Finish, TypeOK, Threads
  <2>2. UNCHANGED <<ctl, order, owed>>  BY <1>5 DEF Finish
  <2>3. ctl # "down"  BY <1>5 DEF Finish, ControlOK
  <2>4. QED  BY <2>1, <2>2, <2>3
<1>6. ASSUME NEW w \in Workers, SpuriousWake(w) \/ Spawn(w) PROVE Good
  <2>1. w \in Live'  BY <1>6 DEF SpuriousWake, Spawn, TypeOK, Threads
  <2>2. UNCHANGED <<order, owed>>  BY <1>6 DEF SpuriousWake, Spawn, history
  <2>3. ctl' # "down"  BY <1>6 DEF SpuriousWake, Spawn, ControlOK
  <2>4. QED  BY <2>1, <2>2, <2>3
<1>7. ASSUME NEW w \in Workers, Join(w) PROVE Good
  <2>1. Live' = Live  BY <1>7, ThreadsAssumption DEF Join, TypeOK, Threads
  <2>2. UNCHANGED <<queue, stop, ctl, order, done, owed>>
    BY <1>7 DEF Join, history
  <2>3. QED  BY <2>1, <2>2
<1>8. CASE Start
  BY <1>8 DEF Start, history
<1>9. CASE SetStop
  <2>1. PICK w \in Workers : w \in Live'
    BY <1>9, ThreadsAssumption DEF SetStop, ControlOK
  <2>2. owed' = Range(order') /\ ctl' # "down"  BY <1>9 DEF SetStop
  <2>3. QED  BY <2>1, <2>2
<1>10. CASE NotifyAll
  <2>1. Live' = Live  BY <1>10 DEF NotifyAll, TypeOK, Threads
  <2>2. UNCHANGED <<queue, stop, order, done, owed>> /\ ctl' # "down"
    BY <1>10 DEF NotifyAll, history
  <2>3. QED  BY <2>1, <2>2
<1>11. CASE Stopped
  <2>1. Live = {} /\ stop /\ ~stop'  BY <1>11 DEF Stopped, ControlOK
  <2>2. owed \cap Range(queue) = {}  BY <2>1
  <2>3. Range(order) = Range(taken) \cup Range(queue)
    BY RangeConcat DEF TypeOK, FirstInFirstOut
  <2>4. Running = {}
    BY <1>11 DEF Running, Stopped, HeldInHook
  <2>5. owed \subseteq done  BY <2>2, <2>3, <2>4 DEF Accounted
  <2>6. UNCHANGED <<order, owed, done>>  BY <1>11 DEF Stopped, history
  <2>7. QED  BY <2>1, <2>5, <2>6
<1>12. CASE UNCHANGED vars
  BY <1>12 DEF vars
<1>13. QED
  BY <1>1, <1>2, <1>3, <1>4, <1>5, <1>6, <1>7, <1>8, <1>9, <1>10, <1>11,
     <1>12 DEF Next

\* NoStrandedWork: a push brings one notification, a notification wakes one
\* thread, and only a thread that finds the queue empty goes to sleep.
LEMMA StrandedStep ==
  ASSUME TypeOK, ControlOK, NoStrandedWork, [Next]_vars
  PROVE  NoStrandedWork'
<1> DEFINE A == Cardinality(Awake)
           N == Cardinality(Notifying)
<1>1. IsFiniteSet(Awake) /\ IsFiniteSet(Notifying) /\ A \in Nat /\ N \in Nat
  <2>1. Awake \subseteq Threads /\ Notifying \subseteq Threads
    BY DEF Awake, Notifying, Threads
  <2>2. QED  BY <2>1, ThreadsAssumption, FS_Subset, FS_CardinalityType
<1>2. Len(queue) \in Nat  BY DEF TypeOK
<1>3. ASSUME NEW t \in Threads, NEW x \in Work, Push(t, x) PROVE NoStrandedWork'
  <2>1. pc' = [pc EXCEPT ![t] = "notify"] /\ pc[t] \in {"idle", "running"}
    BY <1>3 DEF Push, MayEnqueue
  <2>2. Waiting' = Waiting /\ Awake' = Awake
    BY <2>1 DEF Waiting, Awake, TypeOK, Threads
  <2>3. Notifying' = Notifying \cup {t} /\ t \notin Notifying
    BY <2>1 DEF Notifying, TypeOK
  <2>4. Cardinality(Notifying') = N + 1  BY <1>1, <2>3, FS_AddElement
  <2>5. Len(queue') = Len(queue) + 1  BY <1>3 DEF Push, TypeOK
  <2>6. QED  BY <1>1, <1>2, <2>2, <2>4, <2>5 DEF NoStrandedWork
<1>4. ASSUME NEW t \in Threads, NotifyOne(t) PROVE NoStrandedWork'
  <2>1. pc[t] = "notify" /\ queue' = queue  BY <1>4 DEF NotifyOne
  <2>2. AfterNotify(t) \in {"running", "idle"}  BY DEF AfterNotify
  <2>3. CASE Waiting = {} /\ pc' = [pc EXCEPT ![t] = AfterNotify(t)]
    <3>1. Waiting' = {}  BY <2>2, <2>3 DEF Waiting, TypeOK, Threads
    <3>2. QED  BY <3>1 DEF NoStrandedWork
  <2>4. ASSUME NEW w \in Waiting,
               pc' = [pc EXCEPT ![t] = AfterNotify(t), ![w] = "check"]
        PROVE  NoStrandedWork'
    <3>1. w \in Workers /\ pc[w] = "waiting" /\ w # t  BY <2>1 DEF Waiting
    <3>2. Awake' = Awake \cup {w} /\ w \notin Awake
      BY <2>1, <2>2, <2>4, <3>1 DEF Awake, TypeOK, Threads
    <3>3. Notifying' = Notifying \ {t} /\ t \in Notifying
      BY <2>1, <2>2, <2>4, <3>1 DEF Notifying, TypeOK, Threads
    <3>4. Cardinality(Awake') = A + 1  BY <1>1, <3>2, FS_AddElement
    <3>5. Cardinality(Notifying') = N - 1  BY <1>1, <3>3, FS_RemoveElement
    <3>6. QED  BY <1>1, <1>2, <2>1, <3>4, <3>5 DEF NoStrandedWork
  <2>5. QED  BY <1>4, <2>3, <2>4 DEF NotifyOne
<1>5. ASSUME NEW w \in Workers, Take(w) PROVE NoStrandedWork'
  <2>1. pc[w] = "check" /\ pc' = [pc EXCEPT ![w] = "running"]  BY <1>5 DEF Take
  <2>2. Waiting' = Waiting /\ Notifying' = Notifying
    BY <2>1 DEF Waiting, Notifying, TypeOK, Threads
  <2>3. Awake' = Awake \ {w} /\ w \in Awake
    BY <2>1 DEF Awake, TypeOK, Threads
  <2>4. Cardinality(Awake') = A - 1  BY <1>1, <2>3, FS_RemoveElement
  <2>5. Len(queue') = Len(queue) - 1
    BY <1>5, RangeHeadTail DEF Take, TypeOK
  <2>6. QED  BY <1>1, <1>2, <2>2, <2>4, <2>5 DEF NoStrandedWork
<1>6. ASSUME NEW w \in Workers, Wait(w) PROVE NoStrandedWork'
  <2>1. queue' = <<>>  BY <1>6 DEF Wait
  <2>2. Awake' \subseteq Threads /\ Notifying' \subseteq Threads
    BY DEF Awake, Notifying, Threads
  <2>3. Cardinality(Awake') \in Nat /\ Cardinality(Notifying') \in Nat
    BY <2>2, ThreadsAssumption, FS_Subset, FS_CardinalityType
  <2>4. QED  BY <2>1, <2>3 DEF NoStrandedWork
<1>7. ASSUME NEW w \in Workers, Exit(w) PROVE NoStrandedWork'
  <2>1. queue' = <<>>  BY <1>7 DEF Exit
  <2>2. Awake' \subseteq Threads /\ Notifying' \subseteq Threads
    BY DEF Awake, Notifying, Threads
  <2>3. Cardinality(Awake') \in Nat /\ Cardinality(Notifying') \in Nat
    BY <2>2, ThreadsAssumption, FS_Subset, FS_CardinalityType
  <2>4. QED  BY <2>1, <2>3 DEF NoStrandedWork
<1>8. ASSUME NEW w \in Workers, Finish(w) \/ SpuriousWake(w) \/ Spawn(w)
      PROVE  NoStrandedWork'
  <2>1. /\ pc[w] \in {"running", "waiting", "none"}
        /\ pc' = [pc EXCEPT ![w] = "check"]
        /\ queue' = queue
    BY <1>8 DEF Finish, SpuriousWake, Spawn
  <2>2. Waiting' \subseteq Waiting /\ Notifying' = Notifying
    BY <2>1 DEF Waiting, Notifying, TypeOK, Threads
  <2>3. Awake' = Awake \cup {w} /\ w \notin Awake
    BY <2>1 DEF Awake, TypeOK, Threads
  <2>4. Cardinality(Awake') = A + 1  BY <1>1, <2>3, FS_AddElement
  <2>5. QED  BY <1>1, <1>2, <2>1, <2>2, <2>4 DEF NoStrandedWork
<1>9. ASSUME NEW w \in Workers, Join(w) PROVE NoStrandedWork'
  <2>1. pc[w] = "exited" /\ pc' = [pc EXCEPT ![w] = "none"] /\ queue' = queue
    BY <1>9 DEF Join
  <2>2. Waiting' = Waiting /\ Notifying' = Notifying /\ Awake' = Awake
    BY <2>1 DEF Waiting, Notifying, Awake, TypeOK, Threads
  <2>3. QED  BY <2>1, <2>2 DEF NoStrandedWork
<1>10. CASE NotifyAll
  <2>1. Waiting' = {}  BY <1>10 DEF NotifyAll, Waiting, Threads
  <2>2. QED  BY <2>1 DEF NoStrandedWork
<1>11. CASE Start \/ SetStop \/ Stopped \/ UNCHANGED vars
  <2>1. pc' = pc /\ queue' = queue  BY <1>11 DEF Start, SetStop, Stopped, vars
  <2>2. QED  BY <2>1 DEF NoStrandedWork, Waiting, Awake, Notifying
<1>12. QED
  BY <1>3, <1>4, <1>5, <1>6, <1>7, <1>8, <1>9, <1>10, <1>11 DEF Next

------------------------------------------------------------------------------
(* The theorems.                                                              *)

\* The inductive invariant holds in every reachable state.
THEOREM InductiveInvariantHolds == Spec => []InductiveInvariant
<1>1. Init => InductiveInvariant
  <2> SUFFICES ASSUME Init PROVE InductiveInvariant
    OBVIOUS
  <2> USE ThreadsAssumption DEF Init, Threads, Producers
  <2>1. /\ queue \in Seq(Work) /\ order \in Seq(Work) /\ taken \in Seq(Work)
        /\ done \subseteq Work /\ owed \subseteq Work
    <3>1. <<>> \in Seq(Work)  OBVIOUS
    <3>2. QED  BY <3>1
  <2> HIDE DEF Init
  <2>16. stop \in BOOLEAN  BY DEF Init
  <2>17. ctl \in ControlStates /\ starts \in 0..MaxStarts
    BY MaxStartsAssumption DEF Init, ControlStates
  <2> USE DEF Init
  <2>2. /\ pc \in [Threads -> WorkerStates \cup ProducerStates]
        /\ \A w \in Workers : pc[w] \in WorkerStates
        /\ \A p \in Producers : pc[p] \in ProducerStates
    BY DEF WorkerStates, ProducerStates
  <2>3. held \in [Workers -> Work \cup {None}]
    OBVIOUS
  <2>4. TypeOK  BY <2>1, <2>16, <2>17, <2>2, <2>3 DEF TypeOK
  <2>5. \A w \in Workers : pc[w] = "none" /\ held[w] = None
    OBVIOUS
  <2>6. HeldInHook  BY <2>5 DEF HeldInHook
  <2>7. ControlOK
    <3>1. ~(ctl \in {"flagged", "joining"}) /\ ctl \notin {"up", "flagged"}
      OBVIOUS
    <3>2. stop <=> ctl \in {"flagged", "joining"}  BY <3>1
    <3>3. QED  BY <2>5, <3>1, <3>2 DEF ControlOK
  <2>8. FirstInFirstOut  BY DEF FirstInFirstOut
  <2>9. Running = {}  BY <2>5 DEF Running
  <2>10. Range(<<>>) = {}  BY DEF Range
  <2>11. Accounted /\ AtMostOnce  BY <2>5, <2>9, <2>10 DEF Accounted, AtMostOnce
  <2>12. OwedIsWatched /\ DrainedWhenDown
    BY <2>10 DEF OwedIsWatched, DrainedWhenDown
  <2>13. Waiting = {}  BY <2>5 DEF Waiting
  <2>14. NoStrandedWork /\ NoSleeperAtJoin
    BY <2>13 DEF NoStrandedWork, NoSleeperAtJoin
  <2>15. QED
    BY <2>4, <2>6, <2>7, <2>8, <2>11, <2>12, <2>14 DEF InductiveInvariant
<1>2. InductiveInvariant /\ [Next]_vars => InductiveInvariant'
  BY TypeStep, ControlStep, FifoStep, AccountedStep, AtMostOnceStep,
     OwedStep, StrandedStep
  DEF InductiveInvariant
<1>3. QED
  BY <1>1, <1>2, PTL DEF Spec

\* Items are handed out exactly once and in the order they were queued.
THEOREM FirstInFirstOutHolds == Spec => []FirstInFirstOut
<1>1. InductiveInvariant => FirstInFirstOut  BY DEF InductiveInvariant
<1>2. QED  BY <1>1, InductiveInvariantHolds, PTL

\* No item waits in the queue for a thread that sleeps.
THEOREM NoStrandedWorkHolds == Spec => []NoStrandedWork
<1>1. InductiveInvariant => NoStrandedWork  BY DEF InductiveInvariant
<1>2. QED  BY <1>1, InductiveInvariantHolds, PTL

\* stop() never joins a thread that sleeps on the condition variable.
THEOREM NoSleeperAtJoinHolds == Spec => []NoSleeperAtJoin
<1>1. InductiveInvariant => NoSleeperAtJoin  BY DEF InductiveInvariant
<1>2. QED  BY <1>1, InductiveInvariantHolds, PTL

\* stop() leaves no owed item behind.
THEOREM DrainedWhenDownHolds == Spec => []DrainedWhenDown
<1>1. InductiveInvariant => DrainedWhenDown  BY DEF InductiveInvariant
<1>2. QED  BY <1>1, InductiveInvariantHolds, PTL

\* Type correctness.
THEOREM TypeCorrect == Spec => []TypeOK
<1>1. InductiveInvariant => TypeOK  BY DEF InductiveInvariant
<1>2. QED  BY <1>1, InductiveInvariantHolds, PTL

\* No item is run twice or by two threads.
THEOREM AtMostOnceHolds == Spec => []AtMostOnce
<1>1. InductiveInvariant => AtMostOnce  BY DEF InductiveInvariant
<1>2. QED  BY <1>1, InductiveInvariantHolds, PTL

------------------------------------------------------------------------------
(* Refinement.                                                                *)

\* Every step of the pool is a step of WorkQueue or invisible to it.
LEMMA StepSimulation ==
  ASSUME InductiveInvariant, [Next]_vars
  PROVE  [Abstract!Next]_(Abstract!vars)
<1> USE NoneAssumption DEF InductiveInvariant
<1>1. ASSUME NEW t \in Threads, NEW x \in Work, Push(t, x)
      PROVE  Abstract!Submit(x)
  <2>1. x \notin Range(order) /\ queue' = Append(queue, x)
        /\ UNCHANGED <<held, done>>
    BY <1>1 DEF Push
  <2>2. Range(order) = done \cup Running \cup Range(queue)
    BY RangeConcat DEF TypeOK, FirstInFirstOut, Accounted
  <2>3. Running' = Running  BY <2>1 DEF Running
  <2>4. QED  BY <2>1, <2>2, <2>3 DEF Abstract!Submit, Abstract!Range, Range
<1>2. ASSUME NEW w \in Workers, Take(w) PROVE Abstract!Begin
  <2>1. /\ queue # <<>> /\ Head(queue) \in Work /\ held[w] = None
        /\ held' = [held EXCEPT ![w] = Head(queue)]
        /\ queue' = Tail(queue) /\ done' = done
    BY <1>2, RangeHeadTail DEF Take, TypeOK, HeldInHook
  <2>2. Running' = Running \cup {Head(queue)}
    BY <2>1 DEF Running, TypeOK
  <2>3. QED  BY <2>1, <2>2 DEF Abstract!Begin
<1>3. ASSUME NEW w \in Workers, Finish(w)
      PROVE  held[w] \in Work /\ Abstract!Finish(held[w])
  <2>1. /\ held[w] \in Work /\ held' = [held EXCEPT ![w] = None]
        /\ done' = done \cup {held[w]} /\ queue' = queue
    BY <1>3 DEF Finish, TypeOK, HeldInHook
  <2>2. \A v \in Workers \ {w} : held[v] # held[w]
    BY <2>1 DEF AtMostOnce
  <2>3. Running' = Running \ {held[w]} /\ held[w] \in Running
    BY <2>1, <2>2 DEF Running, TypeOK
  <2>4. QED  BY <2>1, <2>3 DEF Abstract!Finish
<1>4. ASSUME UNCHANGED <<queue, held, done>> PROVE UNCHANGED Abstract!vars
  BY <1>4 DEF Abstract!vars, Running
<1>5. QED
  BY <1>1, <1>2, <1>3, <1>4
  DEF Next, NotifyOne, Wait, Exit, SpuriousWake, Spawn, Join, Start, SetStop,
      NotifyAll, Stopped, history, vars, Abstract!Next

\* The pool implements the abstract work queue.
THEOREM Refinement == Spec => ImplementsWorkQueue
<1>1. Init => Abstract!Init
  BY DEF Init, Abstract!Init, Running
<1>2. InductiveInvariant /\ [Next]_vars => [Abstract!Next]_(Abstract!vars)
  BY StepSimulation
<1>3. QED
  BY <1>1, <1>2, InductiveInvariantHolds, PTL
  DEF Spec, ImplementsWorkQueue, Abstract!Spec
==============================================================================
