-------------------------- MODULE TimerQueueProofs ---------------------------
(* Proofs about TimerQueue, for any timers, frequencies, clock and counter    *)
(* bounds, with and without application threads.                              *)
EXTENDS TimerQueue, FiniteSetTheorems, TLAPS

------------------------------------------------------------------------------
(* Lemmas.                                                                    *)

\* The frequency of a timer, started or not, is a number.
LEMMA FrequenciesAreNat == Freqs \cup {0} \subseteq Nat
<1>1. Freqs \subseteq Nat  BY NumbersAssumption
<1>2. 0 \in Nat  OBVIOUS
<1>3. QED  BY <1>1, <1>2

\* A counter that saturates stays in its range and grows by at most one.
LEMMA BumpBounds ==
  ASSUME NEW n \in 0..MaxCount
  PROVE  /\ Bump(n) \in 0..MaxCount
         /\ Bump(n) <= n + 1
         /\ n = 0 => Bump(n) = 1
BY NumbersAssumption DEF Bump

\* The next period begins one frequency later.
LEMMA NextPeriod ==
  ASSUME NEW n \in Nat, NEW f \in Nat
  PROVE  /\ n * f \in Nat
         /\ (n + 1) * f = n * f + f
OBVIOUS

\* Fewer periods take no longer.
LEMMA FewerPeriods ==
  ASSUME NEW m \in Nat, NEW n \in Nat, NEW f \in Nat, m <= n
  PROVE  m * f <= n * f
<1>1. /\ n - m \in Nat
      /\ n = m + (n - m)
  OBVIOUS
<1>2. n * f = m * f + (n - m) * f  BY <1>1
<1>3. m * f \in Nat /\ n * f \in Nat /\ (n - m) * f \in Nat  BY <1>1
<1>4. QED  BY <1>2, <1>3

\* A timer in hand is a timer.
LEMMA HandHolds ==
  ASSUME TypeOK, cur # NoEntry
  PROVE  cur \in Entry /\ cur.handle \in Timers
BY DEF TypeOK, Entry

\* Nothing in hand is no timer.
LEMMA HandEmpty ==
  ASSUME NEW t \in Timers
  PROVE  NoEntry.handle # t
BY TimersAssumption DEF NoEntry

------------------------------------------------------------------------------
(* Types.                                                                     *)

\* The initial state has the types TypeOK states.
LEMMA InitTypeOK == Init => TypeOK
BY NumbersAssumption, TimersAssumption
   DEF Init, TypeOK, Entry, NoEntry

\* Each step preserves the types; the invariant is used for the entry in hand
\* and for the number of iterations left.
LEMMA NextTypeOK == TypeOK /\ Placed /\ [Next]_vars => TypeOK'
<1> SUFFICES ASSUME TypeOK, Placed, [Next]_vars PROVE TypeOK'
  OBVIOUS
<1>0. UNCHANGED shared
  BY DEF Next, TimePasses, Tick, Use, AssignHandle, vars
<1> USE <1>0
<1> USE NumbersAssumption, TimersAssumption DEF TypeOK
<1>1. CASE TimePasses
  BY <1>1 DEF TimePasses, io, history
<1>2. ASSUME NEW who \in Callers, NEW t \in Timers, NEW f \in Freqs,
             Start(who, t, f) \/ Construct(who, t, f)
      PROVE  TypeOK'
  <2>1. [handle |-> t, next_tick |-> now + f] \in Entry  BY DEF Entry
  <2>2. CASE Start(who, t, f)
    BY <2>1, <2>2 DEF Start, StartTimer, io
  <2>3. CASE Construct(who, t, f)
    BY <2>1, <2>3 DEF Construct, StartTimer, io
  <2>4. QED  BY <1>2, <2>2, <2>3
<1>3. ASSUME NEW who \in Callers, NEW t \in Timers, Stop(who, t) PROVE TypeOK'
  BY <1>3 DEF Stop, StopTimer, io
<1>4. ASSUME NEW who \in Callers, NEW t \in Oneshots, NEW destroy \in BOOLEAN,
             Cancel(who, t, destroy)
      PROVE  TypeOK'
  BY <1>4 DEF Cancel, StopTimer, io
<1>5. ASSUME NEW t \in Oneshots, AssignHandle(t) PROVE TypeOK'
  BY <1>5 DEF AssignHandle, io, history
<1>6. CASE TickBegin
  <2>1. Cardinality(heap) \in Nat  BY FS_CardinalityType DEF Placed
  <2>2. QED  BY <1>6, <2>1 DEF TickBegin, history
<1>7. CASE TickEnd  BY <1>7 DEF TickEnd
<1>8. CASE Check  BY <1>8 DEF Check, history
<1>9. CASE Call
  <2>1. cur.handle \in Timers  BY <1>9, HandHolds DEF Call, Placed
  <2>2. \A t \in Timers : /\ Bump(calls[t]) \in 0..MaxCount
                          /\ Bump(lateCalls[t]) \in 0..MaxCount
    BY BumpBounds
  <2>3. QED  BY <1>9, <2>1, <2>2 DEF Call
<1>10. CASE OneshotStop
  <2>1. cur.handle \in Timers  BY <1>10, HandHolds DEF OneshotStop, Placed
  <2>2. QED  BY <1>10, <2>1 DEF OneshotStop, StopTimer, Callers
<1>11. CASE Requeue
  <2>1. cur \in Entry /\ cur.handle \in Timers  BY <1>11, HandHolds DEF Requeue, Placed
  <2>2. freq[cur.handle] \in Nat
    <3>1. freq \in [Timers -> Freqs \cup {0}]  OBVIOUS
    <3>2. freq[cur.handle] \in Freqs \cup {0}  BY <2>1, <3>1
    <3>3. Freqs \cup {0} \subseteq Nat  BY FrequenciesAreNat
    <3>4. QED  BY <3>2, <3>3, Zenon
  <2>3. [cur EXCEPT !.next_tick = @ + freq[cur.handle]] \in Entry
    BY <2>1, <2>2 DEF Entry
  <2>4. left - 1 \in Nat  BY <1>11 DEF Requeue, Placed
  <2>5. QED  BY <1>11, <2>3, <2>4 DEF Requeue, history
<1>12. CASE Throw  BY <1>12 DEF Throw
<1>13. CASE Retire
  <2>1. cur.handle \in Timers /\ left - 1 \in Nat
    BY <1>13, HandHolds DEF Retire, Placed
  <2>2. \A t \in Timers : Bump(stops[t]) \in 0..MaxCount  BY BumpBounds
  <2>3. QED  BY <1>13, <2>1, <2>2 DEF Retire
<1>14. ASSUME NEW e \in heap, Pop(e) PROVE TypeOK'  BY <1>14 DEF Pop
<1>15. CASE UNCHANGED vars  BY <1>15 DEF vars, state, history
<1>16. QED
  BY <1>1, <1>2, <1>3, <1>4, <1>5, <1>6, <1>7, <1>8, <1>9, <1>10, <1>11,
     <1>12, <1>13, <1>14, <1>15
  DEF Next, Use, Tick

------------------------------------------------------------------------------
(* Places.                                                                    *)

\* Nothing was started, so nothing is anywhere.
LEMMA InitPlaced == Init => Placed
<1> SUFFICES ASSUME Init PROVE Placed
  OBVIOUS
<1>1. IsFiniteSet(heap)  BY FS_EmptySet DEF Init
<1>2. \A t \in Timers : ~InHand(t)  BY HandEmpty DEF Init, InHand
<1>3. QED  BY <1>1, <1>2 DEF Init, Placed, InHeap

\* A timer that is started is in the heap and nowhere else.
LEMMA StartPlaced ==
  ASSUME TypeOK, Placed, NEW t \in Timers, NEW f \in Freqs, StartTimer(t, f),
         UNCHANGED <<pc, cur, left, stops, thrown>>
  PROVE  Placed'
<1> DEFINE e == [handle |-> t, next_tick |-> now + f]
<1>1. e.handle = t /\ heap' = heap \cup {e}  BY DEF StartTimer
<1>2. started[t] = -1 /\ started' = [started EXCEPT ![t] = now]  BY DEF StartTimer
<1>3. started'[t] # -1 /\ \A u \in Timers : u # t => started'[u] = started[u]
  BY <1>2 DEF TypeOK
<1>4. IsFiniteSet(heap')  BY <1>1, FS_AddElement DEF Placed
<1>5. ~InHeap(t) /\ ~InHand(t) /\ stops[t] = 0 /\ t \notin thrown
  BY <1>2 DEF Placed
<1> HIDE DEF e
<1>6. \A u \in Timers : /\ InHeap(u)' <=> u = t \/ InHeap(u)
                        /\ InHand(u)' <=> InHand(u)
  BY <1>1 DEF InHeap, InHand
<1>7. \A c \in heap', d \in heap' : c.handle = d.handle => c = d
  BY <1>1, <1>5 DEF Placed, InHeap
<1>8. QED  BY <1>3, <1>4, <1>5, <1>6, <1>7 DEF Placed

\* tick_timers() changes places only by taking the soonest entry (Pop), by
\* putting it back (Requeue), by retiring it (Retire) or by losing it (Throw).
LEMMA PopPlaced ==
  ASSUME TypeOK, Placed, NEW e \in heap, Pop(e)
  PROVE  Placed'
<1>1. /\ heap' = heap \ {e} /\ cur' = e /\ left > 0 /\ pc' = "check"
      /\ UNCHANGED <<left, started, stops, thrown>>
  BY DEF Pop
<1>2. e \in Entry /\ e.handle \in Timers  BY DEF TypeOK, Entry
<1>3. cur = NoEntry  BY DEF Pop, Placed
<1>4. cur' # NoEntry  BY <1>1, <1>2, HandEmpty
<1>5. IsFiniteSet(heap')  BY <1>1, FS_RemoveElement DEF Placed
<1>6. \A t \in Timers : ~InHand(t)  BY <1>3, HandEmpty DEF InHand
<1>7. \A t \in Timers : /\ InHeap(t)' <=> InHeap(t) /\ t # e.handle
                        /\ InHand(t)' <=> t = e.handle
  BY <1>1 DEF InHeap, InHand, Placed
<1>8. InHeap(e.handle)  BY DEF InHeap
<1>9. QED  BY <1>1, <1>2, <1>4, <1>5, <1>6, <1>7, <1>8 DEF Placed

\* The entry in hand goes back.
LEMMA RequeuePlaced ==
  ASSUME TypeOK, Placed, Requeue
  PROVE  Placed'
<1> DEFINE e == [cur EXCEPT !.next_tick = @ + freq[cur.handle]]
<1>1. /\ heap' = heap \cup {e} /\ cur' = NoEntry /\ left' = left - 1 /\ pc' = "pop"
      /\ UNCHANGED <<started, stops, thrown>>
  BY DEF Requeue, history
<1>2. cur # NoEntry  BY DEF Requeue, Placed
<1>3. cur \in Entry /\ cur.handle \in Timers  BY <1>2, HandHolds
<1>4. e.handle = cur.handle  BY <1>3 DEF Entry
<1> HIDE DEF e
<1>5. IsFiniteSet(heap')  BY <1>1, FS_AddElement DEF Placed
<1>6. \A t \in Timers : ~InHand(t)'  BY <1>1, HandEmpty DEF InHand
<1>7. \A t \in Timers : InHeap(t)' <=> InHeap(t) \/ InHand(t)
  BY <1>1, <1>4 DEF InHeap, InHand
<1>8. ~InHeap(cur.handle)  BY <1>3 DEF Placed, InHand
<1>9. \A c \in heap', d \in heap' : c.handle = d.handle => c = d
  BY <1>1, <1>4, <1>8 DEF Placed, InHeap
<1>10. QED  BY <1>1, <1>5, <1>6, <1>7, <1>9 DEF Placed

\* The timer in hand was stopped, and is gone.
LEMMA RetirePlaced ==
  ASSUME TypeOK, Placed, Retire
  PROVE  Placed'
<1>1. /\ stops' = [stops EXCEPT ![cur.handle] = Bump(@)]
      /\ cur' = NoEntry /\ left' = left - 1 /\ pc' = "pop"
      /\ UNCHANGED <<heap, started, thrown>>
  BY DEF Retire
<1>2. cur # NoEntry  BY DEF Retire, Placed
<1>3. cur.handle \in Timers  BY <1>2, HandHolds
<1>4. stops[cur.handle] = 0 /\ cur.handle \notin thrown /\ ~InHeap(cur.handle)
  BY <1>3 DEF Placed, InHand
<1>5. stops'[cur.handle] = 1  BY <1>1, <1>3, <1>4, BumpBounds DEF TypeOK
<1>6. \A t \in Timers : t # cur.handle => stops'[t] = stops[t]
  BY <1>1 DEF TypeOK
<1>7. started[cur.handle] # -1  BY <1>3 DEF Placed, InHand
<1>8. \A t \in Timers : ~InHand(t)' /\ (InHeap(t)' <=> InHeap(t))
  BY <1>1, HandEmpty DEF InHand, InHeap
<1>9. QED  BY <1>1, <1>3, <1>4, <1>5, <1>6, <1>7, <1>8 DEF Placed, InHand

\* The callback threw, and its entry is gone.
LEMMA ThrowPlaced ==
  ASSUME TypeOK, Placed, Throw
  PROVE  Placed'
<1>1. /\ thrown' = thrown \cup {cur.handle}
      /\ cur' = NoEntry /\ pc' = "idle"
      /\ UNCHANGED <<heap, started, stops>>
  BY DEF Throw
<1>2. cur # NoEntry  BY DEF Throw, Placed
<1>3. cur.handle \in Timers  BY <1>2, HandHolds
<1>4. stops[cur.handle] = 0 /\ ~InHeap(cur.handle) /\ started[cur.handle] # -1
  BY <1>3 DEF Placed, InHand
<1>5. \A t \in Timers : ~InHand(t)' /\ (InHeap(t)' <=> InHeap(t))
  BY <1>1, HandEmpty DEF InHand, InHeap
<1>6. QED  BY <1>1, <1>3, <1>4, <1>5 DEF Placed, InHand

\* Every other step leaves each timer where it is.
LEMMA FramePlaced ==
  ASSUME Placed, UNCHANGED <<heap, cur, started, stops, thrown>>,
         cur = NoEntry <=> pc' \in {"idle", "pop"},
         cur # NoEntry => left' > 0
  PROVE  Placed'
<1>1. \A t \in Timers : (InHeap(t)' <=> InHeap(t)) /\ (InHand(t)' <=> InHand(t))
  BY DEF InHeap, InHand
<1>2. QED  BY <1>1 DEF Placed

\* Each step preserves the places.
LEMMA NextPlaced == TypeOK /\ Placed /\ [Next]_vars => Placed'
<1> SUFFICES ASSUME TypeOK, Placed, [Next]_vars PROVE Placed'
  OBVIOUS
<1>1. CASE TimePasses
  BY <1>1, FramePlaced DEF TimePasses, io, history, Placed
<1>2. ASSUME NEW who \in Callers, NEW t \in Timers, NEW f \in Freqs,
             Start(who, t, f) \/ Construct(who, t, f)
      PROVE  Placed'
  BY <1>2, StartPlaced DEF Start, Construct, io
<1>3. ASSUME NEW who \in Callers, NEW t \in Timers, Stop(who, t) PROVE Placed'
  BY <1>3, FramePlaced DEF Stop, io, Placed
<1>4. ASSUME NEW who \in Callers, NEW t \in Oneshots, NEW destroy \in BOOLEAN,
             Cancel(who, t, destroy)
      PROVE  Placed'
  BY <1>4, FramePlaced DEF Cancel, io, Placed
<1>5. ASSUME NEW t \in Oneshots, AssignHandle(t) PROVE Placed'
  BY <1>5, FramePlaced DEF AssignHandle, io, history, Placed
<1>6. CASE TickBegin
  BY <1>6, FramePlaced DEF TickBegin, history, Placed
<1>7. CASE TickEnd  BY <1>7, FramePlaced DEF TickEnd, Placed
<1>8. CASE Check  BY <1>8, FramePlaced DEF Check, history, Placed
<1>9. CASE Call  BY <1>9, FramePlaced DEF Call, Placed
<1>10. CASE OneshotStop  BY <1>10, FramePlaced DEF OneshotStop, Placed
<1>11. CASE Requeue  BY <1>11, RequeuePlaced
<1>12. CASE Throw  BY <1>12, ThrowPlaced
<1>13. CASE Retire  BY <1>13, RetirePlaced
<1>14. ASSUME NEW e \in heap, Pop(e) PROVE Placed'  BY <1>14, PopPlaced
<1>15. CASE UNCHANGED vars
  BY <1>15, FramePlaced DEF vars, state, history, Placed
<1>16. QED
  BY <1>1, <1>2, <1>3, <1>4, <1>5, <1>6, <1>7, <1>8, <1>9, <1>10, <1>11,
     <1>12, <1>13, <1>14, <1>15
  DEF Next, Use, Tick

------------------------------------------------------------------------------
(* Stops.                                                                     *)

\* Nothing was stopped or called.
LEMMA InitStopsKept == Init => StopsKept
BY DEF Init, StopsKept, Called

\* stop_timer() marks the handle: a call of the IO thread cannot fall between
\* the check and the callback, where a call of another thread can.
LEMMA StopTimerKept ==
  ASSUME TypeOK, StopsKept, NEW who \in Callers, NEW t \in Timers,
         StopTimer(who, t), who = "io" => pc # "call",
         UNCHANGED <<cur, calls, lateCalls, stops>>,
         pc' = "call" => pc = "call"
  PROVE  StopsKept'
<1>1. /\ deleted' = deleted \cup {t}
      /\ stoppedBy' = [stoppedBy EXCEPT ![t] = @ \cup {who}]
  BY DEF StopTimer
<1>2. /\ stoppedBy'[t] = stoppedBy[t] \cup {who}
      /\ \A u \in Timers : u # t => stoppedBy'[u] = stoppedBy[u]
  BY <1>1 DEF TypeOK
<1>3. \A u \in Timers : Called(u)' => Called(u)  BY DEF Called, InHand
<1>4. "io" \in stoppedBy'[t] => ~Called(t)'
  <2>1. CASE who = "io"  BY <2>1 DEF Called
  <2>2. CASE who # "io"  BY <1>2, <1>3, <2>2 DEF StopsKept
  <2>3. QED  BY <2>1, <2>2
<1>5. ASSUME NEW u \in Timers
      PROVE  /\ stoppedBy'[u] # {} => u \in deleted' \/ stops'[u] = 1
             /\ "io" \in stoppedBy'[u] => ~Called(u)'
             /\ lateCalls'[u] <= 1
             /\ lateCalls'[u] = 1 => stoppedBy'[u] # {} /\ ~Called(u)'
  <2>1. CASE u = t  BY <1>1, <1>2, <1>3, <1>4, <2>1 DEF StopsKept
  <2>2. CASE u # t  BY <1>1, <1>2, <1>3, <2>2 DEF StopsKept
  <2>3. QED  BY <2>1, <2>2
<1>6. QED  BY <1>5 DEF StopsKept

\* The callback is entered, late if a stop came after the check.
LEMMA CallKept ==
  ASSUME TypeOK, Placed, StopsKept, Call
  PROVE  StopsKept'
<1>1. /\ pc = "call" /\ pc' = "in"
      /\ lateCalls' = IF stoppedBy[cur.handle] # {}
                      THEN [lateCalls EXCEPT ![cur.handle] = Bump(@)] ELSE lateCalls
      /\ UNCHANGED <<cur, deleted, stops, stoppedBy>>
  BY DEF Call
<1>2. cur.handle \in Timers  BY <1>1, HandHolds DEF Placed
<1>3. Called(cur.handle)  BY <1>1 DEF Called, InHand
<1>4. lateCalls[cur.handle] = 0
  <2>1. lateCalls[cur.handle] \in 0..MaxCount  BY <1>2 DEF TypeOK
  <2>2. lateCalls[cur.handle] <= 1 /\ lateCalls[cur.handle] # 1
    BY <1>2, <1>3 DEF StopsKept
  <2>3. QED  BY <2>1, <2>2, NumbersAssumption
<1>5. Bump(lateCalls[cur.handle]) = 1  BY <1>2, <1>4, BumpBounds DEF TypeOK
<1>6. \A t \in Timers : ~Called(t)'  BY <1>1 DEF Called
<1>7. \A t \in Timers : \/ lateCalls'[t] = lateCalls[t]
                        \/ lateCalls'[t] = 1 /\ stoppedBy[t] # {}
  BY <1>1, <1>2, <1>5 DEF TypeOK
<1>8. QED  BY <1>1, <1>6, <1>7 DEF StopsKept

\* Only tick_timers() forgets a stop, with the timer that was stopped.
LEMMA RetireKept ==
  ASSUME TypeOK, Placed, StopsKept, Retire
  PROVE  StopsKept'
<1>1. /\ stops' = [stops EXCEPT ![cur.handle] = Bump(@)]
      /\ deleted' = deleted \ {cur.handle}
      /\ pc' = "pop"
      /\ UNCHANGED <<lateCalls, stoppedBy>>
  BY DEF Retire
<1>2. cur.handle \in Timers  BY HandHolds DEF Retire, Placed
<1>3. stops[cur.handle] = 0  BY <1>2 DEF Placed, InHand
<1>4. stops'[cur.handle] = 1  BY <1>1, <1>2, <1>3, BumpBounds DEF TypeOK
<1>5. \A t \in Timers : t # cur.handle => stops'[t] = stops[t]
  BY <1>1 DEF TypeOK
<1>6. \A t \in Timers : ~Called(t)'  BY <1>1 DEF Called
<1>7. QED  BY <1>1, <1>4, <1>5, <1>6 DEF StopsKept

\* A timer that was stopped in time does not pass the check.
LEMMA CheckKept ==
  ASSUME TypeOK, Placed, StopsKept, Check
  PROVE  StopsKept'
<1>1. /\ pc = "check"
      /\ pc' = IF cur.handle \in deleted THEN "retire" ELSE "call"
      /\ UNCHANGED <<cur, deleted, lateCalls, stops, stoppedBy>>
  BY DEF Check, history
<1>2. cur.handle \in Timers  BY <1>1, HandHolds DEF Placed
<1>3. stops[cur.handle] = 0  BY <1>2 DEF Placed, InHand
<1>4. \A t \in Timers : Called(t)' => t = cur.handle /\ t \notin deleted
  BY <1>1 DEF Called, InHand
<1>5. \A t \in Timers : Called(t)' => stoppedBy[t] = {}
  BY <1>2, <1>3, <1>4 DEF StopsKept
<1>6. QED  BY <1>1, <1>5 DEF StopsKept

\* Every other step keeps what the stops left.
LEMMA FrameKept ==
  ASSUME StopsKept, UNCHANGED <<deleted, lateCalls, stops, stoppedBy>>,
         \A t \in Timers : Called(t)' => Called(t)
  PROVE  StopsKept'
BY DEF StopsKept

\* Each step preserves what the stops left.
LEMMA NextStopsKept == TypeOK /\ Placed /\ StopsKept /\ [Next]_vars => StopsKept'
<1> SUFFICES ASSUME TypeOK, Placed, StopsKept, [Next]_vars PROVE StopsKept'
  OBVIOUS
<1>1. CASE TimePasses
  BY <1>1, FrameKept DEF TimePasses, io, history, Called, InHand
<1>2. ASSUME NEW who \in Callers, NEW t \in Timers, NEW f \in Freqs,
             Start(who, t, f) \/ Construct(who, t, f)
      PROVE  StopsKept'
  BY <1>2, FrameKept DEF Start, Construct, io, Called, InHand
<1>3. ASSUME NEW who \in Callers, NEW t \in Timers, Stop(who, t) PROVE StopsKept'
  BY <1>3, StopTimerKept DEF Stop, MayCall, io
<1>4. ASSUME NEW who \in Callers, NEW t \in Oneshots, NEW destroy \in BOOLEAN,
             Cancel(who, t, destroy)
      PROVE  StopsKept'
  BY <1>4, StopTimerKept, TimersAssumption DEF Cancel, MayCall, io
<1>5. ASSUME NEW t \in Oneshots, AssignHandle(t) PROVE StopsKept'
  BY <1>5, FrameKept DEF AssignHandle, io, history, Called, InHand
<1>6. CASE TickBegin
  BY <1>6, FrameKept DEF TickBegin, history, Called, InHand
<1>7. CASE TickEnd  BY <1>7, FrameKept DEF TickEnd, Called, InHand
<1>8. CASE Check  BY <1>8, CheckKept
<1>9. CASE Call  BY <1>9, CallKept
<1>10. CASE OneshotStop
  <2>1. /\ pc = "in" /\ pc' = "requeue"
        /\ UNCHANGED <<cur, calls, lateCalls, stops>>
    BY <1>10 DEF OneshotStop
  <2>2. ASSUME NEW t \in Timers, StopTimer("io", t) PROVE StopsKept'
    BY <2>1, <2>2, StopTimerKept DEF Callers
  <2>3. CASE UNCHANGED <<deleted, stoppedBy>>
    BY <2>1, <2>3, FrameKept DEF Called
  <2>4. QED  BY <1>10, <2>2, <2>3, TimersAssumption DEF OneshotStop
<1>11. CASE Requeue  BY <1>11, FrameKept DEF Requeue, history, Called
<1>12. CASE Throw  BY <1>12, FrameKept DEF Throw, Called
<1>13. CASE Retire  BY <1>13, RetireKept
<1>14. ASSUME NEW e \in heap, Pop(e) PROVE StopsKept'
  BY <1>14, FrameKept DEF Pop, Called
<1>15. CASE UNCHANGED vars
  BY <1>15, FrameKept DEF vars, state, history, Called, InHand
<1>16. QED
  BY <1>1, <1>2, <1>3, <1>4, <1>5, <1>6, <1>7, <1>8, <1>9, <1>10, <1>11,
     <1>12, <1>13, <1>14, <1>15
  DEF Next, Use, Tick

------------------------------------------------------------------------------
(* Pace.                                                                      *)

\* No time has passed.
LEMMA InitPaced == Init => Paced
<1> SUFFICES ASSUME Init PROVE Paced
  OBVIOUS
<1>1. \A t \in Timers : started[t] = -1 /\ calls[t] = 0  BY DEF Init
<1>2. QED  BY <1>1 DEF Init, Paced, NeverAhead

\* The numbers of a timer are numbers.
LEMMA TimerNumbers ==
  ASSUME TypeOK, NEW t \in Timers
  PROVE  /\ started[t] \in Int /\ calls[t] \in Nat /\ freq[t] \in Nat
         /\ calls[t] * freq[t] \in Nat
         /\ (calls[t] + 1) * freq[t] = calls[t] * freq[t] + freq[t]
         /\ now \in Nat /\ pass \in Nat
<1>1. freq[t] \in Freqs \cup {0}  BY DEF TypeOK
<1>2. freq[t] \in Nat  BY <1>1, FrequenciesAreNat, Zenon
<1>3. started[t] \in Int /\ calls[t] \in Nat /\ now \in Nat /\ pass \in Nat
  BY NumbersAssumption DEF TypeOK
<1>4. QED  BY <1>2, <1>3, NextPeriod

\* A step that starts no timer, calls none, and neither moves the clock back
\* nor changes the heap or the entry in hand keeps the pace.
LEMMA FramePaced ==
  ASSUME TypeOK, TypeOK', Paced, UNCHANGED <<heap, freq, cur, started, calls>>,
         now <= now', pass' <= now',
         pc' \in {"check", "call"} => pc \in {"check", "call"} /\ pass' = pass,
         pc' \in {"in", "requeue"} => pc \in {"in", "requeue"}
  PROVE  Paced'
<1>1. now \in Nat /\ now' \in Nat  BY NumbersAssumption DEF TypeOK
<1>2. \A t \in Timers : started[t] \in Int /\ calls[t] * freq[t] \in Nat
  BY TimerNumbers
<1>3. \A t \in Timers : started'[t] <= now' /\ (started'[t] = -1 => calls'[t] = 0)
  BY <1>1, <1>2 DEF Paced
<1>4. \A t \in Timers : started[t] >= 0 => calls[t] * freq[t] <= now' - started[t]
  BY <1>1, <1>2 DEF Paced, NeverAhead
<1>5. NeverAhead'  BY <1>4 DEF NeverAhead
<1>6. QED  BY <1>3, <1>5 DEF Paced, Period

\* The first entry of a timer lies one period ahead.
LEMMA StartPaced ==
  ASSUME TypeOK, TypeOK', Placed, Paced, NEW t \in Timers, NEW f \in Freqs,
         StartTimer(t, f), UNCHANGED <<now, pc, pass, cur, calls>>
  PROVE  Paced'
<1> DEFINE e == [handle |-> t, next_tick |-> now + f]
<1>1. started[t] = -1 /\ started'[t] = now /\ freq'[t] = f /\ calls[t] = 0
  BY DEF StartTimer, TypeOK, Paced
<1>2. \A u \in Timers : u # t => started'[u] = started[u] /\ freq'[u] = freq[u]
  BY DEF StartTimer, TypeOK
<1>3. ~InHeap(t) /\ ~InHand(t)  BY <1>1 DEF Placed
<1>4. f \in Nat /\ now \in Nat
  <2>1. f \in Nat  BY FrequenciesAreNat, Zenon
  <2>2. QED  BY <2>1, NumbersAssumption DEF TypeOK
<1>5. 1 * f = f /\ 0 * f = 0 /\ 0 + 1 = 1  BY <1>4
<1>6. \A d \in heap : d.handle \in Timers /\ d.handle # t
  BY <1>3 DEF InHeap, TypeOK, Entry
<1>7. e.handle = t /\ Period(t, calls[t] + 1)' <= e.next_tick
  BY <1>1, <1>4, <1>5 DEF Period
<1>8. \A d \in heap : Period(d.handle, calls[d.handle] + 1)' <= d.next_tick
  BY <1>2, <1>6 DEF Paced, Period
<1>9. heap' = heap \cup {e}  BY DEF StartTimer
<1> HIDE DEF e
<1>10. \A d \in heap' : Period(d.handle, calls[d.handle] + 1)' <= d.next_tick
  BY <1>7, <1>8, <1>9
<1>11. pc' \in {"check", "call", "in", "requeue"} =>
         /\ cur.handle \in Timers /\ cur.handle # t
         /\ started'[cur.handle] = started[cur.handle]
         /\ freq'[cur.handle] = freq[cur.handle]
  BY <1>2, <1>3, HandHolds DEF Placed, InHand
<1>12. NeverAhead'
  <2>1. ASSUME NEW u \in Timers, started'[u] >= 0
        PROVE  calls'[u] * freq'[u] <= now' - started'[u]
    <3>1. CASE u = t  BY <1>1, <1>4, <1>5, <3>1
    <3>2. CASE u # t  BY <1>2, <2>1, <3>2 DEF Paced, NeverAhead
    <3>3. QED  BY <3>1, <3>2
  <2>2. QED  BY <2>1 DEF NeverAhead
<1>13. \A u \in Timers : started'[u] <= now' /\ (started'[u] = -1 => calls'[u] = 0)
  BY <1>1, <1>2, <1>4 DEF Paced
<1>14. /\ pc' \in {"check", "call"} =>
            /\ Period(cur.handle, calls[cur.handle] + 1)' <= cur'.next_tick
            /\ cur'.next_tick <= pass'
       /\ pc' \in {"in", "requeue"} =>
            Period(cur.handle, calls[cur.handle])' <= cur'.next_tick
  BY <1>11 DEF Paced, Period
<1>15. QED  BY <1>10, <1>12, <1>13, <1>14 DEF Paced

\* An entry is taken when its time has come.
LEMMA PopPaced ==
  ASSUME TypeOK, Paced, NEW e \in heap, Pop(e), e \in Due
  PROVE  Paced'
<1>1. /\ heap' = heap \ {e} /\ cur' = e /\ pc' = "check"
      /\ UNCHANGED <<now, pass, freq, started, calls>>
  BY DEF Pop
<1>2. e.next_tick <= pass  BY DEF Due
<1>3. QED  BY <1>1, <1>2 DEF Paced, Period, NeverAhead

\* A call is made when the period is over, and not before.
LEMMA CallPaced ==
  ASSUME TypeOK, TypeOK', Placed, Paced, Call
  PROVE  Paced'
<1> DEFINE t == cur.handle
<1>1. /\ pc = "call" /\ pc' = "in"
      /\ calls' = [calls EXCEPT ![t] = Bump(@)]
      /\ UNCHANGED <<now, heap, freq, pass, cur, started>>
  BY DEF Call
<1>2. cur \in Entry /\ t \in Timers  BY <1>1, HandHolds DEF Placed
<1>3. /\ calls[t] \in 0..MaxCount
      /\ calls'[t] = Bump(calls[t])
      /\ \A u \in Timers : u # t => calls'[u] = calls[u]
  BY <1>1, <1>2 DEF TypeOK
<1>4. calls'[t] \in Nat /\ calls'[t] <= calls[t] + 1
  <2>1. Bump(calls[t]) \in 0..MaxCount /\ Bump(calls[t]) <= calls[t] + 1
    BY <1>3, BumpBounds
  <2>2. QED  BY <1>3, <2>1, NumbersAssumption
<1>5. /\ started[t] \in Int /\ calls[t] \in Nat /\ calls[t] + 1 \in Nat
      /\ freq[t] \in Nat /\ now \in Nat /\ pass \in Nat
  BY <1>2, TimerNumbers
<1>6. calls'[t] * freq[t] <= (calls[t] + 1) * freq[t]
  BY <1>4, <1>5, FewerPeriods
<1>7. calls'[t] * freq[t] \in Nat /\ (calls[t] + 1) * freq[t] \in Nat
  BY <1>4, <1>5, NextPeriod
<1>8. /\ started[t] + (calls[t] + 1) * freq[t] <= cur.next_tick
      /\ cur.next_tick <= pass /\ pass <= now /\ cur.next_tick \in Nat
  BY <1>1, <1>2 DEF Paced, Period, Entry
<1>9. /\ started[t] + calls'[t] * freq[t] <= cur.next_tick
      /\ calls'[t] * freq[t] <= now - started[t]
  BY <1>5, <1>6, <1>7, <1>8
<1>10. \A d \in heap : d.handle \in Timers /\ d.handle # t
  BY <1>2 DEF Placed, InHeap, InHand, TypeOK, Entry
<1>11. NeverAhead'
  <2>1. ASSUME NEW u \in Timers, started'[u] >= 0
        PROVE  calls'[u] * freq'[u] <= now' - started'[u]
    <3>1. CASE u = t  BY <1>1, <1>9, <3>1
    <3>2. CASE u # t  BY <1>1, <1>3, <2>1, <3>2 DEF Paced, NeverAhead
    <3>3. QED  BY <3>1, <3>2
  <2>2. QED  BY <2>1 DEF NeverAhead
<1>12. ASSUME NEW d \in heap'
       PROVE  Period(d.handle, calls[d.handle] + 1)' <= d.next_tick
  <2>1. d \in heap  BY <1>1
  <2>2. calls'[d.handle] = calls[d.handle]  BY <1>3, <1>10, <2>1
  <2>3. Period(d.handle, calls[d.handle] + 1) <= d.next_tick  BY <2>1 DEF Paced
  <2>4. QED  BY <1>1, <2>2, <2>3 DEF Period
<1>13. Period(cur.handle, calls[cur.handle])' <= cur'.next_tick
  BY <1>1, <1>9 DEF Period
<1>14. started[t] # -1  BY <1>2 DEF Placed, InHand
<1>15. \A u \in Timers : started'[u] <= now' /\ (started'[u] = -1 => calls'[u] = 0)
  BY <1>1, <1>3, <1>14 DEF Paced
<1>16. QED  BY <1>1, <1>11, <1>12, <1>13, <1>15 DEF Paced

\* The entry goes back one period later.
LEMMA RequeuePaced ==
  ASSUME TypeOK, TypeOK', Placed, Paced, Requeue
  PROVE  Paced'
<1> DEFINE t == cur.handle
           e == [cur EXCEPT !.next_tick = @ + freq[t]]
<1>1. /\ pc \in {"in", "requeue"} /\ pc' = "pop"
      /\ heap' = heap \cup {e}
      /\ UNCHANGED <<now, freq, pass, started, calls>>
  BY DEF Requeue, history
<1>2. cur \in Entry /\ t \in Timers  BY <1>1, HandHolds DEF Placed
<1>3. /\ started[t] \in Int /\ freq[t] \in Nat /\ calls[t] * freq[t] \in Nat
      /\ (calls[t] + 1) * freq[t] = calls[t] * freq[t] + freq[t]
  BY <1>2, TimerNumbers
<1>4. e.handle = t /\ e.next_tick = cur.next_tick + freq[t] /\ cur.next_tick \in Nat
  BY <1>2 DEF Entry
<1>5. started[t] + calls[t] * freq[t] <= cur.next_tick
  BY <1>1 DEF Paced, Period
<1>6. started[t] + (calls[t] + 1) * freq[t] <= e.next_tick
  <2>1. started[t] + (calls[t] * freq[t] + freq[t]) <= cur.next_tick + freq[t]
    BY <1>3, <1>4, <1>5
  <2>2. QED  BY <1>3, <1>4, <2>1
<1> HIDE DEF e
<1>7. \A d \in heap' : Period(d.handle, calls[d.handle] + 1)' <= d.next_tick
  BY <1>1, <1>4, <1>6 DEF Paced, Period
<1>8. QED  BY <1>1, <1>7 DEF Paced, NeverAhead

\* Each step preserves the pace.
LEMMA NextPaced == TypeOK /\ Placed /\ Paced /\ [Next]_vars => Paced'
<1> SUFFICES ASSUME TypeOK, Placed, Paced, [Next]_vars PROVE Paced'
  OBVIOUS
<1>0. TypeOK'  BY NextTypeOK
<1>a. now \in Nat /\ pass \in Nat /\ pass <= now
  BY NumbersAssumption DEF TypeOK, Paced
<1>1. CASE TimePasses
  BY <1>0, <1>1, <1>a, FramePaced DEF TimePasses, io, history
<1>2. ASSUME NEW who \in Callers, NEW t \in Timers, NEW f \in Freqs,
             Start(who, t, f) \/ Construct(who, t, f)
      PROVE  Paced'
  BY <1>0, <1>2, StartPaced DEF Start, Construct, io
<1>3. ASSUME NEW who \in Callers, NEW t \in Timers, Stop(who, t) PROVE Paced'
  BY <1>0, <1>3, <1>a, FramePaced DEF Stop, io
<1>4. ASSUME NEW who \in Callers, NEW t \in Oneshots, NEW destroy \in BOOLEAN,
             Cancel(who, t, destroy)
      PROVE  Paced'
  BY <1>0, <1>4, <1>a, FramePaced DEF Cancel, io
<1>5. ASSUME NEW t \in Oneshots, AssignHandle(t) PROVE Paced'
  BY <1>0, <1>5, <1>a, FramePaced DEF AssignHandle, io, history
<1>6. CASE TickBegin
  BY <1>0, <1>6, <1>a, FramePaced DEF TickBegin, history
<1>7. CASE TickEnd  BY <1>0, <1>7, <1>a, FramePaced DEF TickEnd
<1>8. CASE Check  BY <1>0, <1>8, <1>a, FramePaced DEF Check, history
<1>9. CASE Call  BY <1>0, <1>9, CallPaced
<1>10. CASE OneshotStop  BY <1>0, <1>10, <1>a, FramePaced DEF OneshotStop
<1>11. CASE Requeue  BY <1>0, <1>11, RequeuePaced
<1>12. CASE Throw
  <2>1. /\ pc' = "idle" /\ pass' = 0
        /\ UNCHANGED <<now, heap, freq, started, calls>>
    BY <1>12 DEF Throw
  <2>2. QED  BY <1>a, <2>1 DEF Paced, Period, NeverAhead
<1>13. CASE Retire
  <2>1. /\ pc' = "pop"
        /\ UNCHANGED <<now, heap, freq, pass, started, calls>>
    BY <1>13 DEF Retire
  <2>2. QED  BY <2>1 DEF Paced, Period, NeverAhead
<1>14. ASSUME NEW e \in heap, Pop(e) PROVE Paced'
  BY <1>14, PopPaced DEF Pop
<1>15. CASE UNCHANGED vars
  BY <1>0, <1>15, <1>a, FramePaced DEF vars, state, history
<1>16. QED
  BY <1>1, <1>2, <1>3, <1>4, <1>5, <1>6, <1>7, <1>8, <1>9, <1>10, <1>11,
     <1>12, <1>13, <1>14, <1>15
  DEF Next, Use, Tick

------------------------------------------------------------------------------
(* The calls of oneshot_timers.                                               *)

LEMMA InitOncePerObject == Init => OncePerObject
BY TimersAssumption DEF Init, OncePerObject, Destroyed, Called

\* What OncePerObject says of one of them, in full.
Once(t) == /\ Destroyed(t) => stoppedBy[t] # {}
           /\ ~shared =>
                /\ started[t] # -1 => object[t] = "ready" \/ Destroyed(t)
                /\ calls[t] <= 1
                /\ calls[t] = 1 => \/ t \in deleted \/ stops[t] = 1 \/ t \in thrown
                                   \/ pc = "in" /\ InHand(t)
                /\ Called(t) => calls[t] = 0

LEMMA NextOncePerObject ==
  TypeOK /\ Placed /\ StopsKept /\ OncePerObject /\ [Next]_vars => OncePerObject'
<1> SUFFICES ASSUME TypeOK, Placed, StopsKept, [Next]_vars, NEW t \in Oneshots, Once(t)
             PROVE  Once(t)'
  BY DEF OncePerObject, Once
<1>0. t \in Timers /\ t \in DOMAIN object /\ calls[t] \in 0..MaxCount
  BY TimersAssumption DEF TypeOK
<1> USE DEF Once, Destroyed, Called, InHand
<1>1. CASE TimePasses
  BY <1>1 DEF TimePasses, io, history
<1>2. ASSUME NEW who \in Callers, NEW u \in Timers, NEW f \in Freqs,
             Start(who, u, f) \/ Construct(who, u, f), UNCHANGED shared
      PROVE  Once(t)'
  <2>1. CASE u = t
    <3>1. /\ started[t] = -1 /\ Construct(who, t, f)
      BY <1>2, <2>1 DEF Start, Construct, StartTimer
    <3>2. ~InHeap(t) /\ ~InHand(t) /\ stops[t] = 0 /\ t \notin thrown
      BY <1>0, <3>1 DEF Placed
    <3>3. ~shared => object'[t] = "ready"
      <4>1. object' = [object EXCEPT ![t] = IF who = "io" THEN "ready" ELSE "constructing"]
        BY <3>1 DEF Construct
      <4>2. who = "io" => object'[t] = "ready"  BY <1>0, <4>1
      <4>3. ~shared => who = "io"  BY <3>1 DEF Construct, MayCall
      <4>4. QED  BY <4>2, <4>3
    <3>4. QED  BY <1>2, <3>1, <3>2, <3>3 DEF Construct, io
  <2>2. CASE u # t
    BY <1>0, <1>2, <2>2 DEF Start, Construct, StartTimer, io, TypeOK
  <2>3. QED  BY <2>1, <2>2
<1>s. ASSUME NEW who \in Callers, NEW u \in Timers, StopTimer(who, u)
      PROVE  /\ deleted \subseteq deleted' /\ u \in deleted'
             /\ stoppedBy[t] \subseteq stoppedBy'[t] /\ (u = t => stoppedBy'[t] # {})
  BY <1>0, <1>s DEF StopTimer, TypeOK
<1>3. ASSUME NEW who \in Callers, NEW u \in Timers, Stop(who, u), UNCHANGED shared PROVE Once(t)'
  BY <1>0, <1>3, <1>s DEF Stop, io
<1>4. ASSUME NEW who \in Callers, NEW u \in Oneshots, NEW destroy \in BOOLEAN,
             Cancel(who, u, destroy), UNCHANGED shared
      PROVE  Once(t)'
  <2>1. u \in Timers  BY TimersAssumption
  <2>2. /\ u # t => object'[t] = object[t]
        /\ u = t => object'[t] \in {object[t], "destroyed"}
    BY <1>0, <1>4 DEF Cancel, TypeOK
  <2>3. QED  BY <1>0, <1>4, <1>s, <2>1, <2>2 DEF Cancel, io
<1>5. ASSUME NEW u \in Oneshots, AssignHandle(u) PROVE Once(t)'
  BY <1>0, <1>5 DEF AssignHandle, io, history, TypeOK
<1>6. CASE TickBegin /\ UNCHANGED shared
  BY <1>6 DEF TickBegin, history
<1>7. CASE TickEnd /\ UNCHANGED shared
  BY <1>7 DEF TickEnd
<1>8. CASE Check /\ UNCHANGED shared
  <2>1. pc = "check" /\ cur.handle = t => stops[t] = 0 /\ t \notin thrown
    BY <1>0 DEF Placed
  <2>2. QED  BY <1>0, <1>8, <2>1 DEF Check, history
<1>9. CASE Call /\ UNCHANGED shared
  <2>1. CASE cur.handle = t
    <3>1. calls'[t] = Bump(calls[t])  BY <1>0, <1>9, <2>1 DEF Call, TypeOK
    <3>2. calls[t] = 0 => calls'[t] = 1  BY <1>0, <3>1, BumpBounds
    <3>3. QED  BY <1>9, <2>1, <3>2 DEF Call
  <2>2. CASE cur.handle # t
    BY <1>0, <1>9, <2>2 DEF Call, TypeOK
  <2>3. QED  BY <2>1, <2>2
<1>10. CASE OneshotStop /\ UNCHANGED shared
  <2>1. pc = "in" /\ pc' = "requeue" /\ UNCHANGED <<cur, object, started, calls, stops, thrown>>
    BY <1>10 DEF OneshotStop
  <2>2. deleted \subseteq deleted' /\ stoppedBy[t] \subseteq stoppedBy'[t]
    BY <1>0, <1>10, <1>s, TimersAssumption DEF OneshotStop, Callers
  <2>3. ~shared /\ cur.handle = t => t \in deleted'
    <3>1. CASE object[t] = "ready"
      BY <1>0, <1>10, <1>s, <3>1 DEF OneshotStop, Callers
    <3>2. ASSUME ~shared, cur.handle = t, object[t] # "ready" PROVE t \in deleted'
      <4>1. started[t] # -1 /\ stops[t] = 0  BY <1>0, <3>2 DEF Placed
      <4>2. t \in deleted  BY <1>0, <3>2, <4>1 DEF StopsKept
      <4>3. QED  BY <2>2, <4>2
    <3>3. QED  BY <3>1, <3>2
  <2>4. QED  BY <1>10, <2>1, <2>2, <2>3
<1>11. CASE Requeue /\ UNCHANGED shared
  BY <1>11 DEF Requeue, history
<1>12. CASE Throw /\ UNCHANGED shared
  BY <1>12 DEF Throw
<1>13. CASE Retire /\ UNCHANGED shared
  <2>1. cur.handle = t => stops[t] = 0 /\ stops'[t] = Bump(stops[t])
    BY <1>0, <1>13 DEF Retire, Placed, TypeOK
  <2>2. cur.handle = t => stops'[t] = 1  BY <1>0, <2>1, BumpBounds DEF TypeOK
  <2>3. cur.handle # t => stops'[t] = stops[t]  BY <1>0, <1>13 DEF Retire, TypeOK
  <2>4. QED  BY <1>13, <2>2, <2>3 DEF Retire
<1>14. ASSUME NEW e \in heap, Pop(e), UNCHANGED shared PROVE Once(t)'
  BY <1>14 DEF Pop
<1>15. CASE UNCHANGED vars
  BY <1>15 DEF vars, state, history
<1>16. QED
  BY <1>1, <1>2, <1>3, <1>4, <1>5, <1>6, <1>7, <1>8, <1>9, <1>10, <1>11,
     <1>12, <1>13, <1>14, <1>15
  DEF Next, Use, Tick

------------------------------------------------------------------------------
(* Theorems.                                                                  *)

\* The invariant holds at the start and is preserved by every step.
LEMMA InitInvariant == Init => InductiveInvariant
BY InitTypeOK, InitPlaced, InitStopsKept, InitPaced, InitOncePerObject DEF InductiveInvariant

LEMMA NextInvariant == InductiveInvariant /\ [Next]_vars => InductiveInvariant'
BY NextTypeOK, NextPlaced, NextStopsKept, NextPaced, NextOncePerObject DEF InductiveInvariant

\* InductiveInvariantHolds: places, stops and pace are kept for ever.
THEOREM InductiveInvariantHolds == Spec => []InductiveInvariant
BY InitInvariant, NextInvariant, PTL DEF Spec

\* TypeCorrect: every variable keeps its type.
THEOREM TypeCorrect == Spec => []TypeOK
<1>1. InductiveInvariant => TypeOK  BY DEF InductiveInvariant
<1>2. QED  BY <1>1, InductiveInvariantHolds, PTL

\* The places exclude each other and one of them is taken: the sum is one.
LEMMA PlacedOnce ==
  ASSUME TypeOK, Placed
  PROVE  InOnePlace
<1> SUFFICES ASSUME NEW t \in Timers, started[t] >= 0
             PROVE  Cardinality(Entries(t)) + (IF cur.handle = t THEN 1 ELSE 0)
                      + stops[t] + (IF t \in thrown THEN 1 ELSE 0) = 1
  BY DEF InOnePlace
<1>1. started[t] # -1  OBVIOUS
<1>2. InHeap(t) => Cardinality(Entries(t)) = 1
  <2>1. ASSUME InHeap(t) PROVE Cardinality(Entries(t)) = 1
    <3>1. PICK e \in heap : e.handle = t  BY <2>1 DEF InHeap
    <3>2. Entries(t) = {e}  BY <3>1 DEF Entries, Placed
    <3>3. QED  BY <3>2, FS_Singleton
  <2>2. QED  BY <2>1
<1>3. ~InHeap(t) => Cardinality(Entries(t)) = 0
  <2>1. ASSUME ~InHeap(t) PROVE Cardinality(Entries(t)) = 0
    <3>1. Entries(t) = {}  BY <2>1 DEF Entries, InHeap
    <3>2. QED  BY <3>1, FS_EmptySet
  <2>2. QED  BY <2>1
<1>4. QED  BY <1>1, <1>2, <1>3 DEF Placed, InHand

\* InOnePlaceHolds: no started timer is lost or doubled by start_timer(),
\* stop_timer(), a callback or an exception, between whatever critical sections
\* of tick_timers() they fall.
THEOREM InOnePlaceHolds == Spec => []InOnePlace
<1>1. InductiveInvariant => InOnePlace  BY PlacedOnce DEF InductiveInvariant
<1>2. QED  BY <1>1, InductiveInvariantHolds, PTL

\* NeverAheadHolds: on_tick is never called more often than periods went by.
THEOREM NeverAheadHolds == Spec => []NeverAhead
<1>1. InductiveInvariant => NeverAhead  BY DEF InductiveInvariant, Paced
<1>2. QED  BY <1>1, InductiveInvariantHolds, PTL

\* OneLateCallHolds: after stop_timer() at most one more on_tick begins.
THEOREM OneLateCallHolds == Spec => []OneLateCall
<1>1. InductiveInvariant => OneLateCall
  BY DEF InductiveInvariant, StopsKept, OneLateCall
<1>2. QED  BY <1>1, InductiveInvariantHolds, PTL

\* OneshotOnceAloneHolds (timer.h: "The provided callback is called only once"): when only the IO
\* thread uses timers, a oneshot_timer calls at most once, whenever it is cancelled or destroyed.
THEOREM OneshotOnceAloneHolds == Spec => []OneshotOnceAlone
<1>1. InductiveInvariant => OneshotOnceAlone
  BY DEF InductiveInvariant, OncePerObject, OneshotOnceAlone, OneshotOnce
<1>2. QED  BY <1>1, InductiveInvariantHolds, PTL

\* Only Call calls, and only the timer in hand; only Retire calls on_stop.
LEMMA WhoIsCalled ==
  ASSUME InductiveInvariant, [Next]_vars, NEW t \in Timers
  PROVE  /\ calls'[t] # calls[t] => Called(t)
         /\ stops'[t] # stops[t] => pc = "retire" /\ InHand(t)
<1> USE DEF Called, InHand
<1>1. CASE Call
  BY <1>1 DEF Call, InductiveInvariant, TypeOK
<1>2. CASE Retire
  BY <1>2 DEF Retire, InductiveInvariant, TypeOK
<1>3. CASE UNCHANGED <<calls, stops>>  BY <1>3
<1>4. QED
  BY <1>1, <1>2, <1>3
  DEF Next, Use, Tick, TimePasses, Start, Construct, Stop, Cancel, AssignHandle,
      TickBegin, TickEnd, Check, OneshotStop, Requeue, Throw, Pop, vars, state,
      history

\* IoStopIsExactHolds: after stop_timer() on the IO thread no on_tick begins.
THEOREM IoStopIsExactHolds == Spec => IoStopIsExact
<1>1. ASSUME InductiveInvariant, [Next]_vars
      PROVE  [\A t \in Timers : "io" \in stoppedBy[t] => calls'[t] = calls[t]]_vars
  BY <1>1, WhoIsCalled DEF InductiveInvariant, StopsKept
<1>2. QED  BY <1>1, InductiveInvariantHolds, PTL DEF Spec, IoStopIsExact

\* StoppedForGoodHolds: once on_stop was called, no callback is called again.
THEOREM StoppedForGoodHolds == Spec => StoppedForGood
<1>1. ASSUME InductiveInvariant, [Next]_vars
      PROVE  [\A t \in Timers : stops[t] > 0 =>
                calls'[t] = calls[t] /\ stops'[t] = stops[t]]_vars
  BY <1>1, WhoIsCalled DEF InductiveInvariant, Placed, Called
<1>2. QED  BY <1>1, InductiveInvariantHolds, PTL DEF Spec, StoppedForGood
==============================================================================
