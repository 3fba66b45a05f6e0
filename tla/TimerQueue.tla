----------------------------- MODULE TimerQueue ------------------------------
(* The timers of tpp::conduit (src/timer.cpp, inc/tpp/timer.h) and the code   *)
(* that drives them, socket_engine_base::prune().  start_timer() and          *)
(* stop_timer() are called by any thread, tick_timers() runs on the IO        *)
(* thread; a step is one critical section of timer_guard or one callback.     *)
EXTENDS Integers, FiniteSets

CONSTANTS Timers,      \* the handles start_timer() may give out
          Oneshots,    \* those of the timers that belong to a oneshot_timer
          Throwers,    \* those whose callback may throw a std::exception
          Freqs,       \* the frequencies (durations) timers are started with
          AppThreads,  \* what may be `shared`
          NoTimer,     \* no handle
          MaxTime,     \* bound: time(nullptr) stops here
          MaxCount     \* bound: the history counters saturate here

ASSUME TimersAssumption == /\ Oneshots \subseteq Timers
                           /\ Throwers \subseteq Timers
                           /\ IsFiniteSet(Timers)
                           /\ NoTimer \notin Timers
ASSUME NumbersAssumption == /\ Freqs \subseteq Nat
                            /\ MaxTime \in Nat
                            /\ MaxCount \in Nat \ {0}
                            /\ AppThreads \subseteq BOOLEAN

VARIABLES shared,     \* whether threads other than the IO thread use timers; it never changes
          now,        \* time(nullptr)
          lastTime,   \* last_time of socketengine.cpp
          heap,       \* next_timer: the entries waiting, by next_tick
          freq,       \* the frequency each timer was started with
          deleted,    \* deleted_timers
          pc,         \* where the IO thread is in tick_timers()
          pass,       \* the local `now` of tick_timers()
          left,       \* the iterations tick_timers() has left
          cur,        \* cur_timer, as an entry of the heap
          object,     \* the life of each oneshot_timer object
          started,    \* history: when each timer was started, -1 before
          calls,      \* history: how often on_tick was called
          lateCalls,  \* history: how often after a stop_timer() had returned
          stops,      \* history: how often on_stop was called
          stoppedBy,  \* history: the threads whose stop_timer() returned
          thrown      \* history: the timers whose callback threw

state == <<now, lastTime, heap, freq, deleted, pc, pass, left, cur, object>>
history == <<started, calls, lateCalls, stops, stoppedBy, thrown>>
io == <<lastTime, pc, pass, left, cur>>
vars == <<shared, state, history>>

Entry == [handle : Timers, next_tick : Nat]
NoEntry == [handle |-> NoTimer, next_tick |-> 0]
Bump(n) == IF n < MaxCount THEN n + 1 ELSE n

Init == /\ shared \in AppThreads
        /\ now = 0 /\ lastTime = 0
        /\ heap = {} /\ deleted = {}
        /\ freq = [t \in Timers |-> 0]
        /\ pc = "idle" /\ pass = 0 /\ left = 0 /\ cur = NoEntry
        /\ object = [t \in Oneshots |-> "none"]
        /\ started = [t \in Timers |-> -1]
        /\ calls = [t \in Timers |-> 0]
        /\ lateCalls = [t \in Timers |-> 0]
        /\ stops = [t \in Timers |-> 0]
        /\ stoppedBy = [t \in Timers |-> {}]
        /\ thrown = {}

\* The clock.
TimePasses == /\ now < MaxTime
              /\ now' = now + 1
              /\ UNCHANGED <<shared, heap, freq, deleted, object, io, history>>

------------------------------------------------------------------------------
(* start_timer, stop_timer and oneshot_timer, called by the IO thread outside *)
(* tick_timers() or inside a callback of it, or by an application thread.     *)

Callers == {"io", "app"}
MayCall(who) == IF who = "io" THEN pc \in {"idle", "in"} ELSE shared

StartTimer(t, f) == /\ started[t] = -1
                    /\ started' = [started EXCEPT ![t] = now]
                    /\ freq' = [freq EXCEPT ![t] = f]
                    /\ heap' = heap \cup {[handle |-> t, next_tick |-> now + f]}

\* Fault: stop_timer() only finds timers that are waiting in next_timer.
StopWaitingTimer(who, t) ==
  /\ deleted' = IF \E e \in heap : e.handle = t THEN deleted \cup {t} ELSE deleted
  /\ stoppedBy' = [stoppedBy EXCEPT ![t] = @ \cup {who}]

StopTimer(who, t) == /\ deleted' = deleted \cup {t}
                     /\ stoppedBy' = [stoppedBy EXCEPT ![t] = @ \cup {who}]

Start(who, t, f) == /\ MayCall(who) /\ t \notin Oneshots
                    /\ StartTimer(t, f)
                    /\ UNCHANGED <<now, deleted, object, io>>
                    /\ UNCHANGED <<calls, lateCalls, stops, stoppedBy, thrown>>

Stop(who, t) == /\ MayCall(who) /\ t \notin Oneshots
                /\ started[t] >= 0
                /\ StopTimer(who, t)
                /\ UNCHANGED <<now, heap, freq, object, io>>
                /\ UNCHANGED <<started, calls, lateCalls, stops, thrown>>

\* oneshot_timer::oneshot_timer(): the timer is in the heap before the member
\* th is assigned.  The IO thread cannot tick in between when it is the IO
\* thread that runs the constructor.
Construct(who, t, f) ==
  /\ MayCall(who) /\ t \in Oneshots
  /\ StartTimer(t, f)
  /\ object' = [object EXCEPT ![t] = IF who = "io" THEN "ready" ELSE "constructing"]
  /\ UNCHANGED <<now, deleted, io>>
  /\ UNCHANGED <<calls, lateCalls, stops, stoppedBy, thrown>>

AssignHandle(t) == /\ object[t] = "constructing"
                   /\ object' = [object EXCEPT ![t] = "ready"]
                   /\ UNCHANGED <<shared, now, heap, freq, deleted, io, history>>

\* oneshot_timer::cancel(), or the destructor, which cancels.
Cancel(who, t, destroy) ==
  /\ MayCall(who)
  /\ object[t] = "ready"
  /\ StopTimer(who, t)
  /\ object' = IF destroy THEN [object EXCEPT ![t] = "destroyed"] ELSE object
  /\ UNCHANGED <<now, heap, freq, io>>
  /\ UNCHANGED <<started, calls, lateCalls, stops, thrown>>

------------------------------------------------------------------------------
(* tick_timers, called by prune() in every second it finds new.  At the bound *)
(* MaxTime the clock stands for all later times, each of them new.            *)

NewSecond == now # lastTime \/ now = MaxTime

\* Fault: one iteration too few.
TickBeginShort == /\ pc = "idle" /\ NewSecond
                  /\ IF heap = {}
                     THEN lastTime' = now /\ UNCHANGED <<pc, pass, left>>
                     ELSE /\ pc' = "pop" /\ pass' = now
                          /\ left' = Cardinality(heap) - 1
                          /\ UNCHANGED lastTime
                  /\ UNCHANGED <<now, heap, freq, deleted, cur, object, history>>

TickBegin == /\ pc = "idle" /\ NewSecond
             /\ IF heap = {}
                THEN lastTime' = now /\ UNCHANGED <<pc, pass, left>>
                ELSE /\ pc' = "pop" /\ pass' = now /\ left' = Cardinality(heap)
                     /\ UNCHANGED lastTime
             /\ UNCHANGED <<now, heap, freq, deleted, cur, object, history>>

\* The entries priority_queue::top() may return: ties are in any order.
Soonest == {e \in heap : \A d \in heap : e.next_tick <= d.next_tick}
Due == {e \in Soonest : e.next_tick <= pass}

Pop(e) == /\ pc = "pop" /\ left > 0
          /\ e \in Due
          /\ heap' = heap \ {e}
          /\ cur' = e
          /\ pc' = "check"
          /\ UNCHANGED <<now, lastTime, freq, deleted, pass, left, object>>
          /\ UNCHANGED <<started, calls, lateCalls, stops, stoppedBy, thrown>>

TickEnd == /\ pc = "pop"
           /\ left = 0 \/ Due = {}
           /\ pc' = "idle" /\ left' = 0 /\ pass' = 0
           /\ lastTime' = now
           /\ UNCHANGED <<now, heap, freq, deleted, cur, object>>
           /\ UNCHANGED <<started, calls, lateCalls, stops, stoppedBy, thrown>>

Check == /\ pc = "check"
         /\ pc' = IF cur.handle \in deleted THEN "retire" ELSE "call"
         /\ UNCHANGED <<now, lastTime, heap, freq, deleted, pass, left, cur, object>>
         /\ UNCHANGED history

\* on_tick is entered.
Call == LET t == cur.handle
        IN  /\ pc = "call"
            /\ pc' = "in"
            /\ calls' = [calls EXCEPT ![t] = Bump(@)]
            /\ lateCalls' = IF stoppedBy[t] # {}
                            THEN [lateCalls EXCEPT ![t] = Bump(@)] ELSE lateCalls
            /\ UNCHANGED <<now, lastTime, heap, freq, deleted, pass, left, cur, object>>
            /\ UNCHANGED <<started, stops, stoppedBy, thrown>>

\* Fault: the lambda of a oneshot_timer does not stop its timer.
OneshotGoesOn == /\ pc = "in" /\ cur.handle \in Oneshots
                 /\ pc' = "requeue"
                 /\ UNCHANGED <<now, lastTime, heap, freq, deleted, pass, left, cur, object>>
                 /\ UNCHANGED history

\* The lambda of a oneshot_timer ends with stop_timer(this->th).  A member
\* that is not assigned yet, or that is gone, holds any value.
OneshotStop == LET t == cur.handle
               IN  /\ pc = "in" /\ t \in Oneshots
                   /\ \/ object[t] = "ready" /\ StopTimer("io", t)
                      \/ /\ object[t] # "ready"
                         /\ \/ \E u \in Timers : StopTimer("io", u)
                            \/ UNCHANGED <<deleted, stoppedBy>>
                   /\ pc' = "requeue"
                   /\ UNCHANGED <<now, lastTime, heap, freq, pass, left, cur, object>>
                   /\ UNCHANGED <<started, calls, lateCalls, stops, thrown>>

\* Fault: next_tick is not advanced.
RequeueUnchanged == LET t == cur.handle
                    IN  /\ pc = "requeue" \/ (pc = "in" /\ t \notin Oneshots)
                        /\ heap' = heap \cup {cur}
                        /\ pc' = "pop" /\ left' = left - 1 /\ cur' = NoEntry
                        /\ UNCHANGED <<now, lastTime, freq, deleted, pass, object, history>>

\* on_tick has returned: the entry goes back, one period later.
Requeue == LET t == cur.handle
           IN  /\ pc = "requeue" \/ (pc = "in" /\ t \notin Oneshots)
               /\ heap' = heap \cup {[cur EXCEPT !.next_tick = @ + freq[t]]}
               /\ pc' = "pop" /\ left' = left - 1 /\ cur' = NoEntry
               /\ UNCHANGED <<now, lastTime, freq, deleted, pass, object, history>>

\* on_tick throws: prune() catches, and the entry is in no container any more.
Throw == /\ pc = "in" /\ cur.handle \in Throwers
         /\ thrown' = thrown \cup {cur.handle}
         /\ pc' = "idle" /\ left' = 0 /\ pass' = 0 /\ cur' = NoEntry
         /\ lastTime' = now
         /\ UNCHANGED <<now, heap, freq, deleted, object>>
         /\ UNCHANGED <<started, calls, lateCalls, stops, stoppedBy>>

\* Fault: a retired timer goes back into the heap as well.
RetireAndRequeue == /\ pc = "retire"
                    /\ stops' = [stops EXCEPT ![cur.handle] = Bump(@)]
                    /\ deleted' = deleted \ {cur.handle}
                    /\ heap' = heap \cup {cur}
                    /\ pc' = "pop" /\ left' = left - 1 /\ cur' = NoEntry
                    /\ UNCHANGED <<now, lastTime, freq, pass, object>>
                    /\ UNCHANGED <<started, calls, lateCalls, stoppedBy, thrown>>

\* The timer was stopped: on_stop is called and the handle is forgotten.
Retire == /\ pc = "retire"
          /\ stops' = [stops EXCEPT ![cur.handle] = Bump(@)]
          /\ deleted' = deleted \ {cur.handle}
          /\ pc' = "pop" /\ left' = left - 1 /\ cur' = NoEntry
          /\ UNCHANGED <<now, lastTime, heap, freq, pass, object>>
          /\ UNCHANGED <<started, calls, lateCalls, stoppedBy, thrown>>

------------------------------------------------------------------------------
Tick == /\ \/ TickBegin \/ TickEnd \/ Check \/ Call \/ OneshotStop \/ Requeue
           \/ Throw \/ Retire
           \/ \E e \in heap : Pop(e)
        /\ UNCHANGED shared

Use == /\ \E who \in Callers :
            \/ \E t \in Timers, f \in Freqs : Start(who, t, f) \/ Construct(who, t, f)
            \/ \E t \in Timers : Stop(who, t)
            \/ \E t \in Oneshots, destroy \in BOOLEAN : Cancel(who, t, destroy)
       /\ UNCHANGED shared

Next == TimePasses \/ Tick \/ Use \/ \E t \in Oneshots : AssignHandle(t)

Spec == Init /\ [][Next]_vars

\* The clock runs and the IO thread keeps polling; callbacks return.
FairSpec == Spec /\ WF_vars(TimePasses) /\ WF_vars(Tick)

------------------------------------------------------------------------------
TypeOK == /\ shared \in BOOLEAN
          /\ now \in 0..MaxTime /\ lastTime \in 0..MaxTime
          /\ heap \subseteq Entry
          /\ freq \in [Timers -> Freqs \cup {0}]
          /\ deleted \subseteq Timers
          /\ pc \in {"idle", "pop", "check", "call", "in", "requeue", "retire"}
          /\ pass \in 0..MaxTime
          /\ left \in Nat
          /\ cur \in Entry \cup {NoEntry}
          /\ object \in [Oneshots -> {"none", "constructing", "ready", "destroyed"}]
          /\ started \in [Timers -> -1..MaxTime]
          /\ calls \in [Timers -> 0..MaxCount]
          /\ lateCalls \in [Timers -> 0..MaxCount]
          /\ stops \in [Timers -> 0..MaxCount]
          /\ stoppedBy \in [Timers -> SUBSET Callers]
          /\ thrown \subseteq Timers

\* InOnePlace: a timer that was started is in exactly one entry of the heap,
\* or in the hands of tick_timers(), or was retired with one call of on_stop,
\* or was lost to an exception, and never two of these: tick_timers() takes
\* entries out and puts them back in different critical sections.
Entries(t) == {e \in heap : e.handle = t}
InOnePlace ==
  \A t \in Timers : started[t] >= 0 =>
    Cardinality(Entries(t)) + (IF cur.handle = t THEN 1 ELSE 0)
      + stops[t] + (IF t \in thrown THEN 1 ELSE 0) = 1

\* NeverAhead: however late, often or irregularly tick_timers() runs, on_tick
\* has never been called more often than periods have gone by since
\* start_timer(), and the entry is always one period past the calls made.
NeverAhead ==
  \A t \in Timers : started[t] >= 0 => calls[t] * freq[t] <= now - started[t]

\* OneLateCall: after a stop_timer() of any thread has returned, on_tick is
\* entered at most once more, however far tick_timers() lags behind.
OneLateCall == \A t \in Timers : lateCalls[t] <= 1

\* IoStopIsExact: after a stop_timer() called on the IO thread, on_tick is
\* never entered again.  The destructor of ssl_connection relies on this: it
\* stops the timer whose callback holds a raw pointer to the connection.
IoStopIsExact ==
  [][\A t \in Timers : "io" \in stoppedBy[t] => calls'[t] = calls[t]]_vars

\* StoppedForGood: once on_stop was called neither callback of the timer is
\* called again, also when the timer is stopped again (oneshot_timer does:
\* its lambda stops it and its destructor does).
StoppedForGood ==
  [][\A t \in Timers : stops[t] > 0 => calls'[t] = calls[t] /\ stops'[t] = stops[t]]_vars

\* OneshotOnce (timer.h: "The provided callback is called only once"): the
\* callback of a oneshot_timer is entered at most once.
OneshotOnce == \A t \in Oneshots : calls[t] <= 1

\* It is when only the IO thread starts and stops timers.
OneshotOnceAlone == ~shared => OneshotOnce

\* NoTimerStarves: an entry whose time has come, or will come, is taken.
NoTimerStarves ==
  \A t \in Timers, d \in 0..MaxTime :
    [handle |-> t, next_tick |-> d] \in heap ~> [handle |-> t, next_tick |-> d] \notin heap

------------------------------------------------------------------------------
(* The invariant the proofs rest on.                                          *)

InHeap(t) == \E e \in heap : e.handle = t
InHand(t) == cur.handle = t

\* Where each timer is.
Placed ==
  /\ IsFiniteSet(heap)
  /\ cur = NoEntry <=> pc \in {"idle", "pop"}
  /\ cur # NoEntry => left > 0
  /\ \A d \in heap, e \in heap : d.handle = e.handle => d = e
  /\ \A t \in Timers :
       /\ started[t] = -1 => ~InHeap(t) /\ ~InHand(t) /\ stops[t] = 0 /\ t \notin thrown
       /\ started[t] # -1 => InHeap(t) \/ InHand(t) \/ stops[t] = 1 \/ t \in thrown
       /\ InHeap(t) => ~InHand(t) /\ stops[t] = 0 /\ t \notin thrown
       /\ InHand(t) => stops[t] = 0 /\ t \notin thrown
       /\ stops[t] = 1 => t \notin thrown
       /\ stops[t] \in {0, 1}

\* What a stop_timer() has left behind for tick_timers() to see.
Called(t) == pc = "call" /\ InHand(t)
StopsKept ==
  \A t \in Timers :
    /\ stoppedBy[t] # {} => t \in deleted \/ stops[t] = 1
    /\ "io" \in stoppedBy[t] => ~Called(t)
    /\ lateCalls[t] <= 1
    /\ lateCalls[t] = 1 => stoppedBy[t] # {} /\ ~Called(t)

\* The entry of a timer is a period ahead of the calls made.
Period(t, n) == started[t] + n * freq[t]
Paced ==
  /\ pass <= now
  /\ \A t \in Timers : /\ started[t] <= now
                       /\ started[t] = -1 => calls[t] = 0
  /\ \A e \in heap : Period(e.handle, calls[e.handle] + 1) <= e.next_tick
  /\ pc \in {"check", "call"} =>
       /\ Period(cur.handle, calls[cur.handle] + 1) <= cur.next_tick
       /\ cur.next_tick <= pass
  /\ pc \in {"in", "requeue"} => Period(cur.handle, calls[cur.handle]) <= cur.next_tick
  /\ NeverAhead

\* Without other threads, a oneshot_timer that has called is stopped, or about to be.
Destroyed(t) == object[t] = "destroyed"
OncePerObject ==
  \A t \in Oneshots :
    /\ Destroyed(t) => stoppedBy[t] # {}
    /\ ~shared =>
         /\ started[t] # -1 => object[t] = "ready" \/ Destroyed(t)
         /\ calls[t] <= 1
         /\ calls[t] = 1 => \/ t \in deleted \/ stops[t] = 1 \/ t \in thrown
                            \/ pc = "in" /\ InHand(t)
         /\ Called(t) => calls[t] = 0

\* InductiveInvariant: the places of the timers, what is left of each stop, the
\* pace of the entries and the calls of oneshot_timers, which tick_timers() keeps in
\* every critical section whatever other threads do between them.
InductiveInvariant == TypeOK /\ Placed /\ StopsKept /\ Paced /\ OncePerObject
==============================================================================
