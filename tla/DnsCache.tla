------------------------------- MODULE DnsCache --------------------------------
(***************************************************************************)
(* tpp::resolve_hostname() (src/dns.cpp) called by ssl_connection::connect *)
(* (src/ssl_connection.cpp) from any thread: the application's, and the IO *)
(* thread's that retries a connection.  Each critical section of           *)
(* dns_cache_mutex is a step; getaddrinfo() runs without it; the caller    *)
(* uses the pointer it got after it.                                       *)
(***************************************************************************)
EXTENDS Naturals

CONSTANTS Thread, Host,
          Io,       \* the thread of Thread that retries, or None
          Hour,     \* how long an entry is good, in ticks
          MaxCalls, \* bound: entries ever made
          MaxTime,  \* bound: time(nullptr)
          None

CacheAssumption ==
  /\ Hour \in Nat \ {0} /\ MaxCalls \in Nat /\ MaxTime \in Nat
  /\ None \notin Thread \cup Nat

VARIABLES now,
          dns_cache, \* host -> the number of its entry
          expire,    \* history: when each entry expires, of those that were freed too
          call_count,
          pc,        \* thread -> "idle", "lookup", "erase", "resolve", "emplace", "use", or
                     \* "dead" when std::terminate() was called
          host,      \* thread -> the argument
          began,     \* thread -> `now`, read before the cache is
          entry      \* thread -> the number of the entry it makes or was given

call == <<call_count, host, began>>
vars == <<now, dns_cache, expire, call, pc, entry>>

Init ==
  /\ now = 0
  /\ dns_cache = [h \in Host |-> None]
  /\ expire = [n \in 1..MaxCalls |-> 0]
  /\ call_count = 0
  /\ pc = [t \in Thread |-> "idle"]
  /\ host = [t \in Thread |-> None] /\ began = [t \in Thread |-> 0]
  /\ entry = [t \in Thread |-> None]

Goto(t, where) == pc' = [pc EXCEPT ![t] = where]
Give(t, n) == entry' = [entry EXCEPT ![t] = n] /\ Goto(t, "use")

\* connect(), from a constructor or from the retry timer.
Call(t, h) ==
  /\ pc[t] = "idle" /\ call_count < MaxCalls
  /\ call_count' = call_count + 1
  /\ host' = [host EXCEPT ![t] = h]
  /\ began' = [began EXCEPT ![t] = now]
  /\ entry' = [entry EXCEPT ![t] = call_count']
  /\ Goto(t, "lookup")
  /\ UNCHANGED <<now, dns_cache, expire>>

\* Under a shared lock.
Lookup(t) ==
  /\ pc[t] = "lookup"
  /\ LET n == dns_cache[host[t]] IN
     IF n # None /\ began[t] < expire[n] THEN Give(t, n)
     ELSE Goto(t, IF n # None THEN "erase" ELSE "resolve") /\ UNCHANGED entry
  /\ UNCHANGED <<now, dns_cache, expire, call>>

\* Whatever entry the host has by now is erased.
EraseExpired(t) ==
  /\ pc[t] = "erase"
  /\ dns_cache' = [dns_cache EXCEPT ![host[t]] = None]
  /\ Goto(t, "resolve")
  /\ UNCHANGED <<now, expire, call, entry>>

GetAddrInfo(t) ==
  /\ pc[t] = "resolve"
  /\ Goto(t, "emplace")
  /\ UNCHANGED <<now, dns_cache, expire, call, entry>>

\* It throws a std::string, which nothing catches on the IO thread: not the retry, not the loop,
\* and the process ends.  On another thread it is for the application to catch.
GetAddrInfoFails(t) ==
  /\ pc[t] = "resolve"
  /\ pc' = IF t = Io THEN [u \in Thread |-> "dead"] ELSE [pc EXCEPT ![t] = "idle"]
  /\ UNCHANGED <<now, dns_cache, expire, call, entry>>

\* Fault: emplace() replaces the entry that is there.
EmplaceReplaces(t) ==
  /\ pc[t] = "emplace"
  /\ expire' = [expire EXCEPT ![entry[t]] = began[t] + Hour]
  /\ dns_cache' = [dns_cache EXCEPT ![host[t]] = entry[t]]
  /\ Give(t, entry[t])
  /\ UNCHANGED <<now, call>>

\* emplace() keeps the entry that another thread has put there meanwhile.
Emplace(t) ==
  /\ pc[t] = "emplace"
  /\ LET present == dns_cache[host[t]] IN
     IF present # None
     THEN Give(t, present) /\ UNCHANGED <<expire, dns_cache>>
     ELSE /\ expire' = [expire EXCEPT ![entry[t]] = began[t] + Hour]
          /\ dns_cache' = [dns_cache EXCEPT ![host[t]] = entry[t]]
          /\ Give(t, entry[t])
  /\ UNCHANGED <<now, call>>

\* The caller has its socket and its address.
Use(t) ==
  /\ pc[t] = "use"
  /\ Goto(t, "idle")
  /\ UNCHANGED <<now, dns_cache, expire, call, entry>>

\* A call takes less than an hour.
Tick ==
  /\ now < MaxTime
  /\ \A t \in Thread : pc[t] # "idle" => now + 1 < began[t] + Hour
  /\ now' = now + 1
  /\ UNCHANGED <<dns_cache, expire, call, pc, entry>>

Resolve(t) ==
  \/ Lookup(t) \/ EraseExpired(t) \/ GetAddrInfo(t) \/ GetAddrInfoFails(t) \/ Emplace(t)
  \/ Use(t)

Next == Tick \/ \E t \in Thread : Resolve(t) \/ \E h \in Host : Call(t, h)

Spec == Init /\ [][Next]_vars
-----------------------------------------------------------------------------
(* Properties.                                                               *)

\* The entry a caller is given had not expired when it called, also if another thread made it.
GivenIsFresh == \A t \in Thread : pc[t] = "use" => began[t] < expire[entry[t]]

\* Threads that resolve a host at once share one entry: nobody's pointer dangles before the
\* first entry has expired.  After that, it can.
SharedUntilExpired ==
  (\A n \in 1..MaxCalls : expire[n] # 0 => now < expire[n]) =>
    \A t \in Thread : pc[t] = "use" => dns_cache[host[t]] = entry[t]

\* dns.h: "@throw tpp::connection_exception On failure to resolve hostname", which the retry
\* and the loop of the IO thread catch.
FailureIsCaught == \A t \in Thread : pc[t] # "dead"

-----------------------------------------------------------------------------
(* The inductive invariant behind GivenIsFresh and SharedUntilExpired.       *)

Asking == {"lookup", "erase", "resolve", "emplace"}
Busy(t) == pc[t] \in Asking \cup {"use"}

TypeOK ==
  /\ now \in Nat /\ call_count \in 0..MaxCalls
  /\ dns_cache \in [Host -> 1..call_count \cup {None}]
  /\ expire \in [1..MaxCalls -> Nat]
  /\ pc \in [Thread -> Asking \cup {"use", "idle", "dead"}]
  /\ host \in [Thread -> Host \cup {None}] /\ began \in [Thread -> Nat]
  /\ entry \in [Thread -> 1..call_count \cup {None}]
  /\ \A t \in Thread : Busy(t) => host[t] \in Host /\ entry[t] # None

\* An entry that no thread has put in the cache yet has no expiry, and one thread makes it.
NewEntries ==
  /\ \A n \in 1..MaxCalls : n > call_count => expire[n] = 0
  /\ \A h \in Host : dns_cache[h] # None => expire[dns_cache[h]] # 0
  /\ \A t \in Thread : pc[t] \in Asking => expire[entry[t]] = 0
  /\ \A t, u \in Thread :
       t # u /\ pc[t] \in Asking /\ pc[u] \in Asking => entry[t] # entry[u]

\* A call began less than an hour ago; what was put in the cache since is good for it.
Recent ==
  \A t \in Thread : Busy(t) =>
    /\ began[t] <= now /\ now < began[t] + Hour
    /\ pc[t] \in {"resolve", "emplace"} /\ dns_cache[host[t]] # None =>
         began[t] < expire[dns_cache[host[t]]]

Unexpired == \A n \in 1..MaxCalls : expire[n] # 0 => now < expire[n]
NothingErased == Unexpired => \A t \in Thread : pc[t] # "erase"

InductiveInvariant ==
  TypeOK /\ NewEntries /\ Recent /\ NothingErased /\ GivenIsFresh /\ SharedUntilExpired
=============================================================================
