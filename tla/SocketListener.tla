---------------------------- MODULE SocketListener ----------------------------
(***************************************************************************)
(* tpp::socket_listener as http_server uses it (src/inc/tpp/               *)
(* socket_listener.h, src/src/http_server.cpp): it keeps the connections   *)
(* it accepts in a map by descriptor, and on_socket_close of the socket    *)
(* engine erases them.  The operating system gives a descriptor again as   *)
(* soon as it is closed, to another connection of the server or to an      *)
(* https_client, while the map and the engine still hold the old owner.    *)
(* Each step is a callback of the IO thread.  poll_set has the descriptors *)
(* of fds: nothing comes between the two on one thread.                    *)
(***************************************************************************)
EXTENDS Naturals, FiniteSetsExt

CONSTANTS Accepted,   \* the http_server_requests that may ever exist
          Client,     \* the https_clients that may ever exist
          Fd,         \* the descriptor numbers
          MaxServers, \* bound: http_servers ever made
          None

Conn == Accepted \cup Client

ListenerAssumption ==
  /\ Fd \subseteq Nat /\ MaxServers \in Nat
  /\ Conn \cap Nat = {} /\ Accepted \cap Client = {}
  /\ None \notin Conn \cup Nat \cup [calls : Conn \cup Nat, marked : BOOLEAN]

VARIABLES
  sockets, \* the tables, see Init
  servers, \* how many http_servers were made; they are called by their number
  batch,   \* the descriptors of out_set that process_events() has not visited yet
  pc       \* "idle" outside of the loop of process_events(), or "visit"

vars == <<sockets, servers, batch, pc>>

Init ==
  /\ sockets = [open |-> [f \in Fd |-> None],        \* external: whose socket it is
                fds |-> [f \in Fd |-> None],         \* whom its socket_events call, and the mark
                connections |-> [f \in Fd |-> None], \* of the server
                sfd |-> [c \in Conn |-> None],
                life |-> [c \in Conn |-> "new"],     \* "new", "alive" or "destroyed"
                server |-> None,                     \* the one whose handler is attached
                cut |-> {}]                          \* history: destroyed by on_socket_close
                                                     \* although they were not closed
  /\ servers = 0 /\ batch = {} /\ pc = "idle"

-----------------------------------------------------------------------------
(* What the callbacks call, as functions of the tables.                      *)

\* ssl_connection::close(): delete_socket() marks whichever entry the descriptor has.
Close(s, c) ==
  IF s.sfd[c] = None THEN s
  ELSE [s EXCEPT !.fds[s.sfd[c]] = IF @ = None THEN None ELSE [@ EXCEPT !.marked = TRUE],
                 !.open[s.sfd[c]] = None,
                 !.sfd[c] = None]

Destroy(s, c) == [Close(s, c) EXCEPT !.life[c] = "destroyed"]

\* The handler the listener attaches to on_socket_close: connections.erase(event.fd).
OnSocketClose(s, f) ==
  IF s.server = None \/ s.connections[f] = None THEN s
  ELSE LET c == s.connections[f] IN
       [Destroy(s, c) EXCEPT !.connections[f] = None,
                             !.cut = IF s.sfd[c] = None THEN @ ELSE @ \cup {c}]

\* Fault: the entry that is there is replaced without remove_socket().
RegisterReplaces(s, f, owner) == [s EXCEPT !.fds[f] = [calls |-> owner, marked |-> FALSE]]

\* register_socket(): an entry that is there is removed, which erases its connection.
Register(s, f, owner) ==
  [(IF s.fds[f] = None THEN s ELSE OnSocketClose(s, f))
     EXCEPT !.fds[f] = [calls |-> owner, marked |-> FALSE]]

\* connections.emplace(): the new connection is destroyed at once if the key is taken.
Emplace(s, f, c) ==
  IF s.connections[f] = None THEN [s EXCEPT !.connections[f] = c]
  ELSE [Destroy(s, c) EXCEPT !.cut = @ \cup {c}]

Lowest(s) == Min({f \in Fd : s.open[f] = None})
Full(s) == \A f \in Fd : s.open[f] # None

Opened(s, f, c) == [s EXCEPT !.open[f] = c, !.sfd[c] = f, !.life[c] = "alive"]

\* accept(), the constructor of http_server_request with read_loop(), and emplace().
Accept(s, c) == LET f == Lowest(s) IN Emplace(Register(Opened(s, f, c), f, c), f, c)

Marked(s, f) == s.fds[f] # None /\ s.fds[f].marked

\* Fault: an entry is removed without a word to the listener.
RemovedSilently(s, f) == IF Marked(s, f) THEN [s EXCEPT !.fds[f] = None] ELSE s

\* The end of a visit: remove_socket() and the erasure of an entry that is marked.
Removed(s, f) == IF Marked(s, f) THEN [OnSocketClose(s, f) EXCEPT !.fds[f] = None] ELSE s

-----------------------------------------------------------------------------
(* process_events().                                                         *)

\* poll() reports a descriptor that is closed; of the others, any.
BeginPass ==
  /\ pc = "idle" /\ pc' = "visit"
  /\ \E ready \in SUBSET {f \in Fd : sockets.fds[f] # None} :
       /\ {f \in Fd : sockets.fds[f] # None /\ sockets.open[f] = None} \subseteq ready
       /\ batch' = ready
  /\ UNCHANGED <<sockets, servers>>

Visit(f) ==
  /\ pc = "visit" /\ f \in batch
  /\ batch' = batch \ {f}
  /\ UNCHANGED <<servers, pc>>

\* Nothing is called for an entry that is marked, whose descriptor is closed or that reads a
\* part of what it waits for.
VisitQuiet(f) == Visit(f) /\ sockets' = Removed(sockets, f)

VisitListener(f, c) ==
  /\ Visit(f)
  /\ sockets.fds[f] # None /\ ~Marked(sockets, f) /\ sockets.open[f] = sockets.fds[f].calls
  /\ sockets.fds[f].calls = sockets.server
  /\ c \in Accepted /\ sockets.life[c] = "new" /\ ~Full(sockets)
  /\ sockets' = Removed(Accept(sockets, c), f)

\* The response is drained, the answer is complete, or the peer has closed.
VisitCloses(f, c) ==
  /\ Visit(f)
  /\ sockets.fds[f] # None /\ ~Marked(sockets, f) /\ sockets.fds[f].calls = c
  /\ sockets.open[f] # None
  /\ sockets' = Removed(Close(sockets, c), f)

EndPass ==
  /\ pc = "visit" /\ batch = {} /\ pc' = "idle"
  /\ UNCHANGED <<sockets, servers, batch>>

-----------------------------------------------------------------------------
(* Between the visits.                                                       *)

\* A timer of the connection: the ten seconds are over.
TimeOut(c) ==
  /\ pc = "idle" /\ sockets.sfd[c] # None
  /\ sockets' = Close(sockets, c)
  /\ UNCHANGED <<servers, batch, pc>>

\* A callback makes a request to Helix, or the owner of one lets it go.
NewClient(c) ==
  /\ c \in Client /\ sockets.life[c] = "new" /\ ~Full(sockets)
  /\ sockets' = LET f == Lowest(sockets) IN Register(Opened(sockets, f, c), f, c)
  /\ UNCHANGED <<servers, batch, pc>>

DropClient(c) ==
  /\ c \in Client /\ sockets.life[c] = "alive"
  /\ sockets' = Destroy(sockets, c)
  /\ UNCHANGED <<servers, batch, pc>>

\* The constructor registers the descriptor before it attaches the handler.
StartServer ==
  /\ pc = "idle" /\ sockets.server = None /\ servers < MaxServers /\ ~Full(sockets)
  /\ servers' = servers + 1
  /\ LET f == Lowest(sockets) IN
     sockets' = [Register([sockets EXCEPT !.open[f] = servers'], f, servers')
                   EXCEPT !.server = servers']
  /\ UNCHANGED <<batch, pc>>

\* The destructor detaches, the members destroy the connections and close the descriptor,
\* whose entry stays as it is.
StopServer ==
  /\ pc = "idle" /\ sockets.server # None
  /\ LET kept == {sockets.connections[f] : f \in Fd} \ {None}
         closed == {f \in Fd : \E c \in kept : sockets.sfd[c] = f}
     IN sockets' =
          [sockets EXCEPT
             !.fds = [f \in Fd |-> IF f \in closed /\ @[f] # None
                                   THEN [@[f] EXCEPT !.marked = TRUE] ELSE @[f]],
             !.open = [f \in Fd |-> IF f \in closed \/ @[f] = sockets.server THEN None ELSE @[f]],
             !.sfd = [c \in Conn |-> IF c \in kept THEN None ELSE @[c]],
             !.life = [c \in Conn |-> IF c \in kept THEN "destroyed" ELSE @[c]],
             !.connections = [f \in Fd |-> None],
             !.server = None]
  /\ UNCHANGED <<servers, batch, pc>>

Loop ==
  \/ BeginPass \/ EndPass
  \/ \E f \in Fd : VisitQuiet(f)
  \/ \E f \in Fd, c \in Conn : VisitListener(f, c) \/ VisitCloses(f, c)

Next ==
  \/ Loop \/ StartServer \/ StopServer
  \/ \E c \in Conn : TimeOut(c) \/ NewClient(c) \/ DropClient(c)

Spec == Init /\ [][Next]_vars
FairSpec == Spec /\ WF_vars(Loop)
-----------------------------------------------------------------------------
(* Properties.                                                               *)

\* However descriptors are given again, one that is open calls the connection it belongs to.
CallsItsOwner ==
  \A f \in Fd : LET s == sockets IN
    s.open[f] # None => s.fds[f] # None /\ s.fds[f].calls = s.open[f] /\ ~s.fds[f].marked

\* A connection that is open is in the map under its descriptor; it is not destroyed by the
\* handler of on_socket_close (and so never calls delete_socket() under fds_mutex).
ServedAreKept ==
  /\ \A c \in Accepted : LET s == sockets IN s.sfd[c] # None => s.connections[s.sfd[c]] = c
  /\ sockets.cut = {}

Lingers(c) == sockets.life[c] = "alive" /\ sockets.sfd[c] = None

\* A connection that closed is erased from the map.
ClosedAreErased == \A c \in Accepted : Lingers(c) ~> ~Lingers(c)

-----------------------------------------------------------------------------
(* The inductive invariant behind CallsItsOwner and ServedAreKept.           *)

Entry == [calls : Conn \cup Nat, marked : BOOLEAN]
Tables ==
  [open : [Fd -> Conn \cup Nat \cup {None}], fds : [Fd -> Entry \cup {None}],
   connections : [Fd -> Accepted \cup {None}], sfd : [Conn -> Fd \cup {None}],
   life : [Conn -> {"new", "alive", "destroyed"}], server : Nat \cup {None}, cut : SUBSET Conn]
TypeOK ==
  /\ sockets \in Tables
  /\ servers \in Nat /\ batch \subseteq Fd /\ pc \in {"idle", "visit"}

\* A connection has the descriptor it remembers, and a descriptor its connection; the other
\* ones that are open are the server's.
Remembered ==
  /\ \A c \in Conn : sockets.sfd[c] # None =>
       sockets.open[sockets.sfd[c]] = c /\ sockets.life[c] = "alive"
  /\ \A f \in Fd : sockets.open[f] \in Conn => sockets.sfd[sockets.open[f]] = f
  /\ \A f \in Fd : sockets.open[f] \notin Conn \cup {None} => sockets.open[f] = sockets.server

\* The map has a connection under the descriptor that it has or had last, whose entry is still
\* there; it has none without a server.
Mapped ==
  \A f \in Fd : sockets.connections[f] # None =>
    /\ sockets.fds[f] # None /\ sockets.server # None
    /\ sockets.life[sockets.connections[f]] = "alive"
    /\ sockets.sfd[sockets.connections[f]] \in {f, None}
    /\ \A g \in Fd : sockets.connections[g] = sockets.connections[f] => g = f

InductiveInvariant == TypeOK /\ Remembered /\ Mapped /\ CallsItsOwner /\ ServedAreKept
=============================================================================
