------------------------------ MODULE SslContext -------------------------------
(***************************************************************************)
(* The contexts of TLS connections (src/ssl_context.cpp): each connection  *)
(* looks for the context of its port when it is constructed, port 0 being  *)
(* that of clients, makes one if there is none, and keeps a plain pointer  *)
(* to it until its handshake begins.  A server releases those of its port  *)
(* when it is destroyed.  Clients are constructed by any thread.  The      *)
(* certificates are loaded between the two critical sections of            *)
(* context_mutex.                                                          *)
(***************************************************************************)
EXTENDS Naturals, Sequences, Functions

CONSTANTS Conn,   \* the ssl_connections with TLS that may ever exist
          Thread,
          Io,     \* the thread of Thread that accepts connections
          Port,   \* the ports of TLS servers
          Key,    \* pairs of PEM files
          None

ContextAssumption == Io \in Thread /\ Port \subseteq Nat \ {0} /\ None \notin Conn \cup Key

VARIABLES contexts, \* port -> those of the vector with that port, in its order, each with its
                    \* certificate and the connection that made it
          conns,    \* connection -> its port, its context, and how far it is: "new",
                    \* "constructed", "session" or "destroyed"
          making,   \* thread -> the connection being constructed, and where
          keys,     \* port -> the files of its server, or None
          dead      \* whether std::terminate() was called

vars == <<contexts, conns, making, keys, dead>>

Idle == [pc |-> "idle", conn |-> None]

Init ==
  /\ contexts = [p \in Port \cup {0} |-> <<>>]
  /\ conns = [c \in Conn |-> [port |-> None, context |-> None, phase |-> "new"]]
  /\ making = [t \in Thread |-> Idle]
  /\ keys = [p \in Port |-> None]
  /\ dead = FALSE

-----------------------------------------------------------------------------
(* generate_ssl_context(), called by the constructors of ssl_connection.     *)

Construct(t, c, p) ==
  /\ ~dead /\ making[t] = Idle /\ conns[c].phase = "new"
  /\ \A u \in Thread : making[u].conn # c
  /\ p \in {0} \cup {q \in Port : t = Io /\ keys[q] # None}
  /\ making' = [making EXCEPT ![t] = [pc |-> "lookup", conn |-> c]]
  /\ conns' = [conns EXCEPT ![c].port = p]
  /\ UNCHANGED <<contexts, keys, dead>>

Given(t, context) ==
  /\ conns' = [conns EXCEPT ![making[t].conn].context = context,
                            ![making[t].conn].phase = "constructed"]
  /\ making' = [making EXCEPT ![t] = Idle]

\* Under a shared lock: the first of the port.
Lookup(t) ==
  /\ ~dead /\ making[t].pc = "lookup"
  /\ LET found == contexts[conns[making[t].conn].port] IN
     IF found # <<>>
     THEN Given(t, Head(found))
     ELSE making' = [making EXCEPT ![t].pc = "load"] /\ UNCHANGED conns
  /\ UNCHANGED <<contexts, keys, dead>>

NewContext(c) ==
  [port |-> conns[c].port, by |-> c,
   key |-> IF conns[c].port = 0 THEN None ELSE keys[conns[c].port]]

\* Fault: the vector is a map, whose entry for the port is replaced.
StoreReplaces(t) ==
  /\ ~dead /\ making[t].pc = "load"
  /\ LET new == NewContext(making[t].conn) IN
     /\ contexts' = [contexts EXCEPT ![new.port] = <<new>>]
     /\ Given(t, new)
  /\ UNCHANGED <<keys, dead>>

\* The files are loaded; under the lock, the context is appended, whether or not another
\* thread has made one meanwhile.
Store(t) ==
  /\ ~dead /\ making[t].pc = "load"
  /\ LET new == NewContext(making[t].conn) IN
     /\ contexts' = [contexts EXCEPT ![new.port] = Append(@, new)]
     /\ Given(t, new)
  /\ UNCHANGED <<keys, dead>>

\* OpenSSL refuses: a string is thrown, which no catch clause on the IO thread takes.
LoadFails(t) ==
  /\ ~dead /\ making[t].pc = "load"
  /\ conns' = [conns EXCEPT ![making[t].conn].phase = "destroyed"]
  /\ making' = [making EXCEPT ![t] = Idle]
  /\ dead' = (t = Io)
  /\ UNCHANGED <<contexts, keys>>

-----------------------------------------------------------------------------
(* The life of a connection and of a server.                                 *)

\* complete_handshake(): SSL_new() reads the context, and counts a reference of its own.
NewSession(c) ==
  /\ ~dead /\ making[Io] = Idle /\ conns[c].phase = "constructed"
  /\ conns' = [conns EXCEPT ![c].phase = "session"]
  /\ UNCHANGED <<contexts, making, keys, dead>>

Destroy(c) ==
  /\ ~dead /\ conns[c].phase \in {"constructed", "session"}
  /\ conns' = [conns EXCEPT ![c].phase = "destroyed"]
  /\ UNCHANGED <<contexts, making, keys, dead>>

StartServer(p, k) ==
  /\ ~dead /\ keys[p] = None
  /\ keys' = [keys EXCEPT ![p] = k]
  /\ UNCHANGED <<contexts, conns, making, dead>>

\* release_ssl_context().
Release(p) == contexts' = [contexts EXCEPT ![p] = <<>>]

\* The destructor releases the contexts of the port before its members destroy the connections,
\* while the IO thread runs none of their handlers.
StopServer(p) ==
  /\ ~dead /\ keys[p] # None /\ making[Io] = Idle
  /\ keys' = [keys EXCEPT ![p] = None]
  /\ Release(p)
  /\ conns' = [c \in Conn |-> IF conns[c].port = p /\ conns[c].phase # "new"
                              THEN [conns[c] EXCEPT !.phase = "destroyed"] ELSE conns[c]]
  /\ UNCHANGED <<making, dead>>

Next ==
  \/ \E t \in Thread :
       Lookup(t) \/ Store(t) \/ LoadFails(t) \/ \E c \in Conn, p \in Port \cup {0} : Construct(t, c, p)
  \/ \E c \in Conn : NewSession(c) \/ Destroy(c)
  \/ \E p \in Port : StopServer(p) \/ \E k \in Key : StartServer(p, k)

Spec == Init /\ [][Next]_vars
-----------------------------------------------------------------------------
(* Properties.                                                               *)

\* A connection whose handshake has not begun points to a context that exists, whichever
\* threads made theirs at the same time and whichever servers were destroyed since
\* (ssl_context.h: "Only call this once no SSL connections using it remain").
ContextLives ==
  \A c \in Conn : conns[c].phase = "constructed" =>
    \E p \in Port \cup {0} : conns[c].context \in Range(contexts[p])

\* A server's connections show the certificate it was made with, also when a server was on the
\* port before (ssl_context.h: "each get their own server context with its own loaded
\* certificate").
OwnCertificate ==
  \A c \in Conn :
    conns[c].phase \in {"constructed", "session"} /\ conns[c].port # 0 =>
      conns[c].context.port = conns[c].port /\ conns[c].context.key = keys[conns[c].port]

-----------------------------------------------------------------------------
(* The inductive invariant behind ContextLives and OwnCertificate.           *)

Ports == Port \cup {0}
Context == [port : Ports, by : Conn, key : Key \cup {None}]
TypeOK ==
  /\ contexts \in [Ports -> Seq(Context)]
  /\ conns \in [Conn -> [port : Ports \cup {None}, context : Context \cup {None},
                         phase : {"new", "constructed", "session", "destroyed"}]]
  /\ making \in [Thread -> [pc : {"idle", "lookup", "load"}, conn : Conn \cup {None}]]
  /\ keys \in [Port -> Key \cup {None}]
  /\ dead \in BOOLEAN

\* A thread constructs a connection that is new, and no other thread does; only the IO thread
\* constructs those of a server, while there is one.
Makes(t) == making[t].pc # "idle"
MakingNew ==
  /\ \A t \in Thread :
       /\ Makes(t) <=> making[t].conn # None
       /\ Makes(t) => LET c == conns[making[t].conn] IN
            /\ c.phase = "new" /\ c.port \in Ports
            /\ c.port # 0 => t = Io /\ keys[c.port] # None
  /\ \A t, u \in Thread : Makes(t) /\ making[t].conn = making[u].conn => t = u

\* The contexts of a port have the certificate of its server, and live as long as it.
OfTheServer ==
  /\ \A p \in Ports : \A x \in Range(contexts[p]) : x.port = p /\ (p # 0 => x.key = keys[p])
  /\ \A p \in Port : keys[p] = None => contexts[p] = <<>>

\* So does a connection of a server, which points to one of them until its handshake.
Pointing ==
  \A c \in Conn : conns[c].phase \in {"constructed", "session"} =>
    /\ conns[c].port \in Ports
    /\ conns[c].port # 0 => keys[conns[c].port] # None
    /\ conns[c].phase = "constructed" => conns[c].context \in Range(contexts[conns[c].port])

InductiveInvariant == TypeOK /\ MakingNew /\ OfTheServer /\ Pointing /\ OwnCertificate
=============================================================================
