---------------------------- MODULE SslConnection ----------------------------
(***************************************************************************)
(* tpp::ssl_connection (src/ssl_connection.cpp) on the socket engine: the  *)
(* IO thread runs process_events() and, from it, the handlers and timers   *)
(* of the connections; one thread of the application writes to connections *)
(* and another one opens them.  What happens between two critical sections *)
(* is a step of its own.                                                   *)
(*                                                                         *)
(* Data is counted in units of which a buffer of DPP_BUFSIZE holds         *)
(* BufSize; received data is one read at a time.                           *)
(***************************************************************************)
EXTENDS SocketEngine, FiniteSets

CONSTANTS Plaintext,   \* the connections without TLS
          Faulty,      \* those whose peer may be slow or break: sends may be partial or refused
          Openers,     \* which threads open connections: "io", "app"
          BufSize,     \* DPP_BUFSIZE
          MaxWrites,   \* bound: socket_write() calls of application threads
          MaxReads,    \* bound: reads' worth of data a peer sends
          MaxRetries   \* MAX_RETRIES, bounded

ASSUME ConnectionAssumption ==
  /\ None \notin [conn : Conn, nth : Nat, flags : SUBSET Flags] \cup [conn : Conn, nth : Nat]
  /\ Plaintext \cup Faulty \subseteq Conn
  /\ Openers \subseteq {"io", "app"}
  /\ BufSize \in Nat \ {0}
  /\ MaxWrites \in Nat /\ MaxReads \in Nat /\ MaxRetries \in Nat

VARIABLES conn,     \* the members of each connection, see Fresh
          io,       \* what process_events() is doing, see Looping
          maker,    \* the connection that the IO thread opens, and what it goes back to
          opener,   \* the connection that an application thread opens, and its descriptor
          writer,   \* what the application thread in socket_write() is doing
          writes,   \* number of those calls so far
          inbound,  \* external: the reads' worth of data that waits for each connection
          sent,     \* external: number of those so far
          broken,   \* external: connections the peer broke
          raced,    \* history: connections inplace_modify_fd() mixed up, see Stale
          foreign,  \* history: connections whose descriptor another one closed
          crossed   \* history: whether opener got a number that is still known, see Known

opening == <<opener, crossed>>
threads == <<io, maker, opening, writer, writes>>
world == <<inbound, sent, broken>>
history == <<raced, foreign>>
vars == <<engine, conn, threads, world, history>>

\* phase is "start" until a write event shows that connect() is done (tcp_connect_done),
\* then "handshake" for TLS, and "up" when connected.
Fresh == [sfd |-> None, phase |-> "start", obuffer |-> 0, length |-> 0, nth |-> 0]
\* ready: the descriptors to visit, with revents; eh: the entry of the one visited;
\* victim: the connection being closed; then: where close() or update_socket() return to;
\* locked: whether out_mutex of the connection visited is held.
Looping == [pc |-> "prune", ready |-> <<>>, eh |-> None, flags |-> {}, victim |-> None,
            then |-> "prune", locked |-> FALSE]
Resting == [pc |-> "rest", conn |-> None]

Init ==
  /\ EngineInit
  /\ conn = [c \in Conn |-> Fresh]
  /\ io = Looping /\ maker = Resting /\ opener = Resting /\ writer = Resting
  /\ writes = 0
  /\ inbound = [c \in Conn |-> 0] /\ sent = 0
  /\ broken = {}
  /\ raced = {} /\ foreign = {} /\ crossed = FALSE

fd == Head(io.ready).fd
revents == Head(io.ready).revents
c0 == io.eh.conn
Up == conn[c0].sfd # None /\ conn[c0].phase = "up"
Go(pc) == io' = [io EXCEPT !.pc = pc]
GoOn(pc) == io' = [io EXCEPT !.pc = pc, !.flags = {}, !.victim = None, !.then = "prune",
                            !.locked = FALSE]
GoClosing(c, then) == io' = [io EXCEPT !.pc = "delete", !.victim = c, !.then = then]
GoUpdating(flags, then) == io' = [io EXCEPT !.pc = "update", !.flags = flags, !.then = then]
\* The same with out_mutex taken already and held until both tables are updated.
GoUpdatingLocked(flags, then) ==
  io' = [io EXCEPT !.pc = "update", !.flags = flags, !.then = then, !.locked = TRUE]

-----------------------------------------------------------------------------
(* Opening a connection: connect() and read_loop(), on the IO thread from a  *)
(* timer, a handler of data or the `completed` that close() calls, or on     *)
(* another thread.                                                           *)

Smaller(a, b) == IF a < b THEN a ELSE b

\* socket() returns the lowest number that is not in use.
Available == {f \in Fd : opened[f] = None /\ \A g \in Fd : opened[g] = None => f <= g}

\* The constructor: a descriptor nobody has, the request in obuffer, and either connect()
\* is done at once or the first write event will show it.
Constructed(c, f) ==
  /\ conn[c].nth = 0
  /\ opened' = [opened EXCEPT ![f] = c]
  /\ \E phase \in {"start", IF c \in Plaintext THEN "up" ELSE "handshake"} :
       conn' = [conn EXCEPT ![c] =
         [sfd |-> f, phase |-> phase, obuffer |-> 1, length |-> 0, nth |-> 1]]
  /\ UNCHANGED <<fds, poll_set, writer, writes, world, history>>

Construct(c) ==
  /\ "io" \in Openers
  /\ io.pc \in {"prune", "delete"} \/ (io.pc = "read" /\ Up)
  /\ ~io.locked
  /\ \E f \in Available : Constructed(c, f)
  /\ maker' = [pc |-> "entry", conn |-> c, back |-> io.pc]
  /\ Go("made")
  /\ UNCHANGED opening

\* register_socket() by setup_events; without a descriptor it does nothing.
MakeEntry ==
  LET c == maker.conn IN
  /\ maker.pc = "entry"
  /\ maker' = [maker EXCEPT !.pc = "poll"]
  /\ IF conn[c].sfd = None THEN UNCHANGED engine
     ELSE RegisterEntry(conn[c].sfd, Entry(c, conn[c].nth, All))
  /\ raced' = IF io.eh # None /\ conn[c].sfd = fd THEN raced \cup {c} ELSE raced
  /\ UNCHANGED <<conn, io, opening, writer, writes, world, foreign>>

MakePoll ==
  LET c == maker.conn IN
  /\ maker.pc = "poll"
  /\ maker' = Resting
  /\ IF conn[c].sfd = None THEN UNCHANGED engine ELSE RegisterPoll(conn[c].sfd, All)
  /\ Go(maker.back)
  /\ UNCHANGED <<conn, opening, writer, writes, world, history>>

Make == MakeEntry \/ MakePoll

\* Whether a number that is closed is still remembered: by the tables of the engine, by the
\* IO thread that has it to visit, or by a connection that lets go of it.
Known(f) ==
  \/ fds[f] # None
  \/ \E i \in DOMAIN poll_set : poll_set[i].fd = f
  \/ \E i \in DOMAIN io.ready : io.ready[i].fd = f
  \/ \E c \in Conn : conn[c].sfd = f

\* The same by a thread of the application, between any two steps of the IO thread, which
\* does not know the connection before the constructor is done.
Open(c) ==
  /\ "app" \in Openers
  /\ opener = Resting
  /\ \E f \in Available :
       /\ Constructed(c, f)
       /\ opener' = [pc |-> "entry", conn |-> c, fd |-> f]
       /\ crossed' = (crossed \/ Known(f))
  /\ UNCHANGED <<io, maker>>

OpenEntry ==
  /\ opener.pc = "entry"
  /\ opener' = [opener EXCEPT !.pc = "poll"]
  /\ RegisterEntry(opener.fd, Entry(opener.conn, conn[opener.conn].nth, All))
  /\ UNCHANGED <<conn, io, maker, crossed, writer, writes, world, history>>

OpenPoll ==
  /\ opener.pc = "poll"
  /\ opener' = Resting
  /\ RegisterPoll(opener.fd, All)
  /\ UNCHANGED <<conn, io, maker, crossed, writer, writes, world, history>>

OpenOn == OpenEntry \/ OpenPoll

-----------------------------------------------------------------------------
(* socket_write() by a thread of the application, out_mutex held throughout. *)

Held(c) == writer.pc # "rest" /\ writer.conn = c
LockedByIo(c) == io.locked /\ c0 = c

SocketWrite(c) ==
  /\ writer.pc = "rest"
  /\ conn[c].sfd # None /\ maker.conn # c /\ opener.conn # c
  /\ ~LockedByIo(c)
  /\ writes < MaxWrites
  /\ writes' = writes + 1
  /\ conn' = [conn EXCEPT ![c].obuffer = @ + 1]
  /\ writer' = [pc |-> "mark", conn |-> c]
  /\ UNCHANGED <<engine, io, maker, opening, world, history>>

\* inplace_modify_fd(): sets the flag and copies the entry, under fds_mutex; one that is not
\* the writer's own (its descriptor was given again) mixes the two connections up ...
MarkWrite ==
  LET f == conn[writer.conn].sfd IN
  /\ writer.pc = "mark"
  /\ IF f = None \/ (f # None /\ (fds[f] = None \/ "write" \in fds[f].flags))
     THEN writer' = Resting /\ UNCHANGED <<engine, raced>>
     ELSE LET s == [fds[f] EXCEPT !.flags = @ \cup {"write"}] IN
          /\ UpdateEntry(f, s)
          /\ writer' = [pc |-> "copied", conn |-> writer.conn, fd |-> f, entry |-> s]
          /\ raced' = IF s.conn # writer.conn THEN raced \cup {s.conn, writer.conn} ELSE raced
  /\ UNCHANGED <<conn, io, maker, opening, writes, world, foreign>>

\* ... and writes the copy back, by then perhaps over another entry, or over one that was
\* marked for deletion since.  Mixed up are then the connections of both entries, and with
\* them whoever has a descriptor that one of them closes (CloseDescriptor) or registers over
\* the entry in use (MakeEntry).
Stale(w) ==
  /\ fds[w.fd] # None
  /\ \/ Marked(w.fd) /\ "deletion" \notin w.entry.flags
     \/ <<fds[w.fd].conn, fds[w.fd].nth>> # <<w.entry.conn, w.entry.nth>>

WriteBack ==
  /\ writer.pc = "copied"
  /\ UpdateEntry(writer.fd, writer.entry)
  /\ writer' = IF fds[writer.fd] = None THEN Resting ELSE [writer EXCEPT !.pc = "poll"]
  /\ raced' = IF Stale(writer)
              THEN raced \cup {writer.conn, writer.entry.conn, fds[writer.fd].conn} ELSE raced
  /\ UNCHANGED <<conn, io, maker, opening, writes, world, foreign>>

WriteBackPoll ==
  /\ writer.pc = "poll"
  /\ UpdatePoll(writer.fd, writer.entry.flags)
  /\ writer' = Resting
  /\ UNCHANGED <<conn, io, maker, opening, writes, world, history>>

Write == MarkWrite \/ WriteBack \/ WriteBackPoll

-----------------------------------------------------------------------------
(* Closing.  close() forgets the descriptor last; nothing else does.         *)

\* close() of the operating system, whoever has the descriptor by then.
CloseDescriptor(f, c) ==
  /\ opened' = [opened EXCEPT ![f] = None]
  /\ foreign' = foreign \cup ({opened[f]} \ {c, None})
  /\ raced' = IF c \in raced THEN raced \cup ({opened[f]} \ {None}) ELSE raced

\* ssl_connection::close(): the session and the counters, then delete_socket() ...
Delete ==
  LET c == io.victim IN
  /\ io.pc = "delete"
  /\ IF conn[c].sfd = None
     THEN /\ GoOn(io.then)
          /\ UNCHANGED engine
     ELSE /\ DeleteSocket(conn[c].sfd)
          /\ Go("close")
  /\ conn' = [conn EXCEPT ![c].phase = "start", ![c].length = 0,
                          ![c].obuffer = IF conn[c].sfd = None THEN 0 ELSE @]
  /\ UNCHANGED <<maker, opening, writer, writes, world, history>>

\* ... and close_socket() and the buffers, without out_mutex.
Close ==
  LET c == io.victim IN
  /\ io.pc = "close"
  /\ CloseDescriptor(conn[c].sfd, c)
  /\ conn' = [conn EXCEPT ![c].sfd = None, ![c].obuffer = 0]
  /\ GoOn(io.then)
  /\ UNCHANGED <<fds, poll_set, maker, opening, writer, writes, world>>

-----------------------------------------------------------------------------
(* prune(): the timers of the connections, once a second.                    *)

Existing(c) == conn[c].nth > 0 /\ opener.conn # c

\* one_second_timer() of a class that has waited long enough.
TimeOut(c) ==
  /\ io.pc = "prune"
  /\ Existing(c) /\ conn[c].sfd # None
  /\ GoClosing(c, "prune")
  /\ UNCHANGED <<engine, conn, maker, opening, writer, writes, world, history>>

\* The timer of read_loop(): connect() again, on another socket, when the first write event
\* is overdue.  The descriptor is closed before it is deleted from the engine.
RetryClose(c) ==
  /\ io.pc = "prune"
  /\ Existing(c) /\ conn[c].sfd # None
  /\ conn[c].phase = "start" /\ conn[c].nth <= MaxRetries
  /\ CloseDescriptor(conn[c].sfd, c)
  /\ io' = [io EXCEPT !.pc = "retry", !.victim = c]
  /\ UNCHANGED <<fds, poll_set, conn, maker, opening, writer, writes, world>>

\* Fault: the retry does not delete the old entry.
RetryForgets ==
  /\ io.pc = "retry"
  /\ Go("connect")
  /\ UNCHANGED <<engine, conn, maker, opening, writer, writes, world, history>>

RetryDelete ==
  /\ io.pc = "retry"
  /\ DeleteSocket(conn[io.victim].sfd)
  /\ Go("connect")
  /\ UNCHANGED <<conn, maker, opening, writer, writes, world, history>>

\* connect() gets a socket, or none; an exception after that is swallowed.
Waiting(c) ==
  \E f \in Available \cup {None} :
    /\ opened' = IF f = None THEN opened ELSE [opened EXCEPT ![f] = c]
    /\ conn' = [conn EXCEPT ![c].sfd = f, ![c].nth = @ + 1]
    /\ UNCHANGED <<fds, poll_set>>

\* It may connect at once, and on_write() runs: TLS begins its handshake, and a plaintext
\* connection sends, all of a buffer or a part.  What it hands to update_socket() can only
\* meet the entry of whoever had the number before, which MakeEntry replaces.
AtOnce(c) ==
  \E f \in Available :
    /\ opened' = [opened EXCEPT ![f] = c]
    /\ \/ /\ c \notin Plaintext
          /\ conn' = [conn EXCEPT ![c].sfd = f, ![c].nth = @ + 1, ![c].phase = "handshake"]
       \/ LET n == Smaller(conn[c].obuffer, BufSize) IN
          /\ c \in Plaintext /\ ~Held(c)
          /\ \E rest \in 0..n :
               /\ rest = 0 \/ (c \in Faulty /\ rest < n)
               /\ conn' = [conn EXCEPT ![c].sfd = f, ![c].nth = @ + 1, ![c].phase = "up",
                                       ![c].obuffer = @ - n, ![c].length = rest]
    /\ UNCHANGED <<fds, poll_set>>

\* Or send() fails, and close() deletes and closes the new socket.
Failing(c) ==
  /\ c \in Plaintext /\ ~Held(c)
  /\ \E f \in Available : DeleteSocket(f)
  /\ conn' = [conn EXCEPT ![c].sfd = None, ![c].nth = @ + 1, ![c].obuffer = 0]

RetryConnect ==
  LET c == io.victim IN
  /\ io.pc = "connect"
  /\ Waiting(c) \/ AtOnce(c) \/ Failing(c)
  /\ broken' = broken \ {c}
  /\ maker' = [pc |-> "entry", conn |-> c, back |-> "prune"]
  /\ io' = [io EXCEPT !.pc = "made", !.victim = None]
  /\ UNCHANGED <<opening, writer, writes, inbound, sent, history>>

-----------------------------------------------------------------------------
(* process_events().                                                         *)

Events == {"nval", "error", "in", "out"}

\* What poll() reports for an entry: an event that is not asked for is only reported if the
\* socket broke or the descriptor is closed (POLLNVAL, which nothing handles).
Reported(p) ==
  LET c == opened[p.fd] IN
  IF c = None THEN {{"nval"}}
  ELSE IF c \in broken THEN {{"error"}}
  ELSE {(IF "read" \in p.events /\ inbound[c] > 0 THEN {"in"} ELSE {}) \cup out :
        out \in IF "write" \notin p.events THEN {{}}
               ELSE IF conn[c].phase = "start" THEN {{}, {"out"}} ELSE {{"out"}}}

\* The copy of poll_set that is visited ends with the last entry that has an event.
Poll ==
  /\ io.pc = "prune"
  /\ \E reports \in [DOMAIN poll_set -> SUBSET Events], last \in DOMAIN poll_set :
       /\ \A i \in DOMAIN poll_set :
            reports[i] \in Reported(poll_set[i]) /\ (i > last => reports[i] = {})
       /\ reports[last] # {}
       /\ io' = [io EXCEPT !.pc = "visit",
            !.ready = [i \in 1..last |-> [fd |-> poll_set[i].fd, revents |-> reports[i]]]]
  /\ UNCHANGED <<engine, conn, maker, opening, writer, writes, world, history>>

Skip == [io EXCEPT !.pc = "visit", !.ready = Tail(@), !.eh = None]

\* Where an entry with these revents goes first.
Dispatch(r) == IF "error" \in r THEN "error" ELSE IF "in" \in r THEN "read"
               ELSE IF "out" \in r THEN "clear" ELSE "check"

\* Fault: entries that are marked for deletion are passed over, and so never erased.
VisitLive ==
  /\ io.pc = "visit"
  /\ io' = IF io.ready = <<>> THEN Looping
           ELSE IF fds[fd] = None \/ Marked(fd) THEN Skip
           ELSE [io EXCEPT !.pc = Dispatch(revents),
                           !.eh = [conn |-> fds[fd].conn, nth |-> fds[fd].nth]]
  /\ UNCHANGED <<engine, conn, maker, opening, writer, writes, world, history>>

\* get_fd(): a pointer to the entry, used after fds_mutex is released.
Visit ==
  /\ io.pc = "visit"
  /\ io' = IF io.ready = <<>> THEN Looping
           ELSE IF fds[fd] = None THEN Skip
           ELSE [io EXCEPT !.pc = IF Marked(fd) THEN "check" ELSE Dispatch(revents),
                           !.eh = [conn |-> fds[fd].conn, nth |-> fds[fd].nth]]
  /\ UNCHANGED <<engine, conn, maker, opening, writer, writes, world, history>>

\* on_error closes the connection, and the loop goes on to the next descriptor.
HandleError ==
  /\ io.pc = "error"
  /\ GoClosing(c0, "skip")
  /\ UNCHANGED <<engine, conn, maker, opening, writer, writes, world, history>>

Continue ==
  /\ io.pc = "skip"
  /\ io' = Skip
  /\ UNCHANGED <<engine, conn, maker, opening, writer, writes, world, history>>

\* An entry that is marked by now is removed: from the poll set ...
Check ==
  /\ io.pc = "check"
  /\ IF fds[fd] # None /\ Marked(fd)
     THEN RemoveSocket(fd) /\ Go("erase")
     ELSE UNCHANGED engine /\ io' = Skip
  /\ UNCHANGED <<conn, maker, opening, writer, writes, world, history>>

\* ... and from fds.
Erase ==
  /\ io.pc = "erase"
  /\ EraseEntry(fd)
  /\ io' = Skip
  /\ UNCHANGED <<conn, maker, opening, writer, writes, world, history>>

\* update_socket() from a handler, with a copy of the entry and other flags.
Update ==
  /\ io.pc = "update"
  /\ UpdateEntry(fd, Entry(c0, io.eh.nth, io.flags))
  /\ IF fds[fd] = None THEN GoOn(io.then) ELSE Go("update_poll")
  /\ UNCHANGED <<conn, maker, opening, writer, writes, world, history>>

UpdatePolled ==
  /\ io.pc = "update_poll"
  /\ UpdatePoll(fd, io.flags)
  /\ GoOn(io.then)
  /\ UNCHANGED <<conn, maker, opening, writer, writes, world, history>>

\* Before on_write, WANT_WRITE is cleared in the entry itself, without the mutex: loaded ...
ClearLoad ==
  /\ io.pc = "clear"
  /\ io' = [io EXCEPT !.pc = "store",
                      !.flags = (IF fds[fd] = None THEN {} ELSE fds[fd].flags) \ {"write"}]
  /\ UNCHANGED <<engine, conn, maker, opening, writer, writes, world, history>>

\* ... and stored, then handed to update_socket().
ClearStore ==
  /\ io.pc = "store"
  /\ fds' = IF fds[fd] = None THEN fds ELSE [fds EXCEPT ![fd].flags = io.flags]
  /\ Go("clear_poll")
  /\ UNCHANGED <<poll_set, opened, conn, maker, opening, writer, writes, world, history>>

ClearPoll ==
  /\ io.pc = "clear_poll"
  /\ IF fds[fd] = None THEN UNCHANGED engine ELSE UpdatePoll(fd, fds[fd].flags)
  /\ GoOn("write")
  /\ UNCHANGED <<conn, maker, opening, writer, writes, world, history>>

\* The callbacks of read_loop() for a connection that has no descriptor any more: the
\* descriptor of the event is closed and deleted instead.
Orphan(then) ==
  /\ conn[c0].sfd = None
  /\ CloseDescriptor(fd, c0)
  /\ fds' = IF fds[fd] = None \/ Marked(fd) THEN fds
            ELSE [fds EXCEPT ![fd].flags = {"deletion"}]
  /\ Go(then)
  /\ UNCHANGED <<poll_set, conn, maker, opening, writer, writes, world>>

-----------------------------------------------------------------------------
(* on_read().                                                                *)

AfterRead == IF "out" \in revents THEN "clear" ELSE "check"
Received == [inbound EXCEPT ![c0] = IF @ > 0 THEN @ - 1 ELSE 0]

\* handle_buffer() of a class or the callbacks it runs: socket_write() to this connection,
ReadReply ==
  /\ io.pc = "read" /\ Up
  /\ writes < MaxWrites
  /\ ~Held(c0)
  /\ writes' = writes + 1
  /\ conn' = [conn EXCEPT ![c0].obuffer = @ + 1]
  /\ IF fds[fd] = None \/ (fds[fd] # None /\ "write" \in fds[fd].flags)
     THEN UNCHANGED io
     ELSE GoUpdatingLocked(fds[fd].flags \cup {"write"}, "read")
  /\ UNCHANGED <<engine, maker, opening, writer, world, history>>

\* or closing another one.
ReadClosesOther ==
  /\ io.pc = "read" /\ Up
  /\ \E c \in Conn \ {c0} : Existing(c) /\ conn[c].sfd # None /\ GoClosing(c, "read")
  /\ UNCHANGED <<engine, conn, maker, opening, writer, writes, world, history>>

ReadOrphan == io.pc = "read" /\ Orphan(AfterRead)

\* recv(): end of file or an error, a buffer the class rejects, or one it takes.
ReadPlain ==
  /\ io.pc = "read" /\ Up
  /\ c0 \in Plaintext
  /\ inbound' = Received
  /\ \/ GoClosing(c0, AfterRead)
     \/ inbound[c0] > 0 /\ Go(AfterRead)
  /\ UNCHANGED <<engine, conn, maker, opening, writer, writes, sent, broken, history>>

\* SSL_read(): data that is rejected or a fatal error; the end of the stream, which closes
\* nothing; or data that is taken, or a wish to read or write more first.
ReadTls ==
  /\ io.pc = "read" /\ Up
  /\ c0 \notin Plaintext
  /\ inbound' = Received
  /\ \/ GoClosing(c0, AfterRead)
     \/ Go(AfterRead) \/ Go("rearm")
     \/ \E flags \in {{"read"}, All} : GoUpdating(flags, "rearm")
  /\ UNCHANGED <<engine, conn, maker, opening, writer, writes, sent, broken, history>>

\* SSL_do_handshake(): done, waiting to read or to write, or an error, which is thrown.
Handshake(done, waiting) ==
  \/ /\ conn' = [conn EXCEPT ![c0].phase = "up"]
     /\ GoUpdating(All, done)
  \/ /\ conn' = [conn EXCEPT ![c0].phase = "handshake"]
     /\ \/ GoUpdating({"read"}, waiting)
        \/ GoUpdating(All, waiting)
        \/ GoClosing(c0, "check")

\* A connection that is not up yet: nothing is read without a TLS session.
ReadEarly ==
  /\ io.pc = "read"
  /\ conn[c0].sfd # None /\ conn[c0].phase # "up"
  /\ IF conn[c0].phase = "handshake"
     THEN inbound' = Received /\ Handshake("rearm", "rearm")
     ELSE Go(AfterRead) /\ UNCHANGED <<conn, inbound>>
  /\ UNCHANGED <<engine, maker, opening, writer, writes, sent, broken, history>>

\* Fault: on_read() does not ask for write events.
RearmIgnoresBuffer ==
  /\ io.pc = "rearm"
  /\ ~Held(c0)
  /\ Go(AfterRead)
  /\ UNCHANGED <<engine, conn, maker, opening, writer, writes, world, history>>

\* At the end of on_read, under out_mutex: output that waits, or SSL_want_write().
Rearm ==
  /\ io.pc = "rearm"
  /\ ~Held(c0)
  /\ \E want \in {FALSE} \cup (IF c0 \in Faulty THEN {TRUE} ELSE {}) :
       IF Up /\ c0 \notin Plaintext /\ (conn[c0].obuffer > 0 \/ want)
       THEN GoUpdatingLocked(All, AfterRead) ELSE Go(AfterRead)
  /\ UNCHANGED <<engine, conn, maker, opening, writer, writes, world, history>>

-----------------------------------------------------------------------------
(* on_write().                                                               *)

WriteOrphan == io.pc = "write" /\ Orphan("check")

\* The first write event: a plaintext connection is up, TLS begins its handshake.
WriteEarly ==
  /\ io.pc = "write"
  /\ conn[c0].sfd # None
  /\ \/ /\ c0 \in Plaintext \/ conn[c0].phase = "up"
        /\ conn' = [conn EXCEPT ![c0].phase = "up"]
        /\ Go("move")
     \/ /\ c0 \notin Plaintext /\ conn[c0].phase # "up"
        /\ Handshake("move", "check")
  /\ UNCHANGED <<engine, maker, opening, writer, writes, world, history>>

\* Under out_mutex: a buffer's worth of output, when the buffer is empty.
Move ==
  LET n == IF conn[c0].length = 0 THEN Smaller(conn[c0].obuffer, BufSize) ELSE 0 IN
  /\ io.pc = "move"
  /\ ~Held(c0)
  /\ conn' = [conn EXCEPT ![c0].obuffer = @ - n, ![c0].length = @ + n]
  /\ Go("send")
  /\ UNCHANGED <<engine, maker, opening, writer, writes, world, history>>

\* on_buffer_drained(): http_server_request may close.
Drained(then, locked) ==
  \/ Go(then)
  \/ io' = [io EXCEPT !.pc = "delete", !.victim = c0, !.then = then, !.locked = locked]

\* send() of what is in the buffer: all, a part, or an error.
SendPlain ==
  /\ io.pc = "send" /\ c0 \in Plaintext
  /\ IF conn[c0].length = 0 THEN UNCHANGED conn /\ Go("more")
     ELSE \/ /\ \E r \in IF c0 \in Faulty THEN 1..conn[c0].length ELSE {conn[c0].length} :
                  conn' = [conn EXCEPT ![c0].length = @ - r]
             /\ IF conn[c0].obuffer = 0 THEN Drained("more", FALSE) ELSE Go("more")
          \/ GoClosing(c0, "check") /\ UNCHANGED conn
  /\ UNCHANGED <<engine, maker, opening, writer, writes, world, history>>

\* Fault: what remains in obuffer is not asked for.
MoreForgotten ==
  /\ io.pc = "more"
  /\ ~Held(c0)
  /\ Go("check")
  /\ UNCHANGED <<engine, conn, maker, opening, writer, writes, world, history>>

\* Under out_mutex: output that is left needs another write event.
More ==
  /\ io.pc = "more"
  /\ ~Held(c0)
  /\ IF conn[c0].obuffer > 0 THEN GoUpdatingLocked(All, "check") ELSE Go("check")
  /\ UNCHANGED <<engine, conn, maker, opening, writer, writes, world, history>>

\* SSL_write(): done, or for a faulty connection not yet, or an error, of which only a
\* socket error closes it.
SendTls ==
  /\ io.pc = "send" /\ c0 \notin Plaintext
  /\ \/ Go("sent")
     \/ /\ conn[c0].length > 0
        /\ c0 \in Faulty
        /\ \/ GoUpdating({"read"}, "check")
           \/ GoUpdating(All, "check")
           \/ GoClosing(c0, "check")
           \/ Go("check")
  /\ UNCHANGED <<engine, conn, maker, opening, writer, writes, world, history>>

Sent ==
  /\ io.pc = "sent"
  /\ ~Held(c0)
  /\ conn' = [conn EXCEPT ![c0].length = 0]
  /\ IF conn[c0].obuffer > 0 THEN GoUpdatingLocked(All, "check") ELSE Drained("check", TRUE)
  /\ UNCHANGED <<engine, maker, opening, writer, writes, world, history>>

-----------------------------------------------------------------------------
Loop ==
  \/ Poll \/ Visit \/ HandleError \/ Continue \/ Check \/ Erase
  \/ Update \/ UpdatePolled \/ ClearLoad \/ ClearStore \/ ClearPoll
  \/ ReadOrphan \/ ReadPlain \/ ReadTls \/ ReadEarly \/ Rearm
  \/ WriteOrphan \/ WriteEarly \/ Move \/ SendPlain \/ More \/ SendTls \/ Sent
  \/ Delete \/ Close \/ RetryDelete \/ RetryConnect

PeerSends(c) ==
  /\ conn[c].sfd # None /\ sent < MaxReads
  /\ sent' = sent + 1
  /\ inbound' = [inbound EXCEPT ![c] = @ + 1]
  /\ UNCHANGED <<engine, conn, threads, broken, history>>

PeerBreaks(c) ==
  /\ conn[c].sfd # None /\ c \in Faulty \ broken
  /\ broken' = broken \cup {c}
  /\ UNCHANGED <<engine, conn, threads, inbound, sent, history>>

Next ==
  \/ Loop \/ ReadReply \/ ReadClosesOther
  \/ Make \/ OpenOn \/ Write
  \/ \E c \in Conn :
       \/ Construct(c) \/ Open(c)
       \/ TimeOut(c) \/ RetryClose(c)
       \/ SocketWrite(c) \/ PeerSends(c) \/ PeerBreaks(c)

Spec == Init /\ [][Next]_vars

\* The IO thread goes on as long as it has something to do, and so does a thread inside
\* socket_write() or read_loop(); timers, callbacks and peers need not do anything.
FairSpec == Spec /\ WF_vars(Loop) /\ WF_vars(Make) /\ WF_vars(OpenOn) /\ WF_vars(Write)
-----------------------------------------------------------------------------
(* Properties.                                                               *)

Entries == [conn : Conn, nth : 1..MaxRetries + 1, flags : SUBSET Flags]
EngineTypes ==
  /\ fds \in [Fd -> Entries \cup {None}]
  /\ poll_set \in Seq([fd : Fd, events : SUBSET All])
  /\ opened \in [Fd -> Conn \cup {None}]

Pcs == {"prune", "visit", "retry", "connect", "made", "delete", "close", "error", "skip",
        "check", "erase", "update", "update_poll", "clear", "store", "clear_poll", "read",
        "rearm", "write", "move", "send", "sent", "more"}
IoThread ==
  [pc : Pcs, ready : Seq([fd : Fd, revents : SUBSET Events]),
   eh : [conn : Conn, nth : 1..MaxRetries + 1] \cup {None},
   flags : SUBSET Flags, victim : Conn \cup {None}, then : Pcs, locked : BOOLEAN]
ThreadTypes ==
  /\ io \in IoThread
  /\ maker = Resting \/ maker \in [pc : {"entry", "poll"}, conn : Conn, back : Pcs]
  /\ opener = Resting \/ opener \in [pc : {"entry", "poll"}, conn : Conn, fd : Fd]
  /\ \/ writer = Resting \/ writer \in [pc : {"mark"}, conn : Conn]
     \/ writer \in [pc : {"copied", "poll"}, conn : Conn, fd : Fd, entry : Entries]

Members == [sfd : Fd \cup {None}, phase : {"start", "handshake", "up"},
            obuffer : Nat, length : 0..BufSize, nth : 0..MaxRetries + 1]
ConnTypes ==
  /\ conn \in [Conn -> Members]
  /\ writes \in 0..MaxWrites
  /\ \A c \in Conn : conn[c].obuffer + conn[c].length <= writes + 1

WorldTypes ==
  /\ sent \in 0..MaxReads
  /\ inbound \in [Conn -> 0..sent]
  /\ broken \cup raced \cup foreign \subseteq Conn
  /\ crossed \in BOOLEAN

TypeOK == EngineTypes /\ ThreadTypes /\ ConnTypes /\ WorldTypes

\* The entry that process_events() holds a pointer to, and whose callbacks it runs, is there
\* until process_events() itself removes it.
EntryThere ==
  io.eh # None /\ io.pc \notin {"skip", "erase"} =>
    fds[fd] # None /\ fds[fd].conn = io.eh.conn /\ fds[fd].nth = io.eh.nth

\* So it is, whichever threads open connections and write to them, as long as no thread of
\* the application got a number that is still known, unless inplace_modify_fd() mixed up
\* the connection that is visited.
EntryInUseLives == crossed \/ (io.eh # None /\ c0 \in raced) \/ EntryThere

\* What delete_socket() promises, without exceptions: "removed as soon as is safe to do so".
EntryIsSafe == EntryThere

\* No connection closes a descriptor that was given to another one since, unless
\* inplace_modify_fd() mixed the other one up.
ClosesItsOwn == foreign \subseteq raced

\* An entry whose connection has let go of the descriptor is marked for deletion, unless
\* inplace_modify_fd() wrote back a copy made before that.
Final(f) == fds[f] # None => Marked(f) \/ fds[f].conn \in raced
Released(f) ==
  fds[f] # None /\ conn[fds[f].conn].sfd # f
DeletionIsFinal ==
  \A f \in Fd : Released(f) => Final(f)

\* The three together: no connection closes the descriptor of another, and what
\* delete_socket() marked stays marked until it is removed, as long as no thread of the
\* application got a number that is still known.
DescriptorsOwned == crossed \/ (TypeOK /\ ClosesItsOwn /\ DeletionIsFinal)

\* A connection that its constructor or a retry has not registered yet.
BeingMade(c) ==
  (maker.pc # "rest" /\ maker.conn = c) \/ (opener.pc # "rest" /\ opener.conn = c)

\* poll() is asked to report when it can be written; no call of the connection is under way;
\* it has output that the next write event would send.
Asked(f) == Polled(f) # 0 /\ "write" \in poll_set[Polled(f)].events
AtRest(c) == ~Held(c) /\ (io.eh # None => c0 # c) /\ ~BeingMade(c) /\ io.victim # c
Owing(c) ==
  conn[c].phase = "up" /\ conn[c].obuffer > 0 /\ (conn[c].length = 0 \/ c \in Plaintext)

\* What is in obuffer of a connected socket is asked for: whenever neither its handlers nor
\* a socket_write() is under way, poll() will report that it can be written.  That says
\* nothing of what is in client_to_server_buffer already: the rest of a send() of the last
\* of the output, and an SSL_write() that was refused, which obuffer waits for.
OutputIsArmed ==
  crossed \/ \A c \in Conn \ raced, f \in Fd : conn[c].sfd = f /\ AtRest(c) /\ Owing(c) => Asked(f)

\* After that nothing is claimed.
Uncrossed == ~crossed

\* What is written to a connection that is up is sent, unless it closes, as long as sending
\* is neither partial nor refused.
Unsent(c) == conn[c].phase = "up" /\ conn[c].obuffer + conn[c].length > 0
Settled(c) == conn[c].sfd = None \/ c \in raced \/ conn[c].obuffer + conn[c].length = 0
WrittenIsSent == \A c \in Conn \ Faulty : Unsent(c) ~> Settled(c)

\* A descriptor that is marked for deletion leaves the engine.
Leaving(f) == fds[f] # None /\ Marked(f)
MarkedLeaves == \A f \in Fd : Leaving(f) ~> ~Leaving(f)

-----------------------------------------------------------------------------
(* The inductive invariant behind EntryInUseLives and DescriptorsOwned, as    *)
(* long as no number that is still known is given out.                        *)

\* An entry is in use from Visit until the loop goes on, whichever calls happen in between;
\* a connection is closed, retried or opened in a handler or in prune().
Control ==
  /\ io.pc \in {"prune", "visit", "retry", "connect"} => io.eh = None
  /\ io.pc \in {"delete", "close"} => (io.eh = None <=> io.then = "prune")
  /\ io.pc = "made" =>
       (io.eh = None <=> maker.back = "prune" \/ (maker.back = "delete" /\ io.then = "prune"))
  /\ io.eh = None => io.pc \in {"prune", "visit", "retry", "connect", "made", "delete", "close"}
  /\ io.eh # None => io.ready # <<>>
  /\ io.pc \in {"update", "update_poll"} => io.then \in {"read", "rearm", "clear", "check", "move"}
  /\ io.pc \in {"delete", "close"} \/ (io.pc = "made" /\ maker.back = "delete") =>
       io.then \in {"prune", "skip", "check", "clear", "read", "more"}

\* The connection being closed or retried.
Deleting == io.pc \in {"delete", "close"} \/ (io.pc = "made" /\ maker.back = "delete")
Closing ==
  /\ Deleting \/ io.pc \in {"retry", "connect"} => io.victim \in Conn
  /\ io.pc \in {"close", "retry", "connect"} => conn[io.victim].sfd # None
  /\ io.pc \in {"retry", "connect"} => conn[io.victim].nth <= MaxRetries
  /\ io.pc \in {"close", "connect"} => Final(conn[io.victim].sfd)
  /\ Deleting /\ io.eh # None => (io.victim = c0 <=> io.then # "read")

\* The connection being registered has the descriptor it registers.
Making ==
  /\ io.pc = "made" <=> maker.pc # "rest"
  /\ maker.pc # "rest" => maker.back \in {"prune", "read", "delete"}
  /\ \A c \in Conn : conn[c].sfd # None => conn[c].nth > 0
  /\ maker.pc # "rest" =>
       /\ conn[maker.conn].sfd # None => opened[conn[maker.conn].sfd] = maker.conn
       /\ io.eh # None => maker.conn # c0

\* Nobody but the thread that opens a connection has it before it is registered.
Apart(c) ==
  /\ \A f \in Fd : fds[f] # None /\ fds[f].conn = c =>
       opener.pc = "poll" /\ opener.conn = c /\ opener.fd = f
  /\ io.eh # None => c0 # c
  /\ io.victim # c
  /\ maker.conn # c
  /\ writer.pc # "rest" => writer.conn # c
  /\ writer.pc \in {"copied", "poll"} => writer.entry.conn # c
OpenedApart ==
  \A c \in Conn : conn[c].nth = 0 \/ (opener.pc # "rest" /\ opener.conn = c) => Apart(c)

\* And nobody the descriptor.
Opening ==
  opener.pc # "rest" =>
    /\ conn[opener.conn].sfd = opener.fd
    /\ opened[opener.fd] = opener.conn
    /\ opener.pc = "entry" <=> fds[opener.fd] = None
    /\ \A c \in Conn \ {opener.conn} : conn[c].sfd # opener.fd
    /\ \A i \in 1..Len(poll_set) : poll_set[i].fd # opener.fd
    /\ \A i \in 1..Len(io.ready) : io.ready[i].fd # opener.fd

\* A connection has the descriptor it remembers, unless a retry closed it just now.
Owning ==
  \A c \in Conn \ raced :
    conn[c].sfd # None =>
      opened[conn[c].sfd] = c \/ (io.pc \in {"retry", "connect"} /\ io.victim = c)

\* The handlers run for the descriptor of their connection, until one of them closes it.
Gone(c, f) == conn[c].sfd = None /\ opened[f] = None /\ conn[c].obuffer = 0
Serving ==
  io.eh # None /\ c0 \notin raced =>
    /\ io.pc \in {"read", "error", "rearm", "move", "send", "sent", "update", "update_poll",
                  "made", "delete", "close"} => conn[c0].sfd = fd
    /\ io.pc \in {"clear", "store", "clear_poll", "write", "more"} =>
         conn[c0].sfd = fd \/ Gone(c0, fd)
    /\ io.pc = "store" => conn[c0].sfd = fd \/ "deletion" \in io.flags

\* The entry in use is still the one that was visited, or both were mixed up.
InUse ==
  io.eh # None /\ io.pc \notin {"skip", "erase"} =>
    /\ fds[fd] # None
    /\ \/ fds[fd].conn = c0 /\ fds[fd].nth = io.eh.nth
       \/ {c0, fds[fd].conn} \subseteq raced

InductiveInvariant ==
  /\ TypeOK /\ Control /\ Closing /\ Making /\ OpenedApart /\ Opening /\ Owning /\ Serving
  /\ InUse /\ ClosesItsOwn /\ DeletionIsFinal

-----------------------------------------------------------------------------
(* What OutputIsArmed rests on, besides that.                                 *)

\* A descriptor is in the poll set once, and not without an entry in fds.
PolledOnce ==
  /\ \A i, j \in 1..Len(poll_set) : poll_set[i].fd = poll_set[j].fd => i = j
  /\ \A f \in Fd :
       /\ Polled(f) # 0 => fds[f] # None
       /\ io.pc = "erase" /\ fd = f => Polled(f) = 0
       /\ maker.pc = "poll" /\ conn[maker.conn].sfd = f => fds[f] # None /\ Polled(f) = 0

\* A connection that has a descriptor is in both tables, from its registration until close()
\* or a retry marks it.
Unregistered(c) ==
  (maker.pc = "entry" /\ maker.conn = c) \/ (opener.pc = "entry" /\ opener.conn = c)
Registered ==
  /\ io.pc \in {"retry", "connect"} => opened[conn[io.victim].sfd] = None
  /\ \A c \in Conn \ raced, f \in Fd : conn[c].sfd = f =>
       /\ \/ Unregistered(c)
          \/ /\ fds[f] # None /\ fds[f].conn = c
             /\ Marked(f) => io.pc \in {"close", "retry", "connect"} /\ conn[io.victim].sfd = f
       /\ BeingMade(c) \/ Polled(f) # 0
       /\ io.pc = "erase" => fd # f

\* An entry, the copies of it too, was registered by its connection before.
Before(e) ==
  \/ e.nth < conn[e.conn].nth
  \/ e.nth = conn[e.conn].nth /\ ~Unregistered(e.conn)
Numbered ==
  /\ \A f \in Fd : fds[f] # None => Before(fds[f])
  /\ io.eh # None /\ io.pc \notin {"skip", "erase"} => Before(io.eh)
  /\ writer.pc \in {"copied", "poll"} => Before(writer.entry)

\* socket_write() asks for write events after it put something in the buffer, for the entry of
\* its own connection; what it copied was marked only if the entry still is.
Writing ==
  /\ \A c \in Conn : Held(c) /\ conn[c].sfd # None => conn[c].obuffer > 0
  /\ writer.pc \in {"copied", "poll"} =>
       /\ "write" \in writer.entry.flags
       /\ writer.entry.conn = writer.conn \/ writer.entry.conn \in raced
  /\ writer.pc = "copied" /\ "deletion" \in writer.entry.flags /\ fds[writer.fd] # None =>
       \/ Marked(writer.fd) \/ writer.entry.conn \in raced
       \/ fds[writer.fd].conn # writer.entry.conn \/ fds[writer.fd].nth # writer.entry.nth

\* The flags that a handler hands to update_socket(): write events are given up only to wait
\* for the peer of a TLS connection, in the handshake, with a buffer that is not empty, or
\* before the end of on_read() asks again.
Updating == io.pc \in {"update", "update_poll"}
Handing ==
  /\ \A c \in Plaintext : conn[c].phase # "handshake"
  /\ io.eh # None /\ c0 \notin raced =>
       /\ Updating => "deletion" \notin io.flags
       /\ io.pc = "store" /\ conn[c0].sfd = fd => "deletion" \notin io.flags
       /\ io.pc = "rearm" \/ (Updating /\ io.then = "rearm") =>
            c0 \notin Plaintext /\ conn[c0].phase # "start"
       /\ Updating /\ "write" \notin io.flags =>
            /\ c0 \notin Plaintext
            /\ \/ io.then = "rearm" \/ conn[c0].phase = "handshake"
               \/ io.then = "check" /\ conn[c0].length > 0
            /\ io.pc = "update_poll" /\ "write" \in fds[fd].flags => conn[c0].obuffer > 0

\* An entry that wants write events is polled for them, as inplace_modify_fd() supposes that
\* changes nothing then, unless one of the threads is about to see to it, or output is left
\* that a later handler will ask for.
Serves(c, pcs) == io.eh # None /\ c0 = c /\ io.pc \in pcs
SeenTo(c, f) ==
  \/ writer.pc \in {"copied", "poll"} /\ writer.conn = c /\ writer.fd = f
  \/ Serves(c, {"update", "update_poll"}) /\ "write" \in io.flags
  \/ Serves(c, {"store", "clear_poll"})
  \/ conn[c].phase = "handshake"
  \/ c \notin Plaintext /\ conn[c].obuffer > 0 /\ (conn[c].length > 0 \/ Serves(c, {"rearm"}))
Agreeing ==
  \A c \in Conn \ raced, f \in Fd :
    conn[c].sfd = f /\ ~BeingMade(c) /\ "write" \in fds[f].flags /\ ~Asked(f) => SeenTo(c, f)

\* Output of a connection that is up is asked for, or will be by its handler or by the
\* socket_write() under way, or the connection is being closed.
Outputs == {"update", "update_poll", "rearm", "clear", "store", "clear_poll", "write", "move",
            "send", "more", "sent"}
Arming ==
  \A c \in Conn \ raced, f \in Fd :
    conn[c].sfd = f /\ ~BeingMade(c) /\ Owing(c) /\ ~Asked(f) =>
      \/ Held(c) /\ (writer.pc = "mark" \/ writer.fd = f)
      \/ Serves(c, Outputs)
      \/ Deleting /\ io.victim = c

OutputInvariant ==
  PolledOnce /\ Registered /\ Numbered /\ Writing /\ Handing /\ Agreeing /\ Arming
=============================================================================
