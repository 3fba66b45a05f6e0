----------------------------- MODULE SocketEngine ----------------------------
(***************************************************************************)
(* The tables of socket_engine_poll (src/socketengine.cpp and              *)
(* src/socketengine_poll.cpp): fds under fds_mutex, poll_set under         *)
(* poll_set_mutex, and the descriptors the operating system has open.      *)
(* Each operator is one critical section; a call that takes both mutexes   *)
(* one after the other is two operators, and whoever composes them decides *)
(* what comes in between.  WANT_ERROR is set whenever WANT_READ is and is  *)
(* left out.                                                               *)
(***************************************************************************)
EXTENDS Naturals, Sequences, SequencesExt

CONSTANTS Conn,  \* the ssl_connection objects that may ever exist
          Fd,    \* the descriptor numbers
          None

ASSUME EngineAssumption == Fd \subseteq Nat /\ None \notin Conn \cup Fd

VARIABLES fds,       \* descriptor -> the socket_events registered for it
          poll_set,  \* the pollfd entries
          opened     \* external: descriptor -> the connection whose socket it is

engine == <<fds, poll_set, opened>>

Flags == {"read", "write", "deletion"}
All == {"read", "write"}

\* The callbacks of an entry call a connection, the nth time it registers itself.
Entry(c, nth, flags) == [conn |-> c, nth |-> nth, flags |-> flags]

EngineInit ==
  /\ fds = [f \in Fd |-> None]
  /\ poll_set = <<>>
  /\ opened = [f \in Fd |-> None]

Polled(f) == SelectInSeq(poll_set, LAMBDA p : p.fd = f)

\* register_socket(), under fds_mutex: an entry that is there is replaced, and leaves the
\* poll set.
RegisterEntry(f, entry) ==
  /\ fds' = [fds EXCEPT ![f] = entry]
  /\ poll_set' = IF fds[f] # None /\ Polled(f) # 0 THEN RemoveAt(poll_set, Polled(f))
                                                   ELSE poll_set
  /\ UNCHANGED opened

\* ... and under poll_set_mutex.
RegisterPoll(f, flags) ==
  /\ poll_set' = Append(poll_set, [fd |-> f, events |-> flags \cap All])
  /\ UNCHANGED <<fds, opened>>

\* update_socket(), under fds_mutex: the whole entry is overwritten, by flags and callbacks.
UpdateEntry(f, entry) ==
  /\ fds' = IF fds[f] = None THEN fds ELSE [fds EXCEPT ![f] = entry]
  /\ UNCHANGED <<poll_set, opened>>

\* ... and under poll_set_mutex.
UpdatePoll(f, flags) ==
  /\ poll_set' = IF Polled(f) = 0 THEN poll_set
                 ELSE [poll_set EXCEPT ![Polled(f)].events = flags \cap All]
  /\ UNCHANGED <<fds, opened>>

Marked(f) == "deletion" \in fds[f].flags

\* Fault: delete_socket() erases the entry at once.
DeleteErases(f) ==
  /\ fds' = [fds EXCEPT ![f] = None]
  /\ UNCHANGED <<poll_set, opened>>

\* delete_socket(): the entry is only marked.
DeleteSocket(f) ==
  /\ fds' = IF fds[f] = None \/ Marked(f) THEN fds
            ELSE [fds EXCEPT ![f].flags = {"deletion"}]
  /\ UNCHANGED <<poll_set, opened>>

\* What process_events() does to an entry that is marked, under poll_set_mutex ...
RemoveSocket(f) ==
  /\ poll_set' = IF Polled(f) = 0 THEN poll_set ELSE RemoveAt(poll_set, Polled(f))
  /\ UNCHANGED <<fds, opened>>

\* ... and under fds_mutex: whichever entry the descriptor has by then.
EraseEntry(f) ==
  /\ fds' = [fds EXCEPT ![f] = None]
  /\ UNCHANGED <<poll_set, opened>>
=============================================================================
