------------------------- MODULE SslConnectionProofs -------------------------
(* Proofs about SslConnection, for any sets of connections and descriptors,   *)
(* any buffer and any bounds, whichever threads open connections.             *)
EXTENDS SslConnection, SequenceTheorems, FiniteSetTheorems, WellFoundedInduction, TLAPS

------------------------------------------------------------------------------
(* Lemmas on the tables of the engine and on the positions of the IO thread.  *)

\* A set of numbers that is not empty has a least element: the intervals up to its elements
\* are finite sets, and one of them contains no other.
LEMMA LeastNumber ==
  ASSUME NEW I \in SUBSET Nat, I # {}
  PROVE  Min(I) \in I
<1> DEFINE T == {1..i : i \in I}
<1>1. \A i \in I : 1..i \in FiniteSubsetsOf(Nat)
  <2> SUFFICES ASSUME NEW i \in I PROVE IsFiniteSet(1..i)
    BY DEF FiniteSubsetsOf
  <2>1. QED  BY FS_Interval
<1>2. T \subseteq FiniteSubsetsOf(Nat) /\ T # {}
  BY <1>1
<1>3. PICK X \in T : \A Y \in T : <<Y, X>> \notin StrictSubsetOrdering(Nat)
  BY <1>2, FS_StrictSubsetOrderingWellFounded, WFMin
<1>4. PICK x \in I : X = 1..x  OBVIOUS
<1>5. \A y \in I : x <= y
  <2> SUFFICES ASSUME NEW y \in I, y < x PROVE FALSE  OBVIOUS
  <2>1. x \notin 1..y /\ x \in 1..x /\ 1..y \subseteq 1..x  OBVIOUS
  <2>2. <<1..y, 1..x>> \in StrictSubsetOrdering(Nat)
    BY <2>1 DEF StrictSubsetOrdering
  <2>3. QED  BY <1>3, <1>4, <2>2
<1>6. QED  BY <1>5 DEF Min

\* Polled finds an index of poll_set, or 0.
LEMMA PolledIndex ==
  ASSUME EngineTypes, NEW f \in Fd
  PROVE  Polled(f) \in 0..Len(poll_set)
<1> DEFINE I == {i \in 1..Len(poll_set) : poll_set[i].fd = f}
<1>1. Len(poll_set) \in Nat  BY DEF EngineTypes
<1>2. CASE I = {}
  BY <1>1, <1>2 DEF Polled, SelectInSeq
<1>3. CASE I # {}
  <2>1. I \in SUBSET Nat  BY <1>1
  <2>2. Min(I) \in I  BY <1>3, <2>1, LeastNumber
  <2>3. Polled(f) = Min(I)  BY <1>3 DEF Polled, SelectInSeq
  <2>4. QED  BY <1>1, <2>2, <2>3
<1>4. QED  BY <1>2, <1>3

\* Taking an element out of a sequence leaves a sequence.
LEMMA RemoveAtType ==
  ASSUME NEW S, NEW s \in Seq(S), NEW i \in 1..Len(s)
  PROVE  RemoveAt(s, i) \in Seq(S)
BY DEF RemoveAt

\* The operations of the engine keep the types of its tables.
LEMMA EngineSteps ==
  ASSUME EngineTypes, NEW f \in Fd
  PROVE  /\ \A e \in Entries : RegisterEntry(f, e) \/ UpdateEntry(f, e) => EngineTypes'
         /\ \A flags \in SUBSET Flags :
              RegisterPoll(f, flags) \/ UpdatePoll(f, flags) => EngineTypes'
         /\ DeleteSocket(f) \/ RemoveSocket(f) \/ EraseEntry(f) => EngineTypes'
<1> USE DEF EngineTypes
<1> DEFINE Polls == [fd : Fd, events : SUBSET All]
<1>0. poll_set \in Seq(Polls)  OBVIOUS
<1>1. Polled(f) \in 0..Len(poll_set) /\ Len(poll_set) \in Nat
  BY PolledIndex
<1>2. Polled(f) # 0 => RemoveAt(poll_set, Polled(f)) \in Seq(Polls)
  BY <1>1, RemoveAtType
<1>3. \A flags \in SUBSET Flags : Append(poll_set, [fd |-> f, events |-> flags \cap All]) \in Seq(Polls)
  OBVIOUS
<1>4. \A flags \in SUBSET Flags :
        [poll_set EXCEPT ![Polled(f)].events = flags \cap All] \in Seq(Polls)
  <2> TAKE flags \in SUBSET Flags
  <2> HIDE DEF Polls
  <2>1. poll_set \in [1..Len(poll_set) -> Polls]  BY <1>0
  <2>2. \A i \in 1..Len(poll_set) : [poll_set[i] EXCEPT !.events = flags \cap All] \in Polls
    BY <2>1 DEF Polls
  <2>3. [poll_set EXCEPT ![Polled(f)].events = flags \cap All] \in [1..Len(poll_set) -> Polls]
    BY <2>1, <2>2
  <2> DEFINE t == [poll_set EXCEPT ![Polled(f)].events = flags \cap All]
  <2> HIDE DEF t
  <2>4. t \in [1..Len(poll_set) -> Polls] => t \in Seq(Polls)  BY <1>1, SeqDef
  <2>5. QED  BY <2>3, <2>4 DEF t
<1>5. \A e \in Entries : RegisterEntry(f, e) \/ UpdateEntry(f, e) => EngineTypes'
  BY <1>2 DEF RegisterEntry, UpdateEntry
<1>6. \A flags \in SUBSET Flags :
        RegisterPoll(f, flags) \/ UpdatePoll(f, flags) => EngineTypes'
  BY <1>3, <1>4 DEF RegisterPoll, UpdatePoll
<1>7. RemoveSocket(f) => EngineTypes'
  BY <1>2 DEF RemoveSocket
<1>8. DeleteSocket(f) => EngineTypes'
  BY DEF DeleteSocket, Entries, Flags
<1>9. EraseEntry(f) => EngineTypes'
  BY DEF EraseEntry
<1>10. QED  BY <1>5, <1>6, <1>7, <1>8, <1>9

\* The thread moves to another position: that keeps its type, and what it is visiting.
LEMMA IoMoves ==
  ASSUME io \in IoThread, NEW pc \in Pcs
  PROVE  /\ Go(pc) => /\ io' \in IoThread /\ io'.pc = pc /\ io'.victim = io.victim
                      /\ io'.then = io.then /\ io'.flags = io.flags
                      /\ io'.eh = io.eh /\ io'.ready = io.ready
         /\ GoOn(pc) => /\ io' \in IoThread /\ io'.pc = pc /\ io'.then = "prune"
                        /\ io'.eh = io.eh /\ io'.ready = io.ready
         /\ \A c \in Conn : GoClosing(c, pc) =>
              /\ io' \in IoThread /\ io'.pc = "delete" /\ io'.victim = c /\ io'.then = pc
              /\ io'.eh = io.eh /\ io'.ready = io.ready
         /\ \A flags \in SUBSET Flags :
              GoUpdating(flags, pc) \/ GoUpdatingLocked(flags, pc) =>
                /\ io' \in IoThread /\ io'.pc = "update" /\ io'.then = pc
                /\ io'.eh = io.eh /\ io'.ready = io.ready
<1> USE DEF IoThread
<1>1. "prune" \in Pcs /\ "delete" \in Pcs /\ "update" \in Pcs /\ {} \in SUBSET Flags
  BY DEF Pcs
<1>2. QED  BY <1>1 DEF Go, GoOn, GoClosing, GoUpdating, GoUpdatingLocked

\* The loop goes on to the next descriptor, or starts again.
LEMMA Skipping ==
  ASSUME io \in IoThread, io.ready # <<>>
  PROVE  /\ fd \in Fd /\ revents \in SUBSET Events
         /\ Skip \in IoThread /\ Skip.pc = "visit" /\ Skip.eh = None /\ Skip.then = io.then
<1>1. io.ready \in Seq([fd : Fd, revents : SUBSET Events])
  BY DEF IoThread
<1>2. /\ Head(io.ready) \in [fd : Fd, revents : SUBSET Events]
      /\ Tail(io.ready) \in Seq([fd : Fd, revents : SUBSET Events])
  BY <1>1, HeadTailProperties
<1>3. QED  BY <1>1, <1>2 DEF IoThread, Skip, Pcs, fd, revents

\* What holds while an entry is in use.
LEMMA AtWork ==
  ASSUME InductiveInvariant, io.eh # None
  PROVE  /\ io \in IoThread /\ io.ready # <<>>
         /\ fd \in Fd /\ revents \in SUBSET Events
         /\ io.eh \in [conn : Conn, nth : 1..MaxRetries + 1]
         /\ c0 \in Conn /\ io.eh.nth \in 1..MaxRetries + 1
<1>1. io \in IoThread /\ io.ready # <<>>
  BY DEF InductiveInvariant, TypeOK, ThreadTypes, Control
<1>2. io.eh \in [conn : Conn, nth : 1..MaxRetries + 1]
  BY <1>1 DEF IoThread
<1>3. QED  BY <1>1, <1>2, Skipping DEF c0

\* When the buffer is drained the connection goes on, or closes first.
LEMMA Draining ==
  ASSUME io \in IoThread, c0 \in Conn, NEW then \in Pcs, NEW locked \in BOOLEAN,
         Drained(then, locked)
  PROVE  /\ io' \in IoThread /\ io'.eh = io.eh /\ io'.ready = io.ready
         /\ \/ io'.pc = then
            \/ io'.pc = "delete" /\ io'.victim = c0 /\ io'.then = then
<1>1. CASE Go(then)  BY <1>1, IoMoves
<1>2. CASE io' = [io EXCEPT !.pc = "delete", !.victim = c0, !.then = then, !.locked = locked]
  BY <1>2 DEF IoThread, Pcs
<1>3. QED  BY <1>1, <1>2 DEF Drained

------------------------------------------------------------------------------
(* The types.                                                                 *)

\* What a constructor does.
LEMMA Constructing ==
  ASSUME EngineTypes, ConnTypes, NEW c \in Conn, NEW f \in Available, Constructed(c, f)
  PROVE  /\ f \in Fd /\ opened[f] = None /\ conn[c].nth = 0
         /\ conn'[c].sfd = f /\ conn'[c].nth = 1
         /\ opened' = [opened EXCEPT ![f] = c] /\ opened'[f] = c
         /\ \E phase \in {"start", "up", "handshake"} :
              /\ c \in Plaintext => phase # "handshake"
              /\ conn'[c] = [sfd |-> f, phase |-> phase, obuffer |-> 1, length |-> 0, nth |-> 1]
         /\ conn' = [conn EXCEPT ![c] = conn'[c]]
         /\ \A d \in Conn \ {c} : conn'[d] = conn[d]
         /\ UNCHANGED <<fds, poll_set, writer, writes, world, history>>
<1>1. f \in Fd /\ opened[f] = None  BY DEF Available
<1>2. PICK phase \in {"start", IF c \in Plaintext THEN "up" ELSE "handshake"} :
        conn' = [conn EXCEPT ![c] =
          [sfd |-> f, phase |-> phase, obuffer |-> 1, length |-> 0, nth |-> 1]]
  BY DEF Constructed
<1>3. phase \in {"start", "up", "handshake"} /\ (c \in Plaintext => phase # "handshake")
  BY <1>2
<1>4. conn'[c] = [sfd |-> f, phase |-> phase, obuffer |-> 1, length |-> 0, nth |-> 1]
  BY <1>2 DEF ConnTypes
<1>5. \A d \in Conn \ {c} : conn'[d] = conn[d]  BY <1>2 DEF ConnTypes
<1>6. conn' = [conn EXCEPT ![c] = conn'[c]]  BY <1>2, <1>4
<1>7. conn'[c].sfd = f /\ conn'[c].nth = 1  BY <1>4
<1>8. QED  BY <1>1, <1>3, <1>4, <1>5, <1>6, <1>7 DEF Constructed, EngineTypes

\* What a retry does.
LEMMA Reconnecting ==
  ASSUME InductiveInvariant, RetryConnect
  PROVE  /\ io.pc = "connect" /\ io.victim \in Conn /\ conn[io.victim].sfd \in Fd
         /\ conn' = [conn EXCEPT ![io.victim] = conn'[io.victim]]
         /\ \A d \in Conn \ {io.victim} : conn'[d] = conn[d]
         /\ conn'[io.victim] \in Members /\ conn'[io.victim].nth = conn[io.victim].nth + 1
         /\ conn'[io.victim].obuffer + conn'[io.victim].length
              <= conn[io.victim].obuffer + conn[io.victim].length
         /\ \/ conn'[io.victim].phase = conn[io.victim].phase
            \/ io.victim \notin Plaintext /\ conn'[io.victim].phase = "handshake"
            \/ io.victim \in Plaintext /\ conn'[io.victim].phase = "up"
         /\ \/ conn'[io.victim].obuffer = conn[io.victim].obuffer
            \/ conn'[io.victim].sfd = None \/ ~Held(io.victim)
         /\ IF conn'[io.victim].sfd = None THEN UNCHANGED opened
            ELSE /\ conn'[io.victim].sfd \in Fd /\ opened[conn'[io.victim].sfd] = None
                 /\ opened' = [opened EXCEPT ![conn'[io.victim].sfd] = io.victim]
                 /\ opened'[conn'[io.victim].sfd] = io.victim
         /\ \/ UNCHANGED fds
            \/ /\ conn'[io.victim].sfd = None
               /\ \E f \in Fd : opened[f] = None /\ DeleteSocket(f)
         /\ UNCHANGED <<poll_set, opening, writer, writes, inbound, sent, history>>
         /\ io' \in IoThread /\ io'.pc = "made" /\ io'.victim = None
         /\ io'.eh = io.eh /\ io'.ready = io.ready /\ io'.then = io.then
         /\ maker' = [pc |-> "entry", conn |-> io.victim, back |-> "prune"]
         /\ broken' = broken \ {io.victim}
<1> USE EngineAssumption, ConnectionAssumption
<1> DEFINE c == io.victim
           n == Smaller(conn[c].obuffer, BufSize)
<1>0. EngineTypes /\ ConnTypes /\ io \in IoThread
  BY DEF InductiveInvariant, TypeOK, ThreadTypes
<1>1. io.pc = "connect" /\ c \in Conn /\ conn[c].sfd \in Fd /\ conn[c].nth <= MaxRetries
  BY <1>0 DEF RetryConnect, InductiveInvariant, Closing, ConnTypes, Members
<1>2. conn[c] \in Members  BY <1>0, <1>1 DEF ConnTypes
<1>3. /\ n \in 0..BufSize /\ conn[c].obuffer - n \in Nat
      /\ conn[c].nth + 1 \in 0..MaxRetries + 1
  BY <1>1, <1>2 DEF Smaller, Members
<1>4. \A f \in Available : f \in Fd /\ opened[f] = None  BY DEF Available
<1>5. /\ UNCHANGED <<opening, writer, writes, inbound, sent, history>>
      /\ maker' = [pc |-> "entry", conn |-> c, back |-> "prune"]
      /\ broken' = broken \ {c}
  BY DEF RetryConnect
<1>6. /\ io' \in IoThread /\ io'.pc = "made" /\ io'.victim = None
      /\ io'.eh = io.eh /\ io'.ready = io.ready /\ io'.then = io.then
  BY <1>0 DEF RetryConnect, IoThread, Pcs
<1> DEFINE Outcome ==
      /\ conn' = [conn EXCEPT ![c] = conn'[c]]
      /\ conn'[c] \in Members /\ conn'[c].nth = conn[c].nth + 1
      /\ conn'[c].obuffer + conn'[c].length <= conn[c].obuffer + conn[c].length
      /\ \/ conn'[c].phase = conn[c].phase
         \/ c \notin Plaintext /\ conn'[c].phase = "handshake"
         \/ c \in Plaintext /\ conn'[c].phase = "up"
      /\ conn'[c].obuffer = conn[c].obuffer \/ conn'[c].sfd = None \/ ~Held(c)
<1>7. ASSUME Waiting(c)
      PROVE  /\ Outcome /\ UNCHANGED <<fds, poll_set>>
             /\ IF conn'[c].sfd = None THEN UNCHANGED opened
                ELSE /\ conn'[c].sfd \in Fd /\ opened[conn'[c].sfd] = None
                     /\ opened' = [opened EXCEPT ![conn'[c].sfd] = c]
  <2>1. PICK f \in Available \cup {None} :
          /\ opened' = IF f = None THEN opened ELSE [opened EXCEPT ![f] = c]
          /\ conn' = [conn EXCEPT ![c].sfd = f, ![c].nth = @ + 1]
          /\ UNCHANGED <<fds, poll_set>>
    BY <1>7 DEF Waiting
  <2>2. f \in Fd \cup {None}  BY <1>4
  <2>3. conn'[c] = [conn[c] EXCEPT !.sfd = f, !.nth = conn[c].nth + 1]
    BY <1>0, <1>1, <2>1 DEF ConnTypes, Members
  <2>4. /\ conn'[c] \in Members /\ conn'[c].sfd = f /\ conn'[c].nth = conn[c].nth + 1
        /\ conn'[c].phase = conn[c].phase /\ conn'[c].obuffer = conn[c].obuffer
        /\ conn'[c].length = conn[c].length
    BY <1>2, <1>3, <2>2, <2>3 DEF Members
  <2>5. conn' = [conn EXCEPT ![c] = conn'[c]]  BY <1>0, <1>1, <2>1, <2>3 DEF ConnTypes
  <2>6. conn'[c].obuffer + conn'[c].length <= conn[c].obuffer + conn[c].length
    BY <1>2, <2>4 DEF Members
  <2>7. Outcome  BY <2>4, <2>5, <2>6
  <2>8. QED  BY <1>4, <2>1, <2>4, <2>7
<1>8. ASSUME AtOnce(c)
      PROVE  /\ Outcome /\ UNCHANGED <<fds, poll_set>>
             /\ conn'[c].sfd \in Fd /\ opened[conn'[c].sfd] = None
             /\ opened' = [opened EXCEPT ![conn'[c].sfd] = c]
  <2>1. PICK f \in Available :
          /\ opened' = [opened EXCEPT ![f] = c]
          /\ \/ /\ c \notin Plaintext
                /\ conn' = [conn EXCEPT ![c].sfd = f, ![c].nth = @ + 1, ![c].phase = "handshake"]
             \/ /\ c \in Plaintext /\ ~Held(c)
                /\ \E rest \in 0..n :
                     conn' = [conn EXCEPT ![c].sfd = f, ![c].nth = @ + 1, ![c].phase = "up",
                                          ![c].obuffer = @ - n, ![c].length = rest]
          /\ UNCHANGED <<fds, poll_set>>
    BY <1>8 DEF AtOnce
  <2>2. f \in Fd /\ opened[f] = None  BY <1>4
  <2>3. CASE /\ c \notin Plaintext
             /\ conn' = [conn EXCEPT ![c].sfd = f, ![c].nth = @ + 1, ![c].phase = "handshake"]
    <3>1. conn'[c] = [conn[c] EXCEPT !.sfd = f, !.nth = conn[c].nth + 1, !.phase = "handshake"]
      BY <1>0, <1>1, <2>3 DEF ConnTypes, Members
    <3>2. /\ conn'[c] \in Members /\ conn'[c].sfd = f /\ conn'[c].nth = conn[c].nth + 1
          /\ conn'[c].phase = "handshake" /\ conn'[c].obuffer = conn[c].obuffer
          /\ conn'[c].length = conn[c].length
      BY <1>2, <1>3, <2>2, <3>1 DEF Members
    <3>3. conn' = [conn EXCEPT ![c] = conn'[c]]  BY <1>0, <1>1, <2>3, <3>1 DEF ConnTypes
    <3>4. conn'[c].obuffer + conn'[c].length <= conn[c].obuffer + conn[c].length
      BY <1>2, <3>2 DEF Members
    <3>5. Outcome  BY <2>3, <3>2, <3>3, <3>4
    <3>6. QED  BY <2>1, <2>2, <3>2, <3>5
  <2>4. CASE /\ c \in Plaintext /\ ~Held(c)
             /\ \E rest \in 0..n :
                  conn' = [conn EXCEPT ![c].sfd = f, ![c].nth = @ + 1, ![c].phase = "up",
                                       ![c].obuffer = @ - n, ![c].length = rest]
    <3>1. PICK rest \in 0..n :
            conn' = [conn EXCEPT ![c].sfd = f, ![c].nth = @ + 1, ![c].phase = "up",
                                 ![c].obuffer = @ - n, ![c].length = rest]
      BY <2>4
    <3> HIDE DEF n
    <3>2. conn'[c] = [conn[c] EXCEPT !.sfd = f, !.nth = conn[c].nth + 1, !.phase = "up",
                                     !.obuffer = conn[c].obuffer - n, !.length = rest]
      BY <1>0, <1>1, <3>1 DEF ConnTypes, Members
    <3>3. rest \in 0..BufSize /\ rest <= n  BY <1>3
    <3>4. /\ conn'[c] \in Members /\ conn'[c].sfd = f /\ conn'[c].nth = conn[c].nth + 1
          /\ conn'[c].phase = "up" /\ conn'[c].obuffer = conn[c].obuffer - n
          /\ conn'[c].length = rest
      BY <1>2, <1>3, <2>2, <3>2, <3>3 DEF Members
    <3>5. conn' = [conn EXCEPT ![c] = conn'[c]]  BY <1>0, <1>1, <3>1, <3>2 DEF ConnTypes
    <3>6. conn[c].obuffer - n + rest <= conn[c].obuffer + conn[c].length
      BY <1>2, <1>3, <3>3 DEF Members
    <3>7. QED  BY <2>1, <2>2, <2>4, <3>4, <3>5, <3>6
  <2>5. QED  BY <2>1, <2>3, <2>4
<1>9. ASSUME Failing(c)
      PROVE  /\ Outcome /\ conn'[c].sfd = None /\ UNCHANGED <<opened, poll_set>>
             /\ \E f \in Fd : opened[f] = None /\ DeleteSocket(f)
  <2>1. conn' = [conn EXCEPT ![c].sfd = None, ![c].nth = @ + 1, ![c].obuffer = 0]
    BY <1>9 DEF Failing
  <2>2. conn'[c] = [conn[c] EXCEPT !.sfd = None, !.nth = conn[c].nth + 1, !.obuffer = 0]
    BY <1>0, <1>1, <2>1 DEF ConnTypes, Members
  <2>a. conn'[c].sfd = None /\ conn'[c].nth = conn[c].nth + 1 /\ conn'[c].obuffer = 0
        /\ conn'[c].phase = conn[c].phase /\ conn'[c].length = conn[c].length
    BY <1>2, <2>2 DEF Members
  <2> HIDE DEF n
  <2>b. conn'[c] \in Members
    <3>1. \A m \in Members : \A k \in 0..MaxRetries + 1 :
            [m EXCEPT !.sfd = None, !.nth = k, !.obuffer = 0] \in Members
      BY DEF Members
    <3>2. conn[c].nth + 1 \in 0..MaxRetries + 1  BY <1>3
    <3>3. QED  BY ONLY <1>2, <2>2, <3>1, <3>2
  <2>3. conn'[c].obuffer + conn'[c].length <= conn[c].obuffer + conn[c].length
    BY <1>2, <2>a DEF Members
  <2>4. conn' = [conn EXCEPT ![c] = conn'[c]]  BY <1>0, <1>1, <2>1, <2>2 DEF ConnTypes
  <2>5. Outcome  BY <2>a, <2>b, <2>3, <2>4
  <2>6. PICK f \in Available : DeleteSocket(f)  BY <1>9 DEF Failing
  <2>7. UNCHANGED <<opened, poll_set>>  BY <2>6 DEF DeleteSocket
  <2>8. QED  BY <1>4, <2>a, <2>5, <2>6, <2>7
<1>10. Waiting(c) \/ AtOnce(c) \/ Failing(c)  BY DEF RetryConnect
<1>11. Outcome /\ UNCHANGED poll_set  BY <1>7, <1>8, <1>9, <1>10
<1>12. \A d \in Conn \ {c} : conn'[d] = conn[d]
  <2>1. conn' = [conn EXCEPT ![c] = conn'[c]]  BY <1>11
  <2>2. QED  BY <1>0, <1>1, <2>1 DEF ConnTypes
<1>13. IF conn'[c].sfd = None THEN UNCHANGED opened
       ELSE /\ conn'[c].sfd \in Fd /\ opened[conn'[c].sfd] = None
            /\ opened' = [opened EXCEPT ![conn'[c].sfd] = c]
  BY <1>7, <1>8, <1>9, <1>10
<1>14. conn'[c].sfd # None => opened'[conn'[c].sfd] = c
  BY <1>0, <1>13 DEF EngineTypes
<1>15. \/ UNCHANGED fds
       \/ conn'[c].sfd = None /\ \E f \in Fd : opened[f] = None /\ DeleteSocket(f)
  BY <1>7, <1>8, <1>9, <1>10
<1> HIDE DEF n
<1>16. QED  BY <1>1, <1>5, <1>6, <1>11, <1>12, <1>13, <1>14, <1>15

\* The steps of the thread that opens a connection, and those of the other ones.
OpenNext == OpenOn \/ \E c \in Conn : Open(c)
OtherNext ==
  \/ Loop \/ ReadReply \/ ReadClosesOther
  \/ Make \/ Write
  \/ \E c \in Conn :
       \/ Construct(c)
       \/ TimeOut(c) \/ RetryClose(c)
       \/ SocketWrite(c) \/ PeerSends(c) \/ PeerBreaks(c)

LEMMA NextSplits == Next <=> OtherNext \/ OpenNext
BY DEF Next, OtherNext, OpenNext

LEMMA OpeningStays == [OtherNext]_vars => UNCHANGED opening
BY DEF OtherNext, vars, threads, Loop, Make, MakeEntry, MakePoll, Write, MarkWrite, WriteBack,
  WriteBackPoll, Poll, Visit, HandleError, Continue, Check, Erase, Update, UpdatePolled,
  ClearLoad, ClearStore, ClearPoll, ReadOrphan, WriteOrphan, Orphan, ReadPlain, ReadTls,
  ReadEarly, Rearm, WriteEarly, Move, SendPlain, More, SendTls, Sent, Delete, Close,
  RetryDelete, RetryConnect, ReadReply, ReadClosesOther, Construct, TimeOut, RetryClose,
  SocketWrite, PeerSends, PeerBreaks

\* It is a connection like others, whoever constructs it.
LEMMA ConstructedTypes ==
  ASSUME EngineTypes, ConnTypes, NEW c \in Conn, NEW f \in Available, Constructed(c, f)
  PROVE  EngineTypes' /\ ConnTypes'
<1>0. /\ f \in Fd /\ opened' = [opened EXCEPT ![f] = c]
      /\ conn' = [conn EXCEPT ![c] = conn'[c]]
      /\ \A d \in Conn \ {c} : conn'[d] = conn[d]
      /\ UNCHANGED <<fds, poll_set, writes>>
  BY Constructing
<1>a. PICK phase \in {"start", "up", "handshake"} :
        conn'[c] = [sfd |-> f, phase |-> phase, obuffer |-> 1, length |-> 0, nth |-> 1]
  BY Constructing
<1> USE EngineAssumption, ConnectionAssumption
<1>1. EngineTypes'  BY <1>0 DEF EngineTypes
<1>2. conn'[c] \in Members /\ conn'[c].obuffer + conn'[c].length = 1
  BY <1>0, <1>a DEF Members
<1>3. conn' \in [Conn -> Members]
  BY <1>0, <1>2 DEF ConnTypes
<1>4. UNCHANGED writes /\ writes \in Nat  BY <1>0 DEF ConnTypes
<1>5. QED  BY <1>0, <1>1, <1>2, <1>3, <1>4 DEF ConnTypes

\* The tables of the engine keep their types.
LEMMA EngineTypesStep == InductiveInvariant /\ [OtherNext]_vars => EngineTypes'
<1> SUFFICES ASSUME InductiveInvariant, [OtherNext]_vars PROVE EngineTypes'
  OBVIOUS
<1> USE EngineAssumption, ConnectionAssumption
<1>0. EngineTypes /\ ThreadTypes /\ ConnTypes /\ Control /\ Closing /\ Making
  BY DEF InductiveInvariant, TypeOK
<1>1. ASSUME NEW c \in Conn, Construct(c) PROVE EngineTypes'
  <2>1. PICK f \in Available : Constructed(c, f)  BY <1>1 DEF Construct
  <2>2. QED  BY <1>0, <2>1, ConstructedTypes
<1>2. CASE MakeEntry
  <2> DEFINE c == maker.conn
  <2>1. c \in Conn  BY <1>0, <1>2 DEF MakeEntry, ThreadTypes, Resting
  <2>2. CASE conn[c].sfd = None  BY <1>0, <1>2, <2>2 DEF MakeEntry, EngineTypes, engine
  <2>3. CASE conn[c].sfd # None
    <3>1. conn[c].sfd \in Fd /\ conn[c].nth \in 1..MaxRetries + 1
      BY <1>0, <2>1, <2>3 DEF ConnTypes, Members, Making
    <3>2. Entry(c, conn[c].nth, All) \in Entries
      BY <2>1, <3>1 DEF Entry, Entries, All, Flags
    <3>3. RegisterEntry(conn[c].sfd, Entry(c, conn[c].nth, All))
      BY <1>2, <2>3 DEF MakeEntry
    <3>4. QED  BY <1>0, <3>1, <3>2, <3>3, EngineSteps
  <2>4. QED  BY <2>2, <2>3
<1>3. CASE MakePoll
  <2>1. maker.conn \in Conn  BY <1>0, <1>3 DEF MakePoll, ThreadTypes, Resting
  <2>2. CASE conn[maker.conn].sfd = None
    BY <1>0, <1>3, <2>2 DEF MakePoll, EngineTypes, engine
  <2>3. CASE conn[maker.conn].sfd # None
    <3>1. conn[maker.conn].sfd \in Fd /\ All \in SUBSET Flags
      BY <1>0, <2>1, <2>3 DEF ConnTypes, Members, All, Flags
    <3>2. QED  BY <1>0, <1>3, <2>3, <3>1, EngineSteps DEF MakePoll
  <2>4. QED  BY <2>2, <2>3
<1>4. CASE MarkWrite
  <2> DEFINE f == conn[writer.conn].sfd
             s == [fds[f] EXCEPT !.flags = @ \cup {"write"}]
  <2>1. writer.conn \in Conn  BY <1>0, <1>4 DEF MarkWrite, ThreadTypes, Resting
  <2>2. f \in Fd \cup {None}  BY <1>0, <2>1 DEF ConnTypes, Members
  <2>3. CASE f = None \/ (f # None /\ (fds[f] = None \/ "write" \in fds[f].flags))
    BY <1>0, <1>4, <2>3 DEF MarkWrite, EngineTypes, engine
  <2>4. CASE ~ (f = None \/ (f # None /\ (fds[f] = None \/ "write" \in fds[f].flags)))
    <3>1. f \in Fd /\ fds[f] \in Entries  BY <1>0, <2>2, <2>4 DEF EngineTypes
    <3>2. s \in Entries  BY <3>1 DEF Entries, Flags
    <3>3. UpdateEntry(f, s)  BY <1>4, <2>4 DEF MarkWrite
    <3>4. QED  BY <1>0, <3>1, <3>2, <3>3, EngineSteps
  <2>5. QED  BY <2>3, <2>4
<1>5. CASE WriteBack
  <2>1. writer.fd \in Fd /\ writer.entry \in Entries
    BY <1>0, <1>5 DEF WriteBack, ThreadTypes, Resting
  <2>2. QED  BY <1>0, <1>5, <2>1, EngineSteps DEF WriteBack
<1>6. CASE WriteBackPoll
  <2>1. writer.fd \in Fd /\ writer.entry \in Entries
    BY <1>0, <1>6 DEF WriteBackPoll, ThreadTypes, Resting
  <2>2. writer.entry.flags \in SUBSET Flags  BY <2>1 DEF Entries
  <2>3. QED  BY <1>0, <1>6, <2>1, <2>2, EngineSteps DEF WriteBackPoll
<1>7. CASE Delete
  <2>1. io.victim \in Conn  BY <1>0, <1>7 DEF Delete, Closing, Deleting
  <2>2. CASE conn[io.victim].sfd = None
    BY <1>0, <1>7, <2>2 DEF Delete, EngineTypes, engine
  <2>3. CASE conn[io.victim].sfd # None
    <3>1. conn[io.victim].sfd \in Fd  BY <1>0, <2>1, <2>3 DEF ConnTypes, Members
    <3>2. QED  BY <1>0, <1>7, <2>3, <3>1, EngineSteps DEF Delete
  <2>4. QED  BY <2>2, <2>3
<1>8. CASE Close
  BY <1>0, <1>8 DEF Close, CloseDescriptor, EngineTypes
<1>9. ASSUME NEW c \in Conn, RetryClose(c) PROVE EngineTypes'
  BY <1>0, <1>9 DEF RetryClose, CloseDescriptor, EngineTypes
<1>10. CASE RetryDelete
  <2>1. conn[io.victim].sfd \in Fd
    BY <1>0, <1>10 DEF RetryDelete, Closing, ConnTypes, Members
  <2>2. QED  BY <1>0, <1>10, <2>1, EngineSteps DEF RetryDelete
<1>11. CASE RetryConnect
  <2> DEFINE c == io.victim
  <2>1. CASE \E f \in Fd : DeleteSocket(f)  BY <1>0, <2>1, EngineSteps
  <2>2. CASE UNCHANGED fds  BY <1>0, <1>11, <2>2, Reconnecting DEF EngineTypes
  <2>3. QED  BY <1>11, <2>1, <2>2, Reconnecting
<1>12. CASE Check
  <2>1. fd \in Fd  BY <1>0, <1>12, AtWork DEF Check, Control
  <2>2. QED  BY <1>0, <1>12, <2>1, EngineSteps DEF Check, EngineTypes, engine
<1>13. CASE Erase
  <2>1. fd \in Fd  BY <1>0, <1>13, AtWork DEF Erase, Control
  <2>2. QED  BY <1>0, <1>13, <2>1, EngineSteps DEF Erase
<1>14. CASE Update
  <2>1. io.eh # None  BY <1>0, <1>14 DEF Update, Control
  <2>2. Entry(c0, io.eh.nth, io.flags) \in Entries
    BY <2>1, AtWork DEF IoThread, Entry, Entries
  <2>3. QED  BY <1>0, <1>14, <2>1, <2>2, AtWork, EngineSteps DEF Update
<1>15. CASE UpdatePolled
  <2>1. fd \in Fd /\ io.flags \in SUBSET Flags
    BY <1>0, <1>15, AtWork DEF UpdatePolled, Control, IoThread
  <2>2. QED  BY <1>0, <1>15, <2>1, EngineSteps DEF UpdatePolled
<1>16. CASE ClearStore
  <2>1. fd \in Fd /\ io.flags \in SUBSET Flags
    BY <1>0, <1>16, AtWork DEF ClearStore, Control, IoThread
  <2>2. fds[fd] # None => [fds[fd] EXCEPT !.flags = io.flags] \in Entries
    BY <1>0, <2>1 DEF EngineTypes, Entries
  <2>3. QED  BY <1>0, <1>16, <2>1, <2>2 DEF ClearStore, EngineTypes
<1>17. CASE ClearPoll
  <2>1. fd \in Fd  BY <1>0, <1>17, AtWork DEF ClearPoll, Control
  <2>2. fds[fd] # None => fds[fd].flags \in SUBSET Flags
    BY <1>0, <2>1 DEF EngineTypes, Entries
  <2>3. QED  BY <1>0, <1>17, <2>1, <2>2, EngineSteps DEF ClearPoll, EngineTypes, engine
<1>18. CASE ReadOrphan \/ WriteOrphan
  <2>1. fd \in Fd  BY <1>0, <1>18, AtWork DEF ReadOrphan, WriteOrphan, Control
  <2>2. fds[fd] # None => [fds[fd] EXCEPT !.flags = {"deletion"}] \in Entries
    BY <1>0, <2>1 DEF EngineTypes, Entries, Flags
  <2>3. /\ opened' = [opened EXCEPT ![fd] = None]
        /\ fds' = fds \/ (fds[fd] # None /\ fds' = [fds EXCEPT ![fd].flags = {"deletion"}])
        /\ UNCHANGED poll_set
    BY <1>18 DEF ReadOrphan, WriteOrphan, Orphan, CloseDescriptor
  <2>4. fds' \in [Fd -> Entries \cup {None}]
    BY <1>0, <2>1, <2>2, <2>3 DEF EngineTypes
  <2>5. QED  BY <1>0, <2>1, <2>3, <2>4 DEF EngineTypes
<1>19. UNCHANGED engine => EngineTypes'
  BY <1>0 DEF EngineTypes, engine
<1>20. QED
  BY <1>1, <1>2, <1>3, <1>4, <1>5, <1>6, <1>7, <1>8, <1>9, <1>10, <1>11, <1>12, <1>13, <1>14,
     <1>15, <1>16, <1>17, <1>18, <1>19
  DEF OtherNext, vars, Loop, Make, Write, Poll, Visit, HandleError, Continue, ClearLoad, ReadPlain,
      ReadTls, ReadEarly, Rearm, WriteEarly, Move, SendPlain, More, SendTls, Sent, ReadReply,
      ReadClosesOther, TimeOut, SocketWrite, PeerSends, PeerBreaks

\* So does the IO thread.
LEMMA IoTypeStep == InductiveInvariant /\ [OtherNext]_vars => io' \in IoThread
<1> SUFFICES ASSUME InductiveInvariant, [OtherNext]_vars PROVE io' \in IoThread
  OBVIOUS
<1>0. EngineTypes /\ ThreadTypes /\ io \in IoThread /\ Control
  BY DEF InductiveInvariant, TypeOK, ThreadTypes
<1>p. /\ io.then \in Pcs
      /\ {"prune", "visit", "retry", "connect", "made", "delete", "close", "error", "skip",
          "check", "erase", "update", "update_poll", "clear", "store", "clear_poll", "read",
          "rearm", "write", "move", "send", "sent", "more"} \subseteq Pcs
  BY <1>0 DEF IoThread, Pcs
<1>f. {"read"} \in SUBSET Flags /\ All \in SUBSET Flags /\ {} \in SUBSET Flags
  BY DEF All, Flags
<1>1. ASSUME NEW c \in Conn, Construct(c) PROVE io' \in IoThread
  BY <1>0, <1>1, <1>p, IoMoves DEF Construct
<1>2. CASE Make
  <2>1. CASE MakeEntry  BY <1>0, <2>1 DEF MakeEntry
  <2>2. CASE MakePoll
    <3>1. maker.back \in Pcs  BY <1>0, <2>2 DEF MakePoll, ThreadTypes, Resting
    <3>2. QED  BY <1>0, <2>2, <3>1, IoMoves DEF MakePoll
  <2>3. QED  BY <1>2, <2>1, <2>2 DEF Make
<1>3. CASE Delete
  BY <1>0, <1>3, <1>p, IoMoves DEF Delete
<1>4. CASE Close \/ UpdatePolled
  BY <1>0, <1>4, <1>p, IoMoves DEF Close, UpdatePolled
<1>5. ASSUME NEW c \in Conn, TimeOut(c) \/ RetryClose(c) PROVE io' \in IoThread
  BY <1>0, <1>5, <1>p, IoMoves DEF TimeOut, RetryClose, IoThread
<1>6. CASE RetryDelete
  BY <1>0, <1>6, <1>p, IoMoves DEF RetryDelete
<1>7. CASE RetryConnect
  BY <1>7, Reconnecting
<1>8. CASE Poll
  <2>1. PICK reports \in [DOMAIN poll_set -> SUBSET Events], last \in DOMAIN poll_set :
          io' = [io EXCEPT !.pc = "visit",
                   !.ready = [i \in 1..last |-> [fd |-> poll_set[i].fd, revents |-> reports[i]]]]
    BY <1>8 DEF Poll
  <2> DEFINE Ready == [fd : Fd, revents : SUBSET Events]
             s == [i \in 1..last |-> [fd |-> poll_set[i].fd, revents |-> reports[i]]]
  <2>2. poll_set \in Seq([fd : Fd, events : SUBSET All])  BY <1>0 DEF EngineTypes
  <2>3. DOMAIN poll_set = 1..Len(poll_set) /\ Len(poll_set) \in Nat  BY <2>2
  <2>4. \A i \in 1..last : i \in DOMAIN poll_set  BY <2>3
  <2>a. \A i \in 1..Len(poll_set) : poll_set[i] \in [fd : Fd, events : SUBSET All]
    BY <2>2, ElementOfSeq
  <2>5. \A i \in DOMAIN poll_set : poll_set[i].fd \in Fd  BY <2>3, <2>a
  <2>6. s \in [1..last -> Ready]  BY <2>4, <2>5
  <2>7. last \in Nat  BY <2>3
  <2> HIDE DEF s, Ready
  <2>8. s \in Seq(Ready)  BY <2>6, <2>7, SeqDef
  <2>9. io' = [io EXCEPT !.pc = "visit", !.ready = s]  BY <2>1 DEF s
  <2>10. QED  BY <1>0, <1>p, <2>8, <2>9 DEF IoThread, Ready
<1>9. CASE Visit
  <2>1. CASE io.ready = <<>>
    <3>1. io' = Looping  BY <1>9, <2>1 DEF Visit
    <3>2. <<>> \in Seq([fd : Fd, revents : SUBSET Events])  OBVIOUS
    <3>3. QED  BY <1>p, <1>f, <3>1, <3>2 DEF Looping, IoThread
  <2>2. CASE io.ready # <<>> /\ fds[fd] = None
    BY <1>0, <1>9, <2>2, Skipping DEF Visit
  <2>3. CASE io.ready # <<>> /\ fds[fd] # None
    <3>1. fds[fd] \in Entries  BY <1>0, <2>3, Skipping DEF EngineTypes
    <3>2. [conn |-> fds[fd].conn, nth |-> fds[fd].nth] \in [conn : Conn, nth : 1..MaxRetries + 1]
      BY <3>1 DEF Entries
    <3>3. (IF Marked(fd) THEN "check" ELSE Dispatch(revents)) \in Pcs  BY <1>p DEF Dispatch
    <3>4. QED  BY <1>0, <1>9, <2>3, <3>2, <3>3 DEF Visit, IoThread
  <2>4. QED  BY <2>1, <2>2, <2>3
<1>10. CASE HandleError \/ ReadClosesOther
  <2>1. c0 \in Conn  BY <1>0, <1>10, AtWork DEF HandleError, ReadClosesOther, Control
  <2>2. QED  BY <1>0, <1>10, <1>p, <2>1, IoMoves DEF HandleError, ReadClosesOther
<1>11. CASE Continue \/ Check \/ Erase
  <2>1. io.ready # <<>>  BY <1>0, <1>11, AtWork DEF Continue, Check, Erase, Control
  <2>2. Skip \in IoThread  BY <1>0, <2>1, Skipping
  <2>3. QED  BY <1>0, <1>11, <1>p, <2>2, IoMoves DEF Continue, Check, Erase
<1>12. CASE Update
  BY <1>0, <1>12, <1>p, IoMoves DEF Update
<1>13. CASE ClearLoad \/ ReadReply
  <2>1. fd \in Fd  BY <1>0, <1>13, AtWork DEF ClearLoad, ReadReply, Control
  <2>2. fds[fd] # None => fds[fd].flags \in SUBSET Flags
    BY <1>0, <2>1 DEF EngineTypes, Entries
  <2>3. fds[fd] # None => fds[fd].flags \cup {"write"} \in SUBSET Flags  BY <2>2 DEF Flags
  <2>4. CASE ClearLoad  BY <1>0, <1>p, <2>2, <2>4 DEF ClearLoad, IoThread
  <2>5. CASE ReadReply  BY <1>0, <1>p, <2>3, <2>5, IoMoves DEF ReadReply
  <2>6. QED  BY <1>13, <2>4, <2>5
<1>14. CASE ClearStore \/ ClearPoll \/ ReadOrphan \/ WriteOrphan \/ Move
  BY <1>0, <1>14, <1>p, IoMoves
  DEF ClearStore, ClearPoll, ReadOrphan, WriteOrphan, Orphan, Move, AfterRead
<1>15. CASE ReadPlain \/ ReadTls \/ ReadEarly \/ Rearm
  <2>1. c0 \in Conn  BY <1>0, <1>15, AtWork DEF ReadPlain, ReadTls, ReadEarly, Rearm, Control
  <2>2. AfterRead \in Pcs  BY <1>p DEF AfterRead
  <2>3. QED
    BY <1>0, <1>15, <1>p, <1>f, <2>1, <2>2, IoMoves
    DEF ReadPlain, ReadTls, ReadEarly, Rearm, Handshake
<1>16. CASE WriteEarly \/ SendPlain \/ More \/ SendTls \/ Sent
  <2>1. c0 \in Conn  BY <1>0, <1>16, AtWork DEF WriteEarly, SendPlain, More, SendTls, Sent, Control
  <2>2. QED
    BY <1>0, <1>16, <1>p, <1>f, <2>1, IoMoves, Draining
    DEF WriteEarly, SendPlain, More, SendTls, Sent, Handshake
<1>17. QED
  BY <1>0, <1>1, <1>2, <1>3, <1>4, <1>5, <1>6, <1>7, <1>8, <1>9, <1>10, <1>11, <1>12, <1>13,
     <1>14, <1>15, <1>16
  DEF OtherNext, vars, threads, Loop, Write, MarkWrite, WriteBack, WriteBackPoll, SocketWrite,
      PeerSends, PeerBreaks

\* So do the other threads.
LEMMA ThreadTypesStep == InductiveInvariant /\ [OtherNext]_vars => ThreadTypes'
<1> SUFFICES ASSUME InductiveInvariant, [OtherNext]_vars PROVE ThreadTypes'
  OBVIOUS
<1>0. /\ EngineTypes /\ ThreadTypes /\ ConnTypes /\ Closing /\ io \in IoThread /\ io' \in IoThread
      /\ UNCHANGED opener
  BY IoTypeStep, OpeningStays DEF InductiveInvariant, TypeOK, ThreadTypes, opening
<1>1. ASSUME NEW c \in Conn, Construct(c) PROVE ThreadTypes'
  <2>1. /\ maker' = [pc |-> "entry", conn |-> c, back |-> io.pc] /\ UNCHANGED <<opening, writer>>
    BY <1>1 DEF Construct, Constructed
  <2>2. QED  BY <1>0, <2>1 DEF ThreadTypes, IoThread, opening
<1>2. CASE Make
  BY <1>0, <1>2 DEF Make, MakeEntry, MakePoll, ThreadTypes, Resting
<1>3. ASSUME NEW c \in Conn, SocketWrite(c) PROVE ThreadTypes'
  BY <1>0, <1>3 DEF SocketWrite, ThreadTypes
<1>4. CASE MarkWrite
  <2> DEFINE f == conn[writer.conn].sfd
             s == [fds[f] EXCEPT !.flags = @ \cup {"write"}]
  <2>1. writer.conn \in Conn  BY <1>0, <1>4 DEF MarkWrite, ThreadTypes, Resting
  <2>2. f \in Fd \cup {None}  BY <1>0, <2>1 DEF ConnTypes, Members
  <2>3. CASE f = None \/ (f # None /\ (fds[f] = None \/ "write" \in fds[f].flags))
    BY <1>0, <1>4, <2>3 DEF MarkWrite, ThreadTypes
  <2>4. CASE ~ (f = None \/ (f # None /\ (fds[f] = None \/ "write" \in fds[f].flags)))
    <3>1. f \in Fd /\ fds[f] \in Entries  BY <1>0, <2>2, <2>4 DEF EngineTypes
    <3>2. s \in Entries  BY <3>1 DEF Entries, Flags
    <3>3. writer' = [pc |-> "copied", conn |-> writer.conn, fd |-> f, entry |-> s]
      BY <1>4, <2>4 DEF MarkWrite
    <3> HIDE DEF f, s
    <3>4. writer' \in [pc : {"copied", "poll"}, conn : Conn, fd : Fd, entry : Entries]
      BY <2>1, <3>1, <3>2, <3>3
    <3>5. UNCHANGED maker  BY <1>4 DEF MarkWrite
    <3>6. QED  BY <1>0, <3>4, <3>5 DEF ThreadTypes, Resting
  <2>5. QED  BY <2>3, <2>4
<1>5. CASE WriteBack \/ WriteBackPoll
  BY <1>0, <1>5 DEF WriteBack, WriteBackPoll, ThreadTypes, Resting
<1>6. CASE RetryConnect
  <2>1. "prune" \in Pcs  BY DEF Pcs
  <2>2. QED  BY <1>0, <1>6, <2>1, Reconnecting DEF ThreadTypes
<1>7. UNCHANGED <<maker, writer>> => ThreadTypes'
  BY <1>0 DEF ThreadTypes, Resting
<1>8. QED
  BY <1>1, <1>2, <1>3, <1>4, <1>5, <1>6, <1>7
  DEF OtherNext, vars, threads, Loop, Write, Poll, Visit, HandleError, Continue, Check, Erase,
      Update, UpdatePolled, ClearLoad, ClearStore, ClearPoll, ReadOrphan, WriteOrphan, Orphan,
      ReadPlain, ReadTls, ReadEarly, Rearm, WriteEarly, Move, SendPlain, More, SendTls, Sent,
      Delete, Close, RetryDelete, ReadReply, ReadClosesOther, TimeOut, RetryClose,
      PeerSends, PeerBreaks

\* The members of the connections keep their types, and output is never more than was written
\* and the request that a connection begins with.
LEMMA ConnTypesStep == InductiveInvariant /\ [OtherNext]_vars => ConnTypes'
<1> SUFFICES ASSUME InductiveInvariant, [OtherNext]_vars PROVE ConnTypes'
  OBVIOUS
<1> USE EngineAssumption, ConnectionAssumption
<1>0. EngineTypes /\ ThreadTypes /\ ConnTypes /\ Control /\ Closing
  BY DEF InductiveInvariant, TypeOK
<1>1. ASSUME NEW c \in Conn, Construct(c) PROVE ConnTypes'
  <2>1. PICK f \in Available : Constructed(c, f)  BY <1>1 DEF Construct
  <2>2. QED  BY <1>0, <2>1, Constructing, ConstructedTypes
<1>2. ASSUME NEW c \in Conn, SocketWrite(c) PROVE ConnTypes'
  BY <1>0, <1>2 DEF SocketWrite, ConnTypes, Members
<1>3. CASE Delete
  BY <1>0, <1>3 DEF Delete, Closing, Deleting, ConnTypes, Members
<1>4. CASE Close
  BY <1>0, <1>4 DEF Close, Closing, Deleting, ConnTypes, Members
<1>5. CASE RetryConnect
  <2> DEFINE c == io.victim
  <2>1. /\ c \in Conn /\ conn' = [conn EXCEPT ![c] = conn'[c]] /\ UNCHANGED writes
        /\ \A d \in Conn \ {c} : conn'[d] = conn[d]
        /\ conn'[c] \in Members
        /\ conn'[c].obuffer + conn'[c].length <= conn[c].obuffer + conn[c].length
    BY <1>5, Reconnecting
  <2>2. conn' \in [Conn -> Members]  BY <1>0, <2>1 DEF ConnTypes
  <2>3. conn'[c].obuffer + conn'[c].length <= writes + 1
    <3>1. conn'[c].obuffer + conn'[c].length \in Nat /\ conn[c].obuffer + conn[c].length \in Nat
      BY <1>0, <2>1, <2>2 DEF ConnTypes, Members
    <3>2. writes \in Nat /\ conn[c].obuffer + conn[c].length <= writes + 1
      BY <1>0, <2>1 DEF ConnTypes
    <3>3. QED  BY <2>1, <3>1, <3>2
  <2>4. QED  BY <1>0, <2>1, <2>2, <2>3 DEF ConnTypes
<1>6. CASE ReadReply
  <2>1. c0 \in Conn  BY <1>0, <1>6, AtWork DEF ReadReply, Control
  <2>2. QED  BY <1>0, <1>6, <2>1 DEF ReadReply, ConnTypes, Members
<1>7. CASE ReadEarly \/ WriteEarly
  <2>1. c0 \in Conn  BY <1>0, <1>7, AtWork DEF ReadEarly, WriteEarly, Control
  <2>2. /\ UNCHANGED writes
        /\ \/ UNCHANGED conn
           \/ \E phase \in {"handshake", "up"} : conn' = [conn EXCEPT ![c0].phase = phase]
    BY <1>7 DEF ReadEarly, WriteEarly, Handshake
  <2>3. QED  BY <1>0, <2>1, <2>2 DEF ConnTypes, Members
<1>8. CASE Move
  <2>1. c0 \in Conn  BY <1>0, <1>8, AtWork DEF Move, Control
  <2>2. PICK n \in Nat : /\ conn' = [conn EXCEPT ![c0].obuffer = @ - n, ![c0].length = @ + n]
                         /\ n <= conn[c0].obuffer /\ conn[c0].length + n <= BufSize
    <3>1. conn[c0].obuffer \in Nat /\ conn[c0].length \in 0..BufSize
      BY <1>0, <2>1 DEF ConnTypes, Members
    <3> DEFINE n == IF conn[c0].length = 0 THEN Smaller(conn[c0].obuffer, BufSize) ELSE 0
    <3>2. n \in Nat /\ n <= conn[c0].obuffer /\ conn[c0].length + n <= BufSize
      BY <3>1 DEF Smaller
    <3>3. conn' = [conn EXCEPT ![c0].obuffer = @ - n, ![c0].length = @ + n]
      BY <1>8 DEF Move
    <3> HIDE DEF n
    <3>4. QED  BY <3>2, <3>3
  <2>3. UNCHANGED writes  BY <1>8 DEF Move
  <2>4. /\ conn[c0].obuffer - n \in Nat /\ conn[c0].length + n \in 0..BufSize
        /\ (conn[c0].obuffer - n) + (conn[c0].length + n) = conn[c0].obuffer + conn[c0].length
    BY <1>0, <2>1, <2>2 DEF ConnTypes, Members
  <2>5. \A d \in Conn : d # c0 => conn'[d] = conn[d]
    BY <1>0, <2>1, <2>2 DEF ConnTypes, Members
  <2>6. conn'[c0] = [conn[c0] EXCEPT !.obuffer = @ - n, !.length = @ + n]
    BY <1>0, <2>1, <2>2 DEF ConnTypes, Members
  <2>7. conn'[c0].obuffer + conn'[c0].length = conn[c0].obuffer + conn[c0].length
    <3>1. conn'[c0].obuffer = conn[c0].obuffer - n /\ conn'[c0].length = conn[c0].length + n
      BY <1>0, <2>1, <2>6 DEF ConnTypes, Members
    <3>2. QED  BY <2>4, <3>1
  <2>8. conn'[c0] \in Members
    <3>1. conn[c0] \in Members  BY <1>0, <2>1 DEF ConnTypes
    <3>2. \A m \in Members, o \in Nat, l \in 0..BufSize :
            [m EXCEPT !.obuffer = o, !.length = l] \in Members
      BY DEF Members
    <3>3. \A o \in Nat, l \in 0..BufSize :
            [conn[c0] EXCEPT !.obuffer = o, !.length = l] \in Members
      BY <3>1, <3>2
    <3>4. [conn[c0] EXCEPT !.obuffer = conn[c0].obuffer - n, !.length = conn[c0].length + n]
            \in Members
      BY ONLY <2>4, <3>3
    <3>5. QED  BY ONLY <2>6, <3>4
  <2>9. DOMAIN conn' = Conn /\ conn' = [d \in Conn |-> conn'[d]]
    BY <1>0, <2>2 DEF ConnTypes, Members
  <2>10. QED  BY <1>0, <2>3, <2>5, <2>7, <2>8, <2>9 DEF ConnTypes, Members
<1>9. CASE SendPlain
  <2>1. c0 \in Conn  BY <1>0, <1>9, AtWork DEF SendPlain, Control
  <2>2. \/ UNCHANGED conn
        \/ \E r \in 1..conn[c0].length : conn' = [conn EXCEPT ![c0].length = @ - r]
    <3>1. conn[c0].length \in Nat  BY <1>0, <2>1 DEF ConnTypes, Members
    <3>2. conn[c0].length # 0 => conn[c0].length \in 1..conn[c0].length  BY <3>1
    <3>3. QED  BY <1>9, <3>2 DEF SendPlain
  <2>3. UNCHANGED writes  BY <1>9 DEF SendPlain
  <2>4. QED  BY <1>0, <2>1, <2>2, <2>3 DEF ConnTypes, Members
<1>10. CASE Sent
  <2>1. c0 \in Conn  BY <1>0, <1>10, AtWork DEF Sent, Control
  <2>2. QED  BY <1>0, <1>10, <2>1 DEF Sent, ConnTypes, Members
<1>11. UNCHANGED <<conn, writes>> => ConnTypes'
  BY <1>0 DEF ConnTypes, Members
<1>12. QED
  BY <1>1, <1>2, <1>3, <1>4, <1>5, <1>6, <1>7, <1>8, <1>9, <1>10, <1>11
  DEF OtherNext, vars, threads, Loop, Make, MakeEntry, MakePoll, Write, MarkWrite, WriteBack,
      WriteBackPoll, Poll, Visit, HandleError, Continue, Check, Erase, Update, UpdatePolled,
      ClearLoad, ClearStore, ClearPoll, ReadOrphan, WriteOrphan, Orphan, ReadPlain, ReadTls,
      Rearm, More, SendTls, RetryDelete, ReadClosesOther, TimeOut, RetryClose, PeerSends,
      PeerBreaks

\* So do the peers and the history.
LEMMA WorldTypesStep == InductiveInvariant /\ [OtherNext]_vars => WorldTypes'
<1> SUFFICES ASSUME InductiveInvariant, [OtherNext]_vars PROVE WorldTypes'
  OBVIOUS
<1> USE EngineAssumption, ConnectionAssumption
<1>0. EngineTypes /\ ThreadTypes /\ ConnTypes /\ WorldTypes /\ Control /\ Closing
  BY DEF InductiveInvariant, TypeOK
<1>u. UNCHANGED crossed  BY OpeningStays DEF opening
<1>1. ASSUME NEW f \in Fd, NEW c \in Conn, CloseDescriptor(f, c), UNCHANGED world PROVE WorldTypes'
  <2>1. opened[f] \in Conn \cup {None}  BY <1>0, <1>1 DEF EngineTypes
  <2>2. QED  BY <1>0, <1>u, <1>1, <2>1 DEF CloseDescriptor, WorldTypes, world
<1>2. CASE Close
  BY <1>0, <1>1, <1>2 DEF Close, Closing, Deleting, ConnTypes, Members
<1>3. ASSUME NEW c \in Conn, RetryClose(c) PROVE WorldTypes'
  BY <1>0, <1>1, <1>3 DEF RetryClose, ConnTypes, Members
<1>4. CASE ReadOrphan \/ WriteOrphan
  <2>1. fd \in Fd /\ c0 \in Conn  BY <1>0, <1>4, AtWork DEF ReadOrphan, WriteOrphan, Control
  <2>2. QED  BY <1>1, <1>4, <2>1 DEF ReadOrphan, WriteOrphan, Orphan
<1>5. CASE MakeEntry
  <2>1. maker.conn \in Conn  BY <1>0, <1>5 DEF MakeEntry, ThreadTypes, Resting
  <2>2. QED  BY <1>0, <1>u, <1>5, <2>1 DEF MakeEntry, WorldTypes, world
<1>6. CASE WriteBack
  <2>1. writer.conn \in Conn /\ writer.fd \in Fd /\ writer.entry \in Entries
    BY <1>0, <1>6 DEF WriteBack, ThreadTypes, Resting
  <2>2. fds[writer.fd] # None => fds[writer.fd].conn \in Conn
    BY <1>0, <2>1 DEF EngineTypes, Entries
  <2>3. writer.entry.conn \in Conn  BY <2>1 DEF Entries
  <2>4. raced' \subseteq Conn
    BY <1>0, <1>6, <2>1, <2>2, <2>3 DEF WriteBack, Stale, WorldTypes
  <2>5. QED  BY <1>0, <1>u, <1>6, <2>4 DEF WriteBack, WorldTypes, world
<1>13. CASE MarkWrite
  <2>1. writer.conn \in Conn  BY <1>0, <1>13 DEF MarkWrite, ThreadTypes, Resting
  <2>2. conn[writer.conn].sfd \in Fd \cup {None}  BY <1>0, <2>1 DEF ConnTypes, Members
  <2> DEFINE f == conn[writer.conn].sfd
             s == [fds[f] EXCEPT !.flags = @ \cup {"write"}]
  <2>3. CASE f = None \/ fds[f] = None \/ "write" \in fds[f].flags
    BY <1>0, <1>u, <1>13, <2>3 DEF MarkWrite, WorldTypes, world
  <2>4. CASE f # None /\ fds[f] # None /\ "write" \notin fds[f].flags
    <3>1. s.conn \in Conn  BY <1>0, <2>2, <2>4 DEF EngineTypes, Entries
    <3>2. /\ UNCHANGED <<world, foreign>>
          /\ raced' = IF s.conn # writer.conn THEN raced \cup {s.conn, writer.conn} ELSE raced
      BY <1>13, <2>4 DEF MarkWrite
    <3> HIDE DEF s
    <3>3. QED  BY <1>0, <1>u, <2>1, <3>1, <3>2 DEF WorldTypes, world
  <2>5. QED  BY <2>3, <2>4
<1>7. ASSUME NEW c \in Conn, PeerSends(c) PROVE WorldTypes'
  BY <1>0, <1>u, <1>7 DEF PeerSends, WorldTypes, history
<1>8. ASSUME NEW c \in Conn, PeerBreaks(c) PROVE WorldTypes'
  BY <1>0, <1>u, <1>8 DEF PeerBreaks, WorldTypes, history
<1>9. CASE RetryConnect
  BY <1>0, <1>9, <1>u, Reconnecting DEF WorldTypes, history
<1>10. CASE ReadPlain \/ ReadTls \/ ReadEarly
  <2>1. c0 \in Conn
    BY <1>0, <1>10, AtWork DEF ReadPlain, ReadTls, ReadEarly, Control
  <2>2. inbound' \in {inbound, Received} /\ UNCHANGED <<sent, broken, raced, foreign>>
    BY <1>10 DEF ReadPlain, ReadTls, ReadEarly, history
  <2>3. Received \in [Conn -> 0..sent]  BY <1>0, <2>1 DEF WorldTypes, Received
  <2>4. QED  BY <1>0, <1>u, <2>2, <2>3 DEF WorldTypes
<1>11. UNCHANGED <<world, history>> => WorldTypes'
  BY <1>0, <1>u DEF WorldTypes, world, history
<1>12. QED
  BY <1>2, <1>3, <1>4, <1>5, <1>6, <1>7, <1>8, <1>9, <1>10, <1>11, <1>13
  DEF OtherNext, vars, threads, Loop, Make, MakePoll, Write, SocketWrite,
      WriteBackPoll, Poll, Visit, HandleError, Continue, Check, Erase, Update, UpdatePolled,
      ClearLoad, ClearStore, ClearPoll, Rearm, WriteEarly, Move, SendPlain, More, SendTls, Sent,
      Delete, RetryDelete, ReadReply, ReadClosesOther, TimeOut, Construct, Constructed

LEMMA TypeStep == InductiveInvariant /\ [OtherNext]_vars => TypeOK'
BY EngineTypesStep, ThreadTypesStep, ConnTypesStep, WorldTypesStep DEF TypeOK

------------------------------------------------------------------------------
(* The control of the IO thread, and the connections being closed and made.   *)

\* What Visit finds.
LEMMA Visited ==
  ASSUME InductiveInvariant, Visit
  PROVE  /\ io.pc = "visit" /\ io.eh = None
         /\ \/ io' = Looping
            \/ io' = Skip /\ io.ready # <<>>
            \/ /\ io.ready # <<>> /\ fd \in Fd /\ fds[fd] # None /\ fds[fd] \in Entries
               /\ io'.pc = IF Marked(fd) THEN "check" ELSE Dispatch(revents)
               /\ io'.eh = [conn |-> fds[fd].conn, nth |-> fds[fd].nth]
               /\ io'.eh # None /\ io'.ready = io.ready /\ io'.then = io.then
<1> USE EngineAssumption, ConnectionAssumption
<1>1. io.pc = "visit" /\ io.eh = None /\ io \in IoThread /\ EngineTypes
  BY DEF Visit, InductiveInvariant, Control, TypeOK, ThreadTypes
<1>2. CASE io.ready = <<>> \/ fds[fd] = None
  BY <1>1, <1>2 DEF Visit
<1>3. CASE io.ready # <<>> /\ fds[fd] # None
  <2>1. fd \in Fd  BY <1>1, <1>3, Skipping
  <2>2. fds[fd] \in Entries  BY <1>1, <1>3, <2>1 DEF EngineTypes
  <2>3. [conn |-> fds[fd].conn, nth |-> fds[fd].nth] # None
    BY <2>2 DEF Entries
  <2>4. io' = [io EXCEPT !.pc = IF Marked(fd) THEN "check" ELSE Dispatch(revents),
                         !.eh = [conn |-> fds[fd].conn, nth |-> fds[fd].nth]]
    BY <1>3 DEF Visit
  <2>5. QED  BY <1>1, <1>3, <2>1, <2>2, <2>3, <2>4 DEF IoThread
<1>4. QED  BY <1>2, <1>3

LEMMA ControlStep ==
  ASSUME InductiveInvariant, [OtherNext]_vars
  PROVE  Control'
<1>0. /\ io \in IoThread /\ Control /\ Making
      /\ io.then \in Pcs
      /\ {"prune", "visit", "retry", "connect", "made", "delete", "close", "error", "skip",
          "check", "erase", "update", "update_poll", "clear", "store", "clear_poll", "read",
          "rearm", "write", "move", "send", "sent", "more"} \subseteq Pcs
  BY DEF InductiveInvariant, TypeOK, ThreadTypes, IoThread, Pcs
<1>f. {"read"} \in SUBSET Flags /\ All \in SUBSET Flags
  BY DEF All, Flags
<1>1. ASSUME NEW c \in Conn, Construct(c) PROVE Control'
  <2>1. /\ maker'.back = io.pc /\ io.pc \in {"prune", "delete", "read"}
        /\ io'.pc = "made" /\ io'.then = io.then /\ io'.eh = io.eh /\ io'.ready = io.ready
    BY <1>0, <1>1, IoMoves DEF Construct
  <2>2. QED  BY <1>0, <2>1 DEF Control
<1>2. CASE Make
  <2>1. CASE MakeEntry
    <3>1. UNCHANGED io /\ maker'.back = maker.back
      BY <2>1 DEF MakeEntry, InductiveInvariant, TypeOK, ThreadTypes, Resting
    <3>2. QED  BY <1>0, <3>1 DEF Control
  <2>2. CASE MakePoll
    <3>1. io.pc = "made" /\ maker.back \in {"prune", "read", "delete"}
      BY <1>0, <2>2 DEF MakePoll, Making
    <3>2. /\ io'.pc = maker.back /\ io'.then = io.then /\ io'.eh = io.eh
          /\ io'.ready = io.ready
      BY <1>0, <2>2, <3>1, IoMoves DEF MakePoll
    <3>3. QED  BY <1>0, <3>1, <3>2 DEF Control
  <2>3. QED  BY <1>2, <2>1, <2>2 DEF Make
<1>3. CASE Delete
  BY <1>0, <1>3, IoMoves DEF Delete, Control
<1>4. CASE Close \/ UpdatePolled \/ Update
  BY <1>0, <1>4, IoMoves DEF Close, UpdatePolled, Update, Control
<1>5. ASSUME NEW c \in Conn, TimeOut(c) PROVE Control'
  BY <1>0, <1>5, IoMoves DEF TimeOut, Control
<1>6. ASSUME NEW c \in Conn, RetryClose(c) PROVE Control'
  <2>1. io'.pc = "retry" /\ io'.eh = io.eh /\ io'.ready = io.ready
    BY <1>0, <1>6 DEF RetryClose, IoThread
  <2>2. QED  BY <1>0, <1>6, <2>1 DEF RetryClose, Control
<1>7. CASE RetryDelete
  BY <1>0, <1>7, IoMoves DEF RetryDelete, Control
<1>8. CASE RetryConnect
  <2>1. /\ io'.pc = "made" /\ io'.eh = None /\ maker'.back = "prune"
    BY <1>0, <1>8, Reconnecting DEF Control
  <2>2. QED  BY <2>1 DEF Control
<1>9. CASE Poll
  <2>1. io'.pc = "visit" /\ io'.eh = io.eh
    BY <1>0, <1>9 DEF Poll, IoThread
  <2>2. QED  BY <1>0, <1>9, <2>1 DEF Poll, Control
<1>10. CASE Visit
  BY <1>0, <1>10, Visited, Skipping DEF Looping, Dispatch, Control
<1>11. CASE HandleError \/ ReadClosesOther
  <2>1. c0 \in Conn  BY <1>0, <1>11, AtWork DEF HandleError, ReadClosesOther, Control
  <2>2. QED  BY <1>0, <1>11, <2>1, IoMoves DEF HandleError, ReadClosesOther, Control
<1>12. CASE Continue \/ Check \/ Erase
  <2>1. io.ready # <<>>  BY <1>0, <1>12, AtWork DEF Continue, Check, Erase, Control
  <2>2. Skip.pc = "visit" /\ Skip.eh = None  BY <1>0, <2>1, Skipping
  <2>3. QED  BY <1>0, <1>12, <2>1, <2>2, IoMoves DEF Continue, Check, Erase, Control
<1>13. CASE ClearLoad
  <2>1. io'.pc = "store" /\ io'.eh = io.eh /\ io'.ready = io.ready
    BY <1>0, <1>13 DEF ClearLoad, IoThread
  <2>2. QED  BY <1>0, <1>13, <2>1 DEF ClearLoad, Control
<1>14. CASE ReadReply
  <2>1. fd \in Fd /\ EngineTypes
    BY <1>0, <1>14, AtWork DEF ReadReply, Control, InductiveInvariant, TypeOK
  <2>2. fds[fd] # None => fds[fd].flags \cup {"write"} \in SUBSET Flags
    BY <2>1 DEF EngineTypes, Entries, Flags
  <2>3. QED  BY <1>0, <1>14, <2>2, IoMoves DEF ReadReply, Control
<1>15. CASE ClearStore \/ ClearPoll \/ ReadOrphan \/ WriteOrphan \/ Move
  BY <1>0, <1>15, IoMoves
  DEF ClearStore, ClearPoll, ReadOrphan, WriteOrphan, Orphan, Move, AfterRead, Control
<1>16. CASE ReadPlain \/ ReadTls \/ ReadEarly \/ Rearm
  <2>1. c0 \in Conn  BY <1>0, <1>16, AtWork DEF ReadPlain, ReadTls, ReadEarly, Rearm, Control
  <2>2. AfterRead \in {"clear", "check"}  BY DEF AfterRead
  <2>3. CASE ReadPlain \/ ReadTls
    BY <1>0, <1>f, <2>1, <2>2, <2>3, IoMoves DEF ReadPlain, ReadTls, Control
  <2>4. CASE ReadEarly
    <3>1. CASE Handshake("rearm", "rearm")
      BY <1>0, <1>f, <2>1, <2>4, <3>1, IoMoves DEF ReadEarly, Handshake, Control
    <3>2. CASE Go(AfterRead)
      BY <1>0, <2>1, <2>2, <2>4, <3>2, IoMoves DEF ReadEarly, Control
    <3>3. QED  BY <2>4, <3>1, <3>2 DEF ReadEarly
  <2>5. CASE Rearm
    <3>1. Go(AfterRead) \/ GoUpdatingLocked(All, AfterRead)  BY <2>5 DEF Rearm
    <3>2. QED  BY <1>0, <1>f, <2>1, <2>2, <2>5, <3>1, IoMoves DEF Rearm, Control
  <2>6. QED  BY <1>16, <2>3, <2>4, <2>5
<1>17. CASE WriteEarly \/ SendPlain \/ More \/ SendTls \/ Sent
  <2>1. c0 \in Conn  BY <1>0, <1>17, AtWork DEF WriteEarly, SendPlain, More, SendTls, Sent, Control
  <2>2. CASE WriteEarly \/ More \/ SendTls
    BY <1>0, <1>f, <2>1, <2>2, IoMoves DEF WriteEarly, More, SendTls, Handshake, Control
  <2>3. CASE SendPlain
    BY <1>0, <2>1, <2>3, IoMoves, Draining DEF SendPlain, Control
  <2>4. CASE Sent
    BY <1>0, <1>f, <2>1, <2>4, IoMoves, Draining DEF Sent, Control
  <2>5. QED  BY <1>17, <2>2, <2>3, <2>4
<1>18. UNCHANGED <<io, maker>> => Control'
  BY <1>0 DEF Control
<1>19. QED
  BY <1>1, <1>2, <1>3, <1>4, <1>5, <1>6, <1>7, <1>8, <1>9, <1>10, <1>11, <1>12, <1>13,
     <1>14, <1>15, <1>16, <1>17, <1>18
  DEF OtherNext, vars, threads, Loop, Write, MarkWrite, WriteBack, WriteBackPoll, SocketWrite,
      PeerSends, PeerBreaks

\* A connection keeps its descriptor and its number.
Same(c) == conn'[c].sfd = conn[c].sfd /\ conn'[c].nth = conn[c].nth

\* The steps that give and take descriptors; every other step leaves them, and what history
\* says of them, alone.
LEMMA Descriptors ==
  ASSUME InductiveInvariant, [OtherNext]_vars
  PROVE  \/ \E c \in Conn : Construct(c)
         \/ Close \/ (\E c \in Conn : RetryClose(c)) \/ RetryConnect
         \/ ReadOrphan \/ WriteOrphan
         \/ /\ \A c \in Conn : Same(c)
            /\ UNCHANGED <<opened, foreign>>
            /\ UNCHANGED raced \/ MakeEntry \/ MarkWrite \/ WriteBack
<1> USE DEF Same
<1>0. ConnTypes /\ Control /\ Closing
  BY DEF InductiveInvariant, TypeOK
<1>1. ASSUME NEW c \in Conn, SocketWrite(c)
      PROVE  (\A d \in Conn : Same(d)) /\ UNCHANGED <<opened, foreign, raced>>
  BY <1>0, <1>1 DEF SocketWrite, ConnTypes, Members, engine, history
<1>2. CASE Delete
  <2>1. \A d \in Conn : Same(d)
    BY <1>0, <1>2 DEF Delete, ConnTypes, Members
  <2>2. UNCHANGED <<opened, foreign, raced>>
    BY <1>2 DEF Delete, DeleteSocket, engine, history
  <2>3. QED  BY <2>1, <2>2
<1>3. CASE ReadReply \/ ReadEarly \/ WriteEarly \/ Move \/ SendPlain \/ Sent
  <2>1. c0 \in Conn
    BY <1>0, <1>3, AtWork DEF ReadReply, ReadEarly, WriteEarly, Move, SendPlain, Sent, Control
  <2>2. UNCHANGED <<opened, foreign, raced>>
    BY <1>3 DEF ReadReply, ReadEarly, WriteEarly, Move, SendPlain, Sent, engine, history
  <2>3. ReadReply => \A d \in Conn : Same(d)
    BY <1>0, <2>1 DEF ReadReply, ConnTypes, Members
  <2>4. ReadEarly \/ WriteEarly => \A d \in Conn : Same(d)
    BY <1>0, <2>1 DEF ReadEarly, WriteEarly, Handshake, ConnTypes, Members
  <2>5. Move => \A d \in Conn : Same(d)
    BY <1>0, <2>1 DEF Move, ConnTypes, Members
  <2>6. SendPlain => \A d \in Conn : Same(d)
    <3>1. SendPlain => UNCHANGED conn \/ \E r : conn' = [conn EXCEPT ![c0].length = @ - r]
      BY DEF SendPlain
    <3>2. ASSUME NEW r, conn' = [conn EXCEPT ![c0].length = @ - r] PROVE \A d \in Conn : Same(d)
      BY <1>0, <2>1, <3>2 DEF ConnTypes, Members
    <3>3. QED  BY <3>1, <3>2
  <2>7. Sent => \A d \in Conn : Same(d)
    BY <1>0, <2>1 DEF Sent, ConnTypes, Members
  <2>8. QED  BY <1>3, <2>2, <2>3, <2>4, <2>5, <2>6, <2>7
<1>4. CASE Make \/ Write \/ RetryDelete
  BY <1>4 DEF Make, MakeEntry, MakePoll, RegisterEntry, RegisterPoll, Write, MarkWrite, WriteBack,
     WriteBackPoll, UpdateEntry, UpdatePoll, RetryDelete, DeleteSocket, engine, history
<1>5. CASE Update \/ UpdatePolled \/ ClearLoad \/ ClearStore \/ ClearPoll \/ Check \/ Erase
  BY <1>5 DEF Update, UpdatePolled, ClearLoad, ClearStore, ClearPoll, Check, Erase,
     UpdateEntry, UpdatePoll, RemoveSocket, EraseEntry, engine, history
<1>6. CASE Poll \/ Visit \/ HandleError \/ Continue \/ ReadPlain \/ ReadTls \/ Rearm \/ More \/ SendTls
  BY <1>6 DEF Poll, Visit, HandleError, Continue, ReadPlain, ReadTls, Rearm, More, SendTls,
     engine, history
<1>7. ASSUME NEW c \in Conn, TimeOut(c) \/ PeerSends(c) \/ PeerBreaks(c)
      PROVE  (\A d \in Conn : Same(d)) /\ UNCHANGED <<opened, foreign, raced>>
  BY <1>7 DEF TimeOut, PeerSends, PeerBreaks, engine, history
<1>8. CASE ReadClosesOther
  BY <1>8 DEF ReadClosesOther, engine, history
<1>9. CASE UNCHANGED vars
  BY <1>9 DEF vars, engine, history
<1>10. QED
  BY <1>1, <1>2, <1>3, <1>4, <1>5, <1>6, <1>7, <1>8, <1>9 DEF OtherNext, Loop, Make, Write

\* The thread is making a connection from its constructor to the registration, and nothing
\* else happens on it meanwhile.
LEMMA MakesAlone ==
  ASSUME InductiveInvariant, [OtherNext]_vars
  PROVE  \/ \E c \in Conn : Construct(c)
         \/ MakeEntry \/ MakePoll \/ RetryConnect
         \/ UNCHANGED <<io, maker>>
         \/ UNCHANGED maker /\ io.pc # "made" /\ io'.pc # "made"
<1>0. /\ io \in IoThread /\ Control /\ io.then \in Pcs
      /\ {"prune", "visit", "retry", "connect", "made", "delete", "close", "error", "skip",
          "check", "erase", "update", "update_poll", "clear", "store", "clear_poll", "read",
          "rearm", "write", "move", "send", "sent", "more"} \subseteq Pcs
  BY DEF InductiveInvariant, TypeOK, ThreadTypes, IoThread, Pcs
<1>f. {"read"} \in SUBSET Flags /\ All \in SUBSET Flags
  BY DEF All, Flags
<1>1. CASE Delete \/ Close \/ RetryDelete \/ Update \/ UpdatePolled
  BY <1>0, <1>1, IoMoves
  DEF Delete, Close, RetryDelete, Update, UpdatePolled, Control
<1>2. ASSUME NEW c \in Conn, TimeOut(c) \/ RetryClose(c)
      PROVE  UNCHANGED maker /\ io.pc # "made" /\ io'.pc # "made"
  BY <1>0, <1>2, IoMoves DEF TimeOut, RetryClose, IoThread
<1>3. CASE Poll \/ ClearLoad
  BY <1>0, <1>3 DEF Poll, ClearLoad, IoThread
<1>4. CASE Visit
  <2>1. io.pc # "made" /\ io'.pc # "made"
    BY <1>0, <1>4, Visited, Skipping DEF Looping, Dispatch
  <2>2. QED  BY <1>4, <2>1 DEF Visit
<1>5. CASE HandleError \/ ReadClosesOther
  <2>1. c0 \in Conn  BY <1>0, <1>5, AtWork DEF HandleError, ReadClosesOther, Control
  <2>2. QED  BY <1>0, <1>5, <2>1, IoMoves DEF HandleError, ReadClosesOther
<1>6. CASE Continue \/ Check \/ Erase
  <2>1. io.ready # <<>>  BY <1>0, <1>6, AtWork DEF Continue, Check, Erase, Control
  <2>2. Skip.pc = "visit"  BY <1>0, <2>1, Skipping
  <2>3. QED  BY <1>0, <1>6, <2>2, IoMoves DEF Continue, Check, Erase
<1>7. CASE ReadReply
  <2>1. fd \in Fd /\ EngineTypes
    BY <1>0, <1>7, AtWork DEF ReadReply, Control, InductiveInvariant, TypeOK
  <2>2. fds[fd] # None => fds[fd].flags \cup {"write"} \in SUBSET Flags
    BY <2>1 DEF EngineTypes, Entries, Flags
  <2>3. QED  BY <1>0, <1>7, <2>2, IoMoves DEF ReadReply
<1>8. CASE ClearStore \/ ClearPoll \/ ReadOrphan \/ WriteOrphan \/ Move
  BY <1>0, <1>8, IoMoves DEF ClearStore, ClearPoll, ReadOrphan, WriteOrphan, Orphan, Move, AfterRead
<1>9. CASE ReadPlain \/ ReadTls \/ ReadEarly \/ Rearm
  <2>1. c0 \in Conn  BY <1>0, <1>9, AtWork DEF ReadPlain, ReadTls, ReadEarly, Rearm, Control
  <2>2. AfterRead \in {"clear", "check"}  BY DEF AfterRead
  <2>3. QED
    BY <1>0, <1>9, <1>f, <2>1, <2>2, IoMoves DEF ReadPlain, ReadTls, ReadEarly, Rearm, Handshake
<1>10. CASE WriteEarly \/ More \/ SendTls \/ SendPlain \/ Sent
  <2>1. c0 \in Conn  BY <1>0, <1>10, AtWork DEF WriteEarly, SendPlain, More, SendTls, Sent, Control
  <2>2. CASE WriteEarly \/ More \/ SendTls
    BY <1>0, <1>f, <2>1, <2>2, IoMoves DEF WriteEarly, More, SendTls, Handshake
  <2>3. CASE SendPlain  BY <1>0, <2>1, <2>3, IoMoves, Draining DEF SendPlain
  <2>4. CASE Sent  BY <1>0, <1>f, <2>1, <2>4, IoMoves, Draining DEF Sent
  <2>5. QED  BY <1>10, <2>2, <2>3, <2>4
<1>11. QED
  BY <1>1, <1>2, <1>3, <1>4, <1>5, <1>6, <1>7, <1>8, <1>9, <1>10
  DEF OtherNext, vars, threads, Loop, Make, Write, MarkWrite, WriteBack, WriteBackPoll, SocketWrite,
      PeerSends, PeerBreaks

LEMMA MakingStep ==
  ASSUME InductiveInvariant, [OtherNext]_vars
  PROVE  Making'
<1> USE EngineAssumption, ConnectionAssumption
<1>0. /\ EngineTypes /\ ConnTypes /\ ThreadTypes /\ io \in IoThread
      /\ Control /\ Closing /\ Making /\ OpenedApart
  BY DEF InductiveInvariant, TypeOK, ThreadTypes
<1>1. ASSUME NEW c \in Conn, Construct(c) PROVE Making'
  <2>1. PICK f \in Available : Constructed(c, f)  BY <1>1 DEF Construct
  <2>2. io'.pc = "made" /\ io'.eh = io.eh /\ io.pc \in {"prune", "delete", "read"}
    BY <1>0, <1>1, IoMoves DEF Construct, Pcs
  <2>3. maker'.pc = "entry" /\ maker'.conn = c /\ maker'.back = io.pc  BY <1>1 DEF Construct
  <2>5. conn'[c].sfd = f /\ conn'[c].nth = 1 /\ opened'[f] = c /\ conn[c].nth = 0
    BY <1>0, <2>1, Constructing
  <2>6. \A d \in Conn \ {c} : conn'[d] = conn[d]
    BY <1>0, <2>1 DEF Constructed, ConnTypes
  <2>7. io.eh # None => c # c0 /\ c0' = c0
    BY <1>0, <2>2, <2>5 DEF OpenedApart, Apart, c0
  <2>8. \A d \in Conn : conn'[d].sfd # None => conn'[d].nth > 0
    BY <1>0, <2>5, <2>6 DEF Making
  <2>9. QED  BY <2>2, <2>3, <2>5, <2>7, <2>8 DEF Making
<1>2. CASE MakeEntry
  <2>1. /\ UNCHANGED <<conn, io, opened>> /\ maker'.conn = maker.conn /\ maker'.pc # "rest"
        /\ maker'.back = maker.back
    BY <1>0, <1>2
    DEF MakeEntry, ThreadTypes, Resting, RegisterEntry, engine
  <2>2. maker.pc # "rest"  BY <1>2 DEF MakeEntry
  <2>3. c0' = c0  BY <2>1 DEF c0
  <2>4. QED  BY <1>0, <2>1, <2>2, <2>3 DEF Making
<1>3. CASE MakePoll
  <2>1. maker.back \in {"prune", "read", "delete"} /\ maker'.pc = "rest" /\ UNCHANGED conn
    BY <1>0, <1>3 DEF MakePoll, Making, Resting
  <2>2. io'.pc \in {"prune", "read", "delete"}
    BY <1>0, <1>3, <2>1, IoMoves DEF MakePoll, Pcs
  <2>3. QED  BY <1>0, <2>1, <2>2 DEF Making
<1>4. CASE RetryConnect
  <2> DEFINE c == io.victim
  <2>1. io'.pc = "made" /\ io'.eh = None
    BY <1>0, <1>4, Reconnecting DEF Control
  <2>2. /\ c \in Conn /\ maker'.pc = "entry" /\ maker'.conn = c /\ maker'.back = "prune"
        /\ conn'[c].nth = conn[c].nth + 1
        /\ conn'[c].sfd # None => opened'[conn'[c].sfd] = c
        /\ \A d \in Conn \ {c} : conn'[d] = conn[d]
    BY <1>4, Reconnecting
  <2>3. conn[c].nth \in Nat  BY <1>0, <2>2 DEF ConnTypes, Members
  <2>4. QED  BY <1>0, <2>1, <2>2, <2>3 DEF Making
<1>5. CASE maker.pc = "rest" /\ UNCHANGED maker /\ (io.pc # "made" => io'.pc # "made")
           /\ \A c \in Conn : conn'[c].sfd # None => conn'[c].nth > 0
  BY <1>0, <1>5 DEF Making
<1>6. CASE UNCHANGED <<io, maker>> /\ maker.pc # "rest"
           /\ UNCHANGED opened /\ \A c \in Conn : Same(c)
  <2>1. c0' = c0 /\ maker.conn \in Conn  BY <1>0, <1>6 DEF c0, ThreadTypes, Resting
  <2>2. QED  BY <1>0, <1>6, <2>1 DEF Making, Same
<1>7. \/ \E c \in Conn : Construct(c)
      \/ RetryConnect
      \/ \A c \in Conn : conn'[c].sfd # None => conn'[c].nth > 0
  <2>1. CASE \A c \in Conn : Same(c)
    BY <1>0, <2>1 DEF Making, Same
  <2>2. CASE Close
    BY <1>0, <2>2 DEF Close, Closing, Deleting, ConnTypes, Members, Making
  <2>3. CASE UNCHANGED conn  BY <1>0, <2>3 DEF Making
  <2>4. QED  BY <2>1, <2>2, <2>3, Descriptors DEF RetryClose, ReadOrphan, WriteOrphan, Orphan
<1>8. CASE maker.pc # "rest"
  <2>1. io.pc = "made"  BY <1>0, <1>8 DEF Making
  <2>2. UNCHANGED <<io, maker>> => UNCHANGED opened /\ \A c \in Conn : Same(c)
    BY <1>8, <2>1, Descriptors DEF Construct, Close, RetryClose, RetryConnect, ReadOrphan, WriteOrphan
  <2>3. QED  BY <1>2, <1>3, <1>6, <1>8, <2>1, <2>2, MakesAlone DEF Construct, RetryConnect
<1>9. CASE maker.pc = "rest"
  BY <1>0, <1>1, <1>4, <1>5, <1>7, <1>9, MakesAlone DEF MakeEntry, MakePoll
<1>10. QED  BY <1>8, <1>9

------------------------------------------------------------------------------
(* Who has the descriptors.                                                   *)

\* Connections that are mixed up stay so.
LEMMA RacedGrows ==
  ASSUME InductiveInvariant, [OtherNext]_vars
  PROVE  raced \subseteq raced'
BY Descriptors
   DEF Construct, Constructed, Close, RetryClose, RetryConnect, ReadOrphan, WriteOrphan, Orphan,
       CloseDescriptor, MakeEntry, MarkWrite, WriteBack, history

\* Between closing the descriptor and connecting again the thread does nothing else.
LEMMA RetriesAlone ==
  ASSUME InductiveInvariant, [OtherNext]_vars, io.pc \in {"retry", "connect"}
  PROVE  UNCHANGED io \/ RetryDelete \/ RetryConnect
<1>1. maker.pc = "rest"  BY DEF InductiveInvariant, Making
<1>2. QED
  BY <1>1
  DEF OtherNext, vars, threads, Loop, Make, MakeEntry, MakePoll, Write, MarkWrite, WriteBack,
      WriteBackPoll, SocketWrite, PeerSends, PeerBreaks, Poll, Visit, HandleError, Continue,
      Check, Erase, Update, UpdatePolled, ClearLoad, ClearStore, ClearPoll, ReadOrphan,
      WriteOrphan, ReadPlain, ReadTls, ReadEarly, Rearm, WriteEarly, Move, SendPlain, More,
      SendTls, Sent, Delete, Close, ReadReply, ReadClosesOther, TimeOut, RetryClose, Construct

\* A descriptor is closed by its owner, or by a connection that is mixed up, and then so is
\* the owner.
LEMMA OwnerCloses ==
  ASSUME InductiveInvariant, NEW f \in Fd, NEW c \in Conn, CloseDescriptor(f, c),
         c \notin raced => opened[f] \in {c, None}
  PROVE  /\ opened[f] \in raced' \cup {c, None}
         /\ ClosesItsOwn'
BY DEF InductiveInvariant, CloseDescriptor, ClosesItsOwn

\* What Close, RetryClose and the orphaned callbacks close.
LEMMA WhatIsClosed ==
  ASSUME InductiveInvariant
  PROVE  /\ Close => /\ io.victim \in Conn /\ conn[io.victim].sfd \in Fd
                     /\ CloseDescriptor(conn[io.victim].sfd, io.victim)
                     /\ io.victim \notin raced => opened[conn[io.victim].sfd] = io.victim
         /\ \A c \in Conn : RetryClose(c) =>
              /\ conn[c].sfd \in Fd /\ CloseDescriptor(conn[c].sfd, c)
              /\ c \notin raced => opened[conn[c].sfd] = c
         /\ ReadOrphan \/ WriteOrphan =>
              /\ fd \in Fd /\ c0 \in Conn /\ CloseDescriptor(fd, c0)
              /\ io.eh # None /\ conn[c0].sfd = None
              /\ c0 \notin raced => opened[fd] = None
<1> USE EngineAssumption
<1>0. ConnTypes /\ Control /\ Closing /\ Owning /\ Serving
  BY DEF InductiveInvariant, TypeOK
<1>1. Close => /\ io.victim \in Conn /\ conn[io.victim].sfd \in Fd
               /\ CloseDescriptor(conn[io.victim].sfd, io.victim)
               /\ io.victim \notin raced => opened[conn[io.victim].sfd] = io.victim
  BY <1>0 DEF Close, Closing, Deleting, Owning, ConnTypes, Members
<1>2. ASSUME NEW c \in Conn, RetryClose(c)
      PROVE  /\ conn[c].sfd \in Fd /\ CloseDescriptor(conn[c].sfd, c)
             /\ c \notin raced => opened[conn[c].sfd] = c
  BY <1>0, <1>2 DEF RetryClose, Owning, ConnTypes, Members
<1>3. CASE ReadOrphan \/ WriteOrphan
  <2>1. io.eh # None /\ io.pc \in {"read", "write"} /\ conn[c0].sfd = None
    BY <1>0, <1>3 DEF ReadOrphan, WriteOrphan, Orphan, Control
  <2>2. fd \in Fd /\ c0 \in Conn  BY <2>1, AtWork
  <2>3. CloseDescriptor(fd, c0)  BY <1>3 DEF ReadOrphan, WriteOrphan, Orphan
  <2>4. c0 \notin raced => opened[fd] = None
    BY <1>0, <2>1, <2>2 DEF Serving, Gone
  <2>5. QED  BY <1>1, <1>2, <2>1, <2>2, <2>3, <2>4
<1>4. QED  BY <1>1, <1>2, <1>3

LEMMA ClosesItsOwnStep ==
  ASSUME InductiveInvariant, [OtherNext]_vars
  PROVE  ClosesItsOwn'
<1>0. ClosesItsOwn  BY DEF InductiveInvariant
<1>1. CASE Close \/ (\E c \in Conn : RetryClose(c)) \/ ReadOrphan \/ WriteOrphan
  BY <1>1, WhatIsClosed, OwnerCloses
<1>2. CASE UNCHANGED foreign
  BY <1>0, <1>2, RacedGrows DEF ClosesItsOwn
<1>3. QED  BY <1>1, <1>2, Descriptors DEF Construct, Constructed, RetryConnect, history

LEMMA OwningStep ==
  ASSUME InductiveInvariant, [OtherNext]_vars
  PROVE  Owning'
<1> USE EngineAssumption
<1>0. /\ EngineTypes /\ ConnTypes /\ io \in IoThread /\ Control /\ Closing /\ Owning
      /\ raced \subseteq raced'
  BY RacedGrows DEF InductiveInvariant, TypeOK, ThreadTypes
<1>1. ASSUME NEW c \in Conn, Construct(c) PROVE Owning'
  <2>1. io.pc \notin {"retry", "connect"}  BY <1>1 DEF Construct
  <2>a. PICK f \in Available : Constructed(c, f)  BY <1>1 DEF Construct
  <2>2. f \in Fd /\ opened[f] = None  BY DEF Available
  <2>3. conn'[c].sfd = f /\ opened' = [opened EXCEPT ![f] = c] /\ opened'[f] = c
    BY <1>0, <2>a, Constructing
  <2>4. ASSUME NEW d \in Conn \ raced', d # c, conn'[d].sfd # None
        PROVE  opened'[conn'[d].sfd] = d
    <3>1. conn'[d] = conn[d]  BY <1>0, <2>a, <2>4 DEF Constructed, ConnTypes
    <3>2. opened[conn[d].sfd] = d  BY <1>0, <2>1, <2>4, <3>1 DEF Owning
    <3>3. conn[d].sfd # f  BY <2>2, <3>2
    <3>4. QED  BY <1>0, <2>3, <3>1, <3>2, <3>3 DEF EngineTypes
  <2>5. QED  BY <2>3, <2>4 DEF Owning
<1>2. ASSUME NEW f \in Fd, NEW c \in Conn, CloseDescriptor(f, c),
             c \notin raced => opened[f] \in {c, None},
             io.pc \notin {"retry", "connect"},
             \A d \in Conn \ {c} : conn'[d].sfd = conn[d].sfd,
             conn'[c].sfd = None \/ (io'.pc = "retry" /\ io'.victim = c)
      PROVE  Owning'
  <2>1. opened[f] \in raced' \cup {c, None}  BY <1>2, OwnerCloses
  <2>2. ASSUME NEW d \in Conn \ raced', d # c, conn'[d].sfd # None
        PROVE  opened'[conn'[d].sfd] = d
    <3>1. opened[conn[d].sfd] = d  BY <1>0, <1>2, <2>2 DEF Owning
    <3>2. conn[d].sfd # f  BY <2>1, <2>2, <3>1
    <3>3. QED  BY <1>0, <1>2, <2>2, <3>1, <3>2 DEF CloseDescriptor, EngineTypes
  <2>3. QED  BY <1>2, <2>2 DEF Owning
<1>3. CASE Close
  <2>1. conn'[io.victim].sfd = None /\ \A d \in Conn \ {io.victim} : conn'[d].sfd = conn[d].sfd
    BY <1>0, <1>3, WhatIsClosed DEF Close, ConnTypes, Members
  <2>2. QED  BY <1>2, <1>3, <2>1, WhatIsClosed DEF Close
<1>4. ASSUME NEW c \in Conn, RetryClose(c) PROVE Owning'
  <2>1. io'.pc = "retry" /\ io'.victim = c  BY <1>0, <1>4 DEF RetryClose, IoThread
  <2>2. QED  BY <1>2, <1>4, <2>1, WhatIsClosed DEF RetryClose
<1>5. CASE ReadOrphan \/ WriteOrphan
  <2>1. UNCHANGED conn /\ io.pc \in {"read", "write"}
    BY <1>5 DEF ReadOrphan, WriteOrphan, Orphan
  <2>2. QED  BY <1>2, <1>5, <2>1, WhatIsClosed
<1>6. CASE RetryConnect
  <2> DEFINE f == conn'[io.victim].sfd
  <2>1. io.pc = "connect" /\ io.victim \in Conn /\ \A d \in Conn \ {io.victim} : conn'[d] = conn[d]
    BY <1>6, Reconnecting
  <2>2. IF f = None THEN UNCHANGED opened
        ELSE /\ f \in Fd /\ opened[f] = None
             /\ opened' = [opened EXCEPT ![f] = io.victim] /\ opened'[f] = io.victim
    BY <1>6, Reconnecting
  <2> HIDE DEF f
  <2>4. f # None => opened'[f] = io.victim  BY <2>2
  <2>5. ASSUME NEW d \in Conn \ raced', d # io.victim, conn'[d].sfd # None
        PROVE  opened'[conn'[d].sfd] = d
    <3>1. conn'[d] = conn[d]  BY <2>1, <2>5
    <3>2. opened[conn[d].sfd] = d  BY <1>0, <2>5, <3>1 DEF Owning
    <3>3. conn[d].sfd # f  BY <2>2, <2>5, <3>1, <3>2
    <3>4. CASE f = None  BY <2>2, <3>1, <3>2, <3>4
    <3>5. CASE f # None
      <4>1. opened' = [opened EXCEPT ![f] = io.victim]  BY <2>2, <3>5
      <4>2. opened'[conn[d].sfd] = opened[conn[d].sfd]  BY <1>0, <3>3, <4>1 DEF EngineTypes
      <4>3. QED  BY <3>1, <3>2, <4>2
    <3>6. QED  BY <3>4, <3>5
  <2>6. QED  BY <2>4, <2>5 DEF Owning, f
<1>7. CASE (\A c \in Conn : Same(c)) /\ UNCHANGED opened
  <2>1. CASE io.pc \in {"retry", "connect"}
    <3>1. UNCHANGED io \/ RetryDelete \/ RetryConnect  BY <2>1, RetriesAlone
    <3>2. CASE UNCHANGED io  BY <1>0, <1>7, <3>2 DEF Owning, Same
    <3>3. CASE RetryDelete
      <4>1. io'.pc = "connect" /\ io'.victim = io.victim
        BY <1>0, <3>3, IoMoves DEF RetryDelete, Pcs
      <4>2. QED  BY <1>0, <1>7, <4>1 DEF Owning, Same
    <3>4. QED  BY <1>6, <3>1, <3>2, <3>3
  <2>2. CASE io.pc \notin {"retry", "connect"}
    BY <1>0, <1>7, <2>2 DEF Owning, Same
  <2>3. QED  BY <2>1, <2>2
<1>8. QED  BY <1>1, <1>3, <1>4, <1>5, <1>6, <1>7, Descriptors

------------------------------------------------------------------------------
(* The entries of the engine.                                                 *)

\* What each step does to an entry.
LEMMA EntryChanges ==
  ASSUME InductiveInvariant, [OtherNext]_vars, NEW f \in Fd
  PROVE  \/ fds'[f] = fds[f]
         \/ /\ fds[f] # None
            /\ \/ MarkWrite /\ f = conn[writer.conn].sfd
                  /\ fds'[f] = [fds[f] EXCEPT !.flags = fds[f].flags \cup {"write"}]
               \/ /\ \/ (Delete \/ RetryDelete) /\ f = conn[io.victim].sfd
                     \/ (ReadOrphan \/ WriteOrphan) /\ f = fd
                     \/ RetryConnect /\ opened[f] = None
                  /\ fds'[f] = [fds[f] EXCEPT !.flags = {"deletion"}]
               \/ ClearStore /\ f = fd /\ fds'[f] = [fds[f] EXCEPT !.flags = io.flags]
               \/ Update /\ f = fd /\ fds'[f] = Entry(c0, io.eh.nth, io.flags)
               \/ WriteBack /\ f = writer.fd /\ fds'[f] = writer.entry
         \/ /\ MakeEntry /\ f = conn[maker.conn].sfd
            /\ fds'[f] = Entry(maker.conn, conn[maker.conn].nth, All)
         \/ Erase /\ f = fd /\ fds'[f] = None
<1>0. EngineTypes /\ Control /\ fds[f] \in Entries \cup {None}
  BY DEF InductiveInvariant, TypeOK, EngineTypes
<1>1. ASSUME NEW g \in Fd, DeleteSocket(g), fds'[f] # fds[f]
      PROVE  f = g /\ fds[f] # None /\ fds'[f] = [fds[f] EXCEPT !.flags = {"deletion"}]
  BY <1>0, <1>1 DEF DeleteSocket, EngineTypes
<1>2. CASE MakeEntry
  BY <1>0, <1>2 DEF MakeEntry, RegisterEntry, engine, EngineTypes
<1>3. CASE MarkWrite
  <2> DEFINE g == conn[writer.conn].sfd
             s == [fds[g] EXCEPT !.flags = @ \cup {"write"}]
  <2>1. ThreadTypes /\ ConnTypes  BY DEF InductiveInvariant, TypeOK
  <2>2. g \in Fd \cup {None}
    BY <1>3, <2>1 DEF MarkWrite, ThreadTypes, Resting, ConnTypes, Members
  <2>3. UNCHANGED fds \/ (g # None /\ fds[g] # None /\ fds' = [fds EXCEPT ![g] = s])
    BY <1>3 DEF MarkWrite, UpdateEntry, engine
  <2>4. CASE UNCHANGED fds  BY <2>4
  <2>5. CASE g # None /\ fds[g] # None /\ fds' = [fds EXCEPT ![g] = s] /\ fds'[f] # fds[f]
    <3>1. f = g  BY <1>0, <2>5 DEF EngineTypes
    <3>2. fds'[f] = [fds[f] EXCEPT !.flags = fds[f].flags \cup {"write"}]
      BY <1>0, <2>2, <2>5, <3>1 DEF EngineTypes
    <3>3. QED  BY <1>3, <2>5, <3>1, <3>2
  <2>6. QED  BY <2>3, <2>4, <2>5
<1>4. CASE WriteBack
  BY <1>0, <1>4 DEF WriteBack, UpdateEntry, EngineTypes
<1>5. CASE Delete \/ RetryDelete
  <2>1. Closing /\ ConnTypes  BY DEF InductiveInvariant, TypeOK
  <2>2. io.victim \in Conn  BY <1>5, <2>1 DEF Delete, RetryDelete, Closing, Deleting
  <2>3. conn[io.victim].sfd # None => conn[io.victim].sfd \in Fd
    BY <2>1, <2>2 DEF ConnTypes, Members
  <2>4. UNCHANGED fds \/ (conn[io.victim].sfd # None /\ DeleteSocket(conn[io.victim].sfd))
    BY <1>5, <2>1 DEF Delete, RetryDelete, engine, Closing
  <2>5. QED  BY <1>1, <1>5, <2>3, <2>4
<1>12. CASE RetryConnect  BY <1>1, <1>12, Reconnecting
<1>6. CASE Update
  BY <1>0, <1>6 DEF Update, UpdateEntry, EngineTypes
<1>7. CASE ClearStore
  <2>1. fd \in Fd  BY <1>0, <1>7, AtWork DEF ClearStore, Control
  <2>2. QED  BY <1>0, <1>7, <2>1 DEF ClearStore, EngineTypes
<1>8. CASE Erase
  BY <1>0, <1>8 DEF Erase, EraseEntry, EngineTypes
<1>9. CASE ReadOrphan \/ WriteOrphan
  <2>1. fd \in Fd  BY WhatIsClosed, <1>9
  <2>2. UNCHANGED fds \/ (fds[fd] # None /\ fds' = [fds EXCEPT ![fd].flags = {"deletion"}])
    BY <1>9 DEF ReadOrphan, WriteOrphan, Orphan
  <2>3. QED  BY <1>0, <1>9, <2>1, <2>2 DEF EngineTypes
<1>10. CASE UNCHANGED fds
  BY <1>10
<1>11. QED
  BY <1>2, <1>3, <1>4, <1>5, <1>6, <1>7, <1>8, <1>9, <1>10, <1>12
  DEF OtherNext, vars, threads, engine, Loop, Make, MakePoll, Write, WriteBackPoll, SocketWrite,
      PeerSends, PeerBreaks, Poll, Visit, HandleError, Continue, Check, UpdatePolled,
      ClearLoad, ClearPoll, ReadPlain, ReadTls, ReadEarly, Rearm, WriteEarly, Move, SendPlain,
      More, SendTls, Sent, Close, ReadReply, ReadClosesOther, TimeOut, RetryClose,
      Construct, Constructed, RegisterPoll, UpdatePoll, RemoveSocket

\* What a step may do to an entry: nothing, or change its flags without taking back that it
\* is marked; or what one of the five steps does that may do more.
LEMMA EntrySteps ==
  ASSUME InductiveInvariant, [OtherNext]_vars, NEW f \in Fd
  PROVE  \/ fds'[f] = fds[f]
         \/ /\ fds[f] # None /\ fds'[f] \in Entries
            /\ fds'[f].conn = fds[f].conn /\ fds'[f].nth = fds[f].nth
            /\ Marked(f) => Marked(f)'
         \/ /\ MakeEntry /\ f = conn[maker.conn].sfd
            /\ fds'[f] = Entry(maker.conn, conn[maker.conn].nth, All)
         \/ WriteBack /\ f = writer.fd /\ fds[f] # None /\ fds'[f] = writer.entry
         \/ Update /\ f = fd /\ fds[f] # None /\ fds'[f] = Entry(c0, io.eh.nth, io.flags)
         \/ /\ ClearStore /\ f = fd /\ fds[f] # None /\ fds'[f] \in Entries
            /\ fds'[f].conn = fds[f].conn /\ fds'[f].nth = fds[f].nth /\ fds'[f].flags = io.flags
         \/ Erase /\ f = fd /\ fds'[f] = None
<1>1. fds[f] \in Entries \cup {None} /\ io \in IoThread
  BY DEF InductiveInvariant, TypeOK, EngineTypes, ThreadTypes
<1>2. ASSUME NEW new \in SUBSET Flags, fds[f] # None, fds'[f] = [fds[f] EXCEPT !.flags = new]
      PROVE  /\ fds'[f] \in Entries /\ fds'[f].flags = new
             /\ fds'[f].conn = fds[f].conn /\ fds'[f].nth = fds[f].nth
  BY <1>1, <1>2 DEF Entries
<1>3. /\ {"deletion"} \in SUBSET Flags /\ io.flags \in SUBSET Flags
      /\ fds[f] # None => fds[f].flags \cup {"write"} \in SUBSET Flags
  BY <1>1 DEF Entries, Flags, IoThread
<1>4. QED  BY <1>2, <1>3, EntryChanges DEF Marked

\* A copy that is written back leaves the entry what it is, or mixes up the connections.
LEMMA WritesBack ==
  ASSUME InductiveInvariant, WriteBack, fds[writer.fd] # None
  PROVE  /\ writer.entry \in Entries
         /\ \/ {fds[writer.fd].conn, writer.entry.conn} \subseteq raced'
            \/ /\ writer.entry.conn = fds[writer.fd].conn /\ writer.entry.nth = fds[writer.fd].nth
               /\ Marked(writer.fd) => "deletion" \in writer.entry.flags
<1>1. writer.entry \in Entries
  BY DEF InductiveInvariant, TypeOK, ThreadTypes, Resting, WriteBack
<1>2. CASE Stale(writer)
  BY <1>1, <1>2 DEF WriteBack
<1>3. CASE ~Stale(writer)
  BY <1>1, <1>3 DEF Stale
<1>4. QED  BY <1>2, <1>3

\* What the thread visits stays, unless it goes on to the next descriptor or finds one.
Stays == /\ io'.eh = io.eh /\ io'.ready = io.ready
         /\ io'.pc = "store" => ClearLoad \/ UNCHANGED io
         /\ io.pc \in {"skip", "erase"} => UNCHANGED io
Drops == io'.eh = None /\ (io'.ready = io.ready \/ (io.ready # <<>> /\ io' = Skip))
LEMMA Keeps ==
  ASSUME InductiveInvariant, [OtherNext]_vars
  PROVE  Visit \/ Poll \/ Stays \/ Drops
<1>0. /\ io \in IoThread /\ Control /\ io.then \in Pcs
      /\ {"prune", "visit", "retry", "connect", "made", "delete", "close", "error", "skip",
          "check", "erase", "update", "update_poll", "clear", "store", "clear_poll", "read",
          "rearm", "write", "move", "send", "sent", "more"} \subseteq Pcs
  BY DEF InductiveInvariant, TypeOK, ThreadTypes, IoThread, Pcs
<1>f. {"read"} \in SUBSET Flags /\ All \in SUBSET Flags
  BY DEF All, Flags
<1> USE DEF Stays, Drops
<1> DEFINE On == Stays \/ Drops
<1>1. CASE Delete \/ Close \/ RetryDelete \/ Update \/ UpdatePolled
  <2>1. On
    BY <1>0, <1>1, IoMoves DEF Delete, Close, RetryDelete, Update, UpdatePolled, Control
  <2>2. QED  BY <2>1
<1>2. ASSUME NEW c \in Conn,
             TimeOut(c) \/ RetryClose(c) \/ Construct(c)
      PROVE  On
  <2>1. TimeOut(c) => On  BY <1>0, IoMoves DEF TimeOut, Control
  <2>2. RetryClose(c) => On  BY <1>0 DEF RetryClose, IoThread, Control
  <2>3. Construct(c) => On  BY <1>0, IoMoves DEF Construct
  <2>4. QED  BY <1>2, <2>1, <2>2, <2>3
<1>3. CASE ClearLoad \/ RetryConnect
  <2>1. On  BY <1>0, <1>3, Reconnecting DEF ClearLoad, IoThread, Control
  <2>2. QED  BY <2>1
<1>4. CASE Make
  <2>1. MakePoll => io.pc = "made" /\ maker.back \in {"prune", "read", "delete"}
    BY DEF MakePoll, InductiveInvariant, Making
  <2>2. On  BY <1>0, <1>4, <2>1, IoMoves DEF Make, MakeEntry, MakePoll
  <2>3. QED  BY <2>2
<1>5. CASE HandleError \/ ReadClosesOther
  <2>1. c0 \in Conn  BY <1>0, <1>5, AtWork DEF HandleError, ReadClosesOther, Control
  <2>2. On  BY <1>0, <1>5, <2>1, IoMoves DEF HandleError, ReadClosesOther
  <2>3. QED  BY <2>2
<1>6. CASE Continue \/ Check \/ Erase
  <2>1. io.ready # <<>>  BY <1>0, <1>6, AtWork DEF Continue, Check, Erase, Control
  <2>2. Skip.pc = "visit" /\ Skip.eh = None  BY <1>0, <2>1, Skipping
  <2>3. QED  BY <1>0, <1>6, <2>1, <2>2, IoMoves DEF Continue, Check, Erase
<1>7. CASE ReadReply
  <2>1. fd \in Fd /\ EngineTypes
    BY <1>0, <1>7, AtWork DEF ReadReply, Control, InductiveInvariant, TypeOK
  <2>2. fds[fd] # None => fds[fd].flags \cup {"write"} \in SUBSET Flags
    BY <2>1 DEF EngineTypes, Entries, Flags
  <2>3. On  BY <1>0, <1>7, <2>2, IoMoves DEF ReadReply
  <2>4. QED  BY <2>3
<1>8. CASE ClearStore \/ ClearPoll \/ ReadOrphan \/ WriteOrphan \/ Move
  <2>1. On
    BY <1>0, <1>8, IoMoves DEF ClearStore, ClearPoll, ReadOrphan, WriteOrphan, Orphan, Move, AfterRead
  <2>2. QED  BY <2>1
<1>9. CASE ReadPlain \/ ReadTls \/ ReadEarly \/ Rearm
  <2>1. c0 \in Conn  BY <1>0, <1>9, AtWork DEF ReadPlain, ReadTls, ReadEarly, Rearm, Control
  <2>2. AfterRead \in {"clear", "check"}  BY DEF AfterRead
  <2>3. On
    BY <1>0, <1>9, <1>f, <2>1, <2>2, IoMoves DEF ReadPlain, ReadTls, ReadEarly, Rearm, Handshake
  <2>4. QED  BY <2>3
<1>10. CASE WriteEarly \/ More \/ SendTls \/ SendPlain \/ Sent
  <2>1. c0 \in Conn  BY <1>0, <1>10, AtWork DEF WriteEarly, SendPlain, More, SendTls, Sent, Control
  <2>2. WriteEarly \/ More \/ SendTls => On
    BY <1>0, <1>f, <2>1, IoMoves DEF WriteEarly, More, SendTls, Handshake
  <2>3. SendPlain => On  BY <1>0, <2>1, IoMoves, Draining DEF SendPlain
  <2>4. Sent => On  BY <1>0, <1>f, <2>1, IoMoves, Draining DEF Sent
  <2>5. QED  BY <1>10, <2>2, <2>3, <2>4
<1>11. CASE UNCHANGED io
  BY <1>11
<1>12. QED
  BY <1>1, <1>2, <1>3, <1>4, <1>5, <1>6, <1>7, <1>8, <1>9, <1>10, <1>11
  DEF OtherNext, vars, threads, Loop, Write, MarkWrite, WriteBack, WriteBackPoll, SocketWrite,
      PeerSends, PeerBreaks

\* The entry in use is the same after a step, unless the loop goes on.
LEMMA StaysInUse ==
  ASSUME InductiveInvariant, [OtherNext]_vars
  PROVE  \/ io'.eh = None \/ io'.pc \in {"skip", "erase"}
         \/ Visit
         \/ /\ io.eh # None /\ io.pc \notin {"skip", "erase"}
            /\ io'.eh = io.eh /\ io'.ready = io.ready /\ c0' = c0 /\ fd' = fd
            /\ io'.pc = "store" => ClearLoad \/ UNCHANGED io
<1>1. Poll => io'.eh = None
  BY DEF Poll, InductiveInvariant, TypeOK, ThreadTypes, IoThread, Control
<1>2. QED  BY <1>1, Keeps DEF Stays, Drops, c0, fd

LEMMA InUseStep ==
  ASSUME InductiveInvariant, [OtherNext]_vars
  PROVE  InUse'
<1> USE EngineAssumption, ConnectionAssumption
<1>0. /\ io \in IoThread /\ Control /\ Making /\ Owning /\ Serving /\ InUse /\ ConnTypes /\ ThreadTypes
      /\ raced \subseteq raced'
  BY RacedGrows DEF InductiveInvariant, TypeOK, ThreadTypes
<1>1. CASE Visit /\ io'.eh # None
  <2>1. Skip.eh = None \/ io.ready = <<>>  BY <1>0, Skipping
  <2>2. /\ fds[fd] # None /\ io'.eh = [conn |-> fds[fd].conn, nth |-> fds[fd].nth]
        /\ io'.ready = io.ready
    BY <1>1, <2>1, Visited DEF Looping
  <2>3. fd' = fd /\ c0' = fds[fd].conn  BY <2>2 DEF fd, c0
  <2>4. UNCHANGED fds  BY <1>1 DEF Visit, engine
  <2>5. QED  BY <2>2, <2>3, <2>4 DEF InUse
<1>2. CASE /\ io.eh # None /\ io.pc \notin {"skip", "erase"}
           /\ io'.eh = io.eh /\ io'.ready = io.ready /\ c0' = c0 /\ fd' = fd
  <2>1. fd \in Fd /\ c0 \in Conn  BY <1>2, AtWork
  <2>2. fds[fd] # None /\ \/ fds[fd].conn = c0 /\ fds[fd].nth = io.eh.nth
                          \/ {c0, fds[fd].conn} \subseteq raced
    BY <1>0, <1>2 DEF InUse
  <2> DEFINE Good == /\ fds'[fd] # None
                     /\ \/ fds'[fd].conn = c0 /\ fds'[fd].nth = io.eh.nth
                        \/ {c0, fds'[fd].conn} \subseteq raced'
  <2>3. CASE fds'[fd] = fds[fd]
    <3>1. Good  BY <1>0, <2>2, <2>3
    <3>2. QED  BY <1>2, <3>1 DEF InUse
  <2>4. CASE fds'[fd] # None /\ fds'[fd].conn = fds[fd].conn /\ fds'[fd].nth = fds[fd].nth
    <3>1. Good  BY <1>0, <2>2, <2>4
    <3>2. QED  BY <1>2, <3>1 DEF InUse
  <2>5. CASE MakeEntry /\ fd = conn[maker.conn].sfd
             /\ fds'[fd] = Entry(maker.conn, conn[maker.conn].nth, All)
    <3>1. maker.conn \in Conn /\ io.pc = "made" /\ maker.pc # "rest"
      BY <1>0, <2>5 DEF MakeEntry, ThreadTypes, Resting, Making
    <3>2. fd # None  BY <2>1
    <3>3. opened[fd] = maker.conn /\ maker.conn # c0
      BY <1>0, <1>2, <2>5, <3>1, <3>2 DEF Making
    <3>4. c0 \in raced
      <4>1. SUFFICES ASSUME c0 \notin raced PROVE FALSE  OBVIOUS
      <4>2. conn[c0].sfd = fd  BY <1>0, <1>2, <3>1, <4>1 DEF Serving
      <4>3. opened[fd] = c0  BY <1>0, <2>1, <3>1, <3>2, <4>1, <4>2 DEF Owning
      <4>4. QED  BY <3>3, <4>3
    <3>5. maker.conn \in raced'  BY <1>2, <2>5 DEF MakeEntry
    <3>6. fds'[fd] # None /\ fds'[fd].conn = maker.conn
      <4>1. conn[maker.conn].nth \in Nat  BY <1>0, <3>1 DEF ConnTypes, Members
      <4>2. QED  BY <2>5, <3>1, <4>1 DEF Entry, All, Flags
    <3>7. Good  BY <1>0, <3>4, <3>5, <3>6
    <3>8. QED  BY <1>2, <3>7 DEF InUse
  <2>6. CASE WriteBack /\ fd = writer.fd /\ fds[fd] # None /\ fds'[fd] = writer.entry
    <3>1. /\ writer.entry \in Entries
          /\ \/ {fds[fd].conn, writer.entry.conn} \subseteq raced'
             \/ writer.entry.conn = fds[fd].conn /\ writer.entry.nth = fds[fd].nth
      BY <2>6, WritesBack
    <3>2. writer.entry # None  BY <3>1 DEF Entries
    <3>3. Good  BY <1>0, <2>2, <2>6, <3>1, <3>2
    <3>4. QED  BY <1>2, <3>3 DEF InUse
  <2>7. CASE Update /\ fds'[fd] = Entry(c0, io.eh.nth, io.flags)
    <3>1. Entry(c0, io.eh.nth, io.flags) # None
      BY <1>0, <1>2, AtWork DEF Entry, IoThread
    <3>2. Good  BY <2>7, <3>1 DEF Entry
    <3>3. QED  BY <1>2, <3>2 DEF InUse
  <2>8. CASE ClearStore /\ fds'[fd].conn = fds[fd].conn /\ fds'[fd].nth = fds[fd].nth
             /\ fds'[fd] # None
    BY <2>4, <2>8
  <2>9. \A e \in Entries : e # None
    BY DEF Entries
  <2>10. QED
    BY <1>2, <2>1, <2>2, <2>3, <2>4, <2>5, <2>6, <2>7, <2>9, EntrySteps DEF Erase
<1>3. CASE io'.eh = None \/ io'.pc \in {"skip", "erase"}
  BY <1>3 DEF InUse
<1>4. QED  BY <1>1, <1>2, <1>3, StaysInUse

\* A connection lets go of its descriptor when it is closed or connected again.
LEMMA LetsGo ==
  ASSUME InductiveInvariant, [OtherNext]_vars, NEW c \in Conn,
         conn[c].sfd # None, conn'[c].sfd # conn[c].sfd
  PROVE  (Close \/ RetryConnect) /\ io.victim = c
<1>0. EngineTypes /\ ConnTypes /\ Making /\ Closing /\ conn[c].nth > 0
  BY DEF InductiveInvariant, TypeOK, Making
<1>1. ASSUME NEW d \in Conn, Construct(d) PROVE FALSE
  <2>1. PICK f \in Available : Constructed(d, f)  BY <1>1 DEF Construct
  <2>2. conn[d].nth = 0 /\ \A e \in Conn \ {d} : conn'[e] = conn[e]
    BY <1>0, <2>1, Constructing
  <2>3. QED  BY <1>0, <2>2
<1>2. CASE Close
  BY <1>0, <1>2 DEF Close, Closing, Deleting, ConnTypes, Members
<1>3. CASE RetryConnect
  BY <1>3, Reconnecting
<1>4. QED
  BY <1>1, <1>2, <1>3, Descriptors DEF RetryClose, ReadOrphan, WriteOrphan, Orphan, Same

LEMMA DeletionIsFinalStep ==
  ASSUME InductiveInvariant, [OtherNext]_vars
  PROVE  DeletionIsFinal'
<1> USE EngineAssumption
<1>0. /\ EngineTypes /\ ThreadTypes /\ ConnTypes /\ Control /\ Closing /\ Making /\ Serving /\ InUse
      /\ DeletionIsFinal /\ raced \subseteq raced' /\ EngineTypes'
  BY RacedGrows, EngineTypesStep DEF InductiveInvariant, TypeOK
<1> SUFFICES ASSUME NEW f \in Fd, fds'[f] # None, conn'[fds'[f].conn].sfd # f,
                    fds'[f].conn \notin raced'
             PROVE  "deletion" \in fds'[f].flags
  BY DEF DeletionIsFinal, Released, Final, Marked
<1> DEFINE d == fds'[f].conn
<1>1. d \in Conn /\ d \notin raced  BY <1>0 DEF EngineTypes, Entries
<1>2. ASSUME fds[f] # None, fds[f].conn = d PROVE Marked(f)
  <2>1. CASE conn[d].sfd # f
    BY <1>0, <1>1, <1>2, <2>1 DEF DeletionIsFinal, Released, Final
  <2>2. CASE conn[d].sfd = f
    <3>1. (Close \/ RetryConnect) /\ io.victim = d  BY <1>1, <2>2, LetsGo
    <3>2. Final(f)  BY <1>0, <2>2, <3>1 DEF Closing, Close, RetryConnect
    <3>3. QED  BY <1>1, <1>2, <3>2 DEF Final
  <2>3. QED  BY <2>1, <2>2
<1>3. CASE fds'[f] = fds[f]
  BY <1>2, <1>3 DEF Marked
<1>4. CASE /\ fds[f] # None /\ fds'[f].conn = fds[f].conn
           /\ Marked(f) => Marked(f)'
  BY <1>2, <1>4 DEF Marked
<1>5. CASE MakeEntry /\ f = conn[maker.conn].sfd
           /\ fds'[f] = Entry(maker.conn, conn[maker.conn].nth, All)
  <2>1. d = maker.conn  BY <1>5 DEF Entry
  <2>2. UNCHANGED conn  BY <1>5 DEF MakeEntry
  <2>3. QED  BY <1>5, <2>1, <2>2
<1>6. CASE WriteBack /\ f = writer.fd /\ fds[f] # None /\ fds'[f] = writer.entry
  BY <1>1, <1>2, <1>6, WritesBack
<1>7. CASE Update /\ f = fd /\ fds'[f] = Entry(c0, io.eh.nth, io.flags)
  <2>1. d = c0  BY <1>7 DEF Entry
  <2>2. conn[c0].sfd = fd  BY <1>0, <1>1, <1>7, <2>1 DEF Update, Control, Serving
  <2>3. UNCHANGED conn  BY <1>7 DEF Update
  <2>4. QED  BY <1>7, <2>1, <2>2, <2>3
<1>8. CASE ClearStore /\ f = fd /\ fds[f] # None /\ fds'[f].conn = fds[f].conn
           /\ fds'[f].flags = io.flags
  <2>1. io.eh # None /\ io.pc = "store"  BY <1>0, <1>8 DEF ClearStore, Control
  <2>2. d = c0  BY <1>0, <1>1, <1>8, <2>1 DEF InUse
  <2>3. conn[c0].sfd = fd \/ "deletion" \in io.flags
    BY <1>0, <1>1, <2>1, <2>2 DEF Serving
  <2>4. UNCHANGED conn  BY <1>8 DEF ClearStore
  <2>5. QED  BY <1>8, <2>2, <2>3, <2>4
<1>9. QED  BY <1>3, <1>4, <1>5, <1>6, <1>7, <1>8, EntrySteps

\* What may happen while an entry is checked, or on the way to on_write() and out of it.
LEMMA OnTheWay ==
  ASSUME InductiveInvariant, [OtherNext]_vars,
         io.pc \in {"check", "clear", "store", "clear_poll", "write", "more"}
  PROVE  \/ Check \/ ClearLoad \/ ClearStore \/ ClearPoll \/ WriteOrphan \/ WriteEarly \/ More
         \/ (\E c \in Conn : SocketWrite(c))
         \/ UNCHANGED <<conn, opened, io>>
<1>1. maker.pc = "rest"  BY DEF InductiveInvariant, Making
<1>2. ASSUME NEW c \in Conn, Construct(c) PROVE FALSE
  BY <1>2 DEF Construct
<1>3. QED
  BY <1>1, <1>2
  DEF OtherNext, vars, threads, engine, Loop, Make, MakeEntry, MakePoll, Write, MarkWrite, WriteBack,
      WriteBackPoll, UpdateEntry, UpdatePoll, PeerSends, PeerBreaks, Poll, Visit, HandleError,
      Continue, Erase, Update, UpdatePolled, ReadOrphan, ReadPlain, ReadTls, ReadEarly, Rearm,
      Move, SendPlain, SendTls, Sent, Delete, Close, RetryDelete, RetryConnect, ReadReply,
      ReadClosesOther, TimeOut, RetryClose

LEMMA ServingStep ==
  ASSUME InductiveInvariant, [OtherNext]_vars
  PROVE  Serving'
<1> USE EngineAssumption, ConnectionAssumption
<1>0. /\ EngineTypes /\ ConnTypes /\ io \in IoThread /\ Control /\ Closing /\ Serving /\ InUse
      /\ DeletionIsFinal /\ raced \subseteq raced'
  BY RacedGrows DEF InductiveInvariant, TypeOK, ThreadTypes
<1>1. CASE Visit /\ io'.eh # None
  <2>1. Skip.eh = None \/ io.ready = <<>>  BY <1>0, Skipping
  <2>2. /\ fd \in Fd /\ fds[fd] # None /\ fds[fd] \in Entries
        /\ io'.eh = [conn |-> fds[fd].conn, nth |-> fds[fd].nth] /\ io'.ready = io.ready
        /\ io'.pc = IF Marked(fd) THEN "check" ELSE Dispatch(revents)
    BY <1>1, <2>1, Visited DEF Looping
  <2>3. fd' = fd /\ c0' = fds[fd].conn  BY <2>2 DEF fd, c0
  <2>4. UNCHANGED <<conn, raced>>  BY <1>1 DEF Visit, history
  <2>5. CASE Marked(fd)  BY <2>2, <2>5 DEF Serving
  <2>6. CASE ~Marked(fd)
    <3>1. fds[fd].conn \notin raced => conn[fds[fd].conn].sfd = fd
      BY <1>0, <2>2, <2>6 DEF DeletionIsFinal, Released, Final
    <3>2. io'.pc \in {"error", "read", "clear", "check"}  BY <2>2, <2>6 DEF Dispatch
    <3>3. QED  BY <2>3, <2>4, <3>1, <3>2 DEF Serving
  <2>7. QED  BY <2>5, <2>6
<1>2. CASE io'.eh = None \/ io'.pc \in {"skip", "erase"}
  BY <1>2 DEF Serving
<1>3. CASE /\ io.eh # None /\ io.pc \notin {"skip", "erase"}
           /\ io'.eh = io.eh /\ io'.ready = io.ready /\ c0' = c0 /\ fd' = fd
           /\ io'.pc = "store" => ClearLoad \/ UNCHANGED io
  <2>1. fd \in Fd /\ c0 \in Conn  BY <1>3, AtWork
  <2>2. CASE c0 \in raced
    BY <1>0, <1>3, <2>2 DEF Serving
  <2>3. CASE c0 \notin raced /\ io.pc \in {"clear", "store", "clear_poll", "write", "more"}
    <3>1. conn[c0].sfd = fd \/ Gone(c0, fd)  BY <1>0, <1>3, <2>3 DEF Serving
    <3>2. CASE ClearLoad
      <4>1. io'.pc = "store" /\ io'.flags = (IF fds[fd] = None THEN {} ELSE fds[fd].flags) \ {"write"}
        BY <1>0, <3>2 DEF ClearLoad, IoThread
      <4>2. UNCHANGED <<conn, opened>>  BY <3>2 DEF ClearLoad, engine
      <4>3. conn[c0].sfd = fd \/ "deletion" \in io'.flags
        <5>1. fds[fd] # None /\ fds[fd].conn = c0  BY <1>0, <1>3, <2>3 DEF InUse
        <5>2. conn[c0].sfd # fd => "deletion" \in fds[fd].flags
          BY <1>0, <2>1, <2>3, <5>1 DEF DeletionIsFinal, Released, Final, Marked
        <5>3. QED  BY <4>1, <5>1, <5>2
      <4>4. QED  BY <1>3, <3>1, <4>1, <4>2, <4>3 DEF Serving, Gone
    <3>3. CASE ClearStore \/ ClearPoll
      <4>1. io'.pc \in {"clear_poll", "write"}
        BY <1>0, <3>3, IoMoves DEF ClearStore, ClearPoll, Pcs
      <4>2. UNCHANGED <<conn, opened>>  BY <3>3 DEF ClearStore, ClearPoll, UpdatePoll, engine
      <4>3. QED  BY <1>3, <3>1, <4>1, <4>2 DEF Serving, Gone
    <3>4. CASE WriteOrphan
      <4>1. io'.pc = "check"  BY <1>0, <3>4, IoMoves DEF WriteOrphan, Orphan, Pcs
      <4>2. QED  BY <4>1 DEF Serving
    <3>5. CASE WriteEarly
      <4>1. conn[c0].sfd = fd  BY <3>1, <3>5 DEF WriteEarly, Gone
      <4>2. io.pc = "write" /\ conn'[c0].sfd = fd
        BY <1>0, <2>1, <3>5, <4>1 DEF WriteEarly, Handshake, ConnTypes, Members
      <4>3. io'.pc \in {"move", "update", "delete"}
        BY <1>0, <2>1, <3>5, IoMoves DEF WriteEarly, Handshake, Pcs, All, Flags
      <4>4. QED  BY <1>3, <4>2, <4>3 DEF Serving
    <3>6. CASE More
      <4>1. UNCHANGED conn /\ \/ io'.pc = "check"
                              \/ io'.pc = "update" /\ conn[c0].obuffer > 0
        BY <1>0, <3>6, IoMoves DEF More, Pcs, All, Flags
      <4>2. QED  BY <1>3, <3>1, <4>1 DEF Serving, Gone
    <3>7. ASSUME NEW c \in Conn, SocketWrite(c) PROVE Serving'
      <4>1. UNCHANGED <<io, opened>> /\ conn[c].sfd # None
            /\ conn' = [conn EXCEPT ![c].obuffer = @ + 1]
        BY <3>7 DEF SocketWrite, engine
      <4>2. conn'[c0].sfd = conn[c0].sfd  BY <1>0, <2>1, <4>1 DEF ConnTypes, Members
      <4>3. Gone(c0, fd) => conn'[c0] = conn[c0]  BY <1>0, <2>1, <4>1 DEF Gone, ConnTypes
      <4>4. QED  BY <1>0, <1>3, <2>3, <4>1, <4>2, <4>3 DEF Serving, Gone
    <3>8. CASE UNCHANGED <<conn, opened, io>>
      BY <1>0, <1>3, <2>3, <3>8 DEF Serving, Gone
    <3>9. QED  BY <2>3, <3>2, <3>3, <3>4, <3>5, <3>6, <3>7, <3>8, OnTheWay DEF Check
  <2>4. CASE /\ c0 \notin raced
             /\ io.pc \in {"read", "error", "rearm", "move", "send", "sent", "update", "update_poll",
                           "made", "delete", "close"}
    <3>1. conn[c0].sfd = fd  BY <1>0, <1>3, <2>4 DEF Serving
    <3>2. CASE Close
      <4>1. io'.pc = io.then /\ io.then \in {"prune", "skip", "check", "clear", "read", "more"}
        BY <1>0, <3>2, IoMoves DEF Close, Control, Pcs
      <4>2. /\ conn' = [conn EXCEPT ![io.victim].sfd = None, ![io.victim].obuffer = 0]
            /\ opened' = [opened EXCEPT ![conn[io.victim].sfd] = None]
            /\ io.victim = c0 <=> io.then # "read"
        BY <1>0, <1>3, <3>2 DEF Close, CloseDescriptor, Closing, Deleting
      <4>3. CASE io.then = "read"
        <5>1. conn'[c0] = conn[c0]  BY <1>0, <2>1, <4>2, <4>3 DEF ConnTypes
        <5>2. QED  BY <1>3, <3>1, <4>1, <4>3, <5>1 DEF Serving
      <4>4. CASE io.then # "read"
        <5>1. conn'[c0].sfd = None /\ conn'[c0].obuffer = 0 /\ opened'[fd] = None
          BY <1>0, <2>1, <3>1, <4>2, <4>4 DEF ConnTypes, Members, EngineTypes
        <5>2. QED  BY <1>3, <4>1, <4>4, <5>1 DEF Serving, Gone
      <4>5. QED  BY <4>3, <4>4
    <3>3. CASE ~Close
      <4>1. conn'[c0].sfd = fd
        BY <2>1, <2>4, <3>1, <3>3, LetsGo DEF RetryConnect
      <4>2. QED  BY <1>3, <4>1 DEF Serving
    <3>4. QED  BY <3>2, <3>3
  <2>5. CASE io.pc = "check"
    <3>1. Check \/ UNCHANGED io
      BY <2>5, OnTheWay DEF ClearLoad, ClearStore, ClearPoll, WriteOrphan, WriteEarly, More, SocketWrite
    <3>2. CASE Check
      <4>1. io.pc = "check" /\ Skip.eh = None  BY <1>0, <1>3, <2>5, Skipping, AtWork
      <4>2. io'.eh = None \/ io'.pc = "erase"
        BY <1>0, <3>2, <4>1, IoMoves DEF Check, Pcs
      <4>3. QED  BY <1>2, <4>2
    <3>3. CASE UNCHANGED io  BY <2>5, <3>3 DEF Serving
    <3>4. QED  BY <3>1, <3>2, <3>3
  <2>6. io.pc \in {"read", "error", "rearm", "move", "send", "sent", "update", "update_poll", "made",
                   "delete", "close", "clear", "store", "clear_poll", "write", "more", "check"}
    BY <1>0, <1>3 DEF Control, IoThread, Pcs
  <2>7. QED  BY <2>2, <2>3, <2>4, <2>5, <2>6
<1>4. QED  BY <1>1, <1>2, <1>3, StaysInUse

\* What is marked for a connection that lets go of its descriptor stays so until it does.
LEMMA FinalStays ==
  ASSUME InductiveInvariant, [OtherNext]_vars, NEW f \in Fd, Final(f),
         io.pc \in {"close", "retry", "connect"}
  PROVE  Final(f)'
<1>0. raced \subseteq raced' /\ maker.pc = "rest"
  BY RacedGrows DEF InductiveInvariant, Making
<1>1. CASE fds'[f] = fds[f]
  BY <1>0, <1>1 DEF Final, Marked
<1>2. CASE fds[f] # None /\ fds'[f].conn = fds[f].conn /\ (Marked(f) => Marked(f)')
  BY <1>0, <1>2 DEF Final
<1>3. CASE WriteBack /\ f = writer.fd /\ fds[f] # None /\ fds'[f] = writer.entry
  <2>1. CASE writer.entry.conn \in raced'  BY <1>3, <2>1 DEF Final
  <2>2. CASE /\ writer.entry.conn = fds[f].conn
             /\ Marked(f) => "deletion" \in writer.entry.flags
    BY <1>0, <1>3, <2>2 DEF Final, Marked
  <2>3. QED  BY <1>3, <2>1, <2>2, WritesBack
<1>4. QED
  BY <1>0, <1>1, <1>2, <1>3, EntrySteps DEF MakeEntry, Update, ClearStore, Erase

\* delete_socket() marks the entry.
LEMMA DeleteMarks ==
  ASSUME EngineTypes, EngineTypes', NEW f \in Fd, DeleteSocket(f)
  PROVE  Final(f)'
<1>1. CASE fds[f] = None \/ Marked(f)
  BY <1>1 DEF DeleteSocket, Final, Marked
<1>2. CASE fds[f] # None /\ ~Marked(f)
  <2>1. fds'[f] = [fds[f] EXCEPT !.flags = {"deletion"}] /\ fds[f] \in Entries
    BY <1>2 DEF DeleteSocket, EngineTypes
  <2>2. QED  BY <2>1 DEF Entries, Final, Marked
<1>3. QED  BY <1>1, <1>2

LEMMA ClosingStep ==
  ASSUME InductiveInvariant, [OtherNext]_vars
  PROVE  Closing'
<1> USE EngineAssumption, ConnectionAssumption
<1>0. /\ EngineTypes /\ EngineTypes' /\ ConnTypes /\ io \in IoThread /\ Control /\ Closing /\ Making
      /\ io.then \in Pcs
      /\ {"prune", "visit", "retry", "connect", "made", "delete", "close", "error", "skip",
          "check", "erase", "update", "update_poll", "clear", "store", "clear_poll", "read",
          "rearm", "write", "move", "send", "sent", "more"} \subseteq Pcs
  BY EngineTypesStep DEF InductiveInvariant, TypeOK, ThreadTypes, IoThread, Pcs
<1>f. {"read"} \in SUBSET Flags /\ All \in SUBSET Flags
  BY DEF All, Flags
<1>e. ASSUME NEW f \in Fd, Final(f)', conn'[io'.victim].sfd = f
      PROVE  Final(conn[io.victim].sfd)'
  BY <1>e DEF Final, Marked
<1>1. CASE UNCHANGED io /\ io.pc \in {"close", "retry", "connect"}
  <2> DEFINE c == io.victim
  <2>1. c \in Conn /\ conn[c].sfd \in Fd /\ conn[c].sfd # None
    BY <1>0, <1>1 DEF Closing, Deleting, ConnTypes, Members
  <2>2. ASSUME NEW d \in Conn, Construct(d) PROVE FALSE
    BY <1>1, <2>2 DEF Construct
  <2>3. ~Close /\ ~RetryConnect
    <3>1. ASSUME Close PROVE FALSE
      <4>1. io'.pc = io.then  BY <1>0, <3>1, IoMoves DEF Close
      <4>2. QED  BY <1>0, <1>1, <3>1, <4>1 DEF Close, Control
    <3>2. ASSUME RetryConnect PROVE FALSE
      <4>1. io'.pc = "made"  BY <1>0, <3>2 DEF RetryConnect, IoThread, Pcs
      <4>2. QED  BY <1>1, <4>1
    <3>3. QED  BY <3>1, <3>2
  <2>4. Same(c)
    BY <1>1, <2>1, <2>2, <2>3, Descriptors DEF RetryClose, ReadOrphan, WriteOrphan
  <2>5. PICK f \in Fd : f = conn[c].sfd  BY <2>1
  <2>6. io.pc \in {"close", "connect"} => Final(f)
    BY <1>0, <2>5 DEF Closing, Final, Marked
  <2>7. io.pc \in {"close", "connect"} => Final(f)'
    BY <1>1, <2>6, FinalStays
  <2>8. conn'[io'.victim].sfd = f  BY <1>1, <2>4, <2>5 DEF Same
  <2>9. io.pc \in {"close", "connect"} => Final(conn[io.victim].sfd)'
    BY <1>e, <2>7, <2>8
  <2>10. c0' = c0  BY <1>1 DEF c0
  <2>11. QED  BY <1>0, <1>1, <2>1, <2>4, <2>9, <2>10 DEF Closing, Deleting, Same
<1>2. CASE /\ UNCHANGED io /\ io.pc \notin {"close", "retry", "connect"}
           /\ maker'.back = maker.back \/ io.pc # "made"
  <2>1. c0' = c0 /\ Deleting' = Deleting  BY <1>2 DEF c0, Deleting
  <2>2. QED  BY <1>0, <1>2, <2>1 DEF Closing
<1>6. ASSUME io'.pc = "delete", io'.victim \in Conn,
             io'.eh # None => (io'.victim = c0' <=> io'.then # "read")
      PROVE  Closing'
  BY <1>6 DEF Closing, Deleting
<1>7. ASSUME io'.pc \notin {"delete", "close", "retry", "connect", "made"} PROVE Closing'
  BY <1>7 DEF Closing, Deleting
<1>3. CASE Delete
  <2>1. io.victim \in Conn /\ io.pc = "delete"  BY <1>0, <1>3 DEF Delete, Closing, Deleting
  <2>2. CASE conn[io.victim].sfd = None
    <3>1. io'.pc \in {"prune", "skip", "check", "clear", "read", "more"}
      BY <1>0, <1>3, <2>2, IoMoves DEF Delete, Control
    <3>2. QED  BY <1>7, <3>1
  <2>3. CASE conn[io.victim].sfd # None
    <3>1. /\ io'.pc = "close" /\ io'.victim = io.victim /\ io'.then = io.then
          /\ io'.eh = io.eh /\ c0' = c0
      BY <1>0, <1>3, <2>3, IoMoves DEF Delete, c0
    <3>2. PICK f \in Fd : f = conn[io.victim].sfd
      BY <1>0, <2>1, <2>3 DEF ConnTypes, Members
    <3>3. DeleteSocket(f)  BY <1>3, <2>3, <3>2 DEF Delete
    <3>4. Final(f)'  BY <1>0, <3>3, DeleteMarks
    <3>5. conn'[io.victim].sfd = f
      BY <1>0, <1>3, <2>1, <3>2 DEF Delete, ConnTypes, Members
    <3>6. Final(conn[io.victim].sfd)'  BY <1>e, <3>1, <3>4, <3>5
    <3>7. QED  BY <1>0, <2>1, <2>3, <3>1, <3>2, <3>5, <3>6 DEF Closing, Deleting
  <2>4. QED  BY <2>2, <2>3
<1>4. ASSUME NEW c \in Conn, RetryClose(c) PROVE Closing'
  <2>1. io'.pc = "retry" /\ io'.victim = c  BY <1>0, <1>4 DEF RetryClose, IoThread
  <2>2. UNCHANGED conn /\ conn[c].sfd # None /\ conn[c].nth <= MaxRetries
    BY <1>4 DEF RetryClose
  <2>3. QED  BY <2>1, <2>2 DEF Closing, Deleting
<1>5. CASE RetryDelete
  <2>1. io'.pc = "connect" /\ io'.victim = io.victim /\ UNCHANGED conn /\ io.pc = "retry"
    BY <1>0, <1>5, IoMoves DEF RetryDelete
  <2>2. PICK f \in Fd : f = conn[io.victim].sfd /\ f # None
    BY <1>0, <2>1 DEF Closing, ConnTypes, Members
  <2>3. DeleteSocket(f)  BY <1>5, <2>2 DEF RetryDelete
  <2>4. Final(f)'  BY <1>0, <2>3, DeleteMarks
  <2>5. Final(conn[io.victim].sfd)'  BY <1>e, <2>1, <2>2, <2>4
  <2>6. QED  BY <1>0, <2>1, <2>2, <2>5 DEF Closing, Deleting
<1>8. ASSUME NEW c \in Conn, TimeOut(c) PROVE Closing'
  BY <1>0, <1>6, <1>8, IoMoves DEF TimeOut, Control
<1>9. CASE HandleError
  <2>1. c0 \in Conn  BY <1>0, <1>9, AtWork DEF HandleError, Control
  <2>2. io'.pc = "delete" /\ io'.victim = c0 /\ io'.then = "skip" /\ c0' = c0
    BY <1>0, <1>9, <2>1, IoMoves DEF HandleError, c0
  <2>3. QED  BY <1>6, <2>1, <2>2
<1>10. CASE ReadClosesOther
  <2>1. PICK c \in Conn \ {c0} : GoClosing(c, "read")  BY <1>10 DEF ReadClosesOther
  <2>2. io'.pc = "delete" /\ io'.victim = c /\ io'.then = "read" /\ c0' = c0
    BY <1>0, <2>1, IoMoves DEF c0
  <2>3. QED  BY <1>6, <2>1, <2>2
<1>11. ASSUME c0 \in Conn, NEW then \in {"check", "clear"}, GoClosing(c0, then) PROVE Closing'
  <2>1. io'.pc = "delete" /\ io'.victim = c0 /\ io'.then = then /\ c0' = c0
    BY <1>0, <1>11, IoMoves DEF c0
  <2>2. QED  BY <1>6, <1>11, <2>1
<1>12. ASSUME NEW pc \in Pcs \ {"delete", "close", "retry", "connect", "made"},
              \/ Go(pc) \/ GoOn(pc)
              \/ \E flags \in SUBSET Flags : GoUpdating(flags, pc) \/ GoUpdatingLocked(flags, pc)
       PROVE  Closing'
  <2>1. io'.pc \in {pc, "update"}  BY <1>0, <1>12, IoMoves
  <2>2. QED  BY <1>7, <1>12, <2>1
<1>13. ASSUME c0 \in Conn, NEW then \in {"check", "more"}, NEW locked \in BOOLEAN,
              Drained(then, locked)
       PROVE  Closing'
  <2>1. /\ io'.eh = io.eh
        /\ io'.pc = then \/ (io'.pc = "delete" /\ io'.victim = c0 /\ io'.then = then)
    BY <1>0, <1>13, Draining
  <2>2. c0' = c0  BY <2>1 DEF c0
  <2>3. QED  BY <1>6, <1>7, <1>13, <2>1, <2>2
<1>14. CASE ReadPlain \/ ReadTls \/ ReadEarly \/ Rearm \/ WriteEarly \/ More \/ SendTls \/ SendPlain \/ Sent
  <2>1. c0 \in Conn
    BY <1>0, <1>14, AtWork
    DEF ReadPlain, ReadTls, ReadEarly, Rearm, WriteEarly, More, SendTls, SendPlain, Sent, Control
  <2>2. AfterRead \in {"clear", "check"}  BY DEF AfterRead
  <2>3. CASE ReadPlain  BY <1>0, <1>11, <1>12, <2>1, <2>2, <2>3 DEF ReadPlain
  <2>4. CASE ReadTls
    <3>1. \/ GoClosing(c0, AfterRead)
          \/ Go(AfterRead) \/ Go("rearm")
          \/ \E flags \in SUBSET Flags : GoUpdating(flags, "rearm")
      BY <1>f, <2>4 DEF ReadTls
    <3>2. QED  BY <1>0, <1>11, <1>12, <2>1, <2>2, <3>1
  <2>5. ASSUME NEW done \in {"rearm", "move"}, NEW waiting \in {"rearm", "check"},
               Handshake(done, waiting)
        PROVE  Closing'
    <3>1. \/ \E flags \in SUBSET Flags : GoUpdating(flags, done) \/ GoUpdating(flags, waiting)
          \/ GoClosing(c0, "check")
      BY <1>f, <2>5 DEF Handshake
    <3>2. QED  BY <1>0, <1>11, <1>12, <2>1, <2>5, <3>1
  <2>6. CASE ReadEarly  BY <1>0, <1>12, <2>2, <2>5, <2>6 DEF ReadEarly
  <2>7. CASE Rearm  BY <1>0, <1>f, <1>12, <2>2, <2>7 DEF Rearm
  <2>8. CASE WriteEarly  BY <1>0, <1>12, <2>5, <2>8 DEF WriteEarly
  <2>9. CASE More  BY <1>0, <1>f, <1>12, <2>9 DEF More
  <2>10. CASE SendTls
    <3>1. \/ Go("sent") \/ Go("check") \/ GoClosing(c0, "check")
          \/ \E flags \in SUBSET Flags : GoUpdating(flags, "check")
      BY <1>f, <2>10 DEF SendTls
    <3>2. QED  BY <1>0, <1>11, <1>12, <2>1, <3>1
  <2>11. CASE SendPlain
    <3>1. Go("more") \/ Drained("more", FALSE) \/ GoClosing(c0, "check")
      BY <2>11 DEF SendPlain
    <3>2. QED  BY <1>0, <1>11, <1>12, <1>13, <2>1, <3>1
  <2>12. CASE Sent
    <3>1. GoUpdatingLocked(All, "check") \/ Drained("check", TRUE)
      BY <2>12 DEF Sent
    <3>2. QED  BY <1>0, <1>f, <1>12, <1>13, <2>1, <3>1
  <2>13. QED  BY <1>14, <2>3, <2>4, <2>6, <2>7, <2>8, <2>9, <2>10, <2>11, <2>12
<1>15. ASSUME NEW c \in Conn, Construct(c) PROVE Closing'
  <2>1. /\ io'.pc = "made" /\ io'.victim = io.victim /\ io'.then = io.then
        /\ io'.eh = io.eh /\ maker'.back = io.pc
    BY <1>0, <1>15, IoMoves DEF Construct
  <2>2. c0' = c0  BY <2>1 DEF c0
  <2>3. Deleting' => Deleting  BY <2>1 DEF Deleting
  <2>4. QED  BY <1>0, <2>1, <2>2, <2>3 DEF Closing
<1>16. CASE Poll \/ ClearLoad \/ RetryConnect
  <2>1. Poll \/ ClearLoad => io'.pc \in {"visit", "store"}
    BY <1>0 DEF Poll, ClearLoad, IoThread
  <2>2. CASE Poll \/ ClearLoad  BY <1>7, <2>1, <2>2
  <2>3. CASE RetryConnect
    <3>1. io'.pc = "made" /\ maker'.back = "prune"  BY <2>3, Reconnecting
    <3>2. QED  BY <3>1 DEF Closing, Deleting
  <2>4. QED  BY <1>16, <2>2, <2>3
<1>17. CASE Visit
  <2>1. io'.pc \notin {"delete", "close", "retry", "connect", "made"}
    BY <1>0, <1>17, Visited, Skipping DEF Looping, Dispatch
  <2>2. QED  BY <1>7, <2>1
<1>18. CASE Continue \/ Check \/ Erase
  <2>1. io.ready # <<>>  BY <1>0, <1>18, AtWork DEF Continue, Check, Erase, Control
  <2>2. Skip.pc = "visit"  BY <1>0, <2>1, Skipping
  <2>3. io'.pc \in {"visit", "erase"}
    BY <1>0, <1>18, <2>2, IoMoves DEF Continue, Check, Erase
  <2>4. QED  BY <1>7, <2>3
<1>19. CASE Make
  <2>1. io.pc = "made"  BY <1>0, <1>19 DEF Make, MakeEntry, MakePoll, Making
  <2>2. CASE MakeEntry
    <3>1. UNCHANGED io /\ maker'.back = maker.back
      BY <2>2 DEF MakeEntry, InductiveInvariant, TypeOK, ThreadTypes, Resting
    <3>2. QED  BY <1>2, <2>1, <3>1
  <2>3. CASE MakePoll
    <3>1. maker.back \in {"prune", "read", "delete"}  BY <1>0, <2>3 DEF MakePoll, Making
    <3>2. /\ io'.pc = maker.back /\ io'.victim = io.victim /\ io'.then = io.then
          /\ io'.eh = io.eh
      BY <1>0, <2>3, <3>1, IoMoves DEF MakePoll
    <3>3. c0' = c0  BY <3>2 DEF c0
    <3>4. CASE maker.back = "delete"
      <4>1. Deleting  BY <2>1, <3>4 DEF Deleting
      <4>2. QED  BY <1>0, <1>6, <3>2, <3>3, <3>4, <4>1 DEF Closing
    <3>5. QED  BY <1>7, <3>1, <3>2, <3>4
  <2>4. QED  BY <1>19, <2>2, <2>3 DEF Make
<1>20. CASE Close \/ Update \/ UpdatePolled
  BY <1>0, <1>12, <1>20 DEF Close, Update, UpdatePolled, Control
<1>21. CASE ClearStore \/ ClearPoll \/ ReadOrphan \/ WriteOrphan \/ Move
  BY <1>0, <1>12, <1>21
  DEF ClearStore, ClearPoll, ReadOrphan, WriteOrphan, Orphan, Move, AfterRead
<1>22. CASE ReadReply
  <2>1. fd \in Fd  BY <1>0, <1>22, AtWork DEF ReadReply, Control
  <2>2. fds[fd] # None => fds[fd].flags \cup {"write"} \in SUBSET Flags
    BY <1>0, <2>1 DEF EngineTypes, Entries, Flags
  <2>3. UNCHANGED io \/ \E flags \in SUBSET Flags : GoUpdatingLocked(flags, "read")
    BY <1>22, <2>2 DEF ReadReply
  <2>4. UNCHANGED maker  BY <1>22 DEF ReadReply
  <2>5. QED  BY <1>0, <1>1, <1>2, <1>12, <2>3, <2>4
<1>23. QED
  BY <1>1, <1>2, <1>3, <1>4, <1>5, <1>8, <1>9, <1>10, <1>14, <1>15, <1>16, <1>17, <1>18, <1>19,
     <1>20, <1>21, <1>22
  DEF OtherNext, vars, threads, Loop, Make, Write, MarkWrite, WriteBack, WriteBackPoll, SocketWrite,
      PeerSends, PeerBreaks

------------------------------------------------------------------------------
(* The connection that another thread opens.                                  *)

\* The thread closes what it closed before, the connection that it visits, or one that is
\* registered.
LEMMA Victims ==
  ASSUME InductiveInvariant, [OtherNext]_vars
  PROVE  \/ io'.victim \in {io.victim, None}
         \/ io.eh # None /\ io'.victim = c0
         \/ \E c \in Conn : Existing(c) /\ io'.victim = c
<1> DEFINE Old == io'.victim \in {io.victim, None}
           Own == io'.victim = c0
<1>0. io \in IoThread /\ Control  BY DEF InductiveInvariant, TypeOK, ThreadTypes
<1>a. \A pc : Go(pc) => Old  BY <1>0 DEF Go, IoThread
<1>b. \A pc : GoOn(pc) => Old  BY <1>0 DEF GoOn, IoThread
<1>c. \A c, then : GoClosing(c, then) => io'.victim = c  BY <1>0 DEF GoClosing, IoThread
<1>d. \A flags, then : GoUpdating(flags, then) \/ GoUpdatingLocked(flags, then) => Old
  BY <1>0 DEF GoUpdating, GoUpdatingLocked, IoThread
<1>e. \A then, locked : Drained(then, locked) => Old \/ Own
  BY <1>0, <1>a DEF Drained, IoThread
<1>f. Skip.victim = io.victim /\ Looping.victim = None
  BY <1>0 DEF Skip, Looping, IoThread
<1>1. CASE Delete \/ Close \/ RetryDelete \/ Update \/ UpdatePolled
  BY <1>1, <1>a, <1>b DEF Delete, Close, RetryDelete, Update, UpdatePolled
<1>2. ASSUME NEW c \in Conn, TimeOut(c) \/ RetryClose(c)
      PROVE  Existing(c) /\ io'.victim = c
  BY <1>0, <1>2, <1>c DEF TimeOut, RetryClose, IoThread
<1>3. ASSUME NEW c \in Conn, Construct(c) PROVE Old
  BY <1>3, <1>a DEF Construct
<1>4. CASE Make \/ Poll \/ ClearLoad
  BY <1>0, <1>4, <1>a DEF Make, MakeEntry, MakePoll, Poll, ClearLoad, IoThread
<1>5. CASE RetryConnect  BY <1>5, Reconnecting
<1>6. CASE Visit \/ Continue \/ Check \/ Erase
  BY <1>0, <1>6, <1>a, <1>f DEF Visit, Continue, Check, Erase, IoThread
<1>7. CASE HandleError \/ ReadClosesOther
  BY <1>0, <1>7, <1>c DEF HandleError, ReadClosesOther, Control
<1>8. CASE ClearStore \/ ClearPoll \/ ReadOrphan \/ WriteOrphan \/ Move \/ ReadReply
  BY <1>8, <1>a, <1>b, <1>d
  DEF ClearStore, ClearPoll, ReadOrphan, WriteOrphan, Orphan, Move, ReadReply
<1>9. CASE ReadPlain \/ ReadTls \/ ReadEarly \/ Rearm \/ WriteEarly \/ More \/ SendTls \/ SendPlain \/ Sent
  <2>1. io.eh # None
    BY <1>0, <1>9 DEF ReadPlain, ReadTls, ReadEarly, Rearm, WriteEarly, More, SendTls, SendPlain,
      Sent, Control
  <2>2. ReadPlain \/ ReadTls \/ Rearm \/ More \/ SendTls => Old \/ Own
    BY <1>a, <1>c, <1>d DEF ReadPlain, ReadTls, Rearm, More, SendTls
  <2>3. ReadEarly \/ WriteEarly => Old \/ Own
    BY <1>a, <1>c, <1>d DEF ReadEarly, WriteEarly, Handshake
  <2>4. SendPlain \/ Sent => Old \/ Own
    BY <1>a, <1>c, <1>d, <1>e DEF SendPlain, Sent
  <2>5. QED  BY <1>9, <2>1, <2>2, <2>3, <2>4
<1>10. QED
  BY <1>1, <1>2, <1>3, <1>4, <1>5, <1>6, <1>7, <1>8, <1>9
  DEF OtherNext, vars, threads, Loop, Write, MarkWrite, WriteBack, WriteBackPoll, SocketWrite,
      PeerSends, PeerBreaks

\* A list of numbers without one of them.
Polls(G) == [fd : G, events : SUBSET All]
Visits(G) == [fd : G, revents : SUBSET Events]

\* A list of elements of a set is one of any other set they are in.
LEMMA ListOf ==
  ASSUME NEW S, NEW T, NEW s \in Seq(S), \A i \in 1..Len(s) : s[i] \in T
  PROVE  s \in Seq(T)
<1>1. Len(s) \in Nat /\ s \in [1..Len(s) -> S] /\ DOMAIN s = 1..Len(s)  OBVIOUS
<1>2. s \in [1..Len(s) -> T]  BY <1>1
<1>3. QED  BY <1>1, <1>2, SeqDef

\* The numbers of the poll set were there before, or the IO thread registers one.
LEMMA PollNumbers ==
  ASSUME InductiveInvariant, [OtherNext]_vars, NEW G \in SUBSET Fd,
         poll_set \in Seq(Polls(G)), MakePoll => conn[maker.conn].sfd \in G \cup {None}
  PROVE  poll_set' \in Seq(Polls(G))
<1> USE EngineAssumption
<1>0. /\ EngineTypes /\ ThreadTypes /\ ConnTypes /\ Control /\ Making /\ io \in IoThread
  BY DEF InductiveInvariant, TypeOK, ThreadTypes
<1>1. Len(poll_set) \in Nat  BY <1>0 DEF EngineTypes
<1>2. ASSUME NEW f \in Fd, Polled(f) # 0 PROVE RemoveAt(poll_set, Polled(f)) \in Seq(Polls(G))
  <2>1. Polled(f) \in 1..Len(poll_set)  BY <1>0, <1>1, <1>2, PolledIndex
  <2>2. QED  BY <2>1, RemoveAtType
<1>3. ASSUME NEW f \in Fd, NEW flags, UpdatePoll(f, flags) PROVE poll_set' \in Seq(Polls(G))
  <2>1. CASE Polled(f) = 0  BY <1>3, <2>1 DEF UpdatePoll
  <2>2. CASE Polled(f) # 0
    <3> DEFINE t == [poll_set EXCEPT ![Polled(f)].events = flags \cap All]
    <3>1. poll_set \in [1..Len(poll_set) -> Polls(G)]  BY <1>1
    <3>2. \A i \in 1..Len(poll_set) : [poll_set[i] EXCEPT !.events = flags \cap All] \in Polls(G)
      BY <3>1 DEF Polls
    <3>3. t \in [1..Len(poll_set) -> Polls(G)]  BY <3>1, <3>2
    <3>4. poll_set' = t  BY <1>3, <2>2 DEF UpdatePoll
    <3> HIDE DEF t
    <3>5. t \in Seq(Polls(G))  BY <1>1, <3>3, SeqDef
    <3>6. QED  BY <3>4, <3>5
  <2>3. QED  BY <2>1, <2>2
<1>4. CASE MakeEntry
  <2>1. maker.conn \in Conn  BY <1>0, <1>4 DEF MakeEntry, ThreadTypes, Resting
  <2>2. conn[maker.conn].sfd \in Fd \cup {None}  BY <1>0, <2>1 DEF ConnTypes, Members
  <2>3. QED  BY <1>2, <1>4, <2>2 DEF MakeEntry, RegisterEntry, engine
<1>5. CASE MakePoll
  <2>1. CASE conn[maker.conn].sfd = None  BY <1>5, <2>1 DEF MakePoll, engine
  <2>2. CASE conn[maker.conn].sfd \in G
    <3>1. [fd |-> conn[maker.conn].sfd, events |-> All \cap All] \in Polls(G)
      BY <2>2 DEF Polls
    <3>2. conn[maker.conn].sfd # None  BY <2>2
    <3>3. QED  BY <1>5, <3>1, <3>2 DEF MakePoll, RegisterPoll
  <2>3. QED  BY <1>5, <2>1, <2>2
<1>6. CASE WriteBackPoll
  <2>1. writer.fd \in Fd  BY <1>0, <1>6 DEF WriteBackPoll, ThreadTypes, Resting
  <2>2. QED  BY <1>3, <1>6, <2>1 DEF WriteBackPoll
<1>7. CASE UpdatePolled \/ ClearPoll
  <2>1. fd \in Fd  BY <1>0, <1>7, AtWork DEF UpdatePolled, ClearPoll, Control
  <2>2. QED  BY <1>3, <1>7, <2>1 DEF UpdatePolled, ClearPoll, engine
<1>8. CASE Check
  <2>1. fd \in Fd  BY <1>0, <1>8, AtWork DEF Check, Control
  <2>2. QED  BY <1>2, <1>8, <2>1 DEF Check, RemoveSocket, engine
<1>9. CASE UNCHANGED poll_set  BY <1>9
<1>10. ASSUME NEW c \in Conn, Construct(c) PROVE UNCHANGED poll_set
  BY <1>10 DEF Construct, Constructed
<1>11. RetryConnect => UNCHANGED poll_set  BY Reconnecting
<1>12. QED
  BY <1>4, <1>5, <1>6, <1>7, <1>8, <1>9, <1>10, <1>11
  DEF OtherNext, vars, threads, engine, Loop, Make, Write, MarkWrite, WriteBack, SocketWrite,
      PeerSends, PeerBreaks, Poll, Visit, HandleError, Continue, Update, Erase,
      ClearLoad, ClearStore, ReadPlain, ReadTls, ReadEarly, Rearm, WriteEarly, Move,
      SendPlain, More, SendTls, Sent, Close, ReadReply, ReadClosesOther, TimeOut,
      RetryClose, UpdateEntry, EraseEntry, Delete, RetryDelete, DeleteSocket,
      ReadOrphan, WriteOrphan, Orphan

\* The numbers that the thread visits were among them, or in the poll set.
LEMMA ReadyNumbers ==
  ASSUME InductiveInvariant, [OtherNext]_vars, NEW G \in SUBSET Fd,
         poll_set \in Seq(Polls(G)), io.ready \in Seq(Visits(G))
  PROVE  io'.ready \in Seq(Visits(G))
<1>0. io \in IoThread /\ EngineTypes /\ io' \in IoThread
  BY IoTypeStep DEF InductiveInvariant, TypeOK, ThreadTypes
<1>1. CASE io'.ready = io.ready  BY <1>1
<1>2. CASE io.ready # <<>> /\ io' = Skip
  <2>1. io'.ready = Tail(io.ready)  BY <1>0, <1>2 DEF Skip, IoThread
  <2>2. QED  BY <1>2, <2>1, HeadTailProperties
<1>3. CASE Poll
  <2>1. PICK reports \in [DOMAIN poll_set -> SUBSET Events], last \in DOMAIN poll_set :
          io' = [io EXCEPT !.pc = "visit",
                   !.ready = [i \in 1..last |-> [fd |-> poll_set[i].fd, revents |-> reports[i]]]]
    BY <1>3 DEF Poll
  <2> DEFINE s == [i \in 1..last |-> [fd |-> poll_set[i].fd, revents |-> reports[i]]]
  <2>2. DOMAIN poll_set = 1..Len(poll_set) /\ Len(poll_set) \in Nat  BY <1>0 DEF EngineTypes
  <2>3. \A i \in 1..last : i \in DOMAIN poll_set  BY <2>2
  <2>4. \A i \in 1..Len(poll_set) : poll_set[i] \in Polls(G)  BY ElementOfSeq
  <2>5. s \in [1..last -> Visits(G)]  BY <2>2, <2>3, <2>4 DEF Polls, Visits
  <2>6. last \in Nat  BY <2>2
  <2>7. io'.ready = s  BY <1>0, <2>1 DEF IoThread
  <2> HIDE DEF s
  <2>8. s \in Seq(Visits(G))  BY <2>5, <2>6, SeqDef
  <2>9. QED  BY <2>7, <2>8
<1>4. CASE Visit
  <2>1. Looping.ready = <<>> /\ <<>> \in Seq(Visits(G))  BY DEF Looping
  <2>2. QED  BY <1>1, <1>2, <1>4, <2>1, Visited
<1>5. QED  BY <1>1, <1>2, <1>3, <1>4, Keeps DEF Stays, Drops

\* The number of a connection only grows, and the one being opened has one.
LEMMA StillApart ==
  ASSUME InductiveInvariant, [OtherNext]_vars, NEW c \in Conn,
         conn'[c].nth = 0 \/ (opener'.pc # "rest" /\ opener'.conn = c)
  PROVE  /\ conn[c].nth = 0 \/ (opener.pc # "rest" /\ opener.conn = c)
         /\ ~Construct(c) /\ Apart(c) /\ ~Existing(c)
<1> USE EngineAssumption
<1>0. /\ EngineTypes /\ ThreadTypes /\ ConnTypes /\ Closing /\ Making /\ OpenedApart /\ Opening
      /\ UNCHANGED opener
  BY OpeningStays DEF InductiveInvariant, TypeOK, opening
<1>1. opener.pc # "rest" =>
        opener.conn \in Conn /\ conn[opener.conn].nth # 0
  <2>1. opener.pc # "rest" => opener.conn \in Conn /\ opener.fd \in Fd
    BY <1>0 DEF ThreadTypes, Resting
  <2>2. opener.pc # "rest" => conn[opener.conn].sfd # None
    BY <1>0, <2>1 DEF Opening
  <2>3. \A d \in Conn : conn[d].nth \in Nat  BY <1>0 DEF ConnTypes, Members
  <2>4. QED  BY <1>0, <2>1, <2>2, <2>3 DEF Making
<1>2. ASSUME NEW d \in Conn, Construct(d) PROVE d # c
  <2>1. PICK f \in Available : Constructed(d, f)  BY <1>2 DEF Construct
  <2>2. conn'[d].nth = 1 /\ conn[d].nth = 0  BY <1>0, <2>1, Constructing
  <2>3. QED  BY <1>0, <1>1, <2>2
<1>3. CASE conn'[c].nth = 0
  <2>1. ASSUME NEW d \in Conn, Construct(d) PROVE conn[c].nth = 0
    <3>1. PICK f \in Available : Constructed(d, f)  BY <2>1 DEF Construct
    <3>2. conn'[c] = conn[c]  BY <1>0, <1>2, <2>1, <3>1 DEF Constructed, ConnTypes
    <3>3. QED  BY <1>3, <3>2
  <2>2. ASSUME Close PROVE conn[c].nth = 0
    <3>1. conn'[c].nth = conn[c].nth  BY <1>0, <2>2 DEF Close, ConnTypes, Members
    <3>2. QED  BY <1>3, <3>1
  <2>3. ASSUME RetryConnect PROVE conn[c].nth = 0
    <3>1. conn[io.victim].nth \in Nat /\ conn'[io.victim].nth = conn[io.victim].nth + 1
      BY <1>0, <2>3, Reconnecting DEF ConnTypes, Members
    <3>2. io.victim # c  BY <1>3, <3>1
    <3>3. conn'[c] = conn[c]  BY <2>3, <3>2, Reconnecting
    <3>4. QED  BY <1>3, <3>3
  <2>4. conn[c].nth = 0
    BY <1>3, <2>1, <2>2, <2>3, Descriptors DEF RetryClose, ReadOrphan, WriteOrphan, Orphan, Same
  <2>5. QED  BY <1>0, <1>2, <2>4 DEF OpenedApart, Existing
<1>4. CASE opener'.pc # "rest" /\ opener'.conn = c
  BY <1>0, <1>2, <1>4 DEF OpenedApart, Existing
<1>5. QED  BY <1>3, <1>4

LEMMA OpenedApartStep ==
  ASSUME InductiveInvariant, [OtherNext]_vars
  PROVE  OpenedApart'
<1> USE EngineAssumption, ConnectionAssumption
<1>0. /\ EngineTypes /\ ThreadTypes /\ ConnTypes /\ Control /\ Closing /\ Making /\ OpenedApart
      /\ Opening /\ io \in IoThread /\ UNCHANGED opener
  BY OpeningStays DEF InductiveInvariant, TypeOK, ThreadTypes, opening
<1> SUFFICES ASSUME NEW c \in Conn,
                    conn'[c].nth = 0 \/ (opener'.pc # "rest" /\ opener'.conn = c)
             PROVE  Apart(c)'
  BY DEF OpenedApart
<1>a. Apart(c) /\ ~Existing(c) /\ ~Construct(c)  BY StillApart
<1>1. ASSUME NEW f \in Fd, fds'[f] # None, fds'[f].conn = c
      PROVE  opener'.pc = "poll" /\ opener'.conn = c /\ opener'.fd = f
  <2>1. fds[f] # None /\ fds[f].conn = c
    <3>1. ~(MakeEntry /\ fds'[f] = Entry(maker.conn, conn[maker.conn].nth, All))
      BY <1>1, <1>a DEF Apart, Entry
    <3>2. ~(WriteBack /\ fds'[f] = writer.entry)
      BY <1>1, <1>a DEF Apart, WriteBack
    <3>3. ~(Update /\ fds'[f] = Entry(c0, io.eh.nth, io.flags))
      BY <1>0, <1>1, <1>a DEF Apart, Update, Control, Entry
    <3>4. QED  BY <1>1, <3>1, <3>2, <3>3, EntrySteps
  <2>2. QED  BY <1>0, <1>a, <2>1 DEF Apart
<1>2. io'.eh # None => c0' # c
  <2>1. CASE Visit /\ io'.eh # None
    <3>1. Skip.eh = None \/ io.ready = <<>>  BY <1>0, Skipping
    <3>2. /\ io.ready # <<>> /\ fd \in Fd /\ fds[fd] # None
          /\ io'.eh = [conn |-> fds[fd].conn, nth |-> fds[fd].nth]
      BY <2>1, <3>1, Visited DEF Looping
    <3>3. c0' = fds[fd].conn  BY <3>2 DEF c0
    <3>4. 1 \in 1..Len(io.ready) /\ fd = io.ready[1].fd
      BY <1>0, <3>2 DEF IoThread, fd
    <3>5. QED  BY <1>0, <1>a, <3>2, <3>3, <3>4 DEF Apart, Opening
  <2>2. CASE Poll
    BY <1>0, <2>2 DEF Poll, IoThread, Control
  <2>3. CASE Stays  BY <1>a, <2>3 DEF Stays, Apart, c0
  <2>4. QED  BY <2>1, <2>2, <2>3, Keeps DEF Drops
<1>3. io'.victim # c
  BY <1>a, Victims DEF Apart
<1>4. maker'.conn # c
  <2>1. ASSUME NEW d \in Conn, Construct(d) PROVE maker'.conn = d  BY <2>1 DEF Construct
  <2>2. CASE MakeEntry
    <3>1. maker'.conn = maker.conn  BY <1>0, <2>2 DEF MakeEntry, ThreadTypes, Resting
    <3>2. QED  BY <1>a, <3>1 DEF Apart
  <2>3. CASE MakePoll  BY <2>3 DEF MakePoll, Resting
  <2>4. CASE RetryConnect
    <3>1. maker'.conn = io.victim  BY <2>4, Reconnecting
    <3>2. QED  BY <1>a, <3>1 DEF Apart
  <2>5. QED  BY <1>a, <2>1, <2>2, <2>3, <2>4, MakesAlone DEF Apart
<1>5. /\ writer'.pc # "rest" => writer'.conn # c
      /\ writer'.pc \in {"copied", "poll"} => writer'.entry.conn # c
  <2>1. ASSUME NEW d \in Conn, SocketWrite(d)
        PROVE  writer'.conn = d /\ d # c /\ writer'.pc = "mark"
    <3>1. conn[d].sfd # None /\ opener.conn # d /\ writer' = [pc |-> "mark", conn |-> d]
      BY <2>1 DEF SocketWrite
    <3>2. conn[d].nth # 0  BY <1>0, <3>1 DEF Making
    <3>3. QED  BY <3>1, <3>2, StillApart
  <2>2. CASE MarkWrite
    <3> DEFINE f == conn[writer.conn].sfd
               s == [fds[f] EXCEPT !.flags = @ \cup {"write"}]
    <3>1. writer.conn \in Conn /\ writer.pc = "mark" /\ writer.conn # c
      BY <1>0, <1>a, <2>2 DEF MarkWrite, ThreadTypes, Resting, Apart
    <3>2. f \in Fd \cup {None}  BY <1>0, <3>1 DEF ConnTypes, Members
    <3>3. CASE writer' = Resting  BY <3>3 DEF Resting
    <3>4. CASE /\ f # None /\ fds[f] # None
               /\ writer' = [pc |-> "copied", conn |-> writer.conn, fd |-> f, entry |-> s]
      <4>1. s.conn = fds[f].conn  BY <1>0, <3>2, <3>4 DEF EngineTypes, Entries
      <4>2. fds[f].conn # c
        BY <1>0, <1>a, <3>1, <3>2, <3>4 DEF Apart, Opening
      <4> HIDE DEF s
      <4>3. QED  BY <3>1, <3>4, <4>1, <4>2
    <3>5. QED  BY <2>2, <3>3, <3>4 DEF MarkWrite
  <2>3. CASE WriteBack \/ WriteBackPoll
    BY <1>0, <1>a, <2>3 DEF WriteBack, WriteBackPoll, ThreadTypes, Resting, Apart
  <2>4. CASE UNCHANGED writer  BY <1>a, <2>4 DEF Apart
  <2>5. ASSUME NEW d \in Conn, Construct(d) PROVE UNCHANGED writer
    BY <2>5 DEF Construct, Constructed
  <2>6. QED
    BY <2>1, <2>2, <2>3, <2>4, <2>5
    DEF OtherNext, vars, threads, Loop, Make, MakeEntry, MakePoll, Write, Poll, Visit, HandleError,
      Continue, Check, Erase, Update, UpdatePolled, ClearLoad, ClearStore, ClearPoll, ReadOrphan,
      WriteOrphan, Orphan, ReadPlain, ReadTls, ReadEarly, Rearm, WriteEarly, Move, SendPlain,
      More, SendTls, Sent, Delete, Close, RetryDelete, RetryConnect, ReadReply, ReadClosesOther,
      TimeOut, RetryClose, PeerSends, PeerBreaks
<1>6. QED  BY <1>1, <1>2, <1>3, <1>4, <1>5 DEF Apart

LEMMA OpeningStep ==
  ASSUME InductiveInvariant, [OtherNext]_vars
  PROVE  Opening'
<1> USE EngineAssumption, ConnectionAssumption
<1>0. /\ EngineTypes /\ ThreadTypes /\ ConnTypes /\ Control /\ Closing /\ Making /\ OpenedApart
      /\ Opening /\ io \in IoThread /\ io' \in IoThread /\ EngineTypes' /\ UNCHANGED opener
  BY OpeningStays, TypeStep, IoTypeStep DEF InductiveInvariant, TypeOK, ThreadTypes, opening
<1> SUFFICES ASSUME opener.pc # "rest" PROVE Opening'
  BY <1>0 DEF Opening
<1> DEFINE o == opener.conn
           g == opener.fd
           G == Fd \ {g}
<1>1. /\ o \in Conn /\ g \in Fd /\ conn[o].sfd = g /\ opened[g] = o /\ g # None /\ o # None
      /\ Apart(o) /\ ~Existing(o)
      /\ \A c \in Conn \ {o} : conn[c].sfd # g
  BY <1>0 DEF ThreadTypes, Resting, Opening, OpenedApart, Existing
<1>2. \A f \in Available : f # g  BY <1>1 DEF Available
<1>3. io.ready # <<>> => fd # g
  <2>1. io.ready # <<>> => 1 \in 1..Len(io.ready) /\ fd = io.ready[1].fd
    BY <1>0 DEF IoThread, fd
  <2>2. QED  BY <1>0, <2>1 DEF Opening
<1>4. conn'[o].sfd = g
  BY <1>1, LetsGo DEF Apart
<1>5. ASSUME NEW f, CloseDescriptor(f, None) \/ \E c : CloseDescriptor(f, c), f # g
      PROVE  opened'[g] = o
  BY <1>0, <1>1, <1>5 DEF CloseDescriptor, EngineTypes
<1>6. opened'[g] = o /\ \A c \in Conn \ {o} : conn'[c].sfd # g
  <2>1. ASSUME NEW c \in Conn, Construct(c) PROVE opened'[g] = o /\ \A d \in Conn \ {o} : conn'[d].sfd # g
    <3>1. PICK f \in Available : Constructed(c, f)  BY <2>1 DEF Construct
    <3>2. /\ f # g /\ opened' = [opened EXCEPT ![f] = c] /\ conn'[c].sfd = f
      BY <1>0, <1>2, <3>1, Constructing
    <3>3. \A d \in Conn \ {c} : conn'[d] = conn[d]  BY <1>0, <3>1 DEF Constructed, ConnTypes
    <3>4. QED  BY <1>0, <1>1, <3>2, <3>3 DEF EngineTypes
  <2>2. CASE Close
    <3>1. io.victim \in Conn /\ io.victim # o
      BY <1>0, <1>1, <2>2 DEF Close, Closing, Deleting, Apart
    <3>2. conn[io.victim].sfd # g /\ CloseDescriptor(conn[io.victim].sfd, io.victim)
      BY <1>1, <2>2, <3>1 DEF Close
    <3>3. \A d \in Conn \ {o} : conn'[d].sfd # g
      BY <1>0, <1>1, <2>2, <3>1 DEF Close, ConnTypes, Members
    <3>4. QED  BY <1>5, <3>2, <3>3
  <2>3. ASSUME NEW c \in Conn, RetryClose(c) PROVE opened'[g] = o /\ \A d \in Conn \ {o} : conn'[d].sfd # g
    <3>1. c # o  BY <1>1, <2>3 DEF RetryClose
    <3>2. conn[c].sfd # g /\ CloseDescriptor(conn[c].sfd, c) /\ UNCHANGED conn
      BY <1>1, <2>3, <3>1 DEF RetryClose
    <3>3. QED  BY <1>1, <1>5, <3>2
  <2>4. CASE RetryConnect
    <3> DEFINE c == io.victim
    <3>1. c \in Conn /\ c # o /\ \A d \in Conn \ {c} : conn'[d] = conn[d]
      BY <1>1, <2>4, Reconnecting DEF Apart
    <3>2. IF conn'[c].sfd = None THEN UNCHANGED opened
          ELSE /\ opened[conn'[c].sfd] = None
               /\ opened' = [opened EXCEPT ![conn'[c].sfd] = c]
      BY <2>4, Reconnecting
    <3>3. conn'[c].sfd # g  BY <1>1, <3>2
    <3>4. opened'[g] = o
      <4>1. CASE conn'[c].sfd = None  BY <1>1, <3>2, <4>1
      <4>2. CASE conn'[c].sfd # None
        <5>1. opened' = [opened EXCEPT ![conn'[c].sfd] = c]  BY <3>2, <4>2
        <5>2. QED  BY <1>0, <1>1, <3>3, <5>1 DEF EngineTypes
      <4>3. QED  BY <4>1, <4>2
    <3>5. QED  BY <1>1, <3>1, <3>3, <3>4
  <2>5. CASE ReadOrphan \/ WriteOrphan
    <3>1. io.ready # <<>>  BY <1>0, <2>5 DEF ReadOrphan, WriteOrphan, Control
    <3>2. CloseDescriptor(fd, c0) /\ UNCHANGED conn
      BY <2>5 DEF ReadOrphan, WriteOrphan, Orphan
    <3>3. QED  BY <1>1, <1>3, <1>5, <3>1, <3>2
  <2>6. CASE UNCHANGED opened /\ \A c \in Conn : Same(c)
    BY <1>1, <2>6 DEF Same
  <2>7. QED  BY <2>1, <2>2, <2>3, <2>4, <2>5, <2>6, Descriptors
<1>7. fds'[g] = None <=> fds[g] = None
  <2>1. ~(MakeEntry /\ g = conn[maker.conn].sfd)
    <3>1. MakeEntry => maker.conn \in Conn /\ maker.conn # o
      BY <1>0, <1>1 DEF MakeEntry, ThreadTypes, Resting, Apart
    <3>2. QED  BY <1>1, <3>1
  <2>2. ~(Erase /\ g = fd)
    <3>1. Erase => io.ready # <<>>  BY <1>0 DEF Erase, Control
    <3>2. QED  BY <1>3, <3>1
  <2>3. \A e \in Entries : e # None  BY DEF Entries
  <2>4. WriteBack => writer.entry \in Entries  BY <1>0 DEF WriteBack, ThreadTypes, Resting
  <2>5. Update => Entry(c0, io.eh.nth, io.flags) # None
    <3>1. Update => c0 \in Conn /\ io.eh.nth \in 1..MaxRetries + 1 /\ io.flags \in SUBSET Flags
      BY <1>0, AtWork DEF Update, Control, IoThread
    <3>2. QED  BY <3>1 DEF Entry
  <2>6. QED  BY <1>1, <2>1, <2>2, <2>3, <2>4, <2>5, EntrySteps
<1>8. poll_set \in Seq(Polls(G)) /\ io.ready \in Seq(Visits(G))
  <2>1. poll_set \in Seq(Polls(Fd)) /\ io.ready \in Seq(Visits(Fd))
    BY <1>0 DEF EngineTypes, IoThread, Polls, Visits
  <2>2. \A i \in 1..Len(poll_set) : poll_set[i] \in Polls(Fd) /\ poll_set[i].fd # g
    BY <1>0, <2>1, ElementOfSeq DEF Opening
  <2>3. \A i \in 1..Len(io.ready) : io.ready[i] \in Visits(Fd) /\ io.ready[i].fd # g
    BY <1>0, <2>1, ElementOfSeq DEF Opening
  <2>4. \A i \in 1..Len(poll_set) : poll_set[i] \in Polls(G)  BY <2>2 DEF Polls
  <2>5. \A i \in 1..Len(io.ready) : io.ready[i] \in Visits(G)  BY <2>3 DEF Visits
  <2>6. QED  BY <2>1, <2>4, <2>5, ListOf
<1>9. MakePoll => conn[maker.conn].sfd \in G \cup {None}
  <2>1. MakePoll => maker.conn \in Conn /\ maker.conn # o
    BY <1>0, <1>1 DEF MakePoll, ThreadTypes, Resting, Apart
  <2>2. QED  BY <1>0, <1>1, <2>1 DEF ConnTypes, Members
<1>10. poll_set' \in Seq(Polls(G)) /\ io'.ready \in Seq(Visits(G))
  BY <1>8, <1>9, PollNumbers, ReadyNumbers
<1>11. /\ \A i \in 1..Len(poll_set') : poll_set'[i].fd # g
       /\ \A i \in 1..Len(io'.ready) : io'.ready[i].fd # g
  <2>1. \A i \in 1..Len(poll_set') : poll_set'[i] \in Polls(G)  BY <1>10, ElementOfSeq
  <2>2. \A i \in 1..Len(io'.ready) : io'.ready[i] \in Visits(G)  BY <1>10, ElementOfSeq
  <2>3. QED  BY <2>1, <2>2 DEF Polls, Visits
<1>12. QED  BY <1>0, <1>4, <1>6, <1>7, <1>11 DEF Opening

\* What another thread opens is a connection and a number that nobody knows.
LEMMA Opens ==
  ASSUME InductiveInvariant, NEW c \in Conn, Open(c), ~crossed'
  PROVE  \E f \in Available :
           /\ f \in Fd /\ f # None /\ opened[f] = None /\ fds[f] = None
           /\ \A i \in 1..Len(poll_set) : poll_set[i].fd # f
           /\ \A i \in 1..Len(io.ready) : io.ready[i].fd # f
           /\ io.eh # None => fd # f
           /\ \A d \in Conn : conn[d].sfd # f
           /\ Constructed(c, f) /\ Apart(c)
           /\ opener.pc = "rest" /\ opener' = [pc |-> "entry", conn |-> c, fd |-> f]
           /\ ~crossed /\ UNCHANGED <<io, maker>>
<1> USE EngineAssumption
<1>1. PICK f \in Available :
        /\ Constructed(c, f) /\ opener' = [pc |-> "entry", conn |-> c, fd |-> f]
        /\ crossed' = (crossed \/ Known(f))
  BY DEF Open
<1>2. f \in Fd /\ f # None /\ opened[f] = None  BY DEF Available
<1>3. ~crossed /\ ~Known(f)  BY <1>1
<1>4. poll_set \in Seq([fd : Fd, events : SUBSET All]) /\ io.ready \in Seq([fd : Fd, revents : SUBSET Events])
  BY DEF InductiveInvariant, TypeOK, EngineTypes, ThreadTypes, IoThread
<1>5. DOMAIN poll_set = 1..Len(poll_set) /\ DOMAIN io.ready = 1..Len(io.ready)  BY <1>4
<1>6. io.eh # None => 1 \in 1..Len(io.ready) /\ fd = io.ready[1].fd
  BY <1>4 DEF InductiveInvariant, Control, fd
<1>7. Apart(c)
  BY <1>1 DEF InductiveInvariant, OpenedApart, Constructed
<1>8. opener.pc = "rest" /\ UNCHANGED <<io, maker>>  BY DEF Open, Resting
<1>9. QED  BY <1>1, <1>2, <1>3, <1>5, <1>6, <1>7, <1>8 DEF Known

\* Its registration changes nothing but the entry of its descriptor, and then the poll set.
LEMMA Registering ==
  ASSUME InductiveInvariant, OpenOn
  PROVE  /\ opener.conn \in Conn /\ opener.fd \in Fd /\ opener.fd # None
         /\ conn[opener.conn].sfd = opener.fd /\ opened[opener.fd] = opener.conn
         /\ conn[opener.conn].nth # 0 /\ Apart(opener.conn)
         /\ io.eh # None => fd # opener.fd
         /\ \A c \in Conn \ {opener.conn} : conn[c].sfd # opener.fd
         /\ \/ /\ opener.pc = "entry" /\ opener' = [opener EXCEPT !.pc = "poll"]
               /\ fds[opener.fd] = None /\ UNCHANGED poll_set
               /\ fds' = [fds EXCEPT ![opener.fd] =
                            Entry(opener.conn, conn[opener.conn].nth, All)]
            \/ /\ opener.pc = "poll" /\ opener' = Resting /\ fds[opener.fd] # None
               /\ RegisterPoll(opener.fd, All)
         /\ UNCHANGED <<opened, conn, io, maker, crossed, writer, writes, world, history>>
<1> USE EngineAssumption
<1>0. EngineTypes /\ ConnTypes /\ ThreadTypes /\ Opening /\ OpenedApart /\ Making /\ Control
  BY DEF InductiveInvariant, TypeOK
<1>1. opener.pc # "rest" /\ opener \in [pc : {"entry", "poll"}, conn : Conn, fd : Fd]
  BY <1>0 DEF OpenOn, OpenEntry, OpenPoll, ThreadTypes, Resting
<1>2. opener.conn \in Conn /\ opener.fd \in Fd /\ opener.fd # None  BY <1>1
<1>3. /\ conn[opener.conn].sfd = opener.fd /\ opened[opener.fd] = opener.conn
      /\ \A c \in Conn \ {opener.conn} : conn[c].sfd # opener.fd
      /\ \A i \in 1..Len(io.ready) : io.ready[i].fd # opener.fd
      /\ opener.pc = "entry" <=> fds[opener.fd] = None
      /\ Apart(opener.conn)
  BY <1>0, <1>1, <1>2 DEF Opening, OpenedApart
<1>4. conn[opener.conn].nth # 0
  <2>1. conn[opener.conn].nth \in Nat  BY <1>0, <1>2 DEF ConnTypes, Members
  <2>2. QED  BY <1>0, <1>2, <1>3, <2>1 DEF Making
<1>5. io.eh # None => fd # opener.fd
  <2>1. io.ready \in Seq([fd : Fd, revents : SUBSET Events])  BY <1>0 DEF ThreadTypes, IoThread
  <2>2. io.eh # None => 1 \in 1..Len(io.ready) /\ fd = io.ready[1].fd
    BY <1>0, <2>1 DEF Control, fd
  <2>3. QED  BY <1>3, <2>2
<1>6. CASE OpenEntry
  BY <1>2, <1>3, <1>4, <1>5, <1>6 DEF OpenEntry, RegisterEntry
<1>7. CASE OpenPoll
  <2>1. opener.pc = "poll" /\ fds[opener.fd] # None  BY <1>3, <1>7 DEF OpenPoll
  <2>2. QED  BY <1>2, <1>3, <1>4, <1>5, <1>7, <2>1 DEF OpenPoll, RegisterPoll
<1>8. QED  BY <1>6, <1>7 DEF OpenOn

\* The thread that opens a connection keeps the types.
LEMMA OpenTypes ==
  ASSUME InductiveInvariant, OpenNext, ~crossed'
  PROVE  TypeOK'
<1> USE EngineAssumption, ConnectionAssumption
<1>0. EngineTypes /\ ConnTypes /\ ThreadTypes /\ WorldTypes
  BY DEF InductiveInvariant, TypeOK
<1>1. ASSUME NEW c \in Conn, Open(c) PROVE TypeOK'
  <2>1. PICK f \in Available :
          /\ Constructed(c, f) /\ f \in Fd /\ UNCHANGED <<io, maker>>
          /\ opener' = [pc |-> "entry", conn |-> c, fd |-> f]
    BY <1>1, Opens
  <2>2. EngineTypes' /\ ConnTypes'  BY <1>0, <2>1, ConstructedTypes
  <2>3. UNCHANGED <<writer, world, history>>  BY <2>1 DEF Constructed
  <2>4. ThreadTypes'  BY <1>0, <2>1, <2>3 DEF ThreadTypes
  <2>5. WorldTypes'
    <3>1. crossed' \in BOOLEAN  BY <1>1 DEF Open
    <3>2. QED  BY <1>0, <2>3, <3>1 DEF WorldTypes, world, history
  <2>6. QED  BY <2>2, <2>4, <2>5 DEF TypeOK
<1>2. ASSUME OpenOn PROVE TypeOK'
  <2>1. EngineTypes'
    <3>1. Entry(opener.conn, conn[opener.conn].nth, All) \in Entries
      <4>1. conn[opener.conn].nth \in 1..MaxRetries + 1
        BY <1>0, <1>2, Registering DEF ConnTypes, Members
      <4>2. QED  BY <1>2, <4>1, Registering DEF Entry, Entries, All, Flags
    <3>2. All \in SUBSET Flags  BY DEF All, Flags
    <3>3. OpenEntry => RegisterEntry(opener.fd, Entry(opener.conn, conn[opener.conn].nth, All))
      BY DEF OpenEntry
    <3>4. OpenPoll => RegisterPoll(opener.fd, All)  BY DEF OpenPoll
    <3>5. opener.fd \in Fd  BY <1>2, Registering
    <3>6. QED  BY <1>0, <1>2, <3>1, <3>2, <3>3, <3>4, <3>5, EngineSteps DEF OpenOn
  <2>2. ConnTypes' /\ WorldTypes'
    BY <1>0, <1>2, Registering DEF ConnTypes, WorldTypes, world, history
  <2>3. opener' = Resting \/ opener' \in [pc : {"entry", "poll"}, conn : Conn, fd : Fd]
    BY <1>0, <1>2, Registering DEF ThreadTypes, Resting
  <2>4. ThreadTypes'  BY <1>0, <1>2, <2>3, Registering DEF ThreadTypes
  <2>5. QED  BY <2>1, <2>2, <2>4 DEF TypeOK
<1>3. QED  BY <1>1, <1>2 DEF OpenNext

\* A connection and a number that nobody knew disturb nothing.
LEMMA OpenStep ==
  ASSUME InductiveInvariant, NEW c \in Conn, Open(c), ~crossed'
  PROVE  InductiveInvariant'
<1> USE EngineAssumption, ConnectionAssumption
<1>0. /\ EngineTypes /\ ConnTypes /\ ThreadTypes /\ Control /\ Closing /\ Making /\ OpenedApart
      /\ Owning /\ Serving /\ InUse /\ ClosesItsOwn /\ DeletionIsFinal /\ TypeOK'
  BY OpenTypes DEF InductiveInvariant, TypeOK, OpenNext
<1>1. PICK f \in Available :
        /\ f \in Fd /\ f # None /\ opened[f] = None /\ fds[f] = None
        /\ \A i \in 1..Len(poll_set) : poll_set[i].fd # f
        /\ \A i \in 1..Len(io.ready) : io.ready[i].fd # f
        /\ io.eh # None => fd # f
        /\ \A d \in Conn : conn[d].sfd # f
        /\ Constructed(c, f) /\ Apart(c)
        /\ opener.pc = "rest" /\ opener' = [pc |-> "entry", conn |-> c, fd |-> f]
        /\ ~crossed /\ UNCHANGED <<io, maker>>
  BY Opens
<1>2. /\ conn'[c].sfd = f /\ conn'[c].nth = 1 /\ conn[c].nth = 0
      /\ opened' = [opened EXCEPT ![f] = c] /\ opened'[f] = c
      /\ \A d \in Conn \ {c} : conn'[d] = conn[d]
      /\ UNCHANGED <<fds, poll_set, writer, raced, foreign>>
  BY <1>0, <1>1, Constructing DEF history
<1>3. \A g \in Fd \ {f} : opened'[g] = opened[g]  BY <1>0, <1>2 DEF EngineTypes
<1>4. io.victim # c /\ maker.conn # c /\ (io.eh # None => c0 # c)  BY <1>1 DEF Apart
<1>5. Control'  BY <1>0, <1>1 DEF Control
<1>6. Closing'
  <2>1. io.pc \in {"delete", "close", "retry", "connect"} =>
          io.victim \in Conn /\ conn'[io.victim] = conn[io.victim]
    BY <1>0, <1>2, <1>4 DEF Closing, Deleting
  <2>2. \A g : Final(g)' = Final(g)  BY <1>2 DEF Final, Marked
  <2>3. (Deleting' <=> Deleting) /\ (io.eh # None => c0' = c0)  BY <1>1 DEF Deleting, c0
  <2>4. QED  BY <1>0, <1>1, <2>1, <2>2, <2>3 DEF Closing
<1>7. Making'
  <2>1. maker.pc # "rest" => maker.conn \in Conn /\ conn'[maker.conn] = conn[maker.conn]
    BY <1>0, <1>2, <1>4 DEF ThreadTypes, Resting
  <2>2. \A d \in Conn : conn[d].sfd \in Fd \cup {None}  BY <1>0 DEF ConnTypes, Members
  <2>3. maker.pc # "rest" /\ conn[maker.conn].sfd # None =>
          opened'[conn[maker.conn].sfd] = opened[conn[maker.conn].sfd]
    BY <1>1, <1>3, <2>1, <2>2
  <2>4. \A d \in Conn : conn'[d].sfd # None => conn'[d].nth > 0
    BY <1>0, <1>2 DEF Making
  <2>5. io.eh # None => c0' = c0  BY <1>1 DEF c0
  <2>6. QED  BY <1>0, <1>1, <2>1, <2>3, <2>4, <2>5 DEF Making
<1>8. OpenedApart'
  <2> SUFFICES ASSUME NEW d \in Conn, conn'[d].nth = 0 \/ (opener'.pc # "rest" /\ opener'.conn = d)
               PROVE  Apart(d)'
    BY DEF OpenedApart
  <2>1. Apart(d)
    <3>1. CASE d = c  BY <1>1, <3>1
    <3>2. CASE d # c  BY <1>0, <1>1, <1>2, <3>2 DEF OpenedApart
    <3>3. QED  BY <3>1, <3>2
  <2>2. \A g \in Fd : ~(fds[g] # None /\ fds[g].conn = d)  BY <1>1, <2>1 DEF Apart
  <2>3. io.eh # None => c0' = c0  BY <1>1 DEF c0
  <2>4. QED  BY <1>1, <1>2, <2>1, <2>2, <2>3 DEF Apart
<1>9. Opening'  BY <1>1, <1>2 DEF Opening
<1>10. Owning'
  <2> SUFFICES ASSUME NEW d \in Conn \ raced, conn'[d].sfd # None
               PROVE  opened'[conn'[d].sfd] = d \/ (io.pc \in {"retry", "connect"} /\ io.victim = d)
    BY <1>1, <1>2 DEF Owning
  <2>1. CASE d = c  BY <1>2, <2>1
  <2>2. CASE d # c
    <3>1. conn'[d] = conn[d] /\ conn[d].sfd \in Fd \ {f}
      BY <1>0, <1>1, <1>2, <2>2 DEF ConnTypes, Members
    <3>2. QED  BY <1>0, <1>3, <3>1 DEF Owning
  <2>3. QED  BY <2>1, <2>2
<1>11. Serving'
  <2>1. io.eh # None => /\ c0 \in Conn /\ fd \in Fd \ {f} /\ c0' = c0 /\ fd' = fd
    BY <1>1, AtWork DEF c0, fd
  <2>2. io.eh # None => conn'[c0] = conn[c0] /\ opened'[fd] = opened[fd]
    BY <1>2, <1>3, <1>4, <2>1
  <2>3. io.eh # None => (Gone(c0, fd)' <=> Gone(c0, fd))  BY <2>1, <2>2 DEF Gone
  <2>4. QED  BY <1>0, <1>1, <1>2, <2>1, <2>2, <2>3 DEF Serving
<1>12. InUse'  BY <1>0, <1>1, <1>2 DEF InUse, c0, fd
<1>13. ClosesItsOwn'  BY <1>0, <1>2 DEF ClosesItsOwn
<1>14. DeletionIsFinal'
  <2> SUFFICES ASSUME NEW g \in Fd, Released(g)' PROVE Final(g)'  BY DEF DeletionIsFinal
  <2>1. fds[g] # None /\ fds[g].conn # c /\ fds[g].conn \in Conn
    BY <1>0, <1>1, <1>2 DEF Apart, Released, EngineTypes, Entries
  <2>2. Released(g)  BY <1>2, <2>1 DEF Released
  <2>3. QED  BY <1>0, <1>2, <2>2 DEF DeletionIsFinal, Final, Marked
<1>15. QED
  BY <1>0, <1>5, <1>6, <1>7, <1>8, <1>9, <1>10, <1>11, <1>12, <1>13, <1>14 DEF InductiveInvariant

\* Nor does its registration.
LEMMA OpenOnStep ==
  ASSUME InductiveInvariant, OpenOn, ~crossed'
  PROVE  InductiveInvariant'
<1> USE EngineAssumption, ConnectionAssumption
<1> DEFINE o == opener.conn
           g == opener.fd
<1>0. /\ EngineTypes /\ ConnTypes /\ ThreadTypes /\ Control /\ Closing /\ Making /\ OpenedApart
      /\ Opening /\ Owning /\ Serving /\ InUse /\ ClosesItsOwn /\ DeletionIsFinal /\ TypeOK'
  BY OpenTypes DEF InductiveInvariant, TypeOK, OpenNext
<1>1. /\ o \in Conn /\ g \in Fd /\ g # None /\ conn[o].sfd = g /\ opened[g] = o
      /\ conn[o].nth # 0 /\ Apart(o)
      /\ io.eh # None => fd # g
      /\ \A c \in Conn \ {o} : conn[c].sfd # g
      /\ UNCHANGED <<opened, conn, io, maker, writer, raced, foreign>>
  BY Registering DEF history
<1>2. \A f \in Fd \ {g} : fds'[f] = fds[f]
  BY <1>0, <1>1, Registering DEF RegisterPoll, EngineTypes
<1>3. fds'[g] # None /\ (opener.pc = "poll" => fds'[g] = fds[g])
      /\ (opener.pc = "entry" => fds[g] = None /\ fds'[g].conn = o)
  <2>1. CASE /\ opener.pc = "entry" /\ fds[g] = None
             /\ fds' = [fds EXCEPT ![g] = Entry(o, conn[o].nth, All)]
    <3>1. fds'[g] = Entry(o, conn[o].nth, All)  BY <1>0, <1>1, <2>1 DEF EngineTypes
    <3>2. conn[o].nth \in Nat  BY <1>0, <1>1 DEF ConnTypes, Members
    <3>3. Entry(o, conn[o].nth, All) # None  BY <1>1, <3>2 DEF Entry, All, Flags
    <3>4. QED  BY <2>1, <3>1, <3>3 DEF Entry
  <2>2. CASE opener.pc = "poll" /\ fds[g] # None /\ RegisterPoll(g, All)
    BY <2>2 DEF RegisterPoll
  <2>3. QED  BY <2>1, <2>2, Registering
<1>4. \/ opener.pc = "entry" /\ opener' = [opener EXCEPT !.pc = "poll"] /\ UNCHANGED poll_set
      \/ opener.pc = "poll" /\ opener' = Resting
  BY Registering
<1>5. \A f \in Fd \ {g} : Final(f)' = Final(f) /\ Released(f)' = Released(f)
  BY <1>1, <1>2 DEF Final, Released, Marked
<1>6. io.eh # None => c0' = c0 /\ fd' = fd  BY <1>1 DEF c0, fd
<1>7. Control'  BY <1>0, <1>1 DEF Control
<1>8. Closing'
  <2>1. io.pc \in {"close", "retry", "connect"} =>
          conn[io.victim].sfd \in Fd \ {g}
    BY <1>0, <1>1 DEF Closing, Deleting, Apart, ConnTypes, Members
  <2>2. Deleting' <=> Deleting  BY <1>1 DEF Deleting
  <2>3. QED  BY <1>0, <1>1, <1>5, <1>6, <2>1, <2>2 DEF Closing
<1>9. Making'  BY <1>0, <1>1, <1>6 DEF Making
<1>10. OpenedApart'
  <2> SUFFICES ASSUME NEW d \in Conn, conn'[d].nth = 0 \/ (opener'.pc # "rest" /\ opener'.conn = d)
               PROVE  Apart(d)'
    BY DEF OpenedApart
  <2>1. Apart(d)
    <3>1. CASE d = o  BY <1>1, <3>1
    <3>2. CASE d # o
      <4>1. conn[d].nth = 0
        BY <1>0, <1>1, <1>4, <3>2 DEF ThreadTypes, Resting
      <4>2. QED  BY <1>0, <4>1 DEF OpenedApart
    <3>3. QED  BY <3>1, <3>2
  <2>2. ASSUME NEW f \in Fd, fds'[f] # None, fds'[f].conn = d
        PROVE  opener'.pc = "poll" /\ opener'.conn = d /\ opener'.fd = f
    <3>1. d = o /\ f = g
      <4>1. CASE f # g  BY <1>2, <2>1, <2>2, <4>1 DEF Apart
      <4>2. CASE f = g /\ opener.pc = "poll"  BY <1>3, <2>1, <2>2, <4>2 DEF Apart
      <4>3. CASE f = g /\ opener.pc = "entry"  BY <1>3, <2>2, <4>3
      <4>4. QED  BY <1>4, <4>1, <4>2, <4>3
    <3>2. opener'.pc # "rest"
      <4>1. conn'[d].nth # 0  BY <1>1, <3>1
      <4>2. QED  BY <4>1
    <3>3. opener' = [opener EXCEPT !.pc = "poll"] /\ opener.pc = "entry"
      BY <1>4, <3>2 DEF Resting
    <3>4. opener \in [pc : {"entry", "poll"}, conn : Conn, fd : Fd]
      BY <1>0, <3>3 DEF ThreadTypes, Resting
    <3>5. QED  BY <3>1, <3>3, <3>4
  <2>3. QED  BY <1>1, <1>6, <2>1, <2>2 DEF Apart
<1>11. Opening'
  <2>1. CASE opener' = Resting  BY <2>1 DEF Opening, Resting
  <2>2. CASE /\ opener.pc = "entry" /\ opener' = [opener EXCEPT !.pc = "poll"]
             /\ UNCHANGED poll_set
    <3>1. opener \in [pc : {"entry", "poll"}, conn : Conn, fd : Fd]
      BY <1>0, <2>2 DEF ThreadTypes, Resting
    <3>2. opener'.pc = "poll" /\ opener'.conn = o /\ opener'.fd = g  BY <2>2, <3>1
    <3>3. QED  BY <1>0, <1>1, <1>3, <2>2, <3>2 DEF Opening
  <2>3. QED  BY <1>4, <2>1, <2>2
<1>12. Owning'  BY <1>0, <1>1 DEF Owning
<1>13. Serving'
  <2>1. io.eh # None => (Gone(c0, fd)' <=> Gone(c0, fd))  BY <1>1, <1>6 DEF Gone
  <2>2. QED  BY <1>0, <1>1, <1>6, <2>1 DEF Serving
<1>14. InUse'
  <2>1. io.eh # None => fd \in Fd \ {g}  BY <1>1, AtWork
  <2>2. QED  BY <1>0, <1>1, <1>2, <1>6, <2>1 DEF InUse
<1>15. ClosesItsOwn'  BY <1>0, <1>1 DEF ClosesItsOwn
<1>16. DeletionIsFinal'
  <2> SUFFICES ASSUME NEW f \in Fd, Released(f)' PROVE Final(f)'  BY DEF DeletionIsFinal
  <2>1. conn' = conn /\ raced' = raced  BY <1>1
  <2>2. CASE f = g /\ opener.pc = "entry"
    <3>1. fds'[f].conn = o /\ conn'[o].sfd = f  BY <1>1, <1>3, <2>1, <2>2
    <3>2. QED  BY <3>1 DEF Released
  <2>3. CASE f # g \/ opener.pc = "poll"
    <3>1. fds'[f] = fds[f]  BY <1>2, <1>3, <2>3
    <3>2. Released(f)  BY <2>1, <3>1 DEF Released
    <3>3. Final(f)  BY <1>0, <3>2 DEF DeletionIsFinal
    <3>4. QED  BY <2>1, <3>1, <3>3 DEF Final, Marked
  <2>4. QED  BY <1>4, <2>2, <2>3
<1>17. QED
  BY <1>0, <1>7, <1>8, <1>9, <1>10, <1>11, <1>12, <1>13, <1>14, <1>15, <1>16
  DEF InductiveInvariant

------------------------------------------------------------------------------
(* The poll set: a list in which each descriptor is at most once.             *)

Once(q) == \A i, j \in 1..Len(q) : q[i].fd = q[j].fd => i = j
Lists(q, f) == \E i \in 1..Len(q) : q[i].fd = f
Wants(q, f) == \E i \in 1..Len(q) : q[i].fd = f /\ "write" \in q[i].events

\* What is found in such a list.
LEMMA Finding ==
  ASSUME NEW q \in Seq([fd : Fd, events : SUBSET All]), Once(q), NEW f \in Fd
  PROVE  LET k == SelectInSeq(q, LAMBDA p : p.fd = f) IN
         /\ k # 0 <=> Lists(q, f)
         /\ k # 0 /\ "write" \in q[k].events <=> Wants(q, f)
         /\ k # 0 => k \in 1..Len(q) /\ q[k].fd = f
<1> DEFINE I == {i \in 1..Len(q) : q[i].fd = f}
           k == SelectInSeq(q, LAMBDA p : p.fd = f)
<1>1. Len(q) \in Nat  OBVIOUS
<1>2. k = IF I # {} THEN Min(I) ELSE 0  BY DEF SelectInSeq
<1> HIDE DEF k
<1>3. CASE I = {}
  <2>1. k = 0  BY <1>2, <1>3
  <2>2. QED  BY <1>3, <2>1 DEF Lists, Wants, k
<1>4. CASE I # {}
  <2>1. I \in SUBSET Nat  BY <1>1
  <2>2. Min(I) \in I  BY <1>4, <2>1, LeastNumber
  <2>3. k \in 1..Len(q) /\ q[k].fd = f /\ k # 0  BY <1>2, <1>4, <2>2
  <2>4. \A i \in 1..Len(q) : q[i].fd = f => i = k
    BY <2>3 DEF Once
  <2>5. Lists(q, f)  BY <2>3 DEF Lists
  <2>6. "write" \in q[k].events <=> Wants(q, f)  BY <2>3, <2>4 DEF Wants
  <2>7. QED  BY <2>3, <2>5, <2>6 DEF k
<1>5. QED  BY <1>3, <1>4

\* What Polled and Asked say of the poll set, before a step and after it.
LEMMA PollView ==
  ASSUME EngineTypes, Once(poll_set), NEW f \in Fd
  PROVE  /\ Polled(f) # 0 <=> Lists(poll_set, f)
         /\ Asked(f) <=> Wants(poll_set, f)
         /\ Polled(f) # 0 => Polled(f) \in 1..Len(poll_set) /\ poll_set[Polled(f)].fd = f
<1> USE DEF Polled, Asked, SelectInSeq
<1>1. poll_set \in Seq([fd : Fd, events : SUBSET All])  BY DEF EngineTypes
<1>2. QED  BY <1>1, Finding

\* The same after a step.
LEMMA PollViewNext ==
  ASSUME EngineTypes', Once(poll_set'), NEW f \in Fd
  PROVE  /\ Polled(f)' # 0 <=> Lists(poll_set', f)
         /\ Asked(f)' <=> Wants(poll_set', f)
<1> USE DEF Polled, Asked, SelectInSeq
<1>1. poll_set' \in Seq([fd : Fd, events : SUBSET All])  BY DEF EngineTypes
<1>2. QED  BY <1>1, Finding

\* ... and what the operations on it do.
LEMMA Appending ==
  ASSUME NEW q \in Seq([fd : Fd, events : SUBSET All]), Once(q), NEW g \in Fd, ~Lists(q, g),
         NEW e \in SUBSET All, NEW f \in Fd
  PROVE  LET r == Append(q, [fd |-> g, events |-> e]) IN
         /\ Once(r)
         /\ Lists(r, f) <=> Lists(q, f) \/ f = g
         /\ Wants(r, f) <=> Wants(q, f) \/ (f = g /\ "write" \in e)
<1> DEFINE n == Len(q)
           r == Append(q, [fd |-> g, events |-> e])
<1>1. n \in Nat /\ Len(r) = n + 1  OBVIOUS
<1>2. /\ \A i \in 1..n : r[i] = q[i]
      /\ r[n + 1] = [fd |-> g, events |-> e]
  OBVIOUS
<1>3. 1..Len(r) = 1..n \cup {n + 1} /\ n + 1 \notin 1..n  BY <1>1
<1>4. \A i \in 1..n : q[i].fd # g  BY DEF Lists
<1> HIDE DEF r
<1>5. Once(r)
  <2> SUFFICES ASSUME NEW i \in 1..Len(r), NEW j \in 1..Len(r), r[i].fd = r[j].fd PROVE i = j
    BY DEF Once
  <2>1. CASE i \in 1..n /\ j \in 1..n  BY <1>2, <2>1 DEF Once
  <2>2. CASE i = n + 1 /\ j \in 1..n  BY <1>2, <1>4, <2>2
  <2>3. CASE i \in 1..n /\ j = n + 1  BY <1>2, <1>4, <2>3
  <2>4. QED  BY <1>3, <2>1, <2>2, <2>3
<1>6. Lists(r, f) <=> Lists(q, f) \/ f = g
  BY <1>2, <1>3 DEF Lists
<1>7. Wants(r, f) <=> Wants(q, f) \/ (f = g /\ "write" \in e)
  BY <1>2, <1>3 DEF Wants
<1>8. QED  BY <1>5, <1>6, <1>7 DEF r

\* What overwriting the events of an entry leaves.
LEMMA Overwriting ==
  ASSUME NEW q \in Seq([fd : Fd, events : SUBSET All]), Once(q), NEW k \in 1..Len(q),
         NEW e \in SUBSET All, NEW f \in Fd
  PROVE  LET r == [q EXCEPT ![k].events = e] IN
         /\ Once(r)
         /\ Lists(r, f) <=> Lists(q, f)
         /\ Wants(r, f) <=> IF f = q[k].fd THEN "write" \in e ELSE Wants(q, f)
<1> DEFINE r == [q EXCEPT ![k].events = e]
           P == [fd : Fd, events : SUBSET All]
<1>1. Len(q) \in Nat /\ q \in [1..Len(q) -> P]
  <2> HIDE DEF P
  <2>1. q \in Seq(P)  BY DEF P
  <2>2. QED  BY <2>1
<1>2. Len(r) = Len(q)
  <2>1. DOMAIN r = 1..Len(q)  BY <1>1
  <2>2. \A i \in 1..Len(q) : q[i] \in P /\ [q[i] EXCEPT !.events = e] \in P  BY <1>1
  <2> HIDE DEF P
  <2>3. r \in [1..Len(q) -> P]  BY <1>1, <2>2 DEF P
  <2> HIDE DEF r
  <2>4. r \in Seq(P)  BY <1>1, <2>3, SeqDef
  <2>5. QED  BY <1>1, <2>1, <2>4, LenProperties
<1>3. \A i \in 1..Len(q) : r[i].fd = q[i].fd /\ (i # k => r[i] = q[i])
  BY <1>1
<1>4. r[k].events = e  BY <1>1
<1> HIDE DEF r
<1>5. Once(r)  BY <1>2, <1>3 DEF Once
<1>6. Lists(r, f) <=> Lists(q, f)  BY <1>2, <1>3 DEF Lists
<1>7. f = q[k].fd => (Wants(r, f) <=> "write" \in e)
  BY <1>2, <1>3, <1>4 DEF Wants, Once
<1>8. f # q[k].fd => (Wants(r, f) <=> Wants(q, f))
  BY <1>2, <1>3 DEF Wants
<1>9. QED  BY <1>5, <1>6, <1>7, <1>8 DEF r

\* What removing an entry leaves.
LEMMA Removing ==
  ASSUME NEW q \in Seq([fd : Fd, events : SUBSET All]), Once(q), NEW k \in 1..Len(q), NEW f \in Fd
  PROVE  LET r == RemoveAt(q, k) IN
         /\ Once(r)
         /\ Lists(r, f) <=> Lists(q, f) /\ f # q[k].fd
         /\ Wants(r, f) <=> Wants(q, f) /\ f # q[k].fd
<1> DEFINE r == RemoveAt(q, k)
           n == Len(q)
           Old(i) == IF i < k THEN i ELSE i + 1
<1>1. n \in Nat /\ k \in 1..n  OBVIOUS
<1>2. Len(r) = n - 1 /\ \A i \in 1..n - 1 : r[i] = q[Old(i)]
  <2> DEFINE P == [fd : Fd, events : SUBSET All]
             a == SubSeq(q, 1, k - 1)
             b == SubSeq(q, k + 1, n)
  <2> HIDE DEF P
  <2>1. q \in Seq(P)  BY DEF P
  <2>2. a \in Seq(P) /\ Len(a) = k - 1 /\ \A i \in 1..k - 1 : a[i] = q[i]
    BY <1>1, <2>1
  <2>3. b \in Seq(P) /\ Len(b) = n - k /\ \A i \in 1..n - k : b[i] = q[i + k]
    <3> DEFINE m == k + 1
    <3>1. m \in Int /\ n \in Int /\ \A i \in m..n : q[i] \in P  BY <1>1, <2>1
    <3>2. n - m + 1 = n - k /\ \A i \in 1..n - k : m + i - 1 = i + k
      BY <1>1
    <3>3. b = SubSeq(q, m, n)  OBVIOUS
    <3>4. m <= n \/ n - k = 0  BY <1>1
    <3> HIDE DEF m, b
    <3>5. /\ b \in Seq(P) /\ Len(b) = IF m <= n THEN n - m + 1 ELSE 0
          /\ \A i \in 1..n - m + 1 : b[i] = q[m + i - 1]
      BY <3>1, <3>3, SubSeqProperties
    <3>6. CASE m <= n  BY <3>2, <3>5, <3>6
    <3>7. CASE ~(m <= n)  BY <3>1, <3>2, <3>4, <3>5, <3>7
    <3>8. QED  BY <3>6, <3>7
  <2> HIDE DEF a, b
  <2>4. /\ Len(a \o b) = n - 1
        /\ \A i \in 1..n - 1 : (a \o b)[i] = IF i < k THEN a[i] ELSE b[i - (k - 1)]
    <3>1. /\ Len(a \o b) = Len(a) + Len(b)
          /\ \A i \in 1..Len(a) + Len(b) :
               (a \o b)[i] = IF i <= Len(a) THEN a[i] ELSE b[i - Len(a)]
      BY <2>2, <2>3, ConcatProperties
    <3>2. QED  BY <1>1, <2>2, <2>3, <3>1
  <2>5. r = a \o b  BY DEF RemoveAt, a, b
  <2>6. ASSUME NEW i \in 1..n - 1 PROVE r[i] = q[Old(i)]
    <3>1. CASE i < k  BY <1>1, <2>2, <2>4, <2>5, <3>1
    <3>2. CASE i >= k
      <4>1. i - (k - 1) \in 1..n - k /\ i - (k - 1) + k = i + 1  BY <1>1, <3>2
      <4>2. QED  BY <2>3, <2>4, <2>5, <3>2, <4>1
    <3>3. QED  BY <1>1, <3>1, <3>2
  <2>7. QED  BY <2>4, <2>5, <2>6
<1>3. \A i \in 1..n - 1 : Old(i) \in 1..n /\ Old(i) # k
  BY <1>1
<1>4. \A i, j \in 1..n - 1 : Old(i) = Old(j) => i = j
  BY <1>1
<1>5. \A m \in 1..n : m # k => \E i \in 1..n - 1 : Old(i) = m
  <2> SUFFICES ASSUME NEW m \in 1..n, m # k PROVE \E i \in 1..n - 1 : Old(i) = m
    OBVIOUS
  <2>1. CASE m < k
    <3>1. m \in 1..n - 1 /\ Old(m) = m  BY <1>1, <2>1
    <3>2. QED  BY <3>1
  <2>2. CASE m > k
    <3>1. m - 1 \in 1..n - 1 /\ Old(m - 1) = m  BY <1>1, <2>2
    <3>2. QED  BY <3>1
  <2>3. QED  BY <1>1, <2>1, <2>2
<1> HIDE DEF r, Old
<1>6. Once(r)
  <2> SUFFICES ASSUME NEW i \in 1..n - 1, NEW j \in 1..n - 1, r[i].fd = r[j].fd PROVE i = j
    BY <1>2 DEF Once
  <2>1. q[Old(i)].fd = q[Old(j)].fd  BY <1>2
  <2>2. Old(i) = Old(j)  BY <1>3, <2>1 DEF Once
  <2>3. QED  BY <1>4, <2>2
<1>7. \A m \in 1..n : m # k <=> q[m].fd # q[k].fd  BY DEF Once
<1>8. Lists(r, f) <=> Lists(q, f) /\ f # q[k].fd
  <2>1. Lists(r, f) => Lists(q, f) /\ f # q[k].fd
    BY <1>2, <1>3, <1>7 DEF Lists
  <2>2. ASSUME NEW m \in 1..n, q[m].fd = f, f # q[k].fd PROVE Lists(r, f)
    <3>1. PICK i \in 1..n - 1 : Old(i) = m  BY <1>5, <2>2
    <3>2. r[i].fd = f /\ i \in 1..Len(r)  BY <1>2, <2>2, <3>1
    <3>3. QED  BY <3>2 DEF Lists
  <2>3. QED  BY <2>1, <2>2 DEF Lists
<1>9. Wants(r, f) <=> Wants(q, f) /\ f # q[k].fd
  <2>1. Wants(r, f) => Wants(q, f) /\ f # q[k].fd
    BY <1>2, <1>3, <1>7 DEF Wants
  <2>2. ASSUME NEW m \in 1..n, q[m].fd = f, "write" \in q[m].events, f # q[k].fd
        PROVE  Wants(r, f)
    <3>1. PICK i \in 1..n - 1 : Old(i) = m  BY <1>5, <2>2
    <3>2. r[i].fd = f /\ "write" \in r[i].events /\ i \in 1..Len(r)  BY <1>2, <2>2, <3>1
    <3>3. QED  BY <3>2 DEF Wants
  <2>3. QED  BY <2>1, <2>2 DEF Wants
<1>10. QED  BY <1>6, <1>8, <1>9 DEF r

\* A step may leave the place of a descriptor in poll_set, and what it asks for, as they are.
PollKept(f) == (Polled(f)' # 0 <=> Polled(f) # 0) /\ (Asked(f)' <=> Asked(f))

\* What the three operations on poll_set do to the descriptor they are for, and that they leave
\* every other one alone.
LEMMA PollOperations ==
  ASSUME EngineTypes, EngineTypes', PolledOnce, NEW f \in Fd, NEW g \in Fd
  PROVE  /\ \A flags \in SUBSET Flags : RegisterPoll(g, flags) /\ Polled(g) = 0 =>
              /\ Once(poll_set')
              /\ f # g => PollKept(f)
              /\ Polled(g)' # 0 /\ (Asked(g)' <=> "write" \in flags)
         /\ \A flags \in SUBSET Flags : UpdatePoll(g, flags) =>
              /\ Once(poll_set')
              /\ f # g => PollKept(f)
              /\ Polled(g)' # 0 <=> Polled(g) # 0
              /\ Polled(g) # 0 => (Asked(g)' <=> "write" \in flags)
              /\ Polled(g) = 0 => ~Asked(g)'
         /\ (poll_set' = IF Polled(g) = 0 THEN poll_set ELSE RemoveAt(poll_set, Polled(g))) =>
              /\ Once(poll_set')
              /\ f # g => PollKept(f)
              /\ Polled(g)' = 0 /\ ~Asked(g)'
<1>0. Once(poll_set) /\ poll_set \in Seq([fd : Fd, events : SUBSET All])
  BY DEF PolledOnce, Once, EngineTypes
<1>1. ASSUME NEW h \in Fd
      PROVE  /\ Polled(h) # 0 <=> Lists(poll_set, h)
             /\ Asked(h) <=> Wants(poll_set, h)
             /\ Polled(h) # 0 => Polled(h) \in 1..Len(poll_set) /\ poll_set[Polled(h)].fd = h
             /\ Once(poll_set') => /\ Polled(h)' # 0 <=> Lists(poll_set', h)
                                   /\ Asked(h)' <=> Wants(poll_set', h)
  BY <1>0, PollView, PollViewNext
<1>2. \A h \in Fd : Wants(poll_set, h) => Lists(poll_set, h)  BY DEF Wants, Lists
<1>3. ASSUME NEW flags \in SUBSET Flags, RegisterPoll(g, flags), Polled(g) = 0
      PROVE  /\ Once(poll_set')
             /\ f # g => PollKept(f)
             /\ Polled(g)' # 0 /\ (Asked(g)' <=> "write" \in flags)
  <2>1. ~Lists(poll_set, g) /\ ~Wants(poll_set, g)  BY <1>1, <1>2, <1>3
  <2>2. flags \cap All \in SUBSET All /\ ("write" \in flags \cap All <=> "write" \in flags)
    BY DEF All
  <2>3. poll_set' = Append(poll_set, [fd |-> g, events |-> flags \cap All])
    BY <1>3 DEF RegisterPoll
  <2>4. ASSUME NEW h \in Fd
        PROVE  /\ Once(poll_set')
               /\ Lists(poll_set', h) <=> Lists(poll_set, h) \/ h = g
               /\ Wants(poll_set', h) <=> Wants(poll_set, h) \/ (h = g /\ "write" \in flags)
    BY <1>0, <2>1, <2>2, <2>3, Appending
  <2>5. QED  BY <1>1, <2>1, <2>4 DEF PollKept
<1>4. ASSUME NEW flags \in SUBSET Flags, UpdatePoll(g, flags)
      PROVE  /\ Once(poll_set')
             /\ f # g => PollKept(f)
             /\ Polled(g)' # 0 <=> Polled(g) # 0
             /\ Polled(g) # 0 => (Asked(g)' <=> "write" \in flags)
             /\ Polled(g) = 0 => ~Asked(g)'
  <2>1. CASE Polled(g) = 0
    <3>1. poll_set' = poll_set  BY <1>4, <2>1 DEF UpdatePoll
    <3>2. QED  BY <1>0, <1>1, <1>2, <2>1, <3>1 DEF PollKept
  <2>2. CASE Polled(g) # 0
    <3>1. flags \cap All \in SUBSET All /\ ("write" \in flags \cap All <=> "write" \in flags)
      BY DEF All
    <3>2. poll_set' = [poll_set EXCEPT ![Polled(g)].events = flags \cap All]
      BY <1>4, <2>2 DEF UpdatePoll
    <3>3. Polled(g) \in 1..Len(poll_set) /\ poll_set[Polled(g)].fd = g  BY <1>1, <2>2
    <3>4. ASSUME NEW h \in Fd
          PROVE  /\ Once(poll_set')
                 /\ Lists(poll_set', h) <=> Lists(poll_set, h)
                 /\ Wants(poll_set', h) <=> IF h = g THEN "write" \in flags ELSE Wants(poll_set, h)
      BY <1>0, <3>1, <3>2, <3>3, Overwriting
    <3>5. QED  BY <1>1, <2>2, <3>4 DEF PollKept
  <2>3. QED  BY <2>1, <2>2
<1>5. ASSUME poll_set' = IF Polled(g) = 0 THEN poll_set ELSE RemoveAt(poll_set, Polled(g))
      PROVE  /\ Once(poll_set')
             /\ f # g => PollKept(f)
             /\ Polled(g)' = 0 /\ ~Asked(g)'
  <2>1. CASE Polled(g) = 0
    <3>1. poll_set' = poll_set  BY <1>5, <2>1
    <3>2. QED  BY <1>0, <1>1, <1>2, <2>1, <3>1 DEF PollKept
  <2>2. CASE Polled(g) # 0
    <3>1. poll_set' = RemoveAt(poll_set, Polled(g))  BY <1>5, <2>2
    <3>2. Polled(g) \in 1..Len(poll_set) /\ poll_set[Polled(g)].fd = g  BY <1>1, <2>2
    <3>3. ASSUME NEW h \in Fd
          PROVE  /\ Once(poll_set')
                 /\ Lists(poll_set', h) <=> Lists(poll_set, h) /\ h # g
                 /\ Wants(poll_set', h) <=> Wants(poll_set, h) /\ h # g
      BY <1>0, <3>1, <3>2, Removing
    <3>4. QED  BY <1>1, <3>3 DEF PollKept
  <2>3. QED  BY <2>1, <2>2
<1>6. QED  BY <1>3, <1>4, <1>5

\* What each step does to the place of a descriptor in poll_set.
LEMMA PollSteps ==
  ASSUME InductiveInvariant, PolledOnce, [OtherNext]_vars, NEW f \in Fd
  PROVE  /\ Once(poll_set')
         /\ \/ PollKept(f)
            \/ MakeEntry /\ f = conn[maker.conn].sfd /\ Polled(f)' = 0
            \/ MakePoll /\ f = conn[maker.conn].sfd /\ Polled(f)' # 0 /\ Asked(f)'
            \/ /\ \/ WriteBackPoll /\ f = writer.fd
                     /\ (Polled(f) # 0 => (Asked(f)' <=> "write" \in writer.entry.flags))
                  \/ UpdatePolled /\ f = fd /\ (Polled(f) # 0 => (Asked(f)' <=> "write" \in io.flags))
                  \/ ClearPoll /\ f = fd /\ (Polled(f) # 0 => (Asked(f)' <=> "write" \in fds[f].flags))
               /\ Polled(f)' # 0 <=> Polled(f) # 0
               /\ Polled(f) = 0 => ~Asked(f)'
            \/ Check /\ f = fd /\ fds[fd] # None /\ Marked(fd) /\ Polled(f)' = 0
<1> USE EngineAssumption
<1>0. /\ EngineTypes /\ EngineTypes' /\ ThreadTypes /\ ConnTypes /\ Control /\ io \in IoThread
      /\ Once(poll_set)
  BY EngineTypesStep DEF InductiveInvariant, TypeOK, ThreadTypes, PolledOnce, Once
<1>a. All \in SUBSET Flags /\ "write" \in All  BY DEF All, Flags
<1>1. CASE MakeEntry
  <2> DEFINE g == conn[maker.conn].sfd
  <2>1. g \in Fd \cup {None}
    BY <1>0, <1>1 DEF MakeEntry, ThreadTypes, Resting, ConnTypes, Members
  <2>2. CASE g = None
    <3>1. UNCHANGED poll_set  BY <1>1, <2>2 DEF MakeEntry, engine
    <3>2. QED  BY <1>0, <3>1, PollView, PollViewNext DEF PollKept
  <2>3. CASE g \in Fd
    <3>1. poll_set' = IF Polled(g) = 0 THEN poll_set ELSE RemoveAt(poll_set, Polled(g))
      BY <1>1, <2>3 DEF MakeEntry, RegisterEntry, PolledOnce
    <3> HIDE DEF g
    <3>2. QED  BY <1>0, <1>1, <2>3, <3>1, PollOperations DEF g
  <2>4. QED  BY <2>1, <2>2, <2>3
<1>2. CASE MakePoll
  <2> DEFINE g == conn[maker.conn].sfd
  <2>1. g \in Fd \cup {None}
    BY <1>0, <1>2 DEF MakePoll, ThreadTypes, Resting, ConnTypes, Members
  <2>2. CASE g = None
    <3>1. UNCHANGED poll_set  BY <1>2, <2>2 DEF MakePoll, engine
    <3>2. QED  BY <1>0, <3>1, PollView, PollViewNext DEF PollKept
  <2>3. CASE g \in Fd
    <3>1. RegisterPoll(g, All) /\ maker.pc = "poll"  BY <1>2, <2>3 DEF MakePoll
    <3>2. Polled(g) = 0  BY <2>3, <3>1 DEF PolledOnce
    <3> HIDE DEF g
    <3>3. QED  BY <1>0, <1>2, <1>a, <2>3, <3>1, <3>2, PollOperations DEF g
  <2>4. QED  BY <2>1, <2>2, <2>3
<1>3. CASE WriteBackPoll
  <2>1. writer.fd \in Fd /\ writer.entry.flags \in SUBSET Flags
    BY <1>0, <1>3 DEF WriteBackPoll, ThreadTypes, Resting, Entries
  <2>2. UpdatePoll(writer.fd, writer.entry.flags)  BY <1>3 DEF WriteBackPoll
  <2>3. QED  BY <1>0, <1>3, <2>1, <2>2, PollOperations
<1>4. CASE UpdatePolled
  <2>1. fd \in Fd /\ io.flags \in SUBSET Flags
    BY <1>0, <1>4, AtWork DEF UpdatePolled, Control, IoThread
  <2>2. UpdatePoll(fd, io.flags)  BY <1>4 DEF UpdatePolled
  <2>3. QED  BY <1>0, <1>4, <2>1, <2>2, PollOperations
<1>5. CASE ClearPoll /\ fds[fd] # None
  <2>1. fd \in Fd  BY <1>0, <1>5, AtWork DEF ClearPoll, Control
  <2>2. fds[fd].flags \in SUBSET Flags  BY <1>0, <1>5, <2>1 DEF EngineTypes, Entries
  <2>3. UpdatePoll(fd, fds[fd].flags)  BY <1>5 DEF ClearPoll
  <2>4. QED  BY <1>0, <1>5, <2>1, <2>2, <2>3, PollOperations
<1>6. CASE Check /\ fds[fd] # None /\ Marked(fd)
  <2>1. fd \in Fd  BY <1>0, <1>6, AtWork DEF Check, Control
  <2>2. poll_set' = IF Polled(fd) = 0 THEN poll_set ELSE RemoveAt(poll_set, Polled(fd))
    BY <1>6 DEF Check, RemoveSocket
  <2>3. QED  BY <1>0, <1>6, <2>1, <2>2, PollOperations
<1>7. CASE UNCHANGED poll_set
  BY <1>0, <1>7, PollView, PollViewNext DEF PollKept
<1>8. ASSUME NEW c \in Conn, Construct(c) PROVE UNCHANGED poll_set
  BY <1>8 DEF Construct, Constructed
<1>9. RetryConnect => UNCHANGED poll_set  BY Reconnecting
<1>10. QED
  BY <1>1, <1>2, <1>3, <1>4, <1>5, <1>6, <1>7, <1>8, <1>9
  DEF OtherNext, vars, threads, engine, Loop, Make, Write, MarkWrite, WriteBack, SocketWrite,
      PeerSends, PeerBreaks, Poll, Visit, HandleError, Continue, Check, Update, Erase,
      ClearLoad, ClearStore, ClearPoll, ReadPlain, ReadTls, ReadEarly, Rearm, WriteEarly, Move,
      SendPlain, More, SendTls, Sent, Close, ReadReply, ReadClosesOther, TimeOut,
      RetryClose, UpdateEntry, EraseEntry, Delete, RetryDelete, DeleteSocket,
      ReadOrphan, WriteOrphan, Orphan

------------------------------------------------------------------------------
(* The entries of the connections, in both tables.                            *)

\* How the thread gets to some of its positions.
LEMMA Arriving ==
  ASSUME InductiveInvariant, [OtherNext]_vars
  PROVE  \/ UNCHANGED io
         \/ /\ io'.pc = "erase" => Check
            /\ io'.pc \in {"retry", "connect"} => RetryDelete \/ \E c \in Conn : RetryClose(c)
            /\ io'.pc = "store" => ClearLoad
            /\ io'.pc = "rearm" => ReadTls \/ ReadEarly \/ ((Update \/ UpdatePolled) /\ io.then = "rearm")
            /\ io'.pc = "update_poll" => Update
            /\ io'.pc = "update" => \/ ReadReply \/ ReadTls \/ ReadEarly \/ Rearm
                                    \/ WriteEarly \/ More \/ SendTls \/ Sent
<1>0. /\ io \in IoThread /\ Control /\ Making /\ io.then \in Pcs
      /\ {"prune", "visit", "retry", "connect", "made", "delete", "close", "error", "skip",
          "check", "erase", "update", "update_poll", "clear", "store", "clear_poll", "read",
          "rearm", "write", "move", "send", "sent", "more"} \subseteq Pcs
  BY DEF InductiveInvariant, TypeOK, ThreadTypes, IoThread, Pcs
<1>f. {"read"} \in SUBSET Flags /\ All \in SUBSET Flags
  BY DEF All, Flags
<1> DEFINE On == io'.pc \notin {"erase", "retry", "connect", "store", "rearm", "update", "update_poll"}
<1>1. CASE Delete \/ Close
  <2>1. On  BY <1>0, <1>1, IoMoves DEF Delete, Close, Control
  <2>2. QED  BY <2>1
<1>2. CASE RetryDelete \/ Update \/ UpdatePolled
  BY <1>0, <1>2, IoMoves DEF RetryDelete, Update, UpdatePolled, Control
<1>3. ASSUME NEW c \in Conn, TimeOut(c) \/ Construct(c)
      PROVE  On \/ UNCHANGED io
  <2>1. TimeOut(c) => io'.pc = "delete"  BY <1>0, IoMoves DEF TimeOut
  <2>2. Construct(c) => io'.pc = "made"
    BY <1>0, IoMoves DEF Construct
  <2>3. QED  BY <1>3, <2>1, <2>2
<1>4. ASSUME NEW c \in Conn, RetryClose(c) PROVE io'.pc = "retry"
  BY <1>0, <1>4 DEF RetryClose, IoThread
<1>5. CASE Poll \/ RetryConnect
  <2>1. On  BY <1>0, <1>5, Reconnecting DEF Poll, IoThread
  <2>2. QED  BY <2>1
<1>6. CASE ClearLoad
  BY <1>0, <1>6 DEF ClearLoad, IoThread
<1>7. CASE Visit
  <2>1. On  BY <1>0, <1>7, Visited, Skipping DEF Looping, Dispatch
  <2>2. QED  BY <2>1
<1>8. CASE HandleError \/ ReadClosesOther
  <2>1. c0 \in Conn  BY <1>0, <1>8, AtWork DEF HandleError, ReadClosesOther, Control
  <2>2. On  BY <1>0, <1>8, <2>1, IoMoves DEF HandleError, ReadClosesOther
  <2>3. QED  BY <2>2
<1>9. CASE Continue \/ Check \/ Erase
  <2>1. io.ready # <<>>  BY <1>0, <1>9, AtWork DEF Continue, Check, Erase, Control
  <2>2. Skip.pc = "visit"  BY <1>0, <2>1, Skipping
  <2>3. QED  BY <1>0, <1>9, <2>2, IoMoves DEF Continue, Check, Erase
<1>10. CASE ReadReply
  <2>1. fd \in Fd /\ EngineTypes
    BY <1>0, <1>10, AtWork DEF ReadReply, Control, InductiveInvariant, TypeOK
  <2>2. fds[fd] # None => fds[fd].flags \cup {"write"} \in SUBSET Flags
    BY <2>1 DEF EngineTypes, Entries, Flags
  <2>3. QED  BY <1>0, <1>10, <2>2, IoMoves DEF ReadReply
<1>11. CASE ClearStore \/ ClearPoll \/ ReadOrphan \/ WriteOrphan \/ Move \/ MakePoll
  <2>1. MakePoll => On
    <3>1. MakePoll => maker.back \in {"prune", "read", "delete"} /\ Go(maker.back)
      BY <1>0 DEF MakePoll, Making
    <3>2. QED  BY <1>0, <3>1, IoMoves
  <2>2. ClearStore \/ ClearPoll \/ ReadOrphan \/ WriteOrphan \/ Move => On
    BY <1>0, IoMoves
    DEF ClearStore, ClearPoll, ReadOrphan, WriteOrphan, Orphan, Move, AfterRead, Control
  <2>3. QED  BY <1>11, <2>1, <2>2
<1>12. CASE ReadPlain \/ ReadTls \/ ReadEarly \/ Rearm
  <2>1. c0 \in Conn  BY <1>0, <1>12, AtWork DEF ReadPlain, ReadTls, ReadEarly, Rearm, Control
  <2>2. AfterRead \in {"clear", "check"}  BY DEF AfterRead
  <2>3. ReadPlain => On  BY <1>0, <2>1, <2>2, IoMoves DEF ReadPlain
  <2>4. ReadTls \/ ReadEarly => On \/ io'.pc \in {"rearm", "update"}
    BY <1>0, <1>f, <2>1, <2>2, IoMoves DEF ReadTls, ReadEarly, Handshake
  <2>5. Rearm => On \/ io'.pc = "update"
    BY <1>0, <1>f, <2>1, <2>2, IoMoves DEF Rearm
  <2>6. QED  BY <1>12, <2>3, <2>4, <2>5
<1>13. CASE WriteEarly \/ More \/ SendTls \/ SendPlain \/ Sent
  <2>1. c0 \in Conn  BY <1>0, <1>13, AtWork DEF WriteEarly, SendPlain, More, SendTls, Sent, Control
  <2>2. WriteEarly \/ More \/ SendTls => On \/ io'.pc = "update"
    BY <1>0, <1>f, <2>1, IoMoves DEF WriteEarly, More, SendTls, Handshake
  <2>3. SendPlain => On  BY <1>0, <2>1, IoMoves, Draining DEF SendPlain
  <2>4. Sent => On \/ io'.pc = "update"  BY <1>0, <1>f, <2>1, IoMoves, Draining DEF Sent
  <2>5. QED  BY <1>13, <2>2, <2>3, <2>4
<1>14. QED
  BY <1>1, <1>2, <1>3, <1>4, <1>5, <1>6, <1>7, <1>8, <1>9, <1>10, <1>11, <1>12, <1>13
  DEF OtherNext, vars, threads, Loop, Make, MakeEntry, Write, MarkWrite, WriteBack, WriteBackPoll,
      SocketWrite, PeerSends, PeerBreaks

\* A connection gets a descriptor from its constructor or when it is connected again.
LEMMA Gets ==
  ASSUME InductiveInvariant, [OtherNext]_vars, NEW c \in Conn,
         conn'[c].sfd # None, conn'[c].sfd # conn[c].sfd
  PROVE  /\ maker'.pc = "entry" /\ maker'.conn = c /\ maker.pc = "rest"
         /\ Construct(c) \/ (RetryConnect /\ io.victim = c)
<1>0. EngineTypes /\ ConnTypes /\ Closing /\ Making  BY DEF InductiveInvariant, TypeOK
<1>1. ASSUME NEW d \in Conn, Construct(d)
      PROVE  d = c /\ maker'.pc = "entry" /\ maker'.conn = c /\ maker.pc = "rest"
  <2>1. PICK f \in Available : Constructed(d, f)  BY <1>1 DEF Construct
  <2>2. d = c
    <3>1. \A other \in Conn \ {d} : conn'[other] = conn[other]
      BY <1>0, <2>1, Constructing
    <3>2. QED  BY <3>1
  <2>3. QED  BY <1>0, <1>1, <2>2 DEF Construct, Making
<1>2. ~Close
  BY <1>0 DEF Close, Closing, ConnTypes, Members
<1>3. CASE RetryConnect
  <2>1. io.victim = c  BY <1>3, Reconnecting
  <2>2. QED  BY <1>0, <1>3, <2>1, Reconnecting DEF Making
<1>4. QED
  BY <1>1, <1>2, <1>3, Descriptors DEF RetryClose, ReadOrphan, WriteOrphan, Orphan, Same

\* PolledOnce is kept.
LEMMA PolledOnceStep ==
  ASSUME InductiveInvariant, PolledOnce, [OtherNext]_vars
  PROVE  PolledOnce'
<1> USE EngineAssumption, ConnectionAssumption
<1>0. /\ Control /\ Making /\ ThreadTypes /\ ConnTypes /\ PolledOnce /\ EngineTypes'
  BY EngineTypesStep DEF InductiveInvariant, TypeOK
<1>e. \A e \in Entries : e # None  BY DEF Entries
<1>1. ASSUME NEW f \in Fd, Polled(f)' # 0 PROVE fds'[f] # None
  <2>1. fds[f] # None
    <3>1. CASE Polled(f) # 0  BY <1>0, <3>1 DEF PolledOnce
    <3>2. CASE MakePoll /\ f = conn[maker.conn].sfd
      BY <1>0, <3>2 DEF MakePoll, PolledOnce
    <3>3. QED  BY <1>1, <3>1, <3>2, PollSteps DEF PollKept
  <2>2. ASSUME Erase, f = fd PROVE FALSE
    <3>1. io.pc = "erase"  BY <2>2 DEF Erase
    <3>2. Polled(f) = 0  BY <1>0, <2>2, <3>1 DEF PolledOnce
    <3>3. ~MakePoll  BY <1>0, <3>1 DEF MakePoll, Making
    <3>4. QED  BY <1>1, <3>2, <3>3, PollSteps DEF PollKept
  <2>3. CASE MakeEntry /\ fds'[f] = Entry(maker.conn, conn[maker.conn].nth, All)
    <3>1. maker.conn \in Conn /\ conn[maker.conn].nth \in Nat
      BY <1>0, <2>3 DEF MakeEntry, ThreadTypes, Resting, ConnTypes, Members
    <3>2. QED  BY <2>3, <3>1 DEF Entry, All, Flags
  <2>4. CASE WriteBack /\ fds'[f] = writer.entry
    <3>1. writer.entry \in Entries
      BY <1>0, <2>4 DEF WriteBack, ThreadTypes, Resting
    <3>2. QED  BY <1>e, <2>4, <3>1
  <2>5. CASE Update /\ fds'[f] = Entry(c0, io.eh.nth, io.flags)
    <3>1. c0 \in Conn /\ io.eh.nth \in Nat /\ io.flags \in SUBSET Flags
      BY <1>0, <2>5, AtWork DEF Update, Control, IoThread
    <3>2. QED  BY <2>5, <3>1 DEF Entry
  <2>6. QED  BY <1>e, <2>1, <2>2, <2>3, <2>4, <2>5, EntrySteps
<1>2. ASSUME NEW f \in Fd, io'.pc = "erase", fd' = f PROVE Polled(f)' = 0
  <2>1. CASE UNCHANGED io
    <3>1. io.pc = "erase" /\ fd = f  BY <1>2, <2>1 DEF fd
    <3>2. Polled(f) = 0  BY <1>0, <3>1 DEF PolledOnce
    <3>3. ~MakePoll  BY <1>0, <3>1 DEF MakePoll, Making
    <3>4. QED  BY <3>2, <3>3, PollSteps DEF PollKept
  <2>2. CASE Check
    <3>1. io.pc = "check" /\ io \in IoThread /\ io.ready # <<>>
      BY <1>0, <2>2, AtWork DEF Check, Control
    <3>2. Skip.pc = "visit"  BY <3>1, Skipping
    <3>3. fds[fd] # None /\ Marked(fd) /\ RemoveSocket(fd) /\ Go("erase")
      BY <1>2, <2>2, <3>2 DEF Check
    <3>4. fd' = fd  BY <3>1, <3>3, IoMoves DEF fd, Pcs
    <3>5. EngineTypes /\ EngineTypes'  BY EngineTypesStep DEF InductiveInvariant, TypeOK
    <3>6. QED  BY <1>0, <1>2, <3>3, <3>4, <3>5, PollOperations DEF RemoveSocket
  <2>3. QED  BY <1>2, <2>1, <2>2, Arriving
<1>3. ASSUME NEW f \in Fd, maker'.pc = "poll", conn'[maker'.conn].sfd = f
      PROVE  fds'[f] # None /\ Polled(f)' = 0
  <2>1. CASE MakeEntry
    <3>1. UNCHANGED conn /\ maker'.conn = maker.conn /\ maker.conn \in Conn
      BY <1>0, <2>1 DEF MakeEntry, ThreadTypes, Resting
    <3>2. f = conn[maker.conn].sfd  BY <1>3, <3>1
    <3>3. RegisterEntry(f, Entry(maker.conn, conn[maker.conn].nth, All))
      BY <2>1, <3>2 DEF MakeEntry
    <3>4. EngineTypes /\ EngineTypes'  BY EngineTypesStep DEF InductiveInvariant, TypeOK
    <3>5. conn[maker.conn].nth \in Nat  BY <1>0, <3>1 DEF ConnTypes, Members
    <3>6. fds'[f] # None
      BY <3>1, <3>3, <3>4, <3>5 DEF RegisterEntry, EngineTypes, Entry, All, Flags
    <3>7. poll_set' = IF Polled(f) = 0 THEN poll_set ELSE RemoveAt(poll_set, Polled(f))
      BY <1>0, <3>3 DEF RegisterEntry, PolledOnce
    <3>8. QED  BY <1>0, <3>4, <3>6, <3>7, PollOperations
  <2>2. CASE UNCHANGED maker
    <3>1. maker.pc = "poll" /\ io.pc = "made" /\ maker.conn \in Conn
      BY <1>0, <1>3, <2>2 DEF Making, ThreadTypes, Resting
    <3>2. conn[maker.conn].sfd = f
      <4>1. SUFFICES ASSUME conn[maker.conn].sfd # f PROVE FALSE  OBVIOUS
      <4>2. QED  BY <1>3, <2>2, <3>1, <4>1, Gets
    <3>3. fds[f] # None /\ Polled(f) = 0  BY <1>0, <3>1, <3>2 DEF PolledOnce
    <3>4. ~Erase /\ ~Update /\ ~MakeEntry
      BY <3>1 DEF Erase, Update, MakeEntry
    <3>5. WriteBack => writer.entry \in Entries
      BY <1>0 DEF WriteBack, ThreadTypes, Resting
    <3>6. fds'[f] # None  BY <1>e, <3>3, <3>4, <3>5, EntrySteps
    <3>7. ~MakePoll
      <4>1. MakePoll => maker'.pc = "rest"  BY DEF MakePoll, Resting
      <4>2. QED  BY <1>3, <4>1
    <3>8. Polled(f)' = 0  BY <3>3, <3>7, PollSteps DEF PollKept
    <3>9. QED  BY <3>6, <3>8
  <2>3. QED
    BY <1>3, <2>1, <2>2, MakesAlone DEF Construct, MakePoll, Resting, RetryConnect
<1>4. Once(poll_set')
  <2>1. CASE Fd # {}  BY <2>1, PollSteps
  <2>2. CASE Fd = {}
    <3>1. poll_set' = <<>>
      BY <1>0, <2>2 DEF EngineTypes
    <3>2. QED  BY <3>1 DEF Once
  <2>3. QED  BY <2>1, <2>2
<1>5. QED  BY <1>1, <1>2, <1>3, <1>4 DEF PolledOnce, Once

\* Who registered an entry keeps its number, or gets a higher one.
LEMMA StaysBefore ==
  ASSUME InductiveInvariant, [OtherNext]_vars, NEW e, e.conn \in Conn, e.nth \in Nat \ {0}, Before(e)
  PROVE  Before(e)'
<1>0. EngineTypes /\ ConnTypes /\ Closing /\ Making /\ UNCHANGED opener
  BY OpeningStays DEF InductiveInvariant, TypeOK, opening
<1>1. ASSUME NEW c \in Conn, Construct(c) PROVE Before(e)'
  <2>1. PICK f \in Available : Constructed(c, f)  BY <1>1 DEF Construct
  <2>2. conn[c].nth = 0 /\ maker'.conn = c  BY <1>0, <1>1, <2>1, Constructing DEF Construct
  <2>3. e.conn # c  BY <2>2 DEF Before
  <2>4. conn'[e.conn] = conn[e.conn]  BY <1>0, <2>1, <2>3, Constructing
  <2>5. QED  BY <1>0, <2>2, <2>3, <2>4 DEF Before, Unregistered
<1>2. CASE RetryConnect
  <2>1. io.victim \in Conn /\ maker'.conn = io.victim
    BY <1>2, Reconnecting
  <2>2. conn[io.victim].nth \in Nat /\ conn'[io.victim].nth = conn[io.victim].nth + 1
    BY <1>0, <1>2, <2>1, Reconnecting DEF ConnTypes, Members
  <2>3. e.conn # io.victim => conn'[e.conn] = conn[e.conn]  BY <1>2, Reconnecting
  <2>4. QED  BY <1>0, <2>1, <2>2, <2>3 DEF Before, Unregistered
<1>3. CASE conn'[e.conn].nth = conn[e.conn].nth /\ (UNCHANGED maker \/ MakeEntry \/ MakePoll)
  <2>1. maker'.pc = "entry" => maker.pc = "entry" /\ maker'.conn = maker.conn
    BY <1>3 DEF MakeEntry, MakePoll, Resting, InductiveInvariant, TypeOK, ThreadTypes
  <2>2. QED  BY <1>0, <1>3, <2>1 DEF Before, Unregistered
<1>4. CASE Close
  <2>1. conn'[e.conn].nth = conn[e.conn].nth
    BY <1>0, <1>4 DEF Close, Closing, ConnTypes, Members
  <2>2. QED  BY <1>3, <1>4, <2>1 DEF Close
<1>5. UNCHANGED conn => conn'[e.conn].nth = conn[e.conn].nth  OBVIOUS
<1>6. QED
  BY <1>1, <1>2, <1>3, <1>4, <1>5, Descriptors, MakesAlone
  DEF RetryClose, ReadOrphan, WriteOrphan, Orphan, Same

\* Numbered is kept.
LEMMA NumberedStep ==
  ASSUME InductiveInvariant, Numbered, [OtherNext]_vars
  PROVE  Numbered'
<1> USE EngineAssumption, ConnectionAssumption
<1>0. EngineTypes /\ EngineTypes' /\ ThreadTypes /\ ConnTypes /\ Control /\ Numbered
  BY EngineTypesStep DEF InductiveInvariant, TypeOK
<1>1. ASSUME NEW e, e.conn \in Conn, e.nth \in Nat \ {0}, Before(e),
             NEW d, d.conn = e.conn, d.nth = e.nth
      PROVE  Before(d)'
  BY <1>1, StaysBefore DEF Before
<1>2. ASSUME NEW f \in Fd, fds'[f] # None
      PROVE  \E d : d = fds'[f] /\ Before(d)'
  <2>1. ASSUME fds[f] # None, fds'[f].conn = fds[f].conn, fds'[f].nth = fds[f].nth
        PROVE  \E d : d = fds'[f] /\ Before(d)'
    <3>1. PICK e : e = fds[f]  OBVIOUS
    <3>2. e \in Entries /\ Before(e)
      <4>1. e \in Entries  BY <1>0, <2>1, <3>1 DEF EngineTypes
      <4>2. Before(fds[f])  BY <1>0, <2>1, Zenon DEF Numbered
      <4>3. QED  BY <3>1, <4>1, <4>2
    <3>3. PICK d : d = fds'[f]  OBVIOUS
    <3>4. d.conn = e.conn /\ d.nth = e.nth  BY <2>1, <3>1, <3>3
    <3>5. e.conn \in Conn /\ e.nth \in Nat \ {0}  BY <3>2 DEF Entries
    <3>6. QED  BY <1>1, <3>2, <3>3, <3>4, <3>5
  <2>2. CASE fds'[f] = fds[f]  BY <1>2, <2>1, <2>2
  <2>3. CASE MakeEntry /\ fds'[f] = Entry(maker.conn, conn[maker.conn].nth, All)
    <3>1. PICK d : d = fds'[f]  OBVIOUS
    <3>2. d.conn = maker.conn /\ d.nth = conn[d.conn].nth  BY <2>3, <3>1 DEF Entry
    <3>3. UNCHANGED conn /\ maker'.pc = "poll"
      BY <1>0, <2>3 DEF MakeEntry, ThreadTypes, Resting
    <3>4. opener.pc # "rest" => opener.conn # maker.conn
      BY DEF InductiveInvariant, OpenedApart, Apart, TypeOK, ThreadTypes, Resting
    <3>5. UNCHANGED opener  BY <2>3 DEF MakeEntry, opening
    <3>6. Before(d)'  BY <3>2, <3>3, <3>4, <3>5 DEF Before, Unregistered
    <3>7. QED  BY <3>1, <3>6
  <2>4. CASE WriteBack /\ fds'[f] = writer.entry
    <3>1. PICK e : e = writer.entry  OBVIOUS
    <3>2. e \in Entries /\ writer.pc = "copied"
      BY <1>0, <2>4, <3>1 DEF WriteBack, ThreadTypes, Resting
    <3>3. Before(e)  BY <1>0, <3>1, <3>2 DEF Numbered
    <3>4. Before(e)'  BY <3>2, <3>3, StaysBefore DEF Entries
    <3>5. QED  BY <2>4, <3>1, <3>4
  <2>5. CASE Update /\ fds'[f] = Entry(c0, io.eh.nth, io.flags)
    <3>1. PICK e : e = io.eh  OBVIOUS
    <3>2. io.eh # None /\ io.pc = "update"  BY <1>0, <2>5 DEF Update, Control
    <3>3. e.conn \in Conn /\ e.nth \in Nat \ {0} /\ Before(e)
      BY <1>0, <3>1, <3>2, AtWork DEF Numbered
    <3>4. PICK d : d = fds'[f]  OBVIOUS
    <3>5. d.conn = e.conn /\ d.nth = e.nth  BY <2>5, <3>1, <3>4 DEF Entry, c0
    <3>6. QED  BY <1>1, <3>3, <3>4, <3>5
  <2>6. QED  BY <1>2, <2>1, <2>2, <2>3, <2>4, <2>5, EntrySteps
<1>3. ASSUME io'.eh # None, io'.pc \notin {"skip", "erase"}
      PROVE  \E d : d = io'.eh /\ Before(d)'
  <2>1. CASE Visit
    <3>1. io.ready # <<>> => Skip.eh = None  BY <1>0, Skipping DEF ThreadTypes
    <3>2. fd \in Fd /\ fds[fd] # None /\ io'.eh = [conn |-> fds[fd].conn, nth |-> fds[fd].nth]
      BY <1>3, <2>1, <3>1, Visited DEF Looping
    <3>3. PICK e : e = fds[fd]  OBVIOUS
    <3>4. e.conn \in Conn /\ e.nth \in Nat \ {0} /\ Before(e)
      BY <1>0, <3>2, <3>3 DEF EngineTypes, Entries, Numbered
    <3>5. PICK d : d = io'.eh  OBVIOUS
    <3>6. QED  BY <1>1, <3>2, <3>3, <3>4, <3>5
  <2>2. CASE io.eh # None /\ io.pc \notin {"skip", "erase"} /\ io'.eh = io.eh
    <3>1. PICK e : e = io.eh  OBVIOUS
    <3>2. e.conn \in Conn /\ e.nth \in Nat \ {0} /\ Before(e)
      BY <1>0, <2>2, <3>1, AtWork DEF Numbered
    <3>3. QED  BY <2>2, <3>1, <3>2, StaysBefore
  <2>3. QED  BY <1>3, <2>1, <2>2, StaysInUse
<1>4. ASSUME writer'.pc \in {"copied", "poll"} PROVE \E d : d = writer'.entry /\ Before(d)'
  <2>1. CASE writer.pc \in {"copied", "poll"} /\ writer'.entry = writer.entry
    <3>1. PICK e : e = writer.entry  OBVIOUS
    <3>2. e \in Entries /\ Before(e)
      BY <1>0, <2>1, <3>1 DEF Numbered, ThreadTypes, Resting
    <3>3. QED  BY <2>1, <3>1, <3>2, StaysBefore DEF Entries
  <2>2. CASE MarkWrite
    <3> DEFINE f == conn[writer.conn].sfd
    <3>1. writer'.entry = [fds[f] EXCEPT !.flags = @ \cup {"write"}] /\ f # None /\ fds[f] # None
      BY <1>4, <2>2 DEF MarkWrite, Resting
    <3>2. f \in Fd
      BY <1>0, <2>2, <3>1 DEF MarkWrite, ThreadTypes, Resting, ConnTypes, Members
    <3>3. PICK e : e = fds[f]  OBVIOUS
    <3>4. e \in Entries /\ Before(e)  BY <1>0, <3>1, <3>2, <3>3 DEF EngineTypes, Numbered
    <3>5. PICK d : d = writer'.entry  OBVIOUS
    <3>6. d.conn = e.conn /\ d.nth = e.nth  BY <3>1, <3>3, <3>4, <3>5 DEF Entries
    <3>7. QED  BY <1>1, <3>4, <3>5, <3>6 DEF Entries
  <2>3. CASE WriteBack
    BY <1>0, <1>4, <2>1, <2>3 DEF WriteBack, Resting, ThreadTypes
  <2>4. CASE WriteBackPoll  BY <1>4, <2>4 DEF WriteBackPoll, Resting
  <2>5. ASSUME NEW c \in Conn, SocketWrite(c) PROVE FALSE
    BY <1>4, <2>5 DEF SocketWrite
  <2>6. CASE UNCHANGED writer  BY <1>4, <2>1, <2>6
  <2>7. QED
    BY <2>2, <2>3, <2>4, <2>5, <2>6
    DEF OtherNext, vars, threads, Loop, Make, MakeEntry, MakePoll, Write,
        PeerSends, PeerBreaks, Poll, Visit, HandleError, Continue, Check, Update, UpdatePolled,
        Erase, ClearLoad, ClearStore, ClearPoll, ReadPlain, ReadTls, ReadEarly, Rearm, WriteEarly,
        Move, SendPlain, More, SendTls, Sent, Close, RetryConnect, ReadReply, ReadClosesOther,
        TimeOut, RetryClose, Construct, Constructed, Delete, RetryDelete, ReadOrphan, WriteOrphan,
        Orphan
<1>5. QED  BY <1>2, <1>3, <1>4 DEF Numbered, Before

\* While it closes a connection the thread does nothing else.
LEMMA ClosesNext ==
  ASSUME InductiveInvariant, [OtherNext]_vars, io.pc = "close"
  PROVE  UNCHANGED io \/ Close
BY DEF OtherNext, vars, threads, Loop, Make, MakeEntry, MakePoll, Write, MarkWrite, WriteBack,
       WriteBackPoll, SocketWrite, PeerSends, PeerBreaks, Poll, Visit, HandleError, Continue,
       Check, Erase, Update, UpdatePolled, ClearLoad, ClearStore, ClearPoll, ReadOrphan,
       WriteOrphan, ReadPlain, ReadTls, ReadEarly, Rearm, WriteEarly, Move, SendPlain, More,
       SendTls, Sent, Delete, RetryDelete, RetryConnect, ReadReply, ReadClosesOther, TimeOut,
       RetryClose, Construct, InductiveInvariant, Making

\* A descriptor has one owner that is not mixed up, and no other connection registers, closes
\* or connects it again.
LEMMA OneOwner ==
  ASSUME InductiveInvariant, Registered, [OtherNext]_vars,
         NEW c \in Conn \ raced', NEW f \in Fd, conn[c].sfd = f
  PROVE  /\ c \notin raced
         /\ maker.pc # "rest" /\ conn[maker.conn].sfd = f => maker.conn = c
         /\ io.pc \in {"retry", "connect"} /\ conn[io.victim].sfd = f => io.victim = c
         /\ Close /\ conn[io.victim].sfd = f => io.victim = c
         /\ ReadOrphan \/ WriteOrphan => fd # f
<1> USE EngineAssumption
<1>0. /\ c \notin raced /\ f # None /\ c # None
      /\ ThreadTypes /\ Control /\ Closing /\ Making /\ Owning
  BY RacedGrows DEF InductiveInvariant, TypeOK
<1>1. opened[f] = c \/ (io.pc \in {"retry", "connect"} /\ io.victim = c)
  BY <1>0 DEF Owning
<1>2. ASSUME maker.pc # "rest", conn[maker.conn].sfd = f PROVE maker.conn = c
  BY <1>0, <1>1, <1>2 DEF Making
<1>3. ASSUME io.pc \in {"retry", "connect"}, conn[io.victim].sfd = f PROVE io.victim = c
  BY <1>0, <1>1, <1>3 DEF Registered
<1>4. ASSUME Close, conn[io.victim].sfd = f PROVE io.victim = c
  <2>1. opened[f] = c  BY <1>1, <1>4 DEF Close
  <2>2. CASE io.victim \in raced
    BY <1>0, <1>4, <2>1, <2>2, WhatIsClosed DEF CloseDescriptor
  <2>3. CASE io.victim \notin raced  BY <1>4, <2>1, <2>3, WhatIsClosed
  <2>4. QED  BY <2>2, <2>3
<1>5. ASSUME ReadOrphan \/ WriteOrphan PROVE fd # f
  <2>1. SUFFICES ASSUME fd = f PROVE FALSE  OBVIOUS
  <2>2. opened[f] = c  BY <1>1, <1>5 DEF ReadOrphan, WriteOrphan
  <2>3. /\ CloseDescriptor(f, c0) /\ conn[c0].sfd = None
        /\ c0 \notin raced => opened[f] = None
    BY <1>5, <2>1, WhatIsClosed
  <2>4. QED  BY <1>0, <2>2, <2>3 DEF CloseDescriptor
<1>6. QED  BY <1>0, <1>2, <1>3, <1>4, <1>5

\* Its entry is its own, and not marked before it lets go.
LEMMA Unmarked ==
  ASSUME Registered, NEW c \in Conn \ raced, NEW f \in Fd, conn[c].sfd = f,
         ~Unregistered(c)
  PROVE  /\ fds[f] # None /\ fds[f].conn = c
         /\ io.pc \notin {"close", "retry", "connect"} => "deletion" \notin fds[f].flags
BY DEF Registered, Marked

\* A handler that runs for the descriptor is one of its connection.
LEMMA Served ==
  ASSUME InductiveInvariant, Registered, NEW c \in Conn \ raced, NEW f \in Fd, conn[c].sfd = f,
         ~BeingMade(c), io.eh # None, io.pc \notin {"skip", "erase"}, fd = f
  PROVE  c0 = c
<1>1. fds[f].conn = c  BY Unmarked DEF BeingMade, Unregistered
<1>2. QED  BY <1>1 DEF InductiveInvariant, InUse

\* And a handler of the connection runs for its descriptor.
LEMMA ServesIts ==
  ASSUME InductiveInvariant, NEW c \in Conn \ raced, NEW f \in Fd, conn[c].sfd = f,
         io.eh # None, c0 = c, io.pc \notin {"skip", "erase", "check", "visit"}
  PROVE  fd = f
<1>1. f # None  BY EngineAssumption
<1>2. io.pc \in {"read", "error", "rearm", "move", "send", "sent", "update", "update_poll", "made",
                 "delete", "close", "clear", "store", "clear_poll", "write", "more"}
  BY DEF InductiveInvariant, TypeOK, ThreadTypes, Control, IoThread, Pcs
<1>3. QED  BY <1>1, <1>2 DEF InductiveInvariant, Serving, Gone

\* Registered is kept: only close() and a retry mark the entry of a connection, and only once
\* they have let go of the descriptor is it removed or replaced.
LEMMA RegisteredStep ==
  ASSUME InductiveInvariant, PolledOnce, Registered, Writing, Handing, [OtherNext]_vars
  PROVE  Registered'
<1> USE EngineAssumption, ConnectionAssumption
<1>0. /\ EngineTypes /\ ThreadTypes /\ ConnTypes /\ io \in IoThread
      /\ Control /\ Closing /\ Making /\ Making' /\ Owning /\ Opening /\ Registered
      /\ UNCHANGED opener
  BY MakingStep, OpeningStays DEF InductiveInvariant, TypeOK, ThreadTypes, opening
<1>1. ASSUME io'.pc \in {"retry", "connect"} PROVE opened'[conn'[io'.victim].sfd] = None
  <2>1. CASE RetryDelete
    <3>1. UNCHANGED <<opened, conn>> /\ io.pc = "retry" /\ io'.victim = io.victim
      BY <1>0, <2>1, IoMoves DEF RetryDelete, DeleteSocket, Pcs
    <3>2. QED  BY <1>0, <3>1 DEF Registered
  <2>2. ASSUME NEW c \in Conn, RetryClose(c) PROVE opened'[conn'[io'.victim].sfd] = None
    <3>1. io'.victim = c  BY <1>0, <2>2 DEF RetryClose, IoThread
    <3>2. conn[c].sfd \in Fd /\ CloseDescriptor(conn[c].sfd, c)  BY <2>2, WhatIsClosed
    <3>3. UNCHANGED conn  BY <2>2 DEF RetryClose
    <3>4. QED  BY <1>0, <3>1, <3>2, <3>3 DEF CloseDescriptor, EngineTypes
  <2>3. CASE UNCHANGED io
    <3>1. io.pc \in {"retry", "connect"} /\ io.victim \in Conn  BY <1>0, <1>1, <2>3 DEF Closing
    <3>2. ~RetryConnect
      <4>1. RetryConnect => io'.pc = "made"  BY Reconnecting
      <4>2. QED  BY <1>1, <4>1
    <3>3. UNCHANGED opened /\ Same(io.victim)
      BY <3>1, <3>2, Descriptors DEF Construct, Close, RetryClose, ReadOrphan, WriteOrphan
    <3>4. QED  BY <1>0, <2>3, <3>1, <3>3 DEF Registered, Same
  <2>4. QED  BY <1>1, <2>1, <2>2, <2>3, Arriving
<1>2. ASSUME NEW c \in Conn \ raced', NEW f \in Fd, conn'[c].sfd = f, conn[c].sfd = f
      PROVE  /\ \/ Unregistered(c)'
                \/ /\ fds'[f] # None /\ fds'[f].conn = c
                   /\ "deletion" \in fds'[f].flags =>
                        io'.pc \in {"close", "retry", "connect"} /\ conn'[io'.victim].sfd = f
             /\ BeingMade(c)' \/ Polled(f)' # 0
             /\ io'.pc = "erase" => fd' # f
  <2>0. /\ c \notin raced /\ f # None
        /\ maker.pc # "rest" /\ conn[maker.conn].sfd = f => maker.conn = c
        /\ io.pc \in {"retry", "connect"} /\ conn[io.victim].sfd = f => io.victim = c
        /\ Close /\ conn[io.victim].sfd = f => io.victim = c
        /\ ReadOrphan \/ WriteOrphan => fd # f
    BY <1>2, OneOwner
  <2>1. /\ ~(Close /\ conn[io.victim].sfd = f)
        /\ RetryConnect /\ io.victim = c => maker'.pc = "entry" /\ maker'.conn = c
    <3>1. RetryConnect /\ io.victim = c => maker'.pc = "entry" /\ maker'.conn = c
      BY Reconnecting
    <3>2. Close /\ io.victim = c => conn'[c].sfd = None
      BY <1>0 DEF Close, Closing, ConnTypes, Members
    <3>3. QED  BY <1>2, <2>0, <3>1, <3>2
  <2>2. CASE maker.pc = "entry" /\ maker.conn = c
    <3> USE DEF Unregistered
    <3>1. io.pc = "made"  BY <1>0, <2>2 DEF Making
    <3>2. maker'.pc # "rest" /\ maker'.conn = c /\ (MakeEntry \/ maker'.pc = "entry")
      BY <1>0, <2>2, <3>1, MakesAlone
      DEF Construct, MakeEntry, MakePoll, RetryConnect, Resting, ThreadTypes
    <3>3. io'.pc = "made" /\ BeingMade(c)'  BY <1>0, <3>2 DEF Making, BeingMade
    <3>4. CASE maker'.pc = "entry"  BY <3>2, <3>3, <3>4
    <3>5. CASE MakeEntry
      <4>1. fds' = [fds EXCEPT ![f] = Entry(c, conn[c].nth, All)]
        BY <1>2, <2>0, <2>2, <3>5 DEF MakeEntry, RegisterEntry
      <4>2. fds'[f] = Entry(c, conn[c].nth, All)  BY <1>0, <4>1 DEF EngineTypes
      <4>3. conn[c].nth \in Nat  BY <1>0 DEF ConnTypes, Members
      <4>4. fds'[f] # None /\ fds'[f].conn = c /\ "deletion" \notin fds'[f].flags
        BY <4>2, <4>3 DEF Entry, All, Flags
      <4>5. QED  BY <3>3, <4>4
    <3>6. QED  BY <3>2, <3>4, <3>5
  <2>e. ASSUME io.pc = "erase" => fd # f, ~(Check /\ f = fd /\ Marked(fd)), io'.pc = "erase", fd' = f
        PROVE  FALSE
    <3>1. CASE UNCHANGED io  BY <2>e, <3>1 DEF fd
    <3>2. CASE Check
      <4>1. io.pc = "check" /\ io.ready # <<>>
        BY <1>0, <3>2, AtWork DEF Check, Control
      <4>2. Skip.pc = "visit"  BY <1>0, <4>1, Skipping
      <4>3. fds[fd] # None /\ Marked(fd) /\ Go("erase")  BY <2>e, <3>2, <4>2 DEF Check
      <4>4. fd' = fd  BY <1>0, <4>3, IoMoves DEF fd, Pcs
      <4>5. QED  BY <2>e, <3>2, <4>3, <4>4
    <3>3. QED  BY <2>e, <3>1, <3>2, Arriving
  <2>o. CASE opener.pc = "entry" /\ opener.conn = c
    <3>1. io.ready # <<>> => fd # f
      <4>1. io.ready # <<>> => 1 \in 1..Len(io.ready) /\ fd = io.ready[1].fd
        BY <1>0 DEF IoThread, fd
      <4>2. QED  BY <1>0, <1>2, <2>o, <4>1 DEF Opening
    <3>2. Check \/ io.pc = "erase" => io.ready # <<>>  BY <1>0 DEF Check, Control
    <3>3. Unregistered(c)' /\ BeingMade(c)'  BY <1>0, <2>o DEF Unregistered, BeingMade
    <3>4. QED  BY <2>e, <3>1, <3>2, <3>3
  <2>3. CASE ~Unregistered(c)
    <3>1. /\ fds[f] # None /\ fds[f].conn = c
          /\ Marked(f) => io.pc \in {"close", "retry", "connect"} /\ conn[io.victim].sfd = f
          /\ BeingMade(c) \/ Polled(f) # 0
          /\ io.pc = "erase" => fd # f
      BY <1>0, <1>2, <2>0, <2>3 DEF Registered
    <3>2. /\ ~(MakeEntry /\ f = conn[maker.conn].sfd)
          /\ ~(Check /\ f = fd /\ Marked(fd))
      <4>1. ~(MakeEntry /\ f = conn[maker.conn].sfd)
        BY <2>0, <2>3 DEF MakeEntry, Unregistered
      <4>2. ~(Check /\ f = fd /\ Marked(fd))
        <5>1. Check => io.pc = "check"  BY DEF Check
        <5>2. f = fd /\ Marked(fd) => Marked(f)  OBVIOUS
        <5>3. QED  BY <3>1, <5>1, <5>2
      <4>3. QED  BY <4>1, <4>2
    <3>3. BeingMade(c)' \/ Polled(f)' # 0
      <4>1. CASE Polled(f) # 0
        BY <3>2, <4>1, PollSteps DEF PollKept
      <4>o. CASE opener.pc # "rest" /\ opener.conn = c
        BY <1>0, <4>o DEF BeingMade
      <4>2. CASE maker.pc # "rest" /\ maker.conn = c
        <5>1. CASE MakePoll
          <6>1. conn[maker.conn].sfd = f  BY <1>2, <4>2 DEF BeingMade
          <6>2. RegisterPoll(f, All) /\ maker.pc = "poll"
            BY <2>0, <5>1, <6>1 DEF MakePoll
          <6>3. Polled(f) = 0  BY <6>1, <6>2 DEF PolledOnce
          <6>4. EngineTypes' /\ All \in SUBSET Flags
            BY EngineTypesStep DEF All, Flags
          <6>5. QED  BY <1>0, <6>2, <6>3, <6>4, PollOperations
        <5>2. CASE ~MakePoll
          <6>1. maker'.conn = maker.conn /\ maker'.pc # "rest"
            <7>1. io.pc = "made"  BY <1>0, <4>2 DEF Making
            <7>2. ~RetryConnect  BY <7>1, Reconnecting
            <7>3. \A d \in Conn : ~Construct(d)  BY <7>1 DEF Construct
            <7>4. MakeEntry => maker'.conn = maker.conn /\ maker'.pc = "poll"
              BY <1>0 DEF MakeEntry, ThreadTypes, Resting
            <7>5. QED  BY <4>2, <5>2, <7>1, <7>2, <7>3, <7>4, MakesAlone
          <6>2. QED  BY <4>2, <6>1 DEF BeingMade
        <5>3. QED  BY <5>1, <5>2
      <4>3. QED  BY <3>1, <4>1, <4>o, <4>2 DEF BeingMade
    <3>4. ASSUME io'.pc = "erase", fd' = f PROVE FALSE
      BY <2>e, <3>1, <3>2, <3>4
    <3> DEFINE Let == /\ fds'[f] # None /\ fds'[f].conn = c
                      /\ "deletion" \in fds'[f].flags =>
                           io'.pc \in {"close", "retry", "connect"} /\ conn'[io'.victim].sfd = f
               Anew == Unregistered(c)'
    <3>5. ASSUME fds'[f] # None, fds'[f].conn = c, "deletion" \in fds'[f].flags => Marked(f)
          PROVE  Let \/ Anew
      <4>1. CASE ~Marked(f)  BY <3>5, <4>1
      <4>2. CASE Marked(f)
        <5>1. io.pc \in {"close", "retry", "connect"} /\ conn[io.victim].sfd = f /\ io.victim \in Conn
          BY <1>0, <3>1, <4>2 DEF Closing, Deleting
        <5>2. CASE RetryConnect
          <6>1. io.victim = c  BY <2>0, <5>1, <5>2 DEF RetryConnect
          <6>2. QED  BY <2>1, <5>2, <6>1 DEF Unregistered
        <5>3. CASE RetryDelete
          <6>1. io'.pc = "connect" /\ io'.victim = io.victim /\ UNCHANGED conn
            BY <1>0, <5>3, IoMoves DEF RetryDelete, Pcs
          <6>2. QED  BY <3>5, <5>1, <6>1
        <5>4. CASE UNCHANGED io /\ ~RetryConnect
          <6>1. conn'[io.victim].sfd = f
            BY <2>0, <2>1, <5>1, <5>4, LetsGo
          <6>2. QED  BY <3>5, <5>1, <5>4, <6>1
        <5>5. ~Close  BY <2>1, <5>1
        <5>6. UNCHANGED io \/ RetryDelete \/ RetryConnect
          BY <5>1, <5>5, ClosesNext, RetriesAlone
        <5>7. QED  BY <5>2, <5>3, <5>4, <5>6
      <4>3. QED  BY <4>1, <4>2
    <3>6. fds[f] \in Entries  BY <1>0, <3>1 DEF EngineTypes
    <3>7. ASSUME NEW new \in SUBSET Flags, fds'[f] = [fds[f] EXCEPT !.flags = new]
          PROVE  fds'[f] # None /\ fds'[f].conn = c /\ fds'[f].flags = new
      BY <3>1, <3>6, <3>7 DEF Entries
    <3>8. ASSUME fds'[f] = fds[f] PROVE Let \/ Anew
      BY <3>1, <3>5, <3>8 DEF Marked
    <3>9. ASSUME fds'[f] = [fds[f] EXCEPT !.flags = fds[f].flags \cup {"write"}]
          PROVE  Let \/ Anew
      <4>1. fds[f].flags \cup {"write"} \in SUBSET Flags  BY <3>6 DEF Entries, Flags
      <4>2. QED  BY <3>5, <3>7, <3>9, <4>1 DEF Marked
    <3>10. ASSUME Delete \/ RetryDelete, f = conn[io.victim].sfd,
                  fds'[f] = [fds[f] EXCEPT !.flags = {"deletion"}]
           PROVE  Let \/ Anew
      <4>1. {"deletion"} \in SUBSET Flags  BY DEF Flags
      <4>2. Delete => io'.pc = "close" /\ io'.victim = io.victim
        BY <1>0, <2>0, <3>10, IoMoves DEF Delete, Pcs
      <4>3. RetryDelete => io'.pc = "connect" /\ io'.victim = io.victim
        BY <1>0, IoMoves DEF RetryDelete, Pcs
      <4>4. Delete \/ RetryDelete => io.victim \in Conn /\ io.pc \in {"delete", "retry"}
        BY <1>0 DEF Delete, RetryDelete, Closing, Deleting
      <4>5. conn'[io.victim].sfd = f
        <5>1. ~Close /\ ~RetryConnect  BY <3>10, <4>4 DEF Close, RetryConnect
        <5>2. QED  BY <2>0, <3>10, <4>4, <5>1, LetsGo
      <4>6. QED  BY <3>7, <3>10, <4>1, <4>2, <4>3, <4>5
    <3>11. ASSUME f = fd,
                  \/ ClearStore /\ fds'[f] = [fds[f] EXCEPT !.flags = io.flags]
                  \/ Update /\ fds'[f] = Entry(c0, io.eh.nth, io.flags)
           PROVE  Let \/ Anew
      <4>1. /\ io.eh # None /\ io.pc \in {"store", "update"}
            /\ io.pc = "update" <=> Update
        BY <1>0, <3>11 DEF ClearStore, Update, Control
      <4>2. c0 = c
        <5>1. fds[fd].conn = c0 \/ c \in raced
          BY <3>1, <3>11, <4>1 DEF InductiveInvariant, InUse
        <5>2. QED  BY <2>0, <3>1, <3>11, <5>1
      <4>3. c0 = c  BY <4>2
      <4>4. "deletion" \notin io.flags
        BY <1>2, <2>0, <3>11, <4>1, <4>3 DEF Handing, Updating
      <4>5. CASE ClearStore
        <5>1. fds'[f] = [fds[f] EXCEPT !.flags = io.flags]  BY <3>11, <4>1, <4>5 DEF ClearStore
        <5>2. io.flags \in SUBSET Flags  BY <1>0 DEF IoThread
        <5>3. QED  BY <3>7, <4>4, <5>1, <5>2
      <4>6. CASE Update
        <5>1. fds'[f] = Entry(c, io.eh.nth, io.flags)  BY <3>11, <4>1, <4>3, <4>6 DEF ClearStore
        <5>2. io.eh.nth \in Nat /\ io.flags \in SUBSET Flags  BY <1>0, <4>1, AtWork DEF IoThread
        <5>3. fds'[f] # None /\ fds'[f].conn = c /\ fds'[f].flags = io.flags
          BY <5>1, <5>2 DEF Entry
        <5>4. QED  BY <4>4, <5>3
      <4>7. QED  BY <3>11, <4>5, <4>6
    <3>12. ASSUME WriteBack, f = writer.fd, fds'[f] = writer.entry
           PROVE  Let \/ Anew
      <4>1. writer.entry \in Entries /\ writer.pc = "copied" /\ writer.entry.conn = c
            /\ writer.entry.nth = fds[f].nth
        BY <1>2, <3>1, <3>12, WritesBack DEF WriteBack
      <4>2. writer.entry # None  BY <4>1 DEF Entries
      <4>3. "deletion" \in writer.entry.flags => Marked(f)
        BY <2>0, <3>1, <3>12, <4>1 DEF Writing
      <4>4. QED  BY <3>5, <3>12, <4>1, <4>2, <4>3
    <3>r. ASSUME RetryConnect, opened[f] = None PROVE Anew
      <4>1. io.pc \in {"retry", "connect"} /\ io.victim = c
        BY <1>0, <1>2, <2>0, <3>r DEF Owning, RetryConnect
      <4>2. QED  BY <2>1, <3>r, <4>1 DEF Unregistered
    <3>13. Let \/ Anew
      BY <2>0, <3>1, <3>2, <3>8, <3>9, <3>10, <3>11, <3>12, <3>r, EntryChanges DEF Erase
    <3>14. QED  BY <3>3, <3>4, <3>13
  <2>4. QED  BY <2>2, <2>o, <2>3 DEF Unregistered
<1>3. ASSUME NEW c \in Conn \ raced', NEW f \in Fd, conn'[c].sfd = f, conn[c].sfd # f
      PROVE  Unregistered(c)' /\ BeingMade(c)' /\ io'.pc # "erase"
  <2>1. maker'.pc = "entry" /\ maker'.conn = c  BY <1>3, Gets
  <2>2. QED  BY <1>0, <2>1 DEF Making, BeingMade, Unregistered
<1>4. QED  BY <1>1, <1>2, <1>3 DEF Registered, Marked

------------------------------------------------------------------------------
(* Output.                                                                    *)

\* Which steps change the members of a connection.
LEMMA ConnChanges ==
  ASSUME InductiveInvariant, [OtherNext]_vars, NEW c \in Conn
  PROVE  \/ conn'[c] = conn[c]
         \/ SocketWrite(c)
         \/ /\ io.eh # None /\ c0 = c
            /\ ReadReply \/ ReadEarly \/ WriteEarly \/ Move \/ SendPlain \/ Sent
         \/ (Delete \/ Close \/ RetryConnect) /\ io.victim = c
         \/ Construct(c)
<1>0. EngineTypes /\ ConnTypes /\ Control /\ Closing
  BY DEF InductiveInvariant, TypeOK
<1>1. ASSUME NEW d \in Conn, NEW new, conn' = [conn EXCEPT ![d] = new], d # c
      PROVE  conn'[c] = conn[c]
  BY <1>0, <1>1 DEF ConnTypes
<1>2. ASSUME NEW d \in Conn, SocketWrite(d), d # c PROVE conn'[c] = conn[c]
  BY <1>0, <1>2 DEF SocketWrite, ConnTypes
<1>3. CASE Delete \/ Close \/ RetryConnect
  <2>1. io.victim \in Conn
    BY <1>0, <1>3 DEF Delete, Close, RetryConnect, Closing, Deleting
  <2>2. RetryConnect /\ io.victim # c => conn'[c] = conn[c]
    BY Reconnecting
  <2>3. (Delete \/ Close) /\ io.victim # c => conn'[c] = conn[c]
    BY <1>0, <2>1 DEF Delete, Close, ConnTypes
  <2>4. QED  BY <1>3, <2>2, <2>3
<1>4. CASE ReadReply \/ ReadEarly \/ WriteEarly \/ Move \/ SendPlain \/ Sent
  <2>1. io.eh # None
    BY <1>0, <1>4 DEF ReadReply, ReadEarly, WriteEarly, Move, SendPlain, Sent, Control
  <2>2. c0 # c => conn'[c] = conn[c]
    BY <1>0, <1>4 DEF ReadReply, ReadEarly, WriteEarly, Move, SendPlain, Sent, Handshake, ConnTypes
  <2>3. QED  BY <1>4, <2>1, <2>2
<1>5. ASSUME NEW d \in Conn, Construct(d), d # c
      PROVE  conn'[c] = conn[c]
  <2>1. PICK f \in Available : Constructed(d, f)  BY <1>5 DEF Construct
  <2>2. \A other \in Conn \ {d} : conn'[other] = conn[other]
    BY <1>0, <2>1, Constructing
  <2>3. QED  BY <1>5, <2>2
<1>6. CASE UNCHANGED conn  BY <1>6
<1>7. QED
  BY <1>2, <1>3, <1>4, <1>5, <1>6
  DEF OtherNext, vars, threads, Loop, Make, MakeEntry, MakePoll, Write, MarkWrite, WriteBack,
      WriteBackPoll, PeerSends, PeerBreaks, Poll, Visit, HandleError, Continue, Check, Update,
      UpdatePolled, Erase, ClearLoad, ClearStore, ClearPoll, ReadPlain, ReadTls, Rearm, More,
      SendTls, ReadClosesOther, TimeOut, RetryClose, RetryDelete, ReadOrphan, WriteOrphan, Orphan

\* The thread that writes goes through its calls.
LEMMA WriterSteps ==
  ASSUME [OtherNext]_vars
  PROVE  \/ UNCHANGED writer \/ MarkWrite \/ WriteBack \/ WriteBackPoll
         \/ \E c \in Conn : SocketWrite(c)
BY DEF OtherNext, vars, threads, Loop, Make, MakeEntry, MakePoll, Write,
       PeerSends, PeerBreaks, Poll, Visit, HandleError, Continue, Check, Update, UpdatePolled,
       Erase, ClearLoad, ClearStore, ClearPoll, ReadPlain, ReadTls, ReadEarly, Rearm, WriteEarly,
       Move, SendPlain, More, SendTls, Sent, Close, RetryConnect, ReadReply, ReadClosesOther,
       TimeOut, RetryClose, Construct, Constructed, Delete, RetryDelete, ReadOrphan, WriteOrphan, Orphan

\* Output is taken out of a buffer only by its connection, under the lock, or with the descriptor.
LEMMA OutputStays ==
  ASSUME InductiveInvariant, [OtherNext]_vars, NEW c \in Conn, conn'[c].sfd # None
  PROVE  \/ conn'[c].obuffer >= conn[c].obuffer /\ conn[c].sfd # None
         \/ conn'[c].obuffer > 0
         \/ Move /\ io.eh # None /\ c0 = c
         \/ RetryConnect /\ io.victim = c /\ ~Held(c)
<1> USE EngineAssumption
<1>0. EngineTypes /\ ConnTypes /\ ConnTypes' /\ Closing /\ conn[c] \in Members /\ conn'[c] \in Members
  BY TypeStep DEF InductiveInvariant, TypeOK, ConnTypes
<1>1. CASE conn'[c] = conn[c]  BY <1>0, <1>1 DEF Members
<1>2. CASE SocketWrite(c)
  BY <1>0, <1>2 DEF SocketWrite, ConnTypes, Members
<1>3. CASE /\ io.eh # None /\ c0 = c
           /\ ReadReply \/ ReadEarly \/ WriteEarly \/ Sent
  <2>1. \/ conn' = [conn EXCEPT ![c].obuffer = @ + 1]
        \/ \E p : conn' = [conn EXCEPT ![c].phase = p]
        \/ conn' = [conn EXCEPT ![c].length = 0]
        \/ UNCHANGED conn
    <3>1. ReadReply => conn' = [conn EXCEPT ![c].obuffer = @ + 1]  BY <1>3 DEF ReadReply
    <3>2. ReadEarly \/ WriteEarly => UNCHANGED conn \/ \E p : conn' = [conn EXCEPT ![c].phase = p]
      BY <1>3 DEF ReadEarly, WriteEarly, Handshake
    <3>3. Sent => conn' = [conn EXCEPT ![c].length = 0]  BY <1>3 DEF Sent
    <3>4. QED  BY <1>3, <3>1, <3>2, <3>3
  <2>2. /\ conn'[c].sfd = conn[c].sfd
        /\ conn'[c].obuffer = conn[c].obuffer \/ conn'[c].obuffer = conn[c].obuffer + 1
    BY <1>0, <2>1 DEF ConnTypes, Members
  <2>3. QED  BY <1>0, <2>2 DEF Members
<1>4. CASE io.eh # None /\ c0 = c /\ SendPlain
  <2>1. UNCHANGED conn \/ \E r : conn' = [conn EXCEPT ![c].length = @ - r]
    BY <1>4 DEF SendPlain
  <2>2. conn'[c].sfd = conn[c].sfd /\ conn'[c].obuffer = conn[c].obuffer
    BY <1>0, <2>1 DEF ConnTypes, Members
  <2>3. QED  BY <1>0, <2>2 DEF Members
<1>5. CASE Delete /\ io.victim = c
  <2>1. /\ conn'[c].sfd = conn[c].sfd
        /\ conn'[c].obuffer = IF conn[c].sfd = None THEN 0 ELSE conn[c].obuffer
    BY <1>0, <1>5 DEF Delete, ConnTypes, Members
  <2>2. QED  BY <1>0, <2>1 DEF Members
<1>6. CASE Close /\ io.victim = c
  BY <1>0, <1>6 DEF Close, ConnTypes, Members
<1>7. CASE RetryConnect /\ io.victim = c
  <2>1. conn[c].sfd # None /\ (conn'[c].obuffer = conn[c].obuffer \/ ~Held(c))
    BY <1>7, Reconnecting
  <2>2. QED  BY <1>0, <1>7, <2>1 DEF Members
<1>8. ASSUME Construct(c) PROVE conn'[c].obuffer > 0
  <2>1. PICK f \in Available : Constructed(c, f)  BY <1>8 DEF Construct
  <2>2. PICK phase \in {"start", "up", "handshake"} :
          conn'[c] = [sfd |-> f, phase |-> phase, obuffer |-> 1, length |-> 0, nth |-> 1]
    BY <1>0, <2>1, Constructing
  <2>3. QED  BY <2>2
<1>9. QED  BY <1>1, <1>2, <1>3, <1>4, <1>5, <1>6, <1>7, <1>8, ConnChanges

\* What MarkWrite does.
LEMMA Marks ==
  ASSUME InductiveInvariant, MarkWrite
  PROVE  /\ writer.pc = "mark" /\ writer.conn \in Conn
         /\ UNCHANGED <<conn, io, maker, poll_set, opened>>
         /\ \/ /\ writer' = Resting /\ UNCHANGED <<fds, raced>>
               /\ \A f \in Fd : conn[writer.conn].sfd = f => fds[f] = None \/ "write" \in fds[f].flags
            \/ \E f \in Fd, e \in Entries :
                 /\ conn[writer.conn].sfd = f /\ fds[f] \in Entries
                 /\ "write" \notin fds[f].flags
                 /\ e.conn = fds[f].conn /\ e.nth = fds[f].nth
                 /\ e.flags = fds[f].flags \cup {"write"}
                 /\ writer' = [pc |-> "copied", conn |-> writer.conn, fd |-> f, entry |-> e]
                 /\ fds' = [fds EXCEPT ![f] = e] /\ fds'[f] = e
                 /\ raced' = IF e.conn # writer.conn THEN raced \cup {e.conn, writer.conn} ELSE raced
<1> USE EngineAssumption
<1>0. EngineTypes /\ ThreadTypes /\ ConnTypes  BY DEF InductiveInvariant, TypeOK
<1>1. writer.pc = "mark" /\ writer.conn \in Conn /\ conn[writer.conn].sfd \in Fd \cup {None}
  BY <1>0 DEF MarkWrite, ThreadTypes, Resting, ConnTypes, Members
<1>2. PICK f : f = conn[writer.conn].sfd  OBVIOUS
<1>3. CASE f = None \/ (f # None /\ (fds[f] = None \/ "write" \in fds[f].flags))
  <2>1. writer' = Resting /\ UNCHANGED <<engine, raced, conn, io, maker>>
    BY <1>2, <1>3 DEF MarkWrite
  <2>2. QED  BY <1>1, <1>2, <1>3, <2>1 DEF engine
<1>4. CASE f # None /\ fds[f] # None /\ "write" \notin fds[f].flags
  <2>1. f \in Fd /\ fds[f] \in Entries  BY <1>0, <1>1, <1>2, <1>4 DEF EngineTypes
  <2>2. PICK e : e = [fds[f] EXCEPT !.flags = @ \cup {"write"}]  OBVIOUS
  <2>3. /\ UpdateEntry(f, e)
        /\ writer' = [pc |-> "copied", conn |-> writer.conn, fd |-> f, entry |-> e]
        /\ raced' = IF e.conn # writer.conn THEN raced \cup {e.conn, writer.conn} ELSE raced
        /\ UNCHANGED <<conn, io, maker>>
    BY <1>2, <1>4, <2>2 DEF MarkWrite
  <2>4. fds[f].flags \cup {"write"} \in SUBSET Flags  BY <2>1 DEF Entries, Flags
  <2>5. /\ e \in Entries /\ e.conn = fds[f].conn /\ e.nth = fds[f].nth
        /\ e.flags = fds[f].flags \cup {"write"}
    BY <2>1, <2>2, <2>4 DEF Entries
  <2>6. fds' = [fds EXCEPT ![f] = e] /\ fds'[f] = e /\ UNCHANGED <<poll_set, opened>>
    BY <1>0, <1>4, <2>1, <2>3 DEF UpdateEntry, EngineTypes
  <2>7. QED  BY <1>1, <1>2, <1>4, <2>1, <2>3, <2>5, <2>6
<1>5. QED  BY <1>3, <1>4

\* The connection that is served was registered before.
LEMMA AlreadyMade ==
  ASSUME InductiveInvariant, io.eh # None
  PROVE  ~BeingMade(c0) /\ ~Unregistered(c0)
<1>1. c0 \in Conn  BY AtWork
<1>2. maker.pc # "rest" => maker.conn # c0  BY DEF InductiveInvariant, Making
<1>3. opener.pc # "rest" => opener.conn # c0
  BY <1>1 DEF InductiveInvariant, OpenedApart, Apart
<1>4. QED  BY <1>2, <1>3 DEF BeingMade, Unregistered

\* Writing is kept.
LEMMA WritingStep ==
  ASSUME InductiveInvariant, Registered, Numbered, Writing, [OtherNext]_vars
  PROVE  Writing'
<1> USE EngineAssumption, ConnectionAssumption
<1>0. /\ EngineTypes /\ ThreadTypes /\ ConnTypes /\ Control /\ Making /\ Serving /\ InUse
      /\ Writing /\ raced \subseteq raced'
  BY RacedGrows DEF InductiveInvariant, TypeOK
<1>1. ASSUME NEW c \in Conn, Held(c)', conn'[c].sfd # None PROVE conn'[c].obuffer > 0
  <2>1. conn[c].obuffer \in Nat /\ conn'[c].obuffer \in Nat
    BY TypeStep DEF InductiveInvariant, TypeOK, ConnTypes, Members
  <2>2. CASE Held(c)
    <3>1. ~(Move /\ c0 = c)  BY <2>2 DEF Move
    <3>2. QED  BY <1>0, <1>1, <2>1, <2>2, <3>1, OutputStays DEF Writing
  <2>3. CASE ~Held(c)
    <3>1. SocketWrite(c)
      BY <1>0, <1>1, <2>3, WriterSteps
      DEF Held, SocketWrite, MarkWrite, WriteBack, WriteBackPoll, Resting, ThreadTypes
    <3>2. QED  BY <1>0, <2>1, <3>1 DEF SocketWrite, ConnTypes, Members
  <2>4. QED  BY <2>2, <2>3
<1>2. ASSUME writer'.pc \in {"copied", "poll"}
      PROVE  /\ "write" \in writer'.entry.flags
             /\ writer'.entry.conn = writer'.conn \/ writer'.entry.conn \in raced'
  <2>1. CASE MarkWrite
    <3>1. writer' # Resting  BY <1>2 DEF Resting
    <3>2. PICK f \in Fd, e \in Entries :
            /\ e.flags = fds[f].flags \cup {"write"}
            /\ writer' = [pc |-> "copied", conn |-> writer.conn, fd |-> f, entry |-> e]
            /\ raced' = IF e.conn # writer.conn THEN raced \cup {e.conn, writer.conn} ELSE raced
      BY <2>1, <3>1, Marks
    <3>3. QED  BY <3>2
  <2>2. CASE writer.pc \in {"copied", "poll"} /\ writer'.entry = writer.entry
             /\ writer'.conn = writer.conn
    BY <1>0, <2>2 DEF Writing
  <2>3. CASE WriteBack
    BY <1>0, <1>2, <2>2, <2>3 DEF WriteBack, Resting, ThreadTypes
  <2>4. QED
    BY <1>2, <2>1, <2>2, <2>3, WriterSteps DEF WriteBackPoll, SocketWrite, Resting
<1>3. ASSUME writer'.pc = "copied", "deletion" \in writer'.entry.flags, fds'[writer'.fd] # None,
             writer'.entry.conn \notin raced',
             fds'[writer'.fd].conn = writer'.entry.conn, fds'[writer'.fd].nth = writer'.entry.nth
      PROVE  "deletion" \in fds'[writer'.fd].flags
  <2>1. CASE MarkWrite
    <3>1. writer' # Resting  BY <1>3 DEF Resting
    <3>2. PICK f \in Fd, e \in Entries :
            /\ writer' = [pc |-> "copied", conn |-> writer.conn, fd |-> f, entry |-> e]
            /\ fds'[f] = e
      BY <2>1, <3>1, Marks
    <3>3. QED  BY <1>3, <3>2
  <2>2. CASE UNCHANGED writer
    <3>1. PICK f \in Fd : f = writer.fd
      BY <1>0, <1>3, <2>2 DEF ThreadTypes, Resting
    <3>2. PICK e \in Entries : e = writer.entry
      BY <1>0, <1>3, <2>2 DEF ThreadTypes, Resting
    <3>3. /\ writer.pc = "copied" /\ "deletion" \in e.flags /\ e.conn \notin raced
          /\ fds'[f] # None /\ fds'[f].conn = e.conn /\ fds'[f].nth = e.nth
      BY <1>0, <1>3, <2>2, <3>1, <3>2
    <3>4. ASSUME fds[f] # None, fds[f].conn = e.conn, fds[f].nth = e.nth PROVE Marked(f)
      BY <1>0, <3>1, <3>2, <3>3, <3>4 DEF Writing
    <3>5. CASE fds'[f] = fds[f]  BY <1>3, <2>2, <3>1, <3>3, <3>4, <3>5 DEF Marked
    <3>6. CASE fds[f] # None /\ fds'[f].conn = fds[f].conn /\ fds'[f].nth = fds[f].nth
               /\ (Marked(f) => Marked(f)')
      BY <1>3, <2>2, <3>1, <3>3, <3>4, <3>6 DEF Marked
    <3>7. CASE MakeEntry /\ fds'[f] = Entry(maker.conn, conn[maker.conn].nth, All)
      <4>1. maker.pc = "entry" /\ e.conn = maker.conn /\ e.nth = conn[maker.conn].nth
        BY <3>3, <3>7 DEF MakeEntry, Entry
      <4>2. Before(e)  BY <3>2, <3>3 DEF Numbered
      <4>3. conn[maker.conn].nth \in Nat  BY <1>0, <3>2, <4>1 DEF Entries, ConnTypes, Members
      <4>4. QED  BY <4>1, <4>2, <4>3 DEF Before, Unregistered
    <3>8. ~WriteBack
      <4>1. WriteBack => writer'.pc # "copied"
        BY <1>0 DEF WriteBack, Resting, ThreadTypes
      <4>2. QED  BY <1>3, <4>1
    <3>9. ASSUME fds[f] # None, f = fd, io.eh # None, io.pc \in {"update", "store"},
                 c0 = e.conn, fds[f].conn = c0 => fds[f].nth = e.nth
          PROVE  Marked(f) /\ (io.pc = "store" => "deletion" \in io.flags) /\ io.pc # "update"
      <4>1. fds[f].conn = c0 /\ fds[f].nth = e.nth
        BY <1>0, <3>3, <3>9 DEF InUse
      <4>2. Marked(f)  BY <3>4, <3>9, <4>1
      <4>3. conn[c0].sfd # f
        <5>1. ~Unregistered(c0)  BY <3>9, AlreadyMade
        <5>2. c0 \in Conn \ raced  BY <3>2, <3>3, <3>9 DEF Entries
        <5>3. SUFFICES ASSUME conn[c0].sfd = f PROVE FALSE  OBVIOUS
        <5>4. "deletion" \notin fds[f].flags  BY <3>9, <5>1, <5>2, <5>3, Unmarked
        <5>5. QED  BY <4>2, <5>4 DEF Marked
      <4>4. QED  BY <1>0, <3>3, <3>9, <4>2, <4>3 DEF Serving
    <3>10. CASE Update /\ f = fd /\ fds[f] # None /\ fds'[f] = Entry(c0, io.eh.nth, io.flags)
      <4>1. io.pc = "update" /\ io.eh # None  BY <1>0, <3>10 DEF Update, Control
      <4>2. c0 = e.conn /\ io.eh.nth = e.nth  BY <3>3, <3>10 DEF Entry
      <4>3. fds[f].conn = c0 => fds[f].nth = e.nth
        BY <1>0, <3>3, <3>10, <4>1, <4>2 DEF InUse
      <4>4. QED  BY <3>9, <3>10, <4>1, <4>2, <4>3
    <3>11. CASE /\ ClearStore /\ f = fd /\ fds[f] # None
                /\ fds'[f].conn = fds[f].conn /\ fds'[f].nth = fds[f].nth /\ fds'[f].flags = io.flags
      <4>1. io.pc = "store" /\ io.eh # None  BY <1>0, <3>11 DEF ClearStore, Control
      <4>2. c0 = e.conn  BY <1>0, <3>3, <3>11, <4>1 DEF InUse
      <4>3. "deletion" \in io.flags  BY <3>3, <3>9, <3>11, <4>1, <4>2
      <4>4. QED  BY <2>2, <3>1, <3>11, <4>3
    <3>12. QED
      BY <3>3, <3>5, <3>6, <3>7, <3>8, <3>10, <3>11, EntrySteps DEF Erase
  <2>3. WriteBack \/ WriteBackPoll \/ (\E c \in Conn : SocketWrite(c)) => writer'.pc # "copied"
    BY <1>0 DEF WriteBack, WriteBackPoll, SocketWrite, Resting, ThreadTypes
  <2>4. QED  BY <1>3, <2>1, <2>2, <2>3, WriterSteps
<1>4. QED  BY <1>1, <1>2, <1>3 DEF Writing, Marked

\* Without TLS there is no handshake.
LEMMA PlainStays ==
  ASSUME InductiveInvariant, Handing, [OtherNext]_vars, NEW c \in Plaintext
  PROVE  conn'[c].phase # "handshake"
<1>0. EngineTypes /\ ConnTypes /\ Closing /\ c \in Conn /\ conn[c].phase # "handshake" /\ conn[c] \in Members
  BY ConnectionAssumption DEF InductiveInvariant, TypeOK, Handing, ConnTypes
<1>1. CASE conn'[c] = conn[c]  BY <1>0, <1>1
<1>2. CASE SocketWrite(c)
  <2>1. conn' = [conn EXCEPT ![c].obuffer = @ + 1]  BY <1>2 DEF SocketWrite
  <2>2. QED  BY <1>0, <2>1 DEF ConnTypes, Members
<1>3. CASE /\ io.eh # None /\ c0 = c
           /\ ReadReply \/ ReadEarly \/ WriteEarly \/ Move \/ SendPlain \/ Sent
  <2>1. \/ conn' = [conn EXCEPT ![c].obuffer = @ + 1]
        \/ conn' = [conn EXCEPT ![c].phase = "up"]
        \/ conn' = [conn EXCEPT ![c].length = 0]
        \/ \E n : conn' = [conn EXCEPT ![c].obuffer = @ - n, ![c].length = @ + n]
        \/ \E r : conn' = [conn EXCEPT ![c].length = @ - r]
        \/ UNCHANGED conn
    <3>1. ReadReply => conn' = [conn EXCEPT ![c].obuffer = @ + 1]  BY <1>3 DEF ReadReply
    <3>2. ReadEarly => UNCHANGED conn  BY <1>0, <1>3 DEF ReadEarly
    <3>3. WriteEarly => conn' = [conn EXCEPT ![c].phase = "up"]  BY <1>0, <1>3 DEF WriteEarly
    <3>4. Move => \E n : conn' = [conn EXCEPT ![c].obuffer = @ - n, ![c].length = @ + n]
      BY <1>3 DEF Move
    <3>5. SendPlain => UNCHANGED conn \/ \E r : conn' = [conn EXCEPT ![c].length = @ - r]
      BY <1>3 DEF SendPlain
    <3>6. Sent => conn' = [conn EXCEPT ![c].length = 0]  BY <1>3 DEF Sent
    <3>7. QED  BY <1>3, <3>1, <3>2, <3>3, <3>4, <3>5, <3>6
  <2>2. QED  BY <1>0, <2>1 DEF ConnTypes, Members
<1>4. CASE Delete /\ io.victim = c  BY <1>0, <1>4 DEF Delete, ConnTypes, Members
<1>5. CASE Close /\ io.victim = c  BY <1>0, <1>5 DEF Close, ConnTypes, Members
<1>6. CASE RetryConnect /\ io.victim = c  BY <1>0, <1>6, Reconnecting
<1>7. ASSUME Construct(c) PROVE conn'[c].phase # "handshake"
  <2>1. PICK f \in Available : Constructed(c, f)  BY <1>7 DEF Construct
  <2>2. PICK phase \in {"start", "up", "handshake"} :
          /\ c \in Plaintext => phase # "handshake"
          /\ conn'[c] = [sfd |-> f, phase |-> phase, obuffer |-> 1, length |-> 0, nth |-> 1]
    BY <1>0, <2>1, Constructing
  <2>3. QED  BY <2>2
<1>8. QED  BY <1>0, <1>1, <1>2, <1>3, <1>4, <1>5, <1>6, <1>7, ConnChanges

\* While a handler waits to update the tables, others at most add output.
LEMMA WhileWaiting ==
  ASSUME InductiveInvariant, [OtherNext]_vars, NEW c \in Conn,
         UNCHANGED io, io.pc \in {"update", "update_poll", "rearm", "store"}
  PROVE  /\ conn'[c].sfd = conn[c].sfd /\ conn'[c].phase = conn[c].phase
         /\ conn'[c].length = conn[c].length /\ conn'[c].obuffer >= conn[c].obuffer
<1>0. ConnTypes /\ conn[c] \in Members  BY DEF InductiveInvariant, TypeOK, ConnTypes
<1>1. CASE conn'[c] = conn[c]  BY <1>0, <1>1 DEF Members
<1>2. CASE SocketWrite(c)
  <2>1. conn' = [conn EXCEPT ![c].obuffer = @ + 1]  BY <1>2 DEF SocketWrite
  <2>2. QED  BY <1>0, <2>1 DEF ConnTypes, Members
<1>3. QED
  BY <1>1, <1>2, ConnChanges
  DEF ReadReply, ReadEarly, WriteEarly, Move, SendPlain, Sent, Delete, Close, RetryConnect,
      Construct

\* Which steps make an entry want write events while its connection is served: those of a
\* socket_write() to it.
LEMMA Wanting ==
  ASSUME InductiveInvariant, Writing, [OtherNext]_vars, NEW c \in Conn \ raced', NEW f \in Fd,
         fds[f] # None, fds[f].conn = c, fds'[f] # None,
         ~(MakeEntry /\ f = conn[maker.conn].sfd),
         "write" \notin fds[f].flags, "write" \in fds'[f].flags
  PROVE  \/ MarkWrite /\ writer.conn = c /\ f = conn[c].sfd /\ writer'.fd = f
            /\ writer'.pc = "copied" /\ writer'.conn = c
         \/ WriteBack /\ writer.conn = c /\ f = writer.fd /\ writer' = [writer EXCEPT !.pc = "poll"]
         \/ Update /\ f = fd /\ "write" \in io.flags
         \/ ClearStore /\ f = fd /\ "write" \in io.flags
<1> USE EngineAssumption
<1>0. /\ EngineTypes /\ ThreadTypes /\ c \notin raced /\ fds[f] \in Entries
  BY RacedGrows DEF InductiveInvariant, TypeOK, EngineTypes
<1>1. CASE MarkWrite
  <2>1. UNCHANGED fds \/ \E e \in Entries :
          /\ conn[writer.conn].sfd \in Fd
          /\ e.conn = fds[conn[writer.conn].sfd].conn
          /\ writer' = [pc |-> "copied", conn |-> writer.conn, fd |-> conn[writer.conn].sfd, entry |-> e]
          /\ fds' = [fds EXCEPT ![conn[writer.conn].sfd] = e]
          /\ raced' = IF e.conn # writer.conn THEN raced \cup {e.conn, writer.conn} ELSE raced
    BY <1>1, Marks
  <2>2. PICK e \in Entries :
          /\ conn[writer.conn].sfd \in Fd
          /\ e.conn = fds[conn[writer.conn].sfd].conn
          /\ writer' = [pc |-> "copied", conn |-> writer.conn, fd |-> conn[writer.conn].sfd, entry |-> e]
          /\ fds' = [fds EXCEPT ![conn[writer.conn].sfd] = e]
          /\ raced' = IF e.conn # writer.conn THEN raced \cup {e.conn, writer.conn} ELSE raced
    BY <2>1
  <2>3. f = conn[writer.conn].sfd  BY <1>0, <2>2 DEF EngineTypes
  <2>4. writer.conn = c  BY <2>2, <2>3
  <2>5. QED  BY <1>1, <2>2, <2>3, <2>4
<1>2. CASE WriteBack /\ f = writer.fd /\ fds'[f] = writer.entry
  <2>1. writer.entry.conn = c  BY <1>2, WritesBack
  <2>2. writer.conn = c  BY <1>0, <1>2, <2>1 DEF Writing, WriteBack
  <2>3. writer' = [writer EXCEPT !.pc = "poll"]  BY <1>2 DEF WriteBack
  <2>4. QED  BY <1>2, <2>2, <2>3
<1>3. ASSUME NEW new \in SUBSET Flags, fds'[f] = [fds[f] EXCEPT !.flags = new] PROVE "write" \in new
  BY <1>0, <1>3 DEF Entries
<1>4. {"deletion"} \in SUBSET Flags /\ io.flags \in SUBSET Flags
  BY DEF Flags, InductiveInvariant, TypeOK, ThreadTypes, IoThread
<1>5. CASE ClearStore /\ f = fd /\ fds'[f] = [fds[f] EXCEPT !.flags = io.flags]
  BY <1>3, <1>4, <1>5
<1>6. fds'[f] # [fds[f] EXCEPT !.flags = {"deletion"}]  BY <1>3, <1>4
<1>7. CASE Update /\ f = fd /\ fds'[f] = Entry(c0, io.eh.nth, io.flags)
  BY <1>7 DEF Entry
<1>8. QED  BY <1>1, <1>2, <1>5, <1>6, <1>7, EntryChanges

\* What the handlers give to update_socket().
LEMMA HandsOver ==
  ASSUME InductiveInvariant, Registered, Handing, [OtherNext]_vars, io.eh # None, c0 \notin raced,
         io'.pc = "update", ~ UNCHANGED io
  PROVE  /\ "deletion" \notin io'.flags
         /\ io'.then = "rearm" => c0 \notin Plaintext /\ conn'[c0].phase # "start"
         /\ "write" \notin io'.flags =>
              /\ c0 \notin Plaintext
              /\ \/ io'.then = "rearm" \/ conn'[c0].phase = "handshake"
                 \/ io'.then = "check" /\ conn'[c0].length > 0
<1>0. /\ io \in IoThread /\ Control /\ Making /\ ConnTypes /\ Serving /\ EngineTypes
      /\ fd \in Fd /\ c0 \in Conn
      /\ {"read", "rearm", "move", "check", "clear"} \subseteq Pcs
  BY AtWork DEF InductiveInvariant, TypeOK, ThreadTypes, Pcs
<1>f. {"read"} \in SUBSET Flags /\ All \in SUBSET Flags /\ All = {"read", "write"}
      /\ AfterRead \in {"clear", "check"}
  BY DEF All, Flags, AfterRead
<1>1. ASSUME NEW flags \in SUBSET Flags, NEW then \in Pcs,
             GoUpdating(flags, then) \/ GoUpdatingLocked(flags, then)
      PROVE  io'.flags = flags /\ io'.then = then
  BY <1>0, <1>1 DEF GoUpdating, GoUpdatingLocked, IoThread
<1>2. ASSUME NEW pc \in Pcs, Go(pc) \/ GoOn(pc) PROVE io'.pc = pc
  BY <1>0, <1>2, IoMoves
<1>3. ASSUME NEW pc \in Pcs, GoClosing(c0, pc) PROVE io'.pc = "delete"
  BY <1>0, <1>3, IoMoves
<1>4. ASSUME NEW done \in {"rearm", "move"}, NEW waiting \in {"rearm", "check"},
             Handshake(done, waiting)
      PROVE  /\ conn'[c0].phase \in {"up", "handshake"}
             /\ \/ io'.flags = All /\ io'.then \in {done, waiting}
                \/ io'.flags = {"read"} /\ io'.then = waiting /\ conn'[c0].phase = "handshake"
  <2>1. \/ conn' = [conn EXCEPT ![c0].phase = "up"] /\ GoUpdating(All, done)
        \/ /\ conn' = [conn EXCEPT ![c0].phase = "handshake"]
           /\ GoUpdating({"read"}, waiting) \/ GoUpdating(All, waiting)
    BY <1>0, <1>3, <1>4 DEF Handshake
  <2>2. QED  BY <1>0, <1>f, <1>1, <2>1 DEF ConnTypes, Members
<1>5. CASE ReadReply
  <2>1. conn[c0].sfd = fd /\ fds[fd] # None /\ "deletion" \notin fds[fd].flags
    <3>1. io.pc = "read" /\ conn[c0].sfd = fd  BY <1>0, <1>5 DEF ReadReply, Serving
    <3>2. ~Unregistered(c0)  BY AlreadyMade
    <3>3. QED  BY <1>0, <3>1, <3>2, Unmarked
  <2>2. fds[fd].flags \cup {"write"} \in SUBSET Flags  BY <1>0, <2>1 DEF EngineTypes, Entries, Flags
  <2>3. GoUpdatingLocked(fds[fd].flags \cup {"write"}, "read")  BY <1>5, <2>1 DEF ReadReply
  <2>4. io'.flags = fds[fd].flags \cup {"write"} /\ io'.then = "read"
    BY <1>0, <1>1, <2>2, <2>3
  <2>5. QED  BY <2>1, <2>4
<1>6. CASE ReadTls
  <2>1. \E flags \in {{"read"}, All} : GoUpdating(flags, "rearm")
    BY <1>0, <1>f, <1>2, <1>3, <1>6 DEF ReadTls
  <2>2. io'.flags \in {{"read"}, All} /\ io'.then = "rearm"  BY <1>0, <1>f, <1>1, <2>1
  <2>3. c0 \notin Plaintext /\ conn'[c0].phase = "up"  BY <1>6 DEF ReadTls, Up
  <2>4. QED  BY <1>f, <2>2, <2>3
<1>7. CASE ReadEarly
  <2>1. conn[c0].phase = "handshake" /\ Handshake("rearm", "rearm")
    BY <1>0, <1>f, <1>2, <1>7 DEF ReadEarly
  <2>2. c0 \notin Plaintext  BY <2>1 DEF Handing
  <2>3. QED  BY <1>f, <1>4, <2>1, <2>2
<1>8. CASE WriteEarly
  <2>1. c0 \notin Plaintext /\ Handshake("move", "check")
    BY <1>0, <1>2, <1>8 DEF WriteEarly
  <2>2. QED  BY <1>f, <1>4, <2>1
<1>9. CASE Rearm \/ More
  <2>1. GoUpdatingLocked(All, AfterRead) \/ GoUpdatingLocked(All, "check")
    BY <1>0, <1>f, <1>2, <1>9 DEF Rearm, More
  <2>2. io'.flags = All /\ io'.then \in {"clear", "check"}  BY <1>0, <1>f, <1>1, <2>1
  <2>3. QED  BY <1>f, <2>2
<1>10. CASE Sent
  <2>1. GoUpdatingLocked(All, "check")
    BY <1>0, <1>10, Draining DEF Sent
  <2>2. io'.flags = All /\ io'.then = "check"  BY <1>0, <1>f, <1>1, <2>1
  <2>3. QED  BY <1>f, <2>2
<1>11. CASE SendTls
  <2>1. /\ c0 \notin Plaintext /\ conn[c0].length > 0 /\ UNCHANGED conn
        /\ GoUpdating({"read"}, "check") \/ GoUpdating(All, "check")
    <3>1. ~Go("sent")
      <4>1. "sent" \in Pcs  BY DEF Pcs
      <4>2. QED  BY <1>2, <4>1
    <3>2. QED  BY <1>0, <1>2, <1>3, <1>11, <3>1 DEF SendTls
  <2>2. io'.flags \in {{"read"}, All} /\ io'.then = "check"  BY <1>0, <1>f, <1>1, <2>1
  <2>3. QED  BY <1>f, <2>1, <2>2
<1>12. QED
  BY <1>5, <1>6, <1>7, <1>8, <1>9, <1>10, <1>11, Arriving

\* Handing is kept.
LEMMA HandingStep ==
  ASSUME InductiveInvariant, Registered, Writing, Handing, [OtherNext]_vars
  PROVE  Handing'
<1> USE EngineAssumption, ConnectionAssumption
<1>0. /\ EngineTypes /\ io \in IoThread /\ ConnTypes /\ Control /\ Making /\ Serving /\ Handing
      /\ raced \subseteq raced'
  BY RacedGrows DEF InductiveInvariant, TypeOK, ThreadTypes
<1>1. \A c \in Plaintext : conn'[c].phase # "handshake"  BY PlainStays
<1>2. ASSUME NEW c \in Conn \ raced', io'.eh # None, c0' = c,
             io'.pc \in {"store", "rearm", "update", "update_poll"}
      PROVE  /\ Updating' => "deletion" \notin io'.flags
             /\ io'.pc = "store" /\ conn'[c].sfd = fd' => "deletion" \notin io'.flags
             /\ io'.pc = "rearm" \/ (Updating' /\ io'.then = "rearm") =>
                  c \notin Plaintext /\ conn'[c].phase # "start"
             /\ Updating' /\ "write" \notin io'.flags =>
                  /\ c \notin Plaintext
                  /\ \/ io'.then = "rearm" \/ conn'[c].phase = "handshake"
                     \/ io'.then = "check" /\ conn'[c].length > 0
                  /\ io'.pc = "update_poll" /\ "write" \in fds'[fd'].flags => conn'[c].obuffer > 0
  <2>1. ~Visit
    <3>1. io.ready # <<>> => Skip.pc = "visit"  BY <1>0, Skipping
    <3>2. Visit => io'.pc \notin {"store", "rearm", "update", "update_poll"}
      BY <3>1, Visited DEF Looping, Dispatch
    <3>3. QED  BY <1>2, <3>2
  <2>2. /\ io.eh # None /\ io.pc \notin {"skip", "erase"} /\ c0 = c /\ fd' = fd
        /\ io'.ready = io.ready /\ io'.eh = io.eh
    BY <1>2, <2>1, StaysInUse
  <2>3. PICK f \in Fd : f = fd /\ f = fd'  BY <2>2, AtWork
  <2>4. c \notin raced  BY <1>0
  <2>5. /\ Updating => "deletion" \notin io.flags
        /\ io.pc = "store" /\ conn[c].sfd = f => "deletion" \notin io.flags
        /\ io.pc = "rearm" \/ (Updating /\ io.then = "rearm") =>
             c \notin Plaintext /\ conn[c].phase # "start"
        /\ Updating /\ "write" \notin io.flags =>
             /\ c \notin Plaintext
             /\ \/ io.then = "rearm" \/ conn[c].phase = "handshake"
                \/ io.then = "check" /\ conn[c].length > 0
             /\ io.pc = "update_poll" /\ "write" \in fds[f].flags => conn[c].obuffer > 0
    BY <1>0, <2>2, <2>3, <2>4 DEF Handing
  <2>6. CASE UNCHANGED io
    <3>1. io.pc \in {"store", "rearm", "update", "update_poll"}  BY <1>2, <2>6
    <3>2. /\ conn'[c].sfd = conn[c].sfd /\ conn'[c].phase = conn[c].phase
          /\ conn'[c].length = conn[c].length /\ conn'[c].obuffer >= conn[c].obuffer
          /\ conn[c].obuffer \in Nat /\ conn'[c].obuffer \in Nat
      BY <2>6, <3>1, WhileWaiting, TypeStep DEF InductiveInvariant, TypeOK, ConnTypes, Members
    <3>3. ASSUME io.pc = "update_poll", "write" \notin io.flags, "write" \in fds'[f].flags
          PROVE  conn[c].obuffer > 0
      <4>1. fds[f] # None /\ fds[f].conn = c /\ conn[c].sfd = f
        BY <2>2, <2>3, <2>4, <3>3 DEF InductiveInvariant, InUse, Serving
      <4>2. CASE "write" \in fds[f].flags
        BY <2>5, <3>3, <4>2 DEF Updating
      <4>3. CASE "write" \notin fds[f].flags
        <5>1. ~MakeEntry /\ ~Erase /\ ~Update /\ ~ClearStore
          BY <1>0, <3>3 DEF MakeEntry, Erase, Update, ClearStore, Making
        <5>2. fds'[f] # None
          <6>1. WriteBack => writer.entry \in Entries
            BY DEF InductiveInvariant, TypeOK, WriteBack, ThreadTypes, Resting
          <6>2. \A e \in Entries : e # None  BY DEF Entries
          <6>3. QED  BY <4>1, <5>1, <6>1, <6>2, EntrySteps
        <5>3. MarkWrite \/ WriteBack
          BY <3>3, <4>1, <4>3, <5>1, <5>2, Wanting
        <5>4. writer.pc # "rest" /\ writer.conn = c
          BY <3>3, <4>1, <4>3, <5>1, <5>2, <5>3, Wanting DEF MarkWrite, WriteBack
        <5>5. Held(c) /\ conn[c].sfd # None  BY <4>1, <5>4 DEF Held
        <5>6. QED  BY <5>5 DEF Writing
      <4>4. QED  BY <4>2, <4>3
    <3>4. QED  BY <2>3, <2>5, <2>6, <3>2, <3>3 DEF Updating
  <2>7. CASE io'.pc = "store" /\ ClearLoad
    <3>1. io'.flags = (IF fds[f] = None THEN {} ELSE fds[f].flags) \ {"write"} /\ io.pc = "clear"
      BY <1>0, <2>3, <2>7 DEF ClearLoad, IoThread
    <3>2. UNCHANGED conn  BY <2>7 DEF ClearLoad
    <3>3. ASSUME conn[c].sfd = f PROVE "deletion" \notin io'.flags
      <4>1. ~Unregistered(c)  BY <2>2, AlreadyMade
      <4>2. "deletion" \notin fds[f].flags  BY <2>4, <3>1, <3>3, <4>1, Unmarked
      <4>3. QED  BY <3>1, <4>2
    <3>4. QED  BY <2>3, <2>7, <3>2, <3>3 DEF Updating
  <2>8. CASE /\ io'.pc = "rearm"
             /\ ReadTls \/ ReadEarly \/ ((Update \/ UpdatePolled) /\ io.then = "rearm")
    <3>1. ReadTls => c \notin Plaintext /\ conn'[c].phase = "up"  BY <2>2 DEF ReadTls, Up
    <3>2. ~ReadEarly
      <4>1. ASSUME NEW pc \in Pcs, Go(pc) \/ GoClosing(c0, pc) PROVE io'.pc \in {pc, "delete"}
        BY <1>0, <2>2, <4>1, IoMoves
      <4>2. ASSUME NEW flags \in SUBSET Flags, NEW pc \in Pcs, GoUpdating(flags, pc)
            PROVE  io'.pc = "update"
        BY <1>0, <4>2, IoMoves
      <4>3. /\ {"read"} \in SUBSET Flags /\ All \in SUBSET Flags
            /\ AfterRead \in {"clear", "check"} /\ {"rearm", "clear", "check"} \subseteq Pcs
        BY DEF All, Flags, AfterRead, Pcs
      <4>4. QED  BY <2>8, <4>1, <4>2, <4>3 DEF ReadEarly, Handshake
    <3>3. (Update \/ UpdatePolled) /\ io.then = "rearm" =>
            c \notin Plaintext /\ conn'[c].phase # "start"
      BY <2>5 DEF Update, UpdatePolled, Updating
    <3>4. QED  BY <2>8, <3>1, <3>2, <3>3 DEF Updating
  <2>9. CASE io'.pc = "update_poll" /\ Update
    <3>1. /\ io'.flags = io.flags /\ io'.then = io.then /\ io.pc = "update"
          /\ UNCHANGED conn /\ fds[fd] # None
      <4>1. io.pc = "update" /\ io.then \in Pcs /\ "update_poll" \in Pcs
        BY <1>0, <2>9 DEF Update, IoThread, Pcs
      <4>2. GoOn(io.then) => io'.pc = io.then  BY <1>0, <4>1, IoMoves
      <4>3. io.then # "update_poll"  BY <1>0, <4>1 DEF Control
      <4>4. Go("update_poll") /\ fds[fd] # None  BY <2>9, <4>2, <4>3 DEF Update
      <4>5. QED  BY <1>0, <2>9, <4>1, <4>4, IoMoves DEF Update
    <3>2. fds'[f].flags = io.flags
      BY <1>0, <2>3, <2>9, <3>1 DEF Update, UpdateEntry, Entry, EngineTypes
    <3>3. QED  BY <2>3, <2>5, <2>9, <3>1, <3>2 DEF Updating
  <2>10. CASE io'.pc = "update" /\ ~UNCHANGED io
    <3>1. /\ "deletion" \notin io'.flags
          /\ io'.then = "rearm" => c0 \notin Plaintext /\ conn'[c0].phase # "start"
          /\ "write" \notin io'.flags =>
               /\ c0 \notin Plaintext
               /\ \/ io'.then = "rearm" \/ conn'[c0].phase = "handshake"
                  \/ io'.then = "check" /\ conn'[c0].length > 0
      BY <2>2, <2>4, <2>10, HandsOver
    <3>2. QED  BY <2>2, <2>10, <3>1 DEF Updating
  <2>11. QED  BY <1>2, <2>6, <2>7, <2>8, <2>9, <2>10, Arriving
<1>3. ASSUME io'.eh # None, c0' \notin raced'
      PROVE  /\ Updating' => "deletion" \notin io'.flags
             /\ io'.pc = "store" /\ conn'[c0'].sfd = fd' => "deletion" \notin io'.flags
             /\ io'.pc = "rearm" \/ (Updating' /\ io'.then = "rearm") =>
                  c0' \notin Plaintext /\ conn'[c0'].phase # "start"
             /\ Updating' /\ "write" \notin io'.flags =>
                  /\ c0' \notin Plaintext
                  /\ \/ io'.then = "rearm" \/ conn'[c0'].phase = "handshake"
                     \/ io'.then = "check" /\ conn'[c0'].length > 0
                  /\ io'.pc = "update_poll" /\ "write" \in fds'[fd'].flags => conn'[c0'].obuffer > 0
  <2>1. c0' \in Conn
    BY <1>3, TypeStep DEF InductiveInvariant, TypeOK, ThreadTypes, IoThread, c0
  <2>2. CASE io'.pc \in {"store", "rearm", "update", "update_poll"}
    BY <1>2, <1>3, <2>1, <2>2
  <2>3. CASE io'.pc \notin {"store", "rearm", "update", "update_poll"}
    BY <2>3 DEF Updating
  <2>4. QED  BY <2>2, <2>3
<1>4. QED  BY <1>1, <1>3 DEF Handing

\* What a step that is none of a connection's own leaves alone, and those that are its own.
Quiet(c, f) ==
  /\ conn'[c] = conn[c]
  /\ Asked(f) => Asked(f)'
  /\ "write" \in fds'[f].flags => "write" \in fds[f].flags
  /\ Held(c) => writer' = writer
  /\ Serves(c, Outputs) => io' = io
  /\ Deleting /\ io.victim = c => Deleting' /\ io'.victim = c
Handler ==
  \/ ReadReply \/ ReadEarly \/ Rearm \/ Update \/ UpdatePolled \/ ClearLoad \/ ClearStore \/ ClearPoll
  \/ WriteEarly \/ Move \/ SendPlain \/ More \/ SendTls \/ Sent
Own(c) ==
  \/ SocketWrite(c)
  \/ (MarkWrite \/ WriteBack \/ WriteBackPoll) /\ writer.conn = c
  \/ Delete /\ io.victim = c
  \/ Handler /\ io.eh # None /\ c0 = c

\* In each position the thread has its own step only.
LEMMA InOutput ==
  ASSUME InductiveInvariant, [OtherNext]_vars, io.pc \in Outputs
  PROVE  UNCHANGED io \/ WriteOrphan \/ Handler
<1>1. ~Make
  BY DEF InductiveInvariant, Making, Make, MakeEntry, MakePoll, Outputs
<1>2. QED
  BY <1>1 DEF Outputs, Handler, OtherNext, vars, threads, Loop, Write, MarkWrite, WriteBack,
    WriteBackPoll, SocketWrite, PeerSends, PeerBreaks, Poll, Visit, HandleError, Continue, Check,
    Erase, ReadOrphan, ReadPlain, ReadTls, Close, RetryConnect, ReadClosesOther, TimeOut,
    RetryClose, Construct, Delete, RetryDelete

\* A connection is being closed until it is, also while its callbacks open another one.
LEMMA InDelete ==
  ASSUME InductiveInvariant, [OtherNext]_vars, Deleting
  PROVE  (Deleting' /\ io'.victim = io.victim) \/ Delete \/ Close
<1>0. io \in IoThread /\ ThreadTypes /\ Making
  BY DEF InductiveInvariant, TypeOK, ThreadTypes
<1>1. CASE MakeEntry
  BY <1>0, <1>1 DEF MakeEntry, ThreadTypes, Resting, Deleting
<1>2. CASE MakePoll
  <2>1. maker.pc = "poll" /\ maker.back \in Pcs /\ Go(maker.back)
    BY <1>0, <1>2 DEF MakePoll, ThreadTypes, Resting
  <2>2. io.pc = "made" /\ maker.back = "delete"  BY <1>0, <2>1 DEF Making, Deleting
  <2>3. io'.pc = "delete" /\ io'.victim = io.victim  BY <1>0, <2>1, <2>2, IoMoves
  <2>4. QED  BY <2>3 DEF Deleting
<1>3. ASSUME NEW c \in Conn, Construct(c) PROVE Deleting' /\ io'.victim = io.victim
  <2>1. io.pc = "delete" /\ Go("made") /\ maker'.back = "delete"
    BY <1>3 DEF Construct, Deleting
  <2>2. "made" \in Pcs  BY DEF Pcs
  <2>3. QED  BY <1>0, <2>1, <2>2, IoMoves DEF Deleting
<1>4. CASE UNCHANGED <<io, maker>>  BY <1>4 DEF Deleting
<1>5. QED
  BY <1>1, <1>2, <1>3, <1>4
  DEF Deleting, OtherNext, vars, threads, Loop, Make, Write, MarkWrite, WriteBack,
      WriteBackPoll, SocketWrite, PeerSends, PeerBreaks, Poll, Visit, HandleError, Continue,
      Check, Erase, Update, UpdatePolled, ClearLoad, ClearStore, ClearPoll, ReadOrphan,
      WriteOrphan, ReadPlain, ReadTls, ReadEarly, Rearm, WriteEarly, Move, SendPlain, More,
      SendTls, Sent, RetryDelete, RetryConnect, ReadReply, ReadClosesOther, TimeOut, RetryClose

\* A step that is not its own leaves alone what the output of a connection depends on.
LEMMA QuietOrOwn ==
  ASSUME InductiveInvariant, PolledOnce, Registered, Registered', Writing, [OtherNext]_vars,
         NEW c \in Conn \ raced', NEW f \in Fd,
         conn[c].sfd = f, conn'[c].sfd = f, ~BeingMade(c), ~BeingMade(c)'
  PROVE  Quiet(c, f) \/ Own(c)
<1> USE EngineAssumption
<1>0. /\ c \notin raced /\ Control /\ Making /\ f # None /\ io \in IoThread
      /\ fds[f] # None /\ fds[f].conn = c /\ fds'[f] # None /\ Polled(f) # 0
      /\ io.pc \notin {"close", "retry", "connect"} => ~Marked(f)
      /\ io.pc = "erase" => fd # f
  BY RacedGrows DEF InductiveInvariant, TypeOK, ThreadTypes, Registered, BeingMade, Unregistered
<1>1. ~(MakeEntry /\ f = conn[maker.conn].sfd) /\ ~(MakePoll /\ f = conn[maker.conn].sfd)
  BY OneOwner DEF MakeEntry, MakePoll, BeingMade
<1>2. SUFFICES ASSUME ~Own(c) PROVE Quiet(c, f)
  OBVIOUS
<1>3. ASSUME Handler, f = fd, io.eh # None, io.pc \notin {"skip", "erase"} PROVE FALSE
  <2>1. c0 = c  BY <1>0, <1>3, Served
  <2>2. QED  BY <1>2, <1>3, <2>1 DEF Own
<1>c. ~(Close /\ io.victim = c)
  BY <1>0 DEF Close, InductiveInvariant, TypeOK, ConnTypes, Members
<1>4. conn'[c] = conn[c]
  <2>2. ~(RetryConnect /\ io.victim = c) /\ ~Construct(c)
    BY DEF RetryConnect, Construct, BeingMade
  <2>3. QED  BY <1>2, <1>c, <2>2, ConnChanges DEF Own, Handler
<1>5. Asked(f) => Asked(f)'
  <2>1. ASSUME WriteBackPoll PROVE "write" \in writer.entry.flags
    BY <2>1 DEF WriteBackPoll, Writing
  <2>2. ~(UpdatePolled /\ f = fd) /\ ~(ClearPoll /\ f = fd)
    BY <1>0, <1>3 DEF Handler, UpdatePolled, ClearPoll, Control
  <2>3. ~(Check /\ f = fd /\ Marked(fd))
    <3>1. Check => io.pc = "check"  BY DEF Check
    <3>2. f = fd /\ Marked(fd) => Marked(f)  OBVIOUS
    <3>3. QED  BY <1>0, <3>1, <3>2
  <2>4. QED  BY <1>0, <1>1, <2>1, <2>2, <2>3, PollSteps DEF PollKept
<1>6. ASSUME "write" \in fds'[f].flags PROVE "write" \in fds[f].flags
  <2>1. ~(Update /\ f = fd) /\ ~(ClearStore /\ f = fd)
    BY <1>0, <1>3 DEF Handler, Update, ClearStore, Control
  <2>2. ~(MarkWrite /\ writer.conn = c) /\ ~(WriteBack /\ writer.conn = c)
    BY <1>2 DEF Own
  <2>3. QED  BY <1>0, <1>1, <1>6, <2>1, <2>2, Wanting
<1>7. ASSUME Held(c) PROVE writer' = writer
  BY <1>2, <1>7, WriterSteps DEF Held, Own, SocketWrite
<1>8. ASSUME Serves(c, Outputs) PROVE io' = io
  <2>1. ~WriteOrphan  BY <1>0, <1>8 DEF WriteOrphan, Orphan, Serves
  <2>2. QED  BY <1>2, <1>8, <2>1, InOutput DEF Serves, Own
<1>9. ASSUME Deleting, io.victim = c PROVE Deleting' /\ io'.victim = c
  BY <1>2, <1>c, <1>9, InDelete DEF Own
<1>10. QED  BY <1>4, <1>5, <1>6, <1>7, <1>8, <1>9 DEF Quiet

\* Where the thread goes for the connection it serves.
LEMMA Goes ==
  ASSUME InductiveInvariant, NEW c \in Conn, io.eh # None, c0 = c, NEW pc \in Pcs
  PROVE  /\ Go(pc) \/ GoOn(pc) => Serves(c, {pc})'
         /\ Go(pc) => io'.flags = io.flags
         /\ GoClosing(c0, pc) => io'.pc = "delete" /\ io'.victim = c
         /\ Drained(pc, TRUE) \/ Drained(pc, FALSE) =>
              Serves(c, {pc})' \/ (io'.pc = "delete" /\ io'.victim = c)
<1>0. io \in IoThread /\ c0 \in Conn  BY AtWork
<1>1. ASSUME io'.eh = io.eh, NEW p, io'.pc = p PROVE Serves(c, {p})'
  <2>1. c0' = c /\ io'.eh # None  BY <1>1 DEF c0
  <2>2. QED  BY <1>1, <2>1 DEF Serves
<1>2. Drained(pc, TRUE) \/ Drained(pc, FALSE) =>
         io'.eh = io.eh /\ (io'.pc = pc \/ (io'.pc = "delete" /\ io'.victim = c))
  BY <1>0, Draining
<1>3. QED  BY <1>0, <1>1, <1>2, IoMoves

\* The same when it updates the tables.
LEMMA GoesUpdating ==
  ASSUME InductiveInvariant, NEW c \in Conn, io.eh # None, c0 = c, NEW pc \in Pcs,
         NEW flags \in SUBSET Flags, GoUpdating(flags, pc) \/ GoUpdatingLocked(flags, pc)
  PROVE  Serves(c, {"update"})' /\ io'.flags = flags
<1>0. io \in IoThread  BY AtWork
<1>1. io'.flags = flags /\ io'.eh = io.eh /\ io'.pc = "update"
  BY <1>0 DEF GoUpdating, GoUpdatingLocked, IoThread
<1>2. c0' = c  BY <1>1 DEF c0
<1>3. QED  BY <1>1, <1>2 DEF Serves

\* A connection that has a descriptor which nobody asks for had it before.
LEMMA HadBefore ==
  ASSUME InductiveInvariant, PolledOnce, Registered, [OtherNext]_vars,
         NEW c \in Conn \ raced', NEW f \in Fd,
         conn'[c].sfd = f, ~BeingMade(c)', ~Asked(f)'
  PROVE  /\ c \notin raced /\ conn[c].sfd = f /\ ~BeingMade(c)
         /\ fds[f] # None /\ fds[f].conn = c /\ Polled(f) # 0
<1> USE EngineAssumption
<1>0. c \notin raced /\ f # None /\ ThreadTypes /\ EngineTypes /\ Making
  BY RacedGrows DEF InductiveInvariant, TypeOK
<1>1. conn[c].sfd = f
  <2>1. SUFFICES ASSUME conn[c].sfd # f PROVE FALSE  OBVIOUS
  <2>2. maker'.pc = "entry" /\ maker'.conn = c  BY <1>0, <2>1, Gets
  <2>3. QED  BY <2>2 DEF BeingMade
<1>2. ~BeingMade(c)
  <2>1. SUFFICES ASSUME BeingMade(c) PROVE FALSE  OBVIOUS
  <2>o. ~(opener.pc # "rest" /\ opener.conn = c)
    BY OpeningStays DEF opening, BeingMade
  <2>m. maker.pc # "rest" /\ maker.conn = c  BY <2>1, <2>o DEF BeingMade
  <2>2. CASE MakePoll
    <3>1. conn[maker.conn].sfd = f  BY <1>1, <2>m
    <3>2. RegisterPoll(f, All) /\ maker.pc = "poll"  BY <1>0, <2>2, <3>1 DEF MakePoll
    <3>3. Polled(f) = 0  BY <3>1, <3>2 DEF PolledOnce
    <3>4. EngineTypes' /\ All \in SUBSET Flags /\ "write" \in All
      BY EngineTypesStep DEF All, Flags
    <3>5. QED  BY <1>0, <3>2, <3>3, <3>4, PollOperations
  <2>3. CASE ~MakePoll
    <3>1. io.pc = "made"  BY <1>0, <2>m DEF Making
    <3>2. ~RetryConnect  BY <3>1, Reconnecting
    <3>3. \A d \in Conn : ~Construct(d)  BY <3>1 DEF Construct
    <3>4. MakeEntry => maker'.conn = maker.conn /\ maker'.pc = "poll"
      BY <1>0 DEF MakeEntry, ThreadTypes, Resting
    <3>5. maker'.conn = maker.conn /\ maker'.pc # "rest"
      BY <2>3, <2>m, <3>1, <3>2, <3>3, <3>4, MakesAlone
    <3>6. QED  BY <2>m, <3>5 DEF BeingMade
  <2>4. QED  BY <2>2, <2>3
<1>3. QED  BY <1>0, <1>1, <1>2 DEF Registered, BeingMade, Unregistered

\* Where the poll set is not touched.
LEMMA PollUntouched ==
  ASSUME InductiveInvariant, InductiveInvariant', PolledOnce, UNCHANGED poll_set, NEW f \in Fd
  PROVE  Asked(f)' <=> Asked(f)
<1>1. EngineTypes /\ EngineTypes' /\ Once(poll_set)
  BY DEF InductiveInvariant, TypeOK, PolledOnce, Once
<1>2. QED  BY <1>1, PollView, PollViewNext

\* The steps of a handler that change the members of its connection.
LEMMA Handling ==
  ASSUME InductiveInvariant, NEW c \in Conn, io.eh # None, c0 = c
  PROVE  /\ ReadReply => /\ conn'[c].phase = conn[c].phase /\ conn'[c].length = conn[c].length
                         /\ conn'[c].obuffer = conn[c].obuffer + 1
         /\ \A p : conn' = [conn EXCEPT ![c].phase = p] =>
              /\ conn'[c].phase = p /\ conn'[c].length = conn[c].length
              /\ conn'[c].obuffer = conn[c].obuffer
         /\ Move => /\ conn'[c].phase = conn[c].phase
                    /\ conn[c].length > 0 => conn'[c] = conn[c]
         /\ SendPlain => /\ conn'[c].phase = conn[c].phase /\ conn'[c].obuffer = conn[c].obuffer
         /\ Sent => /\ conn'[c].phase = conn[c].phase /\ conn'[c].obuffer = conn[c].obuffer
                    /\ conn'[c].length = 0
         /\ conn[c].obuffer \in Nat /\ conn[c].length \in Nat /\ conn[c].length <= BufSize
         /\ conn[c].phase \in {"start", "handshake", "up"}
<1>0. ConnTypes /\ conn[c] \in Members  BY DEF InductiveInvariant, TypeOK, ConnTypes
<1>1. ReadReply => conn' = [conn EXCEPT ![c].obuffer = @ + 1]  BY DEF ReadReply
<1>2. Sent => conn' = [conn EXCEPT ![c].length = 0]  BY DEF Sent
<1>3. SendPlain => UNCHANGED conn \/ \E r : conn' = [conn EXCEPT ![c].length = @ - r]
  BY DEF SendPlain
<1>4. ASSUME Move
      PROVE  /\ conn'[c].phase = conn[c].phase
             /\ conn[c].length > 0 => conn'[c] = conn[c]
  <2>1. PICK n : /\ conn' = [conn EXCEPT ![c].obuffer = @ - n, ![c].length = @ + n]
                 /\ conn[c].length # 0 => n = 0
    BY <1>4 DEF Move
  <2>2. conn'[c] = [conn[c] EXCEPT !.obuffer = @ - n, !.length = @ + n]
    BY <1>0, <2>1 DEF ConnTypes
  <2>3. conn'[c].phase = conn[c].phase  BY <1>0, <2>2 DEF Members
  <2>4. ASSUME conn[c].length > 0 PROVE conn'[c] = conn[c]
    <3>1. n = 0 /\ conn[c].obuffer \in Nat /\ conn[c].length \in Nat
      BY <1>0, <2>1, <2>4 DEF Members
    <3>2. conn[c].obuffer - n = conn[c].obuffer /\ conn[c].length + n = conn[c].length
      BY <3>1
    <3>3. QED  BY <1>0, <2>2, <3>2 DEF Members
  <2>5. QED  BY <2>3, <2>4
<1>5. QED  BY <1>0, <1>1, <1>2, <1>3, <1>4, ConnectionAssumption DEF ConnTypes, Members

\* Agreeing is kept: what turns write events off in one table turns them off in both, or leaves
\* it to a step to come.
LEMMA AgreeingStep ==
  ASSUME InductiveInvariant, InductiveInvariant', PolledOnce, Registered, Registered', Writing,
         Handing, Agreeing, [OtherNext]_vars
  PROVE  Agreeing'
<1> USE EngineAssumption, ConnectionAssumption
<1>1. SUFFICES ASSUME NEW c \in Conn \ raced', NEW f \in Fd,
                      conn'[c].sfd = f, ~BeingMade(c)', "write" \in fds'[f].flags, ~Asked(f)'
               PROVE  SeenTo(c, f)'
  BY DEF Agreeing
<1>2. /\ c \notin raced /\ conn[c].sfd = f /\ ~BeingMade(c) /\ f # None
      /\ fds[f] # None /\ fds[f].conn = c /\ Polled(f) # 0
  BY <1>1, HadBefore
<1>3. /\ EngineTypes /\ io \in IoThread /\ ThreadTypes /\ Control /\ conn[c] \in Members
      /\ ConnTypes
  BY DEF InductiveInvariant, TypeOK, ThreadTypes, ConnTypes
<1>4. ASSUME "write" \in fds[f].flags, ~Asked(f) PROVE SeenTo(c, f)
  BY <1>2, <1>4 DEF Agreeing
<1>5. CASE Quiet(c, f)
  <2>1. SeenTo(c, f)  BY <1>1, <1>4, <1>5 DEF Quiet
  <2>2. Held(c) => writer' = writer  BY <1>5 DEF Quiet
  <2>3. Serves(c, Outputs) => io' = io  BY <1>5 DEF Quiet
  <2>4. conn'[c] = conn[c]  BY <1>5 DEF Quiet
  <2>5. ASSUME NEW pcs \in SUBSET Outputs, Serves(c, pcs)
        PROVE  Serves(c, pcs)' /\ io' = io
    BY <2>3, <2>5 DEF Serves, c0
  <2>6. {"update", "update_poll"} \in SUBSET Outputs /\ {"store", "clear_poll"} \in SUBSET Outputs
        /\ {"rearm"} \in SUBSET Outputs
    BY DEF Outputs
  <2>7. QED  BY <2>1, <2>2, <2>4, <2>5, <2>6 DEF SeenTo, Held
<1>6. CASE SocketWrite(c)
  <2>1. UNCHANGED <<fds, poll_set, io>> /\ writer.pc = "rest"  BY <1>6 DEF SocketWrite, engine
  <2>2. SeenTo(c, f)
    <3>1. Asked(f)' <=> Asked(f)  BY <2>1, PollUntouched
    <3>2. QED  BY <1>1, <1>4, <2>1, <3>1
  <2>3. /\ conn'[c].phase = conn[c].phase /\ conn'[c].length = conn[c].length
        /\ conn'[c].obuffer = conn[c].obuffer + 1
    BY <1>3, <1>6 DEF SocketWrite, ConnTypes, Members
  <2>4. conn[c].obuffer \in Nat  BY <1>3 DEF Members
  <2>5. QED  BY <2>1, <2>2, <2>3, <2>4 DEF SeenTo, Serves, c0
<1>7. CASE (MarkWrite \/ WriteBack \/ WriteBackPoll) /\ writer.conn = c
  <2>1. UNCHANGED <<io, conn>>  BY <1>7 DEF MarkWrite, WriteBack, WriteBackPoll
  <2>2. ASSUME SeenTo(c, f), writer.pc \in {"copied", "poll"} => writer.fd # f
        PROVE  SeenTo(c, f)'
    BY <2>1, <2>2 DEF SeenTo, Serves, c0
  <2>3. CASE MarkWrite
    <3>1. writer.pc = "mark"  BY <2>3, Marks
    <3>2. Asked(f)' <=> Asked(f)
      <4>1. UNCHANGED poll_set  BY <2>3, Marks
      <4>2. QED  BY <4>1, PollUntouched
    <3>3. CASE UNCHANGED fds  BY <1>1, <1>4, <2>2, <3>1, <3>2, <3>3
    <3>4. CASE \E e : writer' = [pc |-> "copied", conn |-> c, fd |-> f, entry |-> e]
      BY <3>4 DEF SeenTo
    <3>5. QED  BY <1>2, <1>7, <2>3, <3>3, <3>4, Marks
  <2>4. CASE WriteBack
    <3>1. writer.pc = "copied" /\ UpdateEntry(writer.fd, writer.entry)  BY <2>4 DEF WriteBack
    <3>2. Asked(f)' <=> Asked(f)
      BY <3>1, PollUntouched DEF UpdateEntry
    <3>3. CASE writer.fd = f
      <4>1. writer' = [writer EXCEPT !.pc = "poll"]  BY <1>2, <2>4, <3>3 DEF WriteBack
      <4>2. writer'.pc = "poll" /\ writer'.conn = c /\ writer'.fd = f
        BY <1>3, <1>7, <3>1, <3>3, <4>1 DEF ThreadTypes, Resting
      <4>3. QED  BY <4>2 DEF SeenTo
    <3>4. CASE writer.fd # f
      <4>1. fds'[f] = fds[f]  BY <1>3, <3>1, <3>4 DEF UpdateEntry, EngineTypes
      <4>2. QED  BY <1>1, <1>4, <2>2, <3>2, <3>4, <4>1
    <3>5. QED  BY <3>3, <3>4
  <2>5. CASE WriteBackPoll
    <3>1. /\ writer.pc = "poll" /\ UpdatePoll(writer.fd, writer.entry.flags)
          /\ writer.fd \in Fd /\ writer.entry.flags \in SUBSET Flags
      BY <1>3, <2>5 DEF WriteBackPoll, ThreadTypes, Resting, Entries
    <3>2. "write" \in writer.entry.flags  BY <3>1 DEF Writing
    <3>3. EngineTypes'  BY EngineTypesStep
    <3>4. writer.fd # f /\ PollKept(f)
      <4>1. PICK g \in Fd, flags \in SUBSET Flags : g = writer.fd /\ flags = writer.entry.flags
        BY <3>1
      <4>2. UpdatePoll(g, flags) /\ "write" \in flags  BY <3>1, <3>2, <4>1
      <4>3. g # f
        <5>1. SUFFICES ASSUME g = f PROVE FALSE  OBVIOUS
        <5>2. Asked(f)'  BY <1>2, <1>3, <3>3, <4>2, <5>1, PollOperations
        <5>3. QED  BY <1>1, <5>2
      <4>4. PollKept(f)  BY <1>3, <3>3, <4>2, <4>3, PollOperations
      <4>5. QED  BY <4>1, <4>3, <4>4
    <3>5. UNCHANGED fds  BY <3>1 DEF UpdatePoll
    <3>6. QED  BY <1>1, <1>4, <2>2, <3>4, <3>5 DEF PollKept
  <2>6. QED  BY <1>7, <2>3, <2>4, <2>5
<1>8. CASE Delete /\ io.victim = c
  <2>1. DeleteSocket(f) /\ io.pc = "delete"  BY <1>2, <1>8 DEF Delete
  <2>2. ~Marked(f)  BY <1>2, <2>1, Unmarked DEF BeingMade, Unregistered, Marked
  <2>3. fds' = [fds EXCEPT ![f].flags = {"deletion"}]  BY <1>2, <2>1, <2>2 DEF DeleteSocket
  <2>4. fds'[f].flags = {"deletion"}  BY <1>2, <1>3, <2>3 DEF EngineTypes, Entries
  <2>5. QED  BY <1>1, <2>4
<1>9. CASE Handler /\ io.eh # None /\ c0 = c
  <2>1. io.pc \in {"read", "update", "update_poll", "rearm", "clear", "store", "clear_poll", "write", "move",
                   "send", "more", "sent"}
    BY <1>9 DEF Handler, ReadReply, ReadEarly, Rearm, Update, UpdatePolled, ClearLoad, ClearStore,
       ClearPoll, WriteEarly, Move, SendPlain, More, SendTls, Sent
  <2>2. fd = f  BY <1>2, <1>9, <2>1, ServesIts
  <2>3. c \notin raced /\ (c \in Plaintext => conn[c].phase # "handshake")
    BY <1>2 DEF Handing
  <2>4. /\ {"update", "rearm", "store", "clear_poll", "move", "check", "clear", "read", "sent",
             "update_poll", "write", "more", "send"} \subseteq Pcs
        /\ All \in SUBSET Flags /\ {"read"} \in SUBSET Flags /\ All = {"read", "write"}
        /\ AfterRead \in {"clear", "check"} /\ io.flags \in SUBSET Flags /\ io.then \in Pcs
    BY <1>3 DEF Pcs, All, Flags, AfterRead, IoThread
  <2>5. ASSUME NEW pc \in Pcs
        PROVE  /\ Go(pc) \/ GoOn(pc) => Serves(c, {pc})'
               /\ Go(pc) => io'.flags = io.flags
               /\ GoUpdating(All, pc) \/ GoUpdatingLocked(All, pc) =>
                    Serves(c, {"update"})' /\ "write" \in io'.flags
    <3>1. GoUpdating(All, pc) \/ GoUpdatingLocked(All, pc) =>
            Serves(c, {"update"})' /\ "write" \in io'.flags
      BY <1>9, <2>4, GoesUpdating
    <3>2. QED  BY <1>9, <3>1, Goes
  <2>6. ASSUME UNCHANGED <<fds, poll_set>> PROVE SeenTo(c, f)
    BY <1>1, <1>4, <2>6, PollUntouched
  <2>7. /\ conn[c].obuffer \in Nat /\ conn[c].length \in Nat
        /\ conn[c].phase \in {"start", "handshake", "up"}
    BY <1>3 DEF Members
  <2>8. ASSUME UNCHANGED <<fds, poll_set>>,
               io.pc \in {"read", "write", "move", "send", "more", "sent"}
        PROVE  \/ writer.pc \in {"copied", "poll"} /\ writer.conn = c /\ writer.fd = f
               \/ conn[c].phase = "handshake"
               \/ c \notin Plaintext /\ conn[c].obuffer > 0 /\ conn[c].length > 0
    BY <2>6, <2>8 DEF SeenTo, Serves
  <2>9. CASE UNCHANGED <<fds, poll_set, writer>> /\ conn'[c].phase = conn[c].phase
             /\ io.pc \in {"read", "write", "move", "send", "more", "sent"}
             /\ (c \notin Plaintext /\ conn[c].obuffer > 0 /\ conn[c].length > 0 =>
                   conn'[c].obuffer > 0 /\ conn'[c].length > 0)
    BY <2>8, <2>9 DEF SeenTo
  <2>10. CASE ReadReply
    <3>1. UNCHANGED <<fds, poll_set, writer>> /\ io.pc = "read"  BY <2>10 DEF ReadReply, engine
    <3>2. QED  BY <1>9, <2>7, <2>9, <2>10, <3>1, Handling
  <2>11. ASSUME NEW done \in Pcs, NEW waiting \in Pcs, Handshake(done, waiting)
         PROVE  SeenTo(c, f)'
    <3>1. CASE conn' = [conn EXCEPT ![c].phase = "up"] /\ GoUpdating(All, done)
      BY <2>5, <3>1 DEF SeenTo, Serves
    <3>2. CASE conn' = [conn EXCEPT ![c].phase = "handshake"]
      <4>1. conn'[c].phase = "handshake"  BY <1>9, <3>2, Handling
      <4>2. QED  BY <4>1 DEF SeenTo
    <3>3. QED  BY <1>9, <2>11, <3>1, <3>2 DEF Handshake
  <2>12. CASE ReadEarly
    <3>1. UNCHANGED <<fds, poll_set, writer>> /\ io.pc = "read"  BY <2>12 DEF ReadEarly, engine
    <3>2. Handshake("rearm", "rearm") \/ UNCHANGED conn  BY <2>12 DEF ReadEarly
    <3>3. QED  BY <2>4, <2>9, <2>11, <3>1, <3>2
  <2>13. CASE Rearm
    <3>1. UNCHANGED <<fds, poll_set, writer, conn>> /\ io.pc = "rearm" /\ ~Held(c)
      BY <1>9, <2>13 DEF Rearm, engine
    <3>2. c \notin Plaintext /\ conn[c].phase # "start"
      BY <1>9, <2>3, <3>1 DEF Handing
    <3>3. CASE conn[c].phase = "handshake"  BY <3>1, <3>3 DEF SeenTo
    <3>4. CASE conn[c].phase = "up"
      <4>1. conn[c].obuffer > 0
        BY <2>6, <3>1, <3>4 DEF SeenTo, Serves, Held
      <4>2. Up  BY <1>2, <1>9, <3>4 DEF Up
      <4>3. GoUpdatingLocked(All, AfterRead)  BY <1>9, <2>13, <3>2, <4>1, <4>2 DEF Rearm
      <4>4. QED  BY <2>4, <2>5, <4>3 DEF SeenTo, Serves
    <3>5. QED  BY <2>7, <3>2, <3>3, <3>4
  <2>14. CASE Update
    <3>1. io.pc = "update" /\ Go("update_poll") /\ UpdateEntry(f, Entry(c, io.eh.nth, io.flags))
      BY <1>2, <1>9, <2>2, <2>14 DEF Update
    <3>2. fds'[f].flags = io.flags
      BY <1>2, <1>3, <3>1 DEF UpdateEntry, EngineTypes, Entry
    <3>3. Serves(c, {"update_poll"})' /\ io'.flags = io.flags  BY <2>4, <2>5, <3>1
    <3>4. QED  BY <1>1, <3>2, <3>3 DEF SeenTo, Serves
  <2>15. CASE UpdatePolled
    <3>1. io.pc = "update_poll" /\ UpdatePoll(f, io.flags) /\ GoOn(io.then) /\ UNCHANGED <<conn, fds>>
      BY <2>2, <2>15 DEF UpdatePolled, UpdatePoll
    <3>2. "write" \notin io.flags
      <4>1. SUFFICES ASSUME "write" \in io.flags PROVE FALSE  OBVIOUS
      <4>2. EngineTypes'  BY EngineTypesStep
      <4>3. Asked(f)'  BY <1>2, <1>3, <2>4, <3>1, <4>1, <4>2, PollOperations
      <4>4. QED  BY <1>1, <4>3
    <3>3. /\ c \notin Plaintext /\ conn[c].obuffer > 0
          /\ \/ io.then = "rearm" \/ conn[c].phase = "handshake"
             \/ io.then = "check" /\ conn[c].length > 0
      BY <1>1, <1>9, <2>2, <2>3, <3>1, <3>2 DEF Handing, Updating
    <3>4. PICK then \in Pcs : then = io.then  BY <2>4
    <3>5. io.then = "rearm" => Serves(c, {"rearm"})'
      BY <2>5, <3>1, <3>4
    <3>6. QED  BY <3>1, <3>3, <3>5 DEF SeenTo
  <2>16. CASE ClearLoad \/ ClearStore
    <3>1. ClearLoad => io'.pc = "store" /\ io'.eh = io.eh  BY <1>3 DEF ClearLoad, IoThread
    <3>2. ClearStore => io'.pc = "clear_poll" /\ io'.eh = io.eh
      BY <1>3, <2>4, IoMoves DEF ClearStore
    <3>3. QED  BY <1>9, <2>16, <3>1, <3>2 DEF SeenTo, Serves, c0
  <2>17. CASE ClearPoll
    <3>1. UpdatePoll(f, fds[f].flags) /\ UNCHANGED fds
      BY <1>2, <2>2, <2>17 DEF ClearPoll, UpdatePoll
    <3>2. fds[f].flags \in SUBSET Flags  BY <1>2, <1>3 DEF EngineTypes, Entries
    <3>3. EngineTypes'  BY EngineTypesStep
    <3>4. Asked(f)'  BY <1>1, <1>2, <1>3, <3>1, <3>2, <3>3, PollOperations
    <3>5. QED  BY <1>1, <3>4
  <2>18. CASE WriteEarly
    <3>1. UNCHANGED <<fds, poll_set, writer>> /\ io.pc = "write"  BY <2>18 DEF WriteEarly, engine
    <3>2. CASE /\ c \in Plaintext \/ conn[c].phase = "up"
               /\ conn' = [conn EXCEPT ![c].phase = "up"]
      <4>1. conn'[c].length = conn[c].length /\ conn'[c].obuffer = conn[c].obuffer
        BY <1>9, <3>2, Handling
      <4>2. QED  BY <2>3, <2>8, <3>1, <3>2, <4>1 DEF SeenTo
    <3>3. QED  BY <1>9, <2>4, <2>11, <2>18, <3>2 DEF WriteEarly
  <2>19. CASE Move
    <3>1. UNCHANGED <<fds, poll_set, writer>> /\ io.pc = "move"  BY <2>19 DEF Move, engine
    <3>2. QED  BY <1>9, <2>9, <2>19, <3>1, Handling
  <2>20. CASE SendPlain
    <3>1. UNCHANGED <<fds, poll_set, writer>> /\ io.pc = "send" /\ c \in Plaintext
      BY <1>9, <2>20 DEF SendPlain, engine
    <3>2. QED  BY <1>9, <2>9, <2>20, <3>1, Handling
  <2>21. CASE More \/ SendTls
    BY <2>9, <2>21 DEF More, SendTls, engine
  <2>22. CASE Sent
    <3>1. UNCHANGED <<fds, poll_set, writer>> /\ io.pc = "sent" /\ ~Held(c)
      BY <1>9, <2>22 DEF Sent, engine
    <3>2. conn'[c].phase = conn[c].phase /\ conn'[c].obuffer = conn[c].obuffer
      BY <1>9, <2>22, Handling
    <3>3. CASE conn[c].phase = "handshake"  BY <3>2, <3>3 DEF SeenTo
    <3>4. CASE conn[c].obuffer > 0
      <4>1. GoUpdatingLocked(All, "check")  BY <1>9, <2>22, <3>4 DEF Sent
      <4>2. QED  BY <2>4, <2>5, <4>1 DEF SeenTo, Serves
    <3>5. QED  BY <2>8, <3>1, <3>3, <3>4 DEF Held
  <2>23. QED
    BY <1>9, <2>10, <2>12, <2>13, <2>14, <2>15, <2>16, <2>17, <2>18, <2>19, <2>20, <2>21, <2>22
    DEF Handler
<1>10. QED
  <2>1. Quiet(c, f) \/ Own(c)  BY <1>1, <1>2, QuietOrOwn
  <2>2. QED  BY <1>5, <1>6, <1>7, <1>8, <1>9, <2>1 DEF Own

\* Arming is kept: no step of a connection ends its handling of output without asking for a
\* write event where output is left.
LEMMA ArmingStep ==
  ASSUME InductiveInvariant, InductiveInvariant', PolledOnce, Registered, Registered', Writing,
         Handing, Agreeing, Arming, [OtherNext]_vars
  PROVE  Arming'
<1> USE EngineAssumption, ConnectionAssumption
<1> DEFINE Armed(c, f) == \/ Held(c) /\ (writer.pc = "mark" \/ writer.fd = f)
                          \/ Serves(c, Outputs)
                          \/ Deleting /\ io.victim = c
<1>1. SUFFICES ASSUME NEW c \in Conn \ raced', NEW f \in Fd,
                      conn'[c].sfd = f, ~BeingMade(c)', Owing(c)', ~Asked(f)'
               PROVE  Armed(c, f)'
  BY DEF Arming
<1>2. /\ c \notin raced /\ conn[c].sfd = f /\ ~BeingMade(c) /\ f # None
      /\ fds[f] # None /\ fds[f].conn = c /\ Polled(f) # 0
  BY <1>1, HadBefore
<1>3. /\ EngineTypes /\ io \in IoThread /\ ThreadTypes /\ Control /\ conn[c] \in Members
      /\ ConnTypes
  BY DEF InductiveInvariant, TypeOK, ThreadTypes, ConnTypes
<1>4. ASSUME Owing(c), ~Asked(f) PROVE Armed(c, f)
  BY <1>2, <1>4 DEF Arming
<1>5. CASE Quiet(c, f)
  <2>1. Owing(c) /\ ~Asked(f)  BY <1>1, <1>5 DEF Quiet, Owing
  <2>2. Armed(c, f)  BY <1>4, <2>1
  <2>3. CASE Held(c) /\ (writer.pc = "mark" \/ writer.fd = f)
    <3>1. writer' = writer  BY <1>5, <2>3 DEF Quiet
    <3>2. QED  BY <2>3, <3>1 DEF Held
  <2>4. CASE Serves(c, Outputs)
    <3>1. io' = io  BY <1>5, <2>4 DEF Quiet
    <3>2. QED  BY <2>4, <3>1 DEF Serves, c0
  <2>5. CASE Deleting /\ io.victim = c  BY <1>5, <2>5 DEF Quiet
  <2>6. QED  BY <2>2, <2>3, <2>4, <2>5
<1>6. CASE SocketWrite(c)
  BY <1>6 DEF SocketWrite, Held
<1>7. CASE (MarkWrite \/ WriteBack \/ WriteBackPoll) /\ writer.conn = c
  <2>1. UNCHANGED <<io, conn, maker>>  BY <1>7 DEF MarkWrite, WriteBack, WriteBackPoll
  <2>2. Owing(c)  BY <1>1, <2>1 DEF Owing
  <2>3. ASSUME Serves(c, Outputs) \/ (Deleting /\ io.victim = c) PROVE Armed(c, f)'
    BY <2>1, <2>3 DEF Serves, c0, Deleting
  <2>4. CASE MarkWrite
    <3>1. writer.pc = "mark" /\ UNCHANGED poll_set  BY <2>4, Marks
    <3>2. ~Asked(f)  BY <1>1, <3>1, PollUntouched
    <3>3. CASE "write" \in fds[f].flags
      <4>1. SeenTo(c, f)  BY <1>2, <3>2, <3>3 DEF Agreeing
      <4>2. Serves(c, Outputs)
        BY <2>2, <3>1, <4>1 DEF SeenTo, Owing, Serves, Outputs
      <4>3. QED  BY <2>3, <4>2
    <3>4. CASE "write" \notin fds[f].flags
      <4>1. PICK e : writer' = [pc |-> "copied", conn |-> c, fd |-> f, entry |-> e]
        BY <1>2, <1>7, <2>4, <3>4, Marks
      <4>2. QED  BY <4>1 DEF Held
    <3>5. QED  BY <3>3, <3>4
  <2>5. CASE WriteBack
    <3>1. writer.pc = "copied" /\ UNCHANGED poll_set  BY <2>5 DEF WriteBack, UpdateEntry
    <3>2. ~Asked(f)  BY <1>1, <3>1, PollUntouched
    <3>3. CASE writer.fd = f
      <4>1. writer' = [writer EXCEPT !.pc = "poll"]  BY <1>2, <2>5, <3>3 DEF WriteBack
      <4>2. writer'.pc = "poll" /\ writer'.conn = c /\ writer'.fd = f
        BY <1>3, <1>7, <3>1, <3>3, <4>1 DEF ThreadTypes, Resting
      <4>3. QED  BY <4>2 DEF Held
    <3>4. QED  BY <1>4, <2>2, <2>3, <3>1, <3>2, <3>3
  <2>6. CASE WriteBackPoll
    <3>1. /\ writer.pc = "poll" /\ UpdatePoll(writer.fd, writer.entry.flags)
          /\ writer.fd \in Fd /\ writer.entry.flags \in SUBSET Flags
      BY <1>3, <2>6 DEF WriteBackPoll, ThreadTypes, Resting, Entries
    <3>2. "write" \in writer.entry.flags  BY <3>1 DEF Writing
    <3>3. EngineTypes'  BY EngineTypesStep
    <3>4. writer.fd # f /\ PollKept(f)
      <4>1. PICK g \in Fd, flags \in SUBSET Flags : g = writer.fd /\ flags = writer.entry.flags
        BY <3>1
      <4>2. UpdatePoll(g, flags) /\ "write" \in flags  BY <3>1, <3>2, <4>1
      <4>3. g # f
        <5>1. SUFFICES ASSUME g = f PROVE FALSE  OBVIOUS
        <5>2. Asked(f)'  BY <1>2, <1>3, <3>3, <4>2, <5>1, PollOperations
        <5>3. QED  BY <1>1, <5>2
      <4>4. PollKept(f)  BY <1>3, <3>3, <4>2, <4>3, PollOperations
      <4>5. QED  BY <4>1, <4>3, <4>4
    <3>5. QED  BY <1>1, <1>4, <2>2, <2>3, <3>1, <3>4 DEF PollKept
  <2>7. QED  BY <1>7, <2>4, <2>5, <2>6
<1>8. CASE Delete /\ io.victim = c
  <2>1. conn'[c].phase = "start"  BY <1>3, <1>8 DEF Delete, ConnTypes, Members
  <2>2. QED  BY <1>1, <2>1 DEF Owing
<1>9. CASE Handler /\ io.eh # None /\ c0 = c
  <2>1. io.pc \in {"read", "update", "update_poll", "rearm", "clear", "store", "clear_poll", "write", "move",
                   "send", "more", "sent"}
    BY <1>9 DEF Handler, ReadReply, ReadEarly, Rearm, Update, UpdatePolled, ClearLoad, ClearStore,
       ClearPoll, WriteEarly, Move, SendPlain, More, SendTls, Sent
  <2>2. fd = f  BY <1>2, <1>9, <2>1, ServesIts
  <2>3. c \notin raced /\ (c \in Plaintext => conn[c].phase # "handshake")
    BY <1>2 DEF Handing
  <2>4. /\ {"update", "rearm", "store", "clear_poll", "move", "check", "clear", "read", "sent",
             "update_poll", "write", "more", "send"} \subseteq Pcs
        /\ All \in SUBSET Flags /\ {"read"} \in SUBSET Flags /\ All = {"read", "write"}
        /\ AfterRead \in {"clear", "check"} /\ io.flags \in SUBSET Flags /\ io.then \in Pcs
    BY <1>3 DEF Pcs, All, Flags, AfterRead, IoThread
  <2>5. ASSUME NEW pc \in Pcs
        PROVE  /\ (Go(pc) \/ GoOn(pc)) /\ pc \in Outputs => Armed(c, f)'
               /\ GoClosing(c0, pc) => Armed(c, f)'
               /\ \A flags \in SUBSET Flags :
                    GoUpdating(flags, pc) \/ GoUpdatingLocked(flags, pc) => Armed(c, f)'
               /\ (Drained(pc, TRUE) \/ Drained(pc, FALSE)) /\ pc \in Outputs => Armed(c, f)'
    <3>1. ASSUME NEW p \in Outputs, Serves(c, {p})' PROVE Armed(c, f)'
      BY <3>1 DEF Serves
    <3>2. "update" \in Outputs  BY DEF Outputs
    <3>3. ASSUME io'.pc = "delete", io'.victim = c PROVE Armed(c, f)'
      BY <3>3 DEF Deleting
    <3> HIDE DEF Armed
    <3>4. /\ Go(pc) \/ GoOn(pc) => Serves(c, {pc})'
          /\ GoClosing(c0, pc) => io'.pc = "delete" /\ io'.victim = c
      BY <1>9, Goes
    <3>5. ASSUME NEW flags \in SUBSET Flags, GoUpdating(flags, pc) \/ GoUpdatingLocked(flags, pc)
          PROVE  Armed(c, f)'
      BY <1>9, <3>1, <3>2, <3>5, GoesUpdating
    <3>6. Drained(pc, TRUE) \/ Drained(pc, FALSE) =>
            Serves(c, {pc})' \/ (io'.pc = "delete" /\ io'.victim = c)
      BY <1>9, Goes
    <3>7. QED  BY <3>1, <3>3, <3>4, <3>5, <3>6
  <2>6. /\ conn'[c].phase = "up" /\ conn'[c].obuffer > 0
        /\ conn'[c].length = 0 \/ c \in Plaintext
        /\ conn[c].obuffer \in Nat /\ conn[c].length \in Nat
        /\ conn[c].phase \in {"start", "handshake", "up"}
    BY <1>1, <1>3 DEF Owing, Members
  <2>7. CASE ReadReply
    <3>1. UNCHANGED <<fds, poll_set>> /\ io.pc = "read" /\ ~Held(c)
      BY <1>9, <2>7 DEF ReadReply, engine
    <3>2. conn[c].phase = "up" /\ (conn[c].length = 0 \/ c \in Plaintext)
      BY <1>9, <2>6, <2>7, Handling
    <3>3. ~Asked(f)  BY <1>1, <3>1, PollUntouched
    <3>4. "write" \notin fds[f].flags
      <4>1. SUFFICES ASSUME "write" \in fds[f].flags PROVE FALSE  OBVIOUS
      <4>2. SeenTo(c, f)  BY <1>2, <3>3, <4>1 DEF Agreeing
      <4>3. QED  BY <3>1, <3>2, <4>2 DEF SeenTo, Serves, Held
    <3>5. GoUpdatingLocked(fds[f].flags \cup {"write"}, "read")
      BY <1>2, <2>2, <2>7, <3>4 DEF ReadReply
    <3>6. fds[f].flags \cup {"write"} \in SUBSET Flags
      BY <1>2, <1>3 DEF EngineTypes, Entries, Flags
    <3>7. QED  BY <2>4, <2>5, <3>5, <3>6
  <2>8. ASSUME NEW done \in Pcs, NEW waiting \in Pcs, Handshake(done, waiting)
        PROVE  Armed(c, f)'
    <3>1. CASE conn' = [conn EXCEPT ![c].phase = "up"] /\ GoUpdating(All, done)
      BY <2>4, <2>5, <3>1
    <3>2. CASE conn' = [conn EXCEPT ![c].phase = "handshake"]
      <4>1. conn'[c].phase = "handshake"  BY <1>9, <3>2, Handling
      <4>2. QED  BY <2>6, <4>1
    <3>3. QED  BY <1>9, <2>8, <3>1, <3>2 DEF Handshake
  <2>9. CASE ReadEarly
    <3>1. Handshake("rearm", "rearm") \/ (UNCHANGED conn /\ conn[c].phase # "up")
      BY <1>9, <2>9 DEF ReadEarly
    <3>2. QED  BY <2>4, <2>6, <2>8, <3>1
  <2>10. CASE Rearm
    <3>1. UNCHANGED conn /\ io.pc = "rearm"  BY <2>10 DEF Rearm
    <3>2. c \notin Plaintext /\ Up  BY <1>2, <1>9, <2>3, <2>6, <3>1 DEF Handing, Up
    <3>3. GoUpdatingLocked(All, AfterRead)  BY <1>9, <2>6, <2>10, <3>1, <3>2 DEF Rearm
    <3>4. QED  BY <2>4, <2>5, <3>3
  <2>11. CASE Update
    <3>1. Go("update_poll")  BY <1>2, <2>2, <2>11 DEF Update
    <3>2. QED  BY <2>4, <2>5, <3>1 DEF Outputs
  <2>12. CASE UpdatePolled
    <3>1. io.pc = "update_poll" /\ UpdatePoll(f, io.flags) /\ GoOn(io.then) /\ UNCHANGED <<conn, fds>>
      BY <2>2, <2>12 DEF UpdatePolled, UpdatePoll
    <3>2. "write" \notin io.flags
      <4>1. SUFFICES ASSUME "write" \in io.flags PROVE FALSE  OBVIOUS
      <4>2. EngineTypes'  BY EngineTypesStep
      <4>3. Asked(f)'  BY <1>2, <1>3, <2>4, <3>1, <4>1, <4>2, PollOperations
      <4>4. QED  BY <1>1, <4>3
    <3>3. /\ c \notin Plaintext
          /\ \/ io.then = "rearm" \/ conn[c].phase = "handshake"
             \/ io.then = "check" /\ conn[c].length > 0
      BY <1>1, <1>9, <2>2, <2>3, <3>1, <3>2 DEF Handing, Updating
    <3>4. GoOn("rearm")  BY <2>6, <3>1, <3>3
    <3>5. QED  BY <2>4, <2>5, <3>4 DEF Outputs
  <2>13. CASE ClearLoad \/ ClearStore \/ ClearPoll
    <3>1. ClearLoad => io'.pc = "store" /\ io'.eh = io.eh  BY <1>3 DEF ClearLoad, IoThread
    <3>2. ClearStore => Go("clear_poll")  BY DEF ClearStore
    <3>3. ClearPoll => GoOn("write")  BY DEF ClearPoll
    <3>4. ClearLoad => Armed(c, f)'  BY <1>9, <3>1 DEF Serves, c0, Outputs
    <3>5. QED  BY <2>4, <2>5, <2>13, <3>2, <3>3, <3>4 DEF Outputs
  <2>14. CASE WriteEarly
    <3>1. Go("move") \/ Handshake("move", "check")  BY <2>14 DEF WriteEarly
    <3>2. QED  BY <2>4, <2>5, <2>8, <3>1 DEF Outputs
  <2>15. CASE Move
    <3>1. Go("send")  BY <2>15 DEF Move
    <3>2. QED  BY <2>4, <2>5, <3>1 DEF Outputs
  <2>16. CASE SendPlain
    <3>1. Go("more") \/ Drained("more", FALSE) \/ GoClosing(c0, "check")
      BY <2>16 DEF SendPlain
    <3>2. QED  BY <2>4, <2>5, <3>1 DEF Outputs
  <2>17. CASE More
    <3>1. GoUpdatingLocked(All, "check")  BY <1>9, <2>6, <2>17 DEF More
    <3>2. QED  BY <2>4, <2>5, <3>1
  <2>18. CASE SendTls
    <3>1. \/ Go("sent") \/ GoUpdating({"read"}, "check") \/ GoUpdating(All, "check")
          \/ GoClosing(c0, "check")
      BY <1>9, <2>6, <2>18 DEF SendTls
    <3>2. QED  BY <2>4, <2>5, <3>1 DEF Outputs
  <2>19. CASE Sent
    <3>1. conn'[c].obuffer = conn[c].obuffer  BY <1>9, <2>19, Handling
    <3>2. GoUpdatingLocked(All, "check")  BY <1>9, <2>6, <2>19, <3>1 DEF Sent
    <3>3. QED  BY <2>4, <2>5, <3>2
  <2>20. QED
    BY <1>9, <2>7, <2>9, <2>10, <2>11, <2>12, <2>13, <2>14, <2>15, <2>16, <2>17, <2>18, <2>19
    DEF Handler
<1>10. QED
  <2>1. Quiet(c, f) \/ Own(c)  BY <1>1, <1>2, QuietOrOwn
  <2>2. QED  BY <1>5, <1>6, <1>7, <1>8, <1>9, <2>1 DEF Own

------------------------------------------------------------------------------
(* What the thread that opens a connection leaves of that.                    *)

\* It changes the connection it opens and that one's descriptor.
Beside(o, g) ==
  /\ g # None /\ Apart(o) /\ conn'[o].sfd = g
  /\ UNCHANGED <<io, maker, writer, raced>>
  /\ io.eh # None => fd # g
  /\ \A c \in Conn \ {o} :
       /\ conn'[c] = conn[c] /\ conn[c].sfd # g
       /\ Unregistered(c)' <=> Unregistered(c)
       /\ BeingMade(c)' <=> BeingMade(c)
  /\ Once(poll_set')
  /\ \A f \in Fd \ {g} : fds'[f] = fds[f] /\ opened'[f] = opened[f] /\ PollKept(f)
  /\ \A f \in Fd : fds[f] # None /\ fds[f].conn = o => f = g
\* The constructor, and the two halves of register_socket().
Constructs(o, g) ==
  /\ conn[o].nth = 0 /\ (o \in Plaintext => conn'[o].phase # "handshake")
  /\ fds'[g] = None /\ fds[g] = None /\ Polled(g)' = 0
  /\ Unregistered(o)' /\ BeingMade(o)'
Enters(o, g) ==
  /\ conn'[o] = conn[o]
  /\ fds'[g] = Entry(o, conn[o].nth, All) /\ Polled(g)' = 0
  /\ ~Unregistered(o)' /\ BeingMade(o)'
Asks(o, g) ==
  /\ conn'[o] = conn[o]
  /\ fds'[g] = fds[g] /\ fds[g] # None /\ Polled(g)' # 0 /\ Asked(g)'
  /\ ~Unregistered(o) /\ ~Unregistered(o)'

LEMMA OpenedBeside ==
  ASSUME InductiveInvariant, InductiveInvariant', PolledOnce, OpenNext, ~crossed'
  PROVE  \E o \in Conn, g \in Fd :
           Beside(o, g) /\ (Constructs(o, g) \/ Enters(o, g) \/ Asks(o, g))
<1> USE EngineAssumption
<1>0. /\ EngineTypes /\ EngineTypes' /\ ConnTypes /\ ThreadTypes /\ Opening /\ Once(poll_set)
  BY DEF InductiveInvariant, TypeOK, PolledOnce, Once
<1>k. ASSUME UNCHANGED poll_set, NEW f \in Fd
      PROVE  PollKept(f) /\ Once(poll_set') /\ (Polled(f)' # 0 <=> Polled(f) # 0)
  BY <1>0, <1>k, PollView, PollViewNext DEF PollKept
<1>u. ASSUME NEW g \in Fd, \A i \in 1..Len(poll_set) : poll_set[i].fd # g
      PROVE  Polled(g) = 0
  BY <1>0, <1>u, PollView DEF Lists
<1>1. ASSUME NEW c \in Conn, Open(c)
      PROVE  \E g \in Fd : Beside(c, g) /\ Constructs(c, g)
  <2>1. PICK g \in Available :
          /\ g \in Fd /\ g # None /\ fds[g] = None
          /\ \A i \in 1..Len(poll_set) : poll_set[i].fd # g
          /\ io.eh # None => fd # g
          /\ \A d \in Conn : conn[d].sfd # g
          /\ Constructed(c, g) /\ Apart(c)
          /\ opener.pc = "rest" /\ opener' = [pc |-> "entry", conn |-> c, fd |-> g]
          /\ UNCHANGED <<io, maker>>
    BY <1>1, Opens
  <2>c. EngineTypes /\ ConnTypes /\ Constructed(c, g)  BY <1>0, <2>1
  <2>d. \E phase \in {"start", "up", "handshake"} :
          /\ c \in Plaintext => phase # "handshake"
          /\ conn'[c] = [sfd |-> g, phase |-> phase, obuffer |-> 1, length |-> 0, nth |-> 1]
    BY <2>c, Constructing
  <2>2. PICK phase \in {"start", "up", "handshake"} :
          /\ c \in Plaintext => phase # "handshake"
          /\ conn'[c] = [sfd |-> g, phase |-> phase, obuffer |-> 1, length |-> 0, nth |-> 1]
    BY <2>d
  <2>3. /\ conn[c].nth = 0 /\ opened' = [opened EXCEPT ![g] = c]
        /\ \A d \in Conn \ {c} : conn'[d] = conn[d]
        /\ UNCHANGED <<fds, poll_set, writer, raced>>
    BY <2>c, Constructing DEF history
  <2>4. \A f \in Fd \ {g} : opened'[f] = opened[f]  BY <1>0, <2>3 DEF EngineTypes
  <2>5. Polled(g)' = 0 /\ Once(poll_set') /\ \A f \in Fd : PollKept(f)
    BY <1>k, <1>u, <2>1, <2>3
  <2>6. \A d \in Conn \ {c} : /\ Unregistered(d)' <=> Unregistered(d)
                              /\ BeingMade(d)' <=> BeingMade(d)
    BY <2>1 DEF Unregistered, BeingMade
  <2>7. Unregistered(c)' /\ BeingMade(c)'  BY <2>1 DEF Unregistered, BeingMade
  <2>8. \A f \in Fd : ~(fds[f] # None /\ fds[f].conn = c)  BY <2>1 DEF Apart
  <2>9. Beside(c, g)  BY <2>1, <2>2, <2>3, <2>4, <2>5, <2>6, <2>8 DEF Beside
  <2>10. Constructs(c, g)  BY <2>1, <2>2, <2>3, <2>5, <2>7 DEF Constructs
  <2>11. QED  BY <2>1, <2>9, <2>10
<1>2. ASSUME OpenOn
      PROVE  \E o \in Conn, g \in Fd : Beside(o, g) /\ (Enters(o, g) \/ Asks(o, g))
  <2>1. PICK o \in Conn : o = opener.conn  BY <1>2, Registering
  <2>2. PICK g \in Fd : g = opener.fd  BY <1>2, Registering
  <2>3. /\ g # None /\ Apart(o) /\ conn[o].sfd = g
        /\ io.eh # None => fd # g
        /\ \A c \in Conn \ {o} : conn[c].sfd # g
        /\ \/ /\ opener.pc = "entry" /\ opener' = [opener EXCEPT !.pc = "poll"]
              /\ UNCHANGED poll_set /\ fds' = [fds EXCEPT ![g] = Entry(o, conn[o].nth, All)]
           \/ /\ opener.pc = "poll" /\ opener' = Resting /\ fds[g] # None
              /\ RegisterPoll(g, All)
        /\ UNCHANGED <<opened, conn, io, maker, writer, raced>>
    BY <1>2, <2>1, <2>2, Registering DEF history
  <2>4. Polled(g) = 0  BY <1>0, <1>u, <2>2, <2>3 DEF Opening
  <2>5. opener \in [pc : {"entry", "poll"}, conn : Conn, fd : Fd]
    BY <1>0, <2>3 DEF ThreadTypes, Resting
  <2>6. maker.conn # o  BY <2>3 DEF Apart
  <2>7. \A f \in Fd : fds[f] # None /\ fds[f].conn = o => f = g  BY <2>2, <2>3 DEF Apart
  <2>8. CASE /\ opener.pc = "entry" /\ opener' = [opener EXCEPT !.pc = "poll"]
             /\ UNCHANGED poll_set /\ fds' = [fds EXCEPT ![g] = Entry(o, conn[o].nth, All)]
    <3>1. opener'.pc = "poll" /\ opener'.conn = o  BY <2>1, <2>5, <2>8
    <3>2. /\ fds'[g] = Entry(o, conn[o].nth, All)
          /\ \A f \in Fd \ {g} : fds'[f] = fds[f]
      BY <1>0, <2>8 DEF EngineTypes
    <3>3. Polled(g)' = 0 /\ Once(poll_set') /\ \A f \in Fd : PollKept(f)
      BY <1>k, <2>4, <2>8
    <3>4. \A d \in Conn \ {o} : /\ Unregistered(d)' <=> Unregistered(d)
                                /\ BeingMade(d)' <=> BeingMade(d)
      BY <2>1, <2>3, <3>1 DEF Unregistered, BeingMade
    <3>5. ~Unregistered(o)' /\ BeingMade(o)'
      BY <2>3, <2>6, <3>1 DEF Unregistered, BeingMade
    <3>6. Beside(o, g)  BY <2>3, <2>7, <3>2, <3>3, <3>4 DEF Beside
    <3>7. Enters(o, g)  BY <2>3, <3>2, <3>3, <3>5 DEF Enters
    <3>8. QED  BY <3>6, <3>7
  <2>9. CASE /\ opener.pc = "poll" /\ opener' = Resting /\ fds[g] # None
             /\ RegisterPoll(g, All)
    <3>1. opener'.pc = "rest"  BY <2>9 DEF Resting
    <3>2. UNCHANGED fds  BY <2>9 DEF RegisterPoll
    <3>3. All \in SUBSET Flags /\ "write" \in All  BY DEF All, Flags
    <3>4. \A f \in Fd \ {g} : PollKept(f)
      BY <1>0, <2>4, <2>9, <3>3, PollOperations
    <3>5. Once(poll_set') /\ Polled(g)' # 0 /\ Asked(g)'
      BY <1>0, <2>4, <2>9, <3>3, PollOperations
    <3>6. \A d \in Conn \ {o} : /\ Unregistered(d)' <=> Unregistered(d)
                                /\ BeingMade(d)' <=> BeingMade(d)
      BY <2>1, <2>3, <3>1 DEF Unregistered, BeingMade
    <3>7. ~Unregistered(o) /\ ~Unregistered(o)'
      BY <2>3, <2>6, <2>9, <3>1 DEF Unregistered
    <3>8. Beside(o, g)  BY <2>3, <2>7, <3>2, <3>4, <3>5, <3>6 DEF Beside
    <3>9. Asks(o, g)  BY <2>3, <2>9, <3>2, <3>5, <3>7 DEF Asks
    <3>10. QED  BY <3>8, <3>9
  <2>10. QED  BY <2>3, <2>8, <2>9
<1>3. QED  BY <1>1, <1>2 DEF OpenNext

\* So what the output of the others rests on stays, and its own is registered with write events.
LEMMA OpenOutput ==
  ASSUME InductiveInvariant, InductiveInvariant', OutputInvariant, OpenNext, ~crossed'
  PROVE  OutputInvariant'
<1> USE EngineAssumption, ConnectionAssumption
<1>0. /\ EngineTypes /\ ConnTypes /\ ThreadTypes /\ Control /\ Closing
      /\ PolledOnce /\ Registered /\ Numbered /\ Writing /\ Handing /\ Agreeing /\ Arming
  BY DEF InductiveInvariant, TypeOK, OutputInvariant
<1>1. PICK o \in Conn, g \in Fd :
        Beside(o, g) /\ (Constructs(o, g) \/ Enters(o, g) \/ Asks(o, g))
  BY <1>0, OpenedBeside
<1>2. /\ g # None /\ Apart(o) /\ conn'[o].sfd = g
      /\ UNCHANGED <<io, maker, writer, raced>>
      /\ io.eh # None => fd # g
      /\ \A c \in Conn \ {o} :
           /\ conn'[c] = conn[c] /\ conn[c].sfd # g
           /\ Unregistered(c)' <=> Unregistered(c)
           /\ BeingMade(c)' <=> BeingMade(c)
      /\ Once(poll_set')
      /\ \A f \in Fd \ {g} : fds'[f] = fds[f] /\ opened'[f] = opened[f] /\ PollKept(f)
      /\ \A f \in Fd : fds[f] # None /\ fds[f].conn = o => f = g
  BY <1>1 DEF Beside
<1>3. /\ io.eh # None => c0 # o /\ c0 \in Conn /\ c0' = c0 /\ fd' = fd /\ fd \in Fd \ {g}
      /\ io.victim # o /\ maker.conn # o
      /\ writer.pc # "rest" => writer.conn # o
      /\ writer.pc \in {"copied", "poll"} => writer.entry.conn # o
  BY <1>2, AtWork DEF Apart, c0, fd
<1>4. \A c \in Conn \ {o}, f \in Fd : conn'[c].sfd = f => conn[c].sfd = f /\ f # g
  BY <1>2
<1>5. \A f \in Fd : conn'[o].sfd = f => f = g  BY <1>2
<1>6. PolledOnce'
  <2>1. ASSUME NEW f \in Fd, Polled(f)' # 0 PROVE fds'[f] # None
    <3>1. CASE f # g  BY <1>0, <1>2, <2>1, <3>1 DEF PolledOnce, PollKept
    <3>2. CASE f = g
      <4>1. Asks(o, g)  BY <1>1, <2>1, <3>2 DEF Constructs, Enters
      <4>2. QED  BY <3>2, <4>1 DEF Asks
    <3>3. QED  BY <3>1, <3>2
  <2>2. ASSUME NEW f \in Fd, io'.pc = "erase", fd' = f PROVE Polled(f)' = 0
    <3>1. io.pc = "erase" /\ io.eh # None  BY <1>0, <1>2, <2>2 DEF Control
    <3>2. fd = f /\ f # g  BY <1>3, <2>2, <3>1
    <3>3. QED  BY <1>0, <1>2, <3>1, <3>2 DEF PolledOnce, PollKept
  <2>3. ASSUME NEW f \in Fd, maker'.pc = "poll", conn'[maker'.conn].sfd = f
        PROVE  fds'[f] # None /\ Polled(f)' = 0
    <3>1. maker.pc = "poll" /\ maker.conn \in Conn \ {o} /\ maker' = maker
      BY <1>0, <1>2, <1>3, <2>3 DEF ThreadTypes, Resting
    <3>2. conn[maker.conn].sfd = f /\ f # g  BY <1>2, <2>3, <3>1
    <3>3. fds[f] # None /\ Polled(f) = 0  BY <1>0, <3>1, <3>2 DEF PolledOnce
    <3>4. QED  BY <1>2, <3>2, <3>3 DEF PollKept
  <2>4. QED  BY <1>2, <2>1, <2>2, <2>3 DEF PolledOnce, Once
<1>7. Registered'
  <2>1. ASSUME io'.pc \in {"retry", "connect"} PROVE opened'[conn'[io'.victim].sfd] = None
    <3>1. io' = io /\ io.pc \in {"retry", "connect"}  BY <1>2, <2>1
    <3>2. io.victim \in Conn \ {o} /\ conn[io.victim].sfd # None
      BY <1>0, <1>3, <3>1 DEF Closing
    <3>3. conn'[io.victim] = conn[io.victim] /\ conn[io.victim].sfd \in Fd \ {g}
      BY <1>0, <1>2, <3>2 DEF ConnTypes, Members
    <3>4. QED  BY <1>0, <1>2, <3>1, <3>3 DEF Registered
  <2>2. ASSUME NEW c \in Conn \ raced, NEW f \in Fd, conn'[c].sfd = f
        PROVE  /\ \/ Unregistered(c)'
                  \/ /\ fds'[f] # None /\ fds'[f].conn = c
                     /\ "deletion" \in fds'[f].flags =>
                          io'.pc \in {"close", "retry", "connect"} /\ conn'[io'.victim].sfd = f
               /\ BeingMade(c)' \/ Polled(f)' # 0
               /\ io'.pc = "erase" => fd' # f
    <3>1. CASE c # o
      <4>1. conn[c].sfd = f /\ f # g  BY <1>4, <2>2, <3>1
      <4>2. /\ \/ Unregistered(c)
               \/ /\ fds[f] # None /\ fds[f].conn = c
                  /\ "deletion" \in fds[f].flags =>
                       io.pc \in {"close", "retry", "connect"} /\ conn[io.victim].sfd = f
            /\ BeingMade(c) \/ Polled(f) # 0
            /\ io.pc = "erase" => fd # f
        BY <1>0, <4>1 DEF Registered, Marked
      <4>3. io.pc \in {"close", "retry", "connect"} => conn'[io.victim] = conn[io.victim]
        BY <1>0, <1>2, <1>3 DEF Closing, Deleting
      <4>4. io.pc = "erase" => fd' = fd  BY <1>0, <1>3 DEF Control
      <4>5. QED  BY <1>2, <3>1, <4>1, <4>2, <4>3, <4>4 DEF PollKept
    <3>2. CASE c = o
      <4>1. f = g  BY <1>5, <2>2, <3>2
      <4>2. io'.pc = "erase" => fd' # g  BY <1>0, <1>2, <1>3 DEF Control
      <4>3. CASE Constructs(o, g)  BY <3>2, <4>1, <4>2, <4>3 DEF Constructs
      <4>4. CASE Enters(o, g)
        <5>1. fds'[g] = [conn |-> o, nth |-> conn[o].nth, flags |-> All] /\ BeingMade(o)'
          BY <4>4 DEF Enters, Entry
        <5>2. fds'[g] # None
          <6>1. conn[o].nth \in Nat  BY <1>0 DEF ConnTypes, Members
          <6>2. QED  BY <5>1, <6>1 DEF All, Flags
        <5>3. QED  BY <3>2, <4>1, <4>2, <5>1, <5>2 DEF All
      <4>5. CASE Asks(o, g)
        <5>1. /\ fds'[g] = fds[g] /\ Polled(g)' # 0 /\ ~Unregistered(o) /\ conn[o].sfd = g
          BY <1>2, <4>5 DEF Asks
        <5>2. /\ fds[g] # None /\ fds[g].conn = o
              /\ "deletion" \in fds[g].flags =>
                   io.pc \in {"close", "retry", "connect"} /\ conn[io.victim].sfd = g
          BY <1>0, <2>2, <3>2, <5>1 DEF Registered, Marked
        <5>3. io.pc \in {"close", "retry", "connect"} => conn[io.victim].sfd # g
          BY <1>0, <1>2, <1>3 DEF Closing, Deleting
        <5>4. QED  BY <3>2, <4>1, <4>2, <5>1, <5>2, <5>3
      <4>6. QED  BY <1>1, <4>3, <4>4, <4>5
    <3>3. QED  BY <3>1, <3>2
  <2>3. QED  BY <1>2, <2>1, <2>2 DEF Registered, Marked
<1>8. Numbered'
  <2>1. ASSUME NEW f \in Fd, fds'[f] # None
        PROVE  \/ fds'[f].nth < conn'[fds'[f].conn].nth
               \/ fds'[f].nth = conn'[fds'[f].conn].nth
                  /\ ~((maker'.pc = "entry" /\ maker'.conn = fds'[f].conn)
                       \/ (opener'.pc = "entry" /\ opener'.conn = fds'[f].conn))
    <3>1. CASE fds'[f] = fds[f] /\ fds[f].conn # o
      <4>1. PICK c \in Conn \ {o} : c = fds[f].conn  BY <1>0, <2>1, <3>1 DEF EngineTypes, Entries
      <4>2. fds[f].nth < conn[c].nth \/ (fds[f].nth = conn[c].nth /\ ~Unregistered(c))
        BY <1>0, <2>1, <3>1, <4>1 DEF Numbered, Before
      <4>3. QED  BY <1>2, <3>1, <4>1, <4>2 DEF Unregistered
    <3>2. CASE Constructs(o, g)
      <4>1. f # g  BY <2>1, <3>2 DEF Constructs
      <4>2. QED  BY <1>2, <2>1, <3>1, <4>1
    <3>3. CASE Enters(o, g) /\ f = g
      <4>1. fds'[g].conn = o /\ fds'[g].nth = conn'[o].nth /\ ~Unregistered(o)'
        BY <3>3 DEF Enters, Entry
      <4>2. QED  BY <3>3, <4>1 DEF Unregistered
    <3>4. CASE Asks(o, g) /\ f = g
      <4>1. fds'[g] = fds[g] /\ conn'[o] = conn[o] /\ ~Unregistered(o)'  BY <3>4 DEF Asks
      <4>2. CASE fds[g].conn = o
        <5>1. fds[g].nth < conn[o].nth \/ fds[g].nth = conn[o].nth
          BY <1>0, <2>1, <3>4, <4>1, <4>2 DEF Numbered, Before
        <5>2. QED  BY <3>4, <4>1, <4>2, <5>1 DEF Unregistered
      <4>3. QED  BY <3>1, <3>4, <4>1, <4>2
    <3>5. CASE f # g  BY <1>2, <2>1, <3>1, <3>5
    <3>6. QED  BY <1>1, <3>2, <3>3, <3>4, <3>5
  <2>3. ASSUME io'.eh # None, io'.pc \notin {"skip", "erase"} PROVE Before(io.eh)'
    <3>1. Before(io.eh) /\ io' = io /\ io.eh # None
      BY <1>0, <1>2, <2>3 DEF Numbered
    <3>2. PICK c \in Conn \ {o} : c = io.eh.conn  BY <1>3, <3>1 DEF c0
    <3>3. io.eh.nth < conn[c].nth \/ (io.eh.nth = conn[c].nth /\ ~Unregistered(c))
      BY <3>1, <3>2 DEF Before
    <3>4. io.eh.nth < conn'[c].nth \/ (io.eh.nth = conn'[c].nth /\ ~Unregistered(c)')
      BY <1>2, <3>3
    <3>5. QED  BY <3>1, <3>2, <3>4 DEF Before, Unregistered
  <2>4. ASSUME writer'.pc \in {"copied", "poll"} PROVE Before(writer.entry)'
    <3>1. Before(writer.entry) /\ writer' = writer
      BY <1>0, <1>2, <2>4 DEF Numbered
    <3>2. PICK c \in Conn \ {o} : c = writer.entry.conn
      BY <1>0, <1>3, <2>4, <3>1 DEF ThreadTypes, Resting, Entries
    <3>3. writer.entry.nth < conn[c].nth
            \/ (writer.entry.nth = conn[c].nth /\ ~Unregistered(c))
      BY <3>1, <3>2 DEF Before
    <3>4. writer.entry.nth < conn'[c].nth
            \/ (writer.entry.nth = conn'[c].nth /\ ~Unregistered(c)')
      BY <1>2, <3>3
    <3>5. QED  BY <3>1, <3>2, <3>4 DEF Before, Unregistered
  <2>5. QED  BY <1>2, <2>1, <2>3, <2>4 DEF Numbered, Before, Unregistered
<1>9. Writing'
  <2>1. ASSUME NEW c \in Conn, Held(c)', conn'[c].sfd # None PROVE conn'[c].obuffer > 0
    <3>1. Held(c) /\ c # o  BY <1>2, <1>3, <2>1 DEF Held
    <3>2. QED  BY <1>0, <1>2, <2>1, <3>1 DEF Writing
  <2>2. writer.pc = "copied" /\ "deletion" \in writer.entry.flags /\ fds'[writer.fd] # None =>
          \/ "deletion" \in fds'[writer.fd].flags \/ writer.entry.conn \in raced
          \/ fds'[writer.fd].conn # writer.entry.conn \/ fds'[writer.fd].nth # writer.entry.nth
    <3>1. CASE fds'[writer.fd] = fds[writer.fd]
      BY <1>0, <3>1 DEF Writing, Marked
    <3>2. CASE writer.pc = "copied" /\ fds'[writer.fd] # fds[writer.fd]
      <4>1. writer.fd \in Fd  BY <1>0, <3>2 DEF ThreadTypes, Resting
      <4>2. writer.fd = g /\ ~Constructs(o, g) /\ ~Asks(o, g)
        BY <1>2, <3>2, <4>1 DEF Constructs, Asks
      <4>3. fds'[g].conn = o  BY <1>1, <4>2 DEF Enters, Entry
      <4>4. QED  BY <1>3, <3>2, <4>2, <4>3
    <3>3. QED  BY <3>1, <3>2
  <2>3. QED  BY <1>0, <1>2, <2>1, <2>2 DEF Writing, Marked
<1>10. Handing'
  <2>1. ASSUME NEW c \in Plaintext PROVE conn'[c].phase # "handshake"
    <3>1. c = o => conn'[c].phase # "handshake"
      BY <1>0, <1>1 DEF Constructs, Enters, Asks, Handing
    <3>2. QED  BY <1>0, <1>2, <3>1 DEF Handing
  <2>2. io.eh # None => conn'[c0] = conn[c0] /\ fds'[fd] = fds[fd]
    BY <1>2, <1>3
  <2>3. Updating' <=> Updating  BY <1>2 DEF Updating
  <2>4. CASE io.eh = None  BY <1>2, <2>1, <2>4 DEF Handing
  <2>5. CASE io.eh # None
    <3>1. io' = io /\ raced' = raced /\ c0' = c0 /\ fd' = fd  BY <1>2, <1>3, <2>5
    <3>2. QED  BY <1>0, <2>1, <2>2, <2>3, <2>5, <3>1 DEF Handing
  <2>6. QED  BY <2>4, <2>5
<1>11. ASSUME NEW c \in Conn \ raced', NEW f \in Fd, conn'[c].sfd = f, ~BeingMade(c)', ~Asked(f)'
       PROVE  /\ c \notin raced /\ conn'[c] = conn[c] /\ conn[c].sfd = f /\ ~BeingMade(c)
              /\ fds'[f] = fds[f] /\ ~Asked(f)
  <2>1. c # o  BY <1>1, <1>5, <1>11 DEF Constructs, Enters, Asks
  <2>2. conn[c].sfd = f /\ f # g  BY <1>4, <1>11, <2>1
  <2>3. QED  BY <1>2, <1>11, <2>1, <2>2 DEF PollKept
<1>12. Agreeing'
  <2> SUFFICES ASSUME NEW c \in Conn \ raced', NEW f \in Fd, conn'[c].sfd = f, ~BeingMade(c)',
                      "write" \in fds'[f].flags, ~Asked(f)'
               PROVE  SeenTo(c, f)'
    BY DEF Agreeing
  <2>1. conn'[c] = conn[c] /\ SeenTo(c, f)  BY <1>0, <1>11 DEF Agreeing
  <2>2. QED  BY <1>2, <2>1 DEF SeenTo, Serves, c0
<1>13. Arming'
  <2> SUFFICES ASSUME NEW c \in Conn \ raced', NEW f \in Fd, conn'[c].sfd = f, ~BeingMade(c)',
                      Owing(c)', ~Asked(f)'
               PROVE  \/ Held(c)' /\ (writer'.pc = "mark" \/ writer'.fd = f)
                      \/ Serves(c, Outputs)'
                      \/ Deleting' /\ io'.victim = c
    BY DEF Arming
  <2>1. conn'[c] = conn[c] /\ conn[c].sfd = f /\ ~BeingMade(c) /\ ~Asked(f) /\ c \notin raced
    BY <1>11
  <2>2. Owing(c)  BY <2>1 DEF Owing
  <2>3. \/ Held(c) /\ (writer.pc = "mark" \/ writer.fd = f)
        \/ Serves(c, Outputs)
        \/ Deleting /\ io.victim = c
    BY <1>0, <2>1, <2>2 DEF Arming
  <2>4. QED  BY <1>2, <2>3 DEF Held, Serves, c0, Deleting
<1>14. QED
  BY <1>6, <1>7, <1>8, <1>9, <1>10, <1>12, <1>13 DEF OutputInvariant

------------------------------------------------------------------------------
(* The theorems.                                                              *)

LEMMA InitWorld == Init => WorldTypes
<1> SUFFICES ASSUME Init PROVE WorldTypes  OBVIOUS
<1>1. inbound = [c \in Conn |-> 0] /\ sent = 0  BY DEF Init
<1>2. broken = {} /\ raced = {} /\ foreign = {} /\ crossed = FALSE  BY DEF Init
<1>3. sent \in 0..MaxReads /\ 0 \in 0..sent  BY <1>1, ConnectionAssumption
<1>4. inbound \in [Conn -> 0..sent]  BY <1>1, <1>3
<1>5. QED  BY <1>2, <1>3, <1>4 DEF WorldTypes

LEMMA InitInvariant == Init => InductiveInvariant
<1> SUFFICES ASSUME Init PROVE InductiveInvariant  OBVIOUS
<1> USE EngineAssumption, ConnectionAssumption DEF Init
<1>1. EngineTypes
  <2>1. <<>> \in Seq([fd : Fd, events : SUBSET All])  BY EmptySeq
  <2>2. QED  BY <2>1 DEF EngineInit, EngineTypes
<1>2. ThreadTypes
  <2>1. <<>> \in Seq([fd : Fd, revents : SUBSET Events])  BY EmptySeq
  <2>2. io \in IoThread  BY <2>1 DEF Looping, IoThread, Pcs
  <2>3. QED  BY <2>2 DEF ThreadTypes
<1>3. ConnTypes
  <2>1. Fresh \in Members  BY DEF Fresh, Members
  <2>2. QED  BY <2>1 DEF ConnTypes, Fresh
<1>4. WorldTypes  BY InitWorld
<1>5. /\ io.pc = "prune" /\ io.eh = None /\ io.ready = <<>> /\ io.victim = None
      /\ maker.pc = "rest" /\ maker.conn = None /\ opener.pc = "rest" /\ writer.pc = "rest"
      /\ raced = {} /\ foreign = {}
      /\ \A c \in Conn : conn[c].sfd = None /\ c # None
      /\ \A f \in Fd : fds[f] = None
  BY DEF Looping, Resting, Fresh, EngineInit
<1>6. Control /\ Closing /\ Making /\ Owning /\ Serving /\ InUse /\ ClosesItsOwn /\ DeletionIsFinal
  BY <1>5
  DEF Control, Closing, Deleting, Making, Owning, Serving, InUse, ClosesItsOwn, DeletionIsFinal,
      Released
<1>7. OpenedApart /\ Opening  BY <1>5 DEF OpenedApart, Apart, Opening
<1>8. QED  BY <1>1, <1>2, <1>3, <1>4, <1>6, <1>7 DEF InductiveInvariant, TypeOK

\* What is said of the descriptors holds until a thread of the application gets a number that is
\* still known, and nothing is said after that.
LEMMA CrossedOnce == [Next]_vars /\ ~crossed' => ~crossed
<1> SUFFICES ASSUME [Next]_vars, ~crossed' PROVE ~crossed  OBVIOUS
<1>1. CASE [OtherNext]_vars  BY <1>1, OpeningStays DEF opening
<1>2. CASE OpenNext  BY <1>2 DEF OpenNext, OpenOn, OpenEntry, OpenPoll, Open
<1>3. QED  BY <1>1, <1>2, NextSplits

\* The invariant is inductive as long as it says something.
LEMMA InductiveStep ==
  ASSUME InductiveInvariant, [Next]_vars, ~crossed'
  PROVE  InductiveInvariant'
<1>1. CASE [OtherNext]_vars
  BY <1>1, TypeStep, ControlStep, ClosingStep, MakingStep, OpenedApartStep, OpeningStep,
     OwningStep, ServingStep, InUseStep, ClosesItsOwnStep, DeletionIsFinalStep
  DEF InductiveInvariant
<1>2. CASE OpenNext  BY <1>2, OpenStep, OpenOnStep DEF OpenNext
<1>3. QED  BY <1>1, <1>2, NextSplits

\* InductiveInvariantHolds: whichever threads open connections, the descriptors, the entries of
\* the engine, the members of the connections and the position of the IO thread are related as
\* InductiveInvariant says, as long as no thread of the application got a number that the engine
\* still knew.
THEOREM InductiveInvariantHolds == Spec => [](crossed \/ InductiveInvariant)
<1>1. (crossed \/ InductiveInvariant) /\ [Next]_vars => (crossed \/ InductiveInvariant)'
  BY CrossedOnce, InductiveStep
<1>2. QED  BY <1>1, InitInvariant, PTL DEF Spec

\* EntryInUseLivesHolds (process_events()): for any connections, descriptors and peers, whichever
\* threads open connections and whatever the handlers close or open meanwhile, the entry that
\* process_events() keeps a pointer to is not removed or replaced while its handlers run.  Two
\* things it does not cover: a connection that another thread opens on a number the engine still
\* knows, and one whose entry inplace_modify_fd() overwrote with another.
THEOREM EntryInUseLivesHolds == Spec => []EntryInUseLives
<1>1. InUse => (io.eh # None /\ c0 \in raced) \/ EntryThere
  BY DEF InUse, EntryThere, c0
<1>2. crossed \/ InductiveInvariant => EntryInUseLives
  BY <1>1 DEF InductiveInvariant, EntryInUseLives
<1>3. QED  BY <1>2, InductiveInvariantHolds, PTL

\* DescriptorsOwnedHolds (close(), read_loop()): for any connections, descriptors and retries,
\* whichever threads open connections, no connection closes the descriptor of another, and what
\* delete_socket() marked stays marked until it is removed, with the same two exceptions.
THEOREM DescriptorsOwnedHolds == Spec => []DescriptorsOwned
<1>1. crossed \/ InductiveInvariant => DescriptorsOwned
  BY DEF InductiveInvariant, DescriptorsOwned
<1>2. QED  BY <1>1, InductiveInvariantHolds, PTL

\* In the beginning nothing is registered, and there is no output.
LEMMA InitOutput == Init => OutputInvariant
<1> SUFFICES ASSUME Init PROVE OutputInvariant  OBVIOUS
<1> USE EngineAssumption
<1>1. /\ io.pc = "prune" /\ io.eh = None
      /\ maker.pc = "rest" /\ writer.pc = "rest"
      /\ \A c \in Conn : conn[c] = Fresh
      /\ \A f \in Fd : fds[f] = None
      /\ poll_set = <<>> /\ Len(poll_set) = 0
  BY DEF Init, EngineInit, Looping, Resting
<1>2. PolledOnce
  <2>1. Once(poll_set)  BY <1>1 DEF Once
  <2>2. EngineTypes  BY InitInvariant DEF InductiveInvariant, TypeOK
  <2>3. ASSUME NEW f \in Fd PROVE Polled(f) = 0
    <3>1. ~Lists(poll_set, f)  BY <1>1 DEF Lists
    <3>2. QED  BY <2>1, <2>2, <3>1, PollView
  <2>4. QED  BY <1>1, <2>1, <2>3 DEF PolledOnce, Once
<1>3. Registered  BY <1>1 DEF Registered, Fresh
<1>4. Numbered  BY <1>1 DEF Numbered
<1>5. Writing  BY <1>1 DEF Writing, Held
<1>6. Handing
  BY <1>1, ConnectionAssumption DEF Handing, Fresh
<1>7. Agreeing /\ Arming
  BY <1>1 DEF Agreeing, Arming, Fresh
<1>8. QED  BY <1>2, <1>3, <1>4, <1>5, <1>6, <1>7 DEF OutputInvariant

\* OutputInvariantHolds (update_socket(), inplace_modify_fd()): the two tables of the engine, the
\* copies of their entries that the threads hold and the output of the connections are related as
\* OutputInvariant says, as long as no thread of the application got a number that the engine
\* still knew.
THEOREM OutputInvariantHolds == Spec => [](crossed \/ (InductiveInvariant /\ OutputInvariant))
<1>1. ASSUME InductiveInvariant, OutputInvariant, [Next]_vars, ~crossed'
      PROVE  InductiveInvariant' /\ OutputInvariant'
  <2>1. PolledOnce /\ Registered /\ Numbered /\ Writing /\ Handing /\ Agreeing /\ Arming
    BY <1>1 DEF OutputInvariant
  <2>2. InductiveInvariant'  BY <1>1, InductiveStep
  <2>3. CASE [OtherNext]_vars
    <3>1. PolledOnce'  BY <1>1, <2>1, <2>3, PolledOnceStep
    <3>2. Registered'  BY <1>1, <2>1, <2>3, RegisteredStep
    <3>3. Numbered'  BY <1>1, <2>1, <2>3, NumberedStep
    <3>4. Writing'  BY <1>1, <2>1, <2>3, WritingStep
    <3>5. Handing'  BY <1>1, <2>1, <2>3, HandingStep
    <3>6. Agreeing'  BY <1>1, <2>1, <2>2, <2>3, <3>2, AgreeingStep
    <3>7. Arming'  BY <1>1, <2>1, <2>2, <2>3, <3>2, ArmingStep
    <3>8. QED
      BY <2>2, <3>1, <3>2, <3>3, <3>4, <3>5, <3>6, <3>7 DEF OutputInvariant
  <2>4. CASE OpenNext  BY <1>1, <2>2, <2>4, OpenOutput
  <2>5. QED  BY <1>1, <2>3, <2>4, NextSplits
<1>2. (crossed \/ (InductiveInvariant /\ OutputInvariant)) /\ [Next]_vars =>
        (crossed \/ (InductiveInvariant /\ OutputInvariant))'
  BY <1>1, CrossedOnce
<1>3. QED  BY <1>2, InitInvariant, InitOutput, PTL DEF Spec

\* OutputIsArmedHolds (socket_write(), on_read(), on_write()): for any connections, buffers and
\* peers, what is in obuffer of a connection that is up and could go out with the next write
\* event is asked for: when none of its calls is under way, poll_set wants that event.  The
\* exceptions are those of EntryInUseLivesHolds.  Nothing is said of the rest of a partial send()
\* that left obuffer empty, nor of an SSL_write() that was refused.
THEOREM OutputIsArmedHolds == Spec => []OutputIsArmed
<1>1. InductiveInvariant /\ OutputInvariant => OutputIsArmed
  <2>1. SUFFICES ASSUME InductiveInvariant, OutputInvariant,
                        NEW c \in Conn \ raced, NEW f \in Fd,
                        conn[c].sfd = f, AtRest(c), Owing(c), ~Asked(f)
                 PROVE  FALSE
    BY DEF OutputIsArmed
  <2>2. ~BeingMade(c)
    BY <2>1 DEF AtRest
  <2>3. \/ Held(c) /\ (writer.pc = "mark" \/ writer.fd = f)
        \/ Serves(c, Outputs)
        \/ Deleting /\ io.victim = c
    BY <2>1, <2>2 DEF OutputInvariant, Arming
  <2>4. QED  BY <2>1, <2>3 DEF AtRest, Serves
<1>2. crossed => OutputIsArmed  BY DEF OutputIsArmed
<1>3. QED  BY <1>1, <1>2, OutputInvariantHolds, PTL
==============================================================================
