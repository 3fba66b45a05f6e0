--------------------------- MODULE WebsocketClient ----------------------------
(***************************************************************************)
(* tpp::websocket_client (src/websocket.cpp) as eventsub_client uses it:   *)
(* the upgrade, the frames, the keepalive and the timeout.  The peer's     *)
(* bytes come in pieces cut anywhere; a read is parsed one frame per step. *)
(* A byte is its offset in what the peer sends: the buffer is those from   *)
(* `consumed` to `arrived`.                                                *)
(***************************************************************************)
EXTENDS Naturals, Sequences, Functions

CONSTANTS Upgrades, \* possible answers to the upgrade request, see WebsocketAssumption
          Streams,  \* possible sequences of frames after it
          Timeout,  \* 5 seconds, in ticks
          Keepalive \* 20 seconds, in ticks

Opcodes == {"continuation", "text", "binary", "close", "ping", "pong", "unknown"}

\* The length field: 7 bits, or a mark and 16 or 64 bits.
HeaderSize(len) == IF len <= 125 THEN 2 ELSE IF len <= 65535 THEN 4 ELSE 10
Size(f) == HeaderSize(f.len) + f.len

\* A frame begins where the one before it ends, the first one behind the upgrade.
WebsocketAssumption ==
  /\ Upgrades \subseteq [status : {"101", "200", "other", "malformed"}, size : Nat \ {0}]
  /\ \A s \in Streams :
       /\ s \in Seq([op : Opcodes, len : Nat, at : Nat]) /\ s # <<>>
       /\ s[1].at = 0
       /\ \A i \in 1..Len(s) - 1 : s[i + 1].at = s[i].at + Size(s[i])
  /\ Timeout \in Nat /\ Keepalive \in Nat \ {0}

VARIABLES upgrade, stream,    \* external: what the peer sends, all in all
          arrived,            \* external: how many bytes of it have been read
          consumed,
          phase,              \* "connecting", "handshake", "up" or "closed"
          state,              \* ws_state
          timed_out,
          left,               \* ticks until timeout
          tick, pinged,       \* the time modulo Keepalive, and whether a keepalive was sent
          pc,                 \* "wait", "parse" or "close"
          pongs,              \* the pings that were answered
          handled,            \* history: the frames handle_frame() was given
          late                \* history: whether the last read had the end of the upgrade in it

peer == <<upgrade, stream>>
vars == <<peer, arrived, consumed, phase, state, timed_out, left, tick, pinged, pc, pongs, handled, late>>

Init ==
  /\ upgrade \in Upgrades /\ stream \in Streams
  /\ arrived = 0 /\ consumed = 0
  /\ phase = "connecting" /\ state = "HTTP_HEADERS"
  /\ timed_out = FALSE /\ left = Timeout /\ tick = 0 /\ pinged = FALSE /\ pc = "wait"
  /\ pongs = <<>> /\ handled = <<>> /\ late = FALSE

-----------------------------------------------------------------------------
(* The peer's bytes.                                                         *)

Start(i) == upgrade.size + stream[i].at
End(i) == Start(i) + Size(stream[i])
Total == End(Len(stream))

\* Where reads may end: near the beginning and the end of the upgrade and of each frame.
Cuts ==
  {1, upgrade.size, Total}
    \cup UNION {{Start(i) + n : n \in {0, 1, 2, 3, 4, 7, 8, 9, 10} \cap 0..Size(stream[i])}
                  \cup {End(i) - 1} : i \in DOMAIN stream}

\* The frame at the front of the buffer.
At(n) == {i \in DOMAIN stream : Start(i) = n}
First == CHOOSE i \in At(consumed) : TRUE
Available == arrived - consumed

-----------------------------------------------------------------------------
(* handle_buffer().                                                          *)

Parsing(s) == pc = "parse" /\ state = s
Kept == UNCHANGED <<peer, arrived, phase, timed_out, left, tick, pinged, late>>

\* The whole answer has to come in the first read; a frame behind it stays in the buffer.
Upgrade ==
  /\ Parsing("HTTP_HEADERS")
  /\ IF Available < upgrade.size \/ consumed # 0
     THEN pc' = "close" /\ UNCHANGED <<consumed, state>>
     ELSE /\ consumed' = upgrade.size
          /\ CASE upgrade.status = "101" -> state' = "CONNECTED" /\ pc' = "wait"
               [] upgrade.status = "200" -> UNCHANGED state /\ pc' = "wait"
               [] OTHER -> UNCHANGED state /\ pc' = "close"
  /\ Kept /\ UNCHANGED <<pongs, handled>>

\* parseheader() finds that the frame is not complete.
Incomplete(len) ==
  \/ len > 125 /\ len <= 65535 /\ Available < 8
  \/ len > 65535 /\ Available < 10
  \/ Available < HeaderSize(len) + len

FrameWaits ==
  /\ Parsing("CONNECTED")
  /\ \/ Available < 4
     \/ Available >= 4 /\ stream[First].op \notin {"close", "unknown"} /\ Incomplete(stream[First].len)
  /\ pc' = "wait"
  /\ Kept /\ UNCHANGED <<consumed, state, pongs, handled>>

Complete(ops) ==
  /\ Parsing("CONNECTED") /\ Available >= 4
  /\ stream[First].op \in ops
  /\ ~Incomplete(stream[First].len)

EraseFrame == consumed' = consumed + Size(stream[First]) /\ UNCHANGED <<state, pc>>

\* Fault: the header of a ping stays in the buffer.
PingKeepsHeader ==
  /\ Complete({"ping"})
  /\ pongs' = Append(pongs, First)
  /\ consumed' = consumed + stream[First].len /\ UNCHANGED <<state, pc>>
  /\ Kept /\ UNCHANGED handled

\* handle_ping() answers with the same payload.
Ping ==
  /\ Complete({"ping"})
  /\ pongs' = Append(pongs, First)
  /\ EraseFrame
  /\ Kept /\ UNCHANGED handled

Pong ==
  /\ Complete({"pong"})
  /\ EraseFrame
  /\ Kept /\ UNCHANGED <<pongs, handled>>

\* eventsub_client::handle_frame() takes every frame; a listener of a text frame may throw,
\* which closes the connection.
DataFrame ==
  /\ Complete({"continuation", "text", "binary"})
  /\ handled' = Append(handled, First)
  /\ \/ EraseFrame
     \/ stream[First].op = "text" /\ pc' = "close" /\ UNCHANGED <<consumed, state>>
  /\ Kept /\ UNCHANGED pongs

\* error() does nothing: the frame stays, and so does the connection.
CloseFrame ==
  /\ Parsing("CONNECTED") /\ Available >= 4
  /\ stream[First].op \in {"close", "unknown"}
  /\ pc' = "wait"
  /\ Kept /\ UNCHANGED <<consumed, state, pongs, handled>>

HandleBuffer == Upgrade \/ FrameWaits \/ Ping \/ Pong \/ DataFrame \/ CloseFrame

-----------------------------------------------------------------------------
(* The events.                                                               *)

Close ==
  /\ pc = "close"
  /\ phase' = "closed" /\ state' = "HTTP_HEADERS" /\ consumed' = arrived
  /\ pc' = "wait"
  /\ UNCHANGED <<peer, arrived, timed_out, left, tick, pinged, pongs, handled, late>>

Waiting == pc = "wait" /\ phase # "closed"

Connected ==
  /\ Waiting /\ phase # "up"
  /\ phase' = IF phase = "connecting" THEN "handshake" ELSE "up"
  /\ UNCHANGED <<peer, arrived, consumed, state, timed_out, left, tick, pinged, pc, pongs, handled, late>>

Receive ==
  /\ Waiting /\ phase = "up"
  /\ \E n \in Cuts : n > arrived /\ arrived' = n
  /\ late' = (arrived < upgrade.size)
  /\ pc' = "parse"
  /\ UNCHANGED <<peer, consumed, phase, state, timed_out, left, tick, pinged, pongs, handled>>

PeerCloses ==
  /\ Waiting
  /\ pc' = "close"
  /\ UNCHANGED <<peer, arrived, consumed, phase, state, timed_out, left, tick, pinged, pongs, handled, late>>

Overdue == ~timed_out /\ phase # "closed" /\ left = 0

\* Fault: the upgrade does not time out.
TimerForgetsHttp ==
  /\ pc = "wait"
  /\ left' = IF left > 0 THEN left - 1 ELSE 0
  /\ tick' = (tick + 1) % Keepalive
  /\ pinged' = (tick' = 0 /\ state = "CONNECTED")
  /\ timed_out' = (timed_out \/ (Overdue /\ phase # "up"))
  /\ pc' = IF Overdue /\ phase # "up" THEN "close" ELSE pc
  /\ UNCHANGED <<peer, arrived, consumed, phase, state, pongs, handled, late>>

\* one_second_timer(): a keepalive every 20 seconds, and close() if the connection, the
\* handshake or the upgrade takes too long.
OneSecondTimer ==
  /\ pc = "wait"
  /\ left' = IF left > 0 THEN left - 1 ELSE 0
  /\ tick' = (tick + 1) % Keepalive
  /\ pinged' = (tick' = 0 /\ state = "CONNECTED")
  /\ timed_out' = (timed_out \/ (Overdue /\ state # "CONNECTED"))
  /\ pc' = IF Overdue /\ state # "CONNECTED" THEN "close" ELSE pc
  /\ UNCHANGED <<peer, arrived, consumed, phase, state, pongs, handled, late>>

Next == HandleBuffer \/ Close \/ Connected \/ Receive \/ PeerCloses \/ OneSecondTimer

Spec == Init /\ [][Next]_vars

\* The IO thread finishes what it has begun and ticks the timers.
FairSpec == Spec /\ WF_vars(HandleBuffer \/ Close) /\ WF_vars(OneSecondTimer)
-----------------------------------------------------------------------------
(* Properties.                                                               *)

TypeOK ==
  /\ consumed \in 0..arrived /\ arrived \in 0..Total
  /\ phase \in {"connecting", "handshake", "up", "closed"}
  /\ state = "CONNECTED" => phase = "up"
  /\ timed_out \in BOOLEAN /\ left \in 0..Timeout /\ tick \in 0..Keepalive - 1
  /\ pinged \in BOOLEAN /\ late \in BOOLEAN
  /\ pc \in {"wait", "parse", "close"}
  /\ handled \in Seq(DOMAIN stream) /\ pongs \in Seq(DOMAIN stream)

Data == {"continuation", "text", "binary"}
Past(n) == {i \in DOMAIN stream : End(i) <= n}
InOrder(s, frames) ==
  /\ \A i, j \in DOMAIN s : i < j => s[i] < s[j]
  /\ Range(s) = frames

\* However the reads cut the stream, the bytes that were taken from the buffer are whole
\* frames; each data frame among them was handled once and each ping answered once, in order.
TakenInOrder ==
  state = "CONNECTED" /\ pc # "close" =>
    /\ consumed \in {Start(i) : i \in DOMAIN stream} \cup {Total}
    /\ InOrder(handled, {i \in Past(consumed) : stream[i].op \in Data})
    /\ InOrder(pongs, {i \in Past(consumed) : stream[i].op = "ping"})

\* A whole frame does not wait in the buffer, except one that came with the upgrade, or
\* behind a close frame, or that is shorter than four bytes.
NoFrameWaits ==
  state = "CONNECTED" /\ pc = "wait" /\ Past(arrived) # Past(consumed) =>
    late \/ Available < 4 \/ stream[First].op \in {"close", "unknown"}

\* After a close frame nothing is handled or answered any more.
NothingAfterClose ==
  \A i \in DOMAIN stream : stream[i].op = "close" =>
    \A j \in Range(handled) \cup Range(pongs) : j < i

\* The upgrade is done in time or the connection is closed, whatever the peer does.
UpgradeDecided == <>(state = "CONNECTED" \/ phase = "closed")

-----------------------------------------------------------------------------
(* The inductive invariant behind the first three of these.                  *)

Sent == upgrade \in Upgrades /\ stream \in Streams /\ state \in {"HTTP_HEADERS", "CONNECTED"}

\* Bytes are parsed while the connection is up, and none after it has closed.
ParsedWhileUp ==
  /\ pc = "parse" => phase = "up"
  /\ phase = "closed" => state = "HTTP_HEADERS" /\ pc = "wait"

\* Before the upgrade no frame is handled, and the first read has the whole answer or ends it.
Upgrading ==
  state = "HTTP_HEADERS" /\ phase # "closed" =>
    /\ handled = <<>> /\ pongs = <<>>
    /\ consumed = 0 /\ pc = "wait" => arrived = 0
    /\ consumed = 0 /\ pc = "parse" => late

\* A close frame is never taken from the buffer, nor is one that is not known.
CloseStays ==
  state = "CONNECTED" /\ pc # "close" =>
    \A i \in Past(consumed) : stream[i].op \notin {"close", "unknown"}

InductiveInvariant ==
  /\ Sent /\ TypeOK /\ ParsedWhileUp /\ Upgrading /\ CloseStays
  /\ TakenInOrder /\ NoFrameWaits /\ NothingAfterClose
=============================================================================
