-------------------------- MODULE HttpServerRequest ---------------------------
(***************************************************************************)
(* tpp::http_server_request (src/http_server_request.cpp): one connection  *)
(* that was accepted.  The request comes in pieces cut anywhere, the       *)
(* handler is called for it, the response goes through the buffers of      *)
(* ssl_connection and the connection is closed when they are drained.  All *)
(* of it runs on the IO thread.  Request and response are counted in       *)
(* units; only the counts and the limits matter.                           *)
(***************************************************************************)
EXTENDS Naturals

CONSTANTS Requests,     \* what a peer may send, see RequestsAssumption
          MaxHeader,    \* get_max_header_size()
          MaxPost,      \* get_max_post_size()
          ResponseSize, \* of the handler's response
          BufSize,      \* DPP_BUFSIZE
          Timeout,      \* 10 seconds, in ticks; the headers add as much
          None          \* no Content-Length

RequestsAssumption ==
  /\ \A r \in Requests :
       /\ r.head \in {"ok", "malformed", "badlength"}
       /\ r.header \in Nat \ {0}           \* units up to the blank line
       /\ r.length \in Nat \cup {None}     \* Content-Length
       /\ r.size \in Nat                   \* units sent after the blank line
  /\ {MaxHeader, MaxPost, ResponseSize, BufSize, Timeout} \subseteq Nat \ {0}

VARIABLES request,         \* external: what the peer sends, all in all
          plaintext,
          outcome,         \* external: what the handler does: "sets" a status, "forgets", "throws"
          arrived, taken,  \* units read, and units taken from the buffer
          phase,           \* "handshake", "up" or "closed"
          state, request_body, content_length, status,
          handler,         \* whether it is set
          timed_out, left,
          pc,              \* "wait", "parse" or "close"
          obuffer, length, \* units not sent: in obuffer and in client_to_server_buffer
          responses,       \* history: how many responses were written
          seen,            \* history: the size of the body the handler was given, or None
          cut              \* history: whether on_buffer_drained() closed with units unsent

input == <<request, plaintext, outcome>>
parser == <<taken, state, request_body, content_length, status>>
output == <<obuffer, length, responses>>
clock == <<timed_out, left>>
vars == <<input, arrived, phase, parser, handler, clock, pc, output, seen, cut>>

Init ==
  /\ request \in Requests /\ plaintext \in BOOLEAN /\ outcome \in {"sets", "forgets", "throws"}
  /\ arrived = 0 /\ taken = 0
  /\ phase = "handshake"
  /\ state = "HEADERS" /\ request_body = 0 /\ content_length = 0 /\ status = 0
  /\ handler = TRUE
  /\ timed_out = FALSE /\ left = Timeout /\ pc = "wait"
  /\ obuffer = 0 /\ length = 0 /\ responses = 0 /\ seen = None /\ cut = FALSE

Available == arrived - taken
LesserOf(a, b) == IF a < b THEN a ELSE b

-----------------------------------------------------------------------------
(* handle_buffer().                                                          *)

Parsing(s) == pc = "parse" /\ state = s
Closing == pc' = "close"
Kept == UNCHANGED <<input, arrived, phase, timed_out, length, cut>>

\* The handler, if it is still set, and the response.  A handler that throws stays set, and
\* process_events() calls on_error(), which closes; otherwise the caller goes on.
Respond(code, body) ==
  IF handler /\ outcome = "throws"
  THEN /\ Closing /\ status' = code
       /\ UNCHANGED <<handler, seen, obuffer, responses, state>>
  ELSE /\ seen' = IF handler THEN body ELSE seen
       /\ handler' = FALSE
       /\ status' = IF handler /\ outcome = "sets" THEN 200 ELSE code
       /\ obuffer' = obuffer + ResponseSize /\ responses' = responses + 1
       /\ state' = "DONE" /\ pc' = "wait"

Headers == arrived >= request.header

HeadersTooLong ==
  /\ Parsing("HEADERS") /\ Available > MaxHeader
  /\ Closing
  /\ Kept /\ UNCHANGED <<parser, handler, left, obuffer, responses, seen>>

HeadersWait ==
  /\ Parsing("HEADERS") /\ Available <= MaxHeader /\ ~Headers
  /\ pc' = "wait"
  /\ Kept /\ UNCHANGED <<parser, handler, left, obuffer, responses, seen>>

HeadersEnd(head) ==
  /\ Parsing("HEADERS") /\ Available <= MaxHeader /\ Headers
  /\ request.head = head
  /\ left' = left + Timeout
  /\ taken' = request.header

\* generate_error(): what came behind the headers stays in the buffer.
HeadersMalformed ==
  /\ HeadersEnd("malformed")
  /\ Respond(400, 0)
  /\ Kept /\ UNCHANGED <<request_body, content_length>>

\* std::stoull() throws.
HeadersBadLength ==
  /\ HeadersEnd("badlength")
  /\ Closing
  /\ Kept
  /\ UNCHANGED <<state, request_body, content_length, status, handler, obuffer, responses, seen>>

HeadersOk ==
  /\ HeadersEnd("ok")
  /\ content_length' = IF request.length = None THEN 0 ELSE LesserOf(request.length, MaxPost)
  /\ state' = "CONTENT"
  /\ Kept /\ UNCHANGED <<request_body, status, handler, pc, obuffer, responses, seen>>

\* Fault: one unit of the body is not waited for.
ContentEndsEarly ==
  /\ Parsing("CONTENT")
  /\ request_body' = request_body + Available /\ taken' = arrived
  /\ IF request_body' > MaxPost \/ request_body' + 1 >= content_length
     THEN state' = "DONE" /\ UNCHANGED pc
     ELSE pc' = "wait" /\ UNCHANGED state
  /\ Kept /\ UNCHANGED <<content_length, status, handler, left, obuffer, responses, seen>>

Content ==
  /\ Parsing("CONTENT")
  /\ request_body' = request_body + Available /\ taken' = arrived
  /\ IF request_body' > MaxPost \/ request_body' >= content_length
     THEN state' = "DONE" /\ UNCHANGED pc
     ELSE pc' = "wait" /\ UNCHANGED state
  /\ Kept /\ UNCHANGED <<content_length, status, handler, left, obuffer, responses, seen>>

\* Whatever comes after the request is answered again, without the handler.
Done ==
  /\ Parsing("DONE")
  /\ Respond(status, request_body)
  /\ Kept /\ UNCHANGED <<taken, request_body, content_length, left>>

HandleBuffer ==
  \/ HeadersTooLong \/ HeadersWait \/ HeadersMalformed \/ HeadersBadLength \/ HeadersOk
  \/ Content \/ Done

-----------------------------------------------------------------------------
(* The events.                                                               *)

\* close(), with the buffers of ssl_connection::close().
Closed ==
  /\ phase' = "closed" /\ state' = "DONE"
  /\ obuffer' = 0 /\ length' = 0 /\ taken' = arrived

Close ==
  /\ pc = "close"
  /\ Closed /\ pc' = "wait"
  /\ UNCHANGED <<input, arrived, request_body, content_length, status, handler, clock,
                 responses, seen, cut>>

Waiting == pc = "wait" /\ phase # "closed"

\* The first write event, or the end of the TLS handshake.
Connected ==
  /\ Waiting /\ phase = "handshake"
  /\ phase' = "up"
  /\ UNCHANGED <<input, arrived, parser, handler, clock, pc, output, seen, cut>>

Receive ==
  /\ Waiting /\ phase = "up"
  /\ arrived' \in arrived + 1 .. request.header + request.size
  /\ pc' = "parse"
  /\ UNCHANGED <<input, phase, parser, handler, clock, output, seen, cut>>

PeerCloses ==
  /\ Waiting
  /\ Closing
  /\ UNCHANGED <<input, arrived, phase, parser, handler, clock, output, seen, cut>>

\* What a write event sends: send() takes a part, SSL_write() all or nothing.  An error of
\* either closes the connection, as when the peer does.
Sendable(n) == IF plaintext THEN 1..n ELSE {0, n}

\* Fault: on_buffer_drained() is not called.
WriteForgetsToClose ==
  /\ Waiting /\ phase = "up" /\ obuffer + length > 0
  /\ LET moved == IF length = 0 THEN LesserOf(obuffer, BufSize) ELSE 0 IN
     \E sent \in Sendable(length + moved) :
       obuffer' = obuffer - moved /\ length' = length + moved - sent
  /\ UNCHANGED <<input, arrived, phase, parser, handler, clock, pc, responses, seen, cut>>

\* A write event.  Unless TLS sent nothing, an empty obuffer counts as drained, which closes
\* the connection when there is a response with a status.
Write ==
  /\ Waiting /\ phase = "up" /\ obuffer + length > 0
  /\ LET moved == IF length = 0 THEN LesserOf(obuffer, BufSize) ELSE 0 IN
     \E sent \in Sendable(length + moved) :
       IF obuffer = moved /\ (plaintext \/ sent # 0) /\ state = "DONE" /\ status > 0
       THEN Closed /\ cut' = (cut \/ sent < length + moved)
       ELSE /\ obuffer' = obuffer - moved /\ length' = length + moved - sent
            /\ UNCHANGED <<phase, state, taken, cut>>
  /\ UNCHANGED <<input, arrived, request_body, content_length, status, handler, clock, pc,
                 responses, seen>>

\* one_second_timer(): a request that is DONE has no timeout.  After close() it is found not
\* connected, which changes timed_out only.
OneSecondTimer ==
  /\ pc = "wait"
  /\ IF left > 0 THEN left' = left - 1 /\ UNCHANGED <<pc, timed_out>>
     ELSE /\ timed_out' = (timed_out \/ state # "DONE" \/ phase = "closed")
          /\ IF state # "DONE" THEN Closing ELSE UNCHANGED pc
          /\ UNCHANGED left
  /\ UNCHANGED <<input, arrived, phase, parser, handler, output, seen, cut>>

Next == HandleBuffer \/ Close \/ Connected \/ Receive \/ PeerCloses \/ Write \/ OneSecondTimer

Spec == Init /\ [][Next]_vars

\* Some of what is written is sent: the peer reads, or the connection breaks.
Progress == Write /\ (obuffer' + length' < obuffer + length \/ phase' = "closed")

\* The IO thread finishes what it has begun and ticks the timers.
FairSpec ==
  Spec /\ WF_vars(HandleBuffer \/ Close) /\ WF_vars(OneSecondTimer) /\ WF_vars(Progress)
-----------------------------------------------------------------------------
(* Properties.                                                               *)

\* A whole request with a body within the limits, as long as it says.
Wellformed ==
  /\ request.head = "ok" /\ request.header <= MaxHeader
  /\ request.size <= MaxPost
  /\ request.size = IF request.length = None THEN 0 ELSE request.length

\* Wherever the reads cut it, a well-formed request reaches the handler whole, and gets at
\* most one response.
AnsweredOnce == Wellformed => responses <= 1 /\ seen \in {None, request.size}

\* The connection does not stay open: it is answered and closed, or times out.  A handler
\* that sets no status keeps it open for good.
ConnectionEnds == <>(phase = "closed" \/ outcome = "forgets")

\* http_server_request.h: on_buffer_drained() is "called when the output buffer has been
\* fully flushed to the socket".
FlushedBeforeClose == ~cut

-----------------------------------------------------------------------------
(* The inductive invariant behind AnsweredOnce.                              *)

TypeOK ==
  /\ request \in Requests /\ plaintext \in BOOLEAN /\ outcome \in {"sets", "forgets", "throws"}
  /\ arrived \in 0..request.header + request.size /\ taken \in 0..arrived
  /\ phase \in {"handshake", "up", "closed"} /\ state \in {"HEADERS", "CONTENT", "DONE"}
  /\ request_body \in Nat /\ content_length \in Nat /\ status \in Nat
  /\ handler \in BOOLEAN /\ timed_out \in BOOLEAN /\ left \in Nat
  /\ pc \in {"wait", "parse", "close"}
  /\ obuffer \in Nat /\ length \in Nat /\ responses \in Nat /\ cut \in BOOLEAN

\* What was taken of a well-formed request; it is answered when all of it was, and then no more
\* of it comes.
Progressing ==
  Wellformed /\ phase # "closed" =>
    /\ state = "HEADERS" => taken = 0 /\ request_body = 0
    /\ state = "CONTENT" => content_length = request.size
    /\ state # "HEADERS" => taken = request.header + request_body
    /\ state = "DONE" => taken = request.header + request.size
    /\ state # "DONE" \/ pc = "parse" => responses = 0

ClosedForGood == phase = "closed" => state = "DONE" /\ pc = "wait"

InductiveInvariant == TypeOK /\ Progressing /\ ClosedForGood /\ AnsweredOnce
=============================================================================
