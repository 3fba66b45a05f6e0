----------------------------- MODULE HttpsClient ------------------------------
(***************************************************************************)
(* tpp::https_client (src/https_client.cpp): one request.  The answer      *)
(* comes in pieces cut anywhere; handle_buffer() parses what has come, one *)
(* turn of its loop per step; the timer, the peer and errors end the       *)
(* request early; `completed` tells the caller.  All of it runs on the IO  *)
(* thread.  The answer is in tokens: a line or a header is one, CR and LF  *)
(* are one each, and so is a unit of the body.  A token is its position in *)
(* the answer: the buffer is those behind `consumed` up to `arrived`.      *)
(***************************************************************************)
EXTENDS Naturals, Sequences, Functions

CONSTANTS Responses, \* the answers a server may give, see HttpsAssumption
          Timeout,   \* request_timeout, in ticks of the timer
          Grace,     \* what the headers add to it (10 seconds in the code)
          MaxThrows, \* bound: calls of `completed` that throw
          None,      \* ULLONG_MAX: there is no Content-Length
          Bad        \* not a number

\* The tokens of a chunk: its line, CR, LF, its units, CR, LF.  What follows a line that is no
\* number is never read.
Width(size) == IF size = Bad THEN 3 ELSE size + 5

\* The headers and the blank line are the first two tokens; the chunks follow them and each
\* other, and the last one is empty.
HttpsAssumption ==
  /\ Timeout \in Nat /\ Grace \in Nat /\ MaxThrows \in Nat
  /\ None \notin Nat /\ Bad \notin Nat /\ None # Bad
  /\ \A r \in Responses :
       /\ r.ok \in BOOLEAN              \* an HTTP/1.x status line with a number
       /\ r.status \in Nat
       /\ r.length \in {None, Bad} \cup Nat  \* Content-Length
       /\ r.size \in Nat                \* units of body sent without chunks
       /\ r.chunks \in Seq([size : Nat \cup {Bad}, at : Nat])  \* Transfer-Encoding: chunked
       /\ r.chunks # <<>> => r.chunks[1].at = 2
       /\ \A k \in DOMAIN r.chunks :
            /\ r.chunks[k].size = 0 <=> k = Len(r.chunks)
            /\ k < Len(r.chunks) =>
                 r.chunks[k + 1].at = r.chunks[k].at + Width(r.chunks[k].size)

VARIABLES response,       \* external: the answer
          arrived,        \* external: how many tokens of it have been read
          consumed,
          phase,          \* tcp_connect_done and connected: "connecting", "handshake", "up"
          state, body, content_length, chunked, chunk_size, chunk_receive, status,
          completed,      \* whether `completed` is set
          timed_out,
          left,           \* ticks until timeout
          ticking,        \* whether the timer still runs
          pc,             \* "wait", "parse", "close", or "dead" when std::terminate() is called
          caller,         \* who called close(): "read", "error" or "timer"
          throws,         \* how many calls of `completed` will still throw
          calls           \* history: what each call of `completed` saw

peer == <<response, arrived>>
parser == <<consumed, state, body, content_length, chunked, chunk_size, chunk_receive, status>>
clock == <<timed_out, left, ticking>>
done == <<completed, throws, calls>>
vars == <<peer, phase, parser, clock, pc, caller, done>>

Chunks == Range(response.chunks)
Total == IF response.chunks = <<>> THEN 2 + response.size
         ELSE response.chunks[Len(response.chunks)].at + 5
Blank == 2

\* The units of the body, and each CR of the chunks, which an LF follows.
Inside(c) == IF c.size = Bad THEN {} ELSE c.at + 4..c.at + 3 + c.size
Units == IF response.chunks = <<>> THEN 3..2 + response.size ELSE UNION {Inside(c) : c \in Chunks}
Returns(c) == {c.at + 2} \cup (IF c.size = Bad THEN {} ELSE {c.at + 4 + c.size})
CR == UNION {Returns(c) : c \in Chunks}

Init ==
  /\ response \in Responses
  /\ arrived = 0 /\ consumed = 0
  /\ phase = "connecting"
  /\ state = "HEADERS" /\ body = <<>>
  /\ content_length = 0 /\ chunked = FALSE /\ chunk_size = 0 /\ chunk_receive = 0
  /\ status = 0
  /\ completed = TRUE /\ throws \in 0..MaxThrows /\ calls = <<>>
  /\ timed_out = FALSE /\ left = Timeout /\ ticking = TRUE
  /\ pc = "wait" /\ caller = "read"

-----------------------------------------------------------------------------
(* `completed`.                                                              *)

\* completed(this); completed = {}.  A call that throws leaves it set.
CallCompleted(by) ==
  /\ calls' = Append(calls, [status |-> status', body |-> body', by |-> by, threw |-> throws > 0])
  /\ completed' = (throws > 0)
  /\ throws' = IF throws > 0 THEN throws - 1 ELSE 0

\* ssl_connection::close().
Disconnected == phase' = "closed" /\ consumed' = arrived

\* An exception in handle_buffer() reaches process_events(), which calls on_error().
Raise == pc' = "close" /\ caller' = "error" /\ UNCHANGED state

\* What is left in the buffer: the states that end the answer take all of it or none.
Finished ==
  /\ consumed' = IF state = "CONTENT" THEN arrived ELSE consumed
  /\ UNCHANGED <<peer, clock, phase, content_length, chunked, chunk_size, chunk_receive, status>>

\* The answer is complete: `completed`, then close(), which does not call it again.
Finish ==
  /\ Finished
  /\ IF completed THEN CallCompleted("answer") ELSE UNCHANGED done
  /\ IF completed /\ throws > 0 THEN Raise
     ELSE state' = "DONE" /\ pc' = "close" /\ caller' = "read"

\* close(): an answer that was not complete is reported as it is.  An exception of `completed`
\* leaves everything as it was; the timer is lost with it, and on_error() calls close() again,
\* the last time from a catch block.
Close ==
  /\ pc = "close"
  /\ UNCHANGED <<content_length, chunked, chunk_size, chunk_receive, status, body>>
  /\ IF state = "DONE" \/ ~completed THEN UNCHANGED done ELSE CallCompleted("close")
  /\ IF state # "DONE" /\ completed /\ throws > 0
     THEN /\ UNCHANGED <<state, phase, consumed, timed_out>>
          /\ pc' = CASE caller = "read" -> "close" [] caller = "error" -> "dead"
                     [] caller = "timer" -> "wait"
          /\ caller' = "error"
          /\ ticking' = (caller # "timer")
     ELSE /\ state' = "DONE" /\ Disconnected
          /\ timed_out' = (timed_out \/ caller = "timer")
          /\ pc' = "wait" /\ UNCHANGED <<caller, ticking>>
  /\ UNCHANGED <<peer, left>>

-----------------------------------------------------------------------------
(* handle_buffer(): a case of its switch per action.                         *)

Parsing(s) == pc = "parse" /\ state = s
Available == arrived - consumed
Ahead(n) == [i \in 1..n |-> consumed + i]
Rejected == pc' = "close" /\ caller' = "read"
More == pc' = "parse" /\ UNCHANGED caller
Enough == pc' = "wait" /\ UNCHANGED caller
Kept == UNCHANGED <<peer, phase, timed_out, ticking, done>>

HasBlank == consumed < Blank /\ Blank <= arrived
NoBody(s) == s = 204 \/ s < 200 \/ s = 304

\* Fault: what came with the headers waits for another read.
HeadersForgetTheRest ==
  /\ Parsing("HEADERS") /\ HasBlank
  /\ left' = left + Grace
  /\ consumed' = Blank
  /\ content_length' = IF response.length = Bad THEN None ELSE response.length
  /\ chunked' = (response.chunks # <<>>)
  /\ status' = response.status
  /\ chunk_size' = 0 /\ chunk_receive' = 0
  /\ state' = IF chunked' THEN "CHUNK_LEN" ELSE "CONTENT"
  /\ IF chunked' THEN Enough ELSE More
  /\ Kept /\ UNCHANGED body

\* std::stoull() throws for a Content-Length that is not a number.
Headers ==
  /\ Parsing("HEADERS") /\ HasBlank
  /\ left' = left + Grace
  /\ consumed' = Blank
  /\ IF ~response.ok \/ response.length = Bad
     THEN /\ pc' = "close" /\ caller' = IF response.ok THEN "error" ELSE "read"
          /\ UNCHANGED <<state, content_length, chunked, chunk_size, chunk_receive, status>>
     ELSE /\ content_length' = response.length
          /\ chunked' = (response.chunks # <<>>)
          /\ status' = response.status
          /\ chunk_size' = 0 /\ chunk_receive' = 0
          /\ IF NoBody(status') \/ content_length' = 0
             THEN /\ state' = IF chunked' THEN "CHUNK_LEN" ELSE "HEADERS"
                  /\ Rejected
             ELSE /\ state' = IF chunked' THEN "CHUNK_LEN" ELSE "CONTENT"
                  /\ IF chunked' /\ arrived = Blank THEN Enough ELSE More
  /\ Kept /\ UNCHANGED body

HeadersWait ==
  /\ Parsing("HEADERS") /\ ~HasBlank
  /\ Enough
  /\ Kept /\ UNCHANGED <<parser, left>>

\* find("\r\n") in the buffer, and std::stoi() of the line before it.
HasLine == \E p \in CR : consumed < p /\ p < arrived
Line == CHOOSE p \in CR : consumed < p /\ \A q \in CR : consumed < q => p <= q
Numbers == {c.size : c \in {d \in Chunks : d.at = consumed /\ d.at + 2 = Line}} \ {Bad}

ChunkLen ==
  /\ Parsing("CHUNK_LEN")
  /\ IF ~HasLine THEN Enough /\ UNCHANGED <<consumed, state, chunk_size, chunk_receive>>
     ELSE /\ chunk_receive' = 0
          /\ consumed' = Line + 1
          /\ \/ \E n \in Numbers :
                  /\ state' = IF n = 0 THEN "CHUNK_LAST" ELSE "CHUNK_CONTENT"
                  /\ chunk_size' = IF n = 0 THEN 2 ELSE n
                  /\ More
             \/ Numbers = {} /\ Rejected /\ UNCHANGED <<state, chunk_size>>
  /\ Kept /\ UNCHANGED <<left, body, content_length, chunked, status>>

ReadChunk(to_read) ==
  /\ Parsing("CHUNK_CONTENT")
  /\ body' = body \o Ahead(to_read)
  /\ consumed' = consumed + to_read
  /\ chunk_receive' = chunk_receive + to_read
  /\ IF chunk_receive' >= chunk_size THEN state' = "CHUNK_TRAILER" /\ More
                                     ELSE UNCHANGED state /\ Enough
  /\ Kept /\ UNCHANGED <<left, content_length, chunked, chunk_size, status>>

\* Fault: a chunk cut in two is read as two chunks.
ChunkContentForgetsReceived ==
  ReadChunk(IF Available > chunk_size THEN chunk_size ELSE Available)

ChunkContent ==
  ReadChunk(IF chunk_receive + Available > chunk_size THEN chunk_size - chunk_receive
            ELSE Available)

StartsWithCRLF == Available >= 2 /\ consumed + 1 \in CR

ChunkTrailer ==
  /\ Parsing("CHUNK_TRAILER")
  /\ IF StartsWithCRLF
     THEN state' = "CHUNK_LEN" /\ consumed' = consumed + 2 /\ More
     ELSE UNCHANGED <<state, consumed>> /\ Enough
  /\ Kept /\ UNCHANGED <<left, body, content_length, chunked, chunk_size, chunk_receive, status>>

ChunkLastWait ==
  /\ Parsing("CHUNK_LAST") /\ ~StartsWithCRLF
  /\ Enough
  /\ Kept /\ UNCHANGED <<parser, left>>

ChunkLast ==
  /\ Parsing("CHUNK_LAST") /\ StartsWithCRLF
  /\ UNCHANGED body
  /\ Finish

ContentMore ==
  /\ Parsing("CONTENT")
  /\ content_length # None /\ Len(body) + Available < content_length
  /\ body' = body \o Ahead(Available) /\ consumed' = arrived
  /\ Enough
  /\ Kept /\ UNCHANGED <<left, state, content_length, chunked, chunk_size, chunk_receive, status>>

\* Without a length the answer ends with what has come by now.
Content ==
  /\ Parsing("CONTENT")
  /\ IF content_length = None THEN TRUE ELSE Len(body) + Available >= content_length
  /\ body' = body \o Ahead(Available)
  /\ Finish

HandleBuffer ==
  \/ Headers \/ HeadersWait \/ ChunkLen \/ ChunkContent \/ ChunkTrailer
  \/ ChunkLastWait \/ ChunkLast \/ ContentMore \/ Content

-----------------------------------------------------------------------------
(* The events.                                                               *)

Waiting == pc = "wait" /\ phase # "closed"

\* The first write event, and the end of the handshake.
Connected ==
  /\ Waiting /\ phase # "up"
  /\ phase' = IF phase = "connecting" THEN "handshake" ELSE "up"
  /\ UNCHANGED <<peer, parser, clock, pc, caller, done>>

\* A read event.
Receive ==
  /\ Waiting /\ phase = "up"
  /\ arrived' \in arrived + 1..Total
  /\ pc' = "parse"
  /\ UNCHANGED <<response, phase, parser, clock, caller, done>>

\* The end of the stream, or an error of the socket.
PeerCloses ==
  /\ Waiting
  /\ Rejected
  /\ UNCHANGED <<peer, phase, parser, clock, done>>

\* Fault: a handshake does not time out.
OneSecondTimerIgnoresHandshake ==
  /\ pc = "wait" /\ ticking
  /\ IF left > 0 THEN left' = left - 1 /\ UNCHANGED <<pc, caller, timed_out>>
     ELSE /\ phase # "handshake"
          /\ timed_out' = (timed_out \/ phase \in {"connecting", "closed"})
          /\ state # "DONE" /\ pc' = "close" /\ caller' = "timer"
          /\ UNCHANGED left
  /\ UNCHANGED <<peer, phase, parser, ticking, done>>

\* one_second_timer(): close() when it is time, noting it before or after that.  After a
\* close() it is found not connected, which changes timed_out only.
OneSecondTimer ==
  /\ pc = "wait" /\ ticking
  /\ IF left > 0 THEN left' = left - 1 /\ UNCHANGED <<pc, caller, timed_out>>
     ELSE /\ timed_out' = (timed_out \/ phase \in {"connecting", "closed"})
          /\ IF state # "DONE" THEN pc' = "close" /\ caller' = "timer"
                               ELSE UNCHANGED <<pc, caller>>
          /\ UNCHANGED left
  /\ UNCHANGED <<peer, phase, parser, ticking, done>>

Next == HandleBuffer \/ Close \/ Connected \/ Receive \/ PeerCloses \/ OneSecondTimer

Spec == Init /\ [][Next]_vars

\* The IO thread finishes what it has begun and ticks the timers at least once a second.
FairSpec == Spec /\ WF_vars(HandleBuffer \/ Close) /\ WF_vars(OneSecondTimer)
-----------------------------------------------------------------------------
(* Properties.                                                               *)

TypeOK ==
  /\ consumed \in 0..arrived /\ arrived \in 0..Total /\ body \in Seq(Nat)
  /\ phase \in {"connecting", "handshake", "up", "closed"}
  /\ state \in {"HEADERS", "CONTENT", "DONE", "CHUNK_LEN", "CHUNK_TRAILER", "CHUNK_LAST",
                "CHUNK_CONTENT"}
  /\ content_length \in Nat \cup {None} /\ chunked \in BOOLEAN /\ status \in Nat
  /\ chunk_size \in Nat /\ chunk_receive \in 0..chunk_size
  /\ completed \in BOOLEAN /\ timed_out \in BOOLEAN /\ ticking \in BOOLEAN
  /\ left \in 0..Timeout + Grace /\ throws \in 0..MaxThrows
  /\ pc \in {"wait", "parse", "close", "dead"} /\ caller \in {"read", "error", "timer"}

\* However the request ends, the caller's function returns at most once: it is only called
\* again if it threw.
CompletedOnce == \A i \in DOMAIN calls : i < Len(calls) => calls[i].threw

SelfDelimiting ==
  /\ response.ok /\ ~NoBody(response.status)
  /\ \/ response.chunks # <<>> /\ (\A c \in Chunks : c.size # Bad) /\ response.length # 0
     \/ response.chunks = <<>> /\ response.length = response.size /\ response.size > 0

\* The units up to some token, each once and in order; all of them.
Beginning(b) ==
  /\ \A i, j \in DOMAIN b : i < j => b[i] < b[j]
  /\ \E n \in 0..Total : Range(b) = {p \in Units : p <= n}
Whole(b) == Beginning(b) /\ Range(b) = Units

\* Wherever the reads cut the answer, a caller who is told of a complete answer of a known
\* length gets the whole body, and one who is told of a part gets its beginning.
BodyWhole ==
  \A i \in DOMAIN calls :
    /\ calls[i].by = "answer" /\ SelfDelimiting => Whole(calls[i].body)
    /\ Beginning(calls[i].body)

\* When all of an answer that says where it ends has come, the client does not wait for more.
NothingToWaitFor == pc = "wait" /\ phase = "up" /\ arrived = Total => ~SelfDelimiting

\* The caller's function is called, whatever the peer does or does not do.
CompletedAtAll == <>(calls # <<>>)

\* https_client.h: a status of 0 means the request was not completed; so any other status
\* comes with all of the answer.
StatusMeansComplete ==
  \A i \in DOMAIN calls : calls[i].status # 0 /\ SelfDelimiting => Whole(calls[i].body)

-----------------------------------------------------------------------------
(* The inductive invariant behind CompletedOnce, BodyWhole and               *)
(* NothingToWaitFor.                                                         *)

Call == [status : Nat, body : Seq(Nat), by : {"answer", "close"}, threw : BOOLEAN]
Answered == response \in Responses /\ calls \in Seq(Call)

\* Once `completed` has returned it is not set any more.
StillSet == completed => \A i \in DOMAIN calls : calls[i].threw

\* A connection that is closed, and one that is closing unless the timer closes it, parses no
\* more; neither does an answer that is complete.
Resumable == pc \in {"wait", "parse"} \/ (pc = "close" /\ caller = "timer")
OverForGood ==
  /\ phase = "closed" => state = "DONE" /\ pc = "wait"
  /\ state = "DONE" /\ Resumable => phase = "closed"

\* How far the parser is in the answer, and that it has the units up to there.
InChunk(k) ==
  LET c == response.chunks[k] IN
  \/ state = "CHUNK_LEN" /\ consumed = c.at
  \/ /\ state = "CHUNK_CONTENT"
     /\ chunk_size = c.size /\ chunk_receive < c.size /\ consumed = c.at + 3 + chunk_receive
  \/ state = "CHUNK_TRAILER" /\ c.size \in Nat \ {0} /\ consumed = c.at + 3 + c.size
  \/ state = "CHUNK_LAST" /\ c.size = 0 /\ consumed = c.at + 3
Parsed ==
  Resumable /\ phase # "closed" =>
    /\ Range(body) = {p \in Units : p <= consumed}
    /\ \/ state = "HEADERS" /\ consumed = 0 /\ left <= Timeout
       \/ /\ state = "CONTENT" /\ response.chunks = <<>>
          /\ consumed >= Blank /\ Len(body) = consumed - Blank
          /\ content_length = response.length
       \/ response.chunks # <<>> /\ \E k \in DOMAIN response.chunks : InChunk(k)

\* While it waits, or the timer ends that, something of the answer has not come.
Incomplete ==
  Resumable /\ phase # "closed" /\ pc # "parse" /\ SelfDelimiting => arrived < Total

InductiveInvariant ==
  /\ Answered /\ TypeOK /\ StillSet /\ OverForGood /\ Parsed /\ Incomplete /\ Beginning(body)
  /\ CompletedOnce /\ BodyWhole
=============================================================================
