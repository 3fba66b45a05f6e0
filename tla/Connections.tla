----------------------------- MODULE Connections ------------------------------
(***************************************************************************)
(* The classes around one connection, one of them in each behaviour:       *)
(* HttpsClient, WebsocketClient, HttpServerRequest, DnsCache, SslContext,  *)
(* SocketListener, AuthServer, and SslConnection with peers that neither   *)
(* break nor block.  A variable that two classes have by the same name is  *)
(* shared; those of the other classes are None.                            *)
(***************************************************************************)
EXTENDS Naturals

CONSTANTS
  None, Bad,
  \* of HttpsClient
  Responses, HttpsTimeout, Grace, MaxThrows,
  \* of WebsocketClient
  Upgrades, Streams, UpgradeTimeout, Keepalive,
  \* of HttpServerRequest
  Requests, MaxHeader, MaxPost, ResponseSize, ServerBufSize, ServerTimeout,
  \* of DnsCache and SslContext, SslContext and SocketListener
  Thread, Io, Host, Hour, MaxCalls, MaxTime, Port, Key,
  Accepted, Client, Fd, MaxServers,
  \* of AuthServer
  MaxRedirects, MaxUrls, MaxStarts,
  \* of SslConnection
  EngineConn, EnginePlaintext, EngineFd

VARIABLE class
VARIABLES
  response, arrived, consumed, phase, state, body, content_length, chunked, chunk_size,
  chunk_receive, status, completed, timed_out, left, ticking, pc, caller, throws, calls,
  upgrade, stream, tick, pinged, pongs, handled, late, request, plaintext, outcome, taken,
  request_body, handler, obuffer, length, responses, seen, cut, now, dns_cache, expire,
  call_count, host, began, entry, sockets, servers, batch, server_, starts, oauth_state_,
  redirects, replies, user_lookup_, looking, signed_in, thrown, contexts, conns, making, keys,
  dead, fds, poll_set, opened, conn, io, maker, opener, writer, writes, inbound, sent, broken,
  raced, foreign, crossed

Https == INSTANCE HttpsClient WITH Timeout <- HttpsTimeout
Websocket == INSTANCE WebsocketClient WITH Timeout <- UpgradeTimeout
Server == INSTANCE HttpServerRequest WITH BufSize <- ServerBufSize, Timeout <- ServerTimeout
Dns == INSTANCE DnsCache
Listener == INSTANCE SocketListener
Auth == INSTANCE AuthServer
Tls == INSTANCE SslContext WITH Conn <- Accepted \cup Client
Engine == INSTANCE SslConnection
            WITH Conn <- EngineConn, Plaintext <- EnginePlaintext, Fd <- EngineFd,
                 Faulty <- {}, Openers <- {"io"}, BufSize <- 1,
                 MaxWrites <- 1, MaxReads <- 0, MaxRetries <- 0

ASSUME ConnectionsAssumption ==
  /\ Https!HttpsAssumption /\ Websocket!WebsocketAssumption
  /\ Server!RequestsAssumption /\ Dns!CacheAssumption
  /\ Listener!ListenerAssumption /\ Auth!AuthAssumption
  /\ Tls!ContextAssumption /\ Engine!ConnectionAssumption

-----------------------------------------------------------------------------
(* The behaviours of one class.                                              *)

NotHttps == <<upgrade, stream, tick, pinged, pongs, handled, late, request, plaintext, outcome,
  taken, request_body, handler, obuffer, length, responses, seen, cut, now, dns_cache, expire,
  call_count, host, began, entry, sockets, servers, batch, server_, starts, oauth_state_,
  redirects, replies, user_lookup_, looking, signed_in, thrown, contexts, conns, making, keys,
  dead, fds, poll_set, opened, conn, io, maker, opener, writer, writes, inbound, sent, broken,
  raced, foreign, crossed>>
NotWebsocket == <<response, body, content_length, chunked, chunk_size, chunk_receive, status,
  completed, ticking, caller, throws, calls, request, plaintext, outcome, taken, request_body,
  handler, obuffer, length, responses, seen, cut, now, dns_cache, expire, call_count, host,
  began, entry, sockets, servers, batch, server_, starts, oauth_state_, redirects, replies,
  user_lookup_, looking, signed_in, thrown, contexts, conns, making, keys, dead, fds, poll_set,
  opened, conn, io, maker, opener, writer, writes, inbound, sent, broken, raced, foreign,
  crossed>>
NotServer == <<response, consumed, body, chunked, chunk_size, chunk_receive, completed, ticking,
  caller, throws, calls, upgrade, stream, tick, pinged, pongs, handled, late, now, dns_cache,
  expire, call_count, host, began, entry, sockets, servers, batch, server_, starts,
  oauth_state_, redirects, replies, user_lookup_, looking, signed_in, thrown, contexts, conns,
  making, keys, dead, fds, poll_set, opened, conn, io, maker, opener, writer, writes, inbound,
  sent, broken, raced, foreign, crossed>>
NotDns == <<response, arrived, consumed, phase, state, body, content_length, chunked,
  chunk_size, chunk_receive, status, completed, timed_out, left, ticking, caller, throws, calls,
  upgrade, stream, tick, pinged, pongs, handled, late, request, plaintext, outcome, taken,
  request_body, handler, obuffer, length, responses, seen, cut, sockets, servers, batch,
  server_, starts, oauth_state_, redirects, replies, user_lookup_, looking, signed_in, thrown,
  contexts, conns, making, keys, dead, fds, poll_set, opened, conn, io, maker, opener, writer,
  writes, inbound, sent, broken, raced, foreign, crossed>>
NotListener == <<response, arrived, consumed, phase, state, body, content_length, chunked,
  chunk_size, chunk_receive, status, completed, timed_out, left, ticking, caller, throws, calls,
  upgrade, stream, tick, pinged, pongs, handled, late, request, plaintext, outcome, taken,
  request_body, handler, obuffer, length, responses, seen, cut, now, dns_cache, expire,
  call_count, host, began, entry, server_, starts, oauth_state_, redirects, replies,
  user_lookup_, looking, signed_in, thrown, contexts, conns, making, keys, dead, fds, poll_set,
  opened, conn, io, maker, opener, writer, writes, inbound, sent, broken, raced, foreign,
  crossed>>
NotAuth == <<response, arrived, consumed, phase, state, body, content_length, chunked,
  chunk_size, chunk_receive, status, completed, timed_out, left, ticking, pc, caller, throws,
  calls, upgrade, stream, tick, pinged, pongs, handled, late, request, plaintext, outcome,
  taken, request_body, handler, obuffer, length, responses, seen, cut, now, dns_cache, expire,
  call_count, host, began, entry, sockets, servers, batch, contexts, conns, making, keys, dead,
  fds, poll_set, opened, conn, io, maker, opener, writer, writes, inbound, sent, broken, raced,
  foreign, crossed>>
NotTls == <<response, arrived, consumed, phase, state, body, content_length, chunked,
  chunk_size, chunk_receive, status, completed, timed_out, left, ticking, pc, caller, throws,
  calls, upgrade, stream, tick, pinged, pongs, handled, late, request, plaintext, outcome,
  taken, request_body, handler, obuffer, length, responses, seen, cut, now, dns_cache, expire,
  call_count, host, began, entry, sockets, servers, batch, server_, starts, oauth_state_,
  redirects, replies, user_lookup_, looking, signed_in, thrown, fds, poll_set, opened, conn, io,
  maker, opener, writer, writes, inbound, sent, broken, raced, foreign, crossed>>
NotEngine == <<response, arrived, consumed, phase, state, body, content_length, chunked,
  chunk_size, chunk_receive, status, completed, timed_out, left, ticking, pc, caller, throws,
  calls, upgrade, stream, tick, pinged, pongs, handled, late, request, plaintext, outcome,
  taken, request_body, handler, obuffer, length, responses, seen, cut, now, dns_cache, expire,
  call_count, host, began, entry, sockets, servers, batch, server_, starts, oauth_state_,
  redirects, replies, user_lookup_, looking, signed_in, thrown, contexts, conns, making, keys,
  dead>>

InitHttps ==
  /\ class = "Https" /\ Https!Init
  /\ upgrade = None /\ stream = None /\ tick = None /\ pinged = None /\ pongs = None
  /\ handled = None /\ late = None /\ request = None /\ plaintext = None /\ outcome = None
  /\ taken = None /\ request_body = None /\ handler = None /\ obuffer = None
  /\ length = None /\ responses = None /\ seen = None /\ cut = None /\ now = None
  /\ dns_cache = None /\ expire = None /\ call_count = None /\ host = None /\ began = None
  /\ entry = None /\ sockets = None /\ servers = None /\ batch = None /\ server_ = None
  /\ starts = None /\ oauth_state_ = None /\ redirects = None /\ replies = None
  /\ user_lookup_ = None /\ looking = None /\ signed_in = None /\ thrown = None
  /\ contexts = None /\ conns = None /\ making = None /\ keys = None /\ dead = None
  /\ fds = None /\ poll_set = None /\ opened = None /\ conn = None /\ io = None
  /\ maker = None /\ opener = None /\ writer = None /\ writes = None /\ inbound = None
  /\ sent = None /\ broken = None /\ raced = None /\ foreign = None /\ crossed = None
InitWebsocket ==
  /\ class = "Websocket" /\ Websocket!Init
  /\ response = None /\ body = None /\ content_length = None /\ chunked = None
  /\ chunk_size = None /\ chunk_receive = None /\ status = None /\ completed = None
  /\ ticking = None /\ caller = None /\ throws = None /\ calls = None /\ request = None
  /\ plaintext = None /\ outcome = None /\ taken = None /\ request_body = None
  /\ handler = None /\ obuffer = None /\ length = None /\ responses = None /\ seen = None
  /\ cut = None /\ now = None /\ dns_cache = None /\ expire = None /\ call_count = None
  /\ host = None /\ began = None /\ entry = None /\ sockets = None /\ servers = None
  /\ batch = None /\ server_ = None /\ starts = None /\ oauth_state_ = None
  /\ redirects = None /\ replies = None /\ user_lookup_ = None /\ looking = None
  /\ signed_in = None /\ thrown = None /\ contexts = None /\ conns = None /\ making = None
  /\ keys = None /\ dead = None /\ fds = None /\ poll_set = None /\ opened = None
  /\ conn = None /\ io = None /\ maker = None /\ opener = None /\ writer = None
  /\ writes = None /\ inbound = None /\ sent = None /\ broken = None /\ raced = None
  /\ foreign = None /\ crossed = None
InitServer ==
  /\ class = "Server" /\ Server!Init
  /\ response = None /\ consumed = None /\ body = None /\ chunked = None
  /\ chunk_size = None /\ chunk_receive = None /\ completed = None /\ ticking = None
  /\ caller = None /\ throws = None /\ calls = None /\ upgrade = None /\ stream = None
  /\ tick = None /\ pinged = None /\ pongs = None /\ handled = None /\ late = None
  /\ now = None /\ dns_cache = None /\ expire = None /\ call_count = None /\ host = None
  /\ began = None /\ entry = None /\ sockets = None /\ servers = None /\ batch = None
  /\ server_ = None /\ starts = None /\ oauth_state_ = None /\ redirects = None
  /\ replies = None /\ user_lookup_ = None /\ looking = None /\ signed_in = None
  /\ thrown = None /\ contexts = None /\ conns = None /\ making = None /\ keys = None
  /\ dead = None /\ fds = None /\ poll_set = None /\ opened = None /\ conn = None
  /\ io = None /\ maker = None /\ opener = None /\ writer = None /\ writes = None
  /\ inbound = None /\ sent = None /\ broken = None /\ raced = None /\ foreign = None
  /\ crossed = None
InitDns ==
  /\ class = "Dns" /\ Dns!Init
  /\ response = None /\ arrived = None /\ consumed = None /\ phase = None /\ state = None
  /\ body = None /\ content_length = None /\ chunked = None /\ chunk_size = None
  /\ chunk_receive = None /\ status = None /\ completed = None /\ timed_out = None
  /\ left = None /\ ticking = None /\ caller = None /\ throws = None /\ calls = None
  /\ upgrade = None /\ stream = None /\ tick = None /\ pinged = None /\ pongs = None
  /\ handled = None /\ late = None /\ request = None /\ plaintext = None /\ outcome = None
  /\ taken = None /\ request_body = None /\ handler = None /\ obuffer = None
  /\ length = None /\ responses = None /\ seen = None /\ cut = None /\ sockets = None
  /\ servers = None /\ batch = None /\ server_ = None /\ starts = None
  /\ oauth_state_ = None /\ redirects = None /\ replies = None /\ user_lookup_ = None
  /\ looking = None /\ signed_in = None /\ thrown = None /\ contexts = None /\ conns = None
  /\ making = None /\ keys = None /\ dead = None /\ fds = None /\ poll_set = None
  /\ opened = None /\ conn = None /\ io = None /\ maker = None /\ opener = None
  /\ writer = None /\ writes = None /\ inbound = None /\ sent = None /\ broken = None
  /\ raced = None /\ foreign = None /\ crossed = None
InitListener ==
  /\ class = "Listener" /\ Listener!Init
  /\ response = None /\ arrived = None /\ consumed = None /\ phase = None /\ state = None
  /\ body = None /\ content_length = None /\ chunked = None /\ chunk_size = None
  /\ chunk_receive = None /\ status = None /\ completed = None /\ timed_out = None
  /\ left = None /\ ticking = None /\ caller = None /\ throws = None /\ calls = None
  /\ upgrade = None /\ stream = None /\ tick = None /\ pinged = None /\ pongs = None
  /\ handled = None /\ late = None /\ request = None /\ plaintext = None /\ outcome = None
  /\ taken = None /\ request_body = None /\ handler = None /\ obuffer = None
  /\ length = None /\ responses = None /\ seen = None /\ cut = None /\ now = None
  /\ dns_cache = None /\ expire = None /\ call_count = None /\ host = None /\ began = None
  /\ entry = None /\ server_ = None /\ starts = None /\ oauth_state_ = None
  /\ redirects = None /\ replies = None /\ user_lookup_ = None /\ looking = None
  /\ signed_in = None /\ thrown = None /\ contexts = None /\ conns = None /\ making = None
  /\ keys = None /\ dead = None /\ fds = None /\ poll_set = None /\ opened = None
  /\ conn = None /\ io = None /\ maker = None /\ opener = None /\ writer = None
  /\ writes = None /\ inbound = None /\ sent = None /\ broken = None /\ raced = None
  /\ foreign = None /\ crossed = None
InitAuth ==
  /\ class = "Auth" /\ Auth!Init
  /\ response = None /\ arrived = None /\ consumed = None /\ phase = None /\ state = None
  /\ body = None /\ content_length = None /\ chunked = None /\ chunk_size = None
  /\ chunk_receive = None /\ status = None /\ completed = None /\ timed_out = None
  /\ left = None /\ ticking = None /\ pc = None /\ caller = None /\ throws = None
  /\ calls = None /\ upgrade = None /\ stream = None /\ tick = None /\ pinged = None
  /\ pongs = None /\ handled = None /\ late = None /\ request = None /\ plaintext = None
  /\ outcome = None /\ taken = None /\ request_body = None /\ handler = None
  /\ obuffer = None /\ length = None /\ responses = None /\ seen = None /\ cut = None
  /\ now = None /\ dns_cache = None /\ expire = None /\ call_count = None /\ host = None
  /\ began = None /\ entry = None /\ sockets = None /\ servers = None /\ batch = None
  /\ contexts = None /\ conns = None /\ making = None /\ keys = None /\ dead = None
  /\ fds = None /\ poll_set = None /\ opened = None /\ conn = None /\ io = None
  /\ maker = None /\ opener = None /\ writer = None /\ writes = None /\ inbound = None
  /\ sent = None /\ broken = None /\ raced = None /\ foreign = None /\ crossed = None
InitTls ==
  /\ class = "Tls" /\ Tls!Init
  /\ response = None /\ arrived = None /\ consumed = None /\ phase = None /\ state = None
  /\ body = None /\ content_length = None /\ chunked = None /\ chunk_size = None
  /\ chunk_receive = None /\ status = None /\ completed = None /\ timed_out = None
  /\ left = None /\ ticking = None /\ pc = None /\ caller = None /\ throws = None
  /\ calls = None /\ upgrade = None /\ stream = None /\ tick = None /\ pinged = None
  /\ pongs = None /\ handled = None /\ late = None /\ request = None /\ plaintext = None
  /\ outcome = None /\ taken = None /\ request_body = None /\ handler = None
  /\ obuffer = None /\ length = None /\ responses = None /\ seen = None /\ cut = None
  /\ now = None /\ dns_cache = None /\ expire = None /\ call_count = None /\ host = None
  /\ began = None /\ entry = None /\ sockets = None /\ servers = None /\ batch = None
  /\ server_ = None /\ starts = None /\ oauth_state_ = None /\ redirects = None
  /\ replies = None /\ user_lookup_ = None /\ looking = None /\ signed_in = None
  /\ thrown = None /\ fds = None /\ poll_set = None /\ opened = None /\ conn = None
  /\ io = None /\ maker = None /\ opener = None /\ writer = None /\ writes = None
  /\ inbound = None /\ sent = None /\ broken = None /\ raced = None /\ foreign = None
  /\ crossed = None
InitEngine ==
  /\ class = "Engine" /\ Engine!Init
  /\ response = None /\ arrived = None /\ consumed = None /\ phase = None /\ state = None
  /\ body = None /\ content_length = None /\ chunked = None /\ chunk_size = None
  /\ chunk_receive = None /\ status = None /\ completed = None /\ timed_out = None
  /\ left = None /\ ticking = None /\ pc = None /\ caller = None /\ throws = None
  /\ calls = None /\ upgrade = None /\ stream = None /\ tick = None /\ pinged = None
  /\ pongs = None /\ handled = None /\ late = None /\ request = None /\ plaintext = None
  /\ outcome = None /\ taken = None /\ request_body = None /\ handler = None
  /\ obuffer = None /\ length = None /\ responses = None /\ seen = None /\ cut = None
  /\ now = None /\ dns_cache = None /\ expire = None /\ call_count = None /\ host = None
  /\ began = None /\ entry = None /\ sockets = None /\ servers = None /\ batch = None
  /\ server_ = None /\ starts = None /\ oauth_state_ = None /\ redirects = None
  /\ replies = None /\ user_lookup_ = None /\ looking = None /\ signed_in = None
  /\ thrown = None /\ contexts = None /\ conns = None /\ making = None /\ keys = None
  /\ dead = None

Init ==
  InitHttps \/ InitWebsocket \/ InitServer \/ InitDns \/ InitListener \/ InitAuth
  \/ InitTls \/ InitEngine

vars == <<class, NotEngine, Engine!vars>>


InHttps(A) == class = "Https" /\ A /\ UNCHANGED <<class, NotHttps>>
InWebsocket(A) == class = "Websocket" /\ A /\ UNCHANGED <<class, NotWebsocket>>
InServer(A) == class = "Server" /\ A /\ UNCHANGED <<class, NotServer>>
InDns(A) == class = "Dns" /\ A /\ UNCHANGED <<class, NotDns>>
InListener(A) == class = "Listener" /\ A /\ UNCHANGED <<class, NotListener>>
InAuth(A) == class = "Auth" /\ A /\ UNCHANGED <<class, NotAuth>>
InTls(A) == class = "Tls" /\ A /\ UNCHANGED <<class, NotTls>>
InEngine(A) == class = "Engine" /\ A /\ UNCHANGED <<class, NotEngine>>

Next ==
  \/ InHttps(Https!Next) \/ InWebsocket(Websocket!Next) \/ InServer(Server!Next)
  \/ InDns(Dns!Next) \/ InListener(Listener!Next) \/ InAuth(Auth!Next)
  \/ InTls(Tls!Next) \/ InEngine(Engine!Next)

Spec == Init /\ [][Next]_vars

\* The fairness that each class has by its FairSpec; only its own variables change.
FairSpec ==
  /\ Spec
  /\ WF_(Https!vars)(InHttps(Https!HandleBuffer \/ Https!Close))
  /\ WF_(Https!vars)(InHttps(Https!OneSecondTimer))
  /\ WF_(Websocket!vars)(InWebsocket(Websocket!HandleBuffer \/ Websocket!Close))
  /\ WF_(Websocket!vars)(InWebsocket(Websocket!OneSecondTimer))
  /\ WF_(Server!vars)(InServer(Server!HandleBuffer \/ Server!Close))
  /\ WF_(Server!vars)(InServer(Server!OneSecondTimer))
  /\ WF_(Server!vars)(InServer(Server!Progress))
  /\ WF_(Listener!vars)(InListener(Listener!Loop))
  /\ WF_(Auth!vars)(InAuth(Auth!FirstLookup))
  /\ WF_(Engine!vars)(InEngine(Engine!Loop))
  /\ WF_(Engine!vars)(InEngine(Engine!Make))
  /\ WF_(Engine!vars)(InEngine(Engine!Write))

-----------------------------------------------------------------------------
(* Properties: what each module promises of its class.                       *)

\* CompletedOnce and BodyWhole of HttpsClient: the caller's function returns once, with the
\* body as the server sent it however the reads cut the answer.
HttpsAnswersOnce == class = "Https" => Https!TypeOK /\ Https!CompletedOnce /\ Https!BodyWhole

\* TakenInOrder and NothingAfterClose of WebsocketClient: each frame is handled once and in
\* order however the reads cut the stream, and none after a close frame.
FramesInOrder ==
  class = "Websocket" =>
    Websocket!TypeOK /\ Websocket!TakenInOrder /\ Websocket!NothingAfterClose

\* NothingToWaitFor of HttpsClient and NoFrameWaits of WebsocketClient: what has come whole
\* does not wait in the buffer for another read.
NothingWaits ==
  /\ class = "Https" => Https!NothingToWaitFor
  /\ class = "Websocket" => Websocket!NoFrameWaits

\* AnsweredOnce of HttpServerRequest: a well-formed request reaches the handler whole and gets
\* at most one response; SignInsInOrder and NoLookupBehindStop of AuthServer, its handler.
ServerAnswersOnce ==
  /\ class = "Server" => Server!AnsweredOnce
  /\ class = "Auth" => Auth!SignInsInOrder /\ Auth!NoLookupBehindStop

\* GivenIsFresh and SharedUntilExpired of DnsCache, ContextLives and OwnCertificate of SslContext:
\* the entry that a thread is given of what threads share and fill at once is alive and good.
CachedIsGood ==
  /\ class = "Dns" => Dns!GivenIsFresh /\ Dns!SharedUntilExpired
  /\ class = "Tls" => Tls!ContextLives /\ Tls!OwnCertificate

\* CompletedAtAll of HttpsClient: the caller's function is called, whatever the peer does.
HttpsCompletes == class = "Https" => Https!CompletedAtAll

\* UpgradeDecided of WebsocketClient: connected in time, or closed.
UpgradeDecided == class = "Websocket" => Websocket!UpgradeDecided

\* Closed but still in the map, or a lookup that is under way.
Awaits(c) ==
  \/ class = "Listener" /\ Listener!Lingers(c)
  \/ class = "Auth" /\ Auth!Pending

\* ConnectionEnds of HttpServerRequest: answered and closed, or timed out.  ClosedAreErased of
\* SocketListener and LookupEnds of AuthServer, restricted to their class.
ServerEnds ==
  /\ class = "Server" => Server!ConnectionEnds
  /\ \A c \in Accepted : Awaits(c) ~> ~Awaits(c)

\* CallsItsOwner and ServedAreKept of SocketListener: no event goes to another connection and
\* none is destroyed before it closes, however descriptors are given again.
ServedAreKept == class = "Listener" => Listener!CallsItsOwner /\ Listener!ServedAreKept

\* WrittenIsSent of SslConnection: what is written to a connection that is up is sent, or the
\* connection closes.
WrittenIsSent ==
  \A c \in EngineConn :
    (class = "Engine" /\ Engine!Unsent(c)) ~> (class = "Engine" => Engine!Settled(c))

\* MarkedLeaves of SslConnection: a descriptor marked for deletion leaves the engine.
MarkedLeaves ==
  \A f \in EngineFd :
    (class = "Engine" /\ Engine!Leaving(f)) ~> (class = "Engine" => ~Engine!Leaving(f))

\* FlushedBeforeClose of HttpServerRequest (http_server_request.h: on_buffer_drained() is
\* "called when the output buffer has been fully flushed to the socket").
FlushedBeforeClose == class = "Server" => Server!FlushedBeforeClose

\* FailureIsCaught of DnsCache (dns.h: "@throw tpp::connection_exception On failure to resolve
\* hostname", which is caught where the IO thread calls it).
FailureIsCaught == class = "Dns" => Dns!FailureIsCaught

\* StatusMeansComplete of HttpsClient (https_client.h: "A value of 0 indicates the request was
\* not completed"): any other status comes with all of the answer.
StatusMeansComplete == class = "Https" => Https!StatusMeansComplete

-----------------------------------------------------------------------------
(* The inductive invariant behind the invariants.                            *)

InductiveInvariant ==
  /\ class = "Https" => Https!InductiveInvariant
  /\ class = "Websocket" => Websocket!InductiveInvariant
  /\ class = "Server" => Server!InductiveInvariant
  /\ class = "Dns" => Dns!InductiveInvariant
  /\ class = "Tls" => Tls!InductiveInvariant
  /\ class = "Listener" => Listener!InductiveInvariant
  /\ class = "Auth" => Auth!InductiveInvariant
=============================================================================
