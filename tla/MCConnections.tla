---------------------------- MODULE MCConnections -----------------------------
(* Connections for TLC: what the peers may send. *)
EXTENDS Connections, Sequences, SequencesExt

\* Chunks of these sizes and the last one, and these frames, one behind the other: the
\* assumptions of HttpsClient and WebsocketClient check that they begin where they should.
ChunkWidth(size) == IF size = Bad THEN 3 ELSE size + 5
FrameWidth(f) == f.len + (IF f.len < 126 THEN 2 ELSE IF f.len < 65536 THEN 4 ELSE 10)
Chunked(sizes) ==
  [k \in 1..Len(sizes) + 1 |->
     [size |-> Append(sizes, 0)[k],
      at |-> FoldSeq(LAMBDA size, n : n + ChunkWidth(size), 2, SubSeq(sizes, 1, k - 1))]]
Framed(s) ==
  [i \in DOMAIN s |->
     [op |-> s[i].op, len |-> s[i].len,
      at |-> FoldSeq(LAMBDA f, n : n + FrameWidth(f), 0, SubSeq(s, 1, i - 1))]]

Response(o, s, l, c, n) == [ok |-> o, status |-> s, length |-> l, size |-> n,
                            chunks |-> IF c = <<>> THEN <<>> ELSE Chunked(c)]
MCResponses ==
  {Response(FALSE, 0, None, <<>>, 1), Response(TRUE, 200, Bad, <<>>, 1),
   Response(TRUE, 204, None, <<>>, 0), Response(TRUE, 200, 0, <<>>, 0),
   Response(TRUE, 200, None, <<>>, 3), Response(TRUE, 200, 3, <<>>, 3),
   Response(TRUE, 200, None, <<3, 1>>, 0), Response(TRUE, 200, None, <<2, Bad>>, 0),
   Response(TRUE, 200, 2, <<2>>, 0), Response(TRUE, 100, None, <<1>>, 0)}

Frame(op, len) == [op |-> op, len |-> len]
MCUpgrades == [status : {"101", "200", "other", "malformed"}, size : {20}]
MCStreams == {Framed(s) : s \in
  {<<Frame("text", 126), Frame("ping", 0), Frame("text", 1)>>,
   <<Frame("ping", 3), Frame("pong", 0), Frame("text", 65536), Frame("ping", 1)>>,
   <<Frame("continuation", 2), Frame("binary", 2), Frame("close", 2), Frame("ping", 2)>>,
   <<Frame("text", 5), Frame("unknown", 0), Frame("text", 5)>>}}

Request(h, n, l, s) == [head |-> h, header |-> n, length |-> l, size |-> s]
MCRequests ==
  {Request("ok", 2, None, 0), Request("ok", 1, 2, 2), Request("ok", 2, 3, 3),
   Request("ok", 2, 2, 3), Request("ok", 4, 0, 0), Request("ok", 1, 4, 4),
   Request("malformed", 2, None, 1), Request("badlength", 1, None, 0)}
=============================================================================
