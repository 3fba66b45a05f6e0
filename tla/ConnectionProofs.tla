-------------------------- MODULE ConnectionProofs --------------------------
(***************************************************************************)
(* Proofs about the classes of Connections, for any answers, streams,      *)
(* requests, threads, descriptors and redirects: each step of a class      *)
(* keeps the inductive invariant of its module, and the properties follow. *)
(* Step lemmas of a class have its name first; those of SslConnection are  *)
(* in SslConnectionProofs.                                                 *)
(***************************************************************************)
EXTENDS Connections, Sequences, TLAPS, SequenceTheorems, WellFoundedInduction

-----------------------------------------------------------------------------
(* Lemmas about naturals.                                                    *)

\* A set of naturals that is not empty has a smallest element.
LEMMA Smallest ==
  ASSUME NEW T, T \subseteq Nat, T # {}
  PROVE  \E m \in T : \A k \in T : m <= k
<1> DEFINE Less == OpToRel(<, Nat)
<1>1. IsWellFoundedOn(Less, Nat)  BY NatLessThanWellFounded, Zenon
<1>2. PICK x \in T : \A y \in T : ~(<<y, x>> \in Less)  BY <1>1, WFMin, Zenon
<1>3. \A y \in T : <<y, x>> \in Nat \X Nat /\ (y < x => <<y, x>> \in Less)  BY DEF OpToRel
<1> HIDE DEF Less
<1>4. \A y \in T : y < x => <<y, x>> \in Less  BY <1>3, Zenon
<1>5. \A y \in T : ~(y < x)  BY <1>4, <1>2, Zenon
<1>6. QED  BY <1>5

\* Intervals of which each begins where the one before it ends.
LEMMA Chain ==
  ASSUME NEW n \in Nat, NEW a \in [1..n -> Nat], NEW b \in [1..n -> Nat],
         \A i \in 1..n : a[i] < b[i], \A i \in 1..n - 1 : a[i + 1] = b[i]
  PROVE  \A i, j \in 1..n : i < j => b[i] <= a[j]
<1> SUFFICES ASSUME NEW i \in 1..n, \E j \in 1..n : i < j /\ ~(b[i] <= a[j])
             PROVE  FALSE
  OBVIOUS
<1> DEFINE T == {j \in 1..n : i < j /\ ~(b[i] <= a[j])}
<1>a. PICK j \in 1..n : i < j /\ ~(b[i] <= a[j])  OBVIOUS
<1>b. T \subseteq Nat  OBVIOUS
<1>c. j \in T  BY <1>a
<1>1. T \subseteq Nat /\ T # {}  BY <1>b, <1>c
<1>2. PICK m \in T : \A k \in T : m <= k
  <2> HIDE DEF T
  <2>1. QED  BY <1>1, Smallest
<1>3. m \in 1..n /\ i < m /\ m - 1 \in 1..n - 1 /\ m - 1 \notin T  BY <1>2
<1>4. a[(m - 1) + 1] = b[m - 1] /\ (m - 1) + 1 = m  BY <1>3
<1>5. a[m] = b[m - 1] /\ ~(b[i] <= a[m])  BY <1>2, <1>4
<1>6. CASE m - 1 = i  BY <1>3, <1>5, <1>6
<1>7. CASE m - 1 # i
  <2>1. i < m - 1 /\ m - 1 \in 1..n  BY <1>3, <1>7
  <2>2. b[i] <= a[m - 1]  BY <1>3, <2>1
  <2>3. a[m - 1] < b[m - 1]  BY <2>1
  <2>4. b[i] \in Nat /\ a[m - 1] \in Nat /\ b[m - 1] \in Nat  BY <2>1
  <2>5. QED  BY <1>5, <2>2, <2>3, <2>4
<1>8. QED  BY <1>6, <1>7

-----------------------------------------------------------------------------
(* AuthServer.                                                               *)

\* A redirect server begins in the invariant.
LEMMA AuthInit ==
  ASSUME ConnectionsAssumption, Auth!Init
  PROVE  Auth!InductiveInvariant
<1> USE DEF Auth!Init
<1>1. server_ \in BOOLEAN /\ looking \in BOOLEAN  OBVIOUS
<1>2. Len(replies) = 0 /\ Len(signed_in) = 0 /\ signed_in \in Seq(1..redirects)
      /\ replies \in Seq({"forward", "failure", "badrequest", "success", None})
  OBVIOUS
<1>3. Auth!TypeOK
  BY <1>1, <1>2 DEF ConnectionsAssumption, Auth!AuthAssumption, Auth!TypeOK
<1>4. QED
  BY <1>2, <1>3 DEF Auth!InductiveInvariant, Auth!LookingUpTheLatest, Auth!SignInsInOrder,
    Auth!NoLookupBehindStop

\* A page is added behind the others.
LEMMA AuthReply ==
  ASSUME Auth!InductiveInvariant, ConnectionsAssumption,
         NEW page \in {"forward", "failure", "badrequest", "success", None},
         Auth!Reply(page), UNCHANGED <<signed_in, thrown>>
  PROVE  /\ redirects' = redirects + 1 /\ redirects' \in Nat
         /\ replies' \in Seq({"forward", "failure", "badrequest", "success", None})
         /\ Len(replies') = redirects' /\ replies'[redirects'] = page
         /\ \A r \in 1..redirects : replies'[r] = replies[r]
         /\ signed_in' \in Seq(1..redirects')
         /\ thrown' \subseteq (1..redirects') \X (1..MaxThrows)
         /\ Auth!SignInsInOrder'
<1> USE DEF Auth!InductiveInvariant, Auth!TypeOK, Auth!Reply
<1>1. /\ redirects' = redirects + 1 /\ redirects' \in Nat
      /\ replies' \in Seq({"forward", "failure", "badrequest", "success", None})
      /\ Len(replies') = redirects' /\ replies'[redirects'] = page
      /\ \A r \in 1..redirects : replies'[r] = replies[r]
  <2>1. /\ redirects \in Nat /\ redirects' = redirects + 1 /\ Len(replies) = redirects
        /\ replies' = Append(replies, page)
        /\ replies \in Seq({"forward", "failure", "badrequest", "success", None})
    OBVIOUS
  <2> HIDE DEF Auth!InductiveInvariant, Auth!TypeOK, Auth!Reply
  <2>2. QED  BY <2>1
<1>2. signed_in' \in Seq(1..redirects')  BY <1>1
<1>3. \A i \in 1..Len(signed_in) : signed_in[i] \in 1..redirects  OBVIOUS
<1>4. Auth!SignInsInOrder'  BY <1>1, <1>3 DEF Auth!SignInsInOrder, Auth!Thrown
<1>5. thrown' \subseteq (1..redirects') \X (1..MaxThrows)  BY <1>1
<1>6. QED  BY <1>1, <1>2, <1>4, <1>5

\* A step of the redirect server keeps its invariant.
LEMMA AuthStep ==
  ASSUME ConnectionsAssumption, Auth!InductiveInvariant, [Auth!Next]_(Auth!vars)
  PROVE  Auth!InductiveInvariant'
<1> USE DEF Auth!InductiveInvariant
<1>0. None \notin Nat /\ {MaxRedirects, MaxUrls, MaxStarts, MaxThrows} \subseteq Nat
  BY DEF ConnectionsAssumption, Auth!AuthAssumption
<1>1. CASE UNCHANGED Auth!vars \/ Auth!Start \/ Auth!Stop \/ Auth!GenerateAuthUrl
  <2>1. /\ UNCHANGED <<redirects, replies, signed_in, thrown>>
        /\ UNCHANGED <<user_lookup_, looking>> \/ (user_lookup_' = None /\ looking' = FALSE)
        /\ looking' => server_'
    BY <1>1 DEF Auth!vars, Auth!Start, Auth!Stop, Auth!GenerateAuthUrl, Auth!NoLookupBehindStop
  <2>2. starts' \in 0..MaxStarts /\ oauth_state_' \in 0..MaxUrls
    BY <1>0, <1>1 DEF Auth!vars, Auth!Start, Auth!Stop, Auth!GenerateAuthUrl, Auth!TypeOK
  <2>3. server_' \in BOOLEAN /\ looking' \in BOOLEAN
    BY <1>1, <2>1, Zenon DEF Auth!vars, Auth!Start, Auth!Stop, Auth!GenerateAuthUrl, Auth!TypeOK
  <2>4. QED  BY <2>1, <2>2, <2>3 DEF Auth!TypeOK, Auth!LookingUpTheLatest, Auth!SignInsInOrder,
               Auth!NoLookupBehindStop, Auth!Thrown
<1>2. ASSUME NEW r \in Auth!Redirect, Auth!HandleAuthRequest(r) PROVE Auth!InductiveInvariant'
  <2>1. CASE Auth!HandleOther(r) \/ Auth!HandleThrows(r)
    <3>1. PICK page \in {"forward", "failure", "badrequest", "success", None} : Auth!Reply(page)
      BY <2>1 DEF Auth!HandleOther, Auth!HandleThrows
    <3>2. UNCHANGED <<server_, starts, oauth_state_, user_lookup_, looking, signed_in, thrown>>
      BY <2>1 DEF Auth!HandleOther, Auth!HandleThrows, Auth!Comes
    <3>3. /\ redirects' = redirects + 1 /\ redirects' \in Nat
          /\ replies' \in Seq({"forward", "failure", "badrequest", "success", None})
          /\ Len(replies') = redirects'
          /\ \A q \in 1..redirects : replies'[q] = replies[q]
          /\ signed_in' \in Seq(1..redirects') /\ Auth!SignInsInOrder'
          /\ thrown' \subseteq (1..redirects') \X (1..MaxThrows)
      BY <1>0, <3>1, <3>2, AuthReply
    <3>4. redirects \in Nat /\ user_lookup_ \in 1..redirects \cup {None}  BY DEF Auth!TypeOK
    <3>5. user_lookup_' \in 1..redirects' \cup {None}  BY <3>2, <3>3, <3>4
    <3>6. server_' \in BOOLEAN /\ looking' \in BOOLEAN  BY <3>2, Zenon DEF Auth!TypeOK
    <3>7. starts' \in 0..MaxStarts /\ oauth_state_' \in 0..MaxUrls  BY <3>2 DEF Auth!TypeOK
    <3>8. Auth!TypeOK'  BY <3>3, <3>5, <3>6, <3>7 DEF Auth!TypeOK
    <3>9. Auth!LookingUpTheLatest'  BY <1>0, <3>2, <3>3, <3>4
      DEF Auth!LookingUpTheLatest, Auth!Thrown
    <3>10. Auth!NoLookupBehindStop'  BY <3>2 DEF Auth!NoLookupBehindStop
    <3>11. QED  BY <3>3, <3>8, <3>9, <3>10
  <2>2. CASE Auth!HandleToken(r)
    <3>1. /\ Auth!Reply("success") /\ user_lookup_' = redirects' /\ looking' /\ server_
          /\ UNCHANGED <<server_, starts, oauth_state_, signed_in, thrown>>
      BY <2>2 DEF Auth!HandleToken, Auth!Comes
    <3>2. \A i \in 1..Len(signed_in) : signed_in[i] \in 1..redirects  BY DEF Auth!TypeOK
    <3>3. QED  BY <1>0, <3>1, <3>2, AuthReply DEF Auth!TypeOK, Auth!LookingUpTheLatest,
                 Auth!NoLookupBehindStop
  <2>3. QED  BY <1>2, <2>1, <2>2 DEF Auth!HandleAuthRequest
<1>3. CASE Auth!UserNotFound
  BY <1>3 DEF Auth!UserNotFound, Auth!Completed, Auth!TypeOK, Auth!LookingUpTheLatest,
       Auth!SignInsInOrder, Auth!NoLookupBehindStop, Auth!Thrown
<1>4. ASSUME looking, Auth!Reports, UNCHANGED <<redirects, replies, user_lookup_>>,
             thrown \subseteq thrown', thrown' \subseteq (1..redirects) \X (1..MaxThrows)
      PROVE  /\ signed_in' \in Seq(1..redirects)
             /\ Auth!SignInsInOrder'
             /\ \A i \in 1..Len(signed_in') :
                  signed_in'[i] < user_lookup_ \/ signed_in'[i] = user_lookup_
  <2>1. user_lookup_ \in 1..redirects /\ signed_in \in Seq(1..redirects)
    BY <1>4 DEF Auth!TypeOK, Auth!LookingUpTheLatest
  <2>2. /\ signed_in' \in Seq(1..redirects) /\ Len(signed_in') = Len(signed_in) + 1
        /\ signed_in'[Len(signed_in')] = user_lookup_
        /\ \A i \in 1..Len(signed_in) : signed_in'[i] = signed_in[i]
    BY <1>4, <2>1 DEF Auth!Reports
  <2>3. \A i \in 1..Len(signed_in) :
          \/ signed_in[i] < user_lookup_
          \/ signed_in[i] = user_lookup_ /\ user_lookup_ \in Auth!Thrown
    BY <1>4 DEF Auth!LookingUpTheLatest
  <2>4. Auth!Thrown \subseteq Auth!Thrown'  BY <1>4 DEF Auth!Thrown
  <2>5. replies[user_lookup_] = "success" /\ UNCHANGED <<replies, user_lookup_>>
    BY <1>4 DEF Auth!LookingUpTheLatest
  <2>6. \A i, j \in 1..Len(signed_in') :
          i < j => \/ signed_in'[i] < signed_in'[j]
                   \/ signed_in'[i] = signed_in'[j] /\ signed_in'[i] \in Auth!Thrown'
    <3> SUFFICES ASSUME NEW i \in 1..Len(signed_in'), NEW j \in 1..Len(signed_in'), i < j
                 PROVE  \/ signed_in'[i] < signed_in'[j]
                        \/ signed_in'[i] = signed_in'[j] /\ signed_in'[i] \in Auth!Thrown'
      OBVIOUS
    <3>1. i \in 1..Len(signed_in) /\ signed_in'[i] = signed_in[i]  BY <2>1, <2>2
    <3>2. CASE j \in 1..Len(signed_in)
      <4>1. \/ signed_in[i] < signed_in[j]
            \/ signed_in[i] = signed_in[j] /\ signed_in[i] \in Auth!Thrown
        BY <3>1, <3>2 DEF Auth!SignInsInOrder
      <4>2. signed_in'[j] = signed_in[j]  BY <2>2, <3>2
      <4>3. signed_in[i] \in Auth!Thrown => signed_in'[i] \in Auth!Thrown'  BY <2>4, <3>1, Zenon
      <4>4. QED  BY <3>1, <4>1, <4>2, <4>3
    <3>3. CASE j = Len(signed_in')
      <4>1. \/ signed_in[i] < user_lookup_
            \/ signed_in[i] = user_lookup_ /\ user_lookup_ \in Auth!Thrown
        BY <2>3, <3>1
      <4>2. signed_in[i] = user_lookup_ /\ user_lookup_ \in Auth!Thrown
              => signed_in'[i] \in Auth!Thrown'
        BY <2>4, <3>1, Zenon
      <4>3. QED  BY <2>2, <3>1, <3>3, <4>1, <4>2
    <3>4. QED  BY <2>1, <2>2, <3>2, <3>3
  <2>7. \A i \in 1..Len(signed_in') : replies'[signed_in'[i]] = "success"
    BY <2>1, <2>2, <2>5 DEF Auth!SignInsInOrder
  <2>8. \A i \in 1..Len(signed_in') :
          signed_in'[i] < user_lookup_ \/ signed_in'[i] = user_lookup_
    BY <2>1, <2>2, <2>3
  <2>9. QED  BY <2>2, <2>6, <2>7, <2>8 DEF Auth!SignInsInOrder
<1>5. CASE Auth!UserFound
  <2>1. /\ looking /\ looking' = FALSE /\ Auth!Reports
        /\ UNCHANGED <<server_, starts, oauth_state_, redirects, replies, user_lookup_, thrown>>
    BY <1>5 DEF Auth!UserFound, Auth!Completed
  <2>2. signed_in' \in Seq(1..redirects) /\ Auth!SignInsInOrder'
    BY <1>4, <2>1 DEF Auth!TypeOK
  <2>3. QED  BY <2>1, <2>2 DEF Auth!TypeOK, Auth!LookingUpTheLatest, Auth!NoLookupBehindStop
<1>6. CASE Auth!CompletedThrows
  <2>1. PICK n \in 1..MaxThrows : thrown' = thrown \cup {<<user_lookup_, n>>}
    BY <1>6 DEF Auth!CompletedThrows
  <2>2. /\ looking /\ user_lookup_ \in 1..redirects
        /\ UNCHANGED <<server_, starts, oauth_state_, redirects, replies, user_lookup_, looking>>
    BY <1>6 DEF Auth!CompletedThrows, Auth!LookingUpTheLatest, Auth!TypeOK
  <2>3. /\ thrown \subseteq thrown' /\ thrown' \subseteq (1..redirects) \X (1..MaxThrows)
        /\ user_lookup_ \in Auth!Thrown'
    <3>1. thrown \subseteq (1..redirects) \X (1..MaxThrows)  BY DEF Auth!TypeOK
    <3>2. <<user_lookup_, n>> \in thrown' /\ <<user_lookup_, n>>[1] = user_lookup_  BY <2>1
    <3>3. user_lookup_ \in {t[1] : t \in thrown'}  BY <3>2, Zenon
    <3>4. thrown \subseteq thrown' /\ thrown' \subseteq (1..redirects) \X (1..MaxThrows)
      BY <2>1, <2>2, <3>1
    <3>5. QED  BY <3>3, <3>4 DEF Auth!Thrown
  <2>4. Auth!Thrown \subseteq Auth!Thrown'  BY <2>3 DEF Auth!Thrown
  <2>5. CASE Auth!Reports
    <3>1. /\ signed_in' \in Seq(1..redirects) /\ Auth!SignInsInOrder'
          /\ \A i \in 1..Len(signed_in') :
               signed_in'[i] < user_lookup_ \/ signed_in'[i] = user_lookup_
      BY <1>4, <2>2, <2>3, <2>5
    <3>2. Auth!LookingUpTheLatest'
      BY <2>2, <2>3, <3>1 DEF Auth!LookingUpTheLatest
    <3>3. QED  BY <2>2, <2>3, <3>1, <3>2 DEF Auth!TypeOK, Auth!NoLookupBehindStop
  <2>6. CASE UNCHANGED signed_in
    <3>1. Auth!SignInsInOrder'
      BY <2>2, <2>4, <2>6, Zenon DEF Auth!SignInsInOrder
    <3>2. Auth!LookingUpTheLatest'
      BY <2>2, <2>3, <2>6 DEF Auth!LookingUpTheLatest
    <3>3. QED  BY <2>2, <2>3, <2>6, <3>1, <3>2 DEF Auth!TypeOK, Auth!NoLookupBehindStop
  <2>7. QED  BY <1>6, <2>5, <2>6 DEF Auth!CompletedThrows
<1>7. QED  BY <1>1, <1>2, <1>3, <1>5, <1>6 DEF Auth!Next, Auth!Lookup

-----------------------------------------------------------------------------
(* HttpServerRequest.                                                        *)

\* A connection that is accepted begins in the invariant.
LEMMA ServerInit ==
  ASSUME ConnectionsAssumption, Server!Init
  PROVE  Server!InductiveInvariant
<1> USE DEF Server!Init
<1>1. handler \in BOOLEAN /\ timed_out \in BOOLEAN /\ cut \in BOOLEAN  OBVIOUS
<1>2. Server!TypeOK
  BY <1>1 DEF ConnectionsAssumption, Server!RequestsAssumption, Server!TypeOK
<1>3. QED
  BY <1>2 DEF Server!InductiveInvariant, Server!Progressing, Server!ClosedForGood,
    Server!AnsweredOnce

\* A step of a connection of the HTTP server keeps its invariant.
LEMMA ServerStep ==
  ASSUME ConnectionsAssumption, Server!InductiveInvariant, [Server!Next]_(Server!vars)
  PROVE  Server!InductiveInvariant'
<1> USE DEF Server!InductiveInvariant, Server!TypeOK
<1>0. /\ request.header \in Nat \ {0} /\ request.length \in Nat \cup {None} /\ request.size \in Nat
      /\ {MaxHeader, MaxPost, ResponseSize, ServerBufSize, ServerTimeout} \subseteq Nat \ {0}
  BY DEF ConnectionsAssumption, Server!RequestsAssumption
<1>b. handler' \in BOOLEAN /\ timed_out' \in BOOLEAN /\ cut' \in BOOLEAN
  BY ZenonT(60) DEF Server!vars, Server!Next, Server!HandleBuffer, Server!HeadersTooLong,
    Server!HeadersWait, Server!HeadersMalformed, Server!HeadersBadLength, Server!HeadersOk,
    Server!Content, Server!Done, Server!HeadersEnd, Server!Kept, Server!Respond, Server!Close,
    Server!Connected, Server!Receive, Server!PeerCloses, Server!Write, Server!OneSecondTimer,
    Server!input, Server!parser, Server!output, Server!clock
<1> USE DEF Server!Progressing, Server!ClosedForGood, Server!AnsweredOnce, Server!Wellformed,
      Server!input, Server!parser, Server!output, Server!clock
<1>1. CASE UNCHANGED Server!vars  BY <1>1 DEF Server!vars
<1>2. CASE Server!HandleBuffer
  <2> USE DEF Server!Parsing, Server!Closing, Server!Kept, Server!Available, Server!Headers
  <2>1. CASE Server!HeadersTooLong \/ Server!HeadersWait \/ Server!HeadersBadLength
    BY <1>0, <1>b, <2>1 DEF Server!HeadersTooLong, Server!HeadersWait, Server!HeadersBadLength,
         Server!HeadersEnd
  <2>2. CASE Server!HeadersMalformed
    BY <1>0, <1>b, <2>2 DEF Server!HeadersMalformed, Server!HeadersEnd, Server!Respond
  <2>3. CASE Server!HeadersOk
    BY <1>0, <1>b, <2>3 DEF Server!HeadersOk, Server!HeadersEnd, Server!LesserOf
  <2>4. CASE Server!Content
    BY <1>0, <1>b, <2>4 DEF Server!Content
  <2>5. CASE Server!Done
    BY <1>0, <1>b, <2>5 DEF Server!Done, Server!Respond
  <2>6. QED  BY <1>2, <2>1, <2>2, <2>3, <2>4, <2>5 DEF Server!HandleBuffer
<1>3. CASE Server!Close  BY <1>0, <1>b, <1>3 DEF Server!Close, Server!Closed
<1>4. CASE Server!Connected \/ Server!PeerCloses
  BY <1>0, <1>b, <1>4 DEF Server!Connected, Server!PeerCloses, Server!Waiting, Server!Closing
<1>5. CASE Server!Receive
  BY <1>0, <1>b, <1>5 DEF Server!Receive, Server!Waiting
<1>6. CASE Server!Write
  <2> DEFINE moved == IF length = 0 THEN Server!LesserOf(obuffer, ServerBufSize) ELSE 0
  <2>1. moved \in 0..obuffer  BY <1>0 DEF Server!LesserOf
  <2>2. PICK sent_ \in Server!Sendable(length + moved) :
          IF obuffer = moved /\ (plaintext \/ sent_ # 0) /\ state = "DONE" /\ status > 0
          THEN Server!Closed /\ cut' = (cut \/ sent_ < length + moved)
          ELSE /\ obuffer' = obuffer - moved /\ length' = length + moved - sent_
               /\ UNCHANGED <<phase, state, taken, cut>>
    BY <1>6 DEF Server!Write
  <2>3. sent_ \in 0..length + moved  BY <1>0, <1>b, <2>1, <2>2 DEF Server!Sendable
  <2> HIDE DEF moved
  <2>4. QED  BY <1>0, <1>b, <1>6, <2>1, <2>2, <2>3 DEF Server!Write, Server!Closed, Server!Waiting
<1>7. CASE Server!OneSecondTimer
  BY <1>0, <1>b, <1>7 DEF Server!OneSecondTimer, Server!Closing
<1>8. QED  BY <1>1, <1>2, <1>3, <1>4, <1>5, <1>6, <1>7 DEF Server!Next

-----------------------------------------------------------------------------
(* DnsCache.                                                                 *)

\* The empty cache satisfies the invariant.
LEMMA DnsInit ==
  ASSUME ConnectionsAssumption, Dns!Init
  PROVE  Dns!InductiveInvariant
BY DEF ConnectionsAssumption, Dns!CacheAssumption, Dns!Init, Dns!InductiveInvariant, Dns!TypeOK,
  Dns!NewEntries, Dns!Recent, Dns!NothingErased, Dns!GivenIsFresh, Dns!SharedUntilExpired,
  Dns!Busy, Dns!Asking

\* A thread is given the entry that the cache has.
LEMMA DnsGiven ==
  ASSUME ConnectionsAssumption, Dns!InductiveInvariant,
         NEW t \in Thread, pc[t] \in {"lookup", "emplace"},
         NEW n, n = dns_cache[host[t]], n # None, began[t] < expire[n],
         Dns!Give(t, n), UNCHANGED <<now, dns_cache, expire, Dns!call>>
  PROVE  Dns!InductiveInvariant'
<1>1. /\ Dns!TypeOK /\ Dns!NewEntries /\ Dns!Recent /\ Dns!NothingErased
      /\ Dns!GivenIsFresh /\ Dns!SharedUntilExpired
  BY DEF Dns!InductiveInvariant
<1>2. /\ pc \in [Thread -> Dns!Asking \cup {"use", "idle", "dead"}]
      /\ entry \in [Thread -> 1..call_count \cup {None}]
      /\ n \in 1..call_count /\ host[t] \in Host
  BY <1>1 DEF Dns!TypeOK, Dns!Busy, Dns!Asking
<1>3. /\ entry'[t] = n /\ pc'[t] = "use"
      /\ \A u \in Thread : u # t => entry'[u] = entry[u] /\ pc'[u] = pc[u]
      /\ entry' \in [Thread -> 1..call_count \cup {None}]
      /\ pc' \in [Thread -> Dns!Asking \cup {"use", "idle", "dead"}]
      /\ UNCHANGED <<now, dns_cache, expire, call_count, host, began>>
  BY <1>2 DEF Dns!Give, Dns!Goto, Dns!call
<1>4. \A u \in Thread :
        /\ pc'[u] \in Dns!Asking => pc[u] \in Dns!Asking /\ entry'[u] = entry[u] /\ pc'[u] = pc[u]
        /\ Dns!Busy(u)' => Dns!Busy(u)
        /\ pc'[u] = "use" => u = t \/ (pc[u] = "use" /\ entry'[u] = entry[u])
  BY <1>3 DEF Dns!Busy, Dns!Asking
<1>5. Dns!TypeOK'  BY <1>1, <1>2, <1>3, <1>4 DEF Dns!TypeOK, Dns!Busy
<1>6. Dns!NewEntries'  BY <1>1, <1>3, <1>4 DEF Dns!NewEntries
<1>7. Dns!Recent'
  <2>1. \A u \in Thread : pc'[u] \in {"resolve", "emplace"} => pc[u] = pc'[u]
    BY <1>4 DEF Dns!Asking
  <2>2. QED  BY <2>1, <1>1, <1>3, <1>4 DEF Dns!Recent
<1>8. Dns!NothingErased'  BY <1>1, <1>3 DEF Dns!NothingErased, Dns!Unexpired
<1>9. Dns!GivenIsFresh'  BY <1>1, <1>3, <1>4 DEF Dns!GivenIsFresh
<1>10. Dns!SharedUntilExpired'  BY <1>1, <1>3, <1>4 DEF Dns!SharedUntilExpired
<1>11. QED  BY <1>5, <1>6, <1>7, <1>8, <1>9, <1>10 DEF Dns!InductiveInvariant

\* A thread puts the entry it has made in the cache, which had none.
LEMMA DnsPut ==
  ASSUME ConnectionsAssumption, Dns!InductiveInvariant,
         NEW t \in Thread, pc[t] = "emplace", dns_cache[host[t]] = None,
         expire' = [expire EXCEPT ![entry[t]] = began[t] + Hour],
         dns_cache' = [dns_cache EXCEPT ![host[t]] = entry[t]],
         Dns!Give(t, entry[t]), UNCHANGED <<now, Dns!call>>
  PROVE  Dns!InductiveInvariant'
<1>0. /\ Hour \in Nat \ {0} /\ MaxCalls \in Nat /\ None \notin Nat
  BY DEF ConnectionsAssumption, Dns!CacheAssumption
<1>1. /\ Dns!TypeOK /\ Dns!NewEntries /\ Dns!Recent /\ Dns!NothingErased
      /\ Dns!GivenIsFresh /\ Dns!SharedUntilExpired
  BY DEF Dns!InductiveInvariant
<1> DEFINE e == entry[t]
<1>2. /\ pc \in [Thread -> Dns!Asking \cup {"use", "idle", "dead"}]
      /\ entry \in [Thread -> 1..call_count \cup {None}]
      /\ dns_cache \in [Host -> 1..call_count \cup {None}] /\ expire \in [1..MaxCalls -> Nat]
      /\ now \in Nat /\ began \in [Thread -> Nat] /\ call_count \in 0..MaxCalls
      /\ e \in 1..call_count /\ host[t] \in Host
  BY <1>1 DEF Dns!TypeOK, Dns!Busy, Dns!Asking
<1>3. /\ pc'[t] = "use" /\ \A u \in Thread : u # t => pc'[u] = pc[u]
      /\ pc' \in [Thread -> Dns!Asking \cup {"use", "idle", "dead"}]
      /\ UNCHANGED <<now, call_count, host, began>>
  BY <1>2 DEF Dns!Give, Dns!Goto, Dns!call
<1>4. entry' = entry  BY <1>2 DEF Dns!Give
<1>5. /\ expire' \in [1..MaxCalls -> Nat] /\ expire'[e] = began[t] + Hour
      /\ \A n \in 1..MaxCalls : n # e => expire'[n] = expire[n]
  BY <1>0, <1>2
<1>6. /\ dns_cache' \in [Host -> 1..call_count \cup {None}] /\ dns_cache'[host[t]] = e
      /\ \A h \in Host : h # host[t] => dns_cache'[h] = dns_cache[h]
  BY <1>0, <1>2
<1>7. /\ expire[e] = 0 /\ began[t] <= now /\ now < began[t] + Hour
      /\ \A h \in Host : dns_cache[h] # e
  BY <1>0, <1>1, <1>2 DEF Dns!NewEntries, Dns!Recent, Dns!Busy, Dns!Asking
<1> HIDE DEF e
<1>8. \A u \in Thread :
        /\ pc'[u] \in Dns!Asking => u # t /\ pc[u] \in Dns!Asking /\ pc'[u] = pc[u] /\ entry[u] # e
        /\ Dns!Busy(u)' => Dns!Busy(u)
        /\ pc'[u] = "use" => u = t \/ (pc[u] = "use" /\ entry[u] # e)
  <2>1. \A u \in Thread : pc[u] \in Dns!Asking /\ u # t => entry[u] # e
    BY <1>1 DEF Dns!NewEntries, Dns!Asking, e
  <2>2. \A u \in Thread : pc[u] = "use" => entry[u] # e
    BY <1>1, <1>2, <1>7 DEF Dns!GivenIsFresh
  <2>3. QED  BY <1>3, <2>1, <2>2 DEF Dns!Busy, Dns!Asking
<1>9. Dns!Unexpired' => Dns!Unexpired
  <2>1. ASSUME Dns!Unexpired', NEW n \in 1..MaxCalls, expire[n] # 0 PROVE now < expire[n]
    <3>1. n # e  BY <1>7, <2>1
    <3>2. QED  BY <1>3, <1>5, <2>1, <3>1 DEF Dns!Unexpired
  <2>2. QED  BY <2>1 DEF Dns!Unexpired
<1>10. Dns!TypeOK'  BY <1>1, <1>2, <1>3, <1>4, <1>5, <1>6, <1>8 DEF Dns!TypeOK
<1>11. Dns!NewEntries'
  <2>1. \A n \in 1..MaxCalls : n > call_count' => expire'[n] = 0
    BY <1>1, <1>2, <1>3, <1>5 DEF Dns!NewEntries
  <2>2. \A h \in Host : dns_cache'[h] # None => expire'[dns_cache'[h]] # 0
    <3>1. expire'[e] # 0  BY <1>0, <1>2, <1>5
    <3>2. \A h \in Host : h # host[t] /\ dns_cache[h] # None => dns_cache[h] \in 1..MaxCalls
      BY <1>0, <1>2
    <3>3. QED  BY <1>1, <1>5, <1>6, <1>7, <3>1, <3>2 DEF Dns!NewEntries
  <2>3. \A u \in Thread : pc'[u] \in Dns!Asking => expire'[entry'[u]] = 0
    <3>1. \A u \in Thread : pc[u] \in Dns!Asking => entry[u] \in 1..MaxCalls
      BY <1>0, <1>1, <1>2 DEF Dns!TypeOK, Dns!Busy
    <3>2. QED  BY <1>1, <1>4, <1>5, <1>8, <3>1 DEF Dns!NewEntries
  <2>4. QED  BY <1>1, <1>4, <1>8, <2>1, <2>2, <2>3 DEF Dns!NewEntries
<1>12. Dns!Recent'
  <2>1. ASSUME NEW u \in Thread, pc'[u] \in {"resolve", "emplace"}, dns_cache'[host'[u]] # None
        PROVE  began'[u] < expire'[dns_cache'[host'[u]]]
    <3>1. pc[u] = pc'[u] /\ Dns!Busy(u) /\ host[u] \in Host /\ began[u] <= now /\ began[u] \in Nat
      BY <1>1, <1>2, <1>3, <2>1 DEF Dns!Busy, Dns!Asking, Dns!Recent, Dns!TypeOK
    <3>2. CASE host[u] = host[t]
      BY <1>0, <1>2, <1>3, <1>5, <1>6, <1>7, <3>1, <3>2
    <3>3. CASE host[u] # host[t]
      <4>1. dns_cache'[host'[u]] = dns_cache[host[u]] /\ dns_cache[host[u]] \in 1..MaxCalls
            /\ dns_cache[host[u]] # e
        BY <1>0, <1>2, <1>3, <1>6, <1>7, <2>1, <3>1, <3>3
      <4>2. QED  BY <1>1, <1>3, <1>5, <2>1, <3>1, <4>1 DEF Dns!Recent
    <3>4. QED  BY <3>2, <3>3
  <2>2. QED  BY <1>1, <1>3, <1>8, <2>1 DEF Dns!Recent
<1>13. Dns!NothingErased'  BY <1>1, <1>3, <1>9 DEF Dns!NothingErased
<1>14. Dns!GivenIsFresh'
  <2>1. \A u \in Thread : pc[u] = "use" => entry[u] \in 1..MaxCalls
    BY <1>0, <1>1, <1>2 DEF Dns!TypeOK, Dns!Busy
  <2>2. QED  BY <1>0, <1>1, <1>2, <1>3, <1>4, <1>5, <1>8, <2>1 DEF Dns!GivenIsFresh, e
<1>15. Dns!SharedUntilExpired'
  <2>1. ASSUME Dns!Unexpired', NEW u \in Thread, pc'[u] = "use"
        PROVE  dns_cache'[host'[u]] = entry'[u]
    <3>1. CASE u = t  BY <1>3, <1>4, <1>6, <3>1 DEF e
    <3>2. CASE u # t
      <4>1. pc[u] = "use" /\ dns_cache[host[u]] = entry[u] /\ entry[u] # None /\ host[u] \in Host
        BY <1>1, <1>8, <1>9, <2>1, <3>2 DEF Dns!SharedUntilExpired, Dns!Unexpired, Dns!TypeOK,
          Dns!Busy
      <4>2. QED  BY <1>3, <1>4, <1>6, <4>1
    <3>3. QED  BY <3>1, <3>2
  <2>2. QED  BY <2>1 DEF Dns!SharedUntilExpired, Dns!Unexpired
<1>16. QED  BY <1>10, <1>11, <1>12, <1>13, <1>14, <1>15 DEF Dns!InductiveInvariant

\* A thread goes on without touching the cache: behind what it found there, or to its end.
LEMMA DnsMoved ==
  ASSUME ConnectionsAssumption, Dns!InductiveInvariant,
         NEW t \in Thread, NEW where, pc' = [pc EXCEPT ![t] = where],
         \/ where = "idle"
         \/ pc[t] = "lookup" /\ where = "erase" /\ ~Dns!Unexpired
         \/ pc[t] = "lookup" /\ where = "resolve" /\ dns_cache[host[t]] = None
         \/ pc[t] = "resolve" /\ where = "emplace",
         UNCHANGED <<now, dns_cache, expire, Dns!call, entry>>
  PROVE  Dns!InductiveInvariant'
<1>1. /\ Dns!TypeOK /\ Dns!NewEntries /\ Dns!Recent /\ Dns!NothingErased
      /\ Dns!GivenIsFresh /\ Dns!SharedUntilExpired
  BY DEF Dns!InductiveInvariant
<1>2. UNCHANGED <<now, dns_cache, expire, call_count, host, began, entry>>  BY DEF Dns!call
<1>3. /\ pc'[t] = where /\ \A u \in Thread : u # t => pc'[u] = pc[u]
      /\ pc' \in [Thread -> Dns!Asking \cup {"use", "idle", "dead"}]
  BY <1>1 DEF Dns!TypeOK, Dns!Asking
<1>4. \A u \in Thread :
        /\ pc'[u] \in Dns!Asking => pc[u] \in Dns!Asking
        /\ Dns!Busy(u)' => Dns!Busy(u)
        /\ pc'[u] = "use" => pc[u] = "use"
  BY <1>3 DEF Dns!Busy, Dns!Asking
<1>5. Dns!TypeOK'  BY <1>1, <1>2, <1>3, <1>4 DEF Dns!TypeOK
<1>6. Dns!NewEntries'  BY <1>1, <1>2, <1>4 DEF Dns!NewEntries
<1>7. Dns!Recent'
  <2>1. \A u \in Thread : pc'[u] \in {"resolve", "emplace"} /\ dns_cache[host[u]] # None =>
          pc[u] \in {"resolve", "emplace"}
    BY <1>3
  <2>2. QED  BY <1>1, <1>2, <1>4, <2>1 DEF Dns!Recent
<1>8. Dns!NothingErased'
  <2>1. \A u \in Thread : pc'[u] = "erase" => pc[u] = "erase" \/ ~Dns!Unexpired  BY <1>3
  <2>2. QED  BY <1>1, <1>2, <2>1 DEF Dns!NothingErased, Dns!Unexpired
<1>9. Dns!GivenIsFresh'  BY <1>1, <1>2, <1>4 DEF Dns!GivenIsFresh
<1>10. Dns!SharedUntilExpired'  BY <1>1, <1>2, <1>4 DEF Dns!SharedUntilExpired
<1>11. QED  BY <1>5, <1>6, <1>7, <1>8, <1>9, <1>10 DEF Dns!InductiveInvariant

\* The process ends.
LEMMA DnsDead ==
  ASSUME ConnectionsAssumption, Dns!InductiveInvariant, pc' = [u \in Thread |-> "dead"],
         UNCHANGED <<now, dns_cache, expire, Dns!call, entry>>
  PROVE  Dns!InductiveInvariant'
<1>1. /\ Dns!TypeOK /\ Dns!NewEntries /\ Dns!Recent /\ Dns!NothingErased
      /\ Dns!GivenIsFresh /\ Dns!SharedUntilExpired
  BY DEF Dns!InductiveInvariant
<1>2. UNCHANGED <<now, dns_cache, expire, call_count, host, began, entry>>  BY DEF Dns!call
<1>3. \A u \in Thread : pc'[u] = "dead" /\ ~Dns!Busy(u)' /\ pc'[u] \notin Dns!Asking
  BY DEF Dns!Busy, Dns!Asking
<1>4. Dns!TypeOK'  BY <1>1, <1>2, <1>3 DEF Dns!TypeOK
<1>5. Dns!NewEntries'  BY <1>1, <1>2, <1>3 DEF Dns!NewEntries
<1>6. Dns!Recent' /\ Dns!NothingErased' /\ Dns!GivenIsFresh' /\ Dns!SharedUntilExpired'
  BY <1>3 DEF Dns!Recent, Dns!NothingErased, Dns!GivenIsFresh, Dns!SharedUntilExpired
<1>7. QED  BY <1>4, <1>5, <1>6 DEF Dns!InductiveInvariant

\* A thread erases what its host has.
LEMMA DnsErased ==
  ASSUME ConnectionsAssumption, Dns!InductiveInvariant,
         NEW t \in Thread, pc[t] = "erase", pc' = [pc EXCEPT ![t] = "resolve"],
         dns_cache' = [dns_cache EXCEPT ![host[t]] = None],
         UNCHANGED <<now, expire, Dns!call, entry>>
  PROVE  Dns!InductiveInvariant'
<1>1. /\ Dns!TypeOK /\ Dns!NewEntries /\ Dns!Recent /\ Dns!NothingErased
      /\ Dns!GivenIsFresh /\ Dns!SharedUntilExpired
  BY DEF Dns!InductiveInvariant
<1>2. UNCHANGED <<now, expire, call_count, host, began, entry>>  BY DEF Dns!call
<1>3. /\ pc'[t] = "resolve" /\ \A u \in Thread : u # t => pc'[u] = pc[u]
      /\ pc' \in [Thread -> Dns!Asking \cup {"use", "idle", "dead"}]
  BY <1>1 DEF Dns!TypeOK, Dns!Asking
<1>4. /\ dns_cache' \in [Host -> 1..call_count \cup {None}] /\ host[t] \in Host
      /\ dns_cache'[host[t]] = None
      /\ \A h \in Host : dns_cache'[h] # None => dns_cache'[h] = dns_cache[h]
  BY <1>1 DEF Dns!TypeOK, Dns!Busy, Dns!Asking
<1>5. \A u \in Thread :
        /\ pc'[u] \in Dns!Asking => pc[u] \in Dns!Asking
        /\ Dns!Busy(u)' => Dns!Busy(u)
        /\ pc'[u] = "use" => pc[u] = "use"
  BY <1>3 DEF Dns!Busy, Dns!Asking
<1>6. Dns!TypeOK'  BY <1>1, <1>2, <1>3, <1>4, <1>5 DEF Dns!TypeOK
<1>7. Dns!NewEntries'
  <2>1. \A h \in Host : dns_cache'[h] # None => expire'[dns_cache'[h]] # 0
    BY <1>1, <1>2, <1>4 DEF Dns!NewEntries
  <2>2. QED  BY <1>1, <1>2, <1>5, <2>1 DEF Dns!NewEntries
<1>8. Dns!Recent'
  <2>1. ASSUME NEW u \in Thread, pc'[u] \in {"resolve", "emplace"}, dns_cache'[host[u]] # None
        PROVE  pc[u] \in {"resolve", "emplace"} /\ dns_cache'[host[u]] = dns_cache[host[u]]
    <3>1. u # t  BY <1>4, <2>1
    <3>2. host[u] \in Host  BY <1>1, <1>3, <2>1, <3>1 DEF Dns!TypeOK, Dns!Busy, Dns!Asking
    <3>3. QED  BY <1>3, <1>4, <2>1, <3>1, <3>2
  <2>2. QED  BY <1>1, <1>2, <1>5, <2>1 DEF Dns!Recent
<1>9. ~Dns!Unexpired /\ ~Dns!Unexpired'
  BY <1>1, <1>2 DEF Dns!NothingErased, Dns!Unexpired
<1>10. Dns!NothingErased' /\ Dns!SharedUntilExpired'
  BY <1>9 DEF Dns!NothingErased, Dns!SharedUntilExpired, Dns!Unexpired
<1>11. Dns!GivenIsFresh'  BY <1>1, <1>2, <1>5 DEF Dns!GivenIsFresh
<1>12. QED  BY <1>6, <1>7, <1>8, <1>10, <1>11 DEF Dns!InductiveInvariant

\* A step of a lookup keeps the invariant of the cache.
LEMMA DnsStep ==
  ASSUME ConnectionsAssumption, Dns!InductiveInvariant, [Dns!Next]_(Dns!vars)
  PROVE  Dns!InductiveInvariant'
<1> USE DEF Dns!InductiveInvariant
<1>0. /\ Hour \in Nat \ {0} /\ MaxCalls \in Nat /\ MaxTime \in Nat
      /\ None \notin Thread \cup Nat
  BY DEF ConnectionsAssumption, Dns!CacheAssumption
<1>1. CASE UNCHANGED Dns!vars
  BY <1>1 DEF Dns!vars, Dns!call, Dns!TypeOK, Dns!NewEntries, Dns!Recent, Dns!NothingErased,
      Dns!GivenIsFresh, Dns!SharedUntilExpired, Dns!Unexpired, Dns!Busy, Dns!Asking
<1>2. CASE Dns!Tick
  <2> USE DEF Dns!TypeOK, Dns!NewEntries, Dns!Recent, Dns!NothingErased,
        Dns!GivenIsFresh, Dns!SharedUntilExpired, Dns!Unexpired, Dns!Busy, Dns!Asking
  <2>1. Dns!TypeOK'  BY <1>0, <1>2 DEF Dns!Tick, Dns!call
  <2>2. Dns!NewEntries'  BY <1>0, <1>2 DEF Dns!Tick, Dns!call
  <2>3. Dns!Recent'  BY <1>0, <1>2 DEF Dns!Tick, Dns!call
  <2>4. Dns!NothingErased'  BY <1>0, <1>2 DEF Dns!Tick, Dns!call
  <2>5. Dns!GivenIsFresh'  BY <1>0, <1>2 DEF Dns!Tick, Dns!call
  <2>6. Dns!SharedUntilExpired'  BY <1>0, <1>2 DEF Dns!Tick, Dns!call
  <2>7. QED  BY <2>1, <2>2, <2>3, <2>4, <2>5, <2>6 DEF Dns!InductiveInvariant
<1>3. ASSUME NEW t \in Thread, NEW h \in Host, Dns!Call(t, h) PROVE Dns!InductiveInvariant'
  <2> USE DEF Dns!TypeOK, Dns!NewEntries, Dns!Recent, Dns!NothingErased,
        Dns!GivenIsFresh, Dns!SharedUntilExpired, Dns!Unexpired, Dns!Busy, Dns!Asking
  <2>1. Dns!TypeOK'  BY <1>0, <1>3 DEF Dns!Call, Dns!Goto
  <2>2. Dns!NewEntries'  BY <1>0, <1>3 DEF Dns!Call, Dns!Goto
  <2>3. Dns!Recent'  BY <1>0, <1>3 DEF Dns!Call, Dns!Goto
  <2>4. Dns!NothingErased'  BY <1>0, <1>3 DEF Dns!Call, Dns!Goto
  <2>5. Dns!GivenIsFresh'  BY <1>0, <1>3 DEF Dns!Call, Dns!Goto
  <2>6. Dns!SharedUntilExpired'  BY <1>0, <1>3 DEF Dns!Call, Dns!Goto
  <2>7. QED  BY <2>1, <2>2, <2>3, <2>4, <2>5, <2>6 DEF Dns!InductiveInvariant
<1>4. ASSUME NEW t \in Thread, Dns!Resolve(t) PROVE Dns!InductiveInvariant'
  <2>1. CASE Dns!Lookup(t)
    <3> DEFINE n == dns_cache[host[t]]
    <3>1. CASE n # None /\ began[t] < expire[n]
      <4>1. /\ pc[t] = "lookup" /\ Dns!Give(t, n)
            /\ UNCHANGED <<now, dns_cache, expire, Dns!call>>
        BY <2>1, <3>1 DEF Dns!Lookup
      <4>2. QED  BY <3>1, <4>1, DnsGiven
    <3>2. CASE ~(n # None /\ began[t] < expire[n])
      <4>1. /\ pc[t] = "lookup" /\ host[t] \in Host /\ began[t] \in Nat
            /\ pc' = [pc EXCEPT ![t] = IF n # None THEN "erase" ELSE "resolve"]
            /\ UNCHANGED <<now, dns_cache, expire, Dns!call, entry>>
        BY <2>1, <3>2 DEF Dns!Lookup, Dns!Goto, Dns!TypeOK, Dns!Busy, Dns!Asking
      <4>2. n # None => n \in 1..MaxCalls /\ expire[n] # 0 /\ ~(began[t] < expire[n])
        BY <1>0, <3>2, <4>1 DEF Dns!TypeOK, Dns!NewEntries
      <4>3. n # None => ~Dns!Unexpired
        BY <1>0, <4>1, <4>2 DEF Dns!TypeOK, Dns!Recent, Dns!Busy, Dns!Asking, Dns!Unexpired
      <4>4. QED  BY <4>1, <4>3, DnsMoved
    <3>3. QED  BY <3>1, <3>2
  <2>2. CASE Dns!EraseExpired(t)  BY <2>2, DnsErased DEF Dns!EraseExpired, Dns!Goto
  <2>3. CASE Dns!GetAddrInfo(t)  BY <2>3, DnsMoved DEF Dns!GetAddrInfo, Dns!Goto
  <2>4. CASE Dns!GetAddrInfoFails(t)
    <3>1. CASE t = Io  BY <2>4, <3>1, DnsDead DEF Dns!GetAddrInfoFails
    <3>2. CASE t # Io  BY <2>4, <3>2, DnsMoved DEF Dns!GetAddrInfoFails
    <3>3. QED  BY <3>1, <3>2
  <2>5. CASE Dns!Emplace(t)
    <3>1. CASE dns_cache[host[t]] # None
      <4>1. /\ pc[t] = "emplace" /\ Dns!Give(t, dns_cache[host[t]])
            /\ UNCHANGED <<now, dns_cache, expire, Dns!call>>
        BY <2>5, <3>1 DEF Dns!Emplace
      <4>2. began[t] < expire[dns_cache[host[t]]]
        BY <3>1, <4>1 DEF Dns!Recent, Dns!Busy, Dns!Asking
      <4>3. QED  BY <3>1, <4>1, <4>2, DnsGiven
    <3>2. CASE dns_cache[host[t]] = None
      <4>1. /\ pc[t] = "emplace" /\ Dns!Give(t, entry[t])
            /\ expire' = [expire EXCEPT ![entry[t]] = began[t] + Hour]
            /\ dns_cache' = [dns_cache EXCEPT ![host[t]] = entry[t]]
            /\ UNCHANGED <<now, Dns!call>>
        BY <2>5, <3>2 DEF Dns!Emplace
      <4>2. QED  BY <3>2, <4>1, DnsPut
    <3>3. QED  BY <3>1, <3>2
  <2>6. CASE Dns!Use(t)  BY <2>6, DnsMoved DEF Dns!Use, Dns!Goto
  <2>7. QED  BY <1>4, <2>1, <2>2, <2>3, <2>4, <2>5, <2>6 DEF Dns!Resolve
<1>5. QED  BY <1>1, <1>2, <1>3, <1>4 DEF Dns!Next

-----------------------------------------------------------------------------
(* SslContext.                                                               *)

ConnRow(P, X) == [port : P, context : X, phase : {"new", "constructed", "session", "destroyed"}]

\* A row of conns whose port or phase is set.
LEMMA TlsRow ==
  ASSUME NEW P, NEW X, NEW row \in ConnRow(P, X), NEW p \in P,
         NEW where \in {"new", "constructed", "session", "destroyed"}
  PROVE  /\ [row EXCEPT !.port = p] \in ConnRow(P, X)
         /\ [row EXCEPT !.phase = where] \in ConnRow(P, X)
         /\ [row EXCEPT !.port = p].port = p /\ [row EXCEPT !.port = p].phase = row.phase
         /\ [row EXCEPT !.port = p].context = row.context
         /\ [row EXCEPT !.phase = where].port = row.port
         /\ [row EXCEPT !.phase = where].phase = where
         /\ [row EXCEPT !.phase = where].context = row.context
BY DEF ConnRow

\* What all proofs about it use of a state.
LEMMA TlsTypes ==
  ASSUME ConnectionsAssumption, Tls!InductiveInvariant
  PROVE  /\ Tls!TypeOK /\ Tls!MakingNew /\ Tls!OfTheServer /\ Tls!Pointing /\ Tls!OwnCertificate
         /\ 0 \notin Port /\ None \notin Accepted \cup Client /\ None \notin Key /\ Io \in Thread
BY DEF ConnectionsAssumption, Tls!ContextAssumption, Tls!InductiveInvariant

\* A connection is given a context of its port.
LEMMA TlsGiven ==
  ASSUME ConnectionsAssumption, Tls!InductiveInvariant,
         NEW t \in Thread, Tls!Makes(t), NEW x, Tls!Given(t, x),
         NEW p, p = conns[making[t].conn].port, x \in Tls!Range(contexts'[p]),
         contexts' \in [Tls!Ports -> Seq(Tls!Context)], Tls!OfTheServer',
         \A q \in Tls!Ports : Tls!Range(contexts[q]) \subseteq Tls!Range(contexts'[q]),
         UNCHANGED <<keys, dead>>
  PROVE  Tls!InductiveInvariant'
<1> DEFINE d == making[t].conn
<1>1. /\ Tls!TypeOK /\ Tls!MakingNew /\ Tls!OfTheServer /\ Tls!Pointing /\ Tls!OwnCertificate
      /\ 0 \notin Port /\ None \notin Accepted \cup Client /\ Io \in Thread
  BY TlsTypes
<1>2. /\ d \in Accepted \cup Client /\ conns[d].phase = "new" /\ p \in Tls!Ports
      /\ p # 0 => t = Io /\ keys[p] # None
  BY <1>1 DEF Tls!TypeOK, Tls!MakingNew
<1>3. x \in Tls!Context /\ x.port = p /\ (p # 0 => x.key = keys[p])
  BY <1>2 DEF Tls!Range, Tls!OfTheServer
<1>4. /\ conns'[d].port = p /\ conns'[d].context = x /\ conns'[d].phase = "constructed"
      /\ \A c \in Accepted \cup Client : c # d => conns'[c] = conns[c]
      /\ conns' \in [Accepted \cup Client ->
                       [port : Tls!Ports \cup {None}, context : Tls!Context \cup {None},
                        phase : {"new", "constructed", "session", "destroyed"}]]
  <2> DEFINE Row == [port : Tls!Ports \cup {None}, context : Tls!Context \cup {None},
                             phase : {"new", "constructed", "session", "destroyed"}]
  <2>1. conns \in [Accepted \cup Client -> Row]  BY <1>1 DEF Tls!TypeOK
  <2>2. conns' = [conns EXCEPT ![d] = [conns[d] EXCEPT !.context = x, !.phase = "constructed"]]
    BY <1>2, <2>1 DEF Tls!Given
  <2>3. conns[d] \in Row /\ d \in Accepted \cup Client /\ conns[d].port = p
    BY <1>2, <2>1
  <2> HIDE DEF d
  <2>4. [conns[d] EXCEPT !.context = x, !.phase = "constructed"] \in Row
    BY <1>3, <2>3
  <2> HIDE DEF Row
  <2>5. conns' \in [Accepted \cup Client -> Row]  BY <2>1, <2>2, <2>3, <2>4
  <2>6. conns'[d] = [conns[d] EXCEPT !.context = x, !.phase = "constructed"]
    BY <2>1, <2>2, <2>3
  <2>7. conns'[d].port = p /\ conns'[d].context = x /\ conns'[d].phase = "constructed"
    BY <2>3, <2>6 DEF Row
  <2>8. QED  BY <2>1, <2>2, <2>5, <2>7 DEF Row
<1>5. /\ making'[t] = Tls!Idle
      /\ \A u \in Thread : u # t => making'[u] = making[u]
      /\ making' \in [Thread -> [pc : {"idle", "lookup", "load"},
                                 conn : Accepted \cup Client \cup {None}]]
  BY <1>1 DEF Tls!Given, Tls!TypeOK, Tls!Idle
<1> HIDE DEF d
<1>6. Tls!TypeOK'  BY <1>1, <1>4, <1>5 DEF Tls!TypeOK
<1>7. Tls!MakingNew'
  <2>1. \A u \in Thread : Tls!Makes(u)' => u # t /\ Tls!Makes(u) /\ making'[u] = making[u]
    BY <1>5 DEF Tls!Makes, Tls!Idle
  <2>2. \A u \in Thread : u # t /\ Tls!Makes(u) =>
          making[u].conn # d /\ making[u].conn \in Accepted \cup Client
    BY <1>1 DEF Tls!MakingNew, Tls!TypeOK, d
  <2>3. \A u \in Thread : Tls!Makes(u)' <=> making'[u].conn # None
    <3>1. ~Tls!Makes(t)' /\ making'[t].conn = None  BY <1>5 DEF Tls!Makes, Tls!Idle
    <3>2. \A u \in Thread : u # t =>
            (Tls!Makes(u)' <=> Tls!Makes(u)) /\ making'[u].conn = making[u].conn
      BY <1>5 DEF Tls!Makes
    <3>3. QED  BY <1>1, <3>1, <3>2 DEF Tls!MakingNew
  <2>4. \A u \in Thread : Tls!Makes(u)' => conns'[making'[u].conn] = conns[making[u].conn]
    BY <1>4, <2>1, <2>2
  <2>5. \A u, v \in Thread : Tls!Makes(u)' /\ making'[u].conn = making'[v].conn => u = v
    <3>1. \A u, v \in Thread : Tls!Makes(u)' /\ making'[u].conn = making'[v].conn => Tls!Makes(v)'
      BY <2>3
    <3>2. QED  BY <1>1, <2>1, <3>1 DEF Tls!MakingNew
  <2>6. QED  BY <1>1, <2>1, <2>3, <2>4, <2>5 DEF Tls!MakingNew
<1>8. Tls!Pointing'
  <2>1. ASSUME NEW c \in Accepted \cup Client, conns'[c].phase \in {"constructed", "session"}
        PROVE  /\ conns'[c].port \in Tls!Ports
               /\ conns'[c].port # 0 => keys'[conns'[c].port] # None
               /\ conns'[c].phase = "constructed" =>
                    conns'[c].context \in Tls!Range(contexts'[conns'[c].port])
    <3>1. CASE c = d  BY <1>2, <1>4, <3>1
    <3>2. CASE c # d  BY <1>1, <1>4, <2>1, <3>2 DEF Tls!Pointing
    <3>3. QED  BY <3>1, <3>2
  <2>2. QED  BY <2>1 DEF Tls!Pointing
<1>9. Tls!OwnCertificate'
  <2>1. ASSUME NEW c \in Accepted \cup Client, conns'[c].phase \in {"constructed", "session"},
               conns'[c].port # 0
        PROVE  /\ conns'[c].context.port = conns'[c].port
               /\ conns'[c].context.key = keys'[conns'[c].port]
    <3>1. CASE c = d  BY <1>3, <1>4, <2>1, <3>1
    <3>2. CASE c # d  BY <1>1, <1>4, <2>1, <3>2 DEF Tls!OwnCertificate
    <3>3. QED  BY <3>1, <3>2
  <2>2. QED  BY <2>1 DEF Tls!OwnCertificate
<1>10. QED  BY <1>6, <1>7, <1>8, <1>9 DEF Tls!InductiveInvariant

\* The contexts begin in their invariant.
LEMMA TlsInit ==
  ASSUME ConnectionsAssumption, Tls!Init
  PROVE  Tls!InductiveInvariant
<1> USE DEF Tls!Init
<1>1. dead \in BOOLEAN /\ \A p \in Tls!Ports : contexts[p] = <<>>  BY DEF Tls!Ports
<1>2. contexts \in [Tls!Ports -> Seq(Tls!Context)]
  <2>1. <<>> \in Seq(Tls!Context)  OBVIOUS
  <2>2. QED  BY <2>1 DEF Tls!Ports
<1>3. Tls!TypeOK  BY <1>1, <1>2 DEF Tls!TypeOK, Tls!Idle
<1>4. Tls!MakingNew  BY DEF Tls!MakingNew, Tls!Makes, Tls!Idle
<1>5. Tls!OfTheServer  BY <1>1 DEF Tls!OfTheServer, Tls!Range, Tls!Ports
<1>6. Tls!Pointing /\ Tls!OwnCertificate  BY DEF Tls!Pointing, Tls!OwnCertificate
<1>7. QED  BY <1>3, <1>4, <1>5, <1>6 DEF Tls!InductiveInvariant
\* A context is added behind the others of its port.
LEMMA TlsAppended ==
  ASSUME NEW S, NEW s \in Seq(S), NEW x
  PROVE  Tls!Range(Append(s, x)) = Tls!Range(s) \cup {x}
<1>1. \A i \in 1..Len(s) : Append(s, x)[i] = s[i]  OBVIOUS
<1>2. Append(s, x)[Len(s) + 1] = x /\ DOMAIN Append(s, x) = 1..Len(s) + 1  OBVIOUS
<1>3. QED  BY <1>1, <1>2 DEF Tls!Range

\* A new connection, or one whose handshake began or that is destroyed, has no context to keep.
LEMMA TlsMoves ==
  ASSUME ConnectionsAssumption, Tls!InductiveInvariant,
         NEW c \in Accepted \cup Client, NEW where \in {"session", "destroyed"},
         conns' = [conns EXCEPT ![c].phase = where],
         where = "session" => conns[c].phase = "constructed",
         \A u \in Thread : Tls!Makes(u)' =>
            Tls!Makes(u) /\ making'[u] = making[u] /\ making[u].conn # c,
         \A u \in Thread : Tls!Makes(u)' <=> making'[u].conn # None,
         making' \in [Thread -> [pc : {"idle", "lookup", "load"},
                                conn : Accepted \cup Client \cup {None}]],
         dead' \in BOOLEAN, UNCHANGED <<contexts, keys>>
  PROVE  Tls!InductiveInvariant'
<1>1. /\ Tls!TypeOK /\ Tls!MakingNew /\ Tls!OfTheServer /\ Tls!Pointing /\ Tls!OwnCertificate
      /\ None \notin Accepted \cup Client
  BY TlsTypes
<1>2. /\ conns'[c] = [conns[c] EXCEPT !.phase = where]
      /\ \A d \in Accepted \cup Client : d # c => conns'[d] = conns[d]
  BY <1>1 DEF Tls!TypeOK
<1>3. /\ conns'[c].port = conns[c].port /\ conns'[c].context = conns[c].context
      /\ conns'[c].phase = where
  BY <1>1, <1>2 DEF Tls!TypeOK
<1>4. Tls!TypeOK'
  <2> DEFINE Row == [port : Tls!Ports \cup {None}, context : Tls!Context \cup {None},
                     phase : {"new", "constructed", "session", "destroyed"}]
  <2>1. conns[c] \in Row /\ conns \in [Accepted \cup Client -> Row]  BY <1>1 DEF Tls!TypeOK
  <2>2. conns'[c] \in Row  BY <1>2, <2>1, TlsRow
  <2> HIDE DEF Row
  <2>3. conns' \in [Accepted \cup Client -> Row]  BY <1>2, <2>1, <2>2
  <2>4. QED  BY <1>1, <2>3 DEF Tls!TypeOK, Row
<1>5. Tls!MakingNew'
  <2>1. \A u \in Thread : Tls!Makes(u)' =>
          making[u].conn \in Accepted \cup Client /\ making[u].conn # c
    BY <1>1 DEF Tls!MakingNew, Tls!TypeOK
  <2>2. \A u \in Thread : Tls!Makes(u)' => conns'[making'[u].conn] = conns[making[u].conn]
    BY <1>2, <2>1
  <2>3. \A u, v \in Thread : Tls!Makes(u)' /\ making'[u].conn = making'[v].conn => u = v
    <3>1. \A u, v \in Thread : Tls!Makes(u)' /\ making'[u].conn = making'[v].conn => Tls!Makes(v)'
      OBVIOUS
    <3>2. QED  BY <1>1, <3>1 DEF Tls!MakingNew
  <2>4. QED  BY <1>1, <2>2, <2>3 DEF Tls!MakingNew
<1>6. Tls!OfTheServer'  BY <1>1 DEF Tls!OfTheServer
<1>7. Tls!Pointing'
  <2>1. ASSUME NEW d \in Accepted \cup Client, conns'[d].phase \in {"constructed", "session"}
        PROVE  /\ conns[d].phase \in {"constructed", "session"} /\ conns'[d].port = conns[d].port
               /\ conns'[d].phase = "constructed" => conns[d].phase = "constructed"
               /\ conns'[d].context = conns[d].context
    BY <1>2, <1>3, <2>1
  <2>2. QED  BY <1>1, <2>1 DEF Tls!Pointing
<1>8. Tls!OwnCertificate'
  <2>1. ASSUME NEW d \in Accepted \cup Client, conns'[d].phase \in {"constructed", "session"}
        PROVE  /\ conns[d].phase \in {"constructed", "session"} /\ conns'[d].port = conns[d].port
               /\ conns'[d].context = conns[d].context
    BY <1>2, <1>3, <2>1
  <2>2. QED  BY <1>1, <2>1 DEF Tls!OwnCertificate
<1>9. QED  BY <1>4, <1>5, <1>6, <1>7, <1>8 DEF Tls!InductiveInvariant

\* The context that a connection makes.
LEMMA TlsNewContext ==
  ASSUME NEW c \in Accepted \cup Client, conns[c].port \in Tls!Ports,
         keys \in [Port -> Key \cup {None}]
  PROVE  /\ Tls!NewContext(c) \in Tls!Context /\ Tls!NewContext(c).port = conns[c].port
         /\ conns[c].port # 0 => Tls!NewContext(c).key = keys[conns[c].port]
<1>1. (IF conns[c].port = 0 THEN None ELSE keys[conns[c].port]) \in Key \cup {None}
  BY DEF Tls!Ports
<1>2. QED  BY <1>1 DEF Tls!NewContext, Tls!Context

\* A step of a connection or of its thread keeps the invariant of the contexts.
LEMMA TlsStep ==
  ASSUME ConnectionsAssumption, Tls!InductiveInvariant, [Tls!Next]_(Tls!vars)
  PROVE  Tls!InductiveInvariant'
<1> DEFINE Conn == Accepted \cup Client
<1>0. /\ Tls!TypeOK /\ Tls!MakingNew /\ Tls!OfTheServer /\ Tls!Pointing /\ Tls!OwnCertificate
      /\ 0 \notin Port /\ None \notin Conn /\ None \notin Key /\ Io \in Thread
  BY TlsTypes
<1>a. /\ contexts \in [Tls!Ports -> Seq(Tls!Context)] /\ keys \in [Port -> Key \cup {None}]
      /\ making \in [Thread -> [pc : {"idle", "lookup", "load"}, conn : Conn \cup {None}]]
      /\ dead \in BOOLEAN
  BY <1>0 DEF Tls!TypeOK
<1>1. CASE UNCHANGED Tls!vars
  BY <1>0, <1>1 DEF Tls!vars, Tls!InductiveInvariant, Tls!TypeOK, Tls!MakingNew, Tls!OfTheServer,
    Tls!Pointing, Tls!OwnCertificate, Tls!Makes
<1>2. ASSUME NEW t \in Thread, Tls!Lookup(t) PROVE Tls!InductiveInvariant'
  <2> DEFINE p == conns[making[t].conn].port
  <2>1. p \in Tls!Ports /\ Tls!Makes(t) /\ UNCHANGED <<contexts, keys, dead>>
    BY <1>0, <1>2 DEF Tls!Lookup, Tls!MakingNew, Tls!Makes
  <2>2. CASE contexts[p] # <<>>
    <3>1. Tls!Given(t, Head(contexts[p]))  BY <1>2, <2>2 DEF Tls!Lookup
    <3>2. Head(contexts[p]) \in Tls!Range(contexts[p])
      <4>1. contexts[p] \in Seq(Tls!Context)  BY <1>a, <2>1
      <4>2. QED  BY <2>2, <4>1 DEF Tls!Range
    <3>3. Tls!OfTheServer'  BY <1>0, <2>1 DEF Tls!OfTheServer
    <3>4. QED  BY <1>a, <2>1, <3>1, <3>2, <3>3, TlsGiven
  <2>3. CASE contexts[p] = <<>>
    <3>1. making' = [making EXCEPT ![t].pc = "load"] /\ UNCHANGED conns
      BY <1>2, <2>3 DEF Tls!Lookup
    <3>2. /\ making' \in [Thread -> [pc : {"idle", "lookup", "load"}, conn : Conn \cup {None}]]
          /\ \A u \in Thread : making'[u].conn = making[u].conn
          /\ \A u \in Thread : Tls!Makes(u)' <=> Tls!Makes(u)
      BY <1>a, <2>1, <3>1 DEF Tls!Makes
    <3>3. QED  BY <1>0, <2>1, <3>1, <3>2 DEF Tls!InductiveInvariant, Tls!TypeOK, Tls!MakingNew,
                 Tls!OfTheServer, Tls!Pointing, Tls!OwnCertificate
  <2>4. QED  BY <2>2, <2>3
<1>3. ASSUME NEW t \in Thread, Tls!Store(t) PROVE Tls!InductiveInvariant'
  <2> DEFINE c == making[t].conn
             p == conns[c].port
             new == Tls!NewContext(c)
  <2>1. /\ Tls!Makes(t) /\ c \in Conn /\ p \in Tls!Ports /\ (p # 0 => keys[p] # None)
        /\ UNCHANGED <<keys, dead>> /\ Tls!Given(t, new)
        /\ contexts' = [contexts EXCEPT ![new.port] = Append(@, new)]
    BY <1>0, <1>3 DEF Tls!Store, Tls!MakingNew, Tls!Makes, Tls!TypeOK
  <2>2. new.port = p /\ new \in Tls!Context /\ (p # 0 => new.key = keys[p])
    BY <1>a, <2>1, TlsNewContext
  <2>c. p = conns[making[t].conn].port  OBVIOUS
  <2> HIDE DEF new, c, p
  <2>3. /\ contexts' \in [Tls!Ports -> Seq(Tls!Context)]
        /\ Tls!Range(contexts'[p]) = Tls!Range(contexts[p]) \cup {new}
        /\ \A q \in Tls!Ports : q # p => contexts'[q] = contexts[q]
    <3>1. contexts[p] \in Seq(Tls!Context) /\ contexts'[p] = Append(contexts[p], new)
      BY <1>a, <2>1, <2>2
    <3>2. QED  BY <1>a, <2>1, <2>2, <3>1, TlsAppended
  <2>4. Tls!OfTheServer'
    <3>1. \A q \in Port : keys[q] = None => q # p  BY <1>0, <2>1
    <3>2. QED  BY <1>0, <2>1, <2>2, <2>3, <3>1 DEF Tls!OfTheServer, Tls!Ports
  <2>5. \A q \in Tls!Ports : Tls!Range(contexts[q]) \subseteq Tls!Range(contexts'[q])
    BY <2>3
  <2>6. QED  BY <2>1, <2>2, <2>c, <2>3, <2>4, <2>5, TlsGiven
<1>4. ASSUME NEW t \in Thread, Tls!LoadFails(t) PROVE Tls!InductiveInvariant'
  <2> DEFINE c == making[t].conn
  <2>1. /\ Tls!Makes(t) /\ c \in Conn /\ conns' = [conns EXCEPT ![c].phase = "destroyed"]
        /\ making' = [making EXCEPT ![t] = Tls!Idle] /\ UNCHANGED <<contexts, keys>>
    BY <1>0, <1>4 DEF Tls!LoadFails, Tls!MakingNew, Tls!Makes, Tls!TypeOK
  <2>2. dead' \in BOOLEAN  BY <1>4, Zenon DEF Tls!LoadFails
  <2>3. /\ making'[t] = Tls!Idle
        /\ \A u \in Thread : u # t => making'[u] = making[u]
        /\ making' \in [Thread -> [pc : {"idle", "lookup", "load"}, conn : Conn \cup {None}]]
    BY <1>a, <2>1 DEF Tls!Idle
  <2>4. \A u \in Thread : u # t /\ Tls!Makes(u) => making[u].conn # c
    BY <1>0, <2>1 DEF Tls!MakingNew
  <2>5. \A u \in Thread : Tls!Makes(u)' =>
          Tls!Makes(u) /\ making'[u] = making[u] /\ making[u].conn # c
    BY <2>3, <2>4 DEF Tls!Makes, Tls!Idle
  <2>6. \A u \in Thread : Tls!Makes(u)' <=> making'[u].conn # None
    <3>1. ~Tls!Makes(t)' /\ making'[t].conn = None  BY <2>3 DEF Tls!Makes, Tls!Idle
    <3>2. \A u \in Thread : u # t =>
            (Tls!Makes(u)' <=> Tls!Makes(u)) /\ making'[u].conn = making[u].conn
      BY <2>3 DEF Tls!Makes
    <3>3. QED  BY <1>0, <3>1, <3>2 DEF Tls!MakingNew
  <2> HIDE DEF c
  <2>7. QED  BY <2>1, <2>2, <2>3, <2>5, <2>6, TlsMoves
<1>5. ASSUME NEW c \in Conn, Tls!NewSession(c) \/ Tls!Destroy(c) PROVE Tls!InductiveInvariant'
  <2>1. PICK where \in {"session", "destroyed"} :
          /\ conns' = [conns EXCEPT ![c].phase = where]
          /\ where = "session" => conns[c].phase = "constructed"
          /\ conns[c].phase # "new"
    BY <1>5 DEF Tls!NewSession, Tls!Destroy
  <2>2. UNCHANGED <<contexts, making, keys, dead>>
    BY <1>5 DEF Tls!NewSession, Tls!Destroy
  <2>3. \A u \in Thread : Tls!Makes(u)' =>
          Tls!Makes(u) /\ making'[u] = making[u] /\ making[u].conn # c
    BY <1>0, <2>1, <2>2 DEF Tls!MakingNew, Tls!Makes
  <2>4. \A u \in Thread : Tls!Makes(u)' <=> making'[u].conn # None
    BY <1>0, <2>2 DEF Tls!MakingNew, Tls!Makes
  <2>5. dead' \in BOOLEAN  BY <1>a, <2>2
  <2>6. QED  BY <1>a, <2>1, <2>2, <2>3, <2>4, <2>5, TlsMoves
<1>6. ASSUME NEW t \in Thread, NEW c \in Conn, NEW p \in Port \cup {0}, Tls!Construct(t, c, p)
      PROVE  Tls!InductiveInvariant'
  <2>1. /\ ~Tls!Makes(t) /\ conns[c].phase = "new" /\ p \in Tls!Ports
        /\ p # 0 => t = Io /\ keys[p] # None
        /\ \A u \in Thread : making[u].conn # c
        /\ UNCHANGED <<contexts, keys, dead>>
    BY <1>6 DEF Tls!Construct, Tls!Makes, Tls!Idle, Tls!Ports
  <2>2. /\ making'[t] = [pc |-> "lookup", conn |-> c]
        /\ \A u \in Thread : u # t => making'[u] = making[u]
        /\ making' \in [Thread -> [pc : {"idle", "lookup", "load"}, conn : Conn \cup {None}]]
    BY <1>a, <1>6 DEF Tls!Construct
  <2> DEFINE Row == [port : Tls!Ports \cup {None}, context : Tls!Context \cup {None},
                     phase : {"new", "constructed", "session", "destroyed"}]
  <2>a. conns \in [Conn -> Row] /\ conns[c] \in Row  BY <1>0 DEF Tls!TypeOK
  <2>b. conns' = [conns EXCEPT ![c] = [conns[c] EXCEPT !.port = p]]
    BY <1>6, <2>a DEF Tls!Construct
  <2>3. /\ conns'[c].port = p /\ conns'[c].phase = "new" /\ conns'[c] \in Row
        /\ \A d \in Conn : d # c => conns'[d] = conns[d]
    <3>1. conns'[c] = [conns[c] EXCEPT !.port = p]  BY <2>a, <2>b
    <3>2. QED  BY <2>1, <2>a, <2>b, <3>1, TlsRow
  <2>4. Tls!TypeOK'
    <3> HIDE DEF Row
    <3>1. conns' \in [Conn -> Row]  BY <2>a, <2>b, <2>3
    <3>2. QED  BY <1>0, <2>1, <2>2, <3>1 DEF Tls!TypeOK, Row
  <2>5. Tls!MakingNew'
    <3>1. Tls!Makes(t)' /\ making'[t].conn = c /\ c # None  BY <1>0, <2>2 DEF Tls!Makes
    <3>2. \A u \in Thread : u # t =>
            /\ Tls!Makes(u)' <=> Tls!Makes(u)
            /\ making'[u].conn = making[u].conn /\ making[u].conn # c
      BY <2>1, <2>2 DEF Tls!Makes
    <3>3. \A u \in Thread : u # t /\ Tls!Makes(u) => conns'[making'[u].conn] = conns[making[u].conn]
      <4>1. \A u \in Thread : Tls!Makes(u) => making[u].conn \in Conn
        BY <1>0 DEF Tls!MakingNew, Tls!TypeOK
      <4>2. QED  BY <2>3, <3>2, <4>1
    <3>4. \A u \in Thread : Tls!Makes(u)' <=> making'[u].conn # None
      BY <1>0, <3>1, <3>2 DEF Tls!MakingNew
    <3>5. \A u, v \in Thread : Tls!Makes(u)' /\ making'[u].conn = making'[v].conn => u = v
      BY <1>0, <3>1, <3>2 DEF Tls!MakingNew
    <3>6. ASSUME NEW u \in Thread, Tls!Makes(u)'
          PROVE  LET d == conns'[making'[u].conn] IN
                   /\ d.phase = "new" /\ d.port \in Tls!Ports
                   /\ d.port # 0 => u = Io /\ keys'[d.port] # None
      <4>1. CASE u = t  BY <2>1, <2>3, <3>1, <4>1
      <4>2. CASE u # t  BY <1>0, <2>1, <3>2, <3>3, <3>6, <4>2 DEF Tls!MakingNew
      <4>3. QED  BY <4>1, <4>2
    <3>7. QED  BY <3>4, <3>5, <3>6 DEF Tls!MakingNew
  <2>6. Tls!OfTheServer'  BY <1>0, <2>1 DEF Tls!OfTheServer
  <2>7. \A d \in Conn : conns'[d].phase \in {"constructed", "session"} =>
          d # c /\ conns'[d] = conns[d]
    BY <2>3
  <2>8. Tls!Pointing'  BY <1>0, <2>1, <2>7 DEF Tls!Pointing
  <2>9. Tls!OwnCertificate'  BY <1>0, <2>1, <2>7 DEF Tls!OwnCertificate
  <2>10. QED  BY <2>4, <2>5, <2>6, <2>8, <2>9 DEF Tls!InductiveInvariant
<1>7. ASSUME NEW p \in Port, NEW k \in Key, Tls!StartServer(p, k) PROVE Tls!InductiveInvariant'
  <2>1. /\ keys[p] = None /\ keys'[p] = k /\ k # None
        /\ keys' \in [Port -> Key \cup {None}]
        /\ \A q \in Port : q # p => keys'[q] = keys[q]
        /\ \A q \in Port : keys[q] # None => keys'[q] = keys[q]
        /\ UNCHANGED <<contexts, conns, making, dead>>
    BY <1>0, <1>a, <1>7 DEF Tls!StartServer
  <2>2. contexts[p] = <<>>  BY <1>0, <2>1 DEF Tls!OfTheServer
  <2>3. Tls!TypeOK'  BY <1>0, <2>1 DEF Tls!TypeOK
  <2>4. Tls!MakingNew'
    <3>1. \A q \in Tls!Ports : q # 0 /\ keys[q] # None => keys'[q] # None  BY <2>1 DEF Tls!Ports
    <3>2. \A u \in Thread : Tls!Makes(u)' <=> Tls!Makes(u)  BY <2>1 DEF Tls!Makes
    <3>3. QED  BY <1>0, <2>1, <3>1, <3>2 DEF Tls!MakingNew
  <2>5. Tls!OfTheServer'
    <3>1. \A x : x \notin Tls!Range(contexts[p])  BY <2>2 DEF Tls!Range
    <3>2. \A q \in Tls!Ports : q # p => (q # 0 => keys'[q] = keys[q])  BY <2>1 DEF Tls!Ports
    <3>3. QED  BY <1>0, <2>1, <2>2, <3>1, <3>2 DEF Tls!OfTheServer
  <2>6. Tls!Pointing'  BY <1>0, <2>1 DEF Tls!Pointing, Tls!Ports
  <2>7. Tls!OwnCertificate'
    <3>1. \A c \in Conn : conns[c].phase \in {"constructed", "session"} /\ conns[c].port # 0 =>
            keys'[conns[c].port] = keys[conns[c].port]
      BY <1>0, <2>1 DEF Tls!Pointing, Tls!Ports
    <3>2. QED  BY <1>0, <2>1, <3>1 DEF Tls!OwnCertificate
  <2>8. QED  BY <2>3, <2>4, <2>5, <2>6, <2>7 DEF Tls!InductiveInvariant
<1>8. ASSUME NEW p \in Port, Tls!StopServer(p) PROVE Tls!InductiveInvariant'
  <2>1. /\ ~Tls!Makes(Io) /\ UNCHANGED <<making, dead>>
        /\ keys' \in [Port -> Key \cup {None}] /\ keys'[p] = None
        /\ \A q \in Tls!Ports : q # p /\ q # 0 => keys'[q] = keys[q]
        /\ contexts'[p] = <<>> /\ \A q \in Tls!Ports : q # p => contexts'[q] = contexts[q]
    BY <1>0, <1>a, <1>8 DEF Tls!StopServer, Tls!Release, Tls!Makes, Tls!Idle, Tls!Ports
  <2>2. contexts' \in [Tls!Ports -> Seq(Tls!Context)]
    <3>1. <<>> \in Seq(Tls!Context)  OBVIOUS
    <3>2. QED  BY <1>a, <1>8, <3>1 DEF Tls!StopServer, Tls!Release
  <2>3. \A c \in Conn :
          \/ conns'[c] = conns[c] /\ (conns[c].port # p \/ conns[c].phase = "new")
          \/ conns'[c] = [conns[c] EXCEPT !.phase = "destroyed"] /\ conns[c].phase # "new"
    BY <1>8 DEF Tls!StopServer
  <2>4. Tls!TypeOK'
    <3>1. conns' \in [Conn -> [port : Tls!Ports \cup {None}, context : Tls!Context \cup {None},
                               phase : {"new", "constructed", "session", "destroyed"}]]
      <4>1. /\ conns \in [Conn -> ConnRow(Tls!Ports \cup {None}, Tls!Context \cup {None})]
            /\ DOMAIN conns' = Conn /\ conns' = [c \in Conn |-> conns'[c]]
        BY <1>0, <1>8 DEF Tls!StopServer, Tls!TypeOK, ConnRow
      <4>2. \A c \in Conn : conns'[c] \in ConnRow(Tls!Ports \cup {None}, Tls!Context \cup {None})
        <5> SUFFICES ASSUME NEW c \in Conn
                     PROVE  conns'[c] \in ConnRow(Tls!Ports \cup {None}, Tls!Context \cup {None})
          OBVIOUS
        <5>1. conns[c] \in ConnRow(Tls!Ports \cup {None}, Tls!Context \cup {None})  BY <4>1
        <5>2. [conns[c] EXCEPT !.phase = "destroyed"]
              \in ConnRow(Tls!Ports \cup {None}, Tls!Context \cup {None})
          BY <5>1 DEF ConnRow
        <5>3. QED  BY <2>3, <5>1, <5>2
      <4>3. QED  BY <4>1, <4>2 DEF ConnRow
    <3>2. QED  BY <1>a, <2>1, <2>2, <3>1 DEF Tls!TypeOK
  <2>5. Tls!MakingNew'
    <3>1. \A u \in Thread : Tls!Makes(u)' <=> Tls!Makes(u)  BY <2>1 DEF Tls!Makes
    <3>2. ASSUME NEW u \in Thread, Tls!Makes(u)
          PROVE  LET d == conns'[making[u].conn] IN
                   /\ d.phase = "new" /\ d.port \in Tls!Ports
                   /\ d.port # 0 => u = Io /\ keys'[d.port] # None
      <4>1. making[u].conn \in Conn /\ conns[making[u].conn].phase = "new"
        BY <1>0, <3>2 DEF Tls!MakingNew, Tls!TypeOK
      <4>2. conns'[making[u].conn] = conns[making[u].conn]  BY <2>3, <4>1
      <4>3. conns[making[u].conn].port = 0 /\ conns[making[u].conn].port \in Tls!Ports
        BY <1>0, <2>1, <3>2 DEF Tls!MakingNew
      <4>4. QED  BY <4>1, <4>2, <4>3
    <3>3. QED  BY <1>0, <2>1, <3>1, <3>2 DEF Tls!MakingNew
  <2>6. Tls!OfTheServer'
    <3>1. \A x : x \notin Tls!Range(contexts'[p])  BY <2>1 DEF Tls!Range
    <3>2. QED  BY <1>0, <2>1, <3>1 DEF Tls!OfTheServer, Tls!Ports
  <2>7. \A c \in Conn : conns'[c].phase \in {"constructed", "session"} =>
          conns'[c] = conns[c] /\ conns[c].port # p
    <3>1. \A c \in Conn : [conns[c] EXCEPT !.phase = "destroyed"].phase = "destroyed"
      BY <1>0 DEF Tls!TypeOK
    <3>2. QED  BY <2>3, <3>1
  <2>8. Tls!Pointing'
    <3>1. ASSUME NEW c \in Conn, conns'[c].phase \in {"constructed", "session"}
          PROVE  /\ conns'[c].port \in Tls!Ports
                 /\ conns'[c].port # 0 => keys'[conns'[c].port] # None
                 /\ conns'[c].phase = "constructed" =>
                      conns'[c].context \in Tls!Range(contexts'[conns'[c].port])
      BY <1>0, <2>1, <2>7, <3>1 DEF Tls!Pointing
    <3>2. QED  BY <3>1 DEF Tls!Pointing
  <2>9. Tls!OwnCertificate'
    <3>1. ASSUME NEW c \in Conn, conns'[c].phase \in {"constructed", "session"}, conns'[c].port # 0
          PROVE  /\ conns'[c].context.port = conns'[c].port
                 /\ conns'[c].context.key = keys'[conns'[c].port]
      BY <1>0, <2>1, <2>7, <3>1 DEF Tls!OwnCertificate, Tls!Pointing
    <3>2. QED  BY <3>1 DEF Tls!OwnCertificate
  <2>10. QED  BY <2>4, <2>5, <2>6, <2>8, <2>9 DEF Tls!InductiveInvariant
<1>9. QED
  BY <1>1, <1>2, <1>3, <1>4, <1>5, <1>6, <1>7, <1>8 DEF Tls!Next

-----------------------------------------------------------------------------
(* SocketListener.                                                           *)

\* The inductive invariant of SocketListener, of any tables.
Owns(s) ==
  /\ \A c \in Listener!Conn : s.sfd[c] # None => s.open[s.sfd[c]] = c /\ s.life[c] = "alive"
  /\ \A f \in Fd : s.open[f] \in Listener!Conn => s.sfd[s.open[f]] = f
  /\ \A f \in Fd : s.open[f] \notin Listener!Conn \cup {None} => s.open[f] = s.server
InMap(s) ==
  \A f \in Fd : s.connections[f] # None =>
    /\ s.fds[f] # None /\ s.server # None /\ s.life[s.connections[f]] = "alive"
    /\ s.sfd[s.connections[f]] \in {f, None}
    /\ \A g \in Fd : s.connections[g] = s.connections[f] => g = f
Calls(s) ==
  \A f \in Fd : s.open[f] # None =>
    s.fds[f] # None /\ s.fds[f].calls = s.open[f] /\ ~s.fds[f].marked
Serves(s) ==
  /\ \A c \in Accepted : s.sfd[c] # None => s.connections[s.sfd[c]] = c
  /\ s.cut = {}
Sound(s) == s \in Listener!Tables /\ Owns(s) /\ InMap(s) /\ Calls(s) /\ Serves(s)

\* The inductive invariant by these names.
LEMMA ListenerSound ==
  /\ Listener!InductiveInvariant <=>
       Sound(sockets) /\ servers \in Nat /\ batch \subseteq Fd /\ pc \in {"idle", "visit"}
  /\ Listener!InductiveInvariant' <=>
       Sound(sockets') /\ servers' \in Nat /\ batch' \subseteq Fd /\ pc' \in {"idle", "visit"}
BY DEF Listener!InductiveInvariant, Listener!TypeOK, Listener!Remembered, Listener!Mapped,
  Listener!CallsItsOwner, Listener!ServedAreKept, Sound, Owns, InMap, Calls, Serves

\* What the assumption says of descriptors and connections.
LEMMA ListenerConstants ==
  ASSUME ConnectionsAssumption
  PROVE  /\ Fd \subseteq Nat /\ MaxServers \in Nat
         /\ Listener!Conn = Accepted \cup Client /\ Accepted \cap Client = {}
         /\ None \notin Listener!Conn /\ None \notin Nat /\ None \notin Listener!Entry
         /\ None \notin Accepted /\ None \notin Fd
         /\ \A c \in Listener!Conn : c \notin Nat
BY DEF ConnectionsAssumption, Listener!ListenerAssumption, Listener!Entry, Listener!Conn

\* The fields of tables.
LEMMA ListenerTables ==
  ASSUME NEW s \in Listener!Tables
  PROVE  /\ s.open \in [Fd -> Listener!Conn \cup Nat \cup {None}]
         /\ s.fds \in [Fd -> Listener!Entry \cup {None}]
         /\ s.connections \in [Fd -> Accepted \cup {None}]
         /\ s.sfd \in [Listener!Conn -> Fd \cup {None}]
         /\ s.life \in [Listener!Conn -> {"new", "alive", "destroyed"}]
         /\ s.server \in Nat \cup {None} /\ s.cut \subseteq Listener!Conn
         /\ s = [open |-> s.open, fds |-> s.fds, connections |-> s.connections, sfd |-> s.sfd,
                 life |-> s.life, server |-> s.server, cut |-> s.cut]
BY DEF Listener!Tables

\* close() of a connection that has a descriptor.
LEMMA ListenerClose ==
  ASSUME ConnectionsAssumption, NEW s \in Listener!Tables, NEW c \in Listener!Conn,
         NEW f \in Fd, s.sfd[c] = f, s.fds[f] # None
  PROVE  LET t == Listener!Close(s, c) IN
         /\ t \in Listener!Tables
         /\ t.fds = [s.fds EXCEPT ![f] = [s.fds[f] EXCEPT !.marked = TRUE]]
         /\ t.open = [s.open EXCEPT ![f] = None] /\ t.sfd = [s.sfd EXCEPT ![c] = None]
         /\ t.connections = s.connections /\ t.life = s.life /\ t.server = s.server
         /\ t.cut = s.cut
<1> DEFINE t == Listener!Close(s, c)
<1>def. t = Listener!Close(s, c)  OBVIOUS
<1> HIDE DEF t
<1>1. None \notin Fd  BY ListenerConstants
<1> DEFINE e == [s.fds[f] EXCEPT !.marked = TRUE]
<1>2. t = [s EXCEPT !.fds[f] = e, !.open[f] = None, !.sfd[c] = None]
  BY <1>1, <1>def DEF Listener!Close
<1>3. e \in Listener!Entry
  <2>1. s.fds[f] \in Listener!Entry  BY ListenerTables
  <2>2. QED  BY <2>1 DEF Listener!Entry
<1> HIDE DEF e
<1>4. t = [open |-> [s.open EXCEPT ![f] = None], fds |-> [s.fds EXCEPT ![f] = e],
           connections |-> s.connections, sfd |-> [s.sfd EXCEPT ![c] = None],
           life |-> s.life, server |-> s.server, cut |-> s.cut]
  BY <1>2 DEF Listener!Tables
<1>5. t \in Listener!Tables
  BY <1>3, <1>4, ListenerTables DEF Listener!Tables
<1>6. QED  BY <1>4, <1>5 DEF e, t

\* What on_socket_close and register_socket() make of tables.
Erased(s, t, f) ==
  /\ t \in Listener!Tables
  /\ t.fds = s.fds /\ t.open = s.open /\ t.sfd = s.sfd
  /\ t.server = s.server /\ t.cut = s.cut
  /\ t.connections = [s.connections EXCEPT ![f] = None]
  /\ \A c \in Listener!Conn :
       t.life[c] = IF c = s.connections[f] THEN "destroyed" ELSE s.life[c]
Registered(s, t, f, owner) ==
  /\ t \in Listener!Tables
  /\ t.fds = [s.fds EXCEPT ![f] = [calls |-> owner, marked |-> FALSE]]
  /\ t.open = s.open /\ t.sfd = s.sfd /\ t.server = s.server /\ t.cut = s.cut
  /\ t.connections = [s.connections EXCEPT ![f] = None]
  /\ \A c \in Listener!Conn :
       t.life[c] = IF c = s.connections[f] THEN "destroyed" ELSE s.life[c]
\* No open connection is in the map under f.
Shut(s, f) ==
  s.connections[f] # None =>
    s.fds[f] # None /\ s.server # None /\ s.sfd[s.connections[f]] = None
\* The new connection c has the descriptor f, and the map has kept under it.
Entered(s, t, f, c, kept) ==
  /\ t \in Listener!Tables
  /\ t.fds = [s.fds EXCEPT ![f] = [calls |-> c, marked |-> FALSE]]
  /\ t.open = [s.open EXCEPT ![f] = c] /\ t.sfd = [s.sfd EXCEPT ![c] = f]
  /\ t.connections = [s.connections EXCEPT ![f] = kept]
  /\ t.server = s.server /\ t.cut = s.cut
  /\ \A d \in Listener!Conn :
       t.life[d] = IF d = s.connections[f] THEN "destroyed"
                   ELSE IF d = c THEN "alive" ELSE s.life[d]

\* The handler of on_socket_close for a descriptor that no open connection has.
LEMMA ListenerErase ==
  ASSUME ConnectionsAssumption, NEW s \in Listener!Tables, NEW f \in Fd, Shut(s, f)
  PROVE  Erased(s, Listener!OnSocketClose(s, f), f)
<1> DEFINE t == Listener!OnSocketClose(s, f)
<1>def. t = Listener!OnSocketClose(s, f)  OBVIOUS
<1> HIDE DEF t
<1> DEFINE d == s.connections[f]
<1>1. None \notin Listener!Conn /\ Accepted \subseteq Listener!Conn  BY ListenerConstants
<1>s. s.connections[f] # None => s.server # None /\ s.sfd[s.connections[f]] = None
  BY DEF Shut
<1>2. CASE d = None
  <2>1. t = s  BY <1>2, <1>def DEF Listener!OnSocketClose
  <2>2. s.connections = [s.connections EXCEPT ![f] = None]  BY <1>2, ListenerTables
  <2>3. QED  BY <1>1, <1>2, <2>1, <2>2 DEF t, Erased
<1>3. CASE d # None
  <2>1. d \in Listener!Conn /\ s.server # None /\ s.sfd[d] = None
    BY <1>1, <1>3, <1>s, ListenerTables
  <2>2. Listener!Destroy(s, d) = [s EXCEPT !.life[d] = "destroyed"]
    BY <2>1 DEF Listener!Destroy, Listener!Close
  <2>3. t = [[s EXCEPT !.life[d] = "destroyed"] EXCEPT !.connections[f] = None, !.cut = s.cut]
    BY <1>3, <1>def, <2>1, <2>2 DEF Listener!OnSocketClose, Listener!Tables
  <2> HIDE DEF d
  <2>4. t = [open |-> s.open, fds |-> s.fds, connections |-> [s.connections EXCEPT ![f] = None],
             sfd |-> s.sfd, life |-> [s.life EXCEPT ![d] = "destroyed"], server |-> s.server,
             cut |-> s.cut]
    BY <2>3 DEF Listener!Tables
  <2>5. t \in Listener!Tables
    BY <2>1, <2>4, ListenerTables DEF Listener!Tables
  <2>6. QED  BY <2>1, <2>4, <2>5, ListenerTables DEF d, t, Erased
<1>4. QED  BY <1>2, <1>3 DEF t

\* An entry that is removed when its descriptor is closed.
LEMMA ListenerRemove ==
  ASSUME ConnectionsAssumption, NEW s, Sound(s), NEW f \in Fd, s.open[f] = None
  PROVE  Sound([Listener!OnSocketClose(s, f) EXCEPT !.fds[f] = None])
<1> DEFINE u == Listener!OnSocketClose(s, f)
           t == [u EXCEPT !.fds[f] = None]
<1>0. None \notin Listener!Conn /\ Accepted \subseteq Listener!Conn /\ None \notin Fd
  BY ListenerConstants
<1>1. s \in Listener!Tables /\ Owns(s) /\ InMap(s) /\ Calls(s) /\ Serves(s)  BY DEF Sound
<1>2. s.connections[f] # None =>
        s.fds[f] # None /\ s.server # None /\ s.sfd[s.connections[f]] = None
  BY <1>0, <1>1, ListenerTables DEF InMap, Owns
<1>s. Shut(s, f)  BY <1>2 DEF Shut
<1>3. /\ u \in Listener!Tables
      /\ u.fds = s.fds /\ u.open = s.open /\ u.sfd = s.sfd
      /\ u.server = s.server /\ u.cut = s.cut
      /\ u.connections = [s.connections EXCEPT ![f] = None]
      /\ \A c \in Listener!Conn :
           u.life[c] = IF c = s.connections[f] THEN "destroyed" ELSE s.life[c]
  <2>1. Erased(s, u, f)  BY <1>1, <1>s, ListenerErase
  <2>2. QED  BY <2>1 DEF Erased
<1> HIDE DEF u
<1>4. /\ t \in Listener!Tables
      /\ t.fds = [s.fds EXCEPT ![f] = None] /\ t.open = s.open /\ t.sfd = s.sfd
      /\ t.server = s.server /\ t.cut = s.cut
      /\ t.connections = [s.connections EXCEPT ![f] = None] /\ t.life = u.life
  <2>1. t = [open |-> u.open, fds |-> [u.fds EXCEPT ![f] = None], connections |-> u.connections,
             sfd |-> u.sfd, life |-> u.life, server |-> u.server, cut |-> u.cut]
    BY <1>3 DEF Listener!Tables
  <2> HIDE DEF t
  <2>2. t \in Listener!Tables  BY <1>3, <2>1, ListenerTables DEF Listener!Tables
  <2>3. QED  BY <1>3, <2>1, <2>2
<1> HIDE DEF t
<1>5. /\ t.connections[f] = None /\ \A g \in Fd : g # f => t.connections[g] = s.connections[g]
      /\ \A g \in Fd : g # f => t.fds[g] = s.fds[g]
      /\ \A g \in Fd : g # f /\ s.connections[g] # None =>
           t.life[s.connections[g]] = s.life[s.connections[g]]
  <2>1. \A g \in Fd : g # f /\ s.connections[g] # None =>
          s.connections[g] \in Listener!Conn /\ s.connections[g] # s.connections[f]
    BY <1>0, <1>1, ListenerTables DEF InMap
  <2>2. QED  BY <1>1, <1>3, <1>4, <2>1, ListenerTables
<1>6. Owns(t)
  <2>1. \A c \in Listener!Conn : s.sfd[c] # None => c # s.connections[f]
    BY <1>0, <1>1, <1>2, ListenerTables
  <2>2. QED  BY <1>1, <1>3, <1>4, <2>1 DEF Owns
<1>7. InMap(t)  BY <1>1, <1>4, <1>5 DEF InMap
<1>8. Calls(t)  BY <1>1, <1>4, <1>5 DEF Calls
<1>9. Serves(t)
  <2>1. \A c \in Accepted : s.sfd[c] # None => s.sfd[c] \in Fd /\ s.sfd[c] # f
    BY <1>0, <1>1, ListenerTables DEF Owns
  <2>2. QED  BY <1>1, <1>4, <1>5, <2>1 DEF Serves
<1>10. QED  BY <1>4, <1>6, <1>7, <1>8, <1>9 DEF Sound, t, u

\* close() of a connection.
LEMMA ListenerCloses ==
  ASSUME ConnectionsAssumption, NEW s, Sound(s), NEW c \in Listener!Conn
  PROVE  /\ Sound(Listener!Close(s, c)) /\ Listener!Close(s, c).sfd[c] = None
         /\ Listener!Close(s, c).connections = s.connections
         /\ s.sfd[c] # None => Listener!Close(s, c).open[s.sfd[c]] = None
<1>0. None \notin Listener!Conn /\ Accepted \subseteq Listener!Conn /\ None \notin Fd
      /\ None \notin Listener!Entry
  BY ListenerConstants
<1>1. s \in Listener!Tables /\ Owns(s) /\ InMap(s) /\ Calls(s) /\ Serves(s)  BY DEF Sound
<1> DEFINE t == Listener!Close(s, c)
           f == s.sfd[c]
<1>2. CASE f = None
  <2>1. t = s  BY <1>2 DEF Listener!Close
  <2>2. QED  BY <1>2, <2>1
<1>3. CASE f # None
  <2>1. f \in Fd /\ s.open[f] = c /\ s.fds[f] # None
    BY <1>0, <1>1, <1>3, ListenerTables DEF Owns, Calls
  <2>2. /\ t \in Listener!Tables
        /\ t.fds = [s.fds EXCEPT ![f] = [s.fds[f] EXCEPT !.marked = TRUE]]
        /\ t.open = [s.open EXCEPT ![f] = None] /\ t.sfd = [s.sfd EXCEPT ![c] = None]
        /\ t.connections = s.connections /\ t.life = s.life /\ t.server = s.server
        /\ t.cut = s.cut
    BY <1>1, <2>1, ListenerClose
  <2>3. [s.fds[f] EXCEPT !.marked = TRUE] # None
    <3>1. s.fds[f] \in Listener!Entry  BY <1>1, <2>1, ListenerTables
    <3>2. [s.fds[f] EXCEPT !.marked = TRUE] \in Listener!Entry  BY <3>1 DEF Listener!Entry
    <3>3. QED  BY <1>0, <3>2
  <2>f. s.sfd[c] = f  OBVIOUS
  <2> HIDE DEF t, f
  <2>4. /\ t.open[f] = None /\ \A g \in Fd : g # f => t.open[g] = s.open[g] /\ t.fds[g] = s.fds[g]
        /\ t.fds[f] # None
        /\ t.sfd[c] = None /\ \A d \in Listener!Conn : d # c => t.sfd[d] = s.sfd[d]
    BY <1>1, <2>1, <2>2, <2>3, ListenerTables
  <2>5. \A d \in Listener!Conn : d # c => s.sfd[d] # f
    BY <1>0, <1>1, <2>1 DEF Owns
  <2>6. Owns(t)
    <3>1. \A d \in Listener!Conn : s.sfd[d] # None => s.sfd[d] \in Fd
      BY <1>1, ListenerTables
    <3>2. QED  BY <1>0, <1>1, <2>1, <2>2, <2>4, <2>5, <3>1 DEF Owns
  <2>7. InMap(t)
    <3>1. \A g \in Fd : s.connections[g] # None => s.connections[g] \in Listener!Conn
      BY <1>0, <1>1, ListenerTables
    <3>2. QED  BY <1>1, <2>2, <2>4, <3>1 DEF InMap
  <2>8. Calls(t)  BY <1>1, <2>4 DEF Calls
  <2>9. Serves(t)  BY <1>0, <1>1, <2>2, <2>4 DEF Serves
  <2>10. QED  BY <2>1, <2>2, <2>4, <2>6, <2>7, <2>8, <2>9 DEF Sound, t, f
<1>4. QED  BY <1>2, <1>3

\* The end of a visit.
LEMMA ListenerRemoved ==
  ASSUME ConnectionsAssumption, NEW s, Sound(s), NEW f \in Fd
  PROVE  Sound(Listener!Removed(s, f))
<1>1. CASE Listener!Marked(s, f)
  <2>1. s.open[f] = None  BY <1>1 DEF Listener!Marked, Sound, Calls
  <2>2. QED  BY <1>1, <2>1, ListenerRemove DEF Listener!Removed
<1>2. CASE ~Listener!Marked(s, f)  BY <1>2 DEF Listener!Removed
<1>3. QED  BY <1>1, <1>2

\* A descriptor that is closed is the one the operating system gives.
LEMMA ListenerLowest ==
  ASSUME ConnectionsAssumption, NEW s \in Listener!Tables, ~Listener!Full(s)
  PROVE  Listener!Lowest(s) \in Fd /\ s.open[Listener!Lowest(s)] = None
<1> DEFINE Free == {f \in Fd : s.open[f] = None}
<1>1. Free \subseteq Nat /\ Free # {}  BY ListenerConstants DEF Listener!Full
<1>2. \E m \in Free : \A k \in Free : m <= k
  <2> HIDE DEF Free
  <2>1. QED  BY <1>1, Smallest
<1>3. Listener!Lowest(s) = CHOOSE m \in Free : \A k \in Free : m <= k
  BY DEF Listener!Lowest, Listener!Min
<1>4. Listener!Lowest(s) \in Free
  <2> HIDE DEF Free
  <2>1. QED  BY <1>2, <1>3
<1>5. QED  BY <1>4

\* register_socket() for a descriptor that was closed.
LEMMA ListenerRegister ==
  ASSUME ConnectionsAssumption, NEW s \in Listener!Tables, NEW f \in Fd,
         NEW owner \in Listener!Conn \cup Nat, Shut(s, f)
  PROVE  Registered(s, Listener!Register(s, f, owner), f, owner)
<1> DEFINE t == Listener!Register(s, f, owner)
<1>def. t = Listener!Register(s, f, owner)  OBVIOUS
<1> HIDE DEF t
<1> DEFINE u == IF s.fds[f] = None THEN s ELSE Listener!OnSocketClose(s, f)
           e == [calls |-> owner, marked |-> FALSE]
<1>1. Erased(s, u, f)
  <2>1. CASE s.fds[f] = None
    <3>1. s.connections[f] = None /\ u = s  BY <2>1 DEF Shut
    <3>2. s.connections = [s.connections EXCEPT ![f] = None]  BY <3>1, ListenerTables
    <3>3. \A c \in Listener!Conn : c # s.connections[f]  BY <3>1, ListenerConstants
    <3>4. QED  BY <3>1, <3>2, <3>3 DEF Erased
  <2>2. CASE s.fds[f] # None
    <3>1. u = Listener!OnSocketClose(s, f)  BY <2>2
    <3>2. Erased(s, Listener!OnSocketClose(s, f), f)  BY ListenerErase
    <3>3. QED  BY <3>1, <3>2
  <2>3. QED  BY <2>1, <2>2
<1>2. t = [u EXCEPT !.fds[f] = e]  BY <1>def DEF Listener!Register
<1>3. e \in Listener!Entry  BY DEF Listener!Entry
<1> HIDE DEF u, e
<1>u. u \in Listener!Tables  BY <1>1 DEF Erased
<1>4. t = [open |-> u.open, fds |-> [u.fds EXCEPT ![f] = e], connections |-> u.connections,
           sfd |-> u.sfd, life |-> u.life, server |-> u.server, cut |-> u.cut]
  BY <1>u, <1>2 DEF Listener!Tables
<1>5. t \in Listener!Tables  BY <1>u, <1>3, <1>4, ListenerTables DEF Listener!Tables
<1>6. QED  BY <1>1, <1>4, <1>5 DEF e, t, Erased, Registered

\* A connection that is new has the descriptor f, which was closed, and the map has it if a
\* server accepted it.
LEMMA ListenerEntered ==
  ASSUME ConnectionsAssumption, NEW s, Sound(s), NEW c \in Listener!Conn, s.life[c] = "new",
         NEW f \in Fd, s.open[f] = None, c \in Accepted => s.server # None,
         NEW t, NEW kept, Entered(s, t, f, c, kept), kept = IF c \in Accepted THEN c ELSE None
  PROVE  Sound(t)
<1>e. /\ t \in Listener!Tables
      /\ t.fds = [s.fds EXCEPT ![f] = [calls |-> c, marked |-> FALSE]]
      /\ t.open = [s.open EXCEPT ![f] = c] /\ t.sfd = [s.sfd EXCEPT ![c] = f]
      /\ t.connections = [s.connections EXCEPT ![f] = IF c \in Accepted THEN c ELSE None]
      /\ t.server = s.server /\ t.cut = s.cut
      /\ \A d \in Listener!Conn :
           t.life[d] = IF d = s.connections[f] THEN "destroyed"
                       ELSE IF d = c THEN "alive" ELSE s.life[d]
  BY DEF Entered
<1>0. None \notin Listener!Conn /\ Accepted \subseteq Listener!Conn /\ None \notin Fd
      /\ None \notin Listener!Entry
  BY ListenerConstants
<1>1. s \in Listener!Tables /\ Owns(s) /\ InMap(s) /\ Calls(s) /\ Serves(s)  BY DEF Sound
<1>2. s.sfd[c] = None /\ \A g \in Fd : s.connections[g] # c  BY <1>0, <1>1 DEF Owns, InMap
<1>3. s.connections[f] # None => s.sfd[s.connections[f]] = None
  BY <1>0, <1>1, ListenerTables DEF InMap, Owns
<1>4. /\ t.open[f] = c /\ t.sfd[c] = f /\ t.fds[f] = [calls |-> c, marked |-> FALSE]
      /\ t.connections[f] = IF c \in Accepted THEN c ELSE None
      /\ \A g \in Fd : g # f => t.open[g] = s.open[g] /\ t.fds[g] = s.fds[g]
                                /\ t.connections[g] = s.connections[g]
      /\ \A d \in Listener!Conn : d # c => t.sfd[d] = s.sfd[d]
      /\ t.life[c] = "alive"
  BY <1>1, <1>2, <1>e, ListenerTables
<1>5. t.fds[f] # None
  <2>1. [calls |-> c, marked |-> FALSE] \in Listener!Entry  BY DEF Listener!Entry
  <2>2. t.fds[f] = [calls |-> c, marked |-> FALSE]  BY <1>4
  <2>3. [calls |-> c, marked |-> FALSE] # None  BY <1>0, <2>1
  <2>4. QED  BY <2>2, <2>3
<1>6. \A d \in Listener!Conn : d # c /\ s.sfd[d] # None =>
        s.sfd[d] \in Fd /\ s.sfd[d] # f /\ d # s.connections[f]
  BY <1>0, <1>1, <1>3, ListenerTables DEF Owns
<1>7. Owns(t)
  <2>1. \A d \in Listener!Conn : t.sfd[d] # None => t.open[t.sfd[d]] = d /\ t.life[d] = "alive"
    BY <1>e, <1>1, <1>4, <1>6 DEF Owns
  <2>2. \A g \in Fd : t.open[g] \in Listener!Conn => t.sfd[t.open[g]] = g
    BY <1>e, <1>0, <1>1, <1>2, <1>4 DEF Owns
  <2>3. \A g \in Fd : t.open[g] \notin Listener!Conn \cup {None} => t.open[g] = t.server
    BY <1>e, <1>1, <1>4 DEF Owns
  <2>4. QED  BY <2>1, <2>2, <2>3 DEF Owns
<1>8. InMap(t)
  <2>1. \A g \in Fd : g # f /\ s.connections[g] # None =>
          s.connections[g] \in Listener!Conn /\ s.connections[g] # c
          /\ s.connections[g] # s.connections[f]
    BY <1>e, <1>0, <1>1, <1>2, ListenerTables DEF InMap
  <2>2. QED  BY <1>e, <1>0, <1>1, <1>4, <1>5, <2>1 DEF InMap
<1>9. Calls(t)  BY <1>e, <1>1, <1>4, <1>5 DEF Calls
<1>10. Serves(t)
  <2>1. \A d \in Accepted : d # c /\ s.sfd[d] # None => t.connections[t.sfd[d]] = d
    BY <1>e, <1>0, <1>1, <1>4, <1>6 DEF Serves
  <2>2. QED  BY <1>e, <1>0, <1>1, <1>4, <2>1 DEF Serves
<1>11. QED  BY <1>e, <1>7, <1>8, <1>9, <1>10 DEF Sound

\* The tables once a new connection is registered.
LEMMA ListenerOpened ==
  ASSUME ConnectionsAssumption, NEW s, Sound(s), NEW c \in Listener!Conn, s.life[c] = "new",
         NEW f \in Fd, s.open[f] = None
  PROVE  Entered(s, Listener!Register(Listener!Opened(s, f, c), f, c), f, c, None)
<1> DEFINE t == Listener!Register(Listener!Opened(s, f, c), f, c)
<1>def. t = Listener!Register(Listener!Opened(s, f, c), f, c)  OBVIOUS
<1> HIDE DEF t
<1>0. None \notin Listener!Conn /\ Accepted \subseteq Listener!Conn /\ None \notin Fd
  BY ListenerConstants
<1>1. s \in Listener!Tables /\ Owns(s) /\ InMap(s)  BY DEF Sound
<1> DEFINE u == Listener!Opened(s, f, c)
<1>a. u = [s EXCEPT !.open[f] = c, !.sfd[c] = f, !.life[c] = "alive"]  BY DEF Listener!Opened
<1>t. t = Listener!Register(u, f, c)  BY <1>def
<1> HIDE DEF u
<1>2. u = [open |-> [s.open EXCEPT ![f] = c], fds |-> s.fds, connections |-> s.connections,
           sfd |-> [s.sfd EXCEPT ![c] = f], life |-> [s.life EXCEPT ![c] = "alive"],
           server |-> s.server, cut |-> s.cut]
  BY <1>1, <1>a DEF Listener!Tables
<1>3. u \in Listener!Tables  BY <1>1, <1>2, ListenerTables DEF Listener!Tables
<1>4. s.connections[f] # None => s.fds[f] # None /\ s.server # None
        /\ s.sfd[s.connections[f]] = None /\ s.connections[f] # c
        /\ s.connections[f] \in Listener!Conn
  BY <1>0, <1>1, ListenerTables DEF InMap, Owns
<1>5. u.connections[f] # None =>
        u.fds[f] # None /\ u.server # None /\ u.sfd[u.connections[f]] = None
  BY <1>1, <1>2, <1>4, ListenerTables
<1>s. Shut(u, f)  BY <1>5 DEF Shut
<1>6. /\ t \in Listener!Tables
      /\ t.fds = [u.fds EXCEPT ![f] = [calls |-> c, marked |-> FALSE]]
      /\ t.open = u.open /\ t.sfd = u.sfd /\ t.server = u.server /\ t.cut = u.cut
      /\ t.connections = [u.connections EXCEPT ![f] = None]
      /\ \A d \in Listener!Conn :
           t.life[d] = IF d = u.connections[f] THEN "destroyed" ELSE u.life[d]
  <2>1. c \in Listener!Conn \cup Nat  OBVIOUS
  <2>2. Registered(u, Listener!Register(u, f, c), f, c)  BY <1>3, <1>s, <2>1, ListenerRegister
  <2>3. QED  BY <1>t, <2>2 DEF Registered
<1>7. /\ t.fds = [s.fds EXCEPT ![f] = [calls |-> c, marked |-> FALSE]]
      /\ t.open = [s.open EXCEPT ![f] = c] /\ t.sfd = [s.sfd EXCEPT ![c] = f]
      /\ t.connections = [s.connections EXCEPT ![f] = None]
      /\ t.server = s.server /\ t.cut = s.cut
  BY <1>2, <1>6
<1>8. \A d \in Listener!Conn :
        t.life[d] = IF d = s.connections[f] THEN "destroyed"
                    ELSE IF d = c THEN "alive" ELSE s.life[d]
  BY <1>1, <1>2, <1>6, ListenerTables
<1>9. QED  BY <1>6, <1>7, <1>8 DEF u, t, Entered

\* accept() and its connection.
LEMMA ListenerAccept ==
  ASSUME ConnectionsAssumption, NEW s, Sound(s), NEW c \in Accepted, s.life[c] = "new",
         s.server # None, ~Listener!Full(s)
  PROVE  Sound(Listener!Accept(s, c))
<1> DEFINE f == Listener!Lowest(s)
           u == Listener!Register(Listener!Opened(s, f, c), f, c)
<1>1. f \in Fd /\ s.open[f] = None /\ s \in Listener!Tables  BY ListenerLowest DEF Sound
<1>2. c \in Listener!Conn  BY ListenerConstants
<1> HIDE DEF f
<1>3. /\ u \in Listener!Tables
      /\ u.fds = [s.fds EXCEPT ![f] = [calls |-> c, marked |-> FALSE]]
      /\ u.open = [s.open EXCEPT ![f] = c] /\ u.sfd = [s.sfd EXCEPT ![c] = f]
      /\ u.connections = [s.connections EXCEPT ![f] = None]
      /\ u.server = s.server /\ u.cut = s.cut
      /\ \A d \in Listener!Conn :
           u.life[d] = IF d = s.connections[f] THEN "destroyed"
                       ELSE IF d = c THEN "alive" ELSE s.life[d]
  BY <1>1, <1>2, ListenerOpened DEF Entered
<1>4. Listener!Accept(s, c) = Listener!Emplace(u, f, c)  BY DEF Listener!Accept, f
<1> HIDE DEF u
<1>5. u.connections[f] = None  BY <1>1, <1>3, ListenerTables
<1> DEFINE t == [u EXCEPT !.connections[f] = c]
<1>6. Listener!Accept(s, c) = t  BY <1>4, <1>5 DEF Listener!Emplace
<1>a. t = [u EXCEPT !.connections[f] = c]  OBVIOUS
<1> HIDE DEF t
<1>7. t = [open |-> u.open, fds |-> u.fds, connections |-> [u.connections EXCEPT ![f] = c],
           sfd |-> u.sfd, life |-> u.life, server |-> u.server, cut |-> u.cut]
  BY <1>3, <1>a DEF Listener!Tables
<1>8. t \in Listener!Tables  BY <1>3, <1>7, ListenerTables DEF Listener!Tables
<1>9. t.connections = [s.connections EXCEPT ![f] = IF c \in Accepted THEN c ELSE None]
  BY <1>1, <1>3, <1>7, ListenerTables
<1>10. /\ t.fds = u.fds /\ t.open = u.open /\ t.sfd = u.sfd /\ t.server = u.server
       /\ t.cut = u.cut /\ t.life = u.life
  BY <1>7
<1>b. /\ t.fds = [s.fds EXCEPT ![f] = [calls |-> c, marked |-> FALSE]]
      /\ t.open = [s.open EXCEPT ![f] = c] /\ t.sfd = [s.sfd EXCEPT ![c] = f]
      /\ t.server = s.server /\ t.cut = s.cut
      /\ \A d \in Listener!Conn :
           t.life[d] = IF d = s.connections[f] THEN "destroyed"
                       ELSE IF d = c THEN "alive" ELSE s.life[d]
  BY <1>3, <1>10
<1>c. Entered(s, t, f, c, c)
  <2>1. t.connections = [s.connections EXCEPT ![f] = c]  BY <1>9
  <2>2. QED  BY <1>8, <1>b, <2>1 DEF Entered
<1>11. Sound(t)
  <2>1. c = IF c \in Accepted THEN c ELSE None  OBVIOUS
  <2>2. QED  BY <1>1, <1>2, <1>c, <2>1, ListenerEntered
<1>12. QED  BY <1>6, <1>11

\* An https_client that is new.
LEMMA ListenerNewClient ==
  ASSUME ConnectionsAssumption, NEW s, Sound(s), NEW c \in Client, s.life[c] = "new",
         ~Listener!Full(s)
  PROVE  LET f == Listener!Lowest(s) IN
         Sound(Listener!Register(Listener!Opened(s, f, c), f, c))
<1> DEFINE f == Listener!Lowest(s)
<1>1. f \in Fd /\ s.open[f] = None /\ s \in Listener!Tables  BY ListenerLowest DEF Sound
<1>2. c \in Listener!Conn /\ c \notin Accepted  BY ListenerConstants
<1> HIDE DEF f
<1>3. Entered(s, Listener!Register(Listener!Opened(s, f, c), f, c), f, c, None)
  BY <1>1, <1>2, ListenerOpened
<1>4. None = IF c \in Accepted THEN c ELSE None  BY <1>2
<1>5. c \in Accepted => s.server # None  BY <1>2
<1>6. Sound(Listener!Register(Listener!Opened(s, f, c), f, c))
  BY <1>1, <1>2, <1>3, <1>4, <1>5, ListenerEntered
<1>7. QED  BY <1>6 DEF f

\* An https_client that is destroyed.
LEMMA ListenerDrop ==
  ASSUME ConnectionsAssumption, NEW s, Sound(s), NEW c \in Client
  PROVE  Sound(Listener!Destroy(s, c))
<1> DEFINE u == Listener!Close(s, c)
<1>1. c \in Listener!Conn /\ c \notin Accepted /\ None \notin Accepted  BY ListenerConstants
<1>2. Sound(u) /\ u.sfd[c] = None  BY <1>1, ListenerCloses
<1> DEFINE t == [u EXCEPT !.life[c] = "destroyed"]
<1>3. Listener!Destroy(s, c) = t  BY DEF Listener!Destroy
<1> HIDE DEF u
<1>4. u \in Listener!Tables /\ Owns(u) /\ InMap(u) /\ Calls(u) /\ Serves(u)  BY <1>2 DEF Sound
<1>a. t = [u EXCEPT !.life[c] = "destroyed"]  OBVIOUS
<1> HIDE DEF t
<1>5. t = [open |-> u.open, fds |-> u.fds, connections |-> u.connections, sfd |-> u.sfd,
           life |-> [u.life EXCEPT ![c] = "destroyed"], server |-> u.server, cut |-> u.cut]
  BY <1>4, <1>a DEF Listener!Tables
<1>6. t \in Listener!Tables  BY <1>4, <1>5, ListenerTables DEF Listener!Tables
<1>7. /\ t.open = u.open /\ t.fds = u.fds /\ t.connections = u.connections /\ t.sfd = u.sfd
      /\ t.server = u.server /\ t.cut = u.cut
      /\ \A d \in Listener!Conn : d # c => t.life[d] = u.life[d]
  BY <1>4, <1>5, ListenerTables
<1>8. Owns(t)  BY <1>2, <1>4, <1>7 DEF Owns
<1>9. InMap(t)
  <2>1. \A g \in Fd : u.connections[g] # None =>
          u.connections[g] \in Listener!Conn /\ u.connections[g] # c
    <3>1. \A g \in Fd : u.connections[g] \in Accepted \cup {None}  BY <1>4, ListenerTables
    <3>2. QED  BY <1>1, <3>1, ListenerConstants
  <2>2. QED  BY <1>4, <1>7, <2>1 DEF InMap
<1>10. Calls(t)  BY <1>4, <1>7 DEF Calls
<1>11. Serves(t)  BY <1>4, <1>7 DEF Serves
<1>12. QED  BY <1>3, <1>6, <1>8, <1>9, <1>10, <1>11 DEF Sound

\* A server that starts.
LEMMA ListenerStart ==
  ASSUME ConnectionsAssumption, NEW s, Sound(s), s.server = None, ~Listener!Full(s),
         NEW n \in Nat
  PROVE  LET f == Listener!Lowest(s) IN
         Sound([Listener!Register([s EXCEPT !.open[f] = n], f, n) EXCEPT !.server = n])
<1> DEFINE f == Listener!Lowest(s)
<1>0. /\ None \notin Listener!Conn /\ Accepted \subseteq Listener!Conn /\ None \notin Fd
      /\ None \notin Listener!Entry /\ None \notin Nat /\ n \notin Listener!Conn
  BY ListenerConstants
<1>1. s \in Listener!Tables /\ Owns(s) /\ InMap(s) /\ Calls(s) /\ Serves(s)  BY DEF Sound
<1>2. f \in Fd /\ s.open[f] = None  BY <1>1, ListenerLowest
<1> DEFINE u == [s EXCEPT !.open[f] = n]
           v == Listener!Register(u, f, n)
           t == [v EXCEPT !.server = n]
<1> HIDE DEF f
<1>3. \A g \in Fd : s.connections[g] = None  BY <1>1 DEF InMap
<1>a. u = [s EXCEPT !.open[f] = n]  OBVIOUS
<1> HIDE DEF u
<1>4. u = [open |-> [s.open EXCEPT ![f] = n], fds |-> s.fds, connections |-> s.connections,
           sfd |-> s.sfd, life |-> s.life, server |-> s.server, cut |-> s.cut]
  BY <1>1, <1>a DEF Listener!Tables
<1>5. u \in Listener!Tables  BY <1>1, <1>2, <1>4, ListenerTables DEF Listener!Tables
<1>6. Shut(u, f)  BY <1>2, <1>3, <1>4 DEF Shut
<1>7. Registered(u, v, f, n)
  <2>1. n \in Listener!Conn \cup Nat  OBVIOUS
  <2>2. QED  BY <1>2, <1>5, <1>6, <2>1, ListenerRegister
<1> HIDE DEF v
<1>v. v \in Listener!Tables  BY <1>7 DEF Registered
<1>b. t = [v EXCEPT !.server = n]  OBVIOUS
<1> HIDE DEF t
<1>8. t = [open |-> v.open, fds |-> v.fds, connections |-> v.connections, sfd |-> v.sfd,
           life |-> v.life, server |-> n, cut |-> v.cut]
  BY <1>v, <1>b DEF Listener!Tables
<1>9. t \in Listener!Tables  BY <1>v, <1>8, ListenerTables DEF Listener!Tables
<1>10. /\ t.fds = [s.fds EXCEPT ![f] = [calls |-> n, marked |-> FALSE]]
       /\ t.open = [s.open EXCEPT ![f] = n] /\ t.sfd = s.sfd /\ t.server = n /\ t.cut = s.cut
       /\ t.connections = [s.connections EXCEPT ![f] = None]
  BY <1>4, <1>7, <1>8 DEF Registered
<1>11. \A d \in Listener!Conn : t.life[d] = s.life[d]
  <2>1. \A d \in Listener!Conn : d # u.connections[f]  BY <1>0, <1>2, <1>3, <1>4
  <2>2. QED  BY <1>4, <1>7, <1>8, <2>1 DEF Registered
<1>12. /\ t.open[f] = n /\ t.fds[f] = [calls |-> n, marked |-> FALSE]
       /\ \A g \in Fd : g # f => t.open[g] = s.open[g] /\ t.fds[g] = s.fds[g]
       /\ \A g \in Fd : t.connections[g] = None
  BY <1>1, <1>2, <1>3, <1>10, ListenerTables
<1>13. t.fds[f] # None
  <2>1. [calls |-> n, marked |-> FALSE] \in Listener!Entry  BY DEF Listener!Entry
  <2>2. [calls |-> n, marked |-> FALSE] # None  BY <1>0, <2>1
  <2>3. QED  BY <1>12, <2>2
<1>14. Owns(t)
  <2>1. \A d \in Listener!Conn : t.sfd[d] # None => t.open[t.sfd[d]] = d /\ t.life[d] = "alive"
    <3>1. \A d \in Listener!Conn : s.sfd[d] # None => s.sfd[d] \in Fd /\ s.sfd[d] # f
      BY <1>0, <1>1, <1>2, ListenerTables DEF Owns
    <3>2. QED  BY <1>1, <1>10, <1>11, <1>12, <3>1 DEF Owns
  <2>2. \A g \in Fd : t.open[g] \in Listener!Conn => t.sfd[t.open[g]] = g
    BY <1>0, <1>1, <1>10, <1>12 DEF Owns
  <2>3. \A g \in Fd : t.open[g] \notin Listener!Conn \cup {None} => t.open[g] = t.server
    <3>1. \A g \in Fd : s.open[g] \in Listener!Conn \cup {None}  BY <1>1 DEF Owns
    <3>2. QED  BY <1>10, <1>12, <3>1
  <2>4. QED  BY <2>1, <2>2, <2>3 DEF Owns
<1>15. InMap(t)  BY <1>12 DEF InMap
<1>16. Calls(t)  BY <1>1, <1>12, <1>13 DEF Calls
<1>17. Serves(t)
  <2>1. \A c \in Accepted : s.sfd[c] # None => s.sfd[c] \in Fd /\ s.connections[s.sfd[c]] = c
    BY <1>0, <1>1, ListenerTables DEF Serves
  <2>2. \A c \in Accepted : s.sfd[c] = None  BY <1>0, <1>3, <2>1
  <2>3. QED  BY <1>1, <1>10, <2>2 DEF Serves
<1>18. QED  BY <1>9, <1>14, <1>15, <1>16, <1>17 DEF Sound, f, u, v, t

\* A server that is destroyed with the connections of its map.
LEMMA ListenerStop ==
  ASSUME ConnectionsAssumption, Sound(sockets), Listener!StopServer
  PROVE  Sound(sockets')
<1> DEFINE s == sockets
           t == sockets'
           kept == {s.connections[f] : f \in Fd} \ {None}
           closed == {f \in Fd : \E c \in kept : s.sfd[c] = f}
           marks == [f \in Fd |-> IF f \in closed /\ s.fds[f] # None
                                THEN [s.fds[f] EXCEPT !.marked = TRUE] ELSE s.fds[f]]
           open == [f \in Fd |-> IF f \in closed \/ s.open[f] = s.server THEN None
                                 ELSE s.open[f]]
           sfd == [c \in Listener!Conn |-> IF c \in kept THEN None ELSE s.sfd[c]]
           life == [c \in Listener!Conn |-> IF c \in kept THEN "destroyed" ELSE s.life[c]]
           none == [f \in Fd |-> None]
<1>0. /\ None \notin Listener!Conn /\ Accepted \subseteq Listener!Conn /\ None \notin Fd
      /\ None \notin Listener!Entry /\ \A c \in Listener!Conn : c \notin Nat
  BY ListenerConstants
<1>1. s \in Listener!Tables /\ Owns(s) /\ InMap(s) /\ Calls(s) /\ Serves(s)  BY DEF Sound
<1>2. s.server \in Nat /\ s.server \notin Listener!Conn
  BY <1>0, <1>1, ListenerTables DEF Listener!StopServer
<1>3. t = [open |-> open, fds |-> marks, connections |-> none, sfd |-> sfd, life |-> life,
           server |-> None, cut |-> s.cut]
  <2>1. t = [s EXCEPT !.fds = marks, !.open = open, !.sfd = sfd, !.life = life,
                      !.connections = none, !.server = None]
    <3>1. s.fds \in [Fd -> Listener!Entry \cup {None}] /\ s.open = s.open  BY <1>1, ListenerTables
    <3>2. QED  BY DEF Listener!StopServer
  <2> HIDE DEF s, t, marks, open, sfd, life, none
  <2>2. QED  BY <1>1, <2>1 DEF Listener!Tables
<1>k. kept \subseteq Listener!Conn
  <2>1. \A f \in Fd : s.connections[f] \in Accepted \cup {None}  BY <1>1, ListenerTables
  <2>2. QED  BY <1>0, <2>1
<1>4. /\ \A f \in Fd : f \in closed <=> \E c \in kept : s.sfd[c] = f
      /\ \A f \in Fd : s.connections[f] # None => s.connections[f] \in kept
  OBVIOUS
<1>5. /\ \A f \in Fd : t.fds[f] = IF f \in closed /\ s.fds[f] # None
                                  THEN [s.fds[f] EXCEPT !.marked = TRUE] ELSE s.fds[f]
      /\ \A f \in Fd : t.open[f] = IF f \in closed \/ s.open[f] = s.server THEN None
                                   ELSE s.open[f]
      /\ \A c \in Listener!Conn : t.sfd[c] = IF c \in kept THEN None ELSE s.sfd[c]
      /\ \A c \in Listener!Conn : t.life[c] = IF c \in kept THEN "destroyed" ELSE s.life[c]
      /\ \A f \in Fd : t.connections[f] = None
      /\ t.server = None /\ t.cut = s.cut
  BY <1>3
<1>6. t \in Listener!Tables
  <2>1. marks \in [Fd -> Listener!Entry \cup {None}]
    <3>1. \A f \in Fd : s.fds[f] # None => [s.fds[f] EXCEPT !.marked = TRUE] \in Listener!Entry
      <4> SUFFICES ASSUME NEW f \in Fd, s.fds[f] # None
                   PROVE  [s.fds[f] EXCEPT !.marked = TRUE] \in Listener!Entry
        OBVIOUS
      <4>1. s.fds[f] \in Listener!Entry  BY <1>1, ListenerTables
      <4>2. QED  BY <4>1 DEF Listener!Entry
    <3>2. \A f \in Fd : s.fds[f] \in Listener!Entry \cup {None}  BY <1>1, ListenerTables
    <3> HIDE DEF closed, s
    <3>3. QED  BY <3>1, <3>2
  <2>2. open \in [Fd -> Listener!Conn \cup Nat \cup {None}]
    <3>1. \A f \in Fd : s.open[f] \in Listener!Conn \cup Nat \cup {None}
      BY <1>1, ListenerTables
    <3> HIDE DEF closed, s
    <3>2. QED  BY <3>1
  <2>3. sfd \in [Listener!Conn -> Fd \cup {None}]
    <3>1. \A c \in Listener!Conn : s.sfd[c] \in Fd \cup {None}  BY <1>1, ListenerTables
    <3> HIDE DEF kept, s
    <3>2. QED  BY <3>1
  <2>4. life \in [Listener!Conn -> {"new", "alive", "destroyed"}]
    <3>1. \A c \in Listener!Conn : s.life[c] \in {"new", "alive", "destroyed"}
      BY <1>1, ListenerTables
    <3> HIDE DEF kept, s
    <3>2. QED  BY <3>1
  <2>5. none \in [Fd -> Accepted \cup {None}] /\ s.cut \subseteq Listener!Conn
    BY <1>1, ListenerTables
  <2> HIDE DEF s, t, marks, open, sfd, life, none
  <2>6. QED  BY <1>3, <2>1, <2>2, <2>3, <2>4, <2>5 DEF Listener!Tables
<1> HIDE DEF s, t, kept, closed, marks, open, sfd, life, none
<1>7. Owns(t)
  <2>1. ASSUME NEW c \in Listener!Conn, t.sfd[c] # None
        PROVE  t.open[t.sfd[c]] = c /\ t.life[c] = "alive"
    <3>1. c \notin kept /\ t.sfd[c] = s.sfd[c] /\ s.sfd[c] \in Fd
      BY <1>1, <1>5, <2>1, ListenerTables
    <3>2. s.open[s.sfd[c]] = c /\ s.life[c] = "alive"  BY <1>1, <2>1, <3>1 DEF Owns
    <3>3. s.sfd[c] \notin closed
      <4>1. \A d \in kept : s.sfd[d] = s.sfd[c] => d = c
        BY <1>0, <1>1, <1>k, <3>1, <3>2 DEF Owns
      <4>2. QED  BY <1>4, <3>1, <4>1
    <3>4. QED  BY <1>2, <1>5, <3>1, <3>2, <3>3
  <2>2. ASSUME NEW g \in Fd, t.open[g] \in Listener!Conn  PROVE t.sfd[t.open[g]] = g
    <3>1. g \notin closed /\ t.open[g] = s.open[g]  BY <1>0, <1>5, <2>2
    <3>2. s.sfd[s.open[g]] = g  BY <1>1, <2>2, <3>1 DEF Owns
    <3>3. s.open[g] \notin kept  BY <1>4, <3>1, <3>2
    <3>4. QED  BY <1>5, <2>2, <3>1, <3>2, <3>3
  <2>3. \A g \in Fd : t.open[g] \in Listener!Conn \cup {None}
    <3>1. \A g \in Fd : s.open[g] \in Listener!Conn \cup {None} \/ s.open[g] = s.server
      BY <1>1 DEF Owns
    <3>2. QED  BY <1>5, <3>1
  <2>4. QED  BY <2>1, <2>2, <2>3 DEF Owns
<1>8. InMap(t)  BY <1>5 DEF InMap
<1>9. Calls(t)
  <2>1. \A g \in Fd : t.open[g] # None => g \notin closed /\ t.open[g] = s.open[g]  BY <1>5
  <2>2. \A g \in Fd : g \notin closed => t.fds[g] = s.fds[g]  BY <1>5
  <2>3. QED  BY <1>1, <2>1, <2>2 DEF Calls
<1>10. Serves(t)
  <2>1. \A c \in Accepted : s.sfd[c] # None => c \in kept
    <3>1. \A c \in Accepted : s.sfd[c] # None => s.sfd[c] \in Fd /\ s.connections[s.sfd[c]] = c
      BY <1>0, <1>1, ListenerTables DEF Serves
    <3>2. \A c \in Accepted : c # None  BY <1>0
    <3>3. QED  BY <1>4, <3>1, <3>2
  <2>2. \A c \in Accepted : t.sfd[c] = None  BY <1>0, <1>5, <2>1
  <2>3. QED  BY <1>1, <1>5, <2>2 DEF Serves
<1>11. QED  BY <1>6, <1>7, <1>8, <1>9, <1>10 DEF Sound, t

\* The tables begin in the invariant.
LEMMA ListenerInit ==
  ASSUME ConnectionsAssumption, Listener!Init
  PROVE  Listener!InductiveInvariant
<1>0. /\ None \notin Listener!Conn /\ Accepted \subseteq Listener!Conn /\ None \notin Fd
  BY ListenerConstants
<1> DEFINE none == [f \in Fd |-> None]
           sfd == [c \in Listener!Conn |-> None]
           life == [c \in Listener!Conn |-> "new"]
<1>1. sockets = [open |-> none, fds |-> none, connections |-> none, sfd |-> sfd,
                 life |-> life, server |-> None, cut |-> {}]
  BY DEF Listener!Init
<1>2. none \in [Fd -> Listener!Conn \cup Nat \cup {None}]
      /\ none \in [Fd -> Listener!Entry \cup {None}] /\ none \in [Fd -> Accepted \cup {None}]
      /\ sfd \in [Listener!Conn -> Fd \cup {None}]
      /\ life \in [Listener!Conn -> {"new", "alive", "destroyed"}]
  OBVIOUS
<1>3. /\ \A f \in Fd : none[f] = None
      /\ \A c \in Listener!Conn : sfd[c] = None
  OBVIOUS
<1> HIDE DEF none, sfd, life
<1>4. sockets \in Listener!Tables  BY <1>1, <1>2 DEF Listener!Tables
<1>5. /\ sockets.open = none /\ sockets.fds = none /\ sockets.connections = none
      /\ sockets.sfd = sfd /\ sockets.server = None /\ sockets.cut = {}
  BY <1>1
<1>6. Owns(sockets) /\ InMap(sockets) /\ Calls(sockets) /\ Serves(sockets)
  BY <1>0, <1>3, <1>5 DEF Owns, InMap, Calls, Serves
<1>7. Sound(sockets)  BY <1>4, <1>6 DEF Sound
<1>8. servers \in Nat /\ batch \subseteq Fd /\ pc \in {"idle", "visit"}
  BY DEF Listener!Init
<1>9. QED  BY <1>7, <1>8, ListenerSound

\* A step of the engine, of a server or of a client keeps the invariant of the tables.
LEMMA ListenerStep ==
  ASSUME ConnectionsAssumption, Listener!InductiveInvariant, Listener!Next
  PROVE  Listener!InductiveInvariant'
<1>0. Accepted \subseteq Listener!Conn /\ Client \subseteq Listener!Conn
      /\ \A c \in Listener!Conn : c \notin Nat
  BY ListenerConstants
<1>1. Sound(sockets) /\ servers \in Nat /\ batch \subseteq Fd /\ pc \in {"idle", "visit"}
  BY ListenerSound
<1>s. sockets \in Listener!Tables  BY <1>1 DEF Sound
<1> SUFFICES Sound(sockets') /\ servers' \in Nat /\ batch' \subseteq Fd /\ pc' \in {"idle", "visit"}
  BY ListenerSound
<1>2. CASE Listener!BeginPass
  BY <1>1, <1>2 DEF Listener!BeginPass
<1>3. CASE Listener!EndPass
  BY <1>1, <1>3 DEF Listener!EndPass
<1>4. ASSUME NEW f \in Fd, Listener!VisitQuiet(f)
      PROVE  Sound(sockets') /\ servers' \in Nat /\ batch' \subseteq Fd /\ pc' \in {"idle", "visit"}
  <2>1. Sound(Listener!Removed(sockets, f))  BY <1>1, ListenerRemoved
  <2>2. QED  BY <1>1, <1>4, <2>1 DEF Listener!VisitQuiet, Listener!Visit
<1>5. ASSUME NEW f \in Fd, NEW c \in Listener!Conn, Listener!VisitListener(f, c)
      PROVE  Sound(sockets') /\ servers' \in Nat /\ batch' \subseteq Fd /\ pc' \in {"idle", "visit"}
  <2>1. sockets.server # None
    <3>1. sockets.fds[f] \in Listener!Entry
      BY <1>5, <1>s, ListenerTables DEF Listener!VisitListener
    <3>2. sockets.fds[f].calls \in Listener!Conn \cup Nat  BY <3>1 DEF Listener!Entry
    <3>3. QED  BY <1>5, <3>2, ListenerConstants DEF Listener!VisitListener
  <2>2. Sound(Listener!Accept(sockets, c))
    BY <1>1, <1>5, <2>1, ListenerAccept DEF Listener!VisitListener
  <2>3. Sound(Listener!Removed(Listener!Accept(sockets, c), f))  BY <2>2, ListenerRemoved
  <2>4. QED  BY <1>1, <1>5, <2>3 DEF Listener!VisitListener, Listener!Visit
<1>6. ASSUME NEW f \in Fd, NEW c \in Listener!Conn, Listener!VisitCloses(f, c)
      PROVE  Sound(sockets') /\ servers' \in Nat /\ batch' \subseteq Fd /\ pc' \in {"idle", "visit"}
  <2>1. Sound(Listener!Close(sockets, c))  BY <1>1, ListenerCloses
  <2>2. Sound(Listener!Removed(Listener!Close(sockets, c), f))  BY <2>1, ListenerRemoved
  <2>3. QED  BY <1>1, <1>6, <2>2 DEF Listener!VisitCloses, Listener!Visit
<1>7. CASE Listener!StartServer
  <2>1. servers' \in Nat /\ servers' = servers + 1  BY <1>1, <1>7 DEF Listener!StartServer
  <2>2. PICK n \in Nat : n = servers'  BY <2>1
  <2>3. sockets.server = None /\ ~Listener!Full(sockets)  BY <1>7 DEF Listener!StartServer
  <2>4. Sound([Listener!Register([sockets EXCEPT !.open[Listener!Lowest(sockets)] = n],
                                 Listener!Lowest(sockets), n) EXCEPT !.server = n])
    BY <1>1, <2>3, ListenerStart
  <2>5. sockets' = [Listener!Register([sockets EXCEPT !.open[Listener!Lowest(sockets)] = n],
                                      Listener!Lowest(sockets), n) EXCEPT !.server = n]
    BY <1>7, <2>2 DEF Listener!StartServer
  <2>6. QED  BY <1>1, <1>7, <2>1, <2>4, <2>5 DEF Listener!StartServer
<1>8. CASE Listener!StopServer
  <2>1. Sound(sockets')  BY <1>1, <1>8, ListenerStop
  <2>2. QED  BY <1>1, <1>8, <2>1 DEF Listener!StopServer
<1>9. ASSUME NEW c \in Listener!Conn, Listener!TimeOut(c)
      PROVE  Sound(sockets') /\ servers' \in Nat /\ batch' \subseteq Fd /\ pc' \in {"idle", "visit"}
  <2>1. Sound(Listener!Close(sockets, c))  BY <1>1, ListenerCloses
  <2>2. QED  BY <1>1, <1>9, <2>1 DEF Listener!TimeOut
<1>10. ASSUME NEW c \in Listener!Conn, Listener!NewClient(c)
       PROVE  /\ Sound(sockets') /\ servers' \in Nat /\ batch' \subseteq Fd
              /\ pc' \in {"idle", "visit"}
  <2>1. c \in Client /\ sockets.life[c] = "new" /\ ~Listener!Full(sockets)
    BY <1>10 DEF Listener!NewClient
  <2>2. LET f == Listener!Lowest(sockets) IN
        Sound(Listener!Register(Listener!Opened(sockets, f, c), f, c))
    BY <1>1, <2>1, ListenerNewClient
  <2>3. QED  BY <1>1, <1>10, <2>2 DEF Listener!NewClient
<1>11. ASSUME NEW c \in Listener!Conn, Listener!DropClient(c)
       PROVE  /\ Sound(sockets') /\ servers' \in Nat /\ batch' \subseteq Fd
              /\ pc' \in {"idle", "visit"}
  <2>1. Sound(Listener!Destroy(sockets, c))
    BY <1>1, <1>11, ListenerDrop DEF Listener!DropClient
  <2>2. QED  BY <1>1, <1>11, <2>1 DEF Listener!DropClient
<1>12. QED  BY <1>2, <1>3, <1>4, <1>5, <1>6, <1>7, <1>8, <1>9, <1>10, <1>11
            DEF Listener!Next, Listener!Loop

-----------------------------------------------------------------------------
(* WebsocketClient.                                                          *)

\* What the assumption says of the peer's bytes.
LEMMA FrameShape ==
  ASSUME ConnectionsAssumption, Websocket!Sent
  PROVE  /\ upgrade.size \in Nat \ {0}
         /\ Len(stream) \in Nat \ {0} /\ DOMAIN stream = 1..Len(stream)
         /\ UpgradeTimeout \in Nat /\ Keepalive \in Nat \ {0}
         /\ \A i \in DOMAIN stream :
              /\ stream[i].op \in Websocket!Opcodes /\ stream[i].len \in Nat
              /\ Websocket!Start(i) \in Nat /\ Websocket!End(i) \in Nat
              /\ Websocket!Size(stream[i]) \in Nat \ {0}
              /\ Websocket!End(i) = Websocket!Start(i) + Websocket!Size(stream[i])
              /\ Websocket!Start(i) >= upgrade.size
         /\ Websocket!Start(1) = upgrade.size
         /\ \A i \in 1..Len(stream) - 1 : Websocket!Start(i + 1) = Websocket!End(i)
<1>1. /\ stream \in Seq([op : Websocket!Opcodes, len : Nat, at : Nat]) /\ stream # <<>>
      /\ stream[1].at = 0
      /\ \A i \in 1..Len(stream) - 1 :
           stream[i + 1].at = stream[i].at + Websocket!Size(stream[i])
      /\ UpgradeTimeout \in Nat /\ Keepalive \in Nat \ {0}
      /\ upgrade \in [status : {"101", "200", "other", "malformed"}, size : Nat \ {0}]
  BY DEF ConnectionsAssumption, Websocket!WebsocketAssumption, Websocket!Sent
<1>2. upgrade.size \in Nat \ {0}  BY <1>1
<1>3. Len(stream) \in Nat \ {0} /\ DOMAIN stream = 1..Len(stream)  BY <1>1
<1>4. \A i \in DOMAIN stream :
        stream[i].op \in Websocket!Opcodes /\ stream[i].len \in Nat /\ stream[i].at \in Nat
  <2> DEFINE R == [op : Websocket!Opcodes, len : Nat, at : Nat]
  <2>a. stream \in Seq(R)  BY <1>1
  <2>1. \A i \in DOMAIN stream : stream[i] \in R
    <3> HIDE DEF R
    <3>1. QED  BY <2>a
  <2>2. QED  BY <2>1
<1>5. \A i \in DOMAIN stream : Websocket!Size(stream[i]) \in Nat \ {0}
  BY <1>4 DEF Websocket!Size, Websocket!HeaderSize
<1>6. \A i \in DOMAIN stream :
         /\ Websocket!Start(i) = upgrade.size + stream[i].at
         /\ Websocket!End(i) = Websocket!Start(i) + Websocket!Size(stream[i])
  BY DEF Websocket!Start, Websocket!End
<1>7. \A i \in DOMAIN stream :
         /\ Websocket!Start(i) \in Nat /\ Websocket!End(i) \in Nat
         /\ Websocket!Start(i) >= upgrade.size
  BY <1>2, <1>4, <1>5, <1>6
<1>8. Websocket!Start(1) = upgrade.size  BY <1>1, <1>2, <1>3, <1>6
<1>9. \A i \in 1..Len(stream) - 1 : Websocket!Start(i + 1) = Websocket!End(i)
  <2> SUFFICES ASSUME NEW i \in 1..Len(stream) - 1
               PROVE  Websocket!Start(i + 1) = Websocket!End(i)
    OBVIOUS
  <2>1. i \in DOMAIN stream /\ i + 1 \in DOMAIN stream  BY <1>3
  <2>2. /\ Websocket!Start(i + 1) = upgrade.size + stream[i + 1].at
        /\ Websocket!End(i) = (upgrade.size + stream[i].at) + Websocket!Size(stream[i])
        /\ stream[i + 1].at = stream[i].at + Websocket!Size(stream[i])
    BY <1>1, <1>6, <2>1
  <2>3. stream[i].at \in Nat /\ Websocket!Size(stream[i]) \in Nat /\ upgrade.size \in Nat
    BY <1>2, <1>4, <1>5, <2>1
  <2>4. QED  BY <2>2, <2>3
<1>10. QED  BY <1>1, <1>2, <1>3, <1>4, <1>5, <1>6, <1>7, <1>8, <1>9

\* Frames do not overlap, so that they are in the order of their bytes.
LEMMA FrameOrder ==
  ASSUME ConnectionsAssumption, Websocket!Sent
  PROVE  /\ \A i, j \in DOMAIN stream : i < j => Websocket!End(i) <= Websocket!Start(j)
         /\ \A i \in DOMAIN stream : Websocket!End(i) <= Websocket!Total
         /\ Websocket!Total \in Nat
<1> DEFINE n == Len(stream)
           a == [i \in 1..n |-> Websocket!Start(i)]
           b == [i \in 1..n |-> Websocket!End(i)]
<1>1. n \in Nat \ {0} /\ DOMAIN stream = 1..n  BY FrameShape
<1>2. /\ a \in [1..n -> Nat] /\ b \in [1..n -> Nat]
      /\ \A i \in 1..n : a[i] < b[i]
      /\ \A i \in 1..n - 1 : a[i + 1] = b[i]
  <2>1. \A i \in 1..n : /\ Websocket!Start(i) \in Nat /\ Websocket!End(i) \in Nat
                        /\ Websocket!Start(i) < Websocket!End(i)
    BY <1>1, FrameShape
  <2>2. \A i \in 1..n - 1 : i \in 1..n /\ i + 1 \in 1..n  BY <1>1
  <2>3. \A i \in 1..n - 1 : Websocket!Start(i + 1) = Websocket!End(i)  BY FrameShape
  <2>4. QED  BY <2>1, <2>2, <2>3
<1>3. \A i, j \in 1..n : i < j => b[i] <= a[j]
  <2> HIDE DEF a, b, n
  <2>1. QED  BY <1>1, <1>2, Chain
<1>4. \A i, j \in DOMAIN stream : i < j => Websocket!End(i) <= Websocket!Start(j)
  BY <1>1, <1>3
<1>5. Websocket!Total = Websocket!End(n) /\ n \in DOMAIN stream
  BY <1>1 DEF Websocket!Total
<1>6. \A i \in DOMAIN stream : /\ Websocket!Start(i) \in Nat /\ Websocket!End(i) \in Nat
                               /\ Websocket!Start(i) < Websocket!End(i)
  BY FrameShape
<1>7. \A i \in DOMAIN stream : i = n \/ i < n  BY <1>1
<1> HIDE DEF n, a, b
<1>8. \A i \in DOMAIN stream : Websocket!End(i) <= Websocket!Total
  BY <1>4, <1>5, <1>6, <1>7
<1>9. QED  BY <1>4, <1>5, <1>6, <1>8

\* The frames that end before a frame begins are those before it.
LEMMA FramePast ==
  ASSUME ConnectionsAssumption, Websocket!Sent, NEW i \in DOMAIN stream
  PROVE  /\ Websocket!Past(Websocket!Start(i)) = {j \in DOMAIN stream : j < i}
         /\ Websocket!Past(Websocket!End(i)) = Websocket!Past(Websocket!Start(i)) \cup {i}
         /\ \A n \in Nat : n >= Websocket!Start(i) /\ n < Websocket!End(i) =>
              Websocket!Past(n) = Websocket!Past(Websocket!Start(i))
         /\ Websocket!At(Websocket!Start(i)) = {i}
         /\ Websocket!End(i) \in {Websocket!Start(j) : j \in DOMAIN stream} \cup {Websocket!Total}
<1>1. DOMAIN stream = 1..Len(stream) /\ Len(stream) \in Nat  BY FrameShape
<1>2. \A j \in DOMAIN stream : /\ Websocket!Start(j) \in Nat /\ Websocket!End(j) \in Nat
                               /\ Websocket!Start(j) < Websocket!End(j)
  BY FrameShape
<1>3. \A j, k \in DOMAIN stream : j < k => Websocket!End(j) <= Websocket!Start(k)
  BY FrameOrder
<1>4. \A j \in DOMAIN stream : j < i \/ j = i \/ i < j  BY <1>1
<1>5. \A n \in Nat : n >= Websocket!Start(i) /\ n < Websocket!End(i) =>
        Websocket!Past(n) = {j \in DOMAIN stream : j < i}
  BY <1>2, <1>3, <1>4 DEF Websocket!Past
<1>6. Websocket!Past(Websocket!Start(i)) = {j \in DOMAIN stream : j < i}
  BY <1>2, <1>5
<1>7. Websocket!Past(Websocket!End(i)) = {j \in DOMAIN stream : j < i} \cup {i}
  BY <1>2, <1>3, <1>4 DEF Websocket!Past
<1>8. Websocket!At(Websocket!Start(i)) = {i}
  BY <1>2, <1>3, <1>4 DEF Websocket!At
<1>9. Websocket!End(i) \in {Websocket!Start(j) : j \in DOMAIN stream} \cup {Websocket!Total}
  <2>1. CASE i = Len(stream)  BY <2>1 DEF Websocket!Total
  <2>2. CASE i # Len(stream)
    <3>1. i \in 1..Len(stream) - 1 /\ i + 1 \in DOMAIN stream  BY <1>1, <2>2
    <3>2. Websocket!Start(i + 1) = Websocket!End(i)  BY <3>1, FrameShape
    <3>3. QED  BY <3>1, <3>2
  <2>3. QED  BY <2>1, <2>2
<1>10. QED  BY <1>5, <1>6, <1>7, <1>8, <1>9

\* A frame that is past in the buffer ends before the next one begins.
LEMMA FramePastEnds ==
  ASSUME ConnectionsAssumption, Websocket!Sent
  PROVE  /\ Websocket!Past(upgrade.size) = {}
         /\ upgrade.size = Websocket!Start(1) /\ 1 \in DOMAIN stream
         /\ \A n \in Nat : n >= Websocket!Total => Websocket!Past(n) = DOMAIN stream
<1>1. 1 \in DOMAIN stream /\ Websocket!Start(1) = upgrade.size  BY FrameShape
<1>2. Websocket!Past(upgrade.size) = {j \in DOMAIN stream : j < 1}  BY <1>1, FramePast
<1>3. Websocket!Past(upgrade.size) = {}  BY <1>2, FrameShape
<1>4. \A n \in Nat : n >= Websocket!Total => Websocket!Past(n) = DOMAIN stream
  <2>1. \A j \in DOMAIN stream : Websocket!End(j) \in Nat /\ Websocket!End(j) <= Websocket!Total
    BY FrameShape, FrameOrder
  <2>2. Websocket!Total \in Nat  BY FrameOrder
  <2>3. QED  BY <2>1, <2>2 DEF Websocket!Past
<1>5. QED  BY <1>1, <1>3, <1>4

\* A frame that is appended to the history.
LEMMA InOrderAppend ==
  ASSUME NEW D, D \subseteq Nat, NEW s \in Seq(D), NEW F, Websocket!InOrder(s, F),
         NEW i \in D, \A j \in F : j < i
  PROVE  Websocket!InOrder(Append(s, i), F \cup {i}) /\ Append(s, i) \in Seq(D)
<1> DEFINE t == Append(s, i)
<1>1. /\ DOMAIN s = 1..Len(s) /\ Len(s) \in Nat /\ t \in Seq(D)
      /\ DOMAIN t = 1..Len(s) + 1 /\ t[Len(s) + 1] = i
      /\ \A k \in DOMAIN s : t[k] = s[k] /\ s[k] \in D
  OBVIOUS
<1>2. /\ \A j, k \in DOMAIN s : j < k => s[j] < s[k]
      /\ {s[k] : k \in DOMAIN s} = F
  BY DEF Websocket!InOrder, Websocket!Range
<1> HIDE DEF t
<1>3. \A k \in DOMAIN t : k \in DOMAIN s \/ k = Len(s) + 1  BY <1>1
<1>4. \A k \in DOMAIN s : k \in DOMAIN t /\ k < Len(s) + 1 /\ t[k] \in F  BY <1>1, <1>2
<1>5. \A j, k \in DOMAIN t : j < k => t[j] < t[k]
  <2> SUFFICES ASSUME NEW j \in DOMAIN t, NEW k \in DOMAIN t, j < k  PROVE t[j] < t[k]
    OBVIOUS
  <2>1. j \in DOMAIN s  BY <1>1
  <2>2. CASE k \in DOMAIN s  BY <1>1, <1>2, <2>1, <2>2
  <2>3. CASE k = Len(s) + 1  BY <1>1, <1>4, <2>1, <2>3
  <2>4. QED  BY <1>3, <2>2, <2>3
<1>6. {t[k] : k \in DOMAIN t} = F \cup {i}
  <2>1. \A k \in DOMAIN t : t[k] \in F \cup {i}  BY <1>1, <1>3, <1>4
  <2>2. \A j \in F : \E k \in DOMAIN t : j = t[k]
    <3>1. \A j \in F : \E k \in DOMAIN s : j = s[k]  BY <1>2
    <3>2. QED  BY <1>1, <1>4, <3>1
  <2>3. Len(s) + 1 \in DOMAIN t  BY <1>1
  <2>4. QED  BY <1>1, <2>1, <2>2, <2>3
<1>7. QED  BY <1>1, <1>5, <1>6 DEF Websocket!InOrder, Websocket!Range, t

\* The conjuncts of the inductive invariant, of any offset, histories and time.
Frames(c, h, p) ==
  /\ c \in {Websocket!Start(i) : i \in DOMAIN stream} \cup {Websocket!Total}
  /\ Websocket!InOrder(h, {i \in Websocket!Past(c) : stream[i].op \in Websocket!Data})
  /\ Websocket!InOrder(p, {i \in Websocket!Past(c) : stream[i].op = "ping"})
  /\ \A i \in Websocket!Past(c) : stream[i].op \notin {"close", "unknown"}
NoneWaits(c, a, l) ==
  Websocket!Past(a) # Websocket!Past(c) =>
    l \/ a - c < 4 \/ stream[CHOOSE i \in Websocket!At(c) : TRUE].op \in {"close", "unknown"}
BeforeClose(s) ==
  \A i \in DOMAIN stream : stream[i].op = "close" => \A j \in Websocket!Range(s) : j < i

\* The inductive invariant, conjunct by conjunct.
LEMMA WebsocketNow ==
  Websocket!InductiveInvariant <=>
    /\ Websocket!Sent
    /\ consumed \in 0..arrived /\ arrived \in 0..Websocket!Total
    /\ phase \in {"connecting", "handshake", "up", "closed"}
    /\ state = "CONNECTED" => phase = "up"
    /\ timed_out \in BOOLEAN /\ left \in 0..UpgradeTimeout /\ tick \in 0..Keepalive - 1
    /\ pinged \in BOOLEAN /\ late \in BOOLEAN /\ pc \in {"wait", "parse", "close"}
    /\ handled \in Seq(DOMAIN stream) /\ pongs \in Seq(DOMAIN stream)
    /\ pc = "parse" => phase = "up"
    /\ phase = "closed" => state = "HTTP_HEADERS" /\ pc = "wait"
    /\ state = "HTTP_HEADERS" /\ phase # "closed" =>
         /\ handled = <<>> /\ pongs = <<>>
         /\ consumed = 0 /\ pc = "wait" => arrived = 0
         /\ consumed = 0 /\ pc = "parse" => late
    /\ state = "CONNECTED" /\ pc # "close" => Frames(consumed, handled, pongs)
    /\ state = "CONNECTED" /\ pc = "wait" => NoneWaits(consumed, arrived, late)
    /\ BeforeClose(handled) /\ BeforeClose(pongs)
BY DEF Websocket!InductiveInvariant, Websocket!TypeOK, Websocket!ParsedWhileUp,
  Websocket!Upgrading, Websocket!CloseStays, Websocket!TakenInOrder, Websocket!NoFrameWaits,
  Websocket!NothingAfterClose, Websocket!First, Websocket!Available, Frames, NoneWaits,
  BeforeClose

\* The same after a step: what the peer sends stays.
LEMMA WebsocketThen ==
  ASSUME UNCHANGED <<upgrade, stream>>, Websocket!Sent
  PROVE
    /\ state' \in {"HTTP_HEADERS", "CONNECTED"}
    /\ consumed' \in 0..arrived' /\ arrived' \in 0..Websocket!Total
    /\ phase' \in {"connecting", "handshake", "up", "closed"}
    /\ state' = "CONNECTED" => phase' = "up"
    /\ timed_out' \in BOOLEAN /\ left' \in 0..UpgradeTimeout /\ tick' \in 0..Keepalive - 1
    /\ pinged' \in BOOLEAN /\ late' \in BOOLEAN /\ pc' \in {"wait", "parse", "close"}
    /\ handled' \in Seq(DOMAIN stream) /\ pongs' \in Seq(DOMAIN stream)
    /\ pc' = "parse" => phase' = "up"
    /\ phase' = "closed" => state' = "HTTP_HEADERS" /\ pc' = "wait"
    /\ state' = "HTTP_HEADERS" /\ phase' # "closed" =>
         /\ handled' = <<>> /\ pongs' = <<>>
         /\ consumed' = 0 /\ pc' = "wait" => arrived' = 0
         /\ consumed' = 0 /\ pc' = "parse" => late'
    /\ state' = "CONNECTED" /\ pc' # "close" => Frames(consumed', handled', pongs')
    /\ state' = "CONNECTED" /\ pc' = "wait" => NoneWaits(consumed', arrived', late')
    /\ BeforeClose(handled') /\ BeforeClose(pongs')
    => Websocket!InductiveInvariant'
<1>1. /\ \A i : Websocket!Start(i)' = Websocket!Start(i)
      /\ \A i : Websocket!End(i)' = Websocket!End(i)
      /\ Websocket!Total' = Websocket!Total
  BY DEF Websocket!Start, Websocket!End, Websocket!Total
<1>2. QED
  BY <1>1 DEF Websocket!InductiveInvariant, Websocket!TypeOK, Websocket!ParsedWhileUp,
    Websocket!Upgrading, Websocket!CloseStays, Websocket!TakenInOrder, Websocket!NoFrameWaits,
    Websocket!NothingAfterClose, Websocket!First, Websocket!Available, Frames, NoneWaits,
    BeforeClose, Websocket!Sent, Websocket!Past, Websocket!At, Websocket!Start,
    Websocket!End, Websocket!Total

\* A client that connects begins in the invariant.
LEMMA WebsocketInit ==
  ASSUME ConnectionsAssumption, Websocket!Init
  PROVE  Websocket!InductiveInvariant
<1>1. Websocket!Sent  BY DEF Websocket!Init, Websocket!Sent
<1>2. UpgradeTimeout \in Nat /\ Keepalive \in Nat \ {0} /\ Websocket!Total \in Nat
  BY <1>1, FrameShape, FrameOrder
<1>3. BeforeClose(handled) /\ BeforeClose(pongs)
  BY DEF BeforeClose, Websocket!Init, Websocket!Range
<1>4. handled \in Seq(DOMAIN stream) /\ pongs \in Seq(DOMAIN stream)
  BY DEF Websocket!Init
<1>5. /\ arrived = 0 /\ consumed = 0 /\ phase = "connecting" /\ state = "HTTP_HEADERS"
      /\ timed_out = FALSE /\ left = UpgradeTimeout /\ tick = 0 /\ pinged = FALSE
      /\ pc = "wait" /\ late = FALSE /\ handled = <<>> /\ pongs = <<>>
  BY DEF Websocket!Init
<1>6. /\ consumed \in 0..arrived /\ arrived \in 0..Websocket!Total
      /\ left \in 0..UpgradeTimeout /\ tick \in 0..Keepalive - 1
  BY <1>2, <1>5
<1>7. timed_out \in BOOLEAN /\ pinged \in BOOLEAN /\ late \in BOOLEAN  BY <1>5, Zenon
<1>8. QED  BY <1>1, <1>3, <1>4, <1>5, <1>6, <1>7, WebsocketNow

\* Where reads may end.
LEMMA WebsocketCuts ==
  ASSUME ConnectionsAssumption, Websocket!Sent
  PROVE  Websocket!Cuts \subseteq 0..Websocket!Total
<1>1. \A i \in DOMAIN stream :
        /\ Websocket!Start(i) \in Nat /\ Websocket!Size(stream[i]) \in Nat \ {0}
        /\ Websocket!End(i) = Websocket!Start(i) + Websocket!Size(stream[i])
        /\ Websocket!End(i) <= Websocket!Total /\ Websocket!Start(i) >= upgrade.size
  BY FrameShape, FrameOrder
<1>2. Websocket!Total \in Nat /\ upgrade.size \in Nat \ {0} /\ 1 \in DOMAIN stream
  BY FrameShape, FrameOrder
<1>3. 1 <= Websocket!Total /\ upgrade.size <= Websocket!Total
  BY <1>1, <1>2
<1>4. {1, upgrade.size, Websocket!Total} \subseteq 0..Websocket!Total  BY <1>2, <1>3
<1>5. \A i \in DOMAIN stream :
        /\ \A n \in 0..Websocket!Size(stream[i]) : Websocket!Start(i) + n \in 0..Websocket!Total
        /\ Websocket!End(i) - 1 \in 0..Websocket!Total
  BY <1>1, <1>2
<1> DEFINE Near(i) == {Websocket!Start(i) + n : n \in {0, 1, 2, 3, 4, 7, 8, 9, 10}
                         \cap 0..Websocket!Size(stream[i])} \cup {Websocket!End(i) - 1}
<1>6. \A i \in DOMAIN stream : Near(i) \subseteq 0..Websocket!Total  BY <1>5
<1>7. Websocket!Cuts = {1, upgrade.size, Websocket!Total}
                         \cup UNION {Near(i) : i \in DOMAIN stream}
  BY DEF Websocket!Cuts
<1> HIDE DEF Near
<1>8. QED  BY <1>4, <1>6, <1>7

\* Close frames stay in the buffer, so that what is taken is in front of all of them.
LEMMA WebsocketAppend ==
  ASSUME ConnectionsAssumption, Websocket!Sent, NEW i \in DOMAIN stream,
         NEW h \in Seq(DOMAIN stream), BeforeClose(h), stream[i].op # "close",
         \A k \in Websocket!Past(Websocket!Start(i)) : stream[k].op # "close"
  PROVE  BeforeClose(Append(h, i))
<1>1. DOMAIN stream \subseteq Nat /\ \A k \in DOMAIN stream : k < i \/ k = i \/ i < k
  BY FrameShape
<1>2. \A k \in DOMAIN stream : stream[k].op = "close" => i < k
  BY <1>1, FramePast
<1>3. Websocket!Range(Append(h, i)) \subseteq Websocket!Range(h) \cup {i}
  BY DEF Websocket!Range
<1>4. QED  BY <1>2, <1>3 DEF BeforeClose

\* A frame that is taken from the buffer is the first one there, and it is whole.
LEMMA WebsocketComplete ==
  ASSUME ConnectionsAssumption, Websocket!InductiveInvariant, NEW ops,
         Websocket!Complete(ops)
  PROVE  /\ Websocket!First \in DOMAIN stream /\ consumed = Websocket!Start(Websocket!First)
         /\ stream[Websocket!First].op \in ops
         /\ consumed + Websocket!Size(stream[Websocket!First]) = Websocket!End(Websocket!First)
         /\ Websocket!End(Websocket!First) <= arrived
<1>1. /\ Websocket!Sent /\ state = "CONNECTED" /\ pc = "parse" /\ arrived - consumed >= 4
      /\ consumed \in 0..arrived /\ arrived \in 0..Websocket!Total
      /\ Frames(consumed, handled, pongs)
  BY WebsocketNow DEF Websocket!Complete, Websocket!Parsing, Websocket!Available
<1>2. consumed # Websocket!Total
  BY <1>1, FrameOrder
<1>3. PICK i \in DOMAIN stream : consumed = Websocket!Start(i)
  BY <1>1, <1>2 DEF Frames
<1>4. Websocket!First = i
  BY <1>1, <1>3, FramePast DEF Websocket!First
<1>5. /\ Websocket!Size(stream[i]) \in Nat /\ stream[i].len \in Nat
      /\ Websocket!End(i) = consumed + Websocket!Size(stream[i])
  BY <1>1, <1>3, FrameShape
<1>6. ~(arrived - consumed < Websocket!Size(stream[i]))
  BY <1>4 DEF Websocket!Complete, Websocket!Incomplete, Websocket!Size, Websocket!Available
<1>7. arrived \in Nat /\ consumed \in Nat  BY <1>1, FrameOrder
<1>8. Websocket!End(i) <= arrived  BY <1>5, <1>6, <1>7
<1>9. QED  BY <1>3, <1>4, <1>5, <1>8 DEF Websocket!Complete

\* A frame that is not complete is not past.
LEMMA WebsocketIncomplete ==
  ASSUME ConnectionsAssumption, Websocket!InductiveInvariant, state = "CONNECTED", pc = "parse",
         Websocket!Available >= 4, Websocket!Incomplete(stream[Websocket!First].len)
  PROVE  Websocket!Past(arrived) = Websocket!Past(consumed)
<1>1. /\ Websocket!Sent /\ arrived - consumed >= 4
      /\ consumed \in 0..arrived /\ arrived \in 0..Websocket!Total
      /\ Frames(consumed, handled, pongs)
  BY WebsocketNow DEF Websocket!Available
<1>2. consumed # Websocket!Total
  BY <1>1, FrameOrder
<1>3. PICK i \in DOMAIN stream : consumed = Websocket!Start(i)
  BY <1>1, <1>2 DEF Frames
<1>4. Websocket!First = i
  BY <1>1, <1>3, FramePast DEF Websocket!First
<1>5. /\ Websocket!Size(stream[i]) \in Nat /\ stream[i].len \in Nat
      /\ Websocket!End(i) = consumed + Websocket!Size(stream[i])
  BY <1>1, <1>3, FrameShape
<1>6. arrived - consumed < Websocket!Size(stream[i])
  <2>1. \/ stream[i].len > 125 /\ stream[i].len <= 65535 /\ arrived - consumed < 8
        \/ stream[i].len > 65535 /\ arrived - consumed < 10
        \/ arrived - consumed < Websocket!Size(stream[i])
    BY <1>4 DEF Websocket!Incomplete, Websocket!Available, Websocket!Size
  <2>2. /\ stream[i].len > 125 /\ stream[i].len <= 65535 => Websocket!Size(stream[i]) > 8
        /\ stream[i].len > 65535 => Websocket!Size(stream[i]) > 10
    BY <1>5 DEF Websocket!Size, Websocket!HeaderSize
  <2>3. arrived \in Nat /\ consumed \in Nat  BY <1>1, FrameOrder
  <2>4. QED  BY <1>5, <2>1, <2>2, <2>3
<1>7. arrived \in Nat /\ consumed \in Nat /\ consumed <= arrived  BY <1>1, FrameOrder
<1>8. arrived < Websocket!End(i)  BY <1>5, <1>6, <1>7
<1>9. QED  BY <1>1, <1>3, <1>7, <1>8, FramePast

\* A whole frame is taken: what holds of the next one.
LEMMA WebsocketTaken ==
  ASSUME ConnectionsAssumption, Websocket!InductiveInvariant, NEW ops,
         Websocket!Complete(ops), NEW h, NEW p,
         stream[Websocket!First].op \notin {"close", "unknown"},
         \/ /\ stream[Websocket!First].op \in Websocket!Data
            /\ h = Append(handled, Websocket!First) /\ p = pongs
         \/ /\ stream[Websocket!First].op = "ping"
            /\ h = handled /\ p = Append(pongs, Websocket!First)
         \/ /\ stream[Websocket!First].op = "pong" /\ h = handled /\ p = pongs
  PROVE  /\ Frames(Websocket!End(Websocket!First), h, p)
         /\ h \in Seq(DOMAIN stream) /\ p \in Seq(DOMAIN stream)
         /\ BeforeClose(h) /\ BeforeClose(p)
<1> DEFINE i == Websocket!First
<1>1. i \in DOMAIN stream /\ consumed = Websocket!Start(i)  BY WebsocketComplete
<1>2. /\ Websocket!Sent /\ Frames(consumed, handled, pongs)
      /\ handled \in Seq(DOMAIN stream) /\ pongs \in Seq(DOMAIN stream)
      /\ BeforeClose(handled) /\ BeforeClose(pongs)
  BY WebsocketNow DEF Websocket!Complete, Websocket!Parsing
<1> HIDE DEF i
<1>3. /\ Websocket!Past(consumed) = {j \in DOMAIN stream : j < i}
      /\ Websocket!Past(Websocket!End(i)) = Websocket!Past(consumed) \cup {i}
      /\ Websocket!End(i) \in {Websocket!Start(j) : j \in DOMAIN stream} \cup {Websocket!Total}
  BY <1>1, <1>2, FramePast
<1>4. DOMAIN stream \subseteq Nat  BY <1>2, FrameShape
<1> DEFINE H == {j \in Websocket!Past(consumed) : stream[j].op \in Websocket!Data}
           P == {j \in Websocket!Past(consumed) : stream[j].op = "ping"}
           H2 == {j \in Websocket!Past(Websocket!End(i)) : stream[j].op \in Websocket!Data}
           P2 == {j \in Websocket!Past(Websocket!End(i)) : stream[j].op = "ping"}
<1>5. /\ Websocket!InOrder(handled, H) /\ Websocket!InOrder(pongs, P)
      /\ \A j \in H \cup P : j < i
      /\ \A j \in Websocket!Past(consumed) : stream[j].op \notin {"close", "unknown"}
  BY <1>2, <1>3 DEF Frames
<1>6. /\ H2 = IF stream[i].op \in Websocket!Data THEN H \cup {i} ELSE H
      /\ P2 = IF stream[i].op = "ping" THEN P \cup {i} ELSE P
      /\ \A j \in Websocket!Past(Websocket!End(i)) : stream[j].op \notin {"close", "unknown"}
  BY <1>3, <1>5 DEF i
<1>7. SUFFICES /\ Websocket!InOrder(h, H2) /\ Websocket!InOrder(p, P2)
               /\ h \in Seq(DOMAIN stream) /\ p \in Seq(DOMAIN stream)
               /\ BeforeClose(h) /\ BeforeClose(p)
  BY <1>3, <1>6 DEF Frames, i
<1>8. \A k \in Websocket!Past(Websocket!Start(i)) : stream[k].op # "close"
  BY <1>1, <1>5
<1> HIDE DEF H, P, H2, P2
<1>9. CASE stream[i].op \in Websocket!Data /\ h = Append(handled, i) /\ p = pongs
  <2>1. stream[i].op # "ping" /\ stream[i].op # "close"  BY <1>9 DEF Websocket!Data
  <2>2. Websocket!InOrder(h, H \cup {i}) /\ h \in Seq(DOMAIN stream)
    BY <1>1, <1>2, <1>4, <1>5, <1>9, InOrderAppend
  <2>3. BeforeClose(h)  BY <1>1, <1>2, <1>8, <1>9, <2>1, WebsocketAppend
  <2>4. QED  BY <1>2, <1>5, <1>6, <1>9, <2>1, <2>2, <2>3
<1>10. CASE stream[i].op = "ping" /\ h = handled /\ p = Append(pongs, i)
  <2>1. stream[i].op \notin Websocket!Data /\ stream[i].op # "close"
    BY <1>10 DEF Websocket!Data
  <2>2. Websocket!InOrder(p, P \cup {i}) /\ p \in Seq(DOMAIN stream)
    BY <1>1, <1>2, <1>4, <1>5, <1>10, InOrderAppend
  <2>3. BeforeClose(p)  BY <1>1, <1>2, <1>8, <1>10, <2>1, WebsocketAppend
  <2>4. QED  BY <1>2, <1>5, <1>6, <1>10, <2>1, <2>2, <2>3
<1>11. CASE stream[i].op = "pong" /\ h = handled /\ p = pongs
  <2>1. stream[i].op \notin Websocket!Data /\ stream[i].op # "ping"
    BY <1>11 DEF Websocket!Data
  <2>2. QED  BY <1>2, <1>5, <1>6, <1>11, <2>1
<1>12. QED  BY <1>9, <1>10, <1>11 DEF i

\* A step of the websocket client keeps its invariant.
LEMMA WebsocketStep ==
  ASSUME ConnectionsAssumption, Websocket!InductiveInvariant, Websocket!Next
  PROVE  Websocket!InductiveInvariant'
<1>1. /\ Websocket!Sent
      /\ consumed \in 0..arrived /\ arrived \in 0..Websocket!Total
      /\ phase \in {"connecting", "handshake", "up", "closed"}
      /\ state = "CONNECTED" => phase = "up"
      /\ timed_out \in BOOLEAN /\ left \in 0..UpgradeTimeout /\ tick \in 0..Keepalive - 1
      /\ pinged \in BOOLEAN /\ late \in BOOLEAN /\ pc \in {"wait", "parse", "close"}
      /\ handled \in Seq(DOMAIN stream) /\ pongs \in Seq(DOMAIN stream)
      /\ pc = "parse" => phase = "up"
      /\ phase = "closed" => state = "HTTP_HEADERS" /\ pc = "wait"
      /\ state = "HTTP_HEADERS" /\ phase # "closed" =>
           /\ handled = <<>> /\ pongs = <<>>
           /\ consumed = 0 /\ pc = "wait" => arrived = 0
           /\ consumed = 0 /\ pc = "parse" => late
      /\ state = "CONNECTED" /\ pc # "close" => Frames(consumed, handled, pongs)
      /\ state = "CONNECTED" /\ pc = "wait" => NoneWaits(consumed, arrived, late)
      /\ BeforeClose(handled) /\ BeforeClose(pongs)
      /\ state \in {"HTTP_HEADERS", "CONNECTED"}
  BY WebsocketNow DEF Websocket!Sent
<1>2. /\ UpgradeTimeout \in Nat /\ Keepalive \in Nat \ {0} /\ Websocket!Total \in Nat
      /\ upgrade.size \in Nat \ {0}
  BY <1>1, FrameShape, FrameOrder
<1>3. CASE Websocket!Upgrade
  <2>1. /\ UNCHANGED <<upgrade, stream, arrived, phase, timed_out, left, tick, pinged, late>>
        /\ UNCHANGED <<pongs, handled>> /\ pc = "parse" /\ state = "HTTP_HEADERS"
    BY <1>3 DEF Websocket!Upgrade, Websocket!Kept, Websocket!peer, Websocket!Parsing
  <2>2. CASE arrived - consumed < upgrade.size \/ consumed # 0
    <3>1. pc' = "close" /\ UNCHANGED <<consumed, state>>
      BY <1>3, <2>2 DEF Websocket!Upgrade, Websocket!Available
    <3>2. QED  BY <1>1, <2>1, <3>1, WebsocketThen
  <2>3. CASE ~(arrived - consumed < upgrade.size \/ consumed # 0)
    <3>1. /\ consumed' = upgrade.size
          /\ \/ upgrade.status = "101" /\ state' = "CONNECTED" /\ pc' = "wait"
             \/ UNCHANGED state /\ pc' \in {"wait", "close"}
      BY <1>3, <2>3 DEF Websocket!Upgrade, Websocket!Available
    <3>2. consumed = 0 /\ upgrade.size <= arrived  BY <1>1, <1>2, <2>3
    <3>3. consumed' \in 0..arrived /\ consumed' # 0  BY <1>1, <1>2, <3>1, <3>2
    <3>4. Frames(consumed', <<>>, <<>>)
      <4>1. /\ Websocket!Past(consumed') = {}
            /\ consumed' \in {Websocket!Start(i) : i \in DOMAIN stream}
        BY <1>1, <3>1, FramePastEnds
      <4>2. Websocket!InOrder(<<>>, {})  BY DEF Websocket!InOrder, Websocket!Range
      <4>3. QED  BY <4>1, <4>2 DEF Frames
    <3>5. late /\ handled = <<>> /\ pongs = <<>> /\ phase = "up"
      BY <1>1, <2>1, <3>2
    <3>6. NoneWaits(consumed', arrived', late')  BY <2>1, <3>5 DEF NoneWaits
    <3>7. QED  BY <1>1, <2>1, <3>1, <3>3, <3>4, <3>5, <3>6, WebsocketThen
  <2>4. QED  BY <2>2, <2>3
<1>4. CASE Websocket!FrameWaits
  <2>1. /\ UNCHANGED <<upgrade, stream, arrived, phase, timed_out, left, tick, pinged, late>>
        /\ UNCHANGED <<consumed, state, pongs, handled>> /\ pc = "parse" /\ pc' = "wait"
        /\ state = "CONNECTED"
    BY <1>4 DEF Websocket!FrameWaits, Websocket!Kept, Websocket!peer, Websocket!Parsing
  <2>a. \/ Websocket!Available < 4
        \/ Websocket!Available >= 4 /\ Websocket!Incomplete(stream[Websocket!First].len)
    BY <1>4, Zenon DEF Websocket!FrameWaits
  <2>2. NoneWaits(consumed', arrived', late')
    <3>1. arrived - consumed < 4 \/ Websocket!Past(arrived) = Websocket!Past(consumed)
      BY <2>1, <2>a, WebsocketIncomplete DEF Websocket!Available
    <3>2. QED  BY <2>1, <3>1 DEF NoneWaits
  <2>3. QED  BY <1>1, <2>1, <2>2, WebsocketThen
<1>5. CASE Websocket!CloseFrame
  <2>1. /\ UNCHANGED <<upgrade, stream, arrived, phase, timed_out, left, tick, pinged, late>>
        /\ UNCHANGED <<consumed, state, pongs, handled>> /\ pc = "parse" /\ pc' = "wait"
        /\ state = "CONNECTED" /\ stream[Websocket!First].op \in {"close", "unknown"}
    BY <1>5 DEF Websocket!CloseFrame, Websocket!Kept, Websocket!peer, Websocket!Parsing
  <2>2. NoneWaits(consumed', arrived', late')  BY <2>1 DEF NoneWaits, Websocket!First
  <2>3. QED  BY <1>1, <2>1, <2>2, WebsocketThen
<1>6. ASSUME NEW ops, Websocket!Complete(ops), Websocket!EraseFrame, Websocket!Kept,
             stream[Websocket!First].op \notin {"close", "unknown"},
             \/ /\ stream[Websocket!First].op \in Websocket!Data
                /\ handled' = Append(handled, Websocket!First) /\ pongs' = pongs
             \/ /\ stream[Websocket!First].op = "ping"
                /\ handled' = handled /\ pongs' = Append(pongs, Websocket!First)
             \/ /\ stream[Websocket!First].op = "pong" /\ handled' = handled /\ pongs' = pongs
      PROVE  Websocket!InductiveInvariant'
  <2>1. /\ UNCHANGED <<upgrade, stream, arrived, phase, timed_out, left, tick, pinged, late>>
        /\ UNCHANGED <<state, pc>> /\ pc = "parse" /\ state = "CONNECTED"
        /\ consumed' = consumed + Websocket!Size(stream[Websocket!First])
    BY <1>6 DEF Websocket!Complete, Websocket!EraseFrame, Websocket!Kept, Websocket!peer,
      Websocket!Parsing
  <2>2. consumed' = Websocket!End(Websocket!First) /\ consumed' \in 0..arrived
    <3>1. Websocket!First \in DOMAIN stream /\ Websocket!End(Websocket!First) <= arrived
          /\ consumed' = Websocket!End(Websocket!First)
      BY <1>6, <2>1, WebsocketComplete
    <3>2. Websocket!End(Websocket!First) \in Nat  BY <1>1, <3>1, FrameShape
    <3>3. QED  BY <1>1, <1>2, <3>1, <3>2
  <2>3. /\ Frames(consumed', handled', pongs')
        /\ handled' \in Seq(DOMAIN stream) /\ pongs' \in Seq(DOMAIN stream)
        /\ BeforeClose(handled') /\ BeforeClose(pongs')
    BY <1>6, <2>2, WebsocketTaken
  <2>4. QED  BY <1>1, <2>1, <2>2, <2>3, WebsocketThen
<1>7. CASE Websocket!Ping
  <2>1. Websocket!Complete({"ping"}) /\ stream[Websocket!First].op = "ping"
    BY <1>7 DEF Websocket!Ping, Websocket!Complete
  <2>2. QED  BY <1>6, <1>7, <2>1 DEF Websocket!Ping
<1>8. CASE Websocket!Pong
  <2>1. Websocket!Complete({"pong"}) /\ stream[Websocket!First].op = "pong"
    BY <1>8 DEF Websocket!Pong, Websocket!Complete
  <2>2. QED  BY <1>6, <1>8, <2>1 DEF Websocket!Pong
<1>9. CASE Websocket!DataFrame
  <2>1. /\ Websocket!Complete({"continuation", "text", "binary"})
        /\ stream[Websocket!First].op \in Websocket!Data
        /\ stream[Websocket!First].op \notin {"close", "unknown"}
    BY <1>9 DEF Websocket!DataFrame, Websocket!Complete, Websocket!Data
  <2>2. handled' = Append(handled, Websocket!First) /\ pongs' = pongs /\ Websocket!Kept
    BY <1>9 DEF Websocket!DataFrame
  <2>3. CASE Websocket!EraseFrame  BY <1>6, <2>1, <2>2, <2>3
  <2>4. CASE pc' = "close" /\ UNCHANGED <<consumed, state>>
    <3>1. /\ UNCHANGED <<upgrade, stream, arrived, phase, timed_out, left, tick, pinged, late>>
          /\ pc = "parse" /\ state = "CONNECTED"
      BY <2>1, <2>2 DEF Websocket!Complete, Websocket!Kept, Websocket!peer, Websocket!Parsing
    <3>2. /\ handled' \in Seq(DOMAIN stream) /\ pongs' \in Seq(DOMAIN stream)
          /\ BeforeClose(handled') /\ BeforeClose(pongs')
      BY <2>1, <2>2, WebsocketTaken
    <3>3. QED  BY <1>1, <2>4, <3>1, <3>2, WebsocketThen
  <2>5. QED  BY <1>9, <2>3, <2>4 DEF Websocket!DataFrame
<1>10. CASE Websocket!Close
  <2>1. /\ UNCHANGED <<upgrade, stream, arrived, timed_out, left, tick, pinged, late>>
        /\ UNCHANGED <<pongs, handled>> /\ pc' = "wait" /\ phase' = "closed"
        /\ state' = "HTTP_HEADERS" /\ consumed' = arrived
    BY <1>10 DEF Websocket!Close, Websocket!peer
  <2>2. consumed' \in 0..arrived'  BY <1>1, <1>2, <2>1
  <2>3. QED  BY <1>1, <2>1, <2>2, WebsocketThen
<1>11. CASE Websocket!Connected
  <2>1. /\ UNCHANGED <<upgrade, stream, arrived, consumed, state, timed_out, left, tick, pinged>>
        /\ UNCHANGED <<pc, pongs, handled, late>> /\ pc = "wait" /\ phase # "closed"
        /\ phase # "up" /\ phase' \in {"handshake", "up"}
    BY <1>11 DEF Websocket!Connected, Websocket!Waiting, Websocket!peer
  <2>2. QED  BY <1>1, <2>1, WebsocketThen
<1>12. CASE Websocket!Receive
  <2>1. /\ UNCHANGED <<upgrade, stream, consumed, phase, state, timed_out, left, tick, pinged>>
        /\ UNCHANGED <<pongs, handled>> /\ pc = "wait" /\ phase = "up" /\ pc' = "parse"
        /\ arrived' \in Websocket!Cuts /\ arrived' > arrived
        /\ late' = (arrived < upgrade.size)
    BY <1>12 DEF Websocket!Receive, Websocket!Waiting, Websocket!peer
  <2>2. arrived' \in 0..Websocket!Total /\ consumed' \in 0..arrived'
    <3>1. arrived' \in 0..Websocket!Total  BY <1>1, <2>1, WebsocketCuts
    <3>2. QED  BY <1>1, <1>2, <2>1, <3>1
  <2>l. (arrived < upgrade.size) \in BOOLEAN  OBVIOUS
  <2>3. late' \in BOOLEAN  BY <2>1, <2>l, Zenon
  <2>4. consumed = 0 /\ state = "HTTP_HEADERS" => late'
    <3>1. consumed = 0 /\ state = "HTTP_HEADERS" => arrived < upgrade.size
      BY <1>1, <1>2, <2>1
    <3>2. QED  BY <2>1, <3>1, Zenon
  <2>5. QED  BY <1>1, <2>1, <2>2, <2>3, <2>4, WebsocketThen
<1>13. CASE Websocket!PeerCloses
  <2>1. /\ UNCHANGED <<upgrade, stream, arrived, consumed, state, timed_out, left, tick, pinged>>
        /\ UNCHANGED <<phase, pongs, handled, late>> /\ phase # "closed" /\ pc' = "close"
    BY <1>13 DEF Websocket!PeerCloses, Websocket!Waiting, Websocket!peer
  <2>2. QED  BY <1>1, <2>1, WebsocketThen
<1>14. CASE Websocket!OneSecondTimer
  <2>1. /\ UNCHANGED <<upgrade, stream, arrived, consumed, phase, state, pongs, handled, late>>
        /\ pc = "wait"
    BY <1>14 DEF Websocket!OneSecondTimer, Websocket!peer
  <2>2. left' \in 0..UpgradeTimeout /\ tick' \in 0..Keepalive - 1
    BY <1>1, <1>2, <1>14 DEF Websocket!OneSecondTimer
  <2>3. pinged' \in BOOLEAN /\ timed_out' \in BOOLEAN
    <3>1. pinged' = (tick' = 0 /\ state = "CONNECTED")
          /\ timed_out' = (timed_out \/ (Websocket!Overdue /\ state # "CONNECTED"))
      BY <1>14 DEF Websocket!OneSecondTimer
    <3>2. QED  BY <3>1, Zenon
  <2>4. \/ pc' = "close" /\ phase # "closed" /\ state # "CONNECTED"
        \/ pc' = pc
    BY <1>14 DEF Websocket!OneSecondTimer, Websocket!Overdue
  <2>5. QED  BY <1>1, <2>1, <2>2, <2>3, <2>4, WebsocketThen
<1>15. QED
  BY <1>3, <1>4, <1>5, <1>7, <1>8, <1>9, <1>10, <1>11, <1>12, <1>13, <1>14
     DEF Websocket!Next, Websocket!HandleBuffer

-----------------------------------------------------------------------------
(* HttpsClient.                                                              *)

\* Of the sets that lie in such intervals, the one of an interval is what they have there.
LEMMA Blocks ==
  ASSUME NEW n \in Nat, NEW a \in [1..n -> Nat], NEW b \in [1..n -> Nat],
         \A i \in 1..n : a[i] < b[i], \A i \in 1..n - 1 : a[i + 1] = b[i],
         NEW S, \A i \in 1..n : S[i] \subseteq Nat /\ \A p \in S[i] : a[i] < p /\ p <= b[i]
  PROVE  \A k \in 1..n : \A p \in Nat : a[k] < p /\ p <= b[k] =>
           (p \in UNION {S[i] : i \in 1..n} <=> p \in S[k])
<1>1. \A i, j \in 1..n : i < j => b[i] <= a[j]  BY Chain
<1> SUFFICES ASSUME NEW k \in 1..n, NEW p \in Nat, a[k] < p, p <= b[k], NEW i \in 1..n, p \in S[i]
             PROVE  i = k
  OBVIOUS
<1>2. a[i] < p /\ p <= b[i] /\ a[i] \in Nat /\ b[i] \in Nat /\ a[k] \in Nat /\ b[k] \in Nat
  OBVIOUS
<1>3. CASE i < k
  <2>1. b[i] <= a[k]  BY <1>1, <1>3
  <2>2. QED  BY <1>2, <2>1
<1>4. CASE k < i
  <2>1. b[k] <= a[i]  BY <1>1, <1>4
  <2>2. QED  BY <1>2, <2>1
<1>5. QED  BY <1>3, <1>4

\* What the assumption says of the answer.
LEMMA AnswerShape ==
  ASSUME ConnectionsAssumption, response \in Responses
  PROVE  LET cs == response.chunks IN
         /\ None \notin Nat /\ Bad \notin Nat /\ None # Bad
         /\ HttpsTimeout \in Nat /\ Grace \in Nat /\ MaxThrows \in Nat
         /\ response.ok \in BOOLEAN /\ response.status \in Nat
         /\ response.length \in {None, Bad} \cup Nat /\ response.size \in Nat
         /\ Len(cs) \in Nat /\ DOMAIN cs = 1..Len(cs) /\ (cs = <<>> <=> Len(cs) = 0)
         /\ cs # <<>> => cs[1].at = 2
         /\ \A k \in DOMAIN cs :
              /\ cs[k].size \in Nat \cup {Bad} /\ cs[k].at \in Nat
              /\ cs[k].size = 0 <=> k = Len(cs)
              /\ Https!Width(cs[k].size) \in Nat /\ Https!Width(cs[k].size) >= 3
         /\ \A k \in 1..Len(cs) - 1 : cs[k + 1].at = cs[k].at + Https!Width(cs[k].size)
         /\ Https!Chunks = {cs[k] : k \in DOMAIN cs}
<1> DEFINE cs == response.chunks
<1>1. /\ HttpsTimeout \in Nat /\ Grace \in Nat /\ MaxThrows \in Nat
      /\ None \notin Nat /\ Bad \notin Nat /\ None # Bad
      /\ response.ok \in BOOLEAN /\ response.status \in Nat
      /\ response.length \in {None, Bad} \cup Nat /\ response.size \in Nat
      /\ cs \in Seq([size : Nat \cup {Bad}, at : Nat])
      /\ cs # <<>> => cs[1].at = 2
      /\ \A k \in DOMAIN cs :
            /\ cs[k].size = 0 <=> k = Len(cs)
            /\ k < Len(cs) => cs[k + 1].at = cs[k].at + Https!Width(cs[k].size)
  BY Zenon DEF ConnectionsAssumption, Https!HttpsAssumption
<1> HIDE DEF cs
<1>2. Len(cs) \in Nat /\ DOMAIN cs = 1..Len(cs) /\ (cs = <<>> <=> Len(cs) = 0)
  BY <1>1
<1>3. \A k \in DOMAIN cs : cs[k].size \in Nat \cup {Bad} /\ cs[k].at \in Nat
  <2> DEFINE C == [size : Nat \cup {Bad}, at : Nat]
  <2>1. \A k \in DOMAIN cs : cs[k] \in C
    <3> HIDE DEF C
    <3>1. cs \in Seq(C)  BY <1>1 DEF C
    <3>2. QED  BY <3>1
  <2>2. QED  BY <2>1
<1>4. \A k \in DOMAIN cs : /\ Https!Width(cs[k].size) \in Nat
                           /\ Https!Width(cs[k].size) >= 3
  BY <1>3 DEF Https!Width
<1>5. \A k \in 1..Len(cs) - 1 : k \in DOMAIN cs /\ k < Len(cs)  BY <1>2
<1>6. Https!Chunks = {cs[k] : k \in DOMAIN cs}
  BY DEF Https!Chunks, Https!Range, cs
<1>7. QED  BY <1>1, <1>2, <1>3, <1>4, <1>5, <1>6 DEF cs

\* The chunks follow each other, the units and the CRs of a chunk are its own, and all of them
\* are in the answer.
LEMMA AnswerOrder ==
  ASSUME ConnectionsAssumption, response \in Responses, response.chunks # <<>>
  PROVE  LET cs == response.chunks IN
         /\ \A j, k \in DOMAIN cs : j < k => cs[j].at + Https!Width(cs[j].size) <= cs[k].at
         /\ \A k \in DOMAIN cs : cs[k].at >= 2 /\ cs[k].at + Https!Width(cs[k].size) <= Https!Total
         /\ Https!Total \in Nat /\ Len(cs) \in DOMAIN cs /\ 1 \in DOMAIN cs
         /\ Https!Total = cs[Len(cs)].at + 5
         /\ \A k \in DOMAIN cs : \A p \in Nat :
              cs[k].at < p /\ p <= cs[k].at + Https!Width(cs[k].size) =>
                /\ p \in Https!Units <=> p \in Https!Inside(cs[k])
                /\ p \in Https!CR <=> p \in Https!Returns(cs[k])
         /\ Https!Units \subseteq 3..Https!Total /\ Https!CR \subseteq Nat
<1> DEFINE cs == response.chunks
           n == Len(cs)
           a == [k \in 1..n |-> cs[k].at]
           b == [k \in 1..n |-> cs[k].at + Https!Width(cs[k].size)]
           U == [k \in 1..n |-> Https!Inside(cs[k])]
           R == [k \in 1..n |-> Https!Returns(cs[k])]
<1>1. /\ n \in Nat \ {0} /\ DOMAIN cs = 1..n /\ cs[1].at = 2 /\ Bad \notin Nat
      /\ \A k \in 1..n :
           /\ cs[k].size \in Nat \cup {Bad} /\ cs[k].at \in Nat
           /\ cs[k].size = 0 <=> k = n
           /\ Https!Width(cs[k].size) \in Nat /\ Https!Width(cs[k].size) >= 3
      /\ \A k \in 1..n - 1 : cs[k + 1].at = cs[k].at + Https!Width(cs[k].size)
      /\ Https!Chunks = {cs[k] : k \in 1..n}
  BY AnswerShape
<1>t. Https!Total = cs[n].at + 5  BY DEF Https!Total
<1>u. Https!Units = UNION {Https!Inside(c) : c \in Https!Chunks}
      /\ Https!CR = UNION {Https!Returns(c) : c \in Https!Chunks}
  BY DEF Https!Units, Https!CR
<1> HIDE DEF cs, n
<1>2. /\ a \in [1..n -> Nat] /\ b \in [1..n -> Nat]
      /\ \A k \in 1..n : a[k] < b[k]
      /\ \A k \in 1..n - 1 : a[k + 1] = b[k]
  <2>1. \A k \in 1..n - 1 : k \in 1..n /\ k + 1 \in 1..n  BY <1>1
  <2>2. \A k \in 1..n : /\ cs[k].at + Https!Width(cs[k].size) \in Nat
                        /\ cs[k].at < cs[k].at + Https!Width(cs[k].size)
    BY <1>1
  <2>3. QED  BY <1>1, <2>1, <2>2
<1>3. \A k \in 1..n : /\ U[k] \subseteq Nat /\ \A p \in U[k] : a[k] + 3 < p /\ p <= b[k]
                      /\ R[k] \subseteq Nat /\ \A p \in R[k] : a[k] < p /\ p <= b[k]
  <2> SUFFICES ASSUME NEW k \in 1..n
               PROVE  /\ U[k] \subseteq Nat /\ \A p \in U[k] : a[k] + 3 < p /\ p <= b[k]
                      /\ R[k] \subseteq Nat /\ \A p \in R[k] : a[k] < p /\ p <= b[k]
    OBVIOUS
  <2>1. /\ a[k] = cs[k].at /\ b[k] = cs[k].at + Https!Width(cs[k].size)
        /\ U[k] = Https!Inside(cs[k]) /\ R[k] = Https!Returns(cs[k])
    OBVIOUS
  <2>2. cs[k].at \in Nat /\ cs[k].size \in Nat \cup {Bad}  BY <1>1
  <2> HIDE DEF a, b, U, R
  <2>3. CASE cs[k].size = Bad
    BY <1>1, <2>1, <2>2, <2>3 DEF Https!Inside, Https!Returns, Https!Width
  <2>4. CASE cs[k].size # Bad
    <3>1. /\ U[k] = cs[k].at + 4..cs[k].at + 3 + cs[k].size
          /\ R[k] = {cs[k].at + 2, cs[k].at + 4 + cs[k].size}
          /\ b[k] = cs[k].at + (cs[k].size + 5)
      BY <2>1, <2>4 DEF Https!Inside, Https!Returns, Https!Width
    <3>2. cs[k].size \in Nat  BY <2>2, <2>4
    <3> DEFINE at == cs[k].at
               size == cs[k].size
    <3>3. /\ at + 4..at + 3 + size \subseteq Nat
          /\ \A p \in at + 4..at + 3 + size : at + 3 < p /\ p <= at + (size + 5)
          /\ {at + 2, at + 4 + size} \subseteq Nat
          /\ \A p \in {at + 2, at + 4 + size} : at < p /\ p <= at + (size + 5)
      <4>1. at \in Nat /\ size \in Nat  BY <2>2, <3>2
      <4> HIDE DEF at, size
      <4>2. QED  BY <4>1
    <3>4. QED  BY <2>1, <3>1, <3>3
  <2>5. QED  BY <2>3, <2>4
<1>4. /\ Https!Units = UNION {U[k] : k \in 1..n}
      /\ Https!CR = UNION {R[k] : k \in 1..n}
  <2>1. \A k \in 1..n : U[k] = Https!Inside(cs[k]) /\ R[k] = Https!Returns(cs[k])
    OBVIOUS
  <2> HIDE DEF U, R
  <2>2. /\ \A c \in Https!Chunks : \E k \in 1..n : c = cs[k]
        /\ \A k \in 1..n : cs[k] \in Https!Chunks
    BY <1>1
  <2>3. /\ \A c \in Https!Chunks : \E k \in 1..n :
             Https!Inside(c) = U[k] /\ Https!Returns(c) = R[k]
    BY <2>1, <2>2
  <2>4. \A k \in 1..n : \E c \in Https!Chunks : Https!Inside(c) = U[k] /\ Https!Returns(c) = R[k]
    BY <2>1, <2>2
  <2>5. QED  BY <1>u, <2>3, <2>4
<1>5. /\ \A k \in 1..n : a[k] = cs[k].at /\ b[k] = cs[k].at + Https!Width(cs[k].size)
      /\ \A k \in 1..n : U[k] = Https!Inside(cs[k]) /\ R[k] = Https!Returns(cs[k])
  OBVIOUS
<1> HIDE DEF a, b, U, R
<1>6. \A j, k \in 1..n : j < k => b[j] <= a[k]  BY <1>1, <1>2, Chain
<1>7. \A k \in 1..n : \A p \in Nat : a[k] < p /\ p <= b[k] =>
        (p \in UNION {U[i] : i \in 1..n} <=> p \in U[k])
  <2>1. \A i \in 1..n : U[i] \subseteq Nat /\ \A p \in U[i] : a[i] < p /\ p <= b[i]
    BY <1>2, <1>3
  <2>2. QED  BY <1>1, <1>2, <2>1, Blocks
<1>8. \A k \in 1..n : \A p \in Nat : a[k] < p /\ p <= b[k] =>
        (p \in UNION {R[i] : i \in 1..n} <=> p \in R[k])
  <2>1. \A i \in 1..n : R[i] \subseteq Nat /\ \A p \in R[i] : a[i] < p /\ p <= b[i]
    BY <1>3
  <2>2. QED  BY <1>1, <1>2, <2>1, Blocks
<1>9. Https!Total = b[n] /\ n \in 1..n /\ 1 \in 1..n
  BY <1>1, <1>5, <1>t DEF Https!Width
<1>10. \A k \in 1..n : a[k] >= 2 /\ b[k] <= b[n]
  <2> SUFFICES ASSUME NEW k \in 1..n  PROVE a[k] >= 2 /\ b[k] <= b[n]
    OBVIOUS
  <2>1. (k = 1 \/ 1 < k) /\ (k = n \/ k < n)  BY <1>1
  <2>2. /\ a[1] = 2 /\ a[1] < b[1] /\ a[n] < b[n]
        /\ a[k] \in Nat /\ b[k] \in Nat /\ b[1] \in Nat /\ a[n] \in Nat /\ b[n] \in Nat
    BY <1>1, <1>2, <1>5, <1>9
  <2>3. (1 < k => b[1] <= a[k]) /\ (k < n => b[k] <= a[n])  BY <1>6, <1>9
  <2>4. QED  BY <2>1, <2>2, <2>3
<1>11. Https!Units \subseteq 3..Https!Total /\ Https!CR \subseteq Nat
  <2>1. b[n] \in Nat  BY <1>2, <1>9
  <2>2. \A k \in 1..n : \A p \in U[k] : p \in 3..b[n]
    BY <1>2, <1>3, <1>10, <2>1
  <2>3. QED  BY <1>3, <1>4, <1>9, <2>2
<1>12. Https!Total \in Nat  BY <1>2, <1>9
<1>13. \A k \in DOMAIN cs : \A p \in Nat :
         cs[k].at < p /\ p <= cs[k].at + Https!Width(cs[k].size) =>
           /\ p \in Https!Units <=> p \in Https!Inside(cs[k])
           /\ p \in Https!CR <=> p \in Https!Returns(cs[k])
  <2> SUFFICES ASSUME NEW k \in 1..n, NEW p \in Nat, cs[k].at < p,
                      p <= cs[k].at + Https!Width(cs[k].size)
               PROVE  /\ p \in Https!Units <=> p \in Https!Inside(cs[k])
                      /\ p \in Https!CR <=> p \in Https!Returns(cs[k])
    BY <1>1
  <2>1. a[k] < p /\ p <= b[k]  BY <1>5
  <2>2. p \in Https!Units <=> p \in U[k]  BY <1>4, <1>7, <2>1
  <2>3. p \in Https!CR <=> p \in R[k]  BY <1>4, <1>8, <2>1
  <2>4. QED  BY <1>5, <2>2, <2>3
<1>14. \A j, k \in DOMAIN cs : j < k => cs[j].at + Https!Width(cs[j].size) <= cs[k].at
  <2>1. DOMAIN cs = 1..n  BY <1>1
  <2> SUFFICES ASSUME NEW j \in 1..n, NEW k \in 1..n, j < k
               PROVE  cs[j].at + Https!Width(cs[j].size) <= cs[k].at
    BY <2>1, Zenon
  <2>2. b[j] <= a[k]  BY <1>6
  <2>3. b[j] = cs[j].at + Https!Width(cs[j].size) /\ a[k] = cs[k].at  BY <1>5
  <2>4. QED  BY <2>2, <2>3
<1>15. \A k \in DOMAIN cs : cs[k].at >= 2 /\ cs[k].at + Https!Width(cs[k].size) <= Https!Total
  <2>1. DOMAIN cs = 1..n  BY <1>1
  <2> SUFFICES ASSUME NEW k \in 1..n
               PROVE  cs[k].at >= 2 /\ cs[k].at + Https!Width(cs[k].size) <= Https!Total
    BY <2>1, Zenon
  <2>2. a[k] >= 2 /\ b[k] <= Https!Total  BY <1>9, <1>10
  <2>3. b[k] = cs[k].at + Https!Width(cs[k].size) /\ a[k] = cs[k].at  BY <1>5
  <2>4. QED  BY <2>2, <2>3
<1>16. n \in DOMAIN cs /\ 1 \in DOMAIN cs  BY <1>1
<1>17. QED  BY <1>11, <1>12, <1>13, <1>14, <1>15, <1>16, <1>t DEF cs, n

\* The units up to a token.
UpTo(n) == {p \in Https!Units : p <= n}

\* Between two tokens that have no unit between them the units are the same.
LEMMA SameUnits ==
  ASSUME Https!Units \subseteq Nat, NEW x \in Nat, NEW y \in Nat, x <= y,
         \A p \in Nat : x < p /\ p <= y => p \notin Https!Units
  PROVE  UpTo(y) = UpTo(x)
<1>1. \A p \in Https!Units : p <= x <=> p <= y  OBVIOUS
<1>2. QED  BY <1>1, Zenon DEF UpTo

\* The units of the answer at the borders of a chunk.
LEMMA ChunkUnits ==
  ASSUME ConnectionsAssumption, response \in Responses, response.chunks # <<>>,
         NEW k \in DOMAIN response.chunks
  PROVE  LET at == response.chunks[k].at
             size == response.chunks[k].size IN
         /\ UpTo(at + 3) = UpTo(at)
         /\ size # Bad =>
              /\ UpTo(at + 5 + size) = UpTo(at + 3 + size)
              /\ at + 4..at + 3 + size \subseteq Https!Units
              /\ at + 5 + size <= Https!Total
              /\ at + 4 + size \in Https!CR
         /\ size = 0 => UpTo(at + 3) = Https!Units
         /\ at + 2 \in Https!CR /\ at + 3 <= Https!Total
         /\ \A q \in Https!CR : at < q => at + 2 <= q
<1> DEFINE c == response.chunks[k]
           at == c.at
           size == c.size
<1>1. /\ at \in Nat /\ size \in Nat \cup {Bad} /\ Bad \notin Nat
      /\ size = 0 => k = Len(response.chunks)
  BY AnswerShape
<1>2. /\ at + Https!Width(size) <= Https!Total /\ Https!Total \in Nat
      /\ \A p \in Nat : at < p /\ p <= at + Https!Width(size) =>
           /\ p \in Https!Units <=> p \in Https!Inside(c)
           /\ p \in Https!CR <=> p \in Https!Returns(c)
      /\ Https!Units \subseteq 3..Https!Total /\ Https!CR \subseteq Nat
      /\ Https!Total = response.chunks[Len(response.chunks)].at + 5
  BY AnswerOrder
<1>3. size = 0 => Https!Total = at + 5  BY <1>1, <1>2
<1>4. /\ Https!Inside(c) = IF size = Bad THEN {} ELSE at + 4..at + 3 + size
      /\ Https!Returns(c) = {at + 2} \cup (IF size = Bad THEN {} ELSE {at + 4 + size})
      /\ Https!Width(size) = IF size = Bad THEN 3 ELSE size + 5
  BY DEF Https!Inside, Https!Returns, Https!Width
<1> HIDE DEF c, at, size
<1>5. CASE size = Bad
  <2>1. \A p \in Nat : at < p /\ p <= at + 3 =>
          p \notin Https!Units /\ (p \in Https!CR <=> p = at + 2)
    BY <1>1, <1>2, <1>4, <1>5
  <2>2. UpTo(at + 3) = UpTo(at)
    <3>1. at + 3 \in Nat /\ at <= at + 3 /\ Https!Units \subseteq Nat  BY <1>1, <1>2
    <3>2. QED  BY <1>1, <2>1, <3>1, SameUnits
  <2>3. at + 2 \in Https!CR /\ at + 3 <= Https!Total  BY <1>1, <1>2, <1>4, <1>5, <2>1
  <2>4. \A q \in Https!CR : at < q => at + 2 <= q  BY <1>1, <1>2, <2>1
  <2>5. size # 0  BY <1>1, <1>5
  <2>6. QED  BY <1>5, <2>2, <2>3, <2>4, <2>5 DEF at, size, c
<1>6. CASE size # Bad
  <2>1. \A p \in Nat : at < p /\ p <= at + (size + 5) =>
          /\ p \in Https!Units <=> at + 4 <= p /\ p <= at + 3 + size
          /\ p \in Https!CR <=> p = at + 2 \/ p = at + 4 + size
    BY <1>1, <1>2, <1>4, <1>6
  <2>2. size \in Nat  BY <1>1, <1>6
  <2>u. Https!Units \subseteq Nat  BY <1>2
  <2>3. UpTo(at + 3) = UpTo(at)
    <3>1. at + 3 \in Nat /\ at <= at + 3  BY <1>1
    <3>2. \A p \in Nat : at < p /\ p <= at + 3 => p \notin Https!Units  BY <1>1, <2>1, <2>2
    <3>3. QED  BY <1>1, <2>u, <3>1, <3>2, SameUnits
  <2>4. UpTo(at + 5 + size) = UpTo(at + 3 + size)
    <3>1. at + 3 + size \in Nat /\ at + 5 + size \in Nat /\ at + 3 + size <= at + 5 + size
      BY <1>1, <2>2
    <3>2. \A p \in Nat : at + 3 + size < p /\ p <= at + 5 + size => p \notin Https!Units
      BY <1>1, <2>1, <2>2
    <3>3. QED  BY <2>u, <3>1, <3>2, SameUnits
  <2>5. at + 4..at + 3 + size \subseteq Https!Units  BY <1>1, <2>1, <2>2
  <2>6. at + 5 + size <= Https!Total /\ at + 3 <= Https!Total
    BY <1>1, <1>2, <1>4, <1>6, <2>2
  <2>7. at + 4 + size \in Https!CR /\ at + 2 \in Https!CR  BY <1>1, <2>1, <2>2
  <2>8. \A q \in Https!CR : at < q => at + 2 <= q  BY <1>1, <1>2, <2>1, <2>2
  <2>9. size = 0 => UpTo(at + 3) = Https!Units
    <3>1. size = 0 => \A p \in Https!Units : p <= at + 3
      BY <1>1, <1>2, <1>3, <2>1
    <3>2. QED  BY <3>1 DEF UpTo
  <2>10. QED  BY <2>3, <2>4, <2>5, <2>6, <2>7, <2>8, <2>9 DEF at, size, c
<1>7. QED  BY <1>5, <1>6

\* The units of an answer without chunks, and what it has at its beginning and its end.
LEMMA PlainUnits ==
  ASSUME ConnectionsAssumption, response \in Responses
  PROVE  /\ response.chunks = <<>> =>
              Https!Units = 3..2 + response.size /\ Https!Total = 2 + response.size
         /\ Https!Total \in Nat /\ Https!Total >= 2
         /\ Https!Units \subseteq 3..Https!Total
         /\ UpTo(0) = {} /\ UpTo(2) = {} /\ UpTo(Https!Total) = Https!Units
<1>1. response.size \in Nat  BY AnswerShape
<1>2. /\ Https!Total \in Nat /\ Https!Total >= 2 /\ Https!Units \subseteq 3..Https!Total
      /\ response.chunks = <<>> =>
           Https!Units = 3..2 + response.size /\ Https!Total = 2 + response.size
  <2>1. CASE response.chunks = <<>>
    BY <1>1, <2>1 DEF Https!Units, Https!Total
  <2>2. CASE response.chunks # <<>>
    <3>1. /\ Https!Units \subseteq 3..Https!Total /\ Https!Total \in Nat
          /\ Https!Total = response.chunks[Len(response.chunks)].at + 5
          /\ Len(response.chunks) \in DOMAIN response.chunks
      BY <2>2, AnswerOrder
    <3>2. response.chunks[Len(response.chunks)].at \in Nat  BY <3>1, AnswerShape
    <3>3. QED  BY <2>2, <3>1, <3>2
  <2>3. QED  BY <2>1, <2>2
<1>3. UpTo(0) = {} /\ UpTo(2) = {} /\ UpTo(Https!Total) = Https!Units
  <2>a. \A p \in 3..Https!Total : ~(p <= 0) /\ ~(p <= 2) /\ p <= Https!Total  BY <1>2
  <2>b. \A p \in Https!Units : p \in 3..Https!Total  BY <1>2
  <2>1. \A p \in Https!Units : ~(p <= 0) /\ ~(p <= 2) /\ p <= Https!Total
    BY <2>a, <2>b, Zenon
  <2>2. QED  BY <2>1, Zenon DEF UpTo
<1>4. QED  BY <1>2, <1>3

\* A body that has the units up to a token, and the next ones.
Increasing(b) == \A i, j \in DOMAIN b : i < j => b[i] < b[j]
HasUpTo(b, U, c) == b \in Seq(Nat) /\ Increasing(b) /\ Https!Range(b) = {p \in U : p <= c}
Counted(c, m) == [i \in 1..m |-> c + i]

\* Such a body with the tokens that come next, all of them units.
LEMMA Longer ==
  ASSUME NEW U, U \subseteq Nat, NEW b, NEW c \in Nat, NEW m \in Nat,
         HasUpTo(b, U, c), c + 1..c + m \subseteq U
  PROVE  HasUpTo(b \o Counted(c, m), U, c + m)
<1>0. /\ b \in Seq(Nat) /\ Https!Range(b) = {p \in U : p <= c}
      /\ \A i, j \in DOMAIN b : i < j => b[i] < b[j]
  BY DEF HasUpTo, Increasing
<1> DEFINE a == [i \in 1..m |-> c + i]
           t == b \o a
<1>1. /\ a \in Seq(Nat) /\ Len(a) = m /\ \A i \in 1..m : a[i] = c + i
  OBVIOUS
<1> HIDE DEF a
<1>2. /\ t \in Seq(Nat) /\ Len(t) = Len(b) + m /\ DOMAIN b = 1..Len(b) /\ Len(b) \in Nat
      /\ DOMAIN t = 1..Len(b) + m
      /\ \A i \in 1..Len(b) : t[i] = b[i]
      /\ \A i \in Len(b) + 1..Len(b) + m : t[i] = a[i - Len(b)]
  <2>1. DOMAIN b = 1..Len(b) /\ Len(b) \in Nat  BY <1>0
  <2>2. /\ t \in Seq(Nat) /\ Len(t) = Len(b) + m
        /\ \A i \in 1..Len(b) + m : t[i] = IF i <= Len(b) THEN b[i] ELSE a[i - Len(b)]
    BY <1>0, <1>1, ConcatProperties
  <2> HIDE DEF t
  <2>3. DOMAIN t = 1..Len(b) + m  BY <2>2
  <2>4. /\ \A i \in 1..Len(b) : i \in 1..Len(b) + m /\ i <= Len(b)
        /\ \A i \in Len(b) + 1..Len(b) + m : i \in 1..Len(b) + m /\ ~(i <= Len(b))
    BY <2>1
  <2>5. QED  BY <2>1, <2>2, <2>3, <2>4
<1>3. \A i \in Len(b) + 1..Len(b) + m : t[i] = c + (i - Len(b))
  <2> SUFFICES ASSUME NEW i \in Len(b) + 1..Len(b) + m  PROVE t[i] = c + (i - Len(b))
    OBVIOUS
  <2>1. i - Len(b) \in 1..m  BY <1>2
  <2>2. QED  BY <1>1, <1>2, <2>1
<1>4. \A i \in 1..Len(b) : t[i] \in U /\ t[i] <= c /\ t[i] \in Nat
  BY <1>0, <1>2 DEF Https!Range
<1> HIDE DEF t
<1>5. \A i, j \in DOMAIN t : i < j => t[i] < t[j]
  <2> SUFFICES ASSUME NEW i \in 1..Len(b) + m, NEW j \in 1..Len(b) + m, i < j
               PROVE  t[i] < t[j]
    BY <1>2
  <2>1. CASE j <= Len(b)
    <3>1. i \in DOMAIN b /\ j \in DOMAIN b  BY <1>2, <2>1
    <3>2. QED  BY <1>0, <1>2, <3>1
  <2>2. CASE i <= Len(b) /\ j > Len(b)
    <3>1. i \in 1..Len(b) /\ j \in Len(b) + 1..Len(b) + m  BY <1>2, <2>2
    <3>2. t[i] <= c /\ t[i] \in Nat /\ t[j] = c + (j - Len(b))  BY <1>3, <1>4, <3>1
    <3>3. QED  BY <1>2, <2>2, <3>2
  <2>3. CASE i > Len(b) /\ j > Len(b)
    <3>1. i \in Len(b) + 1..Len(b) + m /\ j \in Len(b) + 1..Len(b) + m  BY <1>2, <2>3
    <3>2. t[i] = c + (i - Len(b)) /\ t[j] = c + (j - Len(b))  BY <1>3, <3>1
    <3>3. QED  BY <1>2, <3>2
  <2>4. QED  BY <1>2, <2>1, <2>2, <2>3
<1>6. Https!Range(t) = {p \in U : p <= c + m}
  <2>1. Https!Range(t) = {t[i] : i \in 1..Len(b) + m}  BY <1>0, <1>2 DEF Https!Range
  <2>2. \A i \in 1..Len(b) + m : t[i] \in U /\ t[i] <= c + m
    <3> SUFFICES ASSUME NEW i \in 1..Len(b) + m  PROVE t[i] \in U /\ t[i] <= c + m
      OBVIOUS
    <3>1. CASE i <= Len(b)
      <4>1. i \in 1..Len(b)  BY <1>0, <1>2, <3>1
      <4>2. QED  BY <1>4, <4>1
    <3>2. CASE i > Len(b)
      <4>1. i \in Len(b) + 1..Len(b) + m  BY <1>2, <3>2
      <4>2. t[i] = c + (i - Len(b))  BY <1>3, <4>1
      <4>3. QED  BY <1>2, <3>2, <4>2
    <3>3. QED  BY <1>2, <3>1, <3>2
  <2>3. \A p \in U : p <= c + m => \E i \in 1..Len(b) + m : p = t[i]
    <3> SUFFICES ASSUME NEW p \in U, p <= c + m  PROVE \E i \in 1..Len(b) + m : p = t[i]
      OBVIOUS
    <3>1. CASE p <= c
      <4>1. p \in Https!Range(b)  BY <1>0, <3>1
      <4>2. PICK i \in 1..Len(b) : p = b[i]  BY <1>0, <1>2, <4>1 DEF Https!Range
      <4>3. i \in 1..Len(b) + m /\ p = t[i]  BY <1>2, <4>2
      <4>4. QED  BY <4>3
    <3>2. CASE p > c
      <4>1. Len(b) + (p - c) \in Len(b) + 1..Len(b) + m /\ Len(b) + (p - c) \in 1..Len(b) + m
        BY <1>2, <3>2
      <4>2. t[Len(b) + (p - c)] = c + ((Len(b) + (p - c)) - Len(b))  BY <1>3, <4>1
      <4>3. t[Len(b) + (p - c)] = p  BY <1>2, <4>2
      <4>4. QED  BY <4>1, <4>3
    <3>3. QED  BY <3>1, <3>2
  <2>4. QED  BY <2>1, <2>2, <2>3
<1>7. t = b \o Counted(c, m)  BY DEF t, a, Counted
<1>8. QED  BY <1>2, <1>5, <1>6, <1>7 DEF HasUpTo, Increasing

\* The line that the parser finds at the beginning of a chunk, and the number in it.
LEMMA ChunkLine ==
  ASSUME ConnectionsAssumption, response \in Responses, response.chunks # <<>>,
         NEW k \in DOMAIN response.chunks, consumed = response.chunks[k].at, arrived \in Nat
  PROVE  /\ Https!Line = consumed + 2
         /\ Https!HasLine <=> consumed + 2 < arrived
         /\ Https!Numbers = {response.chunks[k].size} \ {Bad}
<1>1. /\ consumed \in Nat /\ Https!CR \subseteq Nat
      /\ consumed + 2 \in Https!CR
      /\ \A q \in Https!CR : consumed < q => consumed + 2 <= q
  BY AnswerShape, AnswerOrder, ChunkUnits
<1>2. \A p \in Https!CR : (consumed < p /\ \A q \in Https!CR : consumed < q => p <= q)
                            <=> p = consumed + 2
  BY <1>1
<1>3. Https!Line = consumed + 2
  BY <1>1, <1>2 DEF Https!Line
<1>4. Https!HasLine <=> consumed + 2 < arrived
  BY <1>1 DEF Https!HasLine
<1>5. \A j \in DOMAIN response.chunks : response.chunks[j].at = consumed => j = k
  <2> SUFFICES ASSUME NEW j \in DOMAIN response.chunks, response.chunks[j].at = consumed
               PROVE  j = k
    OBVIOUS
  <2> DEFINE cs == response.chunks
  <2>1. DOMAIN cs = 1..Len(cs) /\ Len(cs) \in Nat
        /\ Https!Width(cs[j].size) \in Nat /\ Https!Width(cs[j].size) >= 3
        /\ Https!Width(cs[k].size) \in Nat /\ Https!Width(cs[k].size) >= 3
    BY AnswerShape
  <2>2. /\ j < k => cs[j].at + Https!Width(cs[j].size) <= cs[k].at
        /\ k < j => cs[k].at + Https!Width(cs[k].size) <= cs[j].at
    BY AnswerOrder
  <2>3. cs[j].at = consumed /\ cs[k].at = consumed  OBVIOUS
  <2>4. j \in 1..Len(cs) /\ k \in 1..Len(cs)  BY <2>1
  <2> HIDE DEF cs
  <2>5. QED  BY <1>1, <2>1, <2>2, <2>3, <2>4
<1>6. {d \in Https!Chunks : d.at = consumed /\ d.at + 2 = Https!Line} = {response.chunks[k]}
  <2>1. Https!Chunks = {response.chunks[j] : j \in DOMAIN response.chunks}  BY AnswerShape
  <2>2. \A d \in Https!Chunks : d.at = consumed => d = response.chunks[k]  BY <1>5, <2>1
  <2>3. response.chunks[k] \in Https!Chunks  BY <2>1
  <2>4. QED  BY <1>3, <2>2, <2>3
<1>7. Https!Numbers = {response.chunks[k].size} \ {Bad}
  BY <1>6 DEF Https!Numbers
<1>8. QED  BY <1>3, <1>4, <1>7

\* The conjuncts of the inductive invariant, of any state of the parser and any calls.
InChunkAt(k, st, c, cs, cr) ==
  LET d == response.chunks[k] IN
  \/ st = "CHUNK_LEN" /\ c = d.at
  \/ st = "CHUNK_CONTENT" /\ cs = d.size /\ cr < d.size /\ c = d.at + 3 + cr
  \/ st = "CHUNK_TRAILER" /\ d.size \in Nat \ {0} /\ c = d.at + 3 + d.size
  \/ st = "CHUNK_LAST" /\ d.size = 0 /\ c = d.at + 3
ParsedAs(st, c, b, cl, cs, cr, l) ==
  /\ Https!Range(b) = UpTo(c)
  /\ \/ st = "HEADERS" /\ c = 0 /\ l <= HttpsTimeout
     \/ /\ st = "CONTENT" /\ response.chunks = <<>>
        /\ c >= 2 /\ Len(b) = c - 2 /\ cl = response.length
     \/ response.chunks # <<>> /\ \E k \in DOMAIN response.chunks : InChunkAt(k, st, c, cs, cr)
Begins(b) == Increasing(b) /\ \E n \in 0..Https!Total : Https!Range(b) = UpTo(n)
Tells(c) ==
  /\ c.by = "answer" /\ Https!SelfDelimiting => Begins(c.body) /\ Https!Range(c.body) = Https!Units
  /\ Begins(c.body)
Told(s) == \A i \in DOMAIN s : Tells(s[i])
Once(s) == \A i \in DOMAIN s : i < Len(s) => s[i].threw
Threw(s) == \A i \in DOMAIN s : s[i].threw
Goes(q, by) == q \in {"wait", "parse"} \/ (q = "close" /\ by = "timer")

\* The inductive invariant, conjunct by conjunct.
LEMMA HttpsNow ==
  Https!InductiveInvariant <=>
    /\ response \in Responses /\ calls \in Seq(Https!Call)
    /\ consumed \in 0..arrived /\ arrived \in 0..Https!Total /\ body \in Seq(Nat)
    /\ phase \in {"connecting", "handshake", "up", "closed"}
    /\ state \in {"HEADERS", "CONTENT", "DONE", "CHUNK_LEN", "CHUNK_TRAILER", "CHUNK_LAST",
                  "CHUNK_CONTENT"}
    /\ content_length \in Nat \cup {None} /\ chunked \in BOOLEAN /\ status \in Nat
    /\ chunk_size \in Nat /\ chunk_receive \in 0..chunk_size
    /\ completed \in BOOLEAN /\ timed_out \in BOOLEAN /\ ticking \in BOOLEAN
    /\ left \in 0..HttpsTimeout + Grace /\ throws \in 0..MaxThrows
    /\ pc \in {"wait", "parse", "close", "dead"} /\ caller \in {"read", "error", "timer"}
    /\ completed => Threw(calls)
    /\ phase = "closed" => state = "DONE" /\ pc = "wait"
    /\ state = "DONE" /\ Goes(pc, caller) => phase = "closed"
    /\ Goes(pc, caller) /\ phase # "closed" =>
         ParsedAs(state, consumed, body, content_length, chunk_size, chunk_receive, left)
    /\ Goes(pc, caller) /\ phase # "closed" /\ pc # "parse" /\ Https!SelfDelimiting =>
         arrived < Https!Total
    /\ Begins(body) /\ Once(calls) /\ Told(calls)
BY DEF Https!InductiveInvariant, Https!Answered, Https!TypeOK, Https!StillSet,
  Https!OverForGood, Https!Resumable, Https!Parsed, Https!InChunk, Https!Incomplete,
  Https!Beginning, Https!Whole, Https!CompletedOnce, Https!BodyWhole, Https!Blank, UpTo,
  InChunkAt, ParsedAs, Increasing, Begins, Tells, Told, Once, Threw, Goes

\* The same after a step: the answer stays.
LEMMA HttpsThen ==
  ASSUME response' = response
  PROVE
    /\ response \in Responses /\ calls' \in Seq(Https!Call)
    /\ consumed' \in 0..arrived' /\ arrived' \in 0..Https!Total /\ body' \in Seq(Nat)
    /\ phase' \in {"connecting", "handshake", "up", "closed"}
    /\ state' \in {"HEADERS", "CONTENT", "DONE", "CHUNK_LEN", "CHUNK_TRAILER", "CHUNK_LAST",
                   "CHUNK_CONTENT"}
    /\ content_length' \in Nat \cup {None} /\ chunked' \in BOOLEAN /\ status' \in Nat
    /\ chunk_size' \in Nat /\ chunk_receive' \in 0..chunk_size'
    /\ completed' \in BOOLEAN /\ timed_out' \in BOOLEAN /\ ticking' \in BOOLEAN
    /\ left' \in 0..HttpsTimeout + Grace /\ throws' \in 0..MaxThrows
    /\ pc' \in {"wait", "parse", "close", "dead"} /\ caller' \in {"read", "error", "timer"}
    /\ completed' => Threw(calls')
    /\ phase' = "closed" => state' = "DONE" /\ pc' = "wait"
    /\ state' = "DONE" /\ Goes(pc', caller') => phase' = "closed"
    /\ Goes(pc', caller') /\ phase' # "closed" =>
         ParsedAs(state', consumed', body', content_length', chunk_size', chunk_receive', left')
    /\ Goes(pc', caller') /\ phase' # "closed" /\ pc' # "parse" /\ Https!SelfDelimiting =>
         arrived' < Https!Total
    /\ Begins(body') /\ Once(calls') /\ Told(calls')
    => Https!InductiveInvariant'
<1>1. /\ Https!Total' = Https!Total /\ Https!Units' = Https!Units
      /\ Https!SelfDelimiting' <=> Https!SelfDelimiting
  BY DEF Https!Total, Https!Units, Https!SelfDelimiting, Https!Inside, Https!Chunks
<1>2. QED
  BY <1>1 DEF Https!InductiveInvariant, Https!Answered, Https!TypeOK, Https!StillSet,
    Https!OverForGood, Https!Resumable, Https!Parsed, Https!InChunk, Https!Incomplete,
    Https!Beginning, Https!Whole, Https!CompletedOnce, Https!BodyWhole, Https!Blank, UpTo,
    InChunkAt, ParsedAs, Increasing, Begins, Tells, Told, Once, Threw, Goes

\* A request begins in the invariant.
LEMMA HttpsInit ==
  ASSUME ConnectionsAssumption, Https!Init
  PROVE  Https!InductiveInvariant
<1>1. /\ response \in Responses /\ arrived = 0 /\ consumed = 0 /\ phase = "connecting"
      /\ state = "HEADERS" /\ body = <<>> /\ content_length = 0 /\ chunked = FALSE
      /\ chunk_size = 0 /\ chunk_receive = 0 /\ status = 0 /\ completed = TRUE
      /\ throws \in 0..MaxThrows /\ calls = <<>> /\ timed_out = FALSE
      /\ left = HttpsTimeout /\ ticking = TRUE /\ pc = "wait" /\ caller = "read"
  BY DEF Https!Init
<1>2. HttpsTimeout \in Nat /\ Grace \in Nat /\ MaxThrows \in Nat  BY <1>1, AnswerShape
<1>3. Https!Total \in Nat /\ Https!Total >= 2 /\ UpTo(0) = {}  BY <1>1, PlainUnits
<1>4. /\ consumed \in 0..arrived /\ arrived \in 0..Https!Total
      /\ left \in 0..HttpsTimeout + Grace /\ left <= HttpsTimeout
      /\ chunk_receive \in 0..chunk_size /\ arrived < Https!Total /\ 0 \in 0..Https!Total
  BY <1>1, <1>2, <1>3
<1>5. /\ chunked \in BOOLEAN /\ completed \in BOOLEAN /\ timed_out \in BOOLEAN
      /\ ticking \in BOOLEAN
  BY <1>1, Zenon
<1>6. /\ Https!Range(body) = {} /\ Increasing(body) /\ body \in Seq(Nat)
      /\ calls \in Seq(Https!Call) /\ Threw(calls) /\ Once(calls) /\ Told(calls)
  BY <1>1 DEF Https!Range, Increasing, Threw, Once, Told
<1>7. Begins(body)  BY <1>3, <1>4, <1>6 DEF Begins
<1>8. ParsedAs(state, consumed, body, content_length, chunk_size, chunk_receive, left)
  BY <1>1, <1>3, <1>4, <1>6 DEF ParsedAs
<1>9. content_length \in Nat /\ status \in Nat /\ chunk_size \in Nat  BY <1>1
<1>10. QED  BY <1>1, <1>4, <1>5, <1>6, <1>7, <1>8, <1>9, HttpsNow

\* A call of `completed`, which is set.
LEMMA HttpsCalled ==
  ASSUME ConnectionsAssumption, calls \in Seq(Https!Call), Threw(calls), Told(calls),
         throws \in 0..MaxThrows, status' \in Nat, body' \in Seq(Nat), Begins(body'),
         NEW by \in {"answer", "close"}, Https!CallCompleted(by),
         by = "answer" /\ Https!SelfDelimiting => Https!Range(body') = Https!Units
  PROVE  /\ calls' \in Seq(Https!Call) /\ Once(calls') /\ Told(calls')
         /\ completed' = (throws > 0) /\ completed' \in BOOLEAN
         /\ completed' => Threw(calls')
         /\ throws' \in 0..MaxThrows
<1> DEFINE call == [status |-> status', body |-> body', by |-> by, threw |-> throws > 0]
<1>1. /\ calls' = Append(calls, call) /\ completed' = (throws > 0)
      /\ throws' = IF throws > 0 THEN throws - 1 ELSE 0
  BY DEF Https!CallCompleted
<1>2. (throws > 0) \in BOOLEAN  OBVIOUS
<1>3. call \in Https!Call  BY <1>2 DEF Https!Call
<1>4. Tells(call)  BY DEF Tells
<1>5. call.threw = (throws > 0)  OBVIOUS
<1> HIDE DEF call
<1>6. /\ calls' \in Seq(Https!Call) /\ DOMAIN calls' = 1..Len(calls) + 1
      /\ Len(calls') = Len(calls) + 1 /\ DOMAIN calls = 1..Len(calls) /\ Len(calls) \in Nat
      /\ \A i \in DOMAIN calls : calls'[i] = calls[i] /\ calls'[Len(calls) + 1] = call
      /\ calls'[Len(calls) + 1] = call
  BY <1>1, <1>3
<1>7. \A i \in DOMAIN calls' : i \in DOMAIN calls \/ i = Len(calls) + 1  BY <1>6
<1>8. Once(calls')
  <2>1. \A i \in DOMAIN calls' : i < Len(calls') => i \in DOMAIN calls  BY <1>6
  <2>2. QED  BY <1>6, <2>1 DEF Once, Threw
<1>9. Told(calls')  BY <1>4, <1>6, <1>7 DEF Told
<1>10. completed' => Threw(calls')
  <2>1. completed' => call.threw  BY <1>1, <1>5, Zenon
  <2>2. QED  BY <1>6, <1>7, <2>1 DEF Threw
<1>11. throws' \in 0..MaxThrows
  <2>1. MaxThrows \in Nat  BY DEF ConnectionsAssumption, Https!HttpsAssumption
  <2>2. QED  BY <1>1, <2>1
<1>12. completed' \in BOOLEAN  BY <1>1, <1>2, Zenon
<1>13. QED  BY <1>1, <1>6, <1>8, <1>9, <1>10, <1>11, <1>12

\* Units that are taken from the buffer.
LEMMA HttpsTaken ==
  ASSUME ConnectionsAssumption, Https!InductiveInvariant, NEW m \in Nat,
         consumed + m <= arrived, Https!Range(body) = UpTo(consumed),
         consumed + 1..consumed + m \subseteq Https!Units,
         body' = body \o Https!Ahead(m)
  PROVE  /\ body' \in Seq(Nat) /\ Len(body') = Len(body) + m
         /\ Begins(body') /\ Https!Range(body') = UpTo(consumed + m)
<1>1. /\ response \in Responses /\ consumed \in 0..arrived /\ arrived \in 0..Https!Total
      /\ body \in Seq(Nat) /\ Begins(body)
  BY HttpsNow
<1>2. Https!Total \in Nat /\ Https!Units \subseteq Nat  BY <1>1, PlainUnits
<1>3. arrived \in Nat /\ consumed \in Nat  BY <1>1, <1>2
<1>4. HasUpTo(body, Https!Units, consumed)  BY <1>1 DEF Begins, HasUpTo, UpTo
<1>5. body' = body \o Counted(consumed, m)  BY DEF Https!Ahead, Counted
<1>6. HasUpTo(body \o Counted(consumed, m), Https!Units, consumed + m)
  BY <1>2, <1>3, <1>4, Longer
<1>a. Len(body \o Counted(consumed, m)) = Len(body) + m
  <2>1. Counted(consumed, m) \in Seq(Nat) /\ Len(Counted(consumed, m)) = m
    BY <1>3 DEF Counted
  <2>2. QED  BY <1>1, <2>1, ConcatProperties
<1>7. HasUpTo(body', Https!Units, consumed + m) /\ Len(body') = Len(body) + m
  BY <1>5, <1>6, <1>a
<1>8. consumed + m \in 0..Https!Total  BY <1>1, <1>2, <1>3
<1>9. QED  BY <1>7, <1>8 DEF Begins, HasUpTo, UpTo

\* An answer that is complete.
LEMMA HttpsFinish ==
  ASSUME ConnectionsAssumption, Https!InductiveInvariant, pc = "parse",
         state \in {"CONTENT", "CHUNK_LAST"}, Https!Finish,
         body' \in Seq(Nat), Begins(body'), Https!SelfDelimiting => Https!Range(body') = Https!Units
  PROVE  Https!InductiveInvariant'
<1>1. /\ response \in Responses /\ calls \in Seq(Https!Call)
      /\ consumed \in 0..arrived /\ arrived \in 0..Https!Total
      /\ phase \in {"connecting", "handshake", "up", "closed"} /\ phase # "closed"
      /\ content_length \in Nat \cup {None} /\ chunked \in BOOLEAN /\ status \in Nat
      /\ chunk_size \in Nat /\ chunk_receive \in 0..chunk_size
      /\ completed \in BOOLEAN /\ timed_out \in BOOLEAN /\ ticking \in BOOLEAN
      /\ left \in 0..HttpsTimeout + Grace /\ throws \in 0..MaxThrows
      /\ completed => Threw(calls)
      /\ Once(calls) /\ Told(calls)
  BY HttpsNow
<1>2. /\ UNCHANGED <<response, arrived, timed_out, left, ticking, phase, content_length>>
      /\ UNCHANGED <<chunked, chunk_size, chunk_receive, status>>
      /\ consumed' = IF state = "CONTENT" THEN arrived ELSE consumed
  BY DEF Https!Finish, Https!Finished, Https!peer, Https!clock
<1>3. consumed' \in 0..arrived'
  <2>1. Https!Total \in Nat  BY <1>1, PlainUnits
  <2>2. QED  BY <1>1, <1>2, <2>1
<1>4. /\ calls' \in Seq(Https!Call) /\ Once(calls') /\ Told(calls')
      /\ completed' \in BOOLEAN /\ throws' \in 0..MaxThrows
      /\ completed' => Threw(calls')
  <2>1. CASE completed
    <3>1. Https!CallCompleted("answer")  BY <2>1, Zenon DEF Https!Finish
    <3>2. status' \in Nat /\ Threw(calls)  BY <1>1, <1>2, <2>1
    <3>3. QED  BY <1>1, <3>1, <3>2, HttpsCalled
  <2>2. CASE ~completed
    <3>1. UNCHANGED <<completed, throws, calls>>  BY <2>2 DEF Https!Finish, Https!done
    <3>2. QED  BY <1>1, <2>2, <3>1
  <2>3. QED  BY <1>1, <2>1, <2>2
<1>5. /\ pc' = "close" /\ caller' \in {"read", "error"}
      /\ state' \in {"CONTENT", "CHUNK_LAST", "DONE"}
  <2>1. CASE completed /\ throws > 0
    BY <2>1 DEF Https!Finish, Https!Raise
  <2>2. CASE ~(completed /\ throws > 0)
    BY <2>2 DEF Https!Finish
  <2>3. QED  BY <2>1, <2>2
<1>6. ~Goes(pc', caller')  BY <1>5 DEF Goes
<1>7. QED  BY <1>1, <1>2, <1>3, <1>4, <1>5, <1>6, HttpsThen

\* An event of the connection or of the timer, or close(), keeps the invariant.
LEMMA HttpsEvent ==
  ASSUME ConnectionsAssumption, Https!InductiveInvariant,
         Https!Close \/ Https!Connected \/ Https!Receive \/ Https!PeerCloses
         \/ Https!OneSecondTimer
  PROVE  Https!InductiveInvariant'
<1>1. /\ response \in Responses /\ calls \in Seq(Https!Call)
      /\ consumed \in 0..arrived /\ arrived \in 0..Https!Total /\ body \in Seq(Nat)
      /\ phase \in {"connecting", "handshake", "up", "closed"}
      /\ state \in {"HEADERS", "CONTENT", "DONE", "CHUNK_LEN", "CHUNK_TRAILER", "CHUNK_LAST",
                    "CHUNK_CONTENT"}
      /\ content_length \in Nat \cup {None} /\ chunked \in BOOLEAN /\ status \in Nat
      /\ chunk_size \in Nat /\ chunk_receive \in 0..chunk_size
      /\ completed \in BOOLEAN /\ timed_out \in BOOLEAN /\ ticking \in BOOLEAN
      /\ left \in 0..HttpsTimeout + Grace /\ throws \in 0..MaxThrows
      /\ pc \in {"wait", "parse", "close", "dead"} /\ caller \in {"read", "error", "timer"}
      /\ completed => Threw(calls)
      /\ phase = "closed" => state = "DONE" /\ pc = "wait"
      /\ state = "DONE" /\ Goes(pc, caller) => phase = "closed"
      /\ Goes(pc, caller) /\ phase # "closed" =>
           ParsedAs(state, consumed, body, content_length, chunk_size, chunk_receive, left)
      /\ Goes(pc, caller) /\ phase # "closed" /\ pc # "parse" /\ Https!SelfDelimiting =>
           arrived < Https!Total
      /\ Begins(body) /\ Once(calls) /\ Told(calls)
  BY HttpsNow
<1>2. Https!Total \in Nat /\ Https!Total >= 2 /\ arrived \in Nat /\ consumed \in Nat
  <2>1. Https!Total \in Nat /\ Https!Total >= 2  BY <1>1, PlainUnits
  <2>2. QED  BY <1>1, <2>1
<1>3. CASE Https!Close
  <2>1. /\ UNCHANGED <<response, arrived, left, content_length, chunked, chunk_size>>
        /\ UNCHANGED <<chunk_receive, status, body>> /\ pc = "close"
    BY <1>3 DEF Https!Close, Https!peer
  <2>2. /\ calls' \in Seq(Https!Call) /\ Once(calls') /\ Told(calls')
        /\ completed' \in BOOLEAN /\ throws' \in 0..MaxThrows
        /\ completed' => Threw(calls')
    <3>1. CASE state # "DONE" /\ completed
      <4>1. Https!CallCompleted("close")  BY <1>3, <3>1 DEF Https!Close
      <4>2. status' \in Nat /\ body' \in Seq(Nat) /\ Begins(body') /\ Threw(calls)
        BY <1>1, <2>1, <3>1
      <4>3. QED  BY <1>1, <4>1, <4>2, HttpsCalled
    <3>2. CASE state = "DONE" \/ ~completed
      <4>1. UNCHANGED <<completed, throws, calls>>
        BY <1>3, <3>2 DEF Https!Close, Https!done
      <4>2. QED  BY <1>1, <4>1
    <3>3. QED  BY <3>1, <3>2
  <2>3. CASE state # "DONE" /\ completed /\ throws > 0
    <3>1. /\ UNCHANGED <<state, phase, consumed, timed_out>>
          /\ pc' = (CASE caller = "read" -> "close" [] caller = "error" -> "dead"
                      [] caller = "timer" -> "wait")
          /\ caller' = "error" /\ ticking' = (caller # "timer")
      BY <1>3, <2>3 DEF Https!Close
    <3>2. ticking' \in BOOLEAN  BY <3>1, Zenon
    <3>3. (caller = "timer" /\ pc' = "wait") \/ pc' \in {"close", "dead"}
      BY <1>1, <3>1
    <3>4. Goes(pc', caller') => Goes(pc, caller) /\ pc # "parse"
      BY <2>1, <3>1, <3>3 DEF Goes
    <3>5. phase # "closed"  BY <1>1, <2>3
    <3>6. QED  BY <1>1, <2>1, <2>2, <2>3, <3>1, <3>2, <3>3, <3>4, <3>5, HttpsThen
  <2>4. CASE ~(state # "DONE" /\ completed /\ throws > 0)
    <3>1. /\ state' = "DONE" /\ phase' = "closed" /\ consumed' = arrived
          /\ timed_out' = (timed_out \/ caller = "timer")
          /\ pc' = "wait" /\ UNCHANGED <<caller, ticking>>
      BY <1>3, <2>4, Zenon DEF Https!Close, Https!Disconnected
    <3>2. timed_out' \in BOOLEAN  BY <3>1, Zenon
    <3>3. consumed' \in 0..arrived'  BY <1>2, <2>1, <3>1
    <3>4. QED  BY <1>1, <2>1, <2>2, <3>1, <3>2, <3>3, HttpsThen
  <2>5. QED  BY <2>3, <2>4
<1>4. CASE Https!Connected
  <2>1. /\ UNCHANGED <<response, arrived, consumed, state, body, content_length, chunked>>
        /\ UNCHANGED <<chunk_size, chunk_receive, status, timed_out, left, ticking, pc, caller>>
        /\ UNCHANGED <<completed, throws, calls>>
        /\ phase # "closed" /\ phase' \in {"handshake", "up"}
    BY <1>4 DEF Https!Connected, Https!Waiting, Https!peer, Https!parser, Https!clock, Https!done
  <2>2. QED  BY <1>1, <2>1, HttpsThen
<1>5. CASE Https!Receive
  <2>1. /\ UNCHANGED <<response, consumed, state, body, content_length, chunked>>
        /\ UNCHANGED <<chunk_size, chunk_receive, status, timed_out, left, ticking, caller>>
        /\ UNCHANGED <<completed, throws, calls, phase>>
        /\ phase # "closed" /\ pc = "wait" /\ pc' = "parse"
        /\ arrived' \in arrived + 1..Https!Total
    BY <1>5 DEF Https!Receive, Https!Waiting, Https!parser, Https!clock, Https!done
  <2>2. consumed' \in 0..arrived' /\ arrived' \in 0..Https!Total  BY <1>1, <1>2, <2>1
  <2>3. Goes(pc, caller)  BY <2>1 DEF Goes
  <2>4. QED  BY <1>1, <2>1, <2>2, <2>3, HttpsThen
<1>6. CASE Https!PeerCloses
  <2>1. /\ UNCHANGED <<response, arrived, consumed, state, body, content_length, chunked>>
        /\ UNCHANGED <<chunk_size, chunk_receive, status, timed_out, left, ticking, phase>>
        /\ UNCHANGED <<completed, throws, calls>>
        /\ phase # "closed" /\ pc' = "close" /\ caller' = "read"
    BY <1>6 DEF Https!PeerCloses, Https!Rejected, Https!Waiting, Https!peer, Https!parser,
      Https!clock, Https!done
  <2>2. ~Goes(pc', caller')  BY <2>1 DEF Goes
  <2>3. QED  BY <1>1, <2>1, <2>2, HttpsThen
<1>7. CASE Https!OneSecondTimer
  <2>1. /\ UNCHANGED <<response, arrived, consumed, state, body, content_length, chunked>>
        /\ UNCHANGED <<chunk_size, chunk_receive, status, ticking, phase>>
        /\ UNCHANGED <<completed, throws, calls>> /\ pc = "wait"
    BY <1>7 DEF Https!OneSecondTimer, Https!peer, Https!parser, Https!done
  <2>2. HttpsTimeout \in Nat /\ Grace \in Nat  BY <1>1, AnswerShape
  <2>3. left' \in 0..HttpsTimeout + Grace /\ left' <= left
    BY <1>1, <1>7, <2>2 DEF Https!OneSecondTimer
  <2>4. timed_out' \in BOOLEAN
    <3>1. timed_out' = timed_out \/ timed_out' = (timed_out \/ phase \in {"connecting", "closed"})
      BY <1>7, Zenon DEF Https!OneSecondTimer
    <3>2. (timed_out \/ phase \in {"connecting", "closed"}) \in BOOLEAN  BY Zenon
    <3>3. QED  BY <1>1, <3>1, <3>2, Zenon
  <2>5. \/ pc' = "wait" /\ caller' = caller
        \/ pc' = "close" /\ caller' = "timer" /\ state # "DONE"
    BY <1>7, <2>1 DEF Https!OneSecondTimer
  <2>6. Goes(pc, caller) /\ Goes(pc', caller')  BY <2>1, <2>5 DEF Goes
  <2>7. phase # "closed" =>
          ParsedAs(state', consumed', body', content_length', chunk_size', chunk_receive', left')
    <3>1. HttpsTimeout \in Nat /\ left \in Nat /\ left' \in Nat  BY <1>1, <2>2, <2>3
    <3>2. QED  BY <1>1, <2>1, <2>3, <2>6, <3>1 DEF ParsedAs
  <2>8. QED  BY <1>1, <2>1, <2>3, <2>4, <2>5, <2>6, <2>7, HttpsThen
<1>8. QED  BY <1>3, <1>4, <1>5, <1>6, <1>7

\* A turn of the parser within a chunk.
LEMMA HttpsChunk ==
  ASSUME ConnectionsAssumption, Https!InductiveInvariant,
         Https!ChunkLen \/ Https!ChunkContent \/ Https!ChunkTrailer \/ Https!ChunkLastWait
         \/ Https!ChunkLast
  PROVE  Https!InductiveInvariant'
<1>1. /\ response \in Responses /\ calls \in Seq(Https!Call)
      /\ consumed \in 0..arrived /\ arrived \in 0..Https!Total /\ body \in Seq(Nat)
      /\ phase \in {"connecting", "handshake", "up", "closed"}
      /\ state \in {"HEADERS", "CONTENT", "DONE", "CHUNK_LEN", "CHUNK_TRAILER", "CHUNK_LAST",
                    "CHUNK_CONTENT"}
      /\ content_length \in Nat \cup {None} /\ chunked \in BOOLEAN /\ status \in Nat
      /\ chunk_size \in Nat /\ chunk_receive \in 0..chunk_size
      /\ completed \in BOOLEAN /\ timed_out \in BOOLEAN /\ ticking \in BOOLEAN
      /\ left \in 0..HttpsTimeout + Grace /\ throws \in 0..MaxThrows
      /\ pc \in {"wait", "parse", "close", "dead"} /\ caller \in {"read", "error", "timer"}
      /\ completed => Threw(calls)
      /\ phase = "closed" => state = "DONE" /\ pc = "wait"
      /\ state = "DONE" /\ Goes(pc, caller) => phase = "closed"
      /\ Goes(pc, caller) /\ phase # "closed" =>
           ParsedAs(state, consumed, body, content_length, chunk_size, chunk_receive, left)
      /\ Goes(pc, caller) /\ phase # "closed" /\ pc # "parse" /\ Https!SelfDelimiting =>
           arrived < Https!Total
      /\ Begins(body) /\ Once(calls) /\ Told(calls)
  BY HttpsNow
<1>2. Https!Total \in Nat /\ Https!Total >= 2 /\ arrived \in Nat /\ consumed \in Nat
  <2>1. Https!Total \in Nat /\ Https!Total >= 2  BY <1>1, PlainUnits
  <2>2. QED  BY <1>1, <2>1
<1> DEFINE cs == response.chunks
<1>3. /\ pc = "parse"
      /\ state \in {"CHUNK_LEN", "CHUNK_CONTENT", "CHUNK_TRAILER", "CHUNK_LAST"}
  BY DEF Https!ChunkLen, Https!ChunkContent, Https!ReadChunk, Https!ChunkTrailer,
    Https!ChunkLastWait, Https!ChunkLast, Https!Parsing
<1>4. /\ phase # "closed" /\ Https!Range(body) = UpTo(consumed) /\ cs # <<>>
      /\ \E k \in DOMAIN cs : InChunkAt(k, state, consumed, chunk_size, chunk_receive)
  BY <1>1, <1>3 DEF Goes, ParsedAs
<1>5. PICK k \in DOMAIN cs : InChunkAt(k, state, consumed, chunk_size, chunk_receive)
  BY <1>4
<1> DEFINE at == cs[k].at
           size == cs[k].size
<1>6. /\ UpTo(at + 3) = UpTo(at)
      /\ size # Bad =>
           /\ UpTo(at + 5 + size) = UpTo(at + 3 + size)
           /\ at + 4..at + 3 + size \subseteq Https!Units
           /\ at + 5 + size <= Https!Total
           /\ at + 4 + size \in Https!CR
      /\ size = 0 => UpTo(at + 3) = Https!Units
      /\ at + 3 <= Https!Total
  BY <1>1, <1>4, ChunkUnits
<1>7. /\ at \in Nat /\ size \in Nat \cup {Bad} /\ Bad \notin Nat /\ DOMAIN cs = 1..Len(cs)
      /\ Len(cs) \in Nat /\ (size = 0 <=> k = Len(cs)) /\ MaxThrows \in Nat
      /\ k \in 1..Len(cs) - 1 => cs[k + 1].at = at + Https!Width(size)
  BY <1>1, AnswerShape
<1>8. /\ state = "CHUNK_LEN" => consumed = at
      /\ state = "CHUNK_CONTENT" =>
           chunk_size = size /\ chunk_receive < size /\ consumed = at + 3 + chunk_receive
      /\ state = "CHUNK_TRAILER" => size \in Nat \ {0} /\ consumed = at + 3 + size
      /\ state = "CHUNK_LAST" => size = 0 /\ consumed = at + 3
  BY <1>5 DEF InChunkAt
<1>9. \A st, c, s, r :
        \/ st = "CHUNK_LEN" /\ c = at
        \/ st = "CHUNK_CONTENT" /\ s = size /\ r < size /\ c = at + 3 + r
        \/ st = "CHUNK_TRAILER" /\ size \in Nat \ {0} /\ c = at + 3 + size
        \/ st = "CHUNK_LAST" /\ size = 0 /\ c = at + 3
        => \E j \in DOMAIN cs : InChunkAt(j, st, c, s, r)
  BY DEF InChunkAt
<1>20. Https!Total \in Nat /\ arrived \in Nat /\ consumed \in Nat /\ arrived <= Https!Total
       /\ consumed <= arrived
  BY <1>1, <1>2
<1>21. at \in Nat /\ (size # Bad => size \in Nat /\ at + 5 + size <= Https!Total)
  BY <1>6, <1>7
<1>22. Bad \notin Nat  BY <1>7
<1>23. /\ state = "CHUNK_LEN" => consumed = cs[k].at
       /\ size = cs[k].size /\ at = cs[k].at
  BY <1>8
<1> HIDE DEF cs, at, size
<1>10. Goes(pc, caller)  BY <1>3 DEF Goes
<1>11. CASE Https!ChunkLen
  <2>1. /\ UNCHANGED <<response, arrived, phase, timed_out, ticking, completed, throws, calls>>
        /\ UNCHANGED <<left, body, content_length, chunked, status>> /\ consumed = at
        /\ state = "CHUNK_LEN"
    BY <1>8, <1>11 DEF Https!ChunkLen, Https!Kept, Https!peer, Https!done, Https!Parsing
  <2>2. /\ Https!Line = at + 2 /\ (Https!HasLine <=> at + 2 < arrived)
        /\ Https!Numbers = {size} \ {Bad}
    <3>1. consumed = cs[k].at  BY <1>23, <2>1
    <3>2. QED  BY <1>1, <1>2, <1>4, <1>23, <2>1, <3>1, ChunkLine DEF cs
  <2>3. CASE ~Https!HasLine
    <3>1. /\ pc' = "wait" /\ caller' = caller
          /\ UNCHANGED <<consumed, state, chunk_size, chunk_receive>>
      BY <1>11, <2>3 DEF Https!ChunkLen, Https!Enough
    <3>2. arrived < Https!Total
      <4>1. at + 3 <= Https!Total  BY <1>6
      <4>2. arrived <= at + 2  BY <1>20, <1>21, <2>2, <2>3
      <4>3. QED  BY <1>20, <1>21, <4>1, <4>2
    <3>3. QED  BY <1>1, <1>10, <2>1, <3>1, <3>2, HttpsThen
  <2>4. CASE Https!HasLine
    <3>1. chunk_receive' = 0 /\ consumed' = at + 3
      <4>1. chunk_receive' = 0 /\ consumed' = Https!Line + 1  BY <1>11, <2>4 DEF Https!ChunkLen
      <4>2. QED  BY <1>21, <2>2, <4>1
    <3>2. consumed' \in 0..arrived' /\ Https!Range(body') = UpTo(consumed')
      <4>1. at + 2 < arrived  BY <2>2, <2>4
      <4>2. consumed' \in 0..arrived'  BY <1>20, <1>21, <2>1, <3>1, <4>1
      <4>3. UpTo(consumed') = UpTo(consumed)  BY <1>6, <2>1, <3>1
      <4>4. QED  BY <1>4, <2>1, <4>2, <4>3
    <3>3. CASE size = Bad
      <4>1. pc' = "close" /\ caller' = "read" /\ UNCHANGED <<state, chunk_size>>
        BY <1>11, <2>2, <2>4, <3>3 DEF Https!ChunkLen, Https!Rejected
      <4>2. ~Goes(pc', caller')  BY <4>1 DEF Goes
      <4>3. chunk_receive' \in 0..chunk_size'  BY <1>1, <3>1, <4>1
      <4>4. QED  BY <1>1, <1>4, <2>1, <3>2, <4>1, <4>2, <4>3, HttpsThen
    <3>4. CASE size # Bad
      <4>1. /\ state' = IF size = 0 THEN "CHUNK_LAST" ELSE "CHUNK_CONTENT"
            /\ chunk_size' = IF size = 0 THEN 2 ELSE size
            /\ pc' = "parse" /\ caller' = caller
        BY <1>11, <2>2, <2>4, <3>4 DEF Https!ChunkLen, Https!More
      <4>2. chunk_size' \in Nat /\ chunk_receive' \in 0..chunk_size'
        BY <1>21, <3>1, <3>4, <4>1
      <4>3. \E j \in DOMAIN cs : InChunkAt(j, state', consumed', chunk_size', chunk_receive')
        <5>1. \/ /\ state' = "CHUNK_CONTENT" /\ chunk_size' = size /\ chunk_receive' < size
                 /\ consumed' = at + 3 + chunk_receive'
              \/ state' = "CHUNK_LAST" /\ size = 0 /\ consumed' = at + 3
          BY <1>21, <3>1, <3>4, <4>1
        <5>2. QED  BY <1>9, <5>1
      <4>4. ParsedAs(state', consumed', body', content_length', chunk_size', chunk_receive', left')
        BY <1>4, <3>2, <4>3 DEF ParsedAs, cs
      <4>5. state' \in {"CHUNK_LAST", "CHUNK_CONTENT"}  BY <4>1
      <4>6. QED  BY <1>1, <1>4, <2>1, <3>2, <4>1, <4>2, <4>4, <4>5, HttpsThen
    <3>5. QED  BY <3>3, <3>4
  <2>5. QED  BY <2>3, <2>4
<1>12. CASE Https!ChunkContent
  <2> DEFINE ahead == arrived - consumed
             m == IF chunk_receive + ahead > chunk_size THEN chunk_size - chunk_receive ELSE ahead
  <2>1. /\ UNCHANGED <<response, arrived, phase, timed_out, ticking, completed, throws, calls>>
        /\ UNCHANGED <<left, content_length, chunked, chunk_size, status>>
        /\ body' = body \o Https!Ahead(m) /\ consumed' = consumed + m
        /\ chunk_receive' = chunk_receive + m /\ state = "CHUNK_CONTENT"
        /\ IF chunk_receive' >= chunk_size
           THEN state' = "CHUNK_TRAILER" /\ pc' = "parse" /\ caller' = caller
           ELSE state' = state /\ pc' = "wait" /\ caller' = caller
    BY <1>12 DEF Https!ChunkContent, Https!ReadChunk, Https!Kept, Https!peer, Https!done,
      Https!Parsing, Https!More, Https!Enough, Https!Available
  <2>10. chunk_size \in Nat /\ chunk_receive \in Nat  BY <1>1
  <2>2. /\ chunk_size = size /\ chunk_receive < size /\ consumed = at + 3 + chunk_receive
        /\ size \in Nat /\ chunk_receive \in Nat /\ ahead \in Nat
    BY <1>1, <1>8, <1>20, <1>21, <2>1, <2>10
  <2>3. /\ m \in Nat /\ consumed + m <= arrived /\ chunk_receive + m <= size
        /\ chunk_receive + m >= size \/ consumed + m = arrived
    BY <1>20, <2>2
  <2> HIDE DEF m, ahead
  <2>4. consumed + 1..consumed + m \subseteq Https!Units
    <3>1. size # Bad  BY <1>22, <2>2
    <3>2. consumed + 1..consumed + m \subseteq at + 4..at + 3 + size
      BY <1>21, <2>2, <2>3
    <3>3. at + 4..at + 3 + size \subseteq Https!Units  BY <1>6, <3>1
    <3>4. QED  BY <3>2, <3>3
  <2>5. /\ body' \in Seq(Nat) /\ Begins(body') /\ Https!Range(body') = UpTo(consumed')
    BY <1>4, <2>1, <2>3, <2>4, HttpsTaken
  <2>6. consumed' \in 0..arrived' /\ chunk_receive' \in 0..chunk_size'
        /\ consumed' = at + 3 + chunk_receive'
    <3>1. /\ consumed' = consumed + m /\ chunk_receive' = chunk_receive + m
          /\ arrived' = arrived /\ chunk_size' = size
      BY <2>1, <2>2
    <3>2. consumed' \in Nat /\ chunk_receive' \in Nat  BY <1>20, <2>2, <2>3, <3>1
    <3>3. consumed' <= arrived' /\ chunk_receive' <= chunk_size'  BY <2>3, <3>1
    <3>4. consumed' = at + 3 + chunk_receive'  BY <1>21, <2>2, <2>3, <3>1
    <3>5. arrived' \in Nat /\ chunk_size' \in Nat  BY <1>20, <2>2, <3>1
    <3>6. QED  BY <3>2, <3>3, <3>4, <3>5
  <2>7. CASE chunk_receive' >= chunk_size
    <3>1. state' = "CHUNK_TRAILER" /\ pc' = "parse" /\ caller' = caller  BY <2>1, <2>7
    <3>2. size \in Nat \ {0} /\ consumed' = at + 3 + size  BY <2>1, <2>2, <2>3, <2>6, <2>7
    <3>3. \E j \in DOMAIN cs : InChunkAt(j, state', consumed', chunk_size', chunk_receive')
      BY <1>9, <3>1, <3>2
    <3>4. ParsedAs(state', consumed', body', content_length', chunk_size', chunk_receive', left')
      BY <1>4, <2>5, <3>3 DEF ParsedAs, cs
    <3>5. QED  BY <1>1, <1>4, <2>1, <2>5, <2>6, <3>1, <3>4, HttpsThen
  <2>8. CASE ~(chunk_receive' >= chunk_size)
    <3>1. state' = "CHUNK_CONTENT" /\ pc' = "wait" /\ caller' = caller  BY <2>1, <2>8
    <3>2. chunk_receive' < size /\ chunk_size' = size /\ arrived = consumed'
      BY <2>1, <2>2, <2>3, <2>8
    <3>3. \E j \in DOMAIN cs : InChunkAt(j, state', consumed', chunk_size', chunk_receive')
      BY <1>9, <2>6, <3>1, <3>2
    <3>4. ParsedAs(state', consumed', body', content_length', chunk_size', chunk_receive', left')
      BY <1>4, <2>5, <3>3 DEF ParsedAs, cs
    <3>5. arrived < Https!Total
      <4>1. size # Bad  BY <1>22, <2>2
      <4>2. at + 5 + size <= Https!Total  BY <1>21, <4>1
      <4>3. chunk_receive' \in Nat  BY <2>1, <2>2, <2>3
      <4>4. arrived = at + 3 + chunk_receive'  BY <2>6, <3>2
      <4>5. at \in Nat /\ size \in Nat /\ chunk_receive' < size  BY <1>21, <2>2, <3>2
      <4>6. Https!Total \in Nat  BY <1>20
      <4>7. \A x, y, z \in Nat : z < y =>
              x + 5 + y \in Nat /\ x + 3 + z \in Nat /\ x + 3 + z < x + 5 + y
        OBVIOUS
      <4>8. /\ at + 5 + size \in Nat /\ at + 3 + chunk_receive' \in Nat
            /\ at + 3 + chunk_receive' < at + 5 + size
        BY <4>3, <4>5, <4>7, Zenon
      <4>9. QED  BY <4>2, <4>4, <4>6, <4>8
    <3>6. QED  BY <1>1, <1>4, <2>1, <2>5, <2>6, <3>1, <3>4, <3>5, HttpsThen
  <2>9. QED  BY <2>7, <2>8
<1>13. CASE Https!ChunkTrailer
  <2>1. /\ UNCHANGED <<response, arrived, phase, timed_out, ticking, completed, throws, calls>>
        /\ UNCHANGED <<left, body, content_length, chunked, chunk_size, chunk_receive, status>>
        /\ size \in Nat \ {0} /\ consumed = at + 3 + size /\ state = "CHUNK_TRAILER"
    BY <1>8, <1>13 DEF Https!ChunkTrailer, Https!Kept, Https!peer, Https!done, Https!Parsing
  <2>2. Https!StartsWithCRLF <=> arrived - consumed >= 2
    <3>1. size # Bad /\ consumed + 1 = at + 4 + size  BY <1>21, <1>22, <2>1
    <3>2. consumed + 1 \in Https!CR  BY <1>6, <3>1
    <3>3. QED  BY <3>2 DEF Https!StartsWithCRLF, Https!Available
  <2>3. CASE Https!StartsWithCRLF
    <3>1. state' = "CHUNK_LEN" /\ consumed' = consumed + 2 /\ pc' = "parse" /\ caller' = caller
      BY <1>13, <2>3 DEF Https!ChunkTrailer, Https!More
    <3>2. k \in 1..Len(cs) - 1 /\ k + 1 \in DOMAIN cs  BY <1>7, <2>1
    <3>3. consumed' = cs[k + 1].at
      <4>1. Https!Width(size) = size + 5  BY <1>22, <2>1 DEF Https!Width
      <4>2. cs[k + 1].at = at + Https!Width(size)  BY <1>7, <3>2
      <4>3. QED  BY <1>21, <2>1, <3>1, <4>1, <4>2
    <3>4. InChunkAt(k + 1, state', consumed', chunk_size', chunk_receive')
      BY <3>1, <3>3 DEF InChunkAt, cs
    <3>5. consumed' \in 0..arrived' /\ Https!Range(body') = UpTo(consumed')
      <4>1. size # Bad /\ consumed' = at + 5 + size  BY <1>21, <1>22, <2>1, <3>1
      <4>2. UpTo(consumed') = UpTo(consumed)  BY <1>6, <2>1, <4>1
      <4>3. consumed' \in 0..arrived'  BY <1>20, <2>1, <2>2, <2>3, <3>1
      <4>4. QED  BY <1>4, <2>1, <4>2, <4>3
    <3>6. ParsedAs(state', consumed', body', content_length', chunk_size', chunk_receive', left')
      BY <1>4, <3>2, <3>4, <3>5 DEF ParsedAs, cs
    <3>7. QED  BY <1>1, <1>4, <2>1, <3>1, <3>5, <3>6, HttpsThen
  <2>4. CASE ~Https!StartsWithCRLF
    <3>1. UNCHANGED <<state, consumed>> /\ pc' = "wait" /\ caller' = caller
      BY <1>13, <2>4 DEF Https!ChunkTrailer, Https!Enough
    <3>2. arrived < Https!Total
      <4>1. at + 5 + size <= Https!Total  BY <1>21, <1>22, <2>1
      <4>2. arrived - consumed < 2  BY <1>20, <2>2, <2>4
      <4>3. QED  BY <1>20, <1>21, <2>1, <4>1, <4>2
    <3>3. QED  BY <1>1, <1>10, <2>1, <3>1, <3>2, HttpsThen
  <2>5. QED  BY <2>3, <2>4
<1>14. ASSUME state = "CHUNK_LAST"
       PROVE  /\ size = 0 /\ consumed = at + 3 /\ Https!Range(body) = Https!Units
              /\ Https!StartsWithCRLF <=> arrived - consumed >= 2
              /\ arrived - consumed < 2 => arrived < Https!Total
  <2>1. size = 0 /\ consumed = at + 3  BY <1>8, <1>14
  <2>2. Https!Range(body) = Https!Units  BY <1>4, <1>6, <2>1
  <2>3. size # Bad /\ at + 5 + size = at + 5 /\ at + 4 + size = consumed + 1
    BY <1>21, <1>22, <2>1
  <2>4. at + 5 <= Https!Total /\ consumed + 1 \in Https!CR  BY <1>6, <2>3
  <2>5. Https!StartsWithCRLF <=> arrived - consumed >= 2
    BY <2>4 DEF Https!StartsWithCRLF, Https!Available
  <2>6. arrived - consumed < 2 => arrived < Https!Total  BY <1>20, <1>21, <2>1, <2>4
  <2>7. QED  BY <2>1, <2>2, <2>5, <2>6
<1>15. CASE Https!ChunkLastWait
  <2>1. /\ UNCHANGED <<response, arrived, phase, timed_out, ticking, completed, throws, calls>>
        /\ UNCHANGED <<left, body, content_length, chunked, chunk_size, chunk_receive, status>>
        /\ UNCHANGED <<consumed, state>> /\ pc' = "wait" /\ caller' = caller
        /\ state = "CHUNK_LAST" /\ ~Https!StartsWithCRLF
    BY <1>15 DEF Https!ChunkLastWait, Https!Kept, Https!peer, Https!done, Https!parser,
      Https!Parsing, Https!Enough
  <2>2. arrived < Https!Total  BY <1>14, <1>20, <2>1
  <2>3. QED  BY <1>1, <1>10, <2>1, <2>2, HttpsThen
<1>16. CASE Https!ChunkLast
  <2>1. Https!Finish /\ body' = body /\ state = "CHUNK_LAST"
    BY <1>16 DEF Https!ChunkLast, Https!Parsing
  <2>2. body' \in Seq(Nat) /\ Begins(body') /\ Https!Range(body') = Https!Units
    BY <1>1, <1>14, <2>1
  <2>3. QED  BY <1>3, <2>1, <2>2, HttpsFinish
<1>17. QED  BY <1>11, <1>12, <1>13, <1>15, <1>16

\* The answer begins: its headers, or the wait for them, and a body that is not in chunks.
LEMMA HttpsPlain ==
  ASSUME ConnectionsAssumption, Https!InductiveInvariant,
         Https!Headers \/ Https!HeadersWait \/ Https!ContentMore \/ Https!Content
  PROVE  Https!InductiveInvariant'
<1>1. /\ response \in Responses /\ calls \in Seq(Https!Call)
      /\ consumed \in 0..arrived /\ arrived \in 0..Https!Total /\ body \in Seq(Nat)
      /\ phase \in {"connecting", "handshake", "up", "closed"}
      /\ state \in {"HEADERS", "CONTENT", "DONE", "CHUNK_LEN", "CHUNK_TRAILER", "CHUNK_LAST",
                    "CHUNK_CONTENT"}
      /\ content_length \in Nat \cup {None} /\ chunked \in BOOLEAN /\ status \in Nat
      /\ chunk_size \in Nat /\ chunk_receive \in 0..chunk_size
      /\ completed \in BOOLEAN /\ timed_out \in BOOLEAN /\ ticking \in BOOLEAN
      /\ left \in 0..HttpsTimeout + Grace /\ throws \in 0..MaxThrows
      /\ pc \in {"wait", "parse", "close", "dead"} /\ caller \in {"read", "error", "timer"}
      /\ completed => Threw(calls)
      /\ phase = "closed" => state = "DONE" /\ pc = "wait"
      /\ state = "DONE" /\ Goes(pc, caller) => phase = "closed"
      /\ Goes(pc, caller) /\ phase # "closed" =>
           ParsedAs(state, consumed, body, content_length, chunk_size, chunk_receive, left)
      /\ Goes(pc, caller) /\ phase # "closed" /\ pc # "parse" /\ Https!SelfDelimiting =>
           arrived < Https!Total
      /\ Begins(body) /\ Once(calls) /\ Told(calls)
  BY HttpsNow
<1>2. /\ Https!Total \in Nat /\ Https!Total >= 2 /\ arrived \in Nat /\ consumed \in Nat
      /\ arrived <= Https!Total /\ consumed <= arrived
  <2>1. Https!Total \in Nat /\ Https!Total >= 2  BY <1>1, PlainUnits
  <2>2. QED  BY <1>1, <2>1
<1>3. pc = "parse" /\ state \in {"HEADERS", "CONTENT"}
  BY DEF Https!Headers, Https!HeadersWait, Https!ContentMore, Https!Content, Https!Parsing
<1>4. Goes(pc, caller) /\ phase # "closed"  BY <1>1, <1>3 DEF Goes
<1>5. ParsedAs(state, consumed, body, content_length, chunk_size, chunk_receive, left)
  BY <1>1, <1>4
<1>6. CASE Https!HeadersWait
  <2>1. /\ UNCHANGED <<response, arrived, consumed, phase, state, body, content_length, chunked>>
        /\ UNCHANGED <<chunk_size, chunk_receive, status, timed_out, left, ticking, caller>>
        /\ UNCHANGED <<completed, throws, calls>> /\ pc' = "wait"
        /\ state = "HEADERS" /\ ~Https!HasBlank
    BY <1>6 DEF Https!HeadersWait, Https!Parsing, Https!Enough, Https!Kept, Https!peer,
      Https!done, Https!parser
  <2>2. consumed = 0  BY <1>5, <2>1 DEF ParsedAs, InChunkAt
  <2>3. arrived < Https!Total  BY <1>2, <2>1, <2>2 DEF Https!HasBlank, Https!Blank
  <2>4. QED  BY <1>1, <1>4, <2>1, <2>3, HttpsThen
<1>7. CASE Https!Headers
  <2>1. /\ UNCHANGED <<response, arrived, phase, body, timed_out, ticking>>
        /\ UNCHANGED <<completed, throws, calls>>
        /\ state = "HEADERS" /\ Https!HasBlank /\ left' = left + Grace /\ consumed' = 2
    BY <1>7 DEF Https!Headers, Https!Parsing, Https!Kept, Https!peer, Https!done, Https!Blank
  <2>2. consumed = 0 /\ left <= HttpsTimeout /\ Https!Range(body) = UpTo(0)
    BY <1>5, <2>1 DEF ParsedAs, InChunkAt
  <2>3. UpTo(0) = {} /\ UpTo(2) = {}  BY <1>1, PlainUnits
  <2>4. Https!Range(body') = UpTo(consumed')  BY <2>1, <2>2, <2>3
  <2>5. Len(body) = 0
    <3>1. Https!Range(body) = {}  BY <2>2, <2>3
    <3>2. DOMAIN body = 1..Len(body) /\ Len(body) \in Nat  BY <1>1
    <3>3. \A i \in DOMAIN body : body[i] \in Https!Range(body)  BY DEF Https!Range
    <3>4. DOMAIN body = {}  BY <3>1, <3>3
    <3>5. QED  BY <3>2, <3>4
  <2>6. arrived >= 2  BY <2>1 DEF Https!HasBlank, Https!Blank
  <2>7. consumed' \in 0..arrived'  BY <1>2, <2>1, <2>6
  <2>8. left' \in 0..HttpsTimeout + Grace
    <3>1. HttpsTimeout \in Nat /\ Grace \in Nat  BY <1>1, AnswerShape
    <3>2. QED  BY <1>1, <2>1, <2>2, <3>1
  <2>9. CASE ~response.ok \/ response.length = Bad
    <3>1. /\ pc' = "close" /\ caller' \in {"read", "error"}
          /\ UNCHANGED <<state, content_length, chunked, chunk_size, chunk_receive, status>>
      BY <1>7, <2>9 DEF Https!Headers
    <3>2. ~Goes(pc', caller')  BY <3>1 DEF Goes
    <3>3. QED  BY <1>1, <1>4, <2>1, <2>7, <2>8, <3>1, <3>2, HttpsThen
  <2>10. CASE ~(~response.ok \/ response.length = Bad)
    <3>1. /\ content_length' = response.length /\ chunked' = (response.chunks # <<>>)
          /\ status' = response.status /\ chunk_size' = 0 /\ chunk_receive' = 0
          /\ IF Https!NoBody(status') \/ content_length' = 0
             THEN /\ state' = IF chunked' THEN "CHUNK_LEN" ELSE "HEADERS"
                  /\ Https!Rejected
             ELSE /\ state' = IF chunked' THEN "CHUNK_LEN" ELSE "CONTENT"
                  /\ IF chunked' /\ arrived = 2 THEN Https!Enough ELSE Https!More
      BY <1>7, <2>10 DEF Https!Headers, Https!Blank
    <3>2. /\ chunked' \in BOOLEAN
      <4>1. (response.chunks # <<>>) \in BOOLEAN  OBVIOUS
      <4>2. QED  BY <3>1, <4>1, Zenon
    <3>3. /\ content_length' \in Nat \cup {None} /\ status' \in Nat
          /\ chunk_size' \in Nat /\ chunk_receive' \in 0..chunk_size'
      <4>1. /\ response.length \in {None, Bad} \cup Nat /\ response.status \in Nat
        BY <1>1, AnswerShape
      <4>2. QED  BY <2>10, <3>1, <4>1
    <3>4. CASE Https!NoBody(status') \/ content_length' = 0
      <4>1. pc' = "close" /\ caller' = "read" /\ state' \in {"CHUNK_LEN", "HEADERS"}
        BY <3>1, <3>4 DEF Https!Rejected
      <4>2. ~Goes(pc', caller')  BY <4>1 DEF Goes
      <4>3. QED  BY <1>1, <1>4, <2>1, <2>7, <2>8, <3>2, <3>3, <4>1, <4>2, HttpsThen
    <3>5. CASE ~(Https!NoBody(status') \/ content_length' = 0) /\ response.chunks = <<>>
      <4>1. ~chunked'  BY <3>1, <3>5, Zenon
      <4>2. state' = "CONTENT" /\ pc' = "parse" /\ caller' = caller
        BY <3>1, <3>5, <4>1 DEF Https!More
      <4>3. Len(body') = consumed' - 2 /\ consumed' >= 2  BY <2>1, <2>5
      <4>4. ParsedAs(state', consumed', body', content_length', chunk_size', chunk_receive', left')
        BY <2>4, <3>1, <3>5, <4>2, <4>3 DEF ParsedAs
      <4>5. QED  BY <1>1, <1>4, <2>1, <2>7, <2>8, <3>2, <3>3, <4>2, <4>4, HttpsThen
    <3>6. CASE ~(Https!NoBody(status') \/ content_length' = 0) /\ response.chunks # <<>>
      <4>1. chunked'  BY <3>1, <3>6, Zenon
      <4>2. /\ state' = "CHUNK_LEN" /\ pc' \in {"wait", "parse"} /\ caller' = caller
            /\ pc' = "wait" => arrived = 2
        BY <3>1, <3>6, <4>1 DEF Https!More, Https!Enough
      <4>3. /\ 1 \in DOMAIN response.chunks /\ response.chunks[1].at = 2
            /\ response.chunks[1].at + 3 <= Https!Total
        BY <1>1, <3>6, AnswerShape, AnswerOrder, ChunkUnits
      <4>4. \E k \in DOMAIN response.chunks :
              InChunkAt(k, state', consumed', chunk_size', chunk_receive')
        BY <2>1, <4>2, <4>3 DEF InChunkAt
      <4>5. ParsedAs(state', consumed', body', content_length', chunk_size', chunk_receive', left')
        BY <2>4, <3>6, <4>4 DEF ParsedAs
      <4>6. pc' = "wait" => arrived < Https!Total  BY <1>2, <4>2, <4>3
      <4>7. QED  BY <1>1, <1>4, <2>1, <2>7, <2>8, <3>2, <3>3, <4>2, <4>5, <4>6, HttpsThen
    <3>7. QED  BY <3>4, <3>5, <3>6
  <2>11. QED  BY <2>9, <2>10
<1>8. ASSUME state = "CONTENT", body' = body \o Https!Ahead(arrived - consumed)
      PROVE  /\ body' \in Seq(Nat) /\ Begins(body') /\ Https!Range(body') = UpTo(arrived)
             /\ Len(body') = arrived - 2 /\ Len(body) + (arrived - consumed) = arrived - 2
             /\ content_length = response.length /\ response.chunks = <<>>
             /\ Https!SelfDelimiting => Https!Total = 2 + response.length /\ response.length \in Nat
  <2>1. /\ Https!Range(body) = UpTo(consumed) /\ response.chunks = <<>>
        /\ consumed >= 2 /\ Len(body) = consumed - 2 /\ content_length = response.length
    BY <1>5, <1>8 DEF ParsedAs, InChunkAt
  <2>2. Https!Units = 3..2 + response.size /\ Https!Total = 2 + response.size
    BY <1>1, <2>1, PlainUnits
  <2>3. response.size \in Nat  BY <1>1, AnswerShape
  <2>4. arrived - consumed \in Nat /\ consumed + (arrived - consumed) = arrived  BY <1>2
  <2>5. consumed + 1..consumed + (arrived - consumed) \subseteq Https!Units
    BY <1>2, <2>1, <2>2, <2>3
  <2>6. consumed + (arrived - consumed) <= arrived  BY <1>2
  <2>7. /\ body' \in Seq(Nat) /\ Begins(body')
        /\ Https!Range(body') = UpTo(consumed + (arrived - consumed))
        /\ Len(body') = Len(body) + (arrived - consumed)
    BY <1>8, <2>1, <2>4, <2>5, <2>6, HttpsTaken
  <2>8. Len(body) + (arrived - consumed) = arrived - 2  BY <1>2, <2>1
  <2>9. Https!SelfDelimiting => Https!Total = 2 + response.length /\ response.length \in Nat
    BY <2>1, <2>2, <2>3 DEF Https!SelfDelimiting
  <2>10. QED  BY <2>1, <2>4, <2>7, <2>8, <2>9
<1>9. CASE Https!ContentMore
  <2>1. /\ UNCHANGED <<response, arrived, phase, state, content_length, chunked, chunk_size>>
        /\ UNCHANGED <<chunk_receive, status, timed_out, left, ticking, caller>>
        /\ UNCHANGED <<completed, throws, calls>>
        /\ state = "CONTENT" /\ pc' = "wait" /\ consumed' = arrived
        /\ body' = body \o Https!Ahead(arrived - consumed)
        /\ content_length # None /\ Len(body) + (arrived - consumed) < content_length
    BY <1>9 DEF Https!ContentMore, Https!Parsing, Https!Enough, Https!Kept, Https!peer,
      Https!done, Https!Available
  <2>2. /\ body' \in Seq(Nat) /\ Begins(body') /\ Https!Range(body') = UpTo(consumed')
        /\ Len(body') = consumed' - 2 /\ response.chunks = <<>>
        /\ content_length' = response.length
    BY <1>8, <2>1
  <2>3. consumed' \in 0..arrived' /\ consumed' >= 2
    <3>1. consumed >= 2  BY <1>5, <2>1 DEF ParsedAs, InChunkAt
    <3>2. QED  BY <1>2, <2>1, <3>1
  <2>4. ParsedAs(state', consumed', body', content_length', chunk_size', chunk_receive', left')
    BY <2>1, <2>2, <2>3 DEF ParsedAs
  <2>5. Https!SelfDelimiting => arrived < Https!Total
    <3>1. arrived - 2 < response.length  BY <1>8, <2>1
    <3>2. Https!SelfDelimiting => Https!Total = 2 + response.length /\ response.length \in Nat
      BY <1>8, <2>1
    <3>3. QED  BY <1>2, <3>1, <3>2
  <2>6. QED  BY <1>1, <1>4, <2>1, <2>2, <2>3, <2>4, <2>5, HttpsThen
<1>10. CASE Https!Content
  <2>1. /\ state = "CONTENT" /\ Https!Finish
        /\ body' = body \o Https!Ahead(arrived - consumed)
        /\ content_length # None => Len(body) + (arrived - consumed) >= content_length
    BY <1>10 DEF Https!Content, Https!Parsing, Https!Available
  <2>2. body' \in Seq(Nat) /\ Begins(body') /\ Https!Range(body') = UpTo(arrived)
    BY <1>8, <2>1
  <2>3. Https!SelfDelimiting => Https!Range(body') = Https!Units
    <3>1. SUFFICES ASSUME Https!SelfDelimiting  PROVE Https!Range(body') = Https!Units
      OBVIOUS
    <3>2. /\ Https!Total = 2 + response.length /\ response.length \in Nat
          /\ content_length = response.length
          /\ Len(body) + (arrived - consumed) = arrived - 2
      BY <1>8, <2>1, <3>1
    <3>3. content_length # None  BY <1>1, <3>2, AnswerShape
    <3>4. arrived - 2 >= response.length  BY <2>1, <3>2, <3>3
    <3>5. arrived = Https!Total  BY <1>2, <3>2, <3>4
    <3>6. UpTo(Https!Total) = Https!Units  BY <1>1, PlainUnits
    <3>7. QED  BY <2>2, <3>5, <3>6
  <2>4. QED  BY <1>3, <2>1, <2>2, <2>3, HttpsFinish
<1>11. QED  BY <1>6, <1>7, <1>9, <1>10

\* A step of the HTTPS client keeps its invariant.
LEMMA HttpsStep ==
  ASSUME ConnectionsAssumption, Https!InductiveInvariant, Https!Next
  PROVE  Https!InductiveInvariant'
<1>1. CASE Https!HandleBuffer
  BY <1>1, HttpsChunk, HttpsPlain DEF Https!HandleBuffer
<1>2. CASE ~Https!HandleBuffer
  BY <1>2, HttpsEvent DEF Https!Next
<1>3. QED  BY <1>1, <1>2

-----------------------------------------------------------------------------
(* The theorems.                                                             *)

\* When nothing changes, neither do the invariants of the classes whose lemmas are of a step.
LEMMA Stutter ==
  ASSUME UNCHANGED vars
  PROVE  /\ Https!InductiveInvariant => Https!InductiveInvariant'
         /\ Websocket!InductiveInvariant => Websocket!InductiveInvariant'
         /\ Listener!InductiveInvariant => Listener!InductiveInvariant'
<1>1. /\ UNCHANGED <<response, arrived, consumed, phase, state, body, content_length, chunked>>
      /\ UNCHANGED <<chunk_size, chunk_receive, status, completed, timed_out, left, ticking>>
      /\ UNCHANGED <<pc, caller, throws, calls, upgrade, stream, tick, pinged, pongs, handled>>
      /\ UNCHANGED <<late, sockets, servers, batch>>
  BY DEF vars, NotEngine
<1>2. Https!InductiveInvariant => Https!InductiveInvariant'
  BY <1>1, HttpsNow, HttpsThen
<1>3. Websocket!InductiveInvariant => Websocket!InductiveInvariant'
  <2> SUFFICES ASSUME Websocket!InductiveInvariant  PROVE Websocket!InductiveInvariant'
    OBVIOUS
  <2>1. /\ UNCHANGED <<upgrade, stream, state, consumed, arrived, phase, timed_out, left, tick>>
        /\ UNCHANGED <<pinged, late, pc, handled, pongs>>
    BY <1>1
  <2>2. Websocket!Sent  BY WebsocketNow
  <2>3. timed_out' \in BOOLEAN /\ pinged' \in BOOLEAN /\ late' \in BOOLEAN /\ (late' <=> late)
    <3>1. timed_out \in BOOLEAN /\ pinged \in BOOLEAN /\ late \in BOOLEAN  BY WebsocketNow
    <3>2. QED  BY <2>1, <3>1, Zenon
  <2>4. /\ state' \in {"HTTP_HEADERS", "CONNECTED"}
        /\ consumed' \in 0..arrived' /\ arrived' \in 0..Websocket!Total
        /\ phase' \in {"connecting", "handshake", "up", "closed"}
        /\ left' \in 0..UpgradeTimeout /\ tick' \in 0..Keepalive - 1
        /\ pc' \in {"wait", "parse", "close"}
        /\ handled' \in Seq(DOMAIN stream) /\ pongs' \in Seq(DOMAIN stream)
    <3>1. /\ state \in {"HTTP_HEADERS", "CONNECTED"}
          /\ consumed \in 0..arrived /\ arrived \in 0..Websocket!Total
          /\ phase \in {"connecting", "handshake", "up", "closed"}
          /\ left \in 0..UpgradeTimeout /\ tick \in 0..Keepalive - 1
          /\ pc \in {"wait", "parse", "close"}
          /\ handled \in Seq(DOMAIN stream) /\ pongs \in Seq(DOMAIN stream)
      BY DEF Websocket!InductiveInvariant, Websocket!TypeOK, Websocket!Sent
    <3>2. QED  BY <2>1, <3>1
  <2>5. /\ state' = "CONNECTED" => phase' = "up"
        /\ pc' = "parse" => phase' = "up"
        /\ phase' = "closed" => state' = "HTTP_HEADERS" /\ pc' = "wait"
        /\ state' = "HTTP_HEADERS" /\ phase' # "closed" =>
             /\ handled' = <<>> /\ pongs' = <<>>
             /\ consumed' = 0 /\ pc' = "wait" => arrived' = 0
             /\ consumed' = 0 /\ pc' = "parse" => late'
    BY <2>1, <2>3, WebsocketNow
  <2>6. /\ state' = "CONNECTED" /\ pc' # "close" => Frames(consumed', handled', pongs')
        /\ state' = "CONNECTED" /\ pc' = "wait" => NoneWaits(consumed', arrived', late')
        /\ BeforeClose(handled') /\ BeforeClose(pongs')
    <3>1. /\ state = "CONNECTED" /\ pc # "close" => Frames(consumed, handled, pongs)
          /\ state = "CONNECTED" /\ pc = "wait" => NoneWaits(consumed, arrived, late)
          /\ BeforeClose(handled) /\ BeforeClose(pongs)
      BY WebsocketNow
    <3>2. /\ state' = state /\ pc' = pc /\ consumed' = consumed /\ handled' = handled
          /\ pongs' = pongs /\ arrived' = arrived /\ late' = late
      BY <2>1
    <3>3. QED  BY <3>1, <3>2, Zenon
  <2>7. QED  BY <2>1, <2>2, <2>3, <2>4, <2>5, <2>6, WebsocketThen
<1>4. Listener!InductiveInvariant => Listener!InductiveInvariant'
  BY <1>1, ListenerSound
<1>5. QED  BY <1>2, <1>3, <1>4

\* InductiveInvariantHolds: the inductive invariant of each class holds in its behaviours.
THEOREM InductiveInvariantHolds == Spec => []InductiveInvariant
<1>1. Init => InductiveInvariant
  <2> SUFFICES ASSUME Init  PROVE InductiveInvariant  OBVIOUS
  <2>1. /\ class = "Https" => Https!Init
        /\ class = "Websocket" => Websocket!Init
        /\ class = "Server" => Server!Init
        /\ class = "Dns" => Dns!Init
        /\ class = "Tls" => Tls!Init
        /\ class = "Listener" => Listener!Init
        /\ class = "Auth" => Auth!Init
    BY DEF Init, InitHttps, InitWebsocket, InitServer, InitDns, InitListener, InitAuth, InitTls,
      InitEngine
  <2>2. QED
    BY <2>1, ConnectionsAssumption, HttpsInit, WebsocketInit, ServerInit, DnsInit, TlsInit,
      ListenerInit, AuthInit
    DEF InductiveInvariant
<1>2. InductiveInvariant /\ [Next]_vars => InductiveInvariant'
  <2> SUFFICES ASSUME InductiveInvariant, [Next]_vars  PROVE InductiveInvariant'
    OBVIOUS
  <2>1. class' = class
    BY DEF Next, InHttps, InWebsocket, InServer, InDns, InListener, InAuth, InTls, InEngine, vars
  <2>2. CASE UNCHANGED vars
    <3>1. UNCHANGED Server!vars
      BY <2>2 DEF vars, NotEngine, Server!vars, Server!input, Server!parser,
        Server!output, Server!clock
    <3>2. UNCHANGED Dns!vars /\ UNCHANGED Tls!vars /\ UNCHANGED Auth!vars
      BY <2>2 DEF vars, NotEngine, Dns!vars, Dns!call, Tls!vars, Auth!vars
    <3>3. QED
      BY <2>1, <2>2, <3>1, <3>2, ConnectionsAssumption, Stutter, ServerStep, DnsStep, TlsStep,
        AuthStep
      DEF InductiveInvariant
  <2>3. CASE Next
    <3>1. /\ class = "Https" => Https!Next
          /\ class = "Websocket" => Websocket!Next
          /\ class = "Server" => Server!Next
          /\ class = "Dns" => Dns!Next
          /\ class = "Tls" => Tls!Next
          /\ class = "Listener" => Listener!Next
          /\ class = "Auth" => Auth!Next
      BY <2>3 DEF Next, InHttps, InWebsocket, InServer, InDns, InListener, InAuth, InTls, InEngine
    <3>2. QED
      BY <2>1, <3>1, ConnectionsAssumption, HttpsStep, WebsocketStep, ServerStep, DnsStep, TlsStep,
        ListenerStep, AuthStep
      DEF InductiveInvariant
  <2>4. QED  BY <2>2, <2>3
<1>3. QED  BY <1>1, <1>2, PTL DEF Spec

\* HttpsAnswersOnceHolds (https_client.cpp): wherever the reads cut the answer and however the
\* request ends, `completed` returns once at most, with the whole body of an answer that says
\* where it ends, or with the beginning of it.
THEOREM HttpsAnswersOnceHolds == Spec => []HttpsAnswersOnce
<1>1. InductiveInvariant => HttpsAnswersOnce
  BY DEF InductiveInvariant, HttpsAnswersOnce, Https!InductiveInvariant
<1>2. QED  BY <1>1, InductiveInvariantHolds, PTL

\* FramesInOrderHolds (websocket.cpp): for any stream and any cuts, each frame is handled once,
\* whole and in order, and none after a close frame.
THEOREM FramesInOrderHolds == Spec => []FramesInOrder
<1>1. InductiveInvariant => FramesInOrder
  BY DEF InductiveInvariant, FramesInOrder, Websocket!InductiveInvariant
<1>2. QED  BY <1>1, InductiveInvariantHolds, PTL

\* NothingWaitsHolds (https_client.cpp, websocket.cpp): neither client waits for a read when all
\* of an answer, or a whole frame, is in its buffer.
THEOREM NothingWaitsHolds == Spec => []NothingWaits
<1>1. Https!InductiveInvariant => Https!NothingToWaitFor
  <2> SUFFICES ASSUME Https!InductiveInvariant, pc = "wait", phase = "up", arrived = Https!Total,
                      Https!SelfDelimiting
               PROVE  FALSE
    BY DEF Https!NothingToWaitFor
  <2>1. arrived < Https!Total
    BY DEF Https!InductiveInvariant, Https!Incomplete, Https!Resumable
  <2>2. arrived \in Nat /\ Https!Total \in Nat
    <3>1. response \in Responses /\ arrived \in 0..Https!Total
      BY DEF Https!InductiveInvariant, Https!Answered, Https!TypeOK
    <3>2. QED  BY <3>1, ConnectionsAssumption, PlainUnits
  <2>3. QED  BY <2>1, <2>2
<1>2. Websocket!InductiveInvariant => Websocket!NoFrameWaits
  BY DEF Websocket!InductiveInvariant
<1>3. InductiveInvariant => NothingWaits
  BY <1>1, <1>2 DEF InductiveInvariant, NothingWaits
<1>4. QED  BY <1>3, InductiveInvariantHolds, PTL

\* ServerAnswersOnceHolds (http_server_request.cpp, auth_server.cpp): for requests of any size, a
\* well-formed one reaches the handler whole and gets one response at most; the redirect server
\* reports sign-ins in order and looks nothing up once it is stopped.
THEOREM ServerAnswersOnceHolds == Spec => []ServerAnswersOnce
<1>1. InductiveInvariant => ServerAnswersOnce
  BY DEF InductiveInvariant, ServerAnswersOnce, Server!InductiveInvariant, Auth!InductiveInvariant
<1>2. QED  BY <1>1, InductiveInvariantHolds, PTL

\* CachedIsGoodHolds (dns.cpp, ssl_context.cpp): for any number of threads, the entry that a
\* thread is given of what all of them share and fill is fresh, alive and of its server.
THEOREM CachedIsGoodHolds == Spec => []CachedIsGood
<1>1. Tls!InductiveInvariant => Tls!ContextLives
  BY DEF Tls!InductiveInvariant, Tls!Pointing, Tls!ContextLives, Tls!Ports
<1>2. InductiveInvariant => CachedIsGood
  BY <1>1
  DEF InductiveInvariant, CachedIsGood, Dns!InductiveInvariant, Tls!InductiveInvariant
<1>3. QED  BY <1>2, InductiveInvariantHolds, PTL

\* ServedAreKeptHolds (socket_listener.h, socketengine.cpp): for any descriptors, given again in
\* any order, an event goes to the connection that owns its descriptor, and the server destroys
\* none that is open.
THEOREM ServedAreKeptHolds == Spec => []ServedAreKept
<1>1. InductiveInvariant => ServedAreKept
  BY DEF InductiveInvariant, ServedAreKept, Listener!InductiveInvariant
<1>2. QED  BY <1>1, InductiveInvariantHolds, PTL
==============================================================================
