------------------------------ MODULE AuthServer -------------------------------
(***************************************************************************)
(* tpp::auth_server (src/src/auth_server.cpp): the redirects that a        *)
(* browser brings to the local HTTP server are answered at once; one with  *)
(* a token starts a look-up of its user, which ends in on_authenticate.    *)
(* A `completed` that throws is called again when its https_client closes  *)
(* (https_client.cpp 316-321), and signs the same redirect in once more.   *)
(* The handlers run on the IO thread; start(), stop() and                  *)
(* generate_auth_url() are called while no handler runs.                   *)
(***************************************************************************)
EXTENDS Naturals, Sequences

CONSTANTS MaxRedirects, MaxUrls, MaxStarts, \* bounds
          MaxThrows,   \* bound: how often the function of one look-up throws
          None

AuthAssumption ==
  {MaxRedirects, MaxUrls, MaxStarts, MaxThrows} \subseteq Nat /\ None \notin Nat

VARIABLES server_,      \* whether there is one
          starts,
          oauth_state_, \* the nonce of the latest URL, by its number; 0 before the first
          redirects,    \* how many came; a redirect is called by its number
          replies,      \* redirect -> the page it got, or None when the handler threw
          user_lookup_, \* the redirect whose https_client it holds, or None
          looking,      \* whether that has not completed yet
          signed_in,    \* the redirects on_authenticate was called for
          thrown        \* <<redirect, n>>: the n-th time that the function of its look-up threw

vars == <<server_, starts, oauth_state_, redirects, replies, user_lookup_, looking, signed_in,
  thrown>>

Init ==
  /\ server_ = FALSE /\ starts = 0
  /\ oauth_state_ = 0
  /\ redirects = 0 /\ replies = <<>>
  /\ user_lookup_ = None /\ looking = FALSE /\ signed_in = <<>> /\ thrown = {}

\* A second start() throws, because the port is bound.
Start ==
  /\ starts < MaxStarts /\ ~server_
  /\ server_' = TRUE /\ starts' = starts + 1
  /\ UNCHANGED <<oauth_state_, redirects, replies, user_lookup_, looking, signed_in, thrown>>

\* Fault: the look-up is left running.
StopKeepsLookup ==
  /\ server_ /\ server_' = FALSE
  /\ UNCHANGED <<starts, oauth_state_, redirects, replies, user_lookup_, looking, signed_in, thrown>>

\* The https_client is destroyed, which does not call `completed`.
Stop ==
  /\ server_ /\ server_' = FALSE
  /\ user_lookup_' = None /\ looking' = FALSE
  /\ UNCHANGED <<starts, oauth_state_, redirects, replies, signed_in, thrown>>

GenerateAuthUrl ==
  /\ oauth_state_ < MaxUrls
  /\ oauth_state_' = oauth_state_ + 1
  /\ UNCHANGED <<server_, starts, redirects, replies, user_lookup_, looking, signed_in, thrown>>

-----------------------------------------------------------------------------
(* handle_auth_request().  A redirect is what the query string has.          *)

Redirect == [kind : {"empty", "error", "incomplete"}]
            \cup [kind : {"token", "badnumber"}, state : 0..MaxUrls]

Current(r) == r.kind \in {"token", "badnumber"} /\ r.state = oauth_state_

Reply(page) == redirects' = redirects + 1 /\ replies' = Append(replies, page)

Comes(r) ==
  /\ server_ /\ redirects < MaxRedirects
  /\ r.kind \in {"token", "badnumber"} => r.state <= oauth_state_
  /\ UNCHANGED <<server_, starts, oauth_state_, signed_in, thrown>>

\* The fragment is turned into a query string by the page, or Twitch reports an error, or the
\* token or its state is not what was asked for.
HandleOther(r) ==
  /\ Comes(r) /\ ~Current(r)
  /\ Reply(CASE r.kind = "empty" -> "forward" [] r.kind = "error" -> "failure"
             [] OTHER -> "badrequest")
  /\ UNCHANGED <<user_lookup_, looking>>

\* It throws, and there is no page: expires_in is no number, or the https_client cannot be made.
\* An earlier look-up goes on.
HandleThrows(r) ==
  /\ Comes(r) /\ Current(r)
  /\ Reply(None)
  /\ UNCHANGED <<user_lookup_, looking>>

\* resolve_authenticated_user(): the https_client of an earlier redirect is destroyed.
HandleToken(r) ==
  /\ Comes(r) /\ Current(r) /\ r.kind = "token"
  /\ Reply("success")
  /\ user_lookup_' = redirects' /\ looking' = TRUE

-----------------------------------------------------------------------------
(* The function `completed` of the look-up.                                  *)

\* The redirects whose look-up threw.
Thrown == {t[1] : t \in thrown}

\* on_authenticate.call(): an event emitter, whose listeners may throw as well.
Reports == signed_in' = Append(signed_in, user_lookup_)

Completed == looking /\ looking' = FALSE
             /\ UNCHANGED <<server_, starts, oauth_state_, redirects, replies, user_lookup_, thrown>>

UserFound == Completed /\ Reports

\* Another status, a timeout, or no user in the answer: it is logged.
UserNotFound == Completed /\ UNCHANGED signed_in

\* value() finds another type or create_consumer() throws, or else a listener does, when some
\* were called: the https_client closes and calls the function once more.
CompletedThrows ==
  /\ looking
  /\ \E n \in 1..MaxThrows : <<user_lookup_, n>> \notin thrown
                          /\ thrown' = thrown \cup {<<user_lookup_, n>>}
  /\ Reports \/ UNCHANGED signed_in
  /\ UNCHANGED <<server_, starts, oauth_state_, redirects, replies, user_lookup_, looking>>

HandleAuthRequest(r) == HandleOther(r) \/ HandleThrows(r) \/ HandleToken(r)
Lookup == UserFound \/ UserNotFound \/ CompletedThrows

Next == Start \/ Stop \/ GenerateAuthUrl \/ (\E r \in Redirect : HandleAuthRequest(r)) \/ Lookup

Spec == Init /\ [][Next]_vars
\* A request of an https_client completes, see CompletedAtAll of HttpsClient; one that threw is
\* completed again only by what comes of its connection.
FirstLookup == Lookup /\ user_lookup_ \notin Thrown
FairSpec == Spec /\ WF_vars(FirstLookup)
-----------------------------------------------------------------------------
(* Properties.                                                               *)

\* on_authenticate is called for redirects that got the success page, in the order they came
\* (what is late of an earlier one is not delivered behind a later one), and again for the same
\* redirect only when the function of its look-up threw.
SignInsInOrder ==
  /\ \A i, j \in 1..Len(signed_in) :
       i < j => \/ signed_in[i] < signed_in[j]
                \/ signed_in[i] = signed_in[j] /\ signed_in[i] \in Thrown
  /\ \A i \in 1..Len(signed_in) : replies[signed_in[i]] = "success"

\* Nobody is signed in by a server that was stopped.
NoLookupBehindStop == looking => server_

\* The latest redirect that got the success page is looked up to the end, or to a throw.
Pending == looking /\ user_lookup_ \notin Thrown
LookupEnds == Pending ~> ~Pending

-----------------------------------------------------------------------------
(* The inductive invariant behind SignInsInOrder and NoLookupBehindStop.     *)

TypeOK ==
  /\ server_ \in BOOLEAN /\ starts \in 0..MaxStarts
  /\ oauth_state_ \in 0..MaxUrls
  /\ redirects \in Nat
  /\ replies \in Seq({"forward", "failure", "badrequest", "success", None})
  /\ Len(replies) = redirects
  /\ user_lookup_ \in 1..redirects \cup {None} /\ looking \in BOOLEAN
  /\ signed_in \in Seq(1..redirects)
  /\ thrown \subseteq (1..redirects) \X (1..MaxThrows)

\* The redirect that is looked up got the success page, and came after those signed in.
LookingUpTheLatest ==
  looking =>
    /\ user_lookup_ # None /\ replies[user_lookup_] = "success"
    /\ \A i \in 1..Len(signed_in) :
         \/ signed_in[i] < user_lookup_
         \/ signed_in[i] = user_lookup_ /\ user_lookup_ \in Thrown

InductiveInvariant == TypeOK /\ LookingUpTheLatest /\ SignInsInOrder /\ NoLookupBehindStop
=============================================================================
