---------------------------- MODULE LegacySession ----------------------------
(***************************************************************************)
(* The authenticated request of OmadaClient's legacy API (client.py), as   *)
(* _get_v2 and _patch_v2 run it: log in when the client believes it is     *)
(* not, discover the controller id first when it is not known, send, and   *)
(* when the controller's answer looks like an expired session, log in and  *)
(* send once more.                                                         *)
(*                                                                         *)
(* A server is one mcp-omada process with its one OmadaClient.  Its tool   *)
(* calls are serial, so a server has at most one request in hand; what     *)
(* interleaves is several servers, the controller, and the session expiry. *)
(* The operators below are the steps of a request.  LegacyRequests runs    *)
(* them on their own, GuardedWrite inside a whole tool call.               *)
(***************************************************************************)
EXTENDS Naturals

CONSTANTS
  Servers,        \* the mcp-omada processes
  OmadacIdSet     \* those whose settings carry the controller id

ASSUME OmadacIdAssumption == OmadacIdSet \subseteq Servers

VARIABLES
  oid,        \* oid[s]: _omadac_id is known
  loggedIn,   \* loggedIn[s]: _legacy_logged_in, what the client believes
  live,       \* live[s]: the controller accepts the cookie and token s holds
  att         \* att[s]: 1, or 2 once the request in hand is the retry

session == <<oid, loggedIn, live, att>>

SessionTypeOK ==
  /\ oid \in [Servers -> BOOLEAN]
  /\ loggedIn \in [Servers -> BOOLEAN]
  /\ live \in [Servers -> BOOLEAN]
  /\ att \in [Servers -> {1, 2}]

\* OmadaClient.__init__: no session, and the id only if the settings carry it.
SessionInit ==
  /\ oid = [s \in Servers |-> s \in OmadacIdSet]
  /\ loggedIn = [s \in Servers |-> FALSE]
  /\ live = [s \in Servers |-> FALSE]
  /\ att = [s \in Servers |-> 1]

\* _omadacid: GET /api/info answers with the id, which is kept for good.
Discover(s) ==
  /\ ~loggedIn[s] /\ ~oid[s]
  /\ oid' = [oid EXCEPT ![s] = TRUE]
  /\ UNCHANGED <<loggedIn, live, att>>

\* Mutated form: the login is posted before the id is known.
LoginWithoutId(s) ==
  /\ ~loggedIn[s]
  /\ loggedIn' = [loggedIn EXCEPT ![s] = TRUE]
  /\ live' = [live EXCEPT ![s] = TRUE]
  /\ UNCHANGED <<oid, att>>

\* _ensure_legacy_login: the POST answers with a token; the cookie jar and the
\* token now belong to a session the controller has just opened.
Login(s) ==
  /\ ~loggedIn[s] /\ oid[s]
  /\ loggedIn' = [loggedIn EXCEPT ![s] = TRUE]
  /\ live' = [live EXCEPT ![s] = TRUE]
  /\ UNCHANGED <<oid, att>>

\* The id or the login cannot be had (no answer, an error code, no token): the
\* request ends in an exception, and the client still knows it has no session.
SetupFails(s) ==
  /\ ~loggedIn[s]
  /\ att' = [att EXCEPT ![s] = 1]
  /\ UNCHANGED <<oid, loggedIn, live>>

\* The controller accepts the session and answers errorCode 0.
Answered(s) ==
  /\ loggedIn[s] /\ live[s]
  /\ att' = [att EXCEPT ![s] = 1]
  /\ UNCHANGED <<oid, loggedIn, live>>

\* Mutated form: the retry does not say that it is one.
MayAlwaysRetry(s) == att[s] \in {1, 2}

\* Only the first attempt may be repeated (the _retried parameter).
MayRetry(s) == att[s] = 1

\* Mutated forms: the flag is not reset before the retry; the attempts are
\* counted and never compared.
RefusedKeepsFlag(s) ==
  /\ loggedIn[s] /\ MayRetry(s)
  /\ att' = [att EXCEPT ![s] = 2]
  /\ UNCHANGED <<oid, loggedIn, live>>

RefusedWithoutEnd(s) ==
  /\ loggedIn[s] /\ att[s] < 3
  /\ loggedIn' = [loggedIn EXCEPT ![s] = FALSE]
  /\ att' = [att EXCEPT ![s] = @ + 1]
  /\ UNCHANGED <<oid, live>>

\* The first attempt is answered by an error _looks_like_auth_failure
\* recognises.  An expired session is one cause; a live session may be refused
\* like this too (HTTP 403, a message that mentions the login).
Refused(s) ==
  /\ loggedIn[s] /\ MayRetry(s)
  /\ loggedIn' = [loggedIn EXCEPT ![s] = FALSE]
  /\ att' = [att EXCEPT ![s] = 2]
  /\ UNCHANGED <<oid, live>>

\* The request ends in an exception after it was sent: no answer, an answer
\* that is not a JSON object, an error code that is not recognised as an
\* authentication failure, or one that is when the request was the retry.
\* _legacy_logged_in stays TRUE whatever the cause.
Failed(s) ==
  /\ loggedIn[s]
  /\ att' = [att EXCEPT ![s] = 1]
  /\ UNCHANGED <<oid, loggedIn, live>>

\* The controller drops the session; the client is not told.
Expire(s) ==
  /\ live[s]
  /\ live' = [live EXCEPT ![s] = FALSE]
  /\ UNCHANGED <<oid, loggedIn, att>>

\* The process ends and another starts: a new OmadaClient, an empty cookie jar.
Restart(s) ==
  /\ oid' = [oid EXCEPT ![s] = s \in OmadacIdSet]
  /\ loggedIn' = [loggedIn EXCEPT ![s] = FALSE]
  /\ live' = [live EXCEPT ![s] = FALSE]
  /\ att' = [att EXCEPT ![s] = 1]
=============================================================================
