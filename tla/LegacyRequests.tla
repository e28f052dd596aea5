---------------------------- MODULE LegacyRequests ----------------------------
(***************************************************************************)
(* LegacySession on its own: every server makes one request after another  *)
(* against a controller that expires sessions at any moment, refuses, or   *)
(* does not answer.  The question is what the one retry of _get_v2 and     *)
(* _patch_v2 is good for: when it saves a request, how often a request is  *)
(* sent, and whether it ends.  That a client ever notices a dead session   *)
(* is not asserted: it takes a refusal in a form the code recognises, and  *)
(* what the controller answers has not been observed (docs/api-notes.md).  *)
(***************************************************************************)
EXTENDS LegacySession

VARIABLES
  req,      \* req[s]: "idle" or "open", a request in hand
  last,     \* last[s]: how the last request ended
  sends,    \* history: times the request in hand was put on the wire
  lapses,   \* history: session ends the request in hand had to cope with
  fault     \* history: it met something other than an expired session

client == <<req, last, sends, lapses, fault>>
vars == <<session, client>>

\* The history counters stop here; more is not told apart.
Ceiling == 3
Up(n) == IF n < Ceiling THEN n + 1 ELSE n

TypeOK ==
  /\ SessionTypeOK
  /\ req \in [Servers -> {"idle", "open"}]
  /\ last \in [Servers -> {"none", "ok", "error"}]
  /\ sends \in [Servers -> 0..Ceiling]
  /\ lapses \in [Servers -> 0..Ceiling]
  /\ fault \in [Servers -> BOOLEAN]

Init ==
  /\ SessionInit
  /\ req = [s \in Servers |-> "idle"]
  /\ last = [s \in Servers |-> "none"]
  /\ sends = [s \in Servers |-> 0]
  /\ lapses = [s \in Servers |-> 0]
  /\ fault = [s \in Servers |-> FALSE]

-----------------------------------------------------------------------------
\* The steps of a request

\* _get_v2 or _patch_v2 is called with _retried = False.
Start(s) ==
  /\ req[s] = "idle"
  /\ req' = [req EXCEPT ![s] = "open"]
  /\ last' = [last EXCEPT ![s] = "none"]
  /\ sends' = [sends EXCEPT ![s] = 0]
  /\ lapses' = [lapses EXCEPT ![s] = IF loggedIn[s] /\ ~live[s] THEN 1 ELSE 0]
  /\ fault' = [fault EXCEPT ![s] = FALSE]
  /\ UNCHANGED session

Setup(s) ==
  /\ req[s] = "open"
  /\ Discover(s) \/ Login(s)
  /\ UNCHANGED client

Finish(s, result) ==
  /\ req' = [req EXCEPT ![s] = "idle"]
  /\ last' = [last EXCEPT ![s] = result]

Sent(s) == sends' = [sends EXCEPT ![s] = Up(@)]

\* The payload's errorCode is 0: the result goes to the caller.
Succeed(s) ==
  /\ req[s] = "open"
  /\ Answered(s) /\ Sent(s) /\ Finish(s, "ok")
  /\ UNCHANGED <<lapses, fault>>

\* A recognised refusal of the first attempt; it is a fault of the controller's
\* when the session it refuses is one the controller has not ended.
Refuse(s) ==
  /\ req[s] = "open"
  /\ Refused(s) /\ Sent(s)
  /\ fault' = [fault EXCEPT ![s] = @ \/ live[s]]
  /\ UNCHANGED <<req, last, lapses>>

\* The retry is refused as well, because its new session has expired by then.
RefuseAgain(s) ==
  /\ req[s] = "open"
  /\ ~MayRetry(s) /\ ~live[s]
  /\ Failed(s) /\ Sent(s) /\ Finish(s, "error")
  /\ UNCHANGED <<lapses, fault>>

\* No answer, or one that the code takes for an ordinary error.
Break(s) ==
  /\ req[s] = "open"
  /\ \/ Failed(s) /\ Sent(s)
     \/ SetupFails(s) /\ UNCHANGED sends
  /\ Finish(s, "error")
  /\ fault' = [fault EXCEPT ![s] = TRUE]
  /\ UNCHANGED lapses

RequestStep(s) == Setup(s) \/ Succeed(s) \/ Refuse(s) \/ RefuseAgain(s) \/ Break(s)

-----------------------------------------------------------------------------
\* The controller and the host

SessionExpires(s) ==
  /\ Expire(s)
  /\ lapses' = [lapses EXCEPT ![s] = IF req[s] = "open" THEN Up(@) ELSE @]
  /\ UNCHANGED <<req, last, sends, fault>>

\* The process is stopped, with whatever it had in hand, and started again.
ServerRestarts(s) ==
  /\ Restart(s)
  /\ req' = [req EXCEPT ![s] = "idle"]
  /\ last' = [last EXCEPT ![s] = "none"]
  /\ sends' = [sends EXCEPT ![s] = 0]
  /\ lapses' = [lapses EXCEPT ![s] = 0]
  /\ fault' = [fault EXCEPT ![s] = FALSE]

Next == \E s \in Servers :
          \/ Start(s) \/ RequestStep(s)
          \/ SessionExpires(s) \/ ServerRestarts(s)

Spec == Init /\ [][Next]_vars

\* Every request has a timeout, so a request in hand goes on.
FairSpec == Spec /\ \A s \in Servers : WF_vars(RequestStep(s))

-----------------------------------------------------------------------------
\* The id is known before there is a session: the second _omadacid() of _get_v2
\* and _patch_v2 (client.py:237, 279) never goes to the controller, so nothing
\* comes between the login and the request that relies on it.
IdBeforeSession == \A s \in Servers : loggedIn[s] => oid[s]

\* However sessions end and logins go, one request is put on the wire at most
\* twice: the retry of client.py:243-246 and 285-288 is not repeated.
AtMostTwoSends == \A s \in Servers : sends[s] <= 2

\* Expired sessions alone do not make a request fail: an error that no other
\* fault explains took two of them, the second one against the session the
\* retry had just opened.
OneExpiryIsAbsorbed ==
  \A s \in Servers : last[s] = "error" /\ ~fault[s] => lapses[s] >= 2

\* Every request ends, also against a controller that refuses every session.
RequestEnds == \A s \in Servers : req[s] = "open" ~> req[s] = "idle"

\* What the request contract sees of server s.
Contract(s) == INSTANCE RequestContract WITH
  open <- req[s] = "open",
  again <- req[s] = "open" /\ att[s] = 2,
  last <- last[s],
  lapses <- IF lapses[s] < 2 THEN lapses[s] ELSE 2,
  fault <- fault[s]

\* Each server's requests keep the contract: repeated once, with cause, and
\* failed with cause (client.py:235-250 and 277-292).
KeepsContract ==
  /\ \A s \in Servers : Contract(s)!Init
  /\ [][\A s \in Servers : [Contract(s)!Next]_(Contract(s)!vars)]_vars
=============================================================================
