------------------------- MODULE LegacyRequestsProofs -------------------------
(***************************************************************************)
(* The safety properties of LegacyRequests for any set of servers.  The    *)
(* inductive invariant says what the attempt number means: an open request *)
(* has been sent once less than its number, and a second attempt has       *)
(* already been cost a session, unless something else went wrong.          *)
(***************************************************************************)
EXTENDS LegacyRequests, TLAPS

\* What is known of one server.
Attempts(s) ==
  /\ req[s] = "idle" => att[s] = 1 /\ sends[s] <= 2
  /\ req[s] = "open" => sends[s] = att[s] - 1 /\ last[s] = "none"

Lapses(s) ==
  /\ req[s] = "open" /\ ~fault[s] =>
       /\ loggedIn[s] /\ ~live[s] => lapses[s] >= 1
       /\ att[s] = 2 => lapses[s] >= 1
       /\ att[s] = 2 /\ loggedIn[s] /\ ~live[s] => lapses[s] >= 2
  /\ last[s] = "error" /\ ~fault[s] => lapses[s] >= 2

IInv ==
  /\ TypeOK
  /\ IdBeforeSession
  /\ \A s \in Servers : Attempts(s) /\ Lapses(s)

\* The invariant holds when the servers start.
LEMMA InitIInv == Init => IInv
  BY OmadacIdAssumption
     DEF Init, SessionInit, IInv, TypeOK, SessionTypeOK, IdBeforeSession,
         Attempts, Lapses, Ceiling

\* Every step of a request, of the controller and of the host preserves it.
LEMMA StepIInv == IInv /\ [Next]_vars => IInv'
<1> SUFFICES ASSUME IInv, [Next]_vars PROVE IInv'
  OBVIOUS
<1> USE DEF IInv, TypeOK, SessionTypeOK, IdBeforeSession, Attempts, Lapses, Ceiling,
            Up, session, client, MayRetry
<1>1. CASE UNCHANGED vars
  BY <1>1 DEF vars
<1>2. ASSUME NEW s \in Servers, Start(s) PROVE IInv'
  BY <1>2 DEF Start
<1>3. ASSUME NEW s \in Servers, Setup(s) PROVE IInv'
  <2>1. CASE Discover(s)
    BY <1>3, <2>1 DEF Setup, Discover
  <2>2. CASE Login(s)
    BY <1>3, <2>2 DEF Setup, Login
  <2> QED
    BY <1>3, <2>1, <2>2 DEF Setup
<1>4. ASSUME NEW s \in Servers, Succeed(s) PROVE IInv'
  BY <1>4 DEF Succeed, Answered, Sent, Finish
<1>5. ASSUME NEW s \in Servers, Refuse(s) PROVE IInv'
  BY <1>5 DEF Refuse, Refused, Sent
<1>6. ASSUME NEW s \in Servers, RefuseAgain(s) PROVE IInv'
  BY <1>6 DEF RefuseAgain, Failed, Sent, Finish
<1>7. ASSUME NEW s \in Servers, Break(s) PROVE IInv'
  BY <1>7 DEF Break, Failed, SetupFails, Sent, Finish
<1>8. ASSUME NEW s \in Servers, SessionExpires(s) PROVE IInv'
  BY <1>8 DEF SessionExpires, Expire
<1>9. ASSUME NEW s \in Servers, ServerRestarts(s) PROVE IInv'
  BY <1>9 DEF ServerRestarts, Restart
<1> QED
  BY <1>1, <1>2, <1>3, <1>4, <1>5, <1>6, <1>7, <1>8, <1>9 DEF Next, RequestStep

THEOREM Invariance == Spec => []IInv
  BY InitIInv, StepIInv, PTL DEF Spec

\* The variables keep their types.
THEOREM TypeCorrect == Spec => []TypeOK
<1>1. IInv => TypeOK
  BY DEF IInv
<1> QED
  BY <1>1, Invariance, PTL

\* No request relies on a login made without the controller's id.
THEOREM IdIsKnown == Spec => []IdBeforeSession
<1>1. IInv => IdBeforeSession
  BY DEF IInv
<1> QED
  BY <1>1, Invariance, PTL

\* The wire carries one request at most twice.
THEOREM RetryIsBounded == Spec => []AtMostTwoSends
<1>1. ASSUME IInv, NEW s \in Servers PROVE sends[s] <= 2
  <2>1. att[s] \in {1, 2} /\ req[s] \in {"idle", "open"} /\ Attempts(s)
    BY <1>1 DEF IInv, TypeOK, SessionTypeOK
  <2> QED
    BY <2>1 DEF Attempts
<1>2. IInv => AtMostTwoSends
  BY <1>1 DEF AtMostTwoSends
<1> QED
  BY <1>2, Invariance, PTL

\* One ended session does not make a request fail.
THEOREM ExpiryIsAbsorbed == Spec => []OneExpiryIsAbsorbed
<1>1. IInv => OneExpiryIsAbsorbed
  BY DEF IInv, Lapses, OneExpiryIsAbsorbed
<1> QED
  BY <1>1, Invariance, PTL
-----------------------------------------------------------------------------
\* The request contract

\* A server that has just started promises nothing yet.
LEMMA ContractInit == Init => \A s \in Servers : Contract(s)!Init
<1> SUFFICES ASSUME Init, NEW s \in Servers PROVE Contract(s)!Init
  OBVIOUS
<1>1. ~(req[s] = "open") /\ last[s] = "none" /\ lapses[s] = 0 /\ fault[s] = FALSE
  BY DEF Init
<1>2. (req[s] = "open") = FALSE /\ (req[s] = "open" /\ att[s] = 2) = FALSE
  BY <1>1, Zenon
<1> QED BY <1>1, <1>2 DEF Contract!Init

\* What the contract sees of a server, unchanged.
Still(s) ==
  /\ req'[s] = req[s] /\ att'[s] = att[s] /\ last'[s] = last[s]
  /\ lapses'[s] = lapses[s] /\ fault'[s] = fault[s]

LEMMA StillContract == ASSUME NEW s, Still(s) PROVE UNCHANGED Contract(s)!vars
  BY Zenon DEF Still, Contract!vars

Step(t) == Start(t) \/ RequestStep(t) \/ SessionExpires(t) \/ ServerRestarts(t)

\* Another server's step shows nothing.
LEMMA Elsewhere ==
  ASSUME TypeOK, NEW s \in Servers, NEW t \in Servers, t # s, Step(t)
  PROVE  Still(s)
<1> USE DEF Still, TypeOK, SessionTypeOK, session, client
<1>1. CASE Start(t)
  BY <1>1 DEF Start
<1>2. CASE Setup(t)
  BY <1>2 DEF Setup, Discover, Login
<1>3. CASE Succeed(t)
  BY <1>3 DEF Succeed, Answered, Sent, Finish
<1>4. CASE Refuse(t)
  BY <1>4 DEF Refuse, Refused, Sent
<1>5. CASE RefuseAgain(t)
  BY <1>5 DEF RefuseAgain, Failed, Sent, Finish
<1>6. CASE Break(t)
  BY <1>6 DEF Break, Failed, SetupFails, Sent, Finish
<1>7. CASE SessionExpires(t)
  BY <1>7 DEF SessionExpires, Expire
<1>8. CASE ServerRestarts(t)
  BY <1>8 DEF ServerRestarts, Restart
<1> QED BY <1>1, <1>2, <1>3, <1>4, <1>5, <1>6, <1>7, <1>8 DEF Step, RequestStep

\* A server's own step is a step of the contract, or none.
LEMMA OwnStep ==
  ASSUME IInv, NEW s \in Servers, Step(s)
  PROVE  Contract(s)!Next \/ UNCHANGED Contract(s)!vars
<1> USE DEF IInv, TypeOK, SessionTypeOK, Attempts, Lapses, Ceiling, MayRetry
<1>1. CASE Start(s)
  <2>1. /\ req[s] # "open" /\ req'[s] = "open" /\ att'[s] # 2 /\ last'[s] = "none"
        /\ lapses'[s] \in {0, 1} /\ ~fault'[s]
    BY <1>1 DEF Start, session
  <2>2. Contract(s)!Open
    BY <2>1 DEF Contract!Open
  <2> QED BY <2>2 DEF Contract!Next
<1>2. CASE Setup(s)
  <2>1. Still(s)
    BY <1>2 DEF Setup, Discover, Login, client, Still
  <2> QED BY <2>1, StillContract
<1>3. CASE Succeed(s)
  <2>1. /\ req[s] = "open" /\ req'[s] # "open" /\ last'[s] = "ok"
        /\ lapses'[s] = lapses[s] /\ fault'[s] = fault[s]
    BY <1>3 DEF Succeed, Answered, Sent, Finish
  <2>2. Contract(s)!Succeed
    BY <2>1 DEF Contract!Succeed
  <2> QED BY <2>2 DEF Contract!Next
<1>4. CASE Refuse(s)
  <2>1. /\ req[s] = "open" /\ ~(att[s] = 2) /\ att'[s] = 2
        /\ req'[s] = req[s] /\ last'[s] = last[s] /\ lapses'[s] = lapses[s]
    BY <1>4 DEF Refuse, Refused
  <2>2. fault[s] \in BOOLEAN /\ fault'[s] \in BOOLEAN /\ (fault[s] => fault'[s])
    BY <1>4 DEF Refuse
  <2>3. fault'[s] \/ lapses'[s] >= 1
    BY <1>4 DEF Refuse, Refused
  <2>4. (req'[s] = "open") = (req[s] = "open") /\ (req'[s] = "open" /\ att'[s] = 2) = TRUE
    BY <2>1, Zenon
  <2>5. fault'[s] \in {fault[s], TRUE}
    BY <2>2
  <2>6. LET met(n) == IF n < 2 THEN n ELSE 2
        IN  met(lapses'[s]) = met(lapses[s]) /\ (fault'[s] \/ met(lapses[s]) >= 1)
    BY <2>1, <2>3
  <2>7. Contract(s)!Repeat
    BY <2>1, <2>4, <2>5, <2>6, ZenonT(30) DEF Contract!Repeat
  <2> QED BY <2>7 DEF Contract!Next
<1>5. CASE RefuseAgain(s)
  <2>1. /\ req[s] = "open" /\ att[s] = 2 /\ req'[s] # "open" /\ last'[s] = "error"
        /\ lapses'[s] = lapses[s] /\ fault'[s] = fault[s]
        /\ fault[s] \/ lapses[s] >= 2
    BY <1>5 DEF RefuseAgain, Failed, Finish
  <2>2. Contract(s)!Fail
    BY <2>1 DEF Contract!Fail
  <2> QED BY <2>2 DEF Contract!Next
<1>6. CASE Break(s)
  <2>1. /\ req[s] = "open" /\ req'[s] # "open" /\ last'[s] = "error"
        /\ lapses'[s] = lapses[s] /\ fault'[s]
    BY <1>6 DEF Break, Finish
  <2>2. Contract(s)!Fail
    BY <2>1 DEF Contract!Fail
  <2> QED BY <2>2 DEF Contract!Next
<1>7. CASE SessionExpires(s)
  <2>1. /\ req'[s] = req[s] /\ att'[s] = att[s] /\ last'[s] = last[s] /\ fault'[s] = fault[s]
        /\ lapses'[s] = IF req[s] = "open" THEN Up(lapses[s]) ELSE lapses[s]
    BY <1>7 DEF SessionExpires, Expire
  <2>2. CASE req[s] = "open" /\ lapses[s] < 2
    BY <2>1, <2>2 DEF Up, Contract!Lapse, Contract!Next
  <2>3. CASE req[s] # "open" \/ lapses[s] >= 2
    BY <2>1, <2>3 DEF Up, Contract!vars
  <2> QED BY <2>2, <2>3
<1>8. CASE ServerRestarts(s)
  <2>1. req'[s] # "open" /\ last'[s] = "none" /\ lapses'[s] = 0 /\ ~fault'[s]
    BY <1>8 DEF ServerRestarts
  <2>2. Contract(s)!Abandon
    BY <2>1 DEF Contract!Abandon
  <2> QED BY <2>2 DEF Contract!Next
<1> QED BY <1>1, <1>2, <1>3, <1>4, <1>5, <1>6, <1>7, <1>8 DEF Step, RequestStep

\* The legacy requests implement the request contract, whatever the servers:
\* one repetition, for a cause, and a failure for a cause.
THEOREM ContractKept == Spec => KeepsContract
<1>1. ASSUME IInv, Next, NEW s \in Servers PROVE [Contract(s)!Next]_(Contract(s)!vars)
  <2>1. PICK t \in Servers : Step(t)
    BY <1>1 DEF Next, Step
  <2>2. CASE t = s
    BY <1>1, <2>1, <2>2, OwnStep
  <2>3. CASE t # s
    BY <1>1, <2>1, <2>3, Elsewhere, StillContract DEF IInv
  <2> QED BY <2>2, <2>3
<1>2. IInv /\ [Next]_vars => [\A s \in Servers : [Contract(s)!Next]_(Contract(s)!vars)]_vars
  BY <1>1
<1> QED BY ContractInit, <1>2, Invariance, PTL DEF Spec, KeepsContract
=============================================================================
