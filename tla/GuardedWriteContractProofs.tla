---------------------- MODULE GuardedWriteContractProofs ----------------------
(***************************************************************************)
(* What a verdict means, and that set_radio_channel implements             *)
(* WriteContract: every step of GuardedWrite is a step of the contract or  *)
(* leaves all the contract speaks of alone.  For any servers, access       *)
(* points, channels and bounds, and a controller that does not answer      *)
(* Success without the radio; and what is left of both if it does.         *)
(***************************************************************************)
EXTENDS GuardedWriteLedgerProofs

\* With such a controller a GET of the radio returns the radio.
LEMMA ReplyIsRadio ==
  ASSUME EmptyReplies = FALSE, LInv, NEW s \in Servers, pc[s] = "verify",
         NEW got \in Replies(Rad(s))
  PROVE  /\ got = radio[Rad(s)] /\ got # NoRadio /\ Rad(s) \in Radios
         /\ ActualAfter(s, got) = radio[Rad(s)]
  BY RadType DEF Replies, ActualAfter, LInv, IInv, ReadingOK

\* What a call that is decided in a step of its own was decided on.
LEMMA DecisionIsFounded ==
  ASSUME EmptyReplies = FALSE, LInv, NEW s \in Servers, Progress(s), pc'[s] = "journal"
  PROVE  \/ out'[s] = "error"
         \/ out'[s] = "preview" /\ ~Args(s).confirm /\ applies[Cur(s)] = 0
         \/ /\ pc[s] = "verify" /\ Args(s).confirm
            /\ out'[s] = Verdict(s, radio[Rad(s)])
<1>1. Decided(s)
  BY DEF Progress
<1>2. CASE out'[s] = "preview" /\ pc[s] = "read" /\ ~Args(s).confirm
  BY <1>2 DEF LInv, IInv, EffectOK, Asking
<1>3. CASE pc[s] = "verify" /\ \E got \in Replies(Rad(s)) : out'[s] = Verdict(s, ActualAfter(s, got))
  BY <1>3, ReplyIsRadio DEF LInv, IInv, CallOK
<1> QED
  BY <1>1, <1>2, <1>3 DEF Decided

\* A step that decides a call applied or rejected is its own.
LEMMA VerdictIsOwn ==
  ASSUME LInv, Next, NEW s \in Servers, out[s] = "none",
         out'[s] \in {"applied", "rejected"}
  PROVE  Progress(s) /\ pc'[s] = "journal"
<1>1. ASSUME NEW q \in Servers, Progress(q)
      PROVE  Progress(s) /\ pc'[s] = "journal"
  BY <1>1 DEF Progress
<1>2. ASSUME NEW q \in Servers, NEW told, Ended(q, told) PROVE FALSE
  BY <1>2 DEF Ended
<1>3. ASSUME NEW q \in Servers,
             \/ \E a \in Call, explicit \in BOOLEAN : Begin(q, a, explicit)
             \/ \E a \in Call : RejectMac(q, a)
             \/ PatchCarriedOut(q) \/ PatchUnanswered(q) \/ Journal(q)
      PROVE  FALSE
  BY <1>3 DEF Begin, RejectMac, PatchCarriedOut, PatchUnanswered, Journal, Goto, End,
              LInv, IInv, TypeOK
<1>4. ~Elsewhere
  BY DEF Elsewhere
<1>5. ASSUME NEW q \in Servers, Server(q)
      PROVE  Progress(s) /\ pc'[s] = "journal"
  <2>1. CASE \/ Setup(q) \/ Retry(q) \/ RequestFails(q)
             \/ NextPage(q) \/ ResolveSite(q) \/ Find(q)
             \/ Read(q) \/ PatchDiscarded(q) \/ Verify(q)
    BY <1>1, <2>1, ProgressShape
  <2>2. ~(Return(q) \/ Crash(q))
    BY <1>2, EndShape
  <2>3. ~SessionExpires(q)
    BY <1>4, ElsewhereShape
  <2> QED
    BY <1>3, <1>5, <2>1, <2>2, <2>3 DEF Server, Step, Ask
<1>6. ~Environment
  BY <1>4, ElsewhereShape
<1> QED
  BY <1>5, <1>6 DEF Next

\* With a controller that answers a read with the radio, the verdict is about the
\* radio as it is.
LEMMA VerdictShape ==
  ASSUME EmptyReplies = FALSE, LInv, Next, NEW s \in Servers, out[s] = "none",
         out'[s] \in {"applied", "rejected"}
  PROVE  pc[s] = "verify" /\ out'[s] = Verdict(s, radio[Rad(s)])
  BY VerdictIsOwn, DecisionIsFounded

\* applied is decided only at a moment when the radio is on the requested
\* frequency.
THEOREM AppliedMeansOnFrequency ==
  ASSUME EmptyReplies = FALSE
  PROVE  Spec => AppliedIsConfirmed
<1>1. ASSUME LInv, Next, NEW s \in Servers, out[s] = "none", out'[s] = "applied"
      PROVE  radio[Rad(s)].freq = Target(s)
  BY <1>1, VerdictShape DEF Verdict
<1>2. ASSUME LInv, [Next]_vars
      PROVE  [\A s \in Servers : out[s] = "none" /\ out'[s] = "applied"
               => radio[Rad(s)].freq = Target(s)]_vars
  BY <1>1, <1>2
<1> QED
  BY <1>2, LedgerInvariance, PTL DEF Spec, AppliedIsConfirmed

\* rejected is decided only while the radio does not hold what the call wrote.
THEOREM RejectedMeansNotHeld ==
  ASSUME EmptyReplies = FALSE
  PROVE  Spec => RejectedIsExplained
<1>1. ASSUME LInv, Next, NEW s \in Servers, out[s] = "none", out'[s] = "rejected"
      PROVE  writer[Rad(s)] # Cur(s)
  BY <1>1, VerdictShape DEF Verdict, LInv, ReadingOK
<1>2. ASSUME LInv, [Next]_vars
      PROVE  [\A s \in Servers : out[s] = "none" /\ out'[s] = "rejected"
               => writer[Rad(s)] # Cur(s)]_vars
  BY <1>1, <1>2
<1> QED
  BY <1>2, LedgerInvariance, PTL DEF Spec, RejectedIsExplained

-----------------------------------------------------------------------------
\* The contract's view of the calls.

Carried == { id \in CallId : applies[id] > 0 }

\* The contract names the radio and the frequency of a call as the code does.
LEMMA ContractNames ==
  ASSUME NEW c
  PROVE  /\ Contract!RadioOf(c) = <<c.mac, c.band>>
         /\ Contract!TargetOf(c) = FreqOf(c.band, c.chan)
         /\ Offered(c.band, c.chan) => Contract!Offered(c.band, c.chan)
<1>1. Contract!TargetOf(c) = FreqOf(c.band, c.chan)
  BY DEF Contract!TargetOf, Contract!FreqOf, FreqOf
<1>2. Contract!ChannelsOf(c.band) = ChannelsOf(c.band)
  BY DEF Contract!ChannelsOf, ChannelsOf, Contract!Channels2g, Channels2g,
         Contract!Channels5g, Channels5g
<1> QED
  BY <1>1, <1>2 DEF Contract!RadioOf, Contract!Offered, Offered

\* The call a server is at is open until its end is decided.
LEMMA StatusOfCurrent ==
  ASSUME LInv, NEW s \in Servers, pc[s] # "idle"
  PROVE  /\ Cur(s) \in CallId /\ Cur(s)[1] = s /\ call[Cur(s)] \in Call
         /\ call[Cur(s)] # NoCall /\ answer[Cur(s)] = "none"
         /\ Status[Cur(s)] = IF out[s] = "none" THEN "open" ELSE out[s]
<1>1. /\ Cur(s) \in CallId /\ Cur(s)[1] = s /\ call[Cur(s)] \in Call
      /\ answer[Cur(s)] = "none"
  BY CurFacts DEF Args
<1>2. call[Cur(s)] # NoCall
  BY <1>1, WriteAssumption
<1> QED
  BY <1>1, <1>2 DEF Status

\* A step of one server leaves the status of all calls but its own as it is: a call
\* without an answer is its server's current one.
LEMMA StatusElsewhere ==
  ASSUME LInv, NEW s \in Servers, \A t \in Servers \ {s} : out'[t] = out[t],
         NEW id \in CallId, call'[id] = call[id], answer'[id] = answer[id],
         pc[s] = "idle" \/ id # Cur(s)
  PROVE  Status'[id] = Status[id]
<1>1. id[1] \in Servers
  BY DEF CallId
<1>2. call[id] # NoCall /\ answer[id] = "none" => id[1] # s
  BY <1>1 DEF LInv, RecordOK
<1> QED
  BY <1>1, <1>2 DEF Status

LEMMA StatusUpdate ==
  ASSUME NEW id \in CallId, NEW v, Status'[id] = v,
         \A j \in CallId : j # id => Status'[j] = Status[j]
  PROVE  Status' = [Status EXCEPT ![id] = v]
<1>1. Status = [j \in CallId |-> Status[j]]
  BY DEF Status
<1>2. Status' = [j \in CallId |-> Status'[j]]
  BY DEF Status
<1> QED
  BY <1>1, <1>2

LEMMA StatusSame ==
  ASSUME UNCHANGED <<out, call, answer>>
  PROVE  Status' = Status
  BY DEF Status

LEMMA CarriedUpdate ==
  ASSUME NEW w \in CallId, applies'[w] > 0,
         \A id \in CallId : id # w => applies'[id] = applies[id]
  PROVE  Carried' = Carried \cup {w}
  BY DEF Carried

-----------------------------------------------------------------------------
\* Each kind of step, seen from the contract.

View == <<radio, call, Status, answer, Carried>>

\* The call's end is decided.
LEMMA DecideIsContract ==
  ASSUME LInv, NEW s \in Servers, pc[s] \in Asking, NEW outcome \in Outcome,
         out'[s] = outcome, \A t \in Servers \ {s} : out'[t] = out[t],
         UNCHANGED <<radio, call, answer, applies>>,
         outcome = "preview" => ~Args(s).confirm /\ applies[Cur(s)] = 0,
         outcome \in {"applied", "rejected"} => Args(s).confirm,
         outcome = "applied" => /\ Rad(s) \in Radios /\ radio[Rad(s)] # NoRadio
                                /\ radio[Rad(s)].freq = Target(s)
  PROVE  Contract!Decide(Cur(s), outcome)
<1>1. /\ Cur(s) \in CallId /\ Cur(s)[1] = s /\ call[Cur(s)] # NoCall
      /\ answer[Cur(s)] = "none"
      /\ Status[Cur(s)] = IF out[s] = "none" THEN "open" ELSE out[s]
  BY StatusOfCurrent DEF Asking
<1>2. Status[Cur(s)] = "open"
  BY <1>1 DEF LInv, IInv, CallOK, Asking
<1>3. outcome # "none"
  BY DEF Outcome
<1>4. Status'[Cur(s)] = outcome
  BY <1>1, <1>3 DEF Status
<1>5. \A j \in CallId : j # Cur(s) => Status'[j] = Status[j]
  BY StatusElsewhere
<1>6. Status' = [Status EXCEPT ![Cur(s)] = outcome]
  BY <1>1, <1>4, <1>5, StatusUpdate
<1>7. outcome = "preview" => ~call[Cur(s)].confirm /\ Cur(s) \notin Carried
  BY <1>1 DEF Carried, Args
<1>8. outcome = "applied" => Contract!OnTarget(call[Cur(s)])
  BY ContractNames DEF Contract!OnTarget, Contract!Has, Rad, Target, Args
<1>9. UNCHANGED <<radio, call, answer, Carried>>
  BY DEF Carried
<1> QED
  BY <1>2, <1>6, <1>7, <1>8, <1>9 DEF Contract!Decide, Carried, Args

\* A verdict that the radio does not bear out is of this kind.
LEMMA DepartureIsUnconfirmed ==
  ASSUME LInv, NEW s \in Servers, pc[s] = "verify", NEW got \in Replies(Rad(s)),
         out'[s] = Verdict(s, ActualAfter(s, got)), out'[s] = "applied",
         radio[Rad(s)].freq # Target(s)
  PROVE  Unconfirmed(s)
<1>1. ActualAfter(s, got).freq = Target(s)
  BY DEF Verdict
<1>2. got = NoRadio /\ ActualAfter(s, got) = before[s]
  BY <1>1 DEF ActualAfter, Replies
<1>3. EmptyReplies
  BY <1>1, <1>2, ReplyIsRadio, WriteAssumption
<1> QED
  BY <1>1, <1>2, <1>3 DEF Unconfirmed

\* A call goes on, or its end is decided.
LEMMA ProgressIsContract ==
  ASSUME LInv, NEW s \in Servers, Progress(s), ~Unconfirmed(s)
  PROVE  UNCHANGED View \/ \E o \in Outcome : Contract!Decide(Cur(s), o)
<1>1. /\ UNCHANGED <<radio, call, answer, applies>> /\ pc[s] \in Asking
      /\ \A t \in Servers \ {s} : out'[t] = out[t]
  BY DEF Progress, device, record
<1>2. CASE pc'[s] # "journal"
  <2>1. \A t \in Servers : out'[t] = out[t]
    BY <1>1, <1>2 DEF Progress, LInv, IInv, CallOK, Asking
  <2>2. \A id \in CallId : Status'[id] = Status[id]
    BY <1>1, <2>1 DEF Status, CallId
  <2> QED
    BY <1>1, <2>2 DEF View, Carried, Status
<1>3. CASE pc'[s] = "journal"
  <2>1. Decided(s)
    BY <1>3 DEF Progress
  <2>2. CASE out'[s] = "error"
    BY <1>1, <2>2, DecideIsContract DEF Outcome
  <2>3. CASE out'[s] = "preview" /\ pc[s] = "read" /\ ~Args(s).confirm
    <3>1. applies[Cur(s)] = 0
      BY <2>3 DEF LInv, IInv, EffectOK, Asking
    <3> QED
      BY <1>1, <2>3, <3>1, DecideIsContract DEF Outcome
  <2>4. CASE pc[s] = "verify" /\ \E got \in Replies(Rad(s)) : out'[s] = Verdict(s, ActualAfter(s, got))
    <3>1. out'[s] \in {"applied", "rejected"}
      BY <2>4 DEF Verdict
    <3>2. Rad(s) \in Radios /\ radio[Rad(s)] # NoRadio /\ Args(s).confirm
      BY <2>4, RadType DEF LInv, IInv, ReadingOK, CallOK
    <3>3. out'[s] = "applied" => radio[Rad(s)].freq = Target(s)
      BY <2>4, DepartureIsUnconfirmed
    <3> QED
      BY <1>1, <3>1, <3>2, <3>3, DecideIsContract DEF Outcome
  <2> QED
    BY <2>1, <2>2, <2>3, <2>4 DEF Decided
<1> QED
  BY <1>2, <1>3

\* The controller carries out a PATCH.
LEMMA CarryOutIsContract ==
  ASSUME LInv, NEW m \in Message, CarryOut(m), adm' = adm, applies[m.id] = 0,
         MayWrite(m.id), m.rad = <<call[m.id].mac, call[m.id].band>>,
         m.body.freq = FreqOf(call[m.id].band, call[m.id].chan),
         radio[m.rad] # NoRadio, UNCHANGED <<out, call, answer>>,
         Status[m.id] \in {"open", "error", "crashed"}
  PROVE  \E x \in RadioSetting : Contract!TakeEffect(m.id, x)
<1>1. m.id \in CallId /\ m.rad \in Radios /\ m.body \in RadioSetting
  BY DEF Message
<1>2. /\ Overwritten(m.rad, m.body, m.id)
      /\ \A id \in CallId : id # m.id => applies'[id] = applies[id]
  BY CarryOutKeeps
<1>3. applies'[m.id] > 0
  BY <1>1 DEF CarryOut, LInv, IInv, TypeOK
<1>4. Carried' = Carried \cup {m.id} /\ m.id \notin Carried
  BY <1>1, <1>2, <1>3, CarriedUpdate DEF Carried
<1>5. radio' = [radio EXCEPT ![m.rad] = m.body] /\ Status' = Status
  BY <1>2, StatusSame DEF Overwritten
<1>6. /\ call[m.id].confirm /\ m.id[1] \in WriteEnabled
      /\ Offered(call[m.id].band, call[m.id].chan)
  BY DEF MayWrite, Permitted
<1>7. Contract!Offered(call[m.id].band, call[m.id].chan)
  BY <1>6, ContractNames
<1>8. Contract!RadioOf(call[m.id]) = m.rad /\ m.body.freq = Contract!TargetOf(call[m.id])
  BY ContractNames
<1>9. Contract!Has(call[m.id])
  BY <1>1, <1>8 DEF Contract!Has
<1>10. Contract!TakeEffect(m.id, m.body)
  BY <1>4, <1>5, <1>6, <1>7, <1>8, <1>9 DEF Contract!TakeEffect, Carried
<1> QED
  BY <1>1, <1>10

\* A PATCH in flight arrives: its call is past asking, so it is open no longer.
LEMMA ArrivalIsContract ==
  ASSUME LInv, NEW m \in inflight, LateArrival(m)
  PROVE  \E x \in RadioSetting : Contract!TakeEffect(m.id, x)
<1>1. m \in Message /\ m.id \in CallId
  BY DEF LInv, IInv, TypeOK, Message
<1>2. applies[m.id] = 0 /\ answer[m.id] \in {"none", "error", "crashed"} /\ MayWrite(m.id)
  BY DEF LInv, IInv, EffectOK, WritersOK
<1>3. /\ m.rad = <<call[m.id].mac, call[m.id].band>>
      /\ m.body.freq = FreqOf(call[m.id].band, call[m.id].chan)
  BY DEF LInv, ReadingOK
<1>4. call[m.id] # NoCall
  BY <1>2, WriteAssumption DEF MayWrite
<1>5. CASE answer[m.id] = "none"
  <2> DEFINE s == m.id[1]
  <2>1. s \in Servers /\ pc[s] # "idle" /\ m.id = Cur(s)
    BY <1>1, <1>4, <1>5 DEF LInv, RecordOK, CallId
  <2>2. pc[s] \notin Asking
    BY <2>1 DEF LInv, IInv, EffectOK
  <2>3. pc[s] \in {"journal", "return"}
    BY <2>1, <2>2 DEF LInv, IInv, TypeOK, Phase
  <2>4. out[s] = "error"
    BY <2>1, <2>3 DEF LInv, IInv, EffectOK
  <2>5. Status[m.id] = "error"
    BY <1>1, <1>4, <1>5, <2>4 DEF Status
  <2> QED
    BY <1>1, <1>2, <1>3, <2>5, CarryOutIsContract DEF LateArrival, record
<1>6. CASE answer[m.id] # "none"
  <2>1. Status[m.id] = answer[m.id]
    BY <1>1, <1>4, <1>6 DEF Status
  <2> QED
    BY <1>1, <1>2, <1>3, <1>6, <2>1, CarryOutIsContract DEF LateArrival, record
<1> QED
  BY <1>5, <1>6

\* The PATCH of a call is carried out and answered.
LEMMA CarriedIsContract ==
  ASSUME LInv, NEW s \in Servers, PatchCarriedOut(s)
  PROVE  \E x \in RadioSetting : Contract!TakeEffect(Cur(s), x)
<1>1. /\ pc[s] = "patch" /\ radio[Rad(s)] # NoRadio /\ CarryOut(Patch(s))
      /\ UNCHANGED <<out, adm, call, answer>>
  BY DEF PatchCarriedOut, Goto, record
<1>2. /\ Patch(s) \in Message /\ Patch(s).id = Cur(s) /\ Patch(s).rad = Rad(s)
      /\ Patch(s).body = Body(s) /\ Body(s).freq = Target(s) /\ MayWrite(Cur(s))
      /\ Rad(s) = <<call[Cur(s)].mac, call[Cur(s)].band>>
      /\ Target(s) = FreqOf(call[Cur(s)].band, call[Cur(s)].chan)
  BY <1>1, PatchFits
<1>3. applies[Cur(s)] = 0
  BY <1>1 DEF LInv, IInv, EffectOK, Asking
<1>4. Status[Cur(s)] = "open"
  BY <1>1, StatusOfCurrent DEF LInv, IInv, CallOK
<1> QED
  BY <1>1, <1>2, <1>3, <1>4, CarryOutIsContract

\* A call begins.
LEMMA BeginIsContract ==
  ASSUME LInv, NEW s \in Servers, NEW a \in Call, NEW explicit \in BOOLEAN,
         Begin(s, a, explicit) \/ RejectMac(s, a)
  PROVE  \E id \in CallId : Contract!Open(id, a)
<1> DEFINE new == <<s, n[s] + 1>>
<1>1. /\ pc[s] = "idle" /\ new \in CallId /\ a # NoCall
      /\ call' = [call EXCEPT ![new] = a] /\ UNCHANGED <<radio, applies>>
  BY WriteAssumption DEF Begin, RejectMac, NewCall, device, LInv, IInv, TypeOK, CallId
<1>2. call[new] = NoCall /\ answer[new] = "none"
  <2>1. new[2] > n[new[1]]
    BY <1>1 DEF LInv, IInv, TypeOK
  <2> QED
    BY <1>1, <2>1 DEF LInv, IInv, FutureOK, RecordOK
<1>3. Status[new] = "none"
  BY <1>1, <1>2 DEF Status
<1>4. call'[new] = a /\ \A id \in CallId : id # new => call'[id] = call[id]
  BY <1>1 DEF LInv, IInv, TypeOK
<1>5. \A t \in Servers \ {s} : out'[t] = out[t]
  BY DEF Begin, RejectMac, Goto, End, LInv, IInv, TypeOK
<1>6. ASSUME \A id \in CallId : id # new => answer'[id] = answer[id],
             NEW v, Status'[new] = v
      PROVE  Status' = [Status EXCEPT ![new] = v]
  <2>1. \A id \in CallId : id # new => Status'[id] = Status[id]
    BY <1>1, <1>4, <1>5, <1>6, StatusElsewhere
  <2> QED
    BY <1>1, <1>6, <2>1, StatusUpdate
<1>7. out[s] = "none" /\ new[1] = s
  BY <1>1 DEF LInv, IInv, CallOK
<1>8. CASE Begin(s, a, explicit)
  <2>1. UNCHANGED answer
    BY <1>8 DEF Begin
  <2>2. out'[s] \in {"none", "error"}
    BY <1>7, <1>8 DEF Begin, Goto, End, LInv, IInv, TypeOK
  <2>3. Status'[new] \in {"open", "error"}
    BY <1>1, <1>2, <1>4, <1>7, <2>1, <2>2 DEF Status
  <2>4. \/ Status' = [Status EXCEPT ![new] = "open"]
        \/ Status' = [Status EXCEPT ![new] = "error"]
    BY <1>6, <2>1, <2>3
  <2>5. Contract!Open(new, a)
    BY <1>1, <1>3, <2>1, <2>4 DEF Contract!Open
  <2> QED
    BY <1>1, <2>5
<1>9. CASE RejectMac(s, a)
  <2>1. answer' = [answer EXCEPT ![new] = "error"]
    BY <1>9 DEF RejectMac
  <2>2. answer'[new] = "error" /\ \A id \in CallId : id # new => answer'[id] = answer[id]
    BY <1>1, <2>1 DEF LInv, IInv, TypeOK
  <2>3. Status'[new] = "error"
    BY <1>1, <1>4, <2>2 DEF Status
  <2>4. Status' = [Status EXCEPT ![new] = "error"]
    BY <1>6, <2>2, <2>3
  <2>5. Contract!Open(new, a)
    BY <1>1, <1>3, <2>1, <2>4 DEF Contract!Open
  <2> QED
    BY <1>1, <2>5
<1> QED
  BY <1>8, <1>9

\* A call ends: its caller is told what was decided, or its process is gone.
LEMMA EndIsContract ==
  ASSUME LInv, NEW s \in Servers, NEW told, Ended(s, told)
  PROVE  \/ UNCHANGED View
         \/ pc[s] # "idle" /\ (Contract!Tell(Cur(s)) \/ Contract!Die(Cur(s)))
<1>1. /\ UNCHANGED <<radio, call, applies>> /\ out'[s] = "none"
      /\ \A t \in Servers \ {s} : out'[t] = out[t]
      /\ answer' = IF pc[s] = "idle" THEN answer ELSE [answer EXCEPT ![Cur(s)] = told]
  BY DEF Ended
<1>2. CASE pc[s] = "idle"
  <2>1. \A id \in CallId : Status'[id] = Status[id]
    BY <1>1, <1>2, StatusElsewhere
  <2> QED
    BY <1>1, <1>2, <2>1 DEF View, Carried, Status
<1>3. CASE pc[s] # "idle"
  <2>1. /\ Cur(s) \in CallId /\ call[Cur(s)] # NoCall /\ answer[Cur(s)] = "none"
        /\ Status[Cur(s)] = IF out[s] = "none" THEN "open" ELSE out[s]
    BY <1>3, StatusOfCurrent
  <2>2. /\ answer' = [answer EXCEPT ![Cur(s)] = told] /\ answer'[Cur(s)] = told
        /\ \A id \in CallId : id # Cur(s) => answer'[id] = answer[id]
    BY <1>1, <1>3, <2>1 DEF LInv, IInv, TypeOK
  <2>3. \A id \in CallId : id # Cur(s) => Status'[id] = Status[id]
    BY <1>1, <2>2, StatusElsewhere
  <2>4. \/ told = out[s] /\ out[s] \in Outcome
        \/ told = "crashed"
    BY DEF Ended, LInv, IInv, CallOK
  <2>5. Status'[Cur(s)] = told
    BY <1>1, <2>1, <2>2, <2>4 DEF Status, Outcome
  <2>6. Status' = [Status EXCEPT ![Cur(s)] = told]
    BY <2>1, <2>3, <2>5, StatusUpdate
  <2>7. CASE told = out[s] /\ out[s] \in Outcome
    <3>1. Status[Cur(s)] = told
      BY <2>1, <2>7 DEF Outcome
    <3>2. Status' = Status
      BY <2>6, <3>1 DEF Status
    <3>3. Contract!Tell(Cur(s))
      BY <1>1, <2>1, <2>2, <2>7, <3>1, <3>2 DEF Contract!Tell, Contract!Outcome, Outcome
    <3> QED
      BY <1>3, <3>3
  <2>8. CASE told = "crashed"
    <3>1. Status[Cur(s)] # "none"
      BY <2>1
    <3>2. Contract!Die(Cur(s))
      BY <1>1, <2>1, <2>2, <2>6, <2>8, <3>1 DEF Contract!Die
    <3> QED
      BY <1>3, <3>2
  <2> QED
    BY <2>4, <2>7, <2>8
<1> QED
  BY <1>2, <1>3

\* Every step but that one is a step of the contract, or one it does not see.
LEMMA StepIsContract ==
  ASSUME LInv, [Next]_vars, \A s \in Servers : ~Unconfirmed(s)
  PROVE  Contract!Next \/ UNCHANGED View
<1> USE DEF Contract!Next
<1>1. ASSUME NEW s \in Servers, Server(s) PROVE Contract!Next \/ UNCHANGED View
  <2>1. ASSUME NEW a \in Call, NEW explicit \in BOOLEAN, Begin(s, a, explicit) \/ RejectMac(s, a)
        PROVE  Contract!Next
    BY <2>1, BeginIsContract
  <2>2. pc[s] # "idle" => Cur(s) \in CallId
    BY CurFacts
  <2>3. CASE \/ Setup(s) \/ Retry(s) \/ RequestFails(s)
             \/ NextPage(s) \/ ResolveSite(s) \/ Find(s)
             \/ Read(s) \/ PatchDiscarded(s) \/ Verify(s)
    <3>1. Progress(s) /\ pc[s] # "idle"
      BY <2>3, ProgressShape DEF Progress, Asking
    <3>2. UNCHANGED View \/ \E o \in Outcome : Contract!Decide(Cur(s), o)
      BY <3>1, ProgressIsContract
    <3> QED
      BY <2>2, <3>1, <3>2 DEF Outcome, Contract!Outcome
  <2>4. CASE PatchCarriedOut(s)
    BY <2>2, <2>4, CarriedIsContract DEF PatchCarriedOut
  <2>5. CASE PatchUnanswered(s)
    <3>1. /\ pc[s] = "patch" /\ out'[s] = "error" /\ UNCHANGED <<radio, call, answer, applies>>
          /\ \A t \in Servers \ {s} : out'[t] = out[t]
      BY <2>5 DEF PatchUnanswered, End, record, LInv, IInv, TypeOK
    <3>2. Contract!Decide(Cur(s), "error")
      BY <3>1, DecideIsContract DEF Outcome, Asking
    <3> QED
      BY <2>2, <3>1, <3>2 DEF Contract!Outcome
  <2>6. CASE Journal(s)
    <3>1. UNCHANGED <<radio, out, call, answer, applies>>
      BY <2>6 DEF Journal, Goto, device
    <3> QED
      BY <3>1, StatusSame DEF View, Carried
  <2>7. CASE Return(s) \/ Crash(s)
    <3>1. PICK told : Ended(s, told)
      BY <2>7, EndShape
    <3> QED
      BY <2>2, <3>1, EndIsContract
  <2>8. CASE SessionExpires(s)
    <3>1. UNCHANGED <<radio, out, call, answer, applies>>
      BY <2>8 DEF SessionExpires, device, record
    <3> QED
      BY <3>1, StatusSame DEF View, Carried
  <2> QED
    BY <1>1, <2>1, <2>3, <2>4, <2>5, <2>6, <2>7, <2>8 DEF Server, Step, Ask
<1>2. ASSUME NEW m \in inflight, LateArrival(m) \/ NeverArrives(m)
      PROVE  Contract!Next \/ UNCHANGED View
  <2>1. m.id \in CallId
    BY DEF LInv, IInv, TypeOK, Message
  <2>2. CASE LateArrival(m)
    BY <2>1, <2>2, ArrivalIsContract
  <2>3. CASE NeverArrives(m)
    <3>1. UNCHANGED <<radio, out, call, answer, applies>>
      BY <2>3 DEF NeverArrives, record
    <3> QED
      BY <3>1, StatusSame DEF View, Carried
  <2> QED
    BY <1>2, <2>2, <2>3
<1>3. ASSUME NEW r \in Radios, NEW f \in FreqsOf(r[2]), NEW x \in Rests,
             Administer(r, [freq |-> f, rest |-> x])
      PROVE  Contract!Next
  <2>1. [freq |-> f, rest |-> x] \in RadioSetting
    <3>1. r[2] \in RadioBands
      BY DEF Radios
    <3> QED
      BY <3>1 DEF RadioSetting, Freqs
  <2>2. UNCHANGED <<out, call, answer, applies>>
    BY <1>3 DEF Administer, record
  <2>3. Contract!Other(r, [freq |-> f, rest |-> x])
    BY <1>3, <2>2, StatusSame DEF Contract!Other, Administer
  <2> QED
    BY <2>1, <2>3
<1>4. CASE UNCHANGED vars
  <2>1. UNCHANGED <<radio, out, call, answer, applies>>
    BY <1>4 DEF vars
  <2> QED
    BY <2>1, StatusSame DEF View, Carried
<1> QED
  BY <1>1, <1>2, <1>3, <1>4 DEF Next, Environment

\* set_radio_channel keeps its contract: a caller or an owner of the radios that
\* knows WriteContract alone is never surprised.
THEOREM ContractKept ==
  ASSUME EmptyReplies = FALSE
  PROVE  Spec => KeepsContract
<1>1. Init => Contract!Init
  BY DEF Init, Contract!Init, Status
<1>2. LInv /\ [Next]_vars => [Contract!Next]_(Contract!vars)
  BY StepIsContract DEF View, Carried, Contract!vars, Unconfirmed
<1> QED
  BY <1>1, <1>2, LedgerInvariance, PTL DEF Spec, KeepsContract, Contract!Spec

\* Against a controller that may answer Success without the radio, and with every
\* other fault too, the unconfirmed applied of guard.py:365 is the only step that
\* departs from the contract.
THEOREM OnlyUnconfirmedBreaksContract == Spec => OnlyUnconfirmedDeparts
<1>1. LInv /\ [Next]_vars => [\/ [Contract!Next]_(Contract!vars)
                             \/ \E s \in Servers : Unconfirmed(s)]_vars
  BY StepIsContract DEF View, Carried, Contract!vars
<1> QED
  BY <1>1, LedgerInvariance, PTL DEF Spec, OnlyUnconfirmedDeparts
=============================================================================
