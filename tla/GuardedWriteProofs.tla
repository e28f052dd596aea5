-------------------------- MODULE GuardedWriteProofs --------------------------
(***************************************************************************)
(* Type correctness of GuardedWrite and the two safety properties that     *)
(* matter most to the owner of the radios: a PATCH takes effect at most    *)
(* once, and a call whose caller was told preview, applied or rejected     *)
(* has nothing left in the network.  For any servers, access points,       *)
(* channels and bounds, with every fault of the model.                     *)
(***************************************************************************)
EXTENDS GuardedWrite, TLAPS

\* Two channels of one band have different frequencies.  The second read of a
\* call compares the frequency and nothing else, so this is what makes an equal
\* frequency mean the requested channel.
THEOREM FrequencyNamesChannel ==
  ASSUME NEW band \in Bands, NEW c \in ChannelsOf(band), NEW d \in ChannelsOf(band),
         FreqOf(band, c) = FreqOf(band, d)
  PROVE  c = d
<1>1. CASE band = "2g"
  BY <1>1 DEF Bands, ChannelsOf, FreqOf, Channels2g
<1>2. CASE band = "5g"
  <2>1. c \in Int /\ d \in Int
    BY <1>2 DEF ChannelsOf, Channels5g
  <2> QED
    BY <1>2, <2>1 DEF FreqOf
<1> QED
  BY <1>1, <1>2 DEF Bands

-----------------------------------------------------------------------------
\* What the steps of a call compute has the types they need.

\* A band has channels only if it is one of the two.
LEMMA OfferedBand ==
  ASSUME NEW band, NEW c, Offered(band, c)
  PROVE  band \in Bands
  BY DEF Offered, ChannelsOf, Bands

\* The frequency a permitted call asks for is one of the model's.
LEMMA TargetType ==
  ASSUME NEW s \in Servers, Args(s) \in Call, Permitted(s, Args(s))
  PROVE  Target(s) \in Freqs /\ Args(s).band \in RadioBands
<1> DEFINE a == Args(s)
<1>1. a.band \in CallBands /\ a.chan \in Channels
  BY DEF Call
<1>2. a.band \in Bands /\ a.chan \in ChannelsOf(a.band)
  BY OfferedBand DEF Permitted, Offered
<1>3. a.band \in RadioBands
  BY <1>1, <1>2 DEF RadioBands
<1>4. FreqOf(a.band, a.chan) \in FreqsOf(a.band)
  BY <1>1, <1>2 DEF FreqsOf
<1> QED
  BY <1>3, <1>4 DEF Freqs, Target

\* The current call of a server that has begun one.
LEMMA CurType ==
  ASSUME TypeOK, NEW s \in Servers, n[s] >= 1
  PROVE  Cur(s) \in CallId
  BY WriteAssumption DEF TypeOK, Cur, CallId

\* A call that is asking for its radio has one.
LEMMA RadType ==
  ASSUME TypeOK, CallOK, NEW s \in Servers, pc[s] \in {"read", "patch", "verify"}
  PROVE  Rad(s) \in Radios /\ Target(s) \in Freqs
<1>1. Args(s) \in Call /\ Permitted(s, Args(s)) /\ Args(s).mac \in Aps
  BY DEF CallOK, Asking
<1>2. Target(s) \in Freqs /\ Args(s).band \in RadioBands
  BY <1>1, TargetType
<1> QED
  BY <1>1, <1>2 DEF Rad, Radios

\* What a PATCH carries is a radio setting.
LEMMA PatchType ==
  ASSUME TypeOK, CallOK, NEW s \in Servers, pc[s] = "patch"
  PROVE  /\ Patch(s) \in Message
         /\ Patch(s).id = Cur(s) /\ Patch(s).rad = Rad(s)
         /\ Cur(s) \in CallId
<1>1. Rad(s) \in Radios /\ Target(s) \in Freqs
  BY RadType
<1>2. before[s] \in RadioSetting /\ n[s] >= 1
  BY DEF CallOK
<1>3. Cur(s) \in CallId
  BY <1>2, CurType
<1>4. Body(s) \in RadioSetting
  BY <1>1, <1>2 DEF Body, RadioSetting
<1>5. basis[s] \in CallId \cup AdminId
  BY DEF TypeOK
<1> QED
  BY <1>1, <1>3, <1>4, <1>5 DEF Patch, Message

-----------------------------------------------------------------------------
\* The invariant holds when the servers start.
LEMMA InitIInv == Init => IInv
<1> SUFFICES ASSUME Init PROVE IInv
  OBVIOUS
<1> USE WriteAssumption, OmadacIdAssumption DEF Init, SessionInit
<1>1. TypeOK
  <2>1. <<"admin", 0>> \in AdminId
    BY DEF AdminId
  <2>2. SessionTypeOK
    BY DEF SessionTypeOK
  <2>3. \A id \in CallId : <<>> \in Seq(Outcome)
    OBVIOUS
  <2> QED
    BY <2>1, <2>2, <2>3 DEF TypeOK, Phase, Asking
<1>2. CallOK
  BY DEF CallOK, Asking
<1>3. FutureOK
  BY DEF FutureOK
<1>4. EffectOK
  BY DEF EffectOK, Asking
<1> QED
  BY <1>1, <1>2, <1>3, <1>4 DEF IInv

-----------------------------------------------------------------------------
\* Steps that leave the controller, the network and the records alone, and move
\* one server on.
Moves(s) ==
  /\ UNCHANGED <<n, device, record>>
  /\ pc[s] \in Asking /\ pc'[s] \in Asking \cup {"journal"}
  /\ pc[s] = "verify" => pc'[s] \in {"verify", "journal"}
  /\ \A t \in Servers \ {s} : pc'[t] = pc[t] /\ out'[t] = out[t]

\* Such a step preserves what the invariant says of the effects.
LEMMA MoveEffect ==
  ASSUME IInv, NEW s \in Servers, Moves(s)
  PROVE  FutureOK' /\ EffectOK'
<1> USE DEF IInv, TypeOK, Moves, device, record
<1>1. FutureOK'
  BY DEF FutureOK
<1>2. \A t \in Servers : Cur(t)' = Cur(t)
  BY DEF Cur
<1>3. ASSUME NEW t \in Servers
      PROVE  /\ pc'[t] \in Asking \ {"verify"} => applies[Cur(t)] = 0
             /\ pc'[t] \in Asking => \A m \in inflight : m.id # Cur(t)
             /\ pc'[t] \in {"journal", "return"} /\ out'[t] # "error" =>
                  \A m \in inflight : m.id # Cur(t)
  <2>1. CASE t = s
    BY <2>1 DEF EffectOK, Asking
  <2>2. CASE t # s
    BY <2>2 DEF EffectOK
  <2> QED
    BY <2>1, <2>2
<1>4. EffectOK'
  BY <1>2, <1>3 DEF EffectOK
<1> QED
  BY <1>1, <1>4

-----------------------------------------------------------------------------
\* The request steps keep the session well-typed.
LEMMA SessionStepType ==
  ASSUME SessionTypeOK, NEW s \in Servers,
         \/ Discover(s) \/ Login(s) \/ SetupFails(s) \/ Answered(s)
         \/ Refused(s) \/ Failed(s) \/ Expire(s) \/ Restart(s)
  PROVE  SessionTypeOK'
<1> USE DEF SessionTypeOK
<1>1. CASE Discover(s) \/ Login(s)
  BY <1>1 DEF Discover, Login
<1>2. CASE SetupFails(s) \/ Answered(s) \/ Failed(s)
  BY <1>2 DEF SetupFails, Answered, Failed
<1>3. CASE Refused(s)
  BY <1>3 DEF Refused
<1>4. CASE Expire(s)
  BY <1>4 DEF Expire
<1>5. CASE Restart(s)
  <2>1. (s \in OmadacIdSet) \in BOOLEAN
    OBVIOUS
  <2>2. oid' \in [Servers -> BOOLEAN]
    BY <1>5, <2>1, Zenon DEF Restart
  <2> QED
    BY <1>5, <2>2 DEF Restart
<1> QED
  BY <1>1, <1>2, <1>3, <1>4, <1>5

\* A call that makes, repeats or gives up a request, without a write.
LEMMA AskPreserves ==
  ASSUME IInv, NEW s \in Servers,
         \/ Setup(s) \/ Retry(s) \/ RequestFails(s)
         \/ NextPage(s) \/ ResolveSite(s) \/ Find(s)
         \/ Read(s) \/ PatchDiscarded(s) \/ Verify(s)
  PROVE  IInv'
<1> USE DEF IInv, device, record, reading
<1>a. 1 \in 1..MaxPages
  BY WriteAssumption
<1>1. CASE Setup(s) \/ Retry(s)
  <2>1. SessionTypeOK'
    BY <1>1, SessionStepType DEF TypeOK, Setup, Retry
  <2>2. TypeOK'
    BY <1>1, <2>1 DEF TypeOK, Setup, Retry
  <2>3. \A t \in Servers : Cur(t)' = Cur(t) /\ Args(t)' = Args(t)
    BY <1>1 DEF Setup, Retry, Cur, Args
  <2>4. CallOK'
    BY <1>1, <2>3 DEF CallOK, Setup, Retry, Permitted
  <2>5. FutureOK' /\ EffectOK'
    BY <1>1, <2>3 DEF FutureOK, EffectOK, Setup, Retry
  <2> QED
    BY <2>2, <2>4, <2>5
<1>2. CASE RequestFails(s)
  <2>1. SessionTypeOK'
    BY <1>2, SessionStepType DEF TypeOK, RequestFails
  <2>2. TypeOK'
    BY <1>2, <2>1 DEF TypeOK, RequestFails, End, Phase, Outcome
  <2>3. \A t \in Servers : Cur(t)' = Cur(t) /\ Args(t)' = Args(t)
    BY <1>2 DEF RequestFails, Cur, Args
  <2>4. CallOK'
    BY <1>2, <2>3 DEF CallOK, RequestFails, Permitted, End, TypeOK, Outcome, Asking
  <2>5. Moves(s)
    BY <1>2 DEF RequestFails, Moves, End, Phase, Outcome, Asking
  <2> QED
    BY <2>2, <2>4, <2>5, MoveEffect
<1>3. CASE ResolveSite(s)
  <2>1. SessionTypeOK'
    BY <1>3, SessionStepType DEF TypeOK, ResolveSite
  <2>2. TypeOK'
    BY <1>3, <2>1, <1>a DEF TypeOK, ResolveSite, ListIsRead, End, Goto, Phase, Outcome, Asking
  <2>3. \A t \in Servers : Cur(t)' = Cur(t) /\ Args(t)' = Args(t)
    BY <1>3 DEF ResolveSite, Cur, Args
  <2>4. CallOK'
    BY <1>3, <2>3 DEF CallOK, ResolveSite, ListIsRead, Permitted, End, Goto, TypeOK, Outcome, Asking
  <2>5. Moves(s)
    BY <1>3 DEF ResolveSite, Moves, End, Goto, Phase, Outcome, Asking, CallOK, TypeOK
  <2> QED
    BY <2>2, <2>4, <2>5, MoveEffect
<1>4. CASE Find(s)
  <2>1. SessionTypeOK'
    BY <1>4, SessionStepType DEF TypeOK, Find
  <2>2. TypeOK'
    BY <1>4, <2>1, <1>a DEF TypeOK, Find, ListIsRead, End, Goto, Phase, Outcome, Asking
  <2>3. \A t \in Servers : Cur(t)' = Cur(t) /\ Args(t)' = Args(t)
    BY <1>4 DEF Find, Cur, Args
  <2>4. CallOK'
    BY <1>4, <2>3 DEF CallOK, Find, ListIsRead, Permitted, End, Goto, TypeOK, Outcome, Asking
  <2>5. Moves(s)
    BY <1>4 DEF Find, Moves, End, Goto, Phase, Outcome, Asking, CallOK, TypeOK
  <2> QED
    BY <2>2, <2>4, <2>5, MoveEffect
<1>5. CASE Read(s)
  <2>1. SessionTypeOK'
    BY <1>5, SessionStepType DEF TypeOK, Read
  <2>2. PICK got \in Replies(Rad(s)) :
          IF got = NoRadio THEN End(s, "error") /\ UNCHANGED reading
          ELSE IF OnlyPreview(s) THEN End(s, "preview") /\ UNCHANGED reading
          ELSE /\ Goto(s, "patch")
               /\ before' = [before EXCEPT ![s] = got]
               /\ basis' = [basis EXCEPT ![s] = writer[Rad(s)]]
               /\ UNCHANGED page
    BY <1>5 DEF Read
  <2>3. Rad(s) \in Radios
    BY <1>5, RadType DEF Read
  <2>4. got \in RadioSetting \cup {NoRadio} /\ writer[Rad(s)] \in CallId \cup AdminId
    BY <2>3 DEF Replies, TypeOK
  <2>5. TypeOK'
    BY <1>5, <2>1, <2>2, <2>4 DEF TypeOK, Read, End, Goto, Phase, Outcome, Asking
  <2>6. \A t \in Servers : Cur(t)' = Cur(t) /\ Args(t)' = Args(t)
    BY <1>5 DEF Read, Cur, Args
  <2>7. CallOK'
    BY <1>5, <2>2, <2>4, <2>6
       DEF CallOK, Read, Permitted, End, Goto, TypeOK, Outcome, Asking, OnlyPreview
  <2>8. Moves(s)
    BY <1>5, <2>2 DEF Read, Moves, End, Goto, Phase, Outcome, Asking, CallOK, TypeOK
  <2> QED
    BY <2>5, <2>7, <2>8, MoveEffect
<1>6. CASE PatchDiscarded(s)
  <2>1. SessionTypeOK'
    BY <1>6, SessionStepType DEF TypeOK, PatchDiscarded
  <2>2. TypeOK'
    BY <1>6, <2>1 DEF TypeOK, PatchDiscarded, Goto, Phase, Asking
  <2>3. \A t \in Servers : Cur(t)' = Cur(t) /\ Args(t)' = Args(t)
    BY <1>6 DEF PatchDiscarded, Cur, Args
  <2>4. CallOK'
    BY <1>6, <2>3 DEF CallOK, PatchDiscarded, Permitted, Goto, TypeOK, Asking
  <2>5. Moves(s)
    BY <1>6 DEF PatchDiscarded, Moves, Goto, Phase, Asking, CallOK, TypeOK
  <2> QED
    BY <2>2, <2>4, <2>5, MoveEffect
<1>7. CASE Verify(s)
  <2>1. SessionTypeOK'
    BY <1>7, SessionStepType DEF TypeOK, Verify
  <2>2. PICK o \in {"applied", "rejected"} : End(s, o)
    BY <1>7 DEF Verify, Verdict
  <2>3. TypeOK'
    BY <1>7, <2>1, <2>2 DEF TypeOK, Verify, End, Phase, Outcome
  <2>4. \A t \in Servers : Cur(t)' = Cur(t) /\ Args(t)' = Args(t)
    BY <1>7 DEF Verify, Cur, Args
  <2>5. CallOK'
    BY <1>7, <2>2, <2>4 DEF CallOK, Verify, Permitted, End, TypeOK, Outcome, Asking
  <2>6. Moves(s)
    BY <1>7, <2>2 DEF Verify, Moves, End, Phase, Outcome, Asking
  <2> QED
    BY <2>3, <2>5, <2>6, MoveEffect
<1>8. CASE NextPage(s)
  <2>1. SessionTypeOK'
    BY <1>8, SessionStepType DEF TypeOK, NextPage
  <2>2. page[s] + 1 \in 1..MaxPages
    BY <1>8, WriteAssumption DEF NextPage, TypeOK
  <2>3. TypeOK'
    BY <1>8, <2>1, <2>2 DEF TypeOK, NextPage
  <2>4. \A t \in Servers : Cur(t)' = Cur(t) /\ Args(t)' = Args(t)
    BY <1>8 DEF NextPage, Cur, Args
  <2>5. CallOK'
    BY <1>8, <2>4 DEF CallOK, NextPage, Permitted
  <2>6. FutureOK' /\ EffectOK'
    BY <1>8, <2>4 DEF FutureOK, EffectOK, NextPage
  <2> QED
    BY <2>3, <2>5, <2>6
<1> QED
  BY <1>1, <1>2, <1>3, <1>4, <1>5, <1>6, <1>7, <1>8

-----------------------------------------------------------------------------
\* A call begins: nothing was known of its id.
LEMMA BeginPreserves ==
  ASSUME IInv, NEW s \in Servers, NEW a \in Call, NEW explicit \in BOOLEAN,
         Begin(s, a, explicit) \/ RejectMac(s, a)
  PROVE  IInv'
<1> DEFINE new == <<s, n[s] + 1>>
<1> USE DEF IInv, device, record, reading
<1>1. NewCall(s, a) /\ UNCHANGED <<session, reading, device, journal, lost, siteKnown>>
  BY DEF Begin, RejectMac
<1>2. n[s] \in Nat /\ n[s] + 1 \in 1..MaxCalls /\ new \in CallId
  BY <1>1, WriteAssumption DEF NewCall, TypeOK, CallId
<1>3. applies[new] = 0 /\ answer[new] = "none" /\ \A m \in inflight : m.id # new
  <2>1. new[2] > n[new[1]]
    BY <1>2
  <2> QED
    BY <1>2, <2>1 DEF FutureOK
<1>4. Cur(s)' = new /\ Args(s)' = a
  BY <1>1, <1>2 DEF NewCall, Cur, Args, TypeOK
<1>5. \A t \in Servers \ {s} : Cur(t)' = Cur(t) /\ Args(t)' = Args(t)
  BY <1>1, <1>2 DEF NewCall, Cur, Args, TypeOK
<1>6. CASE Begin(s, a, explicit)
  <2> DEFINE Enters == Permitted(s, a) /\ \E p \in {"find", "site"} : Goto(s, p)
             Fails == End(s, "error")
  <2>a. Enters \/ Fails
    BY <1>6 DEF Begin
  <2>b. UNCHANGED <<oid, loggedIn, live, att, siteKnown, page, before, basis, radio, writer,
                    inflight, adm, applies, journal, answer, lost>>
    BY <1>6 DEF Begin, session
  <2>c. pc' \in [Servers -> Phase] /\ out' \in [Servers -> Outcome \cup {"none"}]
    BY <2>a DEF TypeOK, Goto, End, Phase, Asking, Outcome
  <2>1. TypeOK'
    <3>1. n' \in [Servers -> 0..MaxCalls]
      BY <1>1, <1>2 DEF NewCall, TypeOK
    <3>2. call' \in [CallId -> Call \cup {NoCall}]
      BY <1>1, <1>2 DEF NewCall, TypeOK
    <3> QED
      BY <2>b, <2>c, <3>1, <3>2 DEF TypeOK, SessionTypeOK
  <2>2. CallOK'
    <3>1. ASSUME NEW t \in Servers \ {s} PROVE UNCHANGED <<pc[t], out[t], n[t], before[t], answer>>
      BY <1>1, <1>6 DEF Begin, NewCall, Goto, End, TypeOK
    <3>2. n[s]' = n[s] + 1 /\ answer' = answer /\ a.mac \in Macs /\ pc[s] = "idle"
      BY <1>1, <1>6 DEF NewCall, Begin, TypeOK
    <3>3. \/ pc'[s] \in {"find", "site"} /\ out'[s] = "none" /\ Permitted(s, a)
          \/ pc'[s] = "journal" /\ out'[s] = "error"
      <4>1. out[s] = "none"
        BY <3>2 DEF CallOK
      <4>2. CASE Enters
        BY <3>2, <4>1, <4>2 DEF Goto, TypeOK
      <4>3. CASE Fails
        BY <3>2, <4>3 DEF End, TypeOK
      <4> QED
        BY <2>a, <4>2, <4>3
    <3>4. ASSUME NEW t \in Servers \ {s}
          PROVE  /\ pc'[t] # "idle" => n'[t] >= 1 /\ answer'[Cur(t)'] = "none" /\ Args(t)' \in Call
                 /\ pc'[t] \in Asking => Permitted(t, Args(t)') /\ Args(t)'.mac \in Macs
                 /\ pc'[t] \in {"read", "patch", "verify"} => Args(t)'.mac \in Aps
                 /\ pc'[t] \in {"patch", "verify"} =>
                      before'[t] \in RadioSetting /\ Args(t)'.confirm
                 /\ IF pc'[t] \in {"journal", "return"} THEN out'[t] \in Outcome
                                                        ELSE out'[t] = "none"
      BY <1>5, <3>1, <3>4 DEF CallOK
    <3>5. /\ pc'[s] # "idle" => n'[s] >= 1 /\ answer'[Cur(s)'] = "none" /\ Args(s)' \in Call
          /\ pc'[s] \in Asking => Permitted(s, Args(s)') /\ Args(s)'.mac \in Macs
          /\ pc'[s] \notin {"read", "patch", "verify"}
          /\ IF pc'[s] \in {"journal", "return"} THEN out'[s] \in Outcome
                                                 ELSE out'[s] = "none"
      BY <1>2, <1>3, <1>4, <3>2, <3>3 DEF Asking, Outcome
    <3> QED
      BY <3>4, <3>5 DEF CallOK, Permitted
  <2>3. FutureOK'
    BY <1>1, <1>2, <1>6 DEF FutureOK, Begin, NewCall, TypeOK, CallId
  <2>4. EffectOK'
    <3>1. \A t \in Servers \ {s} : pc'[t] = pc[t] /\ out'[t] = out[t]
      BY <2>a DEF Goto, End, TypeOK
    <3>2. ASSUME NEW t \in Servers
          PROVE  /\ pc'[t] \in Asking \ {"verify"} => applies[Cur(t)'] = 0
                 /\ pc'[t] \in Asking => \A m \in inflight : m.id # Cur(t)'
                 /\ pc'[t] \in {"journal", "return"} /\ out'[t] # "error" =>
                      \A m \in inflight : m.id # Cur(t)'
      <4>1. CASE t = s
        BY <1>3, <1>4, <4>1
      <4>2. CASE t # s
        BY <1>5, <3>1, <4>2 DEF EffectOK
      <4> QED
        BY <4>1, <4>2
    <3> QED
      BY <2>b, <3>2 DEF EffectOK
  <2> QED
    BY <2>1, <2>2, <2>3, <2>4
<1>7. CASE RejectMac(s, a)
  <2>1. TypeOK'
    BY <1>1, <1>2, <1>7
       DEF TypeOK, SessionTypeOK, session, RejectMac, NewCall, Outcome
  <2>a. /\ pc[s] = "idle" /\ pc' = pc /\ out' = out
        /\ UNCHANGED <<before, inflight, applies>>
        /\ answer' = [answer EXCEPT ![new] = "error"]
    BY <1>1, <1>7 DEF RejectMac, NewCall
  <2>b. ASSUME NEW t \in Servers, pc[t] # "idle"
        PROVE  Cur(t)' = Cur(t) /\ Args(t)' = Args(t) /\ n'[t] = n[t] /\ Cur(t) \in CallId
    <3>1. t # s /\ n[t] >= 1
      BY <2>a, <2>b DEF CallOK
    <3> QED
      BY <1>1, <1>5, <3>1, CurType DEF NewCall, TypeOK
  <2>c. \A t \in Servers : pc[t] # "idle" => answer'[Cur(t)'] = answer[Cur(t)]
    <3> SUFFICES ASSUME NEW t \in Servers, pc[t] # "idle"
                 PROVE  answer'[Cur(t)'] = answer[Cur(t)]
      OBVIOUS
    <3>1. t # s
      BY <2>a
    <3>2. Cur(t) # new
      BY <3>1 DEF Cur
    <3> QED
      BY <2>a, <2>b, <3>2 DEF TypeOK
  <2>2. CallOK'
    BY <2>a, <2>b, <2>c DEF CallOK, Permitted, Asking
  <2>3. FutureOK'
    BY <1>1, <1>2, <1>7 DEF FutureOK, RejectMac, NewCall, TypeOK, CallId
  <2>4. EffectOK'
    <3>1. \A m \in inflight : m.id \in CallId
      BY DEF TypeOK, Message
    <3>2. \A m \in inflight : answer'[m.id] = answer[m.id]
      BY <1>3, <2>a, <3>1 DEF TypeOK
    <3>3. \A t \in Servers : pc[t] \in Asking \cup {"journal", "return"} => Cur(t)' = Cur(t)
      BY <2>b DEF Asking
    <3> QED
      BY <2>a, <3>2, <3>3 DEF EffectOK
  <2> QED
    BY <2>1, <2>2, <2>3, <2>4
<1> QED
  BY <1>6, <1>7

-----------------------------------------------------------------------------
\* The controller carries out a PATCH of a call it has not carried out yet, and
\* of which no other copy is in flight.
LEMMA CarryOutType ==
  ASSUME TypeOK, NEW m \in Message, CarryOut(m)
  PROVE  /\ radio' \in [Radios -> RadioSetting \cup {NoRadio}]
         /\ writer' \in [Radios -> CallId \cup AdminId]
         /\ applies' \in [CallId -> Nat]
<1>1. m.rad \in Radios /\ m.body \in RadioSetting /\ m.id \in CallId
  BY DEF Message
<1> QED
  BY <1>1 DEF TypeOK, CarryOut

\* The PATCH is answered and carried out.
LEMMA PatchPreserves ==
  ASSUME IInv, NEW s \in Servers, PatchCarriedOut(s)
  PROVE  IInv'
<1> USE DEF IInv, record, reading
<1>1. pc[s] = "patch" /\ pc' = [pc EXCEPT ![s] = "verify"]
  BY DEF PatchCarriedOut, Goto
<1>2. Patch(s) \in Message /\ Patch(s).id = Cur(s) /\ Cur(s) \in CallId
  BY <1>1, PatchType
<1>3. CarryOut(Patch(s)) /\ Answered(s)
  BY DEF PatchCarriedOut
<1>4. UNCHANGED <<siteKnown, n, out, page, before, basis, inflight, adm, journal, call, answer, lost>>
  BY DEF PatchCarriedOut, Goto
<1>5. applies[Cur(s)] = 0 /\ (\A m \in inflight : m.id # Cur(s))
  BY <1>1 DEF EffectOK, Asking
<1>6. applies' = [applies EXCEPT ![Cur(s)] = 1]
  BY <1>2, <1>3, <1>5 DEF CarryOut, TypeOK
<1>7. \A t \in Servers : Cur(t)' = Cur(t) /\ Args(t)' = Args(t)
  BY <1>4 DEF Cur, Args
<1>8. TypeOK'
  <2>1. SessionTypeOK'
    BY <1>3, SessionStepType DEF TypeOK
  <2> QED
    BY <2>1, <1>1, <1>2, <1>3, <1>4, CarryOutType DEF TypeOK, Phase, Asking
<1>9. CallOK'
  BY <1>1, <1>4, <1>7 DEF CallOK, Permitted, TypeOK, Asking
<1>10. FutureOK'
  <2>1. ~(Cur(s)[2] > n[Cur(s)[1]])
    BY DEF Cur, TypeOK
  <2> QED
    BY <1>4, <1>6, <2>1 DEF FutureOK, TypeOK
<1>11. EffectOK'
  <2>1. \A id \in CallId : applies'[id] \in {0, 1} /\ (id # Cur(s) => applies'[id] = applies[id])
    BY <1>6 DEF EffectOK, TypeOK
  <2>2. \A m \in inflight : m.id \in CallId
    BY DEF TypeOK, Message
  <2>3. ASSUME NEW t \in Servers, pc'[t] \in Asking \ {"verify"} PROVE applies'[Cur(t)] = 0
    <3>1. t # s /\ pc[t] \in Asking \ {"verify"}
      BY <1>1, <2>3 DEF TypeOK
    <3>2. Cur(t) # Cur(s) /\ Cur(t) \in CallId
      BY <3>1, CurType DEF Cur, CallOK, Asking
    <3> QED
      BY <2>1, <3>1, <3>2 DEF EffectOK
  <2>4. \A t \in Servers : pc'[t] \in Asking => pc[t] \in Asking
    BY <1>1 DEF Asking, TypeOK
  <2>5. \A t \in Servers : pc'[t] \in {"journal", "return"} => pc[t] = pc'[t]
    BY <1>1 DEF TypeOK
  <2> QED
    BY <1>4, <1>5, <1>7, <2>1, <2>2, <2>3, <2>4, <2>5 DEF EffectOK
<1> QED
  BY <1>8, <1>9, <1>10, <1>11

\* The PATCH is given up and joins those in flight.
LEMMA GiveUpPreserves ==
  ASSUME IInv, NEW s \in Servers, PatchUnanswered(s)
  PROVE  IInv'
<1> USE DEF IInv, record, reading
<1>1. /\ pc[s] = "patch" /\ pc' = [pc EXCEPT ![s] = "journal"]
      /\ out' = [out EXCEPT ![s] = "error"]
  BY DEF PatchUnanswered, End
<1>2. Patch(s) \in Message /\ Patch(s).id = Cur(s) /\ Cur(s) \in CallId
  BY <1>1, PatchType
<1>3. Failed(s) /\ inflight' = inflight \cup {Patch(s)}
  BY DEF PatchUnanswered
<1>4. UNCHANGED <<siteKnown, n, page, before, basis, radio, writer, adm, applies,
                  journal, call, answer, lost>>
  BY DEF PatchUnanswered
<1>5. /\ applies[Cur(s)] = 0 /\ (\A m \in inflight : m.id # Cur(s))
      /\ answer[Cur(s)] = "none"
  BY <1>1 DEF EffectOK, Asking, CallOK
<1>6. \A t \in Servers : Cur(t)' = Cur(t) /\ Args(t)' = Args(t)
  BY <1>4 DEF Cur, Args
<1>7. TypeOK'
  <2>1. SessionTypeOK'
    BY <1>3, SessionStepType DEF TypeOK
  <2> QED
    BY <2>1, <1>1, <1>2, <1>3, <1>4 DEF TypeOK, Phase, Outcome
<1>8. CallOK'
  BY <1>1, <1>4, <1>6 DEF CallOK, Permitted, TypeOK, Asking, Outcome
<1>9. FutureOK'
  <2>1. ~(Cur(s)[2] > n[Cur(s)[1]])
    BY DEF Cur, TypeOK
  <2> QED
    BY <1>2, <1>3, <1>4, <2>1 DEF FutureOK
<1>10. EffectOK'
  <2>1. ASSUME NEW t \in Servers \ {s}
        PROVE  /\ pc'[t] = pc[t] /\ out'[t] = out[t]
               /\ Cur(t) # Patch(s).id
    BY <1>1, <1>2 DEF TypeOK, Cur
  <2>2. ASSUME NEW t \in Servers
        PROVE  /\ pc'[t] \in Asking \ {"verify"} => applies[Cur(t)] = 0
               /\ pc'[t] \in Asking => \A m \in inflight' : m.id # Cur(t)
               /\ pc'[t] \in {"journal", "return"} /\ out'[t] # "error" =>
                    \A m \in inflight' : m.id # Cur(t)
    <3>1. CASE t = s
      BY <1>1, <3>1 DEF TypeOK, Asking
    <3>2. CASE t # s
      BY <1>3, <2>1, <3>2 DEF EffectOK
    <3> QED
      BY <3>1, <3>2
  <2>3. \A m1, m2 \in inflight' : m1.id = m2.id => m1 = m2
    BY <1>2, <1>3, <1>5 DEF EffectOK
  <2>4. \A m \in inflight' : applies[m.id] = 0 /\ answer[m.id] \in {"none", "error", "crashed"}
    BY <1>2, <1>3, <1>5 DEF EffectOK
  <2> QED
    BY <1>4, <1>6, <2>2, <2>3, <2>4 DEF EffectOK
<1> QED
  BY <1>7, <1>8, <1>9, <1>10

-----------------------------------------------------------------------------
\* The event is recorded, or lost.
LEMMA JournalPreserves ==
  ASSUME IInv, NEW s \in Servers, Journal(s)
  PROVE  IInv'
<1> USE DEF IInv, device, reading
<1>1. pc[s] = "journal" /\ pc' = [pc EXCEPT ![s] = "return"]
  BY DEF Journal, Goto
<1>2. UNCHANGED <<session, siteKnown, n, out, page, before, basis, radio, writer, inflight,
                  adm, applies, call, answer>>
  BY DEF Journal, Goto
<1>3. out[s] \in Outcome /\ Cur(s) \in CallId
  BY <1>1, CurType DEF CallOK
<1>4. journal' \in [CallId -> Seq(Outcome)] /\ lost' \in SUBSET CallId
  <2>1. Append(journal[Cur(s)], out[s]) \in Seq(Outcome)
    BY <1>3 DEF TypeOK
  <2> QED
    BY <1>3, <2>1 DEF Journal, TypeOK
<1>5. TypeOK'
  BY <1>1, <1>2, <1>4 DEF TypeOK, SessionTypeOK, session, Phase
<1>6. \A t \in Servers : Cur(t)' = Cur(t) /\ Args(t)' = Args(t)
  BY <1>2 DEF Cur, Args
<1>7. CallOK'
  BY <1>1, <1>2, <1>3, <1>6 DEF CallOK, Permitted, TypeOK, Asking
<1>8. FutureOK'
  BY <1>2 DEF FutureOK
<1>9. EffectOK'
  <2>1. ASSUME NEW t \in Servers
        PROVE  /\ pc'[t] \in Asking => pc[t] = pc'[t]
               /\ pc'[t] \in {"journal", "return"} => pc[t] \in {"journal", "return"}
    BY <1>1 DEF TypeOK, Asking
  <2> QED
    BY <1>2, <1>6, <2>1 DEF EffectOK
<1> QED
  BY <1>5, <1>7, <1>8, <1>9

\* The call is over: its caller is told, or its process is gone.  A PATCH of it
\* stays in flight only if the outcome is an error or a crash.
LEMMA EndPreserves ==
  ASSUME IInv, NEW s \in Servers, Return(s) \/ Crash(s)
  PROVE  IInv'
<1> USE DEF IInv
<1> DEFINE told == IF Return(s) THEN out[s] ELSE "crashed"
           busy == pc[s] # "idle"
<1>1. /\ Forget(s)
      /\ UNCHANGED <<n, radio, writer, adm, applies, call>>
      /\ journal' \in [CallId -> Seq(Outcome)] /\ lost' \in SUBSET CallId
  BY DEF Return, Crash, device, TypeOK
<1>2. SessionTypeOK'
  <2>1. CASE Return(s)
    BY <2>1 DEF Return, session, SessionTypeOK, TypeOK
  <2>2. CASE Crash(s)
    BY <2>2, SessionStepType DEF Crash, TypeOK
  <2> QED
    BY <2>1, <2>2
<1>3. siteKnown' \in [Servers -> BOOLEAN]
  <2>1. (s \in SiteSet) \in BOOLEAN /\ siteKnown \in [Servers -> BOOLEAN]
    BY DEF TypeOK
  <2>2. siteKnown' = siteKnown \/ siteKnown' = [siteKnown EXCEPT ![s] = s \in SiteSet]
    BY DEF Return, Crash
  <2> QED
    BY <2>1, <2>2, Zenon
<1>4. /\ busy => Cur(s) \in CallId /\ answer' = [answer EXCEPT ![Cur(s)] = told]
      /\ ~busy => answer' = answer
      /\ busy => told \in Outcome \cup {"crashed"}
  <2>1. busy => Cur(s) \in CallId
    BY CurType DEF CallOK
  <2>2. CASE Return(s)
    BY <2>1, <2>2 DEF Return, CallOK
  <2>3. CASE Crash(s) /\ ~Return(s)
    BY <2>1, <2>3 DEF Crash
  <2> QED
    BY <2>2, <2>3
<1>5. \/ inflight' = inflight
      \/ /\ inflight' = inflight \cup {Patch(s)} /\ told = "crashed"
         /\ pc[s] = "patch" /\ Patch(s) \in Message /\ Patch(s).id = Cur(s)
  <2>1. CASE Return(s)
    BY <2>1 DEF Return, device
  <2>2. CASE Crash(s) /\ ~Return(s)
    BY <2>2, PatchType DEF Crash
  <2> QED
    BY <2>1, <2>2
<1>6. TypeOK'
  <2>1. <<"admin", 0>> \in AdminId
    BY WriteAssumption DEF AdminId
  <2>2. /\ pc' \in [Servers -> Phase] /\ out' \in [Servers -> Outcome \cup {"none"}]
        /\ page' \in [Servers -> 1..MaxPages]
        /\ before' \in [Servers -> RadioSetting \cup {NoRadio}]
        /\ basis' \in [Servers -> CallId \cup AdminId]
    BY <1>1, <2>1, WriteAssumption DEF Forget, TypeOK, Phase
  <2>3. answer' \in [CallId -> Outcome \cup {"none", "crashed"}]
    BY <1>4 DEF TypeOK
  <2>4. inflight' \in SUBSET Message
    BY <1>5 DEF TypeOK
  <2> QED
    BY <1>1, <1>2, <1>3, <2>2, <2>3, <2>4 DEF TypeOK
<1>7. ASSUME NEW t \in Servers \ {s}
      PROVE  /\ pc'[t] = pc[t] /\ out'[t] = out[t] /\ before'[t] = before[t]
             /\ Cur(t)' = Cur(t) /\ Args(t)' = Args(t) /\ Cur(t) # Cur(s)
  BY <1>1 DEF Forget, TypeOK, Cur, Args
<1>8. pc'[s] = "idle" /\ out'[s] = "none"
  BY <1>1 DEF Forget, TypeOK
<1>9. CallOK'
  <2>1. ASSUME NEW t \in Servers \ {s}, pc[t] # "idle"
        PROVE  answer'[Cur(t)] = answer[Cur(t)]
    <3>1. Cur(t) \in CallId
      BY <2>1, CurType DEF CallOK
    <3> QED
      BY <1>4, <1>7, <3>1 DEF TypeOK
  <2> QED
    BY <1>1, <1>7, <1>8, <2>1 DEF CallOK, Permitted, Asking
<1>10. FutureOK'
  <2>1. ~(Cur(s)[2] > n[Cur(s)[1]])
    BY DEF Cur, TypeOK
  <2> QED
    BY <1>1, <1>4, <1>5, <2>1 DEF FutureOK, TypeOK
<1>11. EffectOK'
  <2>1. \A m \in inflight : m.id \in CallId
    BY DEF TypeOK, Message
  <2>2. ASSUME NEW m \in inflight PROVE answer'[m.id] \in {"none", "error", "crashed"}
    <3>1. CASE busy /\ m.id = Cur(s)
      <4>1. CASE Return(s)
        BY <1>4, <2>1, <3>1, <4>1 DEF EffectOK, Return, TypeOK
      <4>2. CASE Crash(s) /\ ~Return(s)
        BY <1>4, <2>1, <3>1, <4>2 DEF TypeOK
      <4> QED
        BY <4>1, <4>2
    <3>2. CASE ~(busy /\ m.id = Cur(s))
      BY <1>4, <2>1, <3>2 DEF EffectOK, TypeOK
    <3> QED
      BY <3>1, <3>2
  <2>3. CASE inflight' = inflight
    BY <1>1, <1>7, <1>8, <2>2, <2>3 DEF EffectOK, Asking
  <2>4. CASE inflight' # inflight
    <3>1. /\ inflight' = inflight \cup {Patch(s)} /\ told = "crashed"
          /\ pc[s] = "patch" /\ Patch(s).id = Cur(s)
      BY <1>5, <2>4
    <3>2. applies[Cur(s)] = 0 /\ (\A m \in inflight : m.id # Cur(s))
      BY <3>1 DEF EffectOK, Asking
    <3>3. answer'[Cur(s)] = "crashed"
      BY <1>4, <3>1 DEF TypeOK
    <3>4. \A m \in inflight' : applies[m.id] = 0 /\ answer'[m.id] \in {"none", "error", "crashed"}
      BY <2>2, <3>1, <3>2, <3>3 DEF EffectOK
    <3>5. \A m1, m2 \in inflight' : m1.id = m2.id => m1 = m2
      BY <3>1, <3>2 DEF EffectOK
    <3>6. ASSUME NEW t \in Servers
          PROVE  /\ pc'[t] \in Asking \ {"verify"} => applies[Cur(t)'] = 0
                 /\ pc'[t] \in Asking => \A m \in inflight' : m.id # Cur(t)'
                 /\ pc'[t] \in {"journal", "return"} /\ out'[t] # "error" =>
                      \A m \in inflight' : m.id # Cur(t)'
      <4>1. CASE t = s
        BY <1>8, <4>1 DEF Asking
      <4>2. CASE t # s
        BY <1>7, <3>1, <4>2 DEF EffectOK
      <4> QED
        BY <4>1, <4>2
    <3> QED
      BY <1>1, <3>4, <3>5, <3>6 DEF EffectOK
  <2> QED
    BY <2>3, <2>4
<1> QED
  BY <1>6, <1>9, <1>10, <1>11

-----------------------------------------------------------------------------
\* A PATCH in flight arrives: its call is past asking, so no server relies on
\* it not having taken effect.
LEMMA ArrivalPreserves ==
  ASSUME IInv, NEW m \in inflight, LateArrival(m)
  PROVE  IInv'
<1> USE DEF IInv, record, reading
<1>1. m \in Message /\ m.id \in CallId
  BY DEF TypeOK, Message
<1>2. /\ inflight' = inflight \ {m} /\ CarryOut(m)
      /\ UNCHANGED <<session, siteKnown, pc, n, out, page, before, basis, adm,
                     journal, call, answer, lost>>
  BY DEF LateArrival
<1>3. applies[m.id] = 0 /\ applies' = [applies EXCEPT ![m.id] = 1]
  <2>1. applies[m.id] = 0
    BY DEF EffectOK
  <2>2. applies' = [applies EXCEPT ![m.id] = applies[m.id] + 1]
    BY <1>2 DEF CarryOut
  <2> QED
    BY <2>1, <2>2
<1>4. \A t \in Servers : Cur(t)' = Cur(t) /\ Args(t)' = Args(t)
  BY <1>2 DEF Cur, Args
<1>5. TypeOK'
  BY <1>1, <1>2, CarryOutType DEF TypeOK, SessionTypeOK, session
<1>6. CallOK'
  BY <1>2, <1>4 DEF CallOK, Permitted
<1>7. FutureOK'
  BY <1>1, <1>2, <1>3 DEF FutureOK, TypeOK
<1>8. EffectOK'
  <2>1. \A id \in CallId : applies'[id] \in {0, 1} /\ (id # m.id => applies'[id] = applies[id])
    BY <1>3 DEF EffectOK, TypeOK
  <2>2. \A k \in inflight' : k.id \in CallId /\ k \in inflight /\ k.id # m.id
    BY <1>2 DEF EffectOK, TypeOK, Message
  <2>3. ASSUME NEW t \in Servers, pc[t] \in Asking \ {"verify"} PROVE applies'[Cur(t)] = 0
    <3>1. Cur(t) \in CallId /\ m.id # Cur(t) /\ applies[Cur(t)] = 0
      BY <2>3, CurType DEF CallOK, EffectOK, Asking
    <3> QED
      BY <2>1, <3>1
  <2> QED
    BY <1>2, <1>4, <2>1, <2>2, <2>3 DEF EffectOK
<1> QED
  BY <1>5, <1>6, <1>7, <1>8

\* Sessions end, PATCHes are lost and others change radios: the calls' own
\* state is not touched.
LEMMA EnvironmentPreserves ==
  ASSUME IInv,
         \/ \E s \in Servers : SessionExpires(s)
         \/ \E m \in inflight : NeverArrives(m)
         \/ \E r \in Radios : \E f \in FreqsOf(r[2]), x \in Rests :
              Administer(r, [freq |-> f, rest |-> x])
  PROVE  IInv'
<1> USE DEF IInv, device, record, reading
<1>1. /\ UNCHANGED <<siteKnown, pc, n, out, page, before, basis, applies, journal, call, answer, lost>>
      /\ inflight' \subseteq inflight
  BY DEF SessionExpires, NeverArrives, Administer
<1>2. \A t \in Servers : Cur(t)' = Cur(t) /\ Args(t)' = Args(t)
  BY <1>1 DEF Cur, Args
<1>3. SessionTypeOK'
  <2>1. CASE \E s \in Servers : SessionExpires(s)
    BY <2>1, SessionStepType DEF SessionExpires, TypeOK
  <2>2. CASE UNCHANGED session
    BY <2>2 DEF session, SessionTypeOK, TypeOK
  <2> QED
    BY <2>1, <2>2 DEF NeverArrives, Administer
<1>4. /\ radio' \in [Radios -> RadioSetting \cup {NoRadio}]
      /\ writer' \in [Radios -> CallId \cup AdminId]
      /\ adm' \in 0..MaxAdmin
  <2>1. CASE UNCHANGED <<radio, writer, adm>>
    BY <2>1 DEF TypeOK
  <2>2. ASSUME NEW r \in Radios, NEW f \in FreqsOf(r[2]), NEW x \in Rests,
               Administer(r, [freq |-> f, rest |-> x])
        PROVE  /\ radio' \in [Radios -> RadioSetting \cup {NoRadio}]
               /\ writer' \in [Radios -> CallId \cup AdminId]
               /\ adm' \in 0..MaxAdmin
    <3>1. [freq |-> f, rest |-> x] \in RadioSetting
      <4>1. r[2] \in RadioBands
        BY DEF Radios
      <4> QED
        BY <4>1 DEF RadioSetting, Freqs
    <3>2. adm + 1 \in 0..MaxAdmin /\ <<"admin", adm + 1>> \in AdminId
      BY <2>2, WriteAssumption DEF Administer, TypeOK, AdminId
    <3> QED
      BY <2>2, <3>1, <3>2 DEF Administer, TypeOK
  <2> QED
    BY <2>1, <2>2 DEF SessionExpires, NeverArrives
<1>5. TypeOK'
  BY <1>1, <1>3, <1>4 DEF TypeOK
<1>6. CallOK'
  BY <1>1, <1>2 DEF CallOK, Permitted
<1>7. FutureOK'
  BY <1>1 DEF FutureOK
<1>8. EffectOK'
  BY <1>1, <1>2 DEF EffectOK
<1> QED
  BY <1>5, <1>6, <1>7, <1>8

\* A step that changes nothing.
LEMMA StutterPreserves ==
  ASSUME IInv, UNCHANGED vars
  PROVE  IInv'
  BY DEF IInv, vars, session, TypeOK, SessionTypeOK, CallOK, FutureOK, EffectOK,
         Cur, Args, Permitted

-----------------------------------------------------------------------------
THEOREM Invariance == Spec => []IInv
<1>1. IInv /\ [Next]_vars => IInv'
  <2> SUFFICES ASSUME IInv, [Next]_vars PROVE IInv'
    OBVIOUS
  <2>1. ASSUME NEW s \in Servers, Server(s) PROVE IInv'
    <3>1. CASE \E a \in Call, explicit \in BOOLEAN : Begin(s, a, explicit)
      BY <3>1, BeginPreserves
    <3>2. CASE \E a \in Call : RejectMac(s, a)
      BY <3>2, BeginPreserves
    <3>3. CASE Ask(s)
      BY <3>3, AskPreserves, PatchPreserves, GiveUpPreserves DEF Ask
    <3>4. CASE Journal(s) \/ Return(s) \/ Crash(s)
      BY <3>4, JournalPreserves, EndPreserves
    <3>5. CASE SessionExpires(s)
      BY <3>5, EnvironmentPreserves
    <3> QED
      BY <2>1, <3>1, <3>2, <3>3, <3>4, <3>5 DEF Server, Step
  <2>2. CASE Environment
    BY <2>2, ArrivalPreserves, EnvironmentPreserves DEF Environment
  <2>3. CASE UNCHANGED vars
    BY <2>3, StutterPreserves
  <2> QED
    BY <2>1, <2>2, <2>3 DEF Next
<1> QED
  BY <1>1, InitIInv, PTL DEF Spec

\* Every variable keeps its type.
THEOREM TypeCorrect == Spec => []TypeOK
<1>1. IInv => TypeOK
  BY DEF IInv
<1> QED
  BY <1>1, Invariance, PTL

\* The controller carries out the PATCH of a call at most once, for any number
\* of servers and calls, with every fault of the model.
THEOREM AtMostOneEffect == Spec => []EffectAtMostOnce
<1>1. IInv => EffectAtMostOnce
  BY DEF IInv, EffectOK, EffectAtMostOnce
<1> QED
  BY <1>1, Invariance, PTL

\* A caller that was told preview, applied or rejected need not fear that its
\* call still changes the radio.
THEOREM SettledIsFinal == Spec => []SettledCallsAreInert
<1>1. IInv => SettledCallsAreInert
  BY DEF IInv, EffectOK, SettledCallsAreInert
<1> QED
  BY <1>1, Invariance, PTL
-----------------------------------------------------------------------------
\* The end of calls: what a call has left to do.

\* The phases in the order a call goes through them, the lists page by page.
LEMMA Phases ==
  ASSUME NEW k \in 1..MaxPages
  PROVE  /\ StepsFrom("idle", k) = 0 /\ StepsFrom("return", k) = 1
         /\ StepsFrom("journal", k) = 2 /\ StepsFrom("verify", k) = 3
         /\ StepsFrom("patch", k) = 4 /\ StepsFrom("read", k) = 5
         /\ StepsFrom("find", k) = 6 + MaxPages - k
         /\ StepsFrom("site", k) = 6 + 2 * MaxPages - k
  BY DEF StepsFrom

LEMMA StepsRange ==
  ASSUME NEW phase \in Phase, NEW k \in 1..MaxPages
  PROVE  /\ StepsFrom(phase, k) \in 0..(5 + 2 * MaxPages)
         /\ phase # "idle" => StepsFrom(phase, k) >= 1
<1>1. MaxPages \in Nat
  BY WriteAssumption
<1> QED
  BY <1>1, Phases DEF Phase, Asking

\* A request needs at most a refused attempt, the id, a login and another attempt;
\* so whatever state the session is in, a step is worth more than a request.
LEMMA LeftRange ==
  ASSUME TypeOK, TypeOK', NEW s \in Servers
  PROVE  /\ RequestLeft(s) \in 0..5 /\ RequestLeft(s)' \in 0..5
         /\ StepsFrom(pc[s], page[s]) \in Nat /\ StepsFrom(pc[s], page[s])' \in Nat
         /\ Left(s) \in Nat /\ Left(s)' \in Nat
<1>1. att[s] \in {1, 2} /\ att'[s] \in {1, 2}
  BY DEF TypeOK, SessionTypeOK
<1>2. RequestLeft(s) \in 0..5 /\ RequestLeft(s)' \in 0..5
  BY <1>1 DEF RequestLeft
<1>3. pc[s] \in Phase /\ pc'[s] \in Phase /\ page[s] \in 1..MaxPages /\ page'[s] \in 1..MaxPages
  BY DEF TypeOK
<1>4. StepsFrom(pc[s], page[s]) \in Nat /\ StepsFrom(pc'[s], page'[s]) \in Nat
  BY <1>3, StepsRange
<1> QED BY <1>2, <1>4 DEF Left

LEMMA PhaseOutweighs ==
  ASSUME TypeOK, TypeOK', NEW s \in Servers,
         StepsFrom(pc'[s], page'[s]) < StepsFrom(pc[s], page[s])
  PROVE  Left(s)' < Left(s)
  BY LeftRange DEF Left

\* What a step of another server, or of the world, leaves a call.
LEMMA LeftAlone ==
  ASSUME TypeOK, NEW s \in Servers, pc'[s] = pc[s], page'[s] = page[s],
         oid'[s] = oid[s], loggedIn'[s] = loggedIn[s], att'[s] = att[s]
  PROVE  Left(s)' = Left(s)
  BY DEF Left, RequestLeft, TypeOK, SessionTypeOK

\* A request that is not over has come nearer to its end.
LEMMA RequestRunsDown ==
  ASSUME TypeOK, NEW s \in Servers, Setup(s) \/ Retry(s)
  PROVE  Left(s)' < Left(s)
<1>1. /\ pc'[s] = pc[s] /\ page'[s] = page[s]
      /\ StepsFrom(pc[s], page[s]) \in Nat
  <2>1. pc[s] \in Phase /\ page[s] \in 1..MaxPages
    BY DEF TypeOK
  <2> QED BY <2>1, StepsRange DEF Setup, Retry, reading
<1>2. att[s] \in {1, 2}
  BY DEF TypeOK, SessionTypeOK
<1>3. RequestLeft(s) \in Nat /\ RequestLeft(s)' \in Nat /\ RequestLeft(s)' < RequestLeft(s)
  <2>1. CASE Discover(s)
    <3>1. ~loggedIn[s] /\ ~loggedIn'[s] /\ ~oid[s] /\ oid'[s] /\ att'[s] = att[s]
      BY <2>1 DEF Discover, TypeOK, SessionTypeOK
    <3> QED BY <1>2, <3>1 DEF RequestLeft
  <2>2. CASE Login(s)
    <3>1. ~loggedIn[s] /\ loggedIn'[s] /\ oid[s] /\ att'[s] = att[s]
      BY <2>2 DEF Login, TypeOK, SessionTypeOK
    <3>2. RequestLeft(s) = 3 * (2 - att[s]) + 1
      BY <1>2, <3>1 DEF RequestLeft
    <3>3. RequestLeft(s)' = 3 * (2 - att[s])
      BY <1>2, <3>1 DEF RequestLeft
    <3> QED BY <1>2, <3>2, <3>3
  <2>3. CASE Refused(s)
    <3>1. loggedIn[s] /\ ~loggedIn'[s] /\ att[s] = 1 /\ att'[s] = 2
      BY <2>3 DEF Refused, MayRetry, TypeOK, SessionTypeOK
    <3> QED BY <3>1 DEF RequestLeft
  <2> QED BY <2>1, <2>2, <2>3 DEF Setup, Retry
<1> QED BY <1>1, <1>3 DEF Left

\* A request that is over brings the call to the next page or to a later phase.
LEMMA PhasesRunDown ==
  ASSUME TypeOK, TypeOK', NEW s \in Servers,
         \/ RequestFails(s) \/ NextPage(s) \/ ResolveSite(s) \/ Find(s) \/ Read(s)
         \/ PatchCarriedOut(s) \/ PatchDiscarded(s) \/ PatchUnanswered(s) \/ Verify(s)
         \/ Journal(s) \/ Return(s)
  PROVE  StepsFrom(pc'[s], page'[s]) < StepsFrom(pc[s], page[s])
<1> DEFINE k == page[s]
           l == page'[s]
<1>0. k \in 1..MaxPages /\ l \in 1..MaxPages /\ MaxPages \in Nat
  BY WriteAssumption DEF TypeOK
<1>1. CASE RequestFails(s)
  <2>1. pc'[s] = "journal" /\ pc[s] \in Asking
    BY <1>1 DEF RequestFails, End, TypeOK
  <2> QED BY <1>0, <2>1, Phases DEF Asking
<1>2. CASE NextPage(s)
  <2>1. pc[s] \in {"site", "find"} /\ pc'[s] = pc[s] /\ l = k + 1
    BY <1>2 DEF NextPage, TypeOK
  <2> QED BY <1>0, <2>1, Phases
<1>3. CASE ResolveSite(s)
  <2>1. pc[s] = "site" /\ pc'[s] \in {"find", "journal"} /\ l = 1
    BY <1>3 DEF ResolveSite, ListIsRead, Goto, End, TypeOK
  <2> QED BY <1>0, <2>1, Phases
<1>4. CASE Find(s)
  <2>1. pc[s] = "find" /\ pc'[s] \in {"read", "journal"}
    BY <1>4 DEF Find, Goto, End, TypeOK
  <2> QED BY <1>0, <2>1, Phases
<1>5. CASE Read(s)
  <2>1. pc[s] = "read" /\ pc'[s] \in {"patch", "journal"}
    BY <1>5 DEF Read, Goto, End, TypeOK
  <2> QED BY <1>0, <2>1, Phases
<1>6. CASE PatchCarriedOut(s) \/ PatchDiscarded(s) \/ PatchUnanswered(s)
  <2>1. pc[s] = "patch" /\ pc'[s] \in {"verify", "journal"}
    BY <1>6 DEF PatchCarriedOut, PatchDiscarded, PatchUnanswered, Goto, End, TypeOK
  <2> QED BY <1>0, <2>1, Phases
<1>7. CASE Verify(s)
  <2>1. pc[s] = "verify" /\ pc'[s] = "journal"
    BY <1>7 DEF Verify, End, TypeOK
  <2> QED BY <1>0, <2>1, Phases
<1>8. CASE Journal(s) \/ Return(s)
  <2>1. \/ pc[s] = "journal" /\ pc'[s] = "return"
        \/ pc[s] = "return" /\ pc'[s] = "idle"
    BY <1>8 DEF Journal, Return, Forget, Goto, TypeOK
  <2> QED BY <1>0, <2>1, Phases
<1> QED BY <1>1, <1>2, <1>3, <1>4, <1>5, <1>6, <1>7, <1>8

\* Each step of a call takes something off what the call has left to do.
LEMMA StepRunsDown ==
  ASSUME TypeOK, TypeOK', NEW s \in Servers, Step(s)
  PROVE  Left(s)' < Left(s)
  BY RequestRunsDown, PhasesRunDown, PhaseOutweighs DEF Step, Ask

\* A step of one server's call is nothing to the call of another.
LEMMA StepElsewhere ==
  ASSUME TypeOK, NEW s \in Servers, NEW q \in Servers, q # s, Step(q)
  PROVE  /\ pc'[s] = pc[s] /\ page'[s] = page[s]
         /\ oid'[s] = oid[s] /\ loggedIn'[s] = loggedIn[s] /\ att'[s] = att[s]
<1> USE DEF TypeOK, SessionTypeOK, Goto, End, reading
<1>1. CASE Setup(q) \/ Retry(q)
  BY <1>1 DEF Setup, Retry, Discover, Login, Refused
<1>2. CASE RequestFails(q)
  BY <1>2 DEF RequestFails, SetupFails, Failed
<1>3. CASE ResolveSite(q) \/ Find(q)
  BY <1>3 DEF ResolveSite, Find, ListIsRead, Answered
<1>4. CASE Read(q)
  BY <1>4 DEF Read, Answered
<1>5. CASE PatchCarriedOut(q) \/ PatchDiscarded(q) \/ PatchUnanswered(q)
  BY <1>5 DEF PatchCarriedOut, PatchDiscarded, PatchUnanswered, Answered, Failed
<1>6. CASE Verify(q)
  BY <1>6 DEF Verify, Answered
<1>7. CASE Journal(q) \/ Return(q)
  BY <1>7 DEF Journal, Return, Forget, session
<1>8. CASE NextPage(q)
  BY <1>8 DEF NextPage, Answered
<1> QED BY <1>1, <1>2, <1>3, <1>4, <1>5, <1>6, <1>7, <1>8 DEF Step, Ask

\* And nothing adds to it until the next call begins.
LEMMA NothingAdds ==
  ASSUME TypeOK, TypeOK', Next, NEW s \in Servers, pc[s] # "idle"
  PROVE  Left(s)' <= Left(s)
<1>1. Left(s) \in Nat /\ Left(s)' \in Nat
  BY LeftRange
<1>2. ASSUME NEW q \in Servers, Server(q) PROVE Left(s)' <= Left(s)
  <2>1. CASE Step(q) /\ q = s
    BY <1>1, <2>1, StepRunsDown
  <2>2. CASE Step(q) /\ q # s
    BY <1>1, <2>2, LeftAlone, StepElsewhere
  <2>3. ASSUME NEW a \in Call, NEW explicit \in BOOLEAN, Begin(q, a, explicit)
        PROVE  Left(s)' <= Left(s)
    <3>1. q # s /\ UNCHANGED session /\ pc'[s] = pc[s] /\ page'[s] = page[s]
      BY <2>3 DEF Begin, NewCall, Goto, End, TypeOK, reading
    <3> QED BY <1>1, <3>1, LeftAlone DEF session
  <2>4. ASSUME NEW a \in Call, RejectMac(q, a) PROVE Left(s)' <= Left(s)
    <3>1. UNCHANGED session /\ pc'[s] = pc[s] /\ page'[s] = page[s]
      BY <2>4 DEF RejectMac, reading
    <3> QED BY <1>1, <3>1, LeftAlone DEF session
  <2>5. CASE Crash(q)
    <3>1. CASE q = s
      <4>1. pc'[s] = "idle"
        BY <2>5, <3>1 DEF Crash, Forget, TypeOK
      <4>2. StepsFrom(pc'[s], page'[s]) < StepsFrom(pc[s], page[s])
        <5>1. pc[s] \in Phase /\ page[s] \in 1..MaxPages /\ page'[s] \in 1..MaxPages
          BY DEF TypeOK
        <5>2. StepsFrom(pc'[s], page'[s]) = 0
          BY <4>1, <5>1, Phases
        <5>3. StepsFrom(pc[s], page[s]) \in Nat /\ StepsFrom(pc[s], page[s]) >= 1
          BY <5>1, StepsRange
        <5> QED BY <5>2, <5>3
      <4> QED BY <1>1, <4>2, PhaseOutweighs
    <3>2. CASE q # s
      <4>1. pc'[s] = pc[s] /\ page'[s] = page[s]
        BY <2>5, <3>2 DEF Crash, Forget, TypeOK
      <4>2. loggedIn'[s] = loggedIn[s] /\ att'[s] = att[s]
        <5>1. /\ loggedIn' = [loggedIn EXCEPT ![q] = FALSE]
              /\ att' = [att EXCEPT ![q] = 1]
          BY <2>5 DEF Crash, Restart
        <5> QED BY <3>2, <5>1 DEF TypeOK, SessionTypeOK
      <4>3. oid'[s] = oid[s]
        <5>1. DOMAIN oid = Servers
          BY DEF TypeOK, SessionTypeOK
        <5> QED BY <2>5, <3>2, <5>1, Zenon DEF Crash, Restart
      <4> QED BY <1>1, <4>1, <4>2, <4>3, LeftAlone
    <3> QED BY <3>1, <3>2
  <2>6. CASE SessionExpires(q)
    <3>1. UNCHANGED <<pc, page, oid, loggedIn, att>>
      BY <2>6 DEF SessionExpires, Expire, reading
    <3> QED BY <1>1, <3>1, LeftAlone
  <2> QED BY <1>2, <2>1, <2>2, <2>3, <2>4, <2>5, <2>6 DEF Server
<1>3. CASE Environment
  <2>1. UNCHANGED <<pc, page, oid, loggedIn, att>>
    BY <1>3 DEF Environment, LateArrival, NeverArrives, Administer, session, reading
  <2> QED BY <1>1, <2>1, LeftAlone
<1> QED BY <1>2, <1>3 DEF Next

\* A call runs down, for any number of servers, any cap on the pages and every
\* fault of the model: what it has left is at most 6 * (5 + 2 * MaxPages) + 5 steps
\* of its own, two lists of MaxPages requests among them, each of which lowers it,
\* and the world adds none (CallsEnd, short of the fairness that has the steps taken).
THEOREM CallsAreFinite ==
  Spec => /\ CallsRunDown
          /\ [](\A s \in Servers : Left(s) \in 0..(6 * (5 + 2 * MaxPages) + 5))
<1>1. ASSUME IInv, IInv', [Next]_vars
      PROVE  [\A s \in Servers : pc[s] # "idle" =>
                Left(s)' <= Left(s) /\ (Step(s) => Left(s)' < Left(s))]_vars
  <2> SUFFICES ASSUME Next, NEW s \in Servers, pc[s] # "idle"
               PROVE  Left(s)' <= Left(s) /\ (Step(s) => Left(s)' < Left(s))
    BY <1>1
  <2>1. TypeOK /\ TypeOK'
    BY <1>1 DEF IInv
  <2> QED BY <2>1, NothingAdds, StepRunsDown
<1>2. IInv => \A s \in Servers : Left(s) \in 0..(6 * (5 + 2 * MaxPages) + 5)
  <2> SUFFICES ASSUME TypeOK, NEW s \in Servers
               PROVE  Left(s) \in 0..(6 * (5 + 2 * MaxPages) + 5)
    BY DEF IInv
  <2>1. RequestLeft(s) \in 0..5
    <3>1. att[s] \in {1, 2}
      BY DEF TypeOK, SessionTypeOK
    <3> QED BY <3>1 DEF RequestLeft
  <2>2. StepsFrom(pc[s], page[s]) \in 0..(5 + 2 * MaxPages) /\ MaxPages \in Nat
    BY StepsRange, WriteAssumption DEF TypeOK
  <2> QED BY <2>1, <2>2 DEF Left
<1> QED BY <1>1, <1>2, Invariance, PTL DEF Spec, CallsRunDown
=============================================================================
