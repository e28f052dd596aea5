----------------------- MODULE GuardedWriteLedgerProofs -----------------------
(***************************************************************************)
(* What GuardedWriteProofs leaves of the safety of a call: the journal has *)
(* one event per call and no write hides from it, only confirmed calls     *)
(* write, and what is resent is what was read unless somebody wrote in     *)
(* between.  For any servers, access points, channels and bounds.          *)
(***************************************************************************)
EXTENDS GuardedWriteProofs

-----------------------------------------------------------------------------
\* Facts about the calls under way.

LEMMA CurFacts ==
  ASSUME LInv, NEW s \in Servers, pc[s] # "idle"
  PROVE  /\ Cur(s) \in CallId /\ Cur(s)[1] = s /\ n[s] >= 1
         /\ answer[Cur(s)] = "none" /\ Args(s) \in Call
         /\ \A t \in Servers \ {s} : Cur(t) # Cur(s)
  BY CurType DEF LInv, IInv, CallOK, Cur

\* A call that is about to send its PATCH is one that may write, and its PATCH is
\* for its own radio and frequency.
LEMMA PatchFits ==
  ASSUME LInv, NEW s \in Servers, pc[s] = "patch"
  PROVE  /\ Patch(s) \in Message /\ Patch(s).id = Cur(s) /\ Patch(s).rad = Rad(s)
         /\ Patch(s).body = Body(s) /\ Patch(s).basis = basis[s]
         /\ Body(s) \in RadioSetting /\ Body(s).freq = Target(s)
         /\ Rad(s) \in Radios /\ MayWrite(Cur(s)) /\ Spent(basis[s])
         /\ Rad(s) = <<call[Cur(s)].mac, call[Cur(s)].band>>
         /\ Target(s) = FreqOf(call[Cur(s)].band, call[Cur(s)].chan)
         /\ writer[Rad(s)] = basis[s] => Body(s) = [radio[Rad(s)] EXCEPT !.freq = Target(s)]
<1>1. TypeOK /\ CallOK
  BY DEF LInv, IInv
<1>2. /\ Patch(s) \in Message /\ Patch(s).id = Cur(s) /\ Patch(s).rad = Rad(s)
      /\ Patch(s).body = Body(s) /\ Patch(s).basis = basis[s]
  BY <1>1, PatchType DEF Patch
<1>3. before[s] \in RadioSetting /\ Rad(s) \in Radios /\ Target(s) \in Freqs
  BY <1>1, RadType DEF CallOK
<1>4. Body(s) \in RadioSetting /\ Body(s).freq = Target(s)
  BY <1>3 DEF Body, RadioSetting
<1>5. MayWrite(Cur(s))
  <2>1. Cur(s)[1] = s /\ answer[Cur(s)] = "none" /\ Args(s) \in Call
    BY CurFacts
  <2>2. Permitted(s, Args(s)) /\ Args(s).mac \in Aps /\ Args(s).confirm
    BY <1>1 DEF CallOK, Asking
  <2> QED
    BY <2>1, <2>2 DEF MayWrite, Args
<1>6. Spent(basis[s])
  BY DEF LInv, StampsOK
<1>7. writer[Rad(s)] = basis[s] => before[s] = radio[Rad(s)]
  BY DEF LInv, ReadingOK
<1> QED
  BY <1>2, <1>3, <1>4, <1>5, <1>6, <1>7 DEF Body, Rad, Target, Args

LEMMA InitLInv == Init => LInv
<1> SUFFICES ASSUME Init PROVE LInv
  OBVIOUS
<1>1. IInv
  BY InitIInv
<1>2. RecordOK
  BY DEF Init, RecordOK, JournalExactlyOnce, Outcome, Asking
<1>3. WritersOK /\ ReadingOK
  BY DEF Init, WritersOK, ReadingOK
<1>4. Spent(<<"admin", 0>>)
  BY WriteAssumption DEF Init, Spent, CallId
<1>5. StampsOK
  BY <1>4 DEF Init, StampsOK
<1> QED
  BY <1>1, <1>2, <1>3, <1>5 DEF LInv

-----------------------------------------------------------------------------
\* A call that makes, repeats or gives up a request, and writes nothing.

Decided(s) ==
  \/ out'[s] = "error"
  \/ out'[s] = "preview" /\ pc[s] = "read" /\ ~Args(s).confirm
  \/ pc[s] = "verify" /\ \E got \in Replies(Rad(s)) : out'[s] = Verdict(s, ActualAfter(s, got))

HasRead(s) ==
  /\ pc[s] = "read" /\ basis'[s] = writer[Rad(s)]
  /\ before'[s] = radio[Rad(s)] /\ radio[Rad(s)] # NoRadio

Progress(s) ==
  /\ UNCHANGED <<n, device, record>>
  /\ \A t \in Servers \ {s} : /\ pc'[t] = pc[t] /\ out'[t] = out[t]
                              /\ before'[t] = before[t] /\ basis'[t] = basis[t]
  /\ pc[s] \in Asking /\ pc'[s] \in Asking \cup {"journal"}
  /\ IF pc'[s] = "journal" THEN Decided(s) ELSE out'[s] = "none"
  /\ \/ HasRead(s)
     \/ (pc'[s] = "patch" => pc[s] = "patch") /\ UNCHANGED <<before, basis>>
  /\ pc'[s] = "verify" => pc[s] \in {"patch", "verify"}

LEMMA ProgressShape ==
  ASSUME LInv, NEW s \in Servers,
         \/ Setup(s) \/ Retry(s) \/ RequestFails(s)
         \/ NextPage(s) \/ ResolveSite(s) \/ Find(s)
         \/ Read(s) \/ PatchDiscarded(s) \/ Verify(s)
  PROVE  Progress(s)
<1> USE DEF Progress, LInv, IInv, TypeOK, CallOK, reading
<1>1. CASE Setup(s) \/ Retry(s) \/ NextPage(s)
  BY <1>1 DEF Setup, Retry, NextPage, Asking
<1>2. CASE RequestFails(s)
  BY <1>2 DEF RequestFails, End, Asking, Decided
<1>3. CASE ResolveSite(s)
  <2>1. pc[s] \in Asking /\ out[s] = "none" /\ UNCHANGED <<n, device, record, before, basis>>
    BY <1>3 DEF ResolveSite, ListIsRead, Asking
  <2>2. CASE Goto(s, "find")
    BY <2>1, <2>2 DEF Goto, Asking
  <2>3. CASE End(s, "error")
    BY <2>1, <2>3 DEF End, Decided
  <2> QED
    BY <1>3, <2>2, <2>3 DEF ResolveSite
<1>4. CASE Find(s)
  <2>1. pc[s] \in Asking /\ out[s] = "none" /\ UNCHANGED <<n, device, record, before, basis>>
    BY <1>4 DEF Find, ListIsRead, Asking
  <2>2. CASE Goto(s, "read")
    BY <2>1, <2>2 DEF Goto, Asking
  <2>3. CASE End(s, "error")
    BY <2>1, <2>3 DEF End, Decided
  <2> QED
    BY <1>4, <2>2, <2>3 DEF Find
<1>5. CASE Read(s)
  <2>1. PICK got \in Replies(Rad(s)) :
          IF got = NoRadio THEN End(s, "error") /\ UNCHANGED reading
          ELSE IF OnlyPreview(s) THEN End(s, "preview") /\ UNCHANGED reading
          ELSE /\ Goto(s, "patch")
               /\ before' = [before EXCEPT ![s] = got]
               /\ basis' = [basis EXCEPT ![s] = writer[Rad(s)]]
               /\ UNCHANGED page
    BY <1>5 DEF Read
  <2>2. got # NoRadio => got = radio[Rad(s)]
    BY DEF Replies
  <2>3. pc[s] = "read" /\ out[s] = "none" /\ UNCHANGED <<n, device, record>>
    BY <1>5 DEF Read
  <2>4. CASE got = NoRadio \/ OnlyPreview(s)
    BY <2>1, <2>3, <2>4 DEF End, Asking, Decided, OnlyPreview
  <2>5. CASE ~(got = NoRadio \/ OnlyPreview(s))
    <3>1. Goto(s, "patch") /\ before' = [before EXCEPT ![s] = got]
          /\ basis' = [basis EXCEPT ![s] = writer[Rad(s)]]
      BY <2>1, <2>5
    <3>2. HasRead(s)
      BY <2>2, <2>3, <2>5, <3>1 DEF HasRead
    <3> QED
      <4>1. pc'[s] = "patch" /\ out' = out /\ \A t \in Servers \ {s} : pc'[t] = pc[t]
        BY <3>1 DEF Goto
      <4>2. \A t \in Servers \ {s} : before'[t] = before[t] /\ basis'[t] = basis[t]
        BY <3>1
      <4> QED
        BY <2>3, <3>2, <4>1, <4>2 DEF Asking
  <2> QED
    BY <2>4, <2>5
<1>6. CASE PatchDiscarded(s)
  BY <1>6 DEF PatchDiscarded, Goto, Asking
<1>7. CASE Verify(s)
  <2>1. PICK got \in Replies(Rad(s)) : End(s, Verdict(s, ActualAfter(s, got)))
    BY <1>7 DEF Verify
  <2>2. pc'[s] = "journal" /\ out'[s] = Verdict(s, ActualAfter(s, got))
    BY <2>1 DEF End
  <2>3. Decided(s)
    BY <1>7, <2>2 DEF Decided, Verify
  <2> QED
    BY <1>7, <2>1, <2>2, <2>3 DEF Verify, End, Asking
<1> QED
  BY <1>1, <1>2, <1>3, <1>4, <1>5, <1>6, <1>7

LEMMA ProgressKeeps ==
  ASSUME LInv, IInv', NEW s \in Servers, Progress(s)
  PROVE  LInv'
<1>1. /\ UNCHANGED <<n, radio, writer, inflight, adm, applies, journal, call, answer, lost>>
      /\ \A t \in Servers : Cur(t)' = Cur(t) /\ Args(t)' = Args(t)
                            /\ Rad(t)' = Rad(t) /\ Target(t)' = Target(t)
  BY DEF Progress, device, record, Cur, Args, Rad, Target
<1>2. \A t \in Servers \ {s} : /\ pc'[t] = pc[t] /\ out'[t] = out[t]
                               /\ before'[t] = before[t] /\ basis'[t] = basis[t]
  BY DEF Progress
<1>3. pc[s] \in Asking /\ pc'[s] \in Asking \cup {"journal"} /\ pc'[s] # "idle" /\ pc'[s] # "return"
  BY DEF Progress, Asking
<1>4. RecordOK'
  <2>1. JournalExactlyOnce'
    BY <1>1 DEF LInv, RecordOK, JournalExactlyOnce
  <2>2. ASSUME NEW id \in CallId
        PROVE  /\ id[2] > n[id[1]] => journal[id] = <<>> /\ id \notin lost /\ call[id] = NoCall
               /\ call[id] # NoCall /\ answer[id] = "none" => pc'[id[1]] # "idle" /\ id = Cur(id[1])
    <3>1. id[1] \in Servers
      BY DEF CallId
    <3> QED
      BY <1>2, <1>3, <3>1 DEF LInv, RecordOK
  <2>3. ASSUME NEW t \in Servers
        PROVE  /\ pc'[t] \in Asking \cup {"journal"} => journal[Cur(t)] = <<>> /\ Cur(t) \notin lost
               /\ pc'[t] = "return" => journal[Cur(t)] = <<out'[t]>> \/ Cur(t) \in lost
    BY <1>2, <1>3 DEF LInv, RecordOK
  <2>4. \A id \in CallId : Cur(id[1])' = Cur(id[1])
    BY <1>1 DEF CallId
  <2> QED
    BY <1>1, <2>1, <2>2, <2>3, <2>4 DEF RecordOK
<1>5. WritersOK'
  <2>1. pc'[s] \in {"journal", "return"} /\ out'[s] = "preview" => applies[Cur(s)] = 0
    BY <1>3 DEF Progress, Decided, Verdict, LInv, IInv, EffectOK, Asking
  <2>2. \A id \in CallId : MayWrite(id)' = MayWrite(id)
    BY <1>1 DEF MayWrite, Permitted
  <2>3. \A m \in inflight : m.id \in CallId
    BY DEF LInv, IInv, TypeOK, Message
  <2> QED
    BY <1>1, <1>2, <2>1, <2>2, <2>3 DEF LInv, WritersOK
<1>6. StampsOK'
  <2>1. \A w : Spent(w)' <=> Spent(w)
    BY <1>1 DEF Spent
  <2>2. Spent(basis'[s])
    <3>1. CASE HasRead(s)
      BY <3>1, RadType DEF HasRead, LInv, IInv, StampsOK
    <3>2. CASE UNCHANGED basis
      BY <3>2 DEF LInv, StampsOK
    <3> QED
      BY <3>1, <3>2 DEF Progress
  <2> QED
    BY <1>1, <1>2, <2>1, <2>2 DEF LInv, StampsOK
<1>7. ReadingOK'
  <2>1. ASSUME NEW t \in Servers
        PROVE  /\ pc'[t] \in {"patch", "verify"} => radio[Rad(t)] # NoRadio
               /\ pc'[t] = "patch" /\ writer[Rad(t)] = basis'[t] => before'[t] = radio[Rad(t)]
               /\ pc'[t] = "verify" /\ writer[Rad(t)] = Cur(t) => radio[Rad(t)].freq = Target(t)
    <3>1. CASE t # s
      BY <1>2, <3>1 DEF LInv, ReadingOK
    <3>2. CASE t = s /\ pc[s] = "patch" /\ pc'[s] = "verify"
      <4>1. writer[Rad(s)] # Cur(s)
        BY <3>2, CurFacts, RadType DEF LInv, IInv, EffectOK, StampsOK, Spent, Asking
      <4> QED
        BY <3>2, <4>1 DEF LInv, ReadingOK
    <3>3. CASE t = s /\ ~(pc[s] = "patch" /\ pc'[s] = "verify")
      BY <3>3 DEF Progress, HasRead, LInv, ReadingOK
    <3> QED
      BY <3>1, <3>2, <3>3
  <2> QED
    BY <1>1, <2>1 DEF LInv, ReadingOK
<1> QED
  BY <1>4, <1>5, <1>6, <1>7 DEF LInv

-----------------------------------------------------------------------------
\* A radio is overwritten: by a PATCH, now or late, or by somebody else.

Overwritten(r, x, w) ==
  /\ r \in Radios /\ x \in RadioSetting
  /\ radio' = [radio EXCEPT ![r] = x]
  /\ writer' = [writer EXCEPT ![r] = w]
  /\ \E new : new = w /\ ~Spent(new) /\ Spent(new)'
  /\ \A v : Spent(v) => Spent(v)'

\* A radio whose last writer is one that had been recorded before is as it was.
LEMMA OverwriteKeeps ==
  ASSUME LInv, NEW r, NEW x, NEW w, Overwritten(r, x, w)
  PROVE  /\ \A q \in Radios : Spent(writer[q])'
         /\ \A q \in Radios : radio[q] # NoRadio => radio'[q] # NoRadio
         /\ \A q \in Radios : \A v : Spent(v) /\ writer'[q] = v =>
              q # r /\ writer[q] = v /\ radio'[q] = radio[q]
         /\ writer'[r] = w /\ radio'[r] = x
         /\ \A q \in Radios : q # r => writer'[q] = writer[q] /\ radio'[q] = radio[q]
<1>1. /\ radio \in [Radios -> RadioSetting \cup {NoRadio}]
      /\ writer \in [Radios -> CallId \cup AdminId]
  BY DEF LInv, IInv, TypeOK
<1>2. writer'[r] = w /\ radio'[r] = x /\ x # NoRadio
  BY <1>1, WriteAssumption DEF Overwritten
<1>3. \A q \in Radios : q # r => writer'[q] = writer[q] /\ radio'[q] = radio[q]
  BY <1>1 DEF Overwritten
<1>4. /\ ~Spent(w) /\ Spent(w)' /\ \A v : Spent(v) => Spent(v)'
      /\ \A q \in Radios : Spent(writer[q])
  BY DEF Overwritten, LInv, StampsOK
<1>5. ASSUME NEW q \in Radios PROVE Spent(writer[q])'
  <2>1. PICK v : v = writer'[q]
    OBVIOUS
  <2>2. Spent(v)'
    <3>1. CASE q = r
      BY <1>2, <1>4, <2>1, <3>1
    <3>2. CASE q # r
      BY <1>3, <1>4, <2>1, <3>2
    <3> QED
      BY <3>1, <3>2
  <2> QED
    BY <2>1, <2>2 DEF Spent
<1>6. ASSUME NEW q \in Radios, NEW v, Spent(v), writer'[q] = v PROVE q # r
  BY <1>2, <1>4, <1>6
<1> QED
  BY <1>2, <1>3, <1>5, <1>6

\* The controller carries out a PATCH it has not carried out before.
LEMMA CarryOutKeeps ==
  ASSUME LInv, NEW m \in Message, CarryOut(m), applies[m.id] = 0, adm' = adm
  PROVE  /\ Overwritten(m.rad, m.body, m.id)
         /\ \A id \in CallId : id # m.id => applies'[id] = applies[id]
<1>1. m.rad \in Radios /\ m.body \in RadioSetting /\ m.id \in CallId
  BY DEF Message
<1>2. applies \in [CallId -> Nat] /\ applies' = [applies EXCEPT ![m.id] = applies[m.id] + 1]
  BY DEF CarryOut, LInv, IInv, TypeOK
<1>3. applies'[m.id] = 1 /\ \A id \in CallId : id # m.id => applies'[id] = applies[id]
  BY <1>1, <1>2
<1>4. m.id \notin AdminId
  BY <1>1, WriteAssumption DEF CallId, AdminId
<1>5. ~Spent(m.id)
  BY <1>1 DEF Spent
<1>6. Spent(m.id)'
  BY <1>1, <1>3, <1>4 DEF Spent
<1>7. ASSUME NEW v, Spent(v) PROVE Spent(v)'
  <2>1. v \in CallId => applies'[v] > 0
    BY <1>3, <1>5, <1>7 DEF Spent
  <2>2. v \in AdminId => v[2] <= adm'
    BY <1>7 DEF Spent
  <2> QED
    BY <2>1, <2>2 DEF Spent
<1> QED
  BY <1>1, <1>3, <1>5, <1>6, <1>7 DEF CarryOut, Overwritten

LEMMA CarriedKeeps ==
  ASSUME LInv, IInv', NEW s \in Servers, PatchCarriedOut(s)
  PROVE  LInv'
<1>1. /\ pc[s] = "patch" /\ pc' = [pc EXCEPT ![s] = "verify"]
      /\ CarryOut(Patch(s))
      /\ UNCHANGED <<n, out, before, basis, inflight, adm, journal, call, answer, lost>>
  BY DEF PatchCarriedOut, Goto, reading, record
<1>2. pc'[s] = "verify" /\ \A t \in Servers \ {s} : pc'[t] = pc[t]
  BY <1>1 DEF LInv, IInv, TypeOK
<1>3. /\ Patch(s) \in Message /\ Patch(s).id = Cur(s) /\ Patch(s).rad = Rad(s)
      /\ Patch(s).body = Body(s) /\ Body(s).freq = Target(s) /\ MayWrite(Cur(s))
      /\ Rad(s) \in Radios
  BY <1>1, PatchFits
<1>4. /\ Cur(s) \in CallId /\ applies[Cur(s)] = 0
      /\ \A t \in Servers : t # s => Cur(t) # Cur(s)
  BY <1>1, CurFacts DEF LInv, IInv, EffectOK, Asking
<1>5. /\ Overwritten(Rad(s), Body(s), Cur(s))
      /\ \A id \in CallId : id # Cur(s) => applies'[id] = applies[id]
  BY <1>1, <1>3, <1>4, CarryOutKeeps
<1>6. /\ \A q \in Radios : Spent(writer[q])'
      /\ \A q \in Radios : radio[q] # NoRadio => radio'[q] # NoRadio
      /\ \A q \in Radios : \A v : Spent(v) /\ writer'[q] = v =>
           q # Rad(s) /\ writer[q] = v /\ radio'[q] = radio[q]
      /\ writer'[Rad(s)] = Cur(s) /\ radio'[Rad(s)] = Body(s)
      /\ \A q \in Radios : q # Rad(s) => writer'[q] = writer[q] /\ radio'[q] = radio[q]
  BY <1>5, OverwriteKeeps
<1>7. \A t \in Servers : /\ Cur(t)' = Cur(t) /\ Args(t)' = Args(t)
                         /\ Rad(t)' = Rad(t) /\ Target(t)' = Target(t)
  BY <1>1 DEF Cur, Args, Rad, Target
<1>8. RecordOK'
  <2>1. JournalExactlyOnce'
    BY <1>1 DEF LInv, RecordOK, JournalExactlyOnce
  <2>2. \A id \in CallId : id[1] \in Servers /\ Cur(id[1])' = Cur(id[1])
    BY <1>7 DEF CallId
  <2>3. \A t \in Servers : /\ pc'[t] # pc[t] => t = s
                           /\ pc'[t] # "idle" <=> pc[t] # "idle"
    BY <1>1, <1>2
  <2>4. \A t \in Servers : pc'[t] \in Asking \cup {"journal"} => pc[t] \in Asking \cup {"journal"}
    BY <1>1, <1>2 DEF Asking
  <2>5. \A t \in Servers : pc'[t] = "return" => pc[t] = "return"
    BY <1>2
  <2> QED
    BY <1>1, <1>7, <2>1, <2>2, <2>3, <2>4, <2>5 DEF LInv, RecordOK
<1>9. WritersOK'
  <2>1. \A id \in CallId : MayWrite(id)' = MayWrite(id)
    BY <1>1 DEF MayWrite, Permitted
  <2>2. \A m \in inflight : m.id \in CallId
    BY DEF LInv, IInv, TypeOK, Message
  <2>3. ASSUME NEW id \in CallId, applies'[id] > 0 PROVE MayWrite(id)
    <3>1. CASE id = Cur(s)
      BY <1>3, <3>1
    <3>2. CASE id # Cur(s)
      BY <1>5, <2>3, <3>2 DEF LInv, WritersOK
    <3> QED
      BY <3>1, <3>2
  <2>4. ASSUME NEW t \in Servers, pc'[t] \in {"journal", "return"}, out[t] = "preview"
        PROVE  applies'[Cur(t)] = 0
    <3>1. t # s /\ pc[t] \in {"journal", "return"}
      BY <1>2, <2>4
    <3>2. Cur(t) \in CallId /\ Cur(t) # Cur(s)
      BY <1>4, <3>1, CurFacts
    <3> QED
      BY <1>5, <2>4, <3>1, <3>2 DEF LInv, WritersOK
  <2> QED
    BY <1>1, <1>7, <2>1, <2>2, <2>3, <2>4 DEF LInv, WritersOK
<1>10. StampsOK'
  BY <1>1, <1>5, <1>6 DEF LInv, StampsOK, Overwritten
<1>11. ReadingOK'
  <2>1. ASSUME NEW t \in Servers, t # s, pc[t] \in {"patch", "verify"}
        PROVE  /\ radio'[Rad(t)] # NoRadio
               /\ pc[t] = "patch" /\ writer'[Rad(t)] = basis[t] => before[t] = radio'[Rad(t)]
               /\ pc[t] = "verify" /\ writer'[Rad(t)] = Cur(t) => radio'[Rad(t)].freq = Target(t)
    <3>1. Rad(t) \in Radios /\ Spent(basis[t]) /\ radio[Rad(t)] # NoRadio
      BY <2>1, RadType DEF LInv, IInv, StampsOK, ReadingOK
    <3>2. pc[t] = "patch" /\ writer'[Rad(t)] = basis[t] => before[t] = radio'[Rad(t)]
      BY <1>6, <2>1, <3>1 DEF LInv, ReadingOK
    <3>3. ASSUME pc[t] = "verify", writer'[Rad(t)] = Cur(t) PROVE radio'[Rad(t)].freq = Target(t)
      <4>1. Rad(t) # Rad(s)
        BY <1>4, <1>6, <2>1, <3>3
      <4> QED
        BY <1>6, <3>1, <3>3, <4>1 DEF LInv, ReadingOK
    <3> QED
      BY <1>6, <3>1, <3>2, <3>3
  <2>2. radio'[Rad(s)] # NoRadio /\ radio'[Rad(s)].freq = Target(s)
    BY <1>1, <1>3, <1>6 DEF LInv, ReadingOK
  <2>3. ASSUME NEW m \in inflight, writer'[m.rad] = m.basis
        PROVE  m.body = [radio'[m.rad] EXCEPT !.freq = m.body.freq]
    <3>1. m.rad \in Radios /\ Spent(m.basis)
      BY DEF LInv, IInv, TypeOK, Message, StampsOK
    <3> QED
      BY <1>6, <2>3, <3>1 DEF LInv, ReadingOK
  <2>4. ASSUME NEW t \in Servers
        PROVE  /\ pc'[t] \in {"patch", "verify"} => radio'[Rad(t)] # NoRadio
               /\ pc'[t] = "patch" /\ writer'[Rad(t)] = basis[t] => before[t] = radio'[Rad(t)]
               /\ pc'[t] = "verify" /\ writer'[Rad(t)] = Cur(t) => radio'[Rad(t)].freq = Target(t)
    <3>1. CASE t = s
      BY <1>2, <2>2, <3>1
    <3>2. CASE t # s
      BY <1>2, <2>1, <3>2
    <3> QED
      BY <3>1, <3>2
  <2> QED
    BY <1>1, <1>7, <2>3, <2>4 DEF LInv, ReadingOK
<1> QED
  BY <1>8, <1>9, <1>10, <1>11 DEF LInv

\* Steps that leave every server where it is: a PATCH arrives late or is lost, a
\* session ends, or somebody else writes.
Elsewhere ==
  /\ UNCHANGED <<pc, n, out, before, basis, journal, call, answer, lost>>
  /\ inflight' \subseteq inflight
  /\ \/ UNCHANGED <<radio, writer, applies, adm>>
     \/ \E m \in inflight : /\ CarryOut(m) /\ adm' = adm
                            /\ inflight' = inflight \ {m}
     \/ /\ UNCHANGED applies
        /\ \E r \in Radios, x \in RadioSetting :
             radio[r] # NoRadio /\ Overwritten(r, x, <<"admin", adm + 1>>)

LEMMA ElsewhereShape ==
  ASSUME LInv, (\E s \in Servers : SessionExpires(s)) \/ Environment
  PROVE  Elsewhere
<1> USE DEF Elsewhere
<1>1. ASSUME NEW s \in Servers, SessionExpires(s) PROVE Elsewhere
  BY <1>1 DEF SessionExpires, reading, device, record
<1>2. ASSUME NEW m \in inflight, LateArrival(m) PROVE Elsewhere
  BY <1>2 DEF LateArrival, reading, record
<1>3. ASSUME NEW m \in inflight, NeverArrives(m) PROVE Elsewhere
  BY <1>3 DEF NeverArrives, reading, record
<1>4. ASSUME NEW r \in Radios, NEW f \in FreqsOf(r[2]), NEW x \in Rests,
             Administer(r, [freq |-> f, rest |-> x])
      PROVE  Elsewhere
  <2>1. [freq |-> f, rest |-> x] \in RadioSetting
    <3>1. r[2] \in RadioBands
      BY DEF Radios
    <3> QED
      BY <3>1 DEF RadioSetting, Freqs
  <2>2. /\ adm \in Nat /\ adm' = adm + 1 /\ applies' = applies /\ adm < MaxAdmin
        /\ radio' = [radio EXCEPT ![r] = [freq |-> f, rest |-> x]]
        /\ writer' = [writer EXCEPT ![r] = <<"admin", adm + 1>>]
        /\ radio[r] # NoRadio
    BY <1>4 DEF Administer, LInv, IInv, TypeOK
  <2>3. <<"admin", adm + 1>> \in AdminId /\ <<"admin", adm + 1>> \notin CallId
    BY <2>2, WriteAssumption DEF AdminId, CallId
  <2>4. ASSUME NEW w, w = <<"admin", adm + 1>> PROVE ~Spent(w) /\ Spent(w)'
    BY <2>2, <2>3, <2>4 DEF Spent
  <2>5. ASSUME NEW v, Spent(v) PROVE Spent(v)'
    <3>1. v \in AdminId => v[2] \in Nat
      BY DEF AdminId
    <3> QED
      BY <2>2, <2>5, <3>1 DEF Spent
  <2>6. Overwritten(r, [freq |-> f, rest |-> x], <<"admin", adm + 1>>)
    BY <2>1, <2>2, <2>4, <2>5 DEF Overwritten
  <2> QED
    BY <1>4, <2>1, <2>2, <2>6 DEF Administer, reading, record
<1> QED
  BY <1>1, <1>2, <1>3, <1>4 DEF Environment

LEMMA ElsewhereKeeps ==
  ASSUME LInv, IInv', Elsewhere
  PROVE  LInv'
<1>1. /\ UNCHANGED <<pc, n, out, before, basis, journal, call, answer, lost>>
      /\ inflight' \subseteq inflight
  BY DEF Elsewhere
<1>2. \A t \in Servers : /\ Cur(t)' = Cur(t) /\ Args(t)' = Args(t)
                         /\ Rad(t)' = Rad(t) /\ Target(t)' = Target(t)
  BY <1>1 DEF Cur, Args, Rad, Target
<1>3. \A id \in CallId : MayWrite(id)' = MayWrite(id)
  BY <1>1 DEF MayWrite, Permitted
<1>4. \A m \in inflight : m \in Message /\ m.id \in CallId /\ m.rad \in Radios /\ Spent(m.basis)
  BY DEF LInv, IInv, TypeOK, Message, StampsOK
<1>5. RecordOK'
  <2>1. \A id \in CallId : id[1] \in Servers
    BY DEF CallId
  <2> QED
    BY <1>1, <1>2, <2>1 DEF LInv, RecordOK, JournalExactlyOnce
<1>6. CASE UNCHANGED <<radio, writer, applies, adm>>
  <2>1. \A w : Spent(w)' <=> Spent(w)
    BY <1>6 DEF Spent
  <2>2. WritersOK'
    BY <1>1, <1>2, <1>3, <1>4, <1>6 DEF LInv, WritersOK
  <2>3. StampsOK'
    BY <1>1, <1>6, <2>1 DEF LInv, StampsOK
  <2>4. ReadingOK'
    BY <1>1, <1>2, <1>6 DEF LInv, ReadingOK
  <2> QED
    BY <1>5, <2>2, <2>3, <2>4 DEF LInv
<1>7. ASSUME NEW r, NEW x, NEW w, Overwritten(r, x, w),
             \A t \in Servers : pc[t] \in Asking => w # Cur(t)
      PROVE  StampsOK' /\ ReadingOK'
  <2>1. /\ \A q \in Radios : Spent(writer[q])'
        /\ \A q \in Radios : radio[q] # NoRadio => radio'[q] # NoRadio
        /\ \A q \in Radios : \A v : Spent(v) /\ writer'[q] = v =>
             q # r /\ writer[q] = v /\ radio'[q] = radio[q]
        /\ writer'[r] = w /\ radio'[r] = x
        /\ \A q \in Radios : q # r => writer'[q] = writer[q] /\ radio'[q] = radio[q]
    BY <1>7, OverwriteKeeps
  <2>2. StampsOK'
    BY <1>1, <1>7, <2>1 DEF LInv, StampsOK, Overwritten
  <2>3. ASSUME NEW t \in Servers, pc[t] \in {"patch", "verify"}
        PROVE  /\ radio'[Rad(t)] # NoRadio
               /\ pc[t] = "patch" /\ writer'[Rad(t)] = basis[t] => before[t] = radio'[Rad(t)]
               /\ pc[t] = "verify" /\ writer'[Rad(t)] = Cur(t) => radio'[Rad(t)].freq = Target(t)
    <3>1. Rad(t) \in Radios /\ Spent(basis[t]) /\ radio[Rad(t)] # NoRadio /\ w # Cur(t)
      BY <1>7, <2>3, RadType DEF LInv, IInv, StampsOK, ReadingOK, Asking
    <3>2. pc[t] = "patch" /\ writer'[Rad(t)] = basis[t] => before[t] = radio'[Rad(t)]
      BY <2>1, <2>3, <3>1 DEF LInv, ReadingOK
    <3>3. ASSUME pc[t] = "verify", writer'[Rad(t)] = Cur(t) PROVE radio'[Rad(t)].freq = Target(t)
      <4>1. Rad(t) # r
        BY <2>1, <3>1, <3>3
      <4> QED
        BY <2>1, <3>1, <3>3, <4>1 DEF LInv, ReadingOK
    <3> QED
      BY <2>1, <3>1, <3>2, <3>3
  <2>4. ASSUME NEW m \in inflight, writer'[m.rad] = m.basis
        PROVE  m.body = [radio'[m.rad] EXCEPT !.freq = m.body.freq]
    BY <1>4, <2>1, <2>4 DEF LInv, ReadingOK
  <2>5. ReadingOK'
    BY <1>1, <1>2, <2>3, <2>4 DEF LInv, ReadingOK
  <2> QED
    BY <2>2, <2>5
<1>8. ASSUME NEW m \in inflight, CarryOut(m), adm' = adm, inflight' = inflight \ {m}
      PROVE  LInv'
  <2>1. applies[m.id] = 0 /\ MayWrite(m.id) /\ m \in Message
    BY <1>4 DEF LInv, IInv, EffectOK, WritersOK
  <2>2. /\ Overwritten(m.rad, m.body, m.id)
        /\ \A id \in CallId : id # m.id => applies'[id] = applies[id]
    BY <1>8, <2>1, CarryOutKeeps
  <2>3. \A t \in Servers : pc[t] \in Asking => m.id # Cur(t)
    BY DEF LInv, IInv, EffectOK
  <2>4. StampsOK' /\ ReadingOK'
    BY <1>7, <2>2, <2>3
  <2>5. WritersOK'
    <3>1. ASSUME NEW id \in CallId, applies'[id] > 0 PROVE MayWrite(id)
      BY <2>1, <2>2, <3>1 DEF LInv, WritersOK
    <3>2. ASSUME NEW t \in Servers, pc[t] \in {"journal", "return"}, out[t] = "preview"
          PROVE  applies'[Cur(t)] = 0
      <4>1. Cur(t) \in CallId /\ Cur(t) # m.id
        BY <3>2, CurFacts DEF LInv, IInv, EffectOK
      <4> QED
        BY <2>2, <3>2, <4>1 DEF LInv, WritersOK
    <3> QED
      BY <1>1, <1>2, <1>3, <1>4, <3>1, <3>2 DEF LInv, WritersOK
  <2> QED
    BY <1>5, <2>4, <2>5 DEF LInv
<1>9. ASSUME UNCHANGED applies, NEW r \in Radios, NEW x \in RadioSetting,
             Overwritten(r, x, <<"admin", adm + 1>>)
      PROVE  LInv'
  <2>1. \A t \in Servers : <<"admin", adm + 1>> # Cur(t)
    BY WriteAssumption DEF Cur
  <2>2. StampsOK' /\ ReadingOK'
    BY <1>7, <1>9, <2>1
  <2>3. WritersOK'
    BY <1>1, <1>2, <1>3, <1>4, <1>9 DEF LInv, WritersOK
  <2> QED
    BY <1>5, <2>2, <2>3 DEF LInv
<1> QED
  BY <1>6, <1>8, <1>9 DEF Elsewhere

-----------------------------------------------------------------------------
\* The PATCH is given up: it joins those in flight.
LEMMA GivenUpKeeps ==
  ASSUME LInv, IInv', NEW s \in Servers, PatchUnanswered(s)
  PROVE  LInv'
<1>1. /\ pc[s] = "patch" /\ pc' = [pc EXCEPT ![s] = "journal"]
      /\ out' = [out EXCEPT ![s] = "error"]
      /\ inflight' = inflight \cup {Patch(s)}
      /\ UNCHANGED <<n, before, basis, radio, writer, adm, applies, journal, call, answer, lost>>
  BY DEF PatchUnanswered, End, reading, record
<1>2. /\ pc'[s] = "journal" /\ out'[s] = "error"
      /\ \A t \in Servers \ {s} : pc'[t] = pc[t] /\ out'[t] = out[t]
  BY <1>1 DEF LInv, IInv, TypeOK
<1>3. \A t \in Servers : /\ Cur(t)' = Cur(t) /\ Args(t)' = Args(t)
                         /\ Rad(t)' = Rad(t) /\ Target(t)' = Target(t)
  BY <1>1 DEF Cur, Args, Rad, Target
<1>4. RecordOK'
  <2>1. \A id \in CallId : id[1] \in Servers /\ Cur(id[1])' = Cur(id[1])
    BY <1>3 DEF CallId
  <2>2. \A t \in Servers : /\ pc[t] # "idle" => pc'[t] # "idle"
                           /\ pc'[t] \in Asking \cup {"journal"} => pc[t] \in Asking \cup {"journal"}
                           /\ pc'[t] = "return" => pc[t] = "return" /\ out'[t] = out[t]
    BY <1>1, <1>2 DEF Asking
  <2> QED
    BY <1>1, <1>3, <2>1, <2>2 DEF LInv, RecordOK, JournalExactlyOnce
<1>5. \A id \in CallId : MayWrite(id)' = MayWrite(id)
  BY <1>1 DEF MayWrite, Permitted
<1>6. \A m \in inflight' : m.id \in CallId
  BY DEF IInv, TypeOK, Message
<1>7. WritersOK'
  BY <1>1, <1>2, <1>3, <1>5, <1>6, PatchFits DEF LInv, WritersOK
<1>8. StampsOK'
  <2>1. \A w : Spent(w)' <=> Spent(w)
    BY <1>1 DEF Spent
  <2> QED
    BY <1>1, <2>1, PatchFits DEF LInv, StampsOK
<1>9. ReadingOK'
  <2>1. ASSUME NEW m \in inflight'
        PROVE  /\ m.rad = <<call[m.id].mac, call[m.id].band>>
               /\ m.body.freq = FreqOf(call[m.id].band, call[m.id].chan)
               /\ writer[m.rad] = m.basis => m.body = [radio[m.rad] EXCEPT !.freq = m.body.freq]
    BY <1>1, PatchFits DEF LInv, ReadingOK
  <2> QED
    BY <1>1, <1>2, <1>3, <2>1 DEF LInv, ReadingOK
<1> QED
  BY <1>4, <1>7, <1>8, <1>9 DEF LInv

\* The event is written, or lost.
LEMMA JournaledKeeps ==
  ASSUME LInv, IInv', NEW s \in Servers, Journal(s)
  PROVE  LInv'
<1>1. /\ pc[s] = "journal" /\ pc' = [pc EXCEPT ![s] = "return"]
      /\ \/ journal' = [journal EXCEPT ![Cur(s)] = Append(@, out[s])] /\ UNCHANGED lost
         \/ lost' = lost \cup {Cur(s)} /\ UNCHANGED journal
      /\ UNCHANGED <<n, out, before, basis, radio, writer, inflight, adm, applies, call, answer>>
  BY DEF Journal, Goto, reading, device
<1>2. pc'[s] = "return" /\ \A t \in Servers \ {s} : pc'[t] = pc[t]
  BY <1>1 DEF LInv, IInv, TypeOK
<1>3. \A t \in Servers : /\ Cur(t)' = Cur(t) /\ Args(t)' = Args(t)
                         /\ Rad(t)' = Rad(t) /\ Target(t)' = Target(t)
  BY <1>1 DEF Cur, Args, Rad, Target
<1>4. /\ Cur(s) \in CallId /\ Cur(s)[1] = s /\ n[s] \in Nat
      /\ answer[Cur(s)] = "none"
      /\ \A t \in Servers \ {s} : Cur(t) # Cur(s)
      /\ journal[Cur(s)] = <<>> /\ Cur(s) \notin lost
  <2>1. /\ Cur(s) \in CallId /\ Cur(s)[1] = s /\ answer[Cur(s)] = "none"
        /\ \A t \in Servers \ {s} : Cur(t) # Cur(s)
    BY <1>1, CurFacts
  <2>2. n[s] \in Nat
    BY DEF LInv, IInv, TypeOK
  <2>3. journal[Cur(s)] = <<>> /\ Cur(s) \notin lost
    BY <1>1 DEF LInv, RecordOK
  <2> QED BY <2>1, <2>2, <2>3
<1>5. /\ \A id \in CallId : id # Cur(s) => journal'[id] = journal[id]
      /\ \A id \in CallId : id # Cur(s) /\ id \in lost' => id \in lost
      /\ lost \subseteq lost'
      /\ journal'[Cur(s)] = <<out[s]>> \/ (journal'[Cur(s)] = <<>> /\ Cur(s) \in lost')
  BY <1>1, <1>4 DEF LInv, IInv, TypeOK
<1>6. RecordOK'
  <2>1. JournalExactlyOnce'
    <3>1. ASSUME NEW id \in CallId
          PROVE  /\ Len(journal'[id]) <= 1
                 /\ answer[id] \in Outcome /\ id \notin lost' /\ call[id].mac \in Macs =>
                      journal'[id] = <<answer[id]>>
      <4>1. CASE id = Cur(s)
        <5>1. answer[id] \notin Outcome
          BY <1>4, <4>1 DEF Outcome
        <5>2. CASE journal'[id] = <<out[s]>>
          BY <5>1, <5>2
        <5>3. CASE journal'[id] = <<>>
          BY <5>1, <5>3
        <5> QED
          BY <1>5, <4>1, <5>2, <5>3
      <4>2. CASE id # Cur(s)
        BY <1>5, <4>2 DEF LInv, RecordOK, JournalExactlyOnce
      <4> QED
        BY <4>1, <4>2
    <3> QED
      BY <1>1, <3>1 DEF JournalExactlyOnce
  <2>2. ASSUME NEW id \in CallId
        PROVE  /\ id[2] > n[id[1]] => journal'[id] = <<>> /\ id \notin lost' /\ call[id] = NoCall
               /\ call[id] # NoCall /\ answer[id] = "none" => pc'[id[1]] # "idle" /\ id = Cur(id[1])
    <3>1. id[1] \in Servers
      BY DEF CallId
    <3>2. id[2] > n[id[1]] => id # Cur(s)
      BY <1>4 DEF Cur
    <3> QED
      BY <1>1, <1>2, <1>5, <3>1, <3>2 DEF LInv, RecordOK
  <2>3. ASSUME NEW t \in Servers
        PROVE  /\ pc'[t] \in Asking \cup {"journal"} => journal'[Cur(t)] = <<>> /\ Cur(t) \notin lost'
               /\ pc'[t] = "return" => journal'[Cur(t)] = <<out[t]>> \/ Cur(t) \in lost'
    <3>1. CASE t = s
      BY <1>2, <1>5, <3>1 DEF Asking
    <3>2. CASE t # s /\ pc[t] # "idle"
      <4>1. Cur(t) \in CallId /\ Cur(t) # Cur(s) /\ pc'[t] = pc[t]
        BY <1>2, <1>4, <3>2, CurFacts
      <4> QED
        BY <1>5, <4>1 DEF LInv, RecordOK
    <3>3. CASE t # s /\ pc[t] = "idle"
      BY <1>2, <3>3 DEF Asking
    <3> QED
      BY <3>1, <3>2, <3>3
  <2>4. \A id \in CallId : Cur(id[1])' = Cur(id[1])
    BY <1>3 DEF CallId
  <2> QED
    BY <1>1, <1>3, <2>1, <2>2, <2>3, <2>4 DEF RecordOK
<1>7. WritersOK'
  <2>1. \A id \in CallId : MayWrite(id)' = MayWrite(id)
    BY <1>1 DEF MayWrite, Permitted
  <2>2. \A m \in inflight : m.id \in CallId
    BY DEF LInv, IInv, TypeOK, Message
  <2>3. \A t \in Servers : pc'[t] \in {"journal", "return"} => pc[t] \in {"journal", "return"}
    BY <1>1, <1>2
  <2> QED
    BY <1>1, <1>3, <2>1, <2>2, <2>3 DEF LInv, WritersOK
<1>8. StampsOK'
  <2>1. \A w : Spent(w)' <=> Spent(w)
    BY <1>1 DEF Spent
  <2> QED
    BY <1>1, <2>1 DEF LInv, StampsOK
<1>9. ReadingOK'
  BY <1>1, <1>2, <1>3 DEF LInv, ReadingOK
<1> QED
  BY <1>6, <1>7, <1>8, <1>9 DEF LInv

-----------------------------------------------------------------------------
\* A call ends, with an answer or with its process.

\* What is left of it: perhaps its PATCH, if the process died while sending it.
Ended(s, told) ==
  /\ pc'[s] = "idle" /\ out'[s] = "none" /\ basis'[s] = <<"admin", 0>>
  /\ \A t \in Servers \ {s} : /\ pc'[t] = pc[t] /\ out'[t] = out[t]
                              /\ before'[t] = before[t] /\ basis'[t] = basis[t]
  /\ answer' = IF pc[s] = "idle" THEN answer ELSE [answer EXCEPT ![Cur(s)] = told]
  /\ \/ pc[s] = "return" /\ told = out[s] /\ UNCHANGED inflight
     \/ told = "crashed" /\ UNCHANGED inflight
     \/ told = "crashed" /\ pc[s] = "patch" /\ inflight' = inflight \cup {Patch(s)}
  /\ UNCHANGED <<n, radio, writer, adm, applies, journal, call, lost>>

LEMMA EndShape ==
  ASSUME LInv, NEW s \in Servers, Return(s) \/ Crash(s)
  PROVE  \E told : Ended(s, told)
<1>1. /\ Forget(s) /\ UNCHANGED <<n, radio, writer, adm, applies, journal, call, lost>>
  BY DEF Return, Crash, device
<1>2. /\ pc'[s] = "idle" /\ out'[s] = "none" /\ basis'[s] = <<"admin", 0>>
      /\ \A t \in Servers \ {s} : /\ pc'[t] = pc[t] /\ out'[t] = out[t]
                                  /\ before'[t] = before[t] /\ basis'[t] = basis[t]
  BY <1>1 DEF Forget, LInv, IInv, TypeOK
<1>3. CASE Return(s)
  <2>1. Ended(s, out[s])
    BY <1>1, <1>2, <1>3 DEF Ended, Return, device
  <2> QED
    BY <2>1
<1>4. CASE Crash(s)
  <2>1. Ended(s, "crashed")
    BY <1>1, <1>2, <1>4 DEF Ended, Crash
  <2> QED
    BY <2>1
<1> QED
  BY <1>3, <1>4

LEMMA EndKeeps ==
  ASSUME LInv, IInv', NEW s \in Servers, NEW told, Ended(s, told)
  PROVE  LInv'
<1>1. /\ pc'[s] = "idle" /\ out'[s] = "none" /\ basis'[s] = <<"admin", 0>>
      /\ \A t \in Servers \ {s} : /\ pc'[t] = pc[t] /\ out'[t] = out[t]
                                  /\ before'[t] = before[t] /\ basis'[t] = basis[t]
      /\ UNCHANGED <<n, radio, writer, adm, applies, journal, call, lost>>
  BY DEF Ended
<1>2. \A t \in Servers : /\ Cur(t)' = Cur(t) /\ Args(t)' = Args(t)
                         /\ Rad(t)' = Rad(t) /\ Target(t)' = Target(t)
  BY <1>1 DEF Cur, Args, Rad, Target
<1>3. /\ \A id \in CallId : pc[s] = "idle" \/ id # Cur(s) => answer'[id] = answer[id]
      /\ pc[s] # "idle" => answer'[Cur(s)] = told /\ Cur(s) \in CallId
  BY CurFacts DEF Ended, LInv, IInv, TypeOK
<1>4. told = "crashed" \/ (pc[s] = "return" /\ told = out[s] /\ told \in Outcome)
  BY DEF Ended, LInv, IInv, CallOK
<1>5. RecordOK'
  <2>1. ASSUME NEW id \in CallId, answer'[id] \in Outcome, id \notin lost, call[id].mac \in Macs
        PROVE  journal[id] = <<answer'[id]>>
    <3>1. CASE pc[s] # "idle" /\ id = Cur(s)
      <4>1. pc[s] = "return" /\ told = out[s]
        BY <1>3, <1>4, <2>1, <3>1 DEF Outcome
      <4> QED
        BY <1>3, <2>1, <3>1, <4>1 DEF LInv, RecordOK
    <3>2. CASE ~(pc[s] # "idle" /\ id = Cur(s))
      BY <1>3, <2>1, <3>2 DEF LInv, RecordOK, JournalExactlyOnce
    <3> QED
      BY <3>1, <3>2
  <2>2. JournalExactlyOnce'
    BY <1>1, <2>1 DEF LInv, RecordOK, JournalExactlyOnce
  <2>3. ASSUME NEW id \in CallId, call[id] # NoCall, answer'[id] = "none"
        PROVE  pc'[id[1]] # "idle" /\ id = Cur(id[1])
    <3>1. id[1] \in Servers
      BY DEF CallId
    <3>2. ~(pc[s] # "idle" /\ id = Cur(s))
      BY <1>3, <1>4, <2>3 DEF Outcome
    <3>3. pc[id[1]] # "idle" /\ id = Cur(id[1])
      BY <1>3, <2>3, <3>2 DEF LInv, RecordOK
    <3> QED
      BY <1>1, <3>1, <3>2, <3>3
  <2>4. \A id \in CallId : Cur(id[1])' = Cur(id[1])
    BY <1>2 DEF CallId
  <2>5. ASSUME NEW t \in Servers
        PROVE  /\ pc'[t] \in Asking \cup {"journal"} => journal[Cur(t)] = <<>> /\ Cur(t) \notin lost
               /\ pc'[t] = "return" => journal[Cur(t)] = <<out'[t]>> \/ Cur(t) \in lost
    <3>1. CASE t = s
      BY <1>1, <3>1 DEF Asking
    <3>2. CASE t # s
      BY <1>1, <3>2 DEF LInv, RecordOK
    <3> QED
      BY <3>1, <3>2
  <2>6. \A id \in CallId : id[2] > n[id[1]] => journal[id] = <<>> /\ id \notin lost /\ call[id] = NoCall
    BY DEF LInv, RecordOK
  <2> QED
    BY <1>1, <1>2, <2>2, <2>3, <2>4, <2>5, <2>6 DEF RecordOK
<1>6. \A m \in inflight : m.id \in CallId
  BY DEF LInv, IInv, TypeOK, Message
<1>7. ASSUME NEW id \in CallId, MayWrite(id),
             pc[s] # "idle" /\ id = Cur(s) => told # "preview"
      PROVE  MayWrite(id)'
  BY <1>1, <1>3, <1>7 DEF MayWrite, Permitted
<1>8. WritersOK'
  <2>1. ASSUME NEW id \in CallId, applies[id] > 0 PROVE MayWrite(id)'
    <3>1. pc[s] # "idle" /\ id = Cur(s) => told # "preview"
      BY <1>4, <2>1 DEF LInv, WritersOK
    <3> QED
      BY <1>7, <2>1, <3>1 DEF LInv, WritersOK
  <2>2. ASSUME NEW m \in inflight PROVE MayWrite(m.id)'
    <3>1. pc[s] # "idle" /\ m.id = Cur(s) => told # "preview"
      BY <1>4 DEF LInv, IInv, EffectOK
    <3> QED
      BY <1>6, <1>7, <3>1 DEF LInv, WritersOK
  <2>3. ASSUME pc[s] = "patch", told = "crashed" PROVE MayWrite(Cur(s))'
    <3>1. MayWrite(Cur(s)) /\ Cur(s) \in CallId
      BY <1>3, <2>3, PatchFits
    <3> QED
      BY <1>1, <1>2, <1>3, <2>3, <3>1 DEF MayWrite, Permitted
  <2>4. \A m \in inflight' : MayWrite(m.id)'
    <3>1. CASE UNCHANGED inflight
      BY <2>2, <3>1
    <3>2. CASE told = "crashed" /\ pc[s] = "patch" /\ inflight' = inflight \cup {Patch(s)}
      <4>1. Patch(s).id = Cur(s)
        BY <3>2, PatchFits
      <4>2. ASSUME NEW m \in inflight' PROVE MayWrite(m.id)'
        <5>1. CASE m \in inflight
          BY <2>2, <5>1
        <5>2. CASE m = Patch(s)
          <6>1. m.id = Cur(s)
            BY <4>1, <5>2
          <6> QED
            BY <1>1, <1>2, <2>3, <3>2, <6>1 DEF MayWrite
        <5> QED
          BY <3>2, <5>1, <5>2
      <4> QED
        BY <4>2
    <3> QED
      BY <3>1, <3>2 DEF Ended
  <2>5. \A t \in Servers : pc'[t] \in {"journal", "return"} /\ out'[t] = "preview" =>
          applies[Cur(t)] = 0
    BY <1>1 DEF LInv, WritersOK
  <2> QED
    BY <1>1, <1>2, <2>1, <2>4, <2>5 DEF WritersOK
<1>9. StampsOK'
  <2>1. \A w : Spent(w)' <=> Spent(w)
    BY <1>1 DEF Spent
  <2>2. Spent(<<"admin", 0>>)
    BY WriteAssumption DEF Spent, CallId, LInv, IInv, TypeOK
  <2>3. ASSUME NEW t \in Servers PROVE Spent(basis'[t])
    <3>1. CASE t = s
      BY <1>1, <2>2, <3>1
    <3>2. CASE t # s
      BY <1>1, <3>2 DEF LInv, StampsOK
    <3> QED
      BY <3>1, <3>2
  <2>4. ASSUME NEW m \in inflight' PROVE Spent(m.basis)
    BY PatchFits DEF Ended, LInv, StampsOK
  <2> QED
    BY <1>1, <2>1, <2>3, <2>4 DEF LInv, StampsOK
<1>10. ReadingOK'
  <2>1. ASSUME NEW m \in inflight'
        PROVE  /\ m.rad = <<call[m.id].mac, call[m.id].band>>
               /\ m.body.freq = FreqOf(call[m.id].band, call[m.id].chan)
               /\ writer[m.rad] = m.basis => m.body = [radio[m.rad] EXCEPT !.freq = m.body.freq]
    <3>1. CASE m \in inflight
      BY <3>1 DEF LInv, ReadingOK
    <3>2. CASE pc[s] = "patch" /\ m = Patch(s)
      BY <3>2, PatchFits
    <3> QED
      BY <3>1, <3>2 DEF Ended
  <2> QED
    BY <1>1, <1>2, <2>1 DEF LInv, ReadingOK
<1> QED
  BY <1>5, <1>8, <1>9, <1>10 DEF LInv

-----------------------------------------------------------------------------
\* A call begins: nothing is known of its id, and its server had none under way.
LEMMA BeginKeeps ==
  ASSUME LInv, IInv', NEW s \in Servers, NEW a \in Call, NEW explicit \in BOOLEAN,
         Begin(s, a, explicit) \/ RejectMac(s, a)
  PROVE  LInv'
<1> DEFINE new == <<s, n[s] + 1>>
<1>1. /\ NewCall(s, a)
      /\ UNCHANGED <<before, basis, radio, writer, inflight, adm, applies, journal, lost>>
  BY DEF Begin, RejectMac, reading, device
<1>2. /\ n[s] \in Nat /\ new \in CallId /\ n'[s] = n[s] + 1 /\ pc[s] = "idle"
      /\ \A t \in Servers \ {s} : n'[t] = n[t]
      /\ call'[new] = a /\ \A id \in CallId : id # new => call'[id] = call[id]
  BY <1>1, WriteAssumption DEF NewCall, LInv, IInv, TypeOK, CallId
<1>3. /\ applies[new] = 0 /\ answer[new] = "none" /\ (\A m \in inflight : m.id # new)
      /\ journal[new] = <<>> /\ new \notin lost /\ call[new] = NoCall
  <2>1. new[2] > n[new[1]]
    BY <1>2
  <2> QED
    BY <1>2, <2>1 DEF LInv, IInv, FutureOK, RecordOK
<1>4. \A t \in Servers \ {s} : pc'[t] = pc[t] /\ out'[t] = out[t] /\ Cur(t)' = Cur(t)
  <2>1. \A t \in Servers \ {s} : pc'[t] = pc[t] /\ out'[t] = out[t]
    BY DEF Begin, RejectMac, Goto, End, LInv, IInv, TypeOK
  <2> QED
    BY <1>2, <2>1 DEF Cur
<1>5. Cur(s)' = new
  BY <1>2 DEF Cur
<1>6. \/ /\ pc'[s] \in {"find", "site"} \/ (pc'[s] = "journal" /\ out'[s] = "error")
         /\ UNCHANGED answer
      \/ /\ pc'[s] = "idle" /\ a.mac \notin Macs
         /\ answer' = [answer EXCEPT ![new] = "error"]
  <2>1. CASE Begin(s, a, explicit)
    <3>1. UNCHANGED answer
      BY <2>1 DEF Begin
    <3>2. CASE \E p \in {"find", "site"} : Goto(s, p)
      BY <3>1, <3>2 DEF Goto, LInv, IInv, TypeOK
    <3>3. CASE End(s, "error")
      BY <3>1, <3>3 DEF End, LInv, IInv, TypeOK
    <3> QED
      BY <2>1, <3>2, <3>3 DEF Begin
  <2>2. CASE RejectMac(s, a)
    BY <1>2, <2>2, WriteAssumption DEF RejectMac
  <2> QED
    BY <2>1, <2>2
<1>7. \A id \in CallId : id # new => answer'[id] = answer[id]
  BY <1>2, <1>6 DEF LInv, IInv, TypeOK
<1>8. \A t \in Servers \ {s} : pc[t] # "idle" => Cur(t) \in CallId /\ Cur(t) # new
  BY <1>2, CurFacts DEF Cur
<1>9. \A id \in CallId : id # new /\ MayWrite(id) => MayWrite(id)'
  BY <1>2, <1>7 DEF MayWrite, Permitted
<1>10. RecordOK'
  <2>1. JournalExactlyOnce'
    <3>1. ASSUME NEW id \in CallId
          PROVE  /\ Len(journal[id]) <= 1
                 /\ answer'[id] \in Outcome /\ id \notin lost /\ call'[id].mac \in Macs =>
                      journal[id] = <<answer'[id]>>
      <4>1. CASE id = new
        BY <1>2, <1>3, <1>6, <4>1 DEF LInv, RecordOK, JournalExactlyOnce, Outcome
      <4>2. CASE id # new
        BY <1>2, <1>7, <4>2 DEF LInv, RecordOK, JournalExactlyOnce
      <4> QED
        BY <4>1, <4>2
    <3> QED
      BY <1>1, <3>1 DEF JournalExactlyOnce
  <2>2. ASSUME NEW id \in CallId, id[2] > n'[id[1]]
        PROVE  journal[id] = <<>> /\ id \notin lost /\ call'[id] = NoCall
    <3>1. id[1] \in Servers /\ id[2] \in Nat
      BY DEF CallId
    <3>2. id # new /\ id[2] > n[id[1]]
      BY <1>2, <2>2, <3>1
    <3> QED
      BY <1>2, <3>2 DEF LInv, RecordOK
  <2>3. ASSUME NEW id \in CallId, call'[id] # NoCall, answer'[id] = "none"
        PROVE  pc'[id[1]] # "idle" /\ id = Cur(id[1])'
    <3>1. CASE id = new
      <4>1. answer'[new] = "none" => pc'[s] # "idle"
        BY <1>2, <1>6 DEF LInv, IInv, TypeOK
      <4> QED
        BY <1>5, <2>3, <3>1, <4>1
    <3>2. CASE id # new
      <4>1. id[1] \in Servers /\ pc[id[1]] # "idle" /\ id = Cur(id[1])
        BY <1>2, <1>7, <2>3, <3>2 DEF LInv, RecordOK, CallId
      <4>2. id[1] # s
        BY <1>2, <4>1
      <4> QED
        BY <1>4, <4>1, <4>2
    <3> QED
      BY <3>1, <3>2
  <2>4. ASSUME NEW t \in Servers
        PROVE  /\ pc'[t] \in Asking \cup {"journal"} =>
                    journal[Cur(t)'] = <<>> /\ Cur(t)' \notin lost
               /\ pc'[t] = "return" => journal[Cur(t)'] = <<out'[t]>> \/ Cur(t)' \in lost
    <3>1. CASE t = s
      BY <1>3, <1>5, <1>6, <3>1
    <3>2. CASE t # s
      BY <1>4, <3>2 DEF LInv, RecordOK
    <3> QED
      BY <3>1, <3>2
  <2> QED
    BY <1>1, <2>1, <2>2, <2>3, <2>4 DEF RecordOK
<1>11. WritersOK'
  <2>1. \A m \in inflight : m.id \in CallId
    BY DEF LInv, IInv, TypeOK, Message
  <2>2. ASSUME NEW id \in CallId, applies[id] > 0 PROVE MayWrite(id)'
    BY <1>3, <1>9, <2>2 DEF LInv, WritersOK
  <2>3. ASSUME NEW m \in inflight PROVE MayWrite(m.id)'
    BY <1>3, <1>9, <2>1 DEF LInv, WritersOK
  <2>4. ASSUME NEW t \in Servers, pc'[t] \in {"journal", "return"}, out'[t] = "preview"
        PROVE  applies[Cur(t)'] = 0
    <3>1. CASE t = s
      BY <1>6, <2>4, <3>1
    <3>2. CASE t # s
      BY <1>4, <2>4, <3>2 DEF LInv, WritersOK
    <3> QED
      BY <3>1, <3>2
  <2> QED
    BY <1>1, <2>2, <2>3, <2>4 DEF WritersOK
<1>12. StampsOK'
  <2>1. \A w : Spent(w)' <=> Spent(w)
    BY <1>1 DEF Spent
  <2> QED
    BY <1>1, <2>1 DEF LInv, StampsOK
<1>13. ReadingOK'
  <2>1. ASSUME NEW t \in Servers, pc'[t] \in {"patch", "verify"}
        PROVE  /\ t # s /\ pc[t] = pc'[t] /\ Cur(t)' = Cur(t) /\ Args(t)' = Args(t)
               /\ Rad(t)' = Rad(t) /\ Target(t)' = Target(t)
    <3>1. t # s
      BY <1>6, <2>1
    <3>2. pc[t] = pc'[t] /\ Cur(t)' = Cur(t) /\ pc[t] # "idle"
      BY <1>4, <2>1, <3>1
    <3>3. Args(t)' = Args(t)
      BY <1>2, <1>8, <3>1, <3>2 DEF Args
    <3> QED
      BY <3>1, <3>2, <3>3 DEF Rad, Target
  <2>2. \A m \in inflight : m.id \in CallId /\ call'[m.id] = call[m.id]
    BY <1>2, <1>3 DEF LInv, IInv, TypeOK, Message
  <2> QED
    BY <1>1, <2>1, <2>2 DEF LInv, ReadingOK
<1> QED
  BY <1>10, <1>11, <1>12, <1>13 DEF LInv

-----------------------------------------------------------------------------
\* A step that changes nothing.
LEMMA StutterKeeps ==
  ASSUME LInv, UNCHANGED vars
  PROVE  LInv'
<1>1. IInv'
  BY StutterPreserves DEF LInv
<1>2. /\ UNCHANGED <<pc, n, out, before, basis, radio, writer, inflight, adm, applies,
                     journal, call, answer, lost>>
      /\ \A t \in Servers : /\ Cur(t)' = Cur(t) /\ Args(t)' = Args(t)
                            /\ Rad(t)' = Rad(t) /\ Target(t)' = Target(t)
  BY DEF vars, Cur, Args, Rad, Target
<1>3. Elsewhere
  BY <1>2 DEF Elsewhere
<1> QED
  BY <1>1, <1>3, ElsewhereKeeps

\* Every step keeps the invariant: one case for each shape of step.
LEMMA NextKeeps ==
  ASSUME LInv, [Next]_vars
  PROVE  LInv'
<1>1. IInv
  BY DEF LInv
<1>2. ASSUME NEW s \in Servers, Server(s) PROVE LInv'
  <2>1. ASSUME NEW a \in Call, NEW explicit \in BOOLEAN, Begin(s, a, explicit) \/ RejectMac(s, a)
        PROVE  LInv'
    BY <1>1, <2>1, BeginPreserves, BeginKeeps
  <2>2. CASE \/ Setup(s) \/ Retry(s) \/ RequestFails(s)
             \/ NextPage(s) \/ ResolveSite(s) \/ Find(s)
             \/ Read(s) \/ PatchDiscarded(s) \/ Verify(s)
    BY <1>1, <2>2, AskPreserves, ProgressShape, ProgressKeeps
  <2>3. CASE PatchCarriedOut(s)
    BY <1>1, <2>3, PatchPreserves, CarriedKeeps
  <2>4. CASE PatchUnanswered(s)
    BY <1>1, <2>4, GiveUpPreserves, GivenUpKeeps
  <2>5. CASE Journal(s)
    BY <1>1, <2>5, JournalPreserves, JournaledKeeps
  <2>6. CASE Return(s) \/ Crash(s)
    <3>1. IInv'
      BY <1>1, <2>6, EndPreserves
    <3>2. PICK told : Ended(s, told)
      BY <2>6, EndShape
    <3> QED
      BY <3>1, <3>2, EndKeeps
  <2>7. CASE SessionExpires(s)
    BY <1>1, <2>7, EnvironmentPreserves, ElsewhereShape, ElsewhereKeeps
  <2> QED
    BY <1>2, <2>1, <2>2, <2>3, <2>4, <2>5, <2>6, <2>7 DEF Server, Step, Ask
<1>3. CASE Environment
  <2>1. IInv'
    BY <1>1, <1>3, ArrivalPreserves, EnvironmentPreserves DEF Environment
  <2>2. Elsewhere
    BY <1>3, ElsewhereShape
  <2> QED
    BY <2>1, <2>2, ElsewhereKeeps
<1>4. CASE UNCHANGED vars
  BY <1>4, StutterKeeps
<1> QED
  BY <1>2, <1>3, <1>4 DEF Next

\* The strengthened invariant: the ledger of what was asked, sent, done and
\* recorded.
THEOREM LedgerInvariance == Spec => []LInv
<1>1. LInv /\ [Next]_vars => LInv'
  BY NextKeeps
<1> QED
  BY <1>1, InitLInv, PTL DEF Spec

\* A radio is changed, now or later, only by a confirmed call of a server that is
\* allowed to write, and never by one whose caller was shown a preview.
THEOREM OnlyConfirmedWrite == Spec => []OnlyConfirmedCallsWrite
<1>1. LInv => OnlyConfirmedCallsWrite
  BY DEF LInv, WritersOK, MayWrite, Permitted, OnlyConfirmedCallsWrite
<1> QED
  BY <1>1, LedgerInvariance, PTL

\* The journal has one event for every call that entered the guard and ended, and
\* it says what the caller was told, unless it could not be written.
THEOREM JournalIsExact == Spec => []JournalExactlyOnce
<1>1. LInv => JournalExactlyOnce
  BY DEF LInv, RecordOK
<1> QED
  BY <1>1, LedgerInvariance, PTL

\* A write whose call has been answered is in the journal as applied, rejected or
\* an error, unless the event could not be written.
THEOREM EffectsAreInTheJournal == Spec => []EffectsAreAccounted
<1>1. ASSUME LInv, NEW id \in CallId, applies[id] > 0, answer[id] \in Outcome, id \notin lost
      PROVE  journal[id] \in { <<o>> : o \in {"applied", "rejected", "error"} }
  <2>1. call[id].mac \in Macs /\ answer[id] # "preview"
    BY <1>1, WriteAssumption DEF LInv, WritersOK, MayWrite
  <2>2. journal[id] = <<answer[id]>>
    BY <1>1, <2>1 DEF LInv, RecordOK, JournalExactlyOnce
  <2> QED
    BY <1>1, <2>1, <2>2 DEF Outcome
<1>2. LInv => EffectsAreAccounted
  BY <1>1 DEF EffectsAreAccounted
<1> QED
  BY <1>2, LedgerInvariance, PTL

\* While nobody has written the radio since a call read it, what the call is about
\* to send, or has in flight, is the radio's setting with another frequency.
THEOREM ResendsCurrentSetting == Spec => []ResendIsCurrent
<1>1. LInv => ResendIsCurrent
  BY PatchFits DEF LInv, ReadingOK, ResendIsCurrent
<1> QED
  BY <1>1, LedgerInvariance, PTL
=============================================================================
