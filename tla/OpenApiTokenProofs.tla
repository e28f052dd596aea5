-------------------------- MODULE OpenApiTokenProofs --------------------------
(***************************************************************************)
(* The safety of the token cache, for every margin, lifetime and latency.  *)
(***************************************************************************)
EXTENDS OpenApiToken, TLAPS

USE TimeAssumption

\* A request that has just left.
LEMMA NoTimeYet == 0 \in 0..Patience
  OBVIOUS

\* No tick takes more than one.
LEMMA DownByOne ==
  ASSUME NEW n \in Nat
  PROVE  Down(n) \in Nat /\ Down(n) <= n /\ Down(n) + 1 >= n /\ (Down(n) > 0 => n > 0)
  BY DEF Down

\* What a step leaves of the typing, one lemma for all of them.
LEMMA TypeStep == TypeOK /\ [Next]_vars => TypeOK'
<1> SUFFICES ASSUME TypeOK, [Next]_vars PROVE TypeOK'
  OBVIOUS
<1> USE DEF TypeOK
<1>1. CASE Start
  <2>1. lag' \in 0..Patience /\ travel' \in 0..Patience
    BY <1>1, NoTimeYet DEF Start, token
  <2>2. lapses' \in 0..2
    BY <1>1 DEF Start
  <2> QED BY <1>1, <2>1, <2>2 DEF Start, token
<1>2. ASSUME NEW lifetime \in Lifetimes, NEW stated \in BOOLEAN, Issue(lifetime, stated)
      PROVE  TypeOK'
  BY <1>2 DEF Issue
<1>3. CASE Receive
  BY <1>3 DEF Receive
<1>4. CASE Succeed \/ RefuseAgain \/ Break
  BY <1>4 DEF Succeed, RefuseAgain, Break, Finish, token
<1>5. CASE Refuse
  BY <1>5 DEF Refuse
<1>6. CASE Tick
  BY <1>6, DownByOne DEF Tick, Ends, Lapse
<1>7. ASSUME NEW n \in 0..life, Shorten(n) PROVE TypeOK'
  BY <1>7 DEF Shorten, Ends, Lapse
<1>8. CASE Restart
  <2>1. lag' \in 0..Patience /\ travel' \in 0..Patience
    BY <1>8 DEF Restart
  <2>2. lapses' \in 0..2
    BY <1>8 DEF Restart
  <2> QED BY <1>8, <2>1, <2>2 DEF Restart
<1>9. CASE UNCHANGED vars
  BY <1>9 DEF vars, token
<1> QED BY <1>1, <1>2, <1>3, <1>4, <1>5, <1>6, <1>7, <1>8, <1>9 DEF Next, RequestStep

\* The two clocks: how far the client's runs ahead of the controller's.
LEMMA ClocksStep ==
  ASSUME TypeOK, TypeOK', Clocks, Coming, Checked, [Next]_vars
  PROVE  Clocks' /\ Coming' /\ Checked'
<1> USE DEF Clocks, Coming, Checked, Fresh
<1>1. CASE Start
  BY <1>1 DEF Start, token, TypeOK
<1>2. ASSUME NEW lifetime \in Lifetimes, NEW stated \in BOOLEAN, Issue(lifetime, stated)
      PROVE  Clocks' /\ Coming' /\ Checked'
  <2>1. /\ pc = "ask" /\ pc' = "answer" /\ life' = lifetime /\ lag' = 0
        /\ UNCHANGED <<held, left>>
    BY <1>2 DEF Issue
  <2>2. ~cut' => ~(said' > lifetime)
    BY <1>2, Zenon DEF Issue
  <2>3. ~cut' => said' <= life'
    BY <2>1, <2>2 DEF TypeOK
  <2> QED BY <2>1, <2>3 DEF TypeOK
<1>3. CASE Receive
  BY <1>3 DEF Receive, TypeOK
<1>4. CASE Succeed \/ RefuseAgain \/ Break
  BY <1>4 DEF Succeed, RefuseAgain, Break, Finish, token, TypeOK
<1>5. CASE Refuse
  BY <1>5 DEF Refuse, TypeOK
<1>6. CASE Tick
  <2>1. /\ left' \in Nat /\ left' <= left /\ left' + 1 >= left
        /\ life' \in Nat /\ life' <= life /\ life' + 1 >= life
        /\ left > 0 => left' = left - 1
    BY <1>6, DownByOne DEF Tick, Down, TypeOK
  <2>2. UNCHANGED <<pc, held, said, cut>>
    BY <1>6 DEF Tick
  <2>3. Clocks'
    BY <1>6, <2>1, <2>2 DEF Tick, TypeOK
  <2>4. Coming'
    BY <1>6, <2>1, <2>2 DEF Tick, TypeOK
  <2>5. Checked'
    BY <1>6, <2>1, <2>2 DEF Tick, TypeOK
  <2> QED BY <2>3, <2>4, <2>5
<1>7. ASSUME NEW n \in 0..life, Shorten(n) PROVE Clocks' /\ Coming' /\ Checked'
  BY <1>7 DEF Shorten, TypeOK
<1>8. CASE Restart
  BY <1>8 DEF Restart, TypeOK
<1>9. CASE UNCHANGED vars
  BY <1>9 DEF vars, token
<1> QED BY <1>1, <1>2, <1>3, <1>4, <1>5, <1>6, <1>7, <1>8, <1>9 DEF Next, RequestStep

\* The price of an attempt.
LEMMA PaidStep ==
  ASSUME TypeOK, Paid, OneLapseIsAbsorbed, [Next]_vars
  PROVE  Paid' /\ OneLapseIsAbsorbed'
<1> USE DEF Paid, OneLapseIsAbsorbed
<1>1. CASE Start
  BY <1>1 DEF Start, TypeOK, token
<1>2. ASSUME NEW lifetime \in Lifetimes, NEW stated \in BOOLEAN, Issue(lifetime, stated)
      PROVE  Paid' /\ OneLapseIsAbsorbed'
  BY <1>2 DEF Issue, TypeOK
<1>3. CASE Receive
  BY <1>3 DEF Receive, TypeOK
<1>4. CASE Succeed \/ RefuseAgain \/ Break
  BY <1>4 DEF Succeed, RefuseAgain, Break, Finish, token, TypeOK
<1>5. CASE Refuse
  <2>1. /\ pc = "get" /\ pc' = "ask" /\ att = 1 /\ att' = 2
        /\ UNCHANGED <<life, last, lapses>>
    BY <1>5 DEF Refuse
  <2>2. ~fault' => ~(fault \/ life > 0)
    BY <1>5, Zenon DEF Refuse
  <2> QED BY <2>1, <2>2 DEF TypeOK
<1>6. CASE Tick
  BY <1>6, DownByOne DEF Tick, Ends, Lapse, TypeOK
<1>7. ASSUME NEW n \in 0..life, Shorten(n) PROVE Paid' /\ OneLapseIsAbsorbed'
  BY <1>7 DEF Shorten, Ends, Lapse, TypeOK
<1>8. CASE Restart
  BY <1>8 DEF Restart, TypeOK
<1>9. CASE UNCHANGED vars
  BY <1>9 DEF vars, token
<1> QED BY <1>1, <1>2, <1>3, <1>4, <1>5, <1>6, <1>7, <1>8, <1>9 DEF Next, RequestStep

\* The invariant holds of every behaviour.
THEOREM Invariance == Spec => []IInv
<1>1. Init => IInv
  <2> SUFFICES ASSUME Init PROVE IInv
    OBVIOUS
  <2>1. TypeOK
    <3>1. lag \in 0..Patience /\ travel \in 0..Patience
      BY NoTimeYet DEF Init
    <3>2. left \in Nat /\ life \in Nat /\ said \in Nat /\ lapses \in 0..2
      BY DEF Init
    <3> QED BY <3>1, <3>2 DEF Init, TypeOK
  <2>2. Clocks /\ Coming /\ Checked /\ Paid /\ OneLapseIsAbsorbed
    BY DEF Init, Clocks, Coming, Checked, Fresh, Paid, OneLapseIsAbsorbed
  <2> QED BY <2>1, <2>2 DEF IInv
<1>2. IInv /\ [Next]_vars => IInv'
  BY TypeStep, ClocksStep, PaidStep DEF IInv
<1> QED BY <1>1, <1>2, PTL DEF Spec

\* Types, for any lifetimes, margin and latency.
THEOREM TypeCorrect == Spec => []TypeOK
<1>1. IInv => TypeOK
  BY DEF IInv
<1> QED BY <1>1, Invariance, PTL

\* TOKEN_REFRESH_MARGIN_SECONDS pays for latency second by second: whatever the
\* lifetimes, a request whose token answer and own way fit in the margin meets a
\* live token (client.py:296, 322-323).
THEOREM MarginSuffices == Spec => []MarginCoversTravel
<1>1. IInv => MarginCoversTravel
  BY DEF IInv, TypeOK, Clocks, Checked, MarginCoversTravel
<1> QED BY <1>1, Invariance, PTL

\* The retry of client.py:334-338 makes up for one ended token.
THEOREM LapseIsAbsorbed == Spec => []OneLapseIsAbsorbed
<1>1. IInv => OneLapseIsAbsorbed
  BY DEF IInv
<1> QED BY <1>1, Invariance, PTL
-----------------------------------------------------------------------------
\* The request contract

\* What the contract sees, unchanged.
Still ==
  pc' = pc /\ att' = att /\ last' = last /\ lapses' = lapses /\ fault' = fault

LEMMA StillContract == ASSUME Still PROVE UNCHANGED Contract!vars
  BY Zenon DEF Still, Contract!vars

\* A lapse of the request in hand is the contract's; its third one is not seen.
LEMMA LapseContract ==
  ASSUME TypeOK, pc' = pc, att' = att, last' = last, fault' = fault,
         NEW before, NEW after, Ends(before, after)
  PROVE  Contract!Next \/ UNCHANGED Contract!vars
<1>1. CASE lapses' = lapses
  BY <1>1, StillContract DEF Still
<1>2. CASE lapses' # lapses
  <2>1. pc # "idle" /\ lapses < 2 /\ lapses' = lapses + 1
    BY <1>2 DEF Ends, Lapse, TypeOK
  <2>2. Contract!Lapse
    BY <2>1 DEF Contract!Lapse
  <2> QED BY <2>2 DEF Contract!Next
<1> QED BY <1>1, <1>2

LEMMA ContractStep ==
  ASSUME IInv, Next
  PROVE  Contract!Next \/ UNCHANGED Contract!vars
<1> USE DEF IInv, TypeOK
<1>1. CASE Start
  <2>1. /\ pc = "idle" /\ pc' # "idle" /\ ~(att' = 2) /\ last' = "none"
        /\ lapses' \in {0, 1} /\ ~fault'
    BY <1>1 DEF Start
  <2>2. Contract!Open
    BY <2>1 DEF Contract!Open
  <2> QED BY <2>2 DEF Contract!Next
<1>2. ASSUME NEW lifetime \in Lifetimes, NEW stated \in BOOLEAN, Issue(lifetime, stated)
      PROVE  Contract!Next \/ UNCHANGED Contract!vars
  <2>1. /\ (pc' # "idle") = (pc # "idle") /\ att' = att
        /\ last' = last /\ lapses' = lapses /\ fault' = fault
    BY <1>2 DEF Issue
  <2> QED BY <2>1, Zenon DEF Contract!vars
<1>3. CASE Receive
  <2>1. /\ (pc' # "idle") = (pc # "idle") /\ att' = att
        /\ last' = last /\ lapses' = lapses /\ fault' = fault
    BY <1>3 DEF Receive
  <2> QED BY <2>1, Zenon DEF Contract!vars
<1>4. CASE Succeed
  <2>1. /\ pc # "idle" /\ pc' = "idle" /\ last' = "ok"
        /\ lapses' = lapses /\ fault' = fault
    BY <1>4 DEF Succeed, Finish
  <2>2. Contract!Succeed
    BY <2>1 DEF Contract!Succeed
  <2> QED BY <2>2 DEF Contract!Next
<1>5. CASE Refuse
  <2>1. /\ pc # "idle" /\ pc' # "idle" /\ ~(att = 2) /\ att' = 2
        /\ last' = last /\ lapses' = lapses
    BY <1>5 DEF Refuse
  <2>2. (pc' # "idle") = (pc # "idle") /\ (pc' # "idle" /\ att' = 2) = TRUE
    BY <2>1, Zenon
  <2>3. fault' \in {fault, TRUE} /\ (fault' \/ lapses >= 1)
    <3>1. CASE fault \/ life > 0
      <4>1. fault' = TRUE
        BY <1>5, <3>1 DEF Refuse
      <4> QED BY <4>1
    <3>2. CASE ~(fault \/ life > 0)
      <4>1. fault' = fault
        BY <1>5, <3>2 DEF Refuse
      <4>2. lapses >= 1
        BY <1>5, <3>2 DEF Refuse, Paid
      <4> QED BY <4>1, <4>2
    <3> QED BY <3>1, <3>2
  <2>4. Contract!Repeat
    BY <2>1, <2>2, <2>3, Zenon DEF Contract!Repeat
  <2> QED BY <2>4 DEF Contract!Next
<1>6. CASE RefuseAgain
  <2>1. /\ pc # "idle" /\ att = 2 /\ pc' = "idle" /\ last' = "error"
        /\ lapses' = lapses /\ fault' = fault /\ (fault \/ lapses = 2)
    BY <1>6 DEF RefuseAgain, Finish, Paid
  <2>2. Contract!Fail
    BY <2>1 DEF Contract!Fail
  <2> QED BY <2>2 DEF Contract!Next
<1>7. CASE Break
  <2>1. pc # "idle" /\ pc' = "idle" /\ last' = "error" /\ lapses' = lapses /\ fault'
    BY <1>7 DEF Break, Finish
  <2>2. Contract!Fail
    BY <2>1 DEF Contract!Fail
  <2> QED BY <2>2 DEF Contract!Next
<1>8. CASE Tick
  BY <1>8, LapseContract DEF Tick
<1>9. ASSUME NEW n \in 0..life, Shorten(n) PROVE Contract!Next \/ UNCHANGED Contract!vars
  BY <1>9, LapseContract DEF Shorten
<1>10. CASE Restart
  <2>1. pc' = "idle" /\ last' = "none" /\ lapses' = 0 /\ ~fault'
    BY <1>10 DEF Restart
  <2>2. Contract!Abandon
    BY <2>1 DEF Contract!Abandon
  <2> QED BY <2>2 DEF Contract!Next
<1> QED
  BY <1>1, <1>2, <1>3, <1>4, <1>5, <1>6, <1>7, <1>8, <1>9, <1>10 DEF Next, RequestStep

\* The Open API's requests implement the request contract, for every margin,
\* lifetime and latency (client.py:325-341).
THEOREM ContractKept == Spec => KeepsContract
<1>1. Init => Contract!Init
  <2>1. ASSUME Init
        PROVE  (pc # "idle") = FALSE /\ (pc # "idle" /\ att = 2) = FALSE
    BY <2>1, Zenon DEF Init
  <2> QED BY <2>1 DEF Init, Contract!Init
<1>2. IInv /\ [Next]_vars => [Contract!Next]_(Contract!vars)
  <2>1. ASSUME IInv, UNCHANGED vars PROVE UNCHANGED Contract!vars
    <3>1. Still
      BY <2>1 DEF vars, Still
    <3> QED BY <3>1, StillContract
  <2> QED BY <2>1, ContractStep
<1> QED BY <1>1, <1>2, Invariance, PTL DEF Spec, KeepsContract, Contract!Spec
=============================================================================
