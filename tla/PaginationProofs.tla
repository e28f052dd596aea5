--------------------------- MODULE PaginationProofs ---------------------------
(***************************************************************************)
(* The safety of the page loops, for lists, page sizes and caps of any     *)
(* size.                                                                   *)
(***************************************************************************)
EXTENDS Pagination, SequenceTheorems, FiniteSetTheorems, TLAPS

-----------------------------------------------------------------------------
\* What the helpers on sequences return.

\* The members of a sequence are what it has at its indices.
LEMMA Members ==
  ASSUME NEW S, NEW s \in Seq(S)
  PROVE  /\ ToSet(s) \subseteq S
         /\ \A x : x \in ToSet(s) <=> \E i \in 1..Len(s) : s[i] = x
  BY DEF ToSet

LEMMA NoMembers == ToSet(<<>>) = {}
  BY DEF ToSet

\* A row put at position i leaves the rows before it where they are and moves
\* the others on by one.
LEMMA Inserted ==
  ASSUME NEW S, NEW s \in Seq(S), NEW r \in S, NEW i \in 1..Len(s) + 1
  PROVE  /\ InsertAt(s, i, r) \in Seq(S)
         /\ Len(InsertAt(s, i, r)) = Len(s) + 1
         /\ \A j \in 1..Len(s) + 1 :
              InsertAt(s, i, r)[j] = IF j < i THEN s[j] ELSE IF j = i THEN r ELSE s[j - 1]
<1> DEFINE front == SubSeq(s, 1, i - 1)
           back == SubSeq(s, i, Len(s))
<1>1. /\ front \in Seq(S) /\ Len(front) = i - 1
      /\ \A j \in 1..i - 1 : front[j] = s[j]
  OBVIOUS
<1>2. /\ back \in Seq(S) /\ Len(back) = Len(s) - i + 1
      /\ \A j \in 1..Len(s) - i + 1 : back[j] = s[j + i - 1]
  OBVIOUS
<1>3. InsertAt(s, i, r) = (front \o <<r>>) \o back
  BY DEF InsertAt
<1> HIDE DEF front, back
<1>4. /\ front \o <<r>> \in Seq(S) /\ Len(front \o <<r>>) = i
      /\ \A j \in 1..i : (front \o <<r>>)[j] = IF j < i THEN s[j] ELSE r
  BY <1>1
<1>5. /\ InsertAt(s, i, r) \in Seq(S) /\ Len(InsertAt(s, i, r)) = Len(s) + 1
  <2>1. /\ (front \o <<r>>) \o back \in Seq(S)
        /\ Len((front \o <<r>>) \o back) = Len(front \o <<r>>) + Len(back)
    BY <1>2, <1>4, ConcatProperties
  <2>2. i + (Len(s) - i + 1) = Len(s) + 1
    OBVIOUS
  <2> QED BY <2>1, <2>2, <1>2, <1>3, <1>4
<1>6. ASSUME NEW j \in 1..Len(s) + 1
      PROVE  InsertAt(s, i, r)[j] = IF j < i THEN s[j] ELSE IF j = i THEN r ELSE s[j - 1]
  <2>1. CASE j <= i
    BY <1>2, <1>3, <1>4, <2>1, ConcatProperties
  <2>2. CASE j > i
    <3>1. j - i \in 1..Len(s) - i + 1 /\ (j - i) + i - 1 = j - 1
      BY <2>2
    <3>2. back[j - i] = s[j - 1]
      BY <1>2, <3>1
    <3> QED BY <1>2, <1>3, <1>4, <2>2, <3>2, ConcatProperties
  <2> QED BY <2>1, <2>2
<1> QED BY <1>5, <1>6

\* A row taken from position i moves the rows after it back by one.
LEMMA Removed ==
  ASSUME NEW S, NEW s \in Seq(S), NEW i \in 1..Len(s)
  PROVE  /\ RemoveAt(s, i) \in Seq(S)
         /\ Len(RemoveAt(s, i)) = Len(s) - 1
         /\ \A j \in 1..Len(s) - 1 :
              RemoveAt(s, i)[j] = IF j < i THEN s[j] ELSE s[j + 1]
<1> DEFINE front == SubSeq(s, 1, i - 1)
           back == SubSeq(s, i + 1, Len(s))
<1>1. /\ front \in Seq(S) /\ Len(front) = i - 1
      /\ \A j \in 1..i - 1 : front[j] = s[j]
  OBVIOUS
<1>2. /\ back \in Seq(S) /\ Len(back) = Len(s) - i
      /\ \A j \in 1..Len(s) - i : back[j] = s[j + i]
  OBVIOUS
<1>3. RemoveAt(s, i) = front \o back
  BY DEF RemoveAt
<1> HIDE DEF front, back
<1>4. RemoveAt(s, i) \in Seq(S) /\ Len(RemoveAt(s, i)) = Len(s) - 1
  BY <1>1, <1>2, <1>3
<1>5. ASSUME NEW j \in 1..Len(s) - 1
      PROVE  RemoveAt(s, i)[j] = IF j < i THEN s[j] ELSE s[j + 1]
  <2>1. CASE j < i
    BY <1>1, <1>2, <1>3, <2>1, ConcatProperties
  <2>2. CASE j >= i
    <3>1. j - i + 1 \in 1..Len(s) - i /\ (j - i + 1) + i = j + 1
      BY <2>2
    <3>2. back[j - i + 1] = s[j + 1]
      BY <1>2, <3>1
    <3> QED BY <1>1, <1>2, <1>3, <2>2, <3>2, ConcatProperties
  <2> QED BY <2>1, <2>2
<1> QED BY <1>4, <1>5

\* The rows of a page, and their positions in the list.
LEMMA PageRows ==
  ASSUME NEW p \in Nat \ {0}, list \in Seq(Rows)
  PROVE  /\ Data(p) \in Seq(Rows)
         /\ Len(Data(p)) =
              IF p * PageSize <= Len(list) THEN PageSize
              ELSE IF (p - 1) * PageSize <= Len(list) THEN Len(list) - (p - 1) * PageSize
              ELSE 0
         /\ \A j \in 1..Len(Data(p)) : Data(p)[j] = list[(p - 1) * PageSize + j]
<1> DEFINE b == (p - 1) * PageSize
           e == p * PageSize
           last == IF e < Len(list) THEN e ELSE Len(list)
<1>1. b \in Nat /\ e \in Nat /\ e = b + PageSize /\ PageSize \in Nat \ {0}
  BY SizeAssumption
<1>2. Data(p) = SubSeq(list, b + 1, last)
  BY DEF Data
<1> HIDE DEF b, e
<1>3. Len(list) \in Nat /\ last \in Nat /\ last <= Len(list)
  BY <1>1
<1>4. /\ SubSeq(list, b + 1, last) \in Seq(Rows)
      /\ Len(SubSeq(list, b + 1, last)) = IF b + 1 <= last THEN last - b ELSE 0
      /\ \A j \in 1..Len(SubSeq(list, b + 1, last)) : SubSeq(list, b + 1, last)[j] = list[b + j]
  BY <1>1, <1>3
<1>5. Len(Data(p)) = IF e <= Len(list) THEN PageSize
                     ELSE IF b <= Len(list) THEN Len(list) - b ELSE 0
  BY <1>1, <1>2, <1>3, <1>4
<1> QED BY <1>2, <1>4, <1>5 DEF b, e

-----------------------------------------------------------------------------
\* Where every kind of step leaves the invariant.

LEMMA InitEstablishes == Init => IInv
<1> SUFFICES ASSUME Init PROVE IInv
  OBVIOUS
<1>1. TypeOK
  <2>1. 1 \in 1..MaxPages + 1 /\ <<>> \in Seq(Rows)
    BY SizeAssumption
  <2>2. 0 \in 0..MaxRows
    BY SizeAssumption DEF MaxRows
  <2> QED BY <2>1, <2>2 DEF Init, TypeOK
<1>2. Listed
  BY DEF Init, Listed
<1>3. Counted /\ Behind /\ NoListedRowIsMissed
  BY DEF Init, Counted, Behind, NoListedRowIsMissed, Ended
<1> QED BY <1>1, <1>2, <1>3 DEF IInv

LEMMA StartPreserves ==
  ASSUME IInv, NEW m \in Rows \cup {NoRow}, Start(m)
  PROVE  IInv'
<1>1. ToSet(list) \in SUBSET Rows
  BY Members DEF IInv, TypeOK
<1>2. TypeOK'
  <2>1. 1 \in 1..MaxPages + 1 /\ 1 <= MaxPages /\ <<>> \in Seq(Rows)
    BY SizeAssumption
  <2>2. 0 \in 0..MaxRows
    BY SizeAssumption DEF MaxRows
  <2> QED BY <1>1, <2>1, <2>2 DEF IInv, TypeOK, Start
<1>3. Counted'
  BY SizeAssumption DEF IInv, TypeOK, Start, Counted
<1>4. Behind'
  BY SizeAssumption DEF IInv, TypeOK, Start, Behind
<1>5. Listed' /\ NoListedRowIsMissed'
  BY DEF Start, Listed, NoListedRowIsMissed, Ended
<1> QED BY <1>2, <1>3, <1>4, <1>5 DEF IInv

\* The step at the heart of the argument: once the page is in, every kept row up
\* to its end has been returned, and a break is taken only when that is all.
LEMMA PagePreserves ==
  ASSUME IInv, NEW counted \in BOOLEAN, NextPage(counted)
  PROVE  IInv'
<1> DEFINE rows == got \o Data(page)
           b == (page - 1) * PageSize
           e == page * PageSize
<1>1. /\ page \in Nat \ {0} /\ page <= MaxPages /\ MaxPages \in Nat /\ PageSize \in Nat \ {0}
      /\ list \in Seq(Rows) /\ got \in Seq(Rows) /\ pc = "reading" /\ Len(got) = b
  BY SizeAssumption DEF IInv, TypeOK, Counted, NextPage
<1>2. b \in Nat /\ e \in Nat /\ e = b + PageSize /\ (page + 1 - 1) * PageSize = e
  BY <1>1
<1>3. /\ Data(page) \in Seq(Rows)
      /\ Len(Data(page)) = IF e <= Len(list) THEN PageSize
                           ELSE IF b <= Len(list) THEN Len(list) - b ELSE 0
      /\ \A j \in 1..Len(Data(page)) : Data(page)[j] = list[b + j]
  BY <1>1, PageRows
<1>4. /\ got' = rows /\ UNCHANGED <<list, legacy, want, history>>
      /\ \/ Complete(rows, counted) /\ pc' = Outcome(rows) /\ page' = page
         \/ /\ ~Complete(rows, counted) /\ page' = page + 1
            /\ pc' = IF page + 1 <= MaxPages THEN "reading" ELSE Outcome(rows)
  BY DEF NextPage, MayAsk
<1> HIDE DEF b, e
<1>5. /\ rows \in Seq(Rows) /\ Len(rows) = b + Len(Data(page))
      /\ \A j \in 1..b : rows[j] = got[j]
      /\ \A j \in 1..Len(Data(page)) : rows[b + j] = list[b + j]
  <2>1. /\ rows \in Seq(Rows) /\ Len(rows) = Len(got) + Len(Data(page))
        /\ \A j \in 1..Len(got) + Len(Data(page)) :
             rows[j] = IF j <= Len(got) THEN got[j] ELSE Data(page)[j - Len(got)]
    BY <1>1, <1>3, ConcatProperties
  <2>2. ASSUME NEW j \in 1..Len(Data(page)) PROVE rows[b + j] = list[b + j]
    <3>1. b + j \in 1..Len(got) + Len(Data(page)) /\ b + j > Len(got) /\ (b + j) - Len(got) = j
      BY <1>1, <1>2, <1>3
    <3> QED BY <2>1, <3>1, <1>3
  <2> QED BY <2>1, <2>2, <1>1, <1>2, <1>3
<1> HIDE DEF rows
<1>6. Outcome(rows) \in {"done", "notfound"}
  BY DEF Outcome
<1>7. TypeOK'
  BY <1>1, <1>4, <1>5, <1>6 DEF IInv, TypeOK, history
<1>8. ~Complete(rows, counted) => Len(rows) = e
  BY <1>1, <1>2, <1>3, <1>5 DEF Complete
<1>9. Counted'
  BY <1>1, <1>2, <1>4, <1>6, <1>8 DEF Counted
<1>10. ToSet(rows) = ToSet(got) \cup {list[b + j] : j \in 1..Len(Data(page))}
  <2>1. ASSUME NEW j \in 1..Len(rows), j > b
        PROVE  j - b \in 1..Len(Data(page)) /\ b + (j - b) = j
    BY <1>2, <1>3, <1>5, <2>1
  <2>2. ASSUME NEW j \in 1..Len(rows)
        PROVE  rows[j] \in ToSet(got) \cup {list[b + k] : k \in 1..Len(Data(page))}
    <3>1. CASE j <= b
      BY <3>1, <1>1, <1>2, <1>5 DEF ToSet
    <3>2. CASE j > b
      BY <3>2, <2>1, <1>5
    <3> QED BY <3>1, <3>2, <1>2
  <2>3. ASSUME NEW j \in 1..Len(got) PROVE got[j] \in ToSet(rows)
    BY <1>1, <1>2, <1>3, <1>5, Members
  <2>4. ASSUME NEW j \in 1..Len(Data(page)) PROVE list[b + j] \in ToSet(rows)
    <3>1. b + j \in 1..Len(rows)
      BY <1>2, <1>3, <1>5
    <3> QED BY <3>1, <1>5, Members
  <2>5. \A x \in ToSet(rows) : x \in ToSet(got) \cup {list[b + k] : k \in 1..Len(Data(page))}
    BY <2>2, <1>5, Members
  <2>6. \A x \in ToSet(got) : x \in ToSet(rows)
    BY <2>3, <1>1, Members
  <2> QED BY <2>4, <2>5, <2>6
<1>11. ASSUME ~shrunk, NEW i \in 1..Len(list), i <= e, list[i] \in kept
       PROVE  list[i] \in ToSet(rows)
  <2>1. CASE i <= b
    BY <1>1, <1>10, <1>11, <2>1 DEF IInv, Behind, b
  <2>2. CASE i > b
    <3>1. i - b \in 1..Len(Data(page)) /\ b + (i - b) = i
      BY <1>1, <1>2, <1>3, <1>11, <2>2
    <3> QED BY <3>1, <1>10
  <2> QED BY <2>1, <2>2, <1>2
<1>12. Behind'
  BY <1>1, <1>2, <1>4, <1>6, <1>11 DEF Behind, history
<1>13. Listed'
  BY <1>4 DEF IInv, Listed, history
<1>14. Complete(rows, counted) => Len(list) <= e
  BY <1>1, <1>2, <1>3, <1>5 DEF Complete
<1>15. NoListedRowIsMissed'
  <2>1. ASSUME Complete(rows, counted), ~shrunk, NEW r \in kept PROVE r \in ToSet(rows)
    <3>1. PICK i \in 1..Len(list) : list[i] = r
      BY <2>1, <1>1 DEF IInv, Listed, ToSet
    <3> QED BY <2>1, <3>1, <1>1, <1>2, <1>11, <1>14
  <2> QED BY <2>1, <1>1, <1>4 DEF NoListedRowIsMissed, Ended, Capped, history
<1> QED BY <1>7, <1>9, <1>12, <1>13, <1>15 DEF IInv

LEMMA FailPreserves == IInv /\ PageFails => IInv'
  BY DEF IInv, TypeOK, Listed, Counted, Behind, Ended, Capped, NoListedRowIsMissed,
     PageFails, history

\* An adopted row moves the rows after it on, to pages that are still to come.
LEMMA AdoptPreserves ==
  ASSUME IInv, NEW r \in Rows, NEW i \in 1..Len(list) + 1, Adopt(r, i)
  PROVE  IInv'
<1>1. list \in Seq(Rows) /\ list' = InsertAt(list, i, r) /\ r \notin ToSet(list)
  BY DEF IInv, TypeOK, Adopt
<1>2. /\ list' \in Seq(Rows) /\ Len(list') = Len(list) + 1
      /\ \A j \in 1..Len(list) + 1 :
           list'[j] = IF j < i THEN list[j] ELSE IF j = i THEN r ELSE list[j - 1]
  BY <1>1, Inserted
<1>3. TypeOK' /\ Counted' /\ NoListedRowIsMissed'
  <2>1. added' \in 0..MaxRows
    BY SizeAssumption DEF IInv, TypeOK, Adopt, MaxRows
  <2> QED
    BY <1>2, <2>1 DEF IInv, TypeOK, Counted, NoListedRowIsMissed, Ended, Capped, Adopt
<1>4. ToSet(list') = ToSet(list) \cup {r}
  <2>1. ASSUME NEW j \in 1..Len(list) PROVE list[j] \in ToSet(list')
    <3>1. CASE j < i
      BY <3>1, <1>1, <1>2, Members
    <3>2. CASE j >= i
      <4>1. j + 1 \in 1..Len(list) + 1 /\ list'[j + 1] = list[j]
        BY <3>2, <1>1, <1>2
      <4> QED BY <4>1, <1>2 DEF ToSet
    <3> QED BY <3>1, <3>2
  <2>2. r \in ToSet(list')
    BY <1>1, <1>2 DEF ToSet
  <2>3. ASSUME NEW j \in 1..Len(list') PROVE list'[j] \in ToSet(list) \cup {r}
    BY <1>1, <1>2 DEF ToSet
  <2> QED BY <2>1, <2>2, <2>3, <1>1, <1>2 DEF ToSet
<1>5. Listed'
  BY <1>4 DEF IInv, Listed, Adopt
<1>6. Behind'
  <2> SUFFICES ASSUME pc = "reading", ~shrunk, NEW j \in 1..Len(list'),
                      j <= (page - 1) * PageSize, list'[j] \in kept
               PROVE  list'[j] \in ToSet(got)
    BY DEF Behind, Adopt
  <2>1. (page - 1) * PageSize \in Nat
    BY SizeAssumption DEF IInv, TypeOK
  <2>2. CASE j < i
    BY <2>2, <1>1, <1>2, <2>1 DEF IInv, Behind
  <2>3. CASE j = i
    BY <2>3, <1>1, <1>2 DEF IInv, Listed
  <2>4. CASE j > i
    <3>1. j - 1 \in 1..Len(list) /\ j - 1 <= (page - 1) * PageSize /\ list'[j] = list[j - 1]
      BY <2>4, <1>1, <1>2, <2>1
    <3> QED BY <3>1 DEF IInv, Behind
  <2> QED BY <2>2, <2>3, <2>4, <1>2
<1> QED BY <1>3, <1>5, <1>6 DEF IInv

\* A removal moves rows back, past the reader: the invariant lets go of them.
LEMMA ForgetPreserves ==
  ASSUME IInv, NEW i \in 1..Len(list), Forget(i)
  PROVE  IInv'
<1>1. list \in Seq(Rows) /\ list' = RemoveAt(list, i)
  BY DEF IInv, TypeOK, Forget
<1>2. /\ list' \in Seq(Rows) /\ Len(list') = Len(list) - 1
      /\ \A j \in 1..Len(list) - 1 : list'[j] = IF j < i THEN list[j] ELSE list[j + 1]
  BY <1>1, Removed
<1>3. /\ TypeOK' /\ Counted' /\ Behind' /\ NoListedRowIsMissed'
  BY <1>2 DEF IInv, TypeOK, Counted, Behind, NoListedRowIsMissed, Ended, Capped, Forget
<1>4. ASSUME NEW j \in 1..Len(list), j # i PROVE list[j] \in ToSet(list')
  <2>1. CASE j < i
    BY <2>1, <1>1, <1>2 DEF ToSet
  <2>2. CASE j > i
    <3>1. j - 1 \in 1..Len(list) - 1 /\ list'[j - 1] = list[j]
      BY <2>2, <1>1, <1>2
    <3> QED BY <3>1, <1>2 DEF ToSet
  <2> QED BY <1>4, <2>1, <2>2
<1>5. kept' \subseteq ToSet(list')
  <2> SUFFICES ASSUME NEW r \in kept, r # list[i] PROVE r \in ToSet(list')
    BY DEF Forget
  <2>1. PICK j \in 1..Len(list) : list[j] = r
    BY <1>1 DEF IInv, Listed, ToSet
  <2> QED BY <2>1, <1>4
<1> QED BY <1>3, <1>5 DEF IInv, Listed

LEMMA StutterPreserves == IInv /\ UNCHANGED vars => IInv'
  BY DEF IInv, TypeOK, Listed, Counted, Behind, Ended, Capped, NoListedRowIsMissed,
     vars, history

-----------------------------------------------------------------------------
\* The invariant holds of every behaviour.
THEOREM Invariance == Spec => []IInv
<1>1. ASSUME IInv, [Next]_vars PROVE IInv'
  <2>1. ASSUME NEW m \in Rows \cup {NoRow}, Start(m) PROVE IInv'
    BY <1>1, <2>1, StartPreserves
  <2>2. CASE PageV2
    BY <1>1, <2>2, PagePreserves DEF PageV2
  <2>3. CASE PageOpenApi
    BY <1>1, <2>3, PagePreserves DEF PageOpenApi
  <2>4. CASE PageFails
    BY <1>1, <2>4, FailPreserves
  <2>5. ASSUME NEW r \in Rows, NEW i \in 1..Len(list) + 1, Adopt(r, i) PROVE IInv'
    BY <1>1, <2>5, AdoptPreserves
  <2>6. ASSUME NEW i \in 1..Len(list), Forget(i) PROVE IInv'
    BY <1>1, <2>6, ForgetPreserves
  <2>7. CASE UNCHANGED vars
    BY <1>1, <2>7, StutterPreserves
  <2> QED BY <1>1, <2>1, <2>2, <2>3, <2>4, <2>5, <2>6, <2>7 DEF Next
<1> QED BY <1>1, InitEstablishes, PTL DEF Spec

\* A page past the cap is never asked for (client.py:254, 348), whatever the list
\* does and whatever the controller says of its length.
THEOREM TypeCorrect == Spec => []TypeOK
<1>1. IInv => TypeOK
  BY DEF IInv
<1> QED BY <1>1, Invariance, PTL

\* A row that stays listed is found, whatever is added while the pages are read
\* and however long the list, as long as nothing is removed and the cap is not
\* met (client.py:251-264, 345-358).
THEOREM ListedRowsAreFound == Spec => []NoListedRowIsMissed
<1>1. IInv => NoListedRowIsMissed
  BY DEF IInv
<1> QED BY <1>1, Invariance, PTL

-----------------------------------------------------------------------------
\* The order of the rows, and how often each is returned.

\* A sequence is injective when no two of its indices hold the same row.
LEMMA Injective ==
  ASSUME NEW S, NEW s \in Seq(S)
  PROVE  IsInjective(s) <=> \A i, j \in 1..Len(s) : s[i] = s[j] => i = j
<1>1. DOMAIN s = 1..Len(s)
  OBVIOUS
<1> QED BY <1>1 DEF IsInjective

\* The rows of a sequence are finitely many, and as many as it is long when it
\* holds none twice.
LEMMA Counting ==
  ASSUME NEW S, NEW s \in Seq(S)
  PROVE  /\ IsFiniteSet(ToSet(s)) /\ Cardinality(ToSet(s)) \in Nat
         /\ Cardinality(ToSet(s)) <= Len(s)
         /\ IsInjective(s) => Cardinality(ToSet(s)) = Len(s)
<1>1. Len(s) \in Nat /\ DOMAIN s = 1..Len(s)
  OBVIOUS
<1>2. IsFiniteSet(1..Len(s)) /\ Cardinality(1..Len(s)) = Len(s)
  BY <1>1, FS_Interval
<1>3. s \in Surjection(1..Len(s), ToSet(s))
  BY <1>1 DEF Surjection, ToSet
<1>4. IsInjective(s) => s \in Injection(1..Len(s), ToSet(s))
  BY <1>1, <1>3 DEF Injection, Surjection
<1>5. /\ IsFiniteSet(ToSet(s)) /\ Cardinality(ToSet(s)) <= Cardinality(1..Len(s))
      /\ Cardinality(ToSet(s)) = Cardinality(1..Len(s)) <=> s \in Injection(1..Len(s), ToSet(s))
  BY <1>2, <1>3, FS_Surjection
<1> QED BY <1>2, <1>4, <1>5, FS_CardinalityType

\* The rows of two sequences put together.
LEMMA Joined ==
  ASSUME NEW S, NEW s \in Seq(S), NEW t \in Seq(S)
  PROVE  ToSet(s \o t) = ToSet(s) \cup ToSet(t)
<1>1. /\ s \o t \in Seq(S) /\ Len(s \o t) = Len(s) + Len(t) /\ Len(s) \in Nat /\ Len(t) \in Nat
      /\ \A j \in 1..Len(s) + Len(t) :
           (s \o t)[j] = IF j <= Len(s) THEN s[j] ELSE t[j - Len(s)]
  BY ConcatProperties
<1> DEFINE u == s \o t
<1> HIDE DEF u
<1>2. u \in Seq(S) /\ Len(u) = Len(s) + Len(t)
      /\ \A j \in 1..Len(s) + Len(t) : u[j] = IF j <= Len(s) THEN s[j] ELSE t[j - Len(s)]
  BY <1>1 DEF u
<1>3. ASSUME NEW j \in 1..Len(u) PROVE u[j] \in ToSet(s) \cup ToSet(t)
  <2>1. CASE j <= Len(s)
    BY <1>1, <1>2, <2>1, Members
  <2>2. CASE j > Len(s)
    <3>1. j - Len(s) \in 1..Len(t) /\ u[j] = t[j - Len(s)]
      BY <1>1, <1>2, <2>2
    <3> QED BY <3>1, Members
  <2> QED BY <1>1, <2>1, <2>2
<1>4. ASSUME NEW j \in 1..Len(s) PROVE s[j] \in ToSet(u)
  <2>1. j \in 1..Len(u) /\ u[j] = s[j]
    BY <1>1, <1>2
  <2> QED BY <1>2, <2>1, Members
<1>5. ASSUME NEW j \in 1..Len(t) PROVE t[j] \in ToSet(u)
  <2>1. Len(s) + j \in 1..Len(u) /\ u[Len(s) + j] = t[j]
    BY <1>1, <1>2
  <2> QED BY <1>2, <2>1, Members
<1>6. \A x \in ToSet(u) : x \in ToSet(s) \cup ToSet(t)
  BY <1>2, <1>3, Members
<1>7. \A x \in ToSet(s) : x \in ToSet(u)
  BY <1>4, Members
<1>8. \A x \in ToSet(t) : x \in ToSet(u)
  BY <1>5, Members
<1> QED BY <1>6, <1>7, <1>8 DEF u

\* What is due is part of what has been returned.
LEMMA DueIsFinite ==
  ASSUME got \in Seq(Rows), NEW k
  PROVE  /\ Repeats \in Nat /\ Repeats <= Len(got)
         /\ IsFiniteSet(Due(k)) /\ Cardinality(Due(k)) \in Nat
<1>1. IsFiniteSet(ToSet(got)) /\ Cardinality(ToSet(got)) \in Nat
      /\ Cardinality(ToSet(got)) <= Len(got) /\ Len(got) \in Nat
  BY Counting
<1>2. IsFiniteSet(Due(k))
  BY <1>1, FS_Subset DEF Due
<1> QED BY <1>1, <1>2, FS_CardinalityType DEF Repeats

LEMMA InitOrder == Init => OrderInv
<1> SUFFICES ASSUME Init PROVE OrderInv
  OBVIOUS
<1>1. IInv
  BY InitEstablishes
<1>2. Distinct
  BY DEF Init, Distinct, IsInjective
<1>3. Accounted /\ Beginning /\ StillListIsReturnedWhole
  BY DEF Init, Accounted, Beginning, StillListIsReturnedWhole, Ended
<1>4. RepeatsAreAdditions
  BY NoMembers, FS_EmptySet DEF Init, RepeatsAreAdditions, Repeats
<1> QED BY <1>1, <1>2, <1>3, <1>4 DEF OrderInv

LEMMA StartOrder ==
  ASSUME OrderInv, NEW m \in Rows \cup {NoRow}, Start(m)
  PROVE  OrderInv'
<1>1. IInv'
  BY StartPreserves DEF OrderInv
<1>2. Distinct'
  BY DEF OrderInv, Start, Distinct
<1>3. Accounted' /\ RepeatsAreAdditions'
  <2>1. got' = <<>> /\ added' = 0
    BY DEF Start
  <2>2. Repeats' = 0
    BY <2>1, NoMembers, FS_EmptySet DEF Repeats
  <2>3. Due((page - 1) * PageSize)' = {}
    BY <2>1, NoMembers DEF Due
  <2>4. Repeats' + Cardinality(Due((page - 1) * PageSize)') <= added'
    BY <2>1, <2>2, <2>3, FS_EmptySet
  <2>5. Repeats' <= added'
    BY <2>1, <2>2
  <2> QED BY <2>4, <2>5 DEF Accounted, RepeatsAreAdditions
<1>4. Beginning' /\ StillListIsReturnedWhole'
  <2>1. Len(<<>>) = 0 /\ Len(list) \in Nat
    BY DEF OrderInv, IInv, TypeOK
  <2> QED BY <2>1 DEF Start, Beginning, StillListIsReturnedWhole, Ended
<1> QED BY <1>1, <1>2, <1>3, <1>4 DEF OrderInv

\* A page joins rows that have been returned to rows that have not.
LEMMA PageOrder ==
  ASSUME OrderInv, NEW counted \in BOOLEAN, NextPage(counted)
  PROVE  OrderInv'
<1> DEFINE rows == got \o Data(page)
           b == (page - 1) * PageSize
           e == page * PageSize
<1>1. /\ page \in Nat \ {0} /\ page <= MaxPages /\ MaxPages \in Nat /\ PageSize \in Nat \ {0}
      /\ list \in Seq(Rows) /\ got \in Seq(Rows) /\ pc = "reading" /\ Len(got) = b
  BY SizeAssumption DEF OrderInv, IInv, TypeOK, Counted, NextPage
<1>2. b \in Nat /\ e \in Nat /\ e = b + PageSize /\ (page + 1 - 1) * PageSize = e
  BY <1>1
<1>3. /\ Data(page) \in Seq(Rows)
      /\ Len(Data(page)) = IF e <= Len(list) THEN PageSize
                           ELSE IF b <= Len(list) THEN Len(list) - b ELSE 0
      /\ \A j \in 1..Len(Data(page)) : Data(page)[j] = list[b + j]
  BY <1>1, PageRows
<1>4. /\ got' = rows /\ UNCHANGED <<list, legacy, want, history>>
      /\ \/ Complete(rows, counted) /\ pc' = Outcome(rows) /\ page' = page
         \/ /\ ~Complete(rows, counted) /\ page' = page + 1
            /\ pc' = IF page + 1 <= MaxPages THEN "reading" ELSE Outcome(rows)
  BY DEF NextPage, MayAsk
<1>5. page = MaxPages => e = MaxPages * PageSize
  OBVIOUS
<1> HIDE DEF b, e
<1>6. /\ rows \in Seq(Rows) /\ Len(rows) = b + Len(Data(page))
      /\ \A j \in 1..Len(rows) : rows[j] = IF j <= b THEN got[j] ELSE list[j]
  <2>1. /\ rows \in Seq(Rows) /\ Len(rows) = b + Len(Data(page))
        /\ \A j \in 1..b + Len(Data(page)) :
             rows[j] = IF j <= b THEN got[j] ELSE Data(page)[j - b]
    BY <1>1, <1>3, ConcatProperties
  <2> HIDE DEF rows
  <2>2. ASSUME NEW j \in 1..Len(rows), j > b PROVE rows[j] = list[j]
    <3>1. j - b \in 1..Len(Data(page)) /\ b + (j - b) = j /\ ~(j <= b)
      BY <1>1, <1>2, <1>3, <2>1, <2>2
    <3>2. rows[j] = Data(page)[j - b]
      BY <2>1, <3>1
    <3>3. Data(page)[j - b] = list[b + (j - b)]
      BY <1>3, <3>1
    <3> QED BY <3>1, <3>2, <3>3
  <2> QED BY <1>2, <2>1, <2>2
<1> HIDE DEF rows
<1>7. Outcome(rows) \in {"done", "notfound"}
  BY DEF Outcome
<1>8. Len(rows) <= Len(list) \/ Len(rows) = b
  BY <1>1, <1>2, <1>3, <1>6
<1>9. ~Complete(rows, counted) => Len(rows) = e /\ e <= Len(list)
  BY <1>1, <1>2, <1>3, <1>6 DEF Complete
<1>10. Complete(rows, counted) => Len(rows) >= Len(list)
  BY <1>1, <1>2, <1>3, <1>6 DEF Complete
<1>11. IInv' /\ Distinct'
  BY <1>4, PagePreserves DEF OrderInv, Distinct
<1>12. \A i, j \in 1..Len(list) : list[i] = list[j] => i = j
  BY <1>1, Injective DEF OrderInv, Distinct
<1>13. e <= MaxRows
  BY <1>1 DEF e, MaxRows
<1> DEFINE G == ToSet(got)
           D == ToSet(Data(page))
           due == Due(b)
           dueNext == { r \in ToSet(rows) : \E i \in 1..Len(list) : i > e /\ list[i] = r }
<1>14. /\ IsFiniteSet(G) /\ Cardinality(G) \in Nat
       /\ IsFiniteSet(D) /\ Cardinality(D) = Len(Data(page))
       /\ IsFiniteSet(due) /\ Cardinality(due) \in Nat
  <2>1. \A i, j \in 1..Len(Data(page)) : Data(page)[i] = Data(page)[j] => i = j
    <3>1. \A j \in 1..Len(Data(page)) : b + j \in 1..Len(list)
      BY <1>1, <1>2, <1>3
    <3> QED BY <1>2, <1>3, <1>12, <3>1
  <2>2. IsInjective(Data(page))
    BY <1>3, <2>1, Injective
  <2> QED BY <1>1, <1>3, <2>2, Counting, DueIsFinite
<1>15. G \cap D = due \cap D
  <2>1. ASSUME NEW r \in G, r \in D PROVE r \in due
    <3>1. PICK j \in 1..Len(Data(page)) : Data(page)[j] = r
      BY <1>3, <2>1, Members
    <3>2. b + j \in 1..Len(list) /\ b + j > b /\ list[b + j] = r
      BY <1>1, <1>2, <1>3, <3>1
    <3> QED BY <2>1, <3>2 DEF Due
  <2>2. due \subseteq G
    BY DEF Due
  <2> QED BY <2>1, <2>2
<1>a. dueNext \subseteq due \ D
  <2> SUFFICES ASSUME NEW i \in 1..Len(list), i > e, list[i] \in ToSet(rows)
               PROVE  list[i] \in due \ D
    OBVIOUS
  <2>1. list[i] \notin D
    <3>1. ASSUME NEW j \in 1..Len(Data(page)), Data(page)[j] = list[i] PROVE FALSE
      <4>1. b + j \in 1..Len(list) /\ b + j <= e /\ list[b + j] = list[i]
        BY <1>1, <1>2, <1>3, <3>1
      <4> QED BY <1>2, <1>12, <4>1
    <3> QED BY <1>3, <3>1, Members
  <2>2. ToSet(rows) = G \cup D
    BY <1>1, <1>3, Joined DEF rows
  <2>3. i > b
    BY <1>1, <1>2
  <2> QED BY <2>1, <2>2, <2>3 DEF Due
<1>b. Repeats' = Repeats + Cardinality(due \cap D)
  <2>1. ToSet(rows) = G \cup D
    BY <1>1, <1>3, Joined DEF rows
  <2>2. Cardinality(G \cup D) = Cardinality(G) + Cardinality(D) - Cardinality(G \cap D)
    BY <1>14, FS_Union
  <2>3. Cardinality(G \cap D) \in Nat
    BY <1>14, FS_Intersection, FS_CardinalityType
  <2>4. Repeats' = Len(rows) - Cardinality(ToSet(rows)) /\ Len(rows) = Len(got) + Len(Data(page))
    BY <1>1, <1>4, <1>6 DEF Repeats
  <2>5. Repeats = Len(got) - Cardinality(G)
    BY DEF Repeats
  <2> HIDE DEF G, D, due
  <2>6. /\ Cardinality(ToSet(rows)) = Cardinality(G) + Cardinality(D) - Cardinality(due \cap D)
        /\ Cardinality(due \cap D) \in Nat
    BY <1>15, <2>1, <2>2, <2>3
  <2>7. Len(got) \in Nat /\ Len(Data(page)) \in Nat /\ Cardinality(D) = Len(Data(page))
    BY <1>1, <1>3, <1>14
  <2> QED BY <1>14, <2>4, <2>5, <2>6, <2>7
<1>c. /\ Cardinality(due \cap D) \in Nat /\ Cardinality(due \cap D) <= Cardinality(due)
      /\ Cardinality(dueNext) \in Nat
      /\ Cardinality(dueNext) <= Cardinality(due) - Cardinality(due \cap D)
  <2>1. /\ IsFiniteSet(due \cap D) /\ Cardinality(due \cap D) <= Cardinality(due)
        /\ IsFiniteSet(due \ D)
        /\ Cardinality(due \ D) = Cardinality(due) - Cardinality(due \cap D)
    BY <1>14, FS_Intersection, FS_Difference
  <2>2. IsFiniteSet(dueNext) /\ Cardinality(dueNext) <= Cardinality(due \ D)
    BY <1>a, <2>1, FS_Subset
  <2> QED BY <2>1, <2>2, FS_CardinalityType
<1>d. added = MaxRows \/ Repeats + Cardinality(due) <= added
  BY <1>1 DEF OrderInv, Accounted, b
<1>e. Repeats \in Nat /\ added \in Nat /\ MaxRows \in Nat
  BY <1>1, DueIsFinite, SizeAssumption DEF OrderInv, IInv, TypeOK, MaxRows
<1>f. Accounted'
  <2> SUFFICES ASSUME pc' = "reading", added # MaxRows
               PROVE  Repeats' + Cardinality(Due((page - 1) * PageSize)') <= added
    BY <1>4 DEF Accounted, history
  <2>1. page' = page + 1
    BY <1>4, <1>7
  <2>2. (page' - 1) * PageSize = e
    BY <1>1, <1>2, <2>1
  <2>3. Due((page - 1) * PageSize)' = dueNext
    BY <1>4, <2>2 DEF Due
  <2> HIDE DEF due, dueNext, D
  <2> QED BY <1>14, <1>b, <1>c, <1>d, <1>e, <2>3
<1>g. RepeatsAreAdditions'
  <2>1. Repeats' <= added
    <3> HIDE DEF due, D
    <3>1. CASE added # MaxRows
      BY <1>14, <1>b, <1>c, <1>d, <1>e, <3>1
    <3>2. CASE added = MaxRows
      <4>1. Cardinality(ToSet(rows)) \in Nat
        BY <1>6, Counting
      <4>2. Repeats' = Len(rows) - Cardinality(ToSet(rows))
        BY <1>4 DEF Repeats
      <4>3. Len(rows) <= e
        BY <1>1, <1>2, <1>3, <1>6
      <4> QED BY <1>2, <1>6, <1>13, <1>e, <3>2, <4>1, <4>2, <4>3
    <3> QED BY <3>1, <3>2
  <2> QED BY <1>4, <2>1 DEF RepeatsAreAdditions, history
<1>16. added = 0 /\ ~shrunk =>
         Len(rows) <= Len(list) /\ \A j \in 1..Len(rows) : rows[j] = list[j]
  BY <1>1, <1>2, <1>6, <1>8 DEF OrderInv, Beginning
<1>17. Beginning'
  BY <1>4, <1>7, <1>16 DEF Beginning, history
<1>18. StillListIsReturnedWhole'
  <2> SUFFICES ASSUME added = 0, ~shrunk, pc' \in {"done", "notfound"}
               PROVE  rows = IF page' > MaxPages THEN SubSeq(list, 1, MaxRows) ELSE list
    BY <1>4 DEF StillListIsReturnedWhole, Ended, Capped, history
  <2>1. CASE Complete(rows, counted)
    <3>1. Len(rows) = Len(list) /\ \A j \in 1..Len(rows) : rows[j] = list[j]
      BY <1>1, <1>6, <1>10, <1>16, <2>1
    <3>2. rows = list
      BY <1>1, <1>6, <3>1, SeqEqual
    <3> QED BY <1>1, <1>4, <2>1, <3>2
  <2>2. CASE ~Complete(rows, counted)
    <3>1. page = MaxPages /\ page' > MaxPages
      BY <1>1, <1>4, <2>2
    <3>2. Len(rows) = e /\ e <= Len(list) /\ e = MaxRows
      BY <1>5, <1>9, <2>2, <3>1 DEF MaxRows
    <3>3. /\ SubSeq(list, 1, e) \in Seq(Rows) /\ Len(SubSeq(list, 1, e)) = e
          /\ \A j \in 1..e : SubSeq(list, 1, e)[j] = list[j]
      BY <1>1, <1>2, <3>2
    <3>4. rows = SubSeq(list, 1, e)
      BY <1>6, <1>16, <3>2, <3>3, SeqEqual
    <3> QED BY <3>1, <3>2, <3>4
  <2> QED BY <2>1, <2>2
<1> QED BY <1>11, <1>f, <1>g, <1>17, <1>18 DEF OrderInv

LEMMA FailOrder == OrderInv /\ PageFails => OrderInv'
<1> SUFFICES ASSUME OrderInv, PageFails PROVE OrderInv'
  OBVIOUS
<1>1. IInv'
  BY FailPreserves DEF OrderInv
<1> QED BY <1>1 DEF OrderInv, Distinct, Accounted, Beginning, RepeatsAreAdditions, Repeats,
     StillListIsReturnedWhole, Ended, PageFails, history

LEMMA AdoptOrder ==
  ASSUME OrderInv, NEW r \in Rows, NEW i \in 1..Len(list) + 1, Adopt(r, i)
  PROVE  OrderInv'
<1>1. /\ list \in Seq(Rows) /\ list' = InsertAt(list, i, r) /\ r \notin ToSet(list)
      /\ got \in Seq(Rows) /\ added \in 0..MaxRows /\ MaxRows \in Nat
      /\ added' = IF added < MaxRows THEN added + 1 ELSE added
      /\ UNCHANGED <<pc, page, got, shrunk>>
  BY SizeAssumption DEF OrderInv, IInv, TypeOK, Adopt, MaxRows
<1>0. list \in Seq(Rows) /\ list' = InsertAt(list, i, r)
  BY <1>1
<1>2. /\ list' \in Seq(Rows) /\ Len(list') = Len(list) + 1
      /\ \A j \in 1..Len(list) + 1 :
           list'[j] = IF j < i THEN list[j] ELSE IF j = i THEN r ELSE list[j - 1]
  BY <1>0, Inserted
<1>3. IInv'
  BY AdoptPreserves DEF OrderInv
<1>4. Repeats' = Repeats /\ Repeats \in Nat
  BY <1>1, DueIsFinite DEF Repeats
<1>a. Beginning' /\ RepeatsAreAdditions' /\ StillListIsReturnedWhole'
  <2>1. MaxRows > 0
    BY SizeAssumption DEF MaxRows
  <2>2. added' # 0 /\ added' >= added
    BY <1>1, <2>1
  <2> QED BY <1>1, <1>4, <2>2
          DEF OrderInv, Beginning, RepeatsAreAdditions, StillListIsReturnedWhole
<1>b. Accounted'
  <2> SUFFICES ASSUME pc = "reading", added' # MaxRows
               PROVE  Repeats + Cardinality(Due((page - 1) * PageSize)') <= added'
    BY <1>1, <1>4 DEF Accounted
  <2> DEFINE k == (page - 1) * PageSize
             x == IF i > k THEN r ELSE list[k]
             dueNext == { q \in ToSet(got) : \E j \in 1..Len(list') : j > k /\ list'[j] = q }
  <2>1. k \in Nat
    BY SizeAssumption DEF OrderInv, IInv, TypeOK
  <2>2. Due(k)' = dueNext
    BY <1>1 DEF Due
  <2>3. dueNext \subseteq Due(k) \cup {x}
    <3> HIDE DEF k
    <3> SUFFICES ASSUME NEW j \in 1..Len(list'), j > k, list'[j] \in ToSet(got)
                 PROVE  list'[j] \in Due(k) \cup {x}
      OBVIOUS
    <3>1. CASE j < i
      <4>1. j \in 1..Len(list) /\ list'[j] = list[j]
        BY <1>1, <1>2, <3>1
      <4> QED BY <4>1 DEF Due
    <3>2. CASE j = i
      BY <1>1, <1>2, <3>2
    <3>3. CASE j > i
      <4>1. j - 1 \in 1..Len(list) /\ list'[j] = list[j - 1]
        BY <1>1, <1>2, <3>3
      <4>2. CASE j - 1 > k
        BY <4>1, <4>2 DEF Due
      <4>3. CASE j - 1 = k
        BY <1>1, <2>1, <3>3, <4>1, <4>3
      <4> QED BY <1>2, <2>1, <4>2, <4>3
    <3> QED BY <1>2, <3>1, <3>2, <3>3
  <2>4. IsFiniteSet(Due(k)) /\ Cardinality(Due(k)) \in Nat
    BY <1>1, DueIsFinite
  <2>5. /\ IsFiniteSet(Due(k) \cup {x})
        /\ Cardinality(Due(k) \cup {x}) <= Cardinality(Due(k)) + 1
    <3> HIDE DEF x
    <3>1. /\ IsFiniteSet(Due(k) \cup {x})
          /\ Cardinality(Due(k) \cup {x}) =
               IF x \in Due(k) THEN Cardinality(Due(k)) ELSE Cardinality(Due(k)) + 1
      BY <2>4, FS_AddElement
    <3> QED BY <2>4, <3>1
  <2>6. /\ Cardinality(dueNext) \in Nat /\ Cardinality(Due(k) \cup {x}) \in Nat
        /\ Cardinality(dueNext) <= Cardinality(Due(k) \cup {x})
    BY <2>3, <2>5, FS_Subset, FS_CardinalityType
  <2>7. added < MaxRows /\ added' = added + 1
    BY <1>1
  <2>8. Repeats + Cardinality(Due(k)) <= added
    BY <2>7, <1>1 DEF OrderInv, Accounted
  <2> HIDE DEF dueNext, x
  <2> QED BY <1>1, <1>4, <2>2, <2>4, <2>5, <2>6, <2>7, <2>8
<1>5. Distinct'
  <2>1. \A j, k \in 1..Len(list) : list[j] = list[k] => j = k
    BY <1>1, Injective DEF OrderInv, Distinct
  <2>2. \A j \in 1..Len(list) : list[j] # r
    BY <1>1, Members
  <2>3. ASSUME NEW j \in 1..Len(list'), NEW k \in 1..Len(list'), list'[j] = list'[k]
        PROVE  j = k
    <3> DEFINE was(l) == IF l < i THEN l ELSE l - 1
    <3>1. \A l \in 1..Len(list') : l # i => was(l) \in 1..Len(list) /\ list'[l] = list[was(l)]
      BY <1>1, <1>2
    <3>2. list'[i] = r
      BY <1>1, <1>2
    <3>3. CASE j = i \/ k = i
      BY <2>2, <2>3, <3>1, <3>2, <3>3
    <3>4. CASE j # i /\ k # i
      <4>1. was(j) = was(k)
        BY <2>1, <2>3, <3>1, <3>4
      <4> QED BY <1>1, <3>4, <4>1
    <3> QED BY <3>3, <3>4
  <2> QED BY <1>2, <2>3, Injective DEF Distinct
<1> QED BY <1>3, <1>a, <1>b, <1>5 DEF OrderInv

\* A removal takes rows back past the reader, and none ahead of it again.
LEMMA ForgetOrder ==
  ASSUME OrderInv, NEW i \in 1..Len(list), Forget(i)
  PROVE  OrderInv'
<1>1. list \in Seq(Rows) /\ list' = RemoveAt(list, i) /\ shrunk'
      /\ got \in Seq(Rows) /\ UNCHANGED <<pc, page, got, added>>
  BY DEF OrderInv, IInv, TypeOK, Forget
<1>2. /\ list' \in Seq(Rows) /\ Len(list') = Len(list) - 1
      /\ \A j \in 1..Len(list) - 1 : list'[j] = IF j < i THEN list[j] ELSE list[j + 1]
  BY <1>1, Removed
<1>3. IInv'
  BY ForgetPreserves DEF OrderInv
<1>4. Beginning' /\ RepeatsAreAdditions' /\ StillListIsReturnedWhole'
  BY <1>1 DEF OrderInv, Beginning, RepeatsAreAdditions, Repeats, StillListIsReturnedWhole
<1>5. Distinct'
  <2>1. \A j, k \in 1..Len(list) : list[j] = list[k] => j = k
    BY <1>1, Injective DEF OrderInv, Distinct
  <2>2. ASSUME NEW j \in 1..Len(list'), NEW k \in 1..Len(list'), list'[j] = list'[k]
        PROVE  j = k
    <3> DEFINE was(l) == IF l < i THEN l ELSE l + 1
    <3>1. \A l \in 1..Len(list') : was(l) \in 1..Len(list) /\ list'[l] = list[was(l)]
      BY <1>1, <1>2
    <3>2. was(j) = was(k)
      BY <2>1, <2>2, <3>1
    <3> QED BY <1>1, <1>2, <3>2
  <2> QED BY <1>2, <2>2, Injective DEF Distinct
<1>6. Accounted'
  <2> SUFFICES ASSUME pc = "reading", added # MaxRows
               PROVE  Repeats + Cardinality(Due((page - 1) * PageSize)') <= added
    BY <1>1 DEF Accounted, Repeats
  <2> DEFINE k == (page - 1) * PageSize
             dueNext == { q \in ToSet(got) : \E j \in 1..Len(list') : j > k /\ list'[j] = q }
  <2>1. k \in Nat
    BY SizeAssumption DEF OrderInv, IInv, TypeOK
  <2>2. Due(k)' = dueNext
    BY <1>1 DEF Due
  <2>3. dueNext \subseteq Due(k)
    <3> HIDE DEF k
    <3>1. \A j \in 1..Len(list') : \E l \in 1..Len(list) : l >= j /\ list'[j] = list[l]
      BY <1>1, <1>2
    <3> QED BY <2>1, <3>1 DEF Due
  <2>4. Repeats \in Nat /\ IsFiniteSet(Due(k)) /\ Cardinality(Due(k)) \in Nat
    BY <1>1, DueIsFinite
  <2>5. Cardinality(dueNext) \in Nat /\ Cardinality(dueNext) <= Cardinality(Due(k))
    BY <2>3, <2>4, FS_Subset, FS_CardinalityType
  <2>6. Repeats + Cardinality(Due(k)) <= added /\ added \in Nat
    BY DEF OrderInv, IInv, TypeOK, Accounted
  <2> HIDE DEF dueNext
  <2> QED BY <2>2, <2>4, <2>5, <2>6
<1> QED BY <1>3, <1>4, <1>5, <1>6 DEF OrderInv

LEMMA StutterOrder == OrderInv /\ UNCHANGED vars => OrderInv'
<1> SUFFICES ASSUME OrderInv, UNCHANGED vars PROVE OrderInv'
  OBVIOUS
<1>1. IInv'
  BY StutterPreserves DEF OrderInv
<1> QED BY <1>1 DEF OrderInv, Distinct, Accounted, Due, Repeats, Beginning,
     RepeatsAreAdditions, StillListIsReturnedWhole, Ended, Capped, vars, history

THEOREM OrderInvariance == Spec => []OrderInv
<1>1. ASSUME OrderInv, [Next]_vars PROVE OrderInv'
  <2>1. ASSUME NEW m \in Rows \cup {NoRow}, Start(m) PROVE OrderInv'
    BY <1>1, <2>1, StartOrder
  <2>2. CASE PageV2
    BY <1>1, <2>2, PageOrder DEF PageV2
  <2>3. CASE PageOpenApi
    BY <1>1, <2>3, PageOrder DEF PageOpenApi
  <2>4. CASE PageFails
    BY <1>1, <2>4, FailOrder
  <2>5. ASSUME NEW r \in Rows, NEW i \in 1..Len(list) + 1, Adopt(r, i) PROVE OrderInv'
    BY <1>1, <2>5, AdoptOrder
  <2>6. ASSUME NEW i \in 1..Len(list), Forget(i) PROVE OrderInv'
    BY <1>1, <2>6, ForgetOrder
  <2>7. CASE UNCHANGED vars
    BY <1>1, <2>7, StutterOrder
  <2> QED BY <1>1, <2>1, <2>2, <2>3, <2>4, <2>5, <2>6, <2>7 DEF Next
<1> QED BY <1>1, InitOrder, PTL DEF Spec

\* A read repeats at most as many rows as were added since it began, wherever they
\* were put, whatever was removed, and however large the pages (client.py:251-264,
\* 345-358).
THEOREM RepeatsAreBounded == Spec => []RepeatsAreAdditions
<1>1. OrderInv => RepeatsAreAdditions
  BY DEF OrderInv
<1> QED BY <1>1, OrderInvariance, PTL

\* A list that stays as it is is returned as it is, in its order and up to the
\* cap, for every length, page size and cap, with or without a totalRows.
THEOREM StillListIsWhole == Spec => []StillListIsReturnedWhole
<1>1. OrderInv => StillListIsReturnedWhole
  BY DEF OrderInv
<1> QED BY <1>1, OrderInvariance, PTL
=============================================================================
