------------------------------ MODULE Pagination ------------------------------
(***************************************************************************)
(* _paginate_v2 and _paginate_openapi (client.py): a list of the           *)
(* controller (sites, devices, clients, alerts) is read page by page, by   *)
(* position, while devices are adopted and forgotten.  Nothing ties the    *)
(* pages of one read together, so a row may move from a page that is still *)
(* to be read to one that has been read, or the other way.  find_device_row*)
(* looks a device up in what such a read returned.                         *)
(*                                                                         *)
(* Each page is one request of the session engines (LegacyRequests); here  *)
(* it is answered or ends the read in an exception.  One reader is enough: *)
(* readers share nothing but the list, which any of them leaves alone.     *)
(***************************************************************************)
EXTENDS Naturals, SequencesExt

CONSTANTS
  Rows,       \* the rows a list can hold, told apart by their id or MAC
  NoRow,      \* the argument of a read that wants the whole list
  PageSize,   \* page_size
  MaxPages    \* MAX_PAGES

ASSUME SizeAssumption == PageSize \in Nat \ {0} /\ MaxPages \in Nat \ {0}
ASSUME NoRowAssumption == NoRow \notin Rows

VARIABLES
  list,       \* the controller's list, in the order it is served in
  pc,         \* "idle", "reading", or how the read ended
  legacy,     \* auth_mode: _paginate_v2, or _paginate_openapi
  want,       \* the MAC find_device_row looks for, or NoRow
  page,       \* the page asked for next
  got,        \* rows: what the pages have brought so far
  kept,       \* history: the rows that were listed all through this read
  added,      \* history: how many rows were added since it began, up to MaxRows
  shrunk      \* history: a row was removed since it began

\* What a read returns at most; more additions than that are not told apart.
MaxRows == MaxPages * PageSize

history == <<kept, added, shrunk>>
vars == <<list, pc, legacy, want, page, got, history>>

TypeOK ==
  /\ list \in Seq(Rows)
  /\ pc \in {"idle", "reading", "done", "notfound", "error"}
  /\ legacy \in BOOLEAN
  /\ want \in Rows \cup {NoRow}
  /\ page \in 1..MaxPages + 1
  /\ pc = "reading" => page <= MaxPages
  /\ got \in Seq(Rows)
  /\ kept \in SUBSET Rows
  /\ added \in 0..MaxRows
  /\ shrunk \in BOOLEAN

Init ==
  /\ list = <<>>
  /\ pc = "idle"
  /\ legacy \in BOOLEAN
  /\ want = NoRow
  /\ page = 1
  /\ got = <<>>
  /\ kept = {} /\ added = 0 /\ shrunk = FALSE

-----------------------------------------------------------------------------
\* The reader

\* Mutated form: the rows are gathered in a list that outlives the read.
StartKeepsRows(m) ==
  /\ pc # "reading"
  /\ pc' = "reading"
  /\ want' = m
  /\ page' = 1
  /\ got' = IF Len(got) < MaxRows THEN got ELSE <<>>
  /\ kept' = ToSet(list) /\ added' = 0 /\ shrunk' = FALSE
  /\ UNCHANGED <<list, legacy>>

\* list_sites, list_devices, get_clients and get_alerts ask for the whole list
\* (m = NoRow), find_device_row for a device.
Start(m) ==
  /\ pc # "reading"
  /\ pc' = "reading"
  /\ want' = m
  /\ page' = 1
  /\ got' = <<>>
  /\ kept' = ToSet(list) /\ added' = 0 /\ shrunk' = FALSE
  /\ UNCHANGED <<list, legacy>>

\* What the controller serves as page p: rows by position, as the list is now.
Data(p) ==
  LET first == (p - 1) * PageSize + 1
      last == IF p * PageSize < Len(list) THEN p * PageSize ELSE Len(list)
  IN SubSeq(list, first, last)

\* Mutated forms: a full page counts as the last one; the number of pages is the
\* total divided by the page size, rounded down.
CompleteOnFullPage(rows, counted) ==
  Len(Data(page)) <= PageSize \/ (counted /\ Len(rows) >= Len(list))

CompleteByQuotient(rows, counted) ==
  Len(Data(page)) < PageSize \/ (counted /\ page >= Len(list) \div PageSize)

\* The two breaks of the loop: the page is shorter than asked for, or the answer
\* has a totalRows (counted) and the pages have brought as many rows as that.
Complete(rows, counted) ==
  Len(Data(page)) < PageSize \/ (counted /\ Len(rows) >= Len(list))

\* Mutated form: one page too many.
MayAskOneMore(p) == p <= MaxPages + 1

\* The condition of the loop.
MayAsk(p) == p <= MaxPages

\* find_device_row looks through the rows when the whole list has been read.
Outcome(rows) == IF want = NoRow \/ want \in ToSet(rows) THEN "done" ELSE "notfound"

\* The answer to the request for the page, errorCode 0, and one round of the loop.
NextPage(counted) ==
  /\ pc = "reading"
  /\ LET rows == got \o Data(page) IN
       /\ got' = rows
       /\ \/ /\ Complete(rows, counted)
             /\ pc' = Outcome(rows)
             /\ UNCHANGED page
          \/ /\ ~Complete(rows, counted)
             /\ page' = page + 1
             /\ pc' = IF MayAsk(page + 1) THEN "reading" ELSE Outcome(rows)
  /\ UNCHANGED <<list, legacy, want, history>>

\* The legacy envelope has a totalRows; whether the Open API's has one is not
\* known (docs/api-notes.md), and the loop copes with either.
PageV2 == legacy /\ NextPage(TRUE)
PageOpenApi == ~legacy /\ \E counted \in BOOLEAN : NextPage(counted)

\* The request for the page raises: nothing of the earlier pages is returned.
PageFails ==
  /\ pc = "reading"
  /\ pc' = "error"
  /\ UNCHANGED <<list, legacy, want, page, got, history>>

-----------------------------------------------------------------------------
\* The controller: rows come and go anywhere in its order.

Adopt(r, i) ==
  /\ r \notin ToSet(list)
  /\ list' = InsertAt(list, i, r)
  /\ added' = IF added < MaxRows THEN added + 1 ELSE added
  /\ UNCHANGED <<pc, legacy, want, page, got, kept, shrunk>>

Forget(i) ==
  /\ list' = RemoveAt(list, i)
  /\ kept' = kept \ {list[i]}
  /\ shrunk' = TRUE
  /\ UNCHANGED <<pc, legacy, want, page, got, added>>

Next ==
  \/ \E m \in Rows \cup {NoRow} : Start(m)
  \/ PageV2 \/ PageOpenApi \/ PageFails
  \/ \E r \in Rows, i \in 1..Len(list) + 1 : Adopt(r, i)
  \/ \E i \in 1..Len(list) : Forget(i)

Spec == Init /\ [][Next]_vars

-----------------------------------------------------------------------------
Ended == pc \in {"done", "notfound"}

\* The read stopped at the cap, not because it had everything.
Capped == page > MaxPages

\* A row that is listed while the whole read runs is in its result, wherever
\* rows are added meanwhile, as long as none is removed and the cap is not met:
\* additions only push a row to pages that are still to come.
NoListedRowIsMissed == Ended /\ ~shrunk /\ ~Capped => kept \subseteq ToSet(got)

\* The rows of the result that are in it already.
Repeats == Len(got) - Cardinality(ToSet(got))

\* A read repeats no more rows than were added since it began, wherever they were
\* put and whatever was removed meanwhile: one addition pushes one row to the next
\* page, and removals move rows to pages that have been read, never ahead.
RepeatsAreAdditions == Repeats <= added

\* A list that does not change is returned as it is, cut at the cap.
StillListIsReturnedWhole ==
  Ended /\ added = 0 /\ ~shrunk =>
    got = IF Capped THEN SubSeq(list, 1, MaxRows) ELSE list

\* What DeviceNotFoundError says (exceptions.py:68): the device does not exist
\* on the site.  A device that was listed all the time refutes it.
NotFoundMeansAbsent == pc = "notfound" => want \notin kept

-----------------------------------------------------------------------------
\* The inductive invariant behind NoListedRowIsMissed.

Listed == kept \subseteq ToSet(list)

\* Every page so far was full.
Counted == pc = "reading" => Len(got) = (page - 1) * PageSize

\* The kept rows that now stand before the next page have been returned.
Behind ==
  pc = "reading" /\ ~shrunk =>
    \A i \in 1..Len(list) :
      i <= (page - 1) * PageSize /\ list[i] \in kept => list[i] \in ToSet(got)

IInv == TypeOK /\ Listed /\ Counted /\ Behind /\ NoListedRowIsMissed

\* ... and what it takes for RepeatsAreAdditions and StillListIsReturnedWhole.

\* The controller lists a row once.
Distinct == IsInjective(list)

\* The rows after position k that have been returned: they will be again.
Due(k) == { r \in ToSet(got) : \E i \in 1..Len(list) : i > k /\ list[i] = r }

\* Each row that was repeated, or is going to be, has an addition to its account.
Accounted ==
  pc = "reading" =>
    added = MaxRows \/ Repeats + Cardinality(Due((page - 1) * PageSize)) <= added

\* Without any change, what has been returned is how the list begins.
Beginning ==
  pc = "reading" /\ added = 0 /\ ~shrunk =>
    Len(got) <= Len(list) /\ \A i \in 1..Len(got) : got[i] = list[i]

OrderInv ==
  /\ IInv /\ Distinct /\ Accounted /\ Beginning
  /\ RepeatsAreAdditions /\ StillListIsReturnedWhole
=============================================================================
