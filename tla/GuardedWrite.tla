----------------------------- MODULE GuardedWrite -----------------------------
(***************************************************************************)
(* The guarded write set_radio_channel, from the tool call in server.py    *)
(* through the guard and its audit decorator (guard.py) and the requests   *)
(* of client.py to the controller and back.                                *)
(*                                                                         *)
(* Several servers write to the radios of one controller, beside whoever   *)
(* else administers it.  Nothing is locked: a call reads the radio, sends  *)
(* the whole radio setting back with a new frequency, and reads it again,  *)
(* and others act between any two of its requests.  A request is a step,   *)
(* since only the moment the controller handles it is visible to others;   *)
(* a PATCH the client gives up on stays in flight and may be handled at    *)
(* any later moment.  Servers are stopped and restarted at any moment.     *)
(***************************************************************************)
EXTENDS LegacySession, RadioChannels, Sequences, FiniteSets

CONSTANTS
  Macs, BadMacs,     \* MAC arguments: well-formed, and malformed ones
  Aps,               \* the well-formed ones that are access points of the site
  CallBands,         \* band arguments, valid or not
  Channels,          \* channel arguments, valid or not
  Rests,             \* values of the radio's other settings (power, width, ...)
  WriteEnabled,      \* servers with OMADA_ALLOW_WRITE and legacy credentials
  SiteSet,           \* servers with OMADA_SITE_ID
  EmptyReplies,      \* the controller may answer Success without the radio
  AuditFails,        \* appending to the journal may fail
  MaxCalls,          \* bound: calls of a server
  MaxAdmin,          \* bound: changes made by others than the servers
  MaxPages,          \* MAX_PAGES: pages of a list that are read at most
  NoRadio, NoCall    \* absent values

RadioBands == CallBands \cap Bands
Radios == Aps \X RadioBands
FreqsOf(band) == { FreqOf(band, c) : c \in Channels \cap ChannelsOf(band) }
Freqs == UNION { FreqsOf(b) : b \in RadioBands }
RadioSetting == [freq : Freqs, rest : Rests]
Call == [mac : Macs \cup BadMacs, band : CallBands, chan : Channels, confirm : BOOLEAN]
CallId == Servers \X (1..MaxCalls)
AdminId == {"admin"} \X (0..MaxAdmin)
Outcome == {"preview", "applied", "rejected", "error"}

ASSUME WriteAssumption ==
  /\ Aps \subseteq Macs /\ Macs \cap BadMacs = {}
  /\ WriteEnabled \subseteq Servers /\ SiteSet \subseteq Servers
  /\ "admin" \notin Servers
  /\ NoRadio \notin RadioSetting
  /\ NoCall \notin Call
  /\ EmptyReplies \in BOOLEAN /\ AuditFails \in BOOLEAN
  /\ MaxCalls \in Nat /\ MaxAdmin \in Nat
  /\ MaxPages \in Nat \ {0}

VARIABLES
  \* the servers
  siteKnown,   \* _site_id is set
  pc,          \* what the tool call does next
  n,           \* calls begun
  page,        \* the page of a list the call asks for
  before,      \* the radio setting the call has read
  out,         \* how the call is about to end
  \* the controller and the network
  radio,       \* the setting of every radio, NoRadio if the AP has no such band
  inflight,    \* PATCHes nobody waits for any more
  adm,         \* changes made by others so far
  journal,     \* per correlation id, the audit events appended
  \* history
  call,        \* the arguments of every call
  answer,      \* what the caller was told: an outcome, or "crashed"
  writer,      \* who wrote the radio last
  basis,       \* who had written the radio when the call read it
  applies,     \* times the controller carried out the call's PATCH
  lost         \* calls whose audit event could not be written

vars == <<session, siteKnown, pc, n, page, before, out, radio, inflight, adm, journal,
          call, answer, writer, basis, applies, lost>>

Asking == {"site", "find", "read", "patch", "verify"}    \* with a request to make
Phase == Asking \cup {"idle", "journal", "return"}
Message == [id : CallId, rad : Radios, body : RadioSetting, basis : CallId \cup AdminId]

TypeOK ==
  /\ SessionTypeOK
  /\ siteKnown \in [Servers -> BOOLEAN]
  /\ pc \in [Servers -> Phase]
  /\ n \in [Servers -> 0..MaxCalls]
  /\ page \in [Servers -> 1..MaxPages]
  /\ before \in [Servers -> RadioSetting \cup {NoRadio}]
  /\ out \in [Servers -> Outcome \cup {"none"}]
  /\ radio \in [Radios -> RadioSetting \cup {NoRadio}]
  /\ inflight \in SUBSET Message
  /\ adm \in 0..MaxAdmin
  /\ journal \in [CallId -> Seq(Outcome)]
  /\ call \in [CallId -> Call \cup {NoCall}]
  /\ answer \in [CallId -> Outcome \cup {"none", "crashed"}]
  /\ writer \in [Radios -> CallId \cup AdminId]
  /\ basis \in [Servers -> CallId \cup AdminId]
  /\ applies \in [CallId -> Nat]
  /\ lost \in SUBSET CallId

Init ==
  /\ SessionInit
  /\ siteKnown = [s \in Servers |-> s \in SiteSet]
  /\ pc = [s \in Servers |-> "idle"]
  /\ n = [s \in Servers |-> 0]
  /\ page = [s \in Servers |-> 1]
  /\ before = [s \in Servers |-> NoRadio]
  /\ out = [s \in Servers |-> "none"]
  /\ radio \in [Radios -> RadioSetting \cup {NoRadio}]
  /\ inflight = {}
  /\ adm = 0
  /\ journal = [id \in CallId |-> <<>>]
  /\ call = [id \in CallId |-> NoCall]
  /\ answer = [id \in CallId |-> "none"]
  /\ writer = [r \in Radios |-> <<"admin", 0>>]
  /\ basis = [s \in Servers |-> <<"admin", 0>>]
  /\ applies = [id \in CallId |-> 0]
  /\ lost = {}

-----------------------------------------------------------------------------
Cur(s) == <<s, n[s]>>                          \* the correlation id of s's call
Args(s) == call[Cur(s)]
Target(s) == FreqOf(Args(s).band, Args(s).chan)
Rad(s) == <<Args(s).mac, Args(s).band>>

\* Mutated form: only the changed fields are sent, the others fall back.
PartialBody(s) == [freq |-> Target(s), rest |-> CHOOSE x \in Rests : TRUE]

\* radioSetting is resent whole, with only channel and freq replaced.
Body(s) == [before[s] EXCEPT !.freq = Target(s)]
Patch(s) == [id |-> Cur(s), rad |-> Rad(s), body |-> Body(s), basis |-> basis[s]]

\* What a call may end a step with: another request to make, or an exception or
\* a result that _audited is about to record.
Goto(s, phase) == pc' = [pc EXCEPT ![s] = phase] /\ UNCHANGED out

\* Mutated form: _audited lets an exception pass without recording it.
EndUnrecorded(s, outcome) ==
  /\ pc' = [pc EXCEPT ![s] = IF outcome = "error" THEN "return" ELSE "journal"]
  /\ out' = [out EXCEPT ![s] = outcome]

End(s, outcome) == /\ pc' = [pc EXCEPT ![s] = "journal"]
                   /\ out' = [out EXCEPT ![s] = outcome]

device == <<radio, writer, inflight, adm, applies>>
record == <<journal, call, answer, lost>>
reading == <<page, before, basis>>

\* The controller carries out a PATCH: the radio's whole setting is replaced.
CarryOut(m) ==
  /\ radio' = [radio EXCEPT ![m.rad] = m.body]
  /\ writer' = [writer EXCEPT ![m.rad] = m.id]
  /\ applies' = [applies EXCEPT ![m.id] = @ + 1]

-----------------------------------------------------------------------------
\* The beginning of a call

\* Mutated form: _require_allowed is not called.
PermittedWithoutGate(s, a) == Offered(a.band, a.chan)

\* The gate, the auth mode, validate_band and channel_to_freq, all before the
\* first request.
Permitted(s, a) == s \in WriteEnabled /\ Offered(a.band, a.chan)

NewCall(s, a) ==
  /\ pc[s] = "idle" /\ n[s] < MaxCalls
  /\ n' = [n EXCEPT ![s] = @ + 1]
  /\ call' = [call EXCEPT ![<<s, n[s] + 1>>] = a]

\* The tool set_radio_channel enters the guard; a site_id argument or a site
\* that is already known saves the request for the sites.
Begin(s, a, explicit) ==
  /\ a.mac \in Macs
  /\ NewCall(s, a)
  /\ IF Permitted(s, a) THEN Goto(s, IF explicit \/ siteKnown[s] THEN "find" ELSE "site")
                        ELSE End(s, "error")
  /\ UNCHANGED <<session, siteKnown, reading, device, journal, answer, lost>>

\* validate_mac_address raises in server.py, outside _audited: the caller is
\* told of the error and there is no event to record.
RejectMac(s, a) ==
  /\ a.mac \in BadMacs
  /\ NewCall(s, a)
  /\ answer' = [answer EXCEPT ![<<s, n[s] + 1>>] = "error"]
  /\ UNCHANGED <<session, siteKnown, pc, out, reading, device, journal, lost>>

-----------------------------------------------------------------------------
\* Steps every request of a call has

Setup(s) ==
  /\ pc[s] \in Asking
  /\ Discover(s) \/ Login(s)
  /\ UNCHANGED <<siteKnown, pc, n, out, reading, device, record>>

Retry(s) ==
  /\ pc[s] \in Asking
  /\ Refused(s)
  /\ UNCHANGED <<siteKnown, pc, n, out, reading, device, record>>

\* The request ends in an exception and leaves nothing behind it: the login
\* failed, a GET went wrong, or the controller answered a PATCH with an error.
RequestFails(s) ==
  /\ pc[s] \in Asking
  /\ SetupFails(s) \/ Failed(s)
  /\ End(s, "error")
  /\ UNCHANGED <<siteKnown, n, reading, device, record>>

-----------------------------------------------------------------------------
\* The requests of a call, answered

\* Mutated form: the pages of a list are not counted.
NextPageUncounted(s) ==
  /\ pc[s] \in {"site", "find"} /\ Answered(s)
  /\ page' = [page EXCEPT ![s] = IF @ < MaxPages THEN @ + 1 ELSE @]
  /\ UNCHANGED <<siteKnown, pc, n, out, before, basis, device, record>>

\* _paginate_v2 goes on to another page.  Whether it does is the controller's
\* doing (Pagination has the two breaks), but never past MAX_PAGES.
NextPage(s) ==
  /\ pc[s] \in {"site", "find"} /\ Answered(s)
  /\ page[s] < MaxPages
  /\ page' = [page EXCEPT ![s] = @ + 1]
  /\ UNCHANGED <<siteKnown, pc, n, out, before, basis, device, record>>

\* The page just answered was the last one of the list.
ListIsRead(s) ==
  /\ page' = [page EXCEPT ![s] = 1]
  /\ UNCHANGED <<before, basis>>

\* resolve_site_id: the only site is kept for good; none, or several, are an
\* error.
ResolveSite(s) ==
  /\ pc[s] = "site" /\ Answered(s)
  /\ \/ siteKnown' = [siteKnown EXCEPT ![s] = TRUE] /\ Goto(s, "find")
     \/ End(s, "error") /\ UNCHANGED siteKnown
  /\ ListIsRead(s)
  /\ UNCHANGED <<n, device, record>>

\* find_device_row: only an access point's row leads on.  The row of a listed
\* device can be missed, for the pages of the list are read one by one.
Find(s) ==
  /\ pc[s] = "find" /\ Answered(s)
  /\ \/ Args(s).mac \in Aps /\ Goto(s, "read")
     \/ End(s, "error")
  /\ ListIsRead(s)
  /\ UNCHANGED <<siteKnown, n, device, record>>

\* What a GET of the AP can return for the radio: its setting at that moment,
\* or nothing when the result is not the object it should be.
Replies(r) == {radio[r]} \cup (IF EmptyReplies THEN {NoRadio} ELSE {})

\* Mutated form: confirm is not looked at.
NeverPreview(s) == FALSE

OnlyPreview(s) == ~Args(s).confirm

\* The read before the write.  A preview goes no further.
Read(s) ==
  /\ pc[s] = "read" /\ Answered(s)
  /\ \E got \in Replies(Rad(s)) :
       IF got = NoRadio THEN End(s, "error") /\ UNCHANGED reading
       ELSE IF OnlyPreview(s) THEN End(s, "preview") /\ UNCHANGED reading
       ELSE /\ Goto(s, "patch")
            /\ before' = [before EXCEPT ![s] = got]
            /\ basis' = [basis EXCEPT ![s] = writer[Rad(s)]]
            /\ UNCHANGED page
  /\ UNCHANGED <<siteKnown, n, device, record>>

\* The PATCH is answered errorCode 0 and carried out.
PatchCarriedOut(s) ==
  /\ pc[s] = "patch" /\ Answered(s)
  /\ radio[Rad(s)] # NoRadio
  /\ CarryOut(Patch(s))
  /\ Goto(s, "verify")
  /\ UNCHANGED <<siteKnown, n, reading, inflight, adm, record>>

\* The PATCH is answered errorCode 0 and nothing changes.
PatchDiscarded(s) ==
  /\ pc[s] = "patch" /\ Answered(s)
  /\ Goto(s, "verify")
  /\ UNCHANGED <<siteKnown, n, reading, device, record>>

\* Mutated form: a PATCH without an answer is sent again.
PatchUnansweredRepeats(s) ==
  /\ pc[s] = "patch" /\ Refused(s)
  /\ inflight' = inflight \cup {Patch(s)}
  /\ UNCHANGED <<siteKnown, pc, n, out, reading, radio, writer, adm, applies, record>>

\* No answer that can be read comes back in time: the call ends in an exception,
\* and the PATCH may yet be carried out.
PatchUnanswered(s) ==
  /\ pc[s] = "patch" /\ Failed(s)
  /\ inflight' = inflight \cup {Patch(s)}
  /\ End(s, "error")
  /\ UNCHANGED <<siteKnown, n, reading, radio, writer, adm, applies, record>>

\* actual_after: what the second read shows, or else what the first one did.
ActualAfter(s, got) == IF got = NoRadio THEN before[s] ELSE got

\* Mutated forms: errorCode 0 is taken for success; any difference is taken for
\* success; an unverified write is reported as a preview.
TrustErrorCode(s, actual) == "applied"
VerdictByDifference(s, actual) == IF actual # before[s] THEN "applied" ELSE "rejected"
VerdictWithoutRejected(s, actual) == IF actual.freq = Target(s) THEN "applied" ELSE "preview"

\* Applied if the radio is on the frequency asked for.
Verdict(s, actual) == IF actual.freq = Target(s) THEN "applied" ELSE "rejected"

Verify(s) ==
  /\ pc[s] = "verify" /\ Answered(s)
  /\ \E got \in Replies(Rad(s)) : End(s, Verdict(s, ActualAfter(s, got)))
  /\ UNCHANGED <<siteKnown, n, reading, device, record>>

-----------------------------------------------------------------------------
\* The end of a call

\* audit.record, once per call; a failure to write is swallowed.
Journal(s) ==
  /\ pc[s] = "journal"
  /\ Goto(s, "return")
  /\ \/ journal' = [journal EXCEPT ![Cur(s)] = Append(@, out[s])] /\ UNCHANGED lost
     \/ AuditFails /\ lost' = lost \cup {Cur(s)} /\ UNCHANGED journal
  /\ UNCHANGED <<session, siteKnown, n, reading, device, call, answer>>

\* Nothing of the call is kept.
Forget(s) ==
  /\ pc' = [pc EXCEPT ![s] = "idle"]
  /\ out' = [out EXCEPT ![s] = "none"]
  /\ page' = [page EXCEPT ![s] = 1]
  /\ before' = [before EXCEPT ![s] = NoRadio]
  /\ basis' = [basis EXCEPT ![s] = <<"admin", 0>>]

Return(s) ==
  /\ pc[s] = "return"
  /\ answer' = [answer EXCEPT ![Cur(s)] = out[s]]
  /\ Forget(s)
  /\ UNCHANGED <<session, siteKnown, n, device, journal, call, lost>>

-----------------------------------------------------------------------------
\* The world around the calls

\* The process is stopped and started again.  Its caller gets no answer, the
\* journal file keeps what it has, and a PATCH just sent may still arrive.
Crash(s) ==
  /\ Restart(s)
  /\ siteKnown' = [siteKnown EXCEPT ![s] = s \in SiteSet]
  /\ answer' = IF pc[s] = "idle" THEN answer ELSE [answer EXCEPT ![Cur(s)] = "crashed"]
  /\ Forget(s)
  /\ \/ UNCHANGED inflight
     \/ /\ pc[s] = "patch" /\ loggedIn[s]
        /\ inflight' = inflight \cup {Patch(s)}
  /\ UNCHANGED <<n, radio, writer, adm, applies, journal, call, lost>>

SessionExpires(s) ==
  /\ Expire(s)
  /\ UNCHANGED <<siteKnown, pc, n, out, reading, device, record>>

\* A PATCH that was given up reaches the controller after all, or never does.
LateArrival(m) ==
  /\ radio[m.rad] # NoRadio
  /\ CarryOut(m)
  /\ inflight' = inflight \ {m}
  /\ UNCHANGED <<session, siteKnown, pc, n, out, reading, adm, record>>

NeverArrives(m) ==
  /\ inflight' = inflight \ {m}
  /\ UNCHANGED <<session, siteKnown, pc, n, out, reading, radio, writer, adm, applies, record>>

\* Somebody else administers the radio: the web interface, another program.
Administer(r, new) ==
  /\ adm < MaxAdmin
  /\ radio[r] \notin {NoRadio, new}
  /\ radio' = [radio EXCEPT ![r] = new]
  /\ adm' = adm + 1
  /\ writer' = [writer EXCEPT ![r] = <<"admin", adm + 1>>]
  /\ UNCHANGED <<session, siteKnown, pc, n, out, reading, inflight, applies, record>>

-----------------------------------------------------------------------------
Ask(s) == \/ Setup(s) \/ Retry(s) \/ RequestFails(s)
          \/ NextPage(s) \/ ResolveSite(s) \/ Find(s) \/ Read(s)
          \/ PatchCarriedOut(s) \/ PatchDiscarded(s) \/ PatchUnanswered(s)
          \/ Verify(s)

Step(s) == Ask(s) \/ Journal(s) \/ Return(s)

Server(s) == \/ \E a \in Call, explicit \in BOOLEAN : Begin(s, a, explicit)
             \/ \E a \in Call : RejectMac(s, a)
             \/ Step(s)
             \/ Crash(s)
             \/ SessionExpires(s)

Environment == \/ \E m \in inflight : LateArrival(m) \/ NeverArrives(m)
               \/ \E r \in Radios : \E f \in FreqsOf(r[2]), x \in Rests :
                    Administer(r, [freq |-> f, rest |-> x])

Next == (\E s \in Servers : Server(s)) \/ Environment

Spec == Init /\ [][Next]_vars

\* httpx gives every request a timeout, so a call that has begun goes on.
FairSpec == Spec /\ \A s \in Servers : WF_vars(Step(s))

-----------------------------------------------------------------------------
\* A call's PATCH is carried out at most once, although it may be sent twice
\* (client.py:288) and may arrive long after the call is over: a PATCH is
\* repeated only when the controller has answered that it refuses the first.
EffectAtMostOnce == \A id \in CallId : applies[id] <= 1

\* Once the caller has been told preview, applied or rejected, nothing of the
\* call is left in the network: the radio cannot change any more because of
\* it.  Only a call that ended in an error or a crash can still take effect.
SettledCallsAreInert ==
  \A m \in inflight : answer[m.id] \in {"none", "error", "crashed"}

\* What reaches the controller, or may yet, comes from a confirmed call of a
\* server that is allowed to write; no preview leaves a PATCH behind.
OnlyConfirmedCallsWrite ==
  \A id \in CallId :
    applies[id] > 0 \/ (\E m \in inflight : m.id = id) =>
      /\ id[1] \in WriteEnabled
      /\ call[id].confirm
      /\ answer[id] # "preview"

\* The journal has exactly one event for a call that has entered the guard and
\* ended, and it says what the caller was told, unless writing it failed; a crash
\* leaves at most one.  A malformed MAC never enters it (see EveryCallIsJournaled).
\* (_audited and audit.record; README.md, "Audit journal".)
JournalExactlyOnce ==
  \A id \in CallId :
    /\ Len(journal[id]) <= 1
    /\ answer[id] \in Outcome /\ id \notin lost /\ call[id].mac \in Macs =>
         journal[id] = <<answer[id]>>

\* A write the journal does not show is that of a call that crashed, that is
\* not over, or whose event could not be written; none is hidden as a preview.
EffectsAreAccounted ==
  \A id \in CallId :
    applies[id] > 0 /\ answer[id] \in Outcome /\ id \notin lost =>
      journal[id] \in { <<o>> : o \in {"applied", "rejected", "error"} }

\* applied is decided at a moment when the radio is on the requested frequency
\* (guard.py:312, "applied=True is returned ONLY when they match").
AppliedIsConfirmed ==
  [][\A s \in Servers : out[s] = "none" /\ out'[s] = "applied"
        => radio[Rad(s)].freq = Target(s)]_vars

\* rejected is decided only while the radio does not hold what this call wrote:
\* the controller discarded the PATCH, or another writer has been there since.
RejectedIsExplained ==
  [][\A s \in Servers : out[s] = "none" /\ out'[s] = "rejected"
        => writer[Rad(s)] # Cur(s)]_vars

\* What a call is about to send, or has left in flight, differs from the radio's
\* setting in the frequency alone, as long as nobody has written the radio since
\* the call read it; a retry sends what the first attempt sent.
ResendIsCurrent ==
  /\ \A s \in Servers :
       pc[s] = "patch" /\ writer[Rad(s)] = basis[s] =>
         Body(s) = [radio[Rad(s)] EXCEPT !.freq = Target(s)]
  /\ \A m \in inflight :
       writer[m.rad] = m.basis => m.body = [radio[m.rad] EXCEPT !.freq = m.body.freq]

\* The same whatever others do in between, as guard.py:302-303 has it: the full
\* CURRENT setting is resent, with only channel and freq replaced.
OnlyFrequencyChanges ==
  [][\A s \in Servers : \A r \in Radios :
       writer'[r] # writer[r] /\ pc[s] = "patch" /\ writer'[r] = Cur(s)
       => radio'[r].rest = radio[r].rest]_vars

\* README.md:219 and audit.py:26: every call is recorded, however it ends.
EveryCallIsJournaled ==
  \A id \in CallId : answer[id] \in Outcome => Len(journal[id]) = 1

\* A call that has begun ends: with an answer, or with the process.
CallsEnd == \A s \in Servers : pc[s] # "idle" ~> pc[s] = "idle"

\* What the request in hand has left to do at most: it may be repeated once, and
\* each attempt may first need the controller id and a login.
RequestLeft(s) ==
  3 * (2 - att[s]) + (IF loggedIn[s] THEN 0 ELSE IF oid[s] THEN 1 ELSE 2)

\* The requests and other steps a call has before it at most, the one in hand
\* included: the rest of the list it reads, from page k, and the phases that follow.
StepsFrom(phase, k) ==
  [idle |-> 0, return |-> 1, journal |-> 2, verify |-> 3, patch |-> 4, read |-> 5,
   find |-> 6 + MaxPages - k, site |-> 6 + 2 * MaxPages - k][phase]

Left(s) == 6 * StepsFrom(pc[s], page[s]) + RequestLeft(s)

\* A call makes a bounded number of requests whatever the controller answers, one
\* that offers another page for ever included: each step of the call takes something
\* off what it has left, and nothing that expires, arrives late, restarts or
\* administers adds to it (client.py:254 caps a list; 243 and 285 repeat once;
\* docs/api-notes.md:438-441, never "unbounded HTTP requests").
CallsRunDown ==
  [][\A s \in Servers : pc[s] # "idle" =>
       Left(s)' <= Left(s) /\ (Step(s) => Left(s)' < Left(s))]_vars

-----------------------------------------------------------------------------
\* The contract's view of a call: a call without an answer is its server's
\* current one, and open until its end is decided.
Status == [id \in CallId |->
             IF call[id] = NoCall THEN "none"
             ELSE IF answer[id] # "none" THEN answer[id]
             ELSE IF out[id[1]] # "none" THEN out[id[1]]
             ELSE "open"]

Contract == INSTANCE WriteContract
              WITH status <- Status, carried <- { id \in CallId : applies[id] > 0 }

\* set_radio_channel keeps the contract, when the controller does not answer
\* Success without the radio (see AppliedIsConfirmed).
KeepsContract == Contract!Spec

\* The one departure from it otherwise: applied, decided from the reading before the
\* PATCH because the one after it does not hold the radio, which is on another
\* frequency (guard.py:365).
Unconfirmed(s) ==
  /\ EmptyReplies
  /\ pc[s] = "verify" /\ out'[s] = "applied"
  /\ before[s].freq = Target(s) /\ radio[Rad(s)].freq # Target(s)

\* Against any controller, no step but that one departs from the contract: no other
\* missing, late or misleading answer, no crash and no other writer makes the tool
\* promise what does not hold.
OnlyUnconfirmedDeparts ==
  [][ \/ [Contract!Next]_(Contract!vars)
      \/ \E s \in Servers : Unconfirmed(s) ]_vars

-----------------------------------------------------------------------------
(***************************************************************************)
(* The inductive invariant: why the invariants above hold.                 *)
(***************************************************************************)

\* What a call in each phase knows of itself.
CallOK ==
  \A s \in Servers :
    /\ pc[s] # "idle" => n[s] >= 1 /\ answer[Cur(s)] = "none" /\ Args(s) \in Call
    /\ pc[s] \in Asking => Permitted(s, Args(s)) /\ Args(s).mac \in Macs
    /\ pc[s] \in {"read", "patch", "verify"} => Args(s).mac \in Aps
    /\ pc[s] \in {"patch", "verify"} => before[s] \in RadioSetting /\ Args(s).confirm
    /\ IF pc[s] \in {"journal", "return"} THEN out[s] \in Outcome ELSE out[s] = "none"

\* Nothing is known of a call that has not begun.
FutureOK ==
  \A id \in CallId : id[2] > n[id[1]] =>
    /\ applies[id] = 0 /\ answer[id] = "none"
    /\ \A m \in inflight : m.id # id

\* A call's PATCH is in one place: not yet sent for good, in flight, or carried
\* out; and it is in flight only once the call is on its way to an error.
EffectOK ==
  /\ \A id \in CallId : applies[id] \in {0, 1}
  /\ \A m \in inflight : applies[m.id] = 0
  /\ \A m \in inflight : answer[m.id] \in {"none", "error", "crashed"}
  /\ \A m1, m2 \in inflight : m1.id = m2.id => m1 = m2
  /\ \A s \in Servers :
       /\ pc[s] \in Asking \ {"verify"} => applies[Cur(s)] = 0
       /\ pc[s] \in Asking => \A m \in inflight : m.id # Cur(s)
       /\ pc[s] \in {"journal", "return"} /\ out[s] # "error" =>
            \A m \in inflight : m.id # Cur(s)

IInv == TypeOK /\ CallOK /\ FutureOK /\ EffectOK

\* ... and what it takes for the journal, the confirmation, what is resent, and
\* the contract.

\* Until its event is written a call has none, and afterwards it has one at most.
\* A call without an answer is its server's current one.
RecordOK ==
  /\ JournalExactlyOnce
  /\ \A id \in CallId :
       /\ id[2] > n[id[1]] => journal[id] = <<>> /\ id \notin lost /\ call[id] = NoCall
       /\ call[id] # NoCall /\ answer[id] = "none" => pc[id[1]] # "idle" /\ id = Cur(id[1])
  /\ \A s \in Servers :
       /\ pc[s] \in Asking \cup {"journal"} => journal[Cur(s)] = <<>> /\ Cur(s) \notin lost
       /\ pc[s] = "return" => journal[Cur(s)] = <<out[s]>> \/ Cur(s) \in lost

\* The calls that may change a radio.
MayWrite(id) ==
  /\ call[id] \in Call /\ call[id].mac \in Aps /\ call[id].confirm
  /\ Permitted(id[1], call[id])
  /\ answer[id] # "preview"

WritersOK ==
  /\ \A id \in CallId : applies[id] > 0 => MayWrite(id)
  /\ \A m \in inflight : MayWrite(m.id)
  /\ \A s \in Servers :
       pc[s] \in {"journal", "return"} /\ out[s] = "preview" => applies[Cur(s)] = 0

\* A writer that has been recorded cannot become one again.
Spent(w) == /\ w \in CallId => applies[w] > 0
            /\ w \in AdminId => w[2] <= adm

StampsOK ==
  /\ \A r \in Radios : Spent(writer[r])
  /\ \A s \in Servers : Spent(basis[s])
  /\ \A m \in inflight : Spent(m.basis)

\* What a call has read, and what it has written, is what the radio holds until
\* somebody else writes it.
ReadingOK ==
  /\ \A s \in Servers :
       /\ pc[s] \in {"patch", "verify"} => radio[Rad(s)] # NoRadio
       /\ pc[s] = "patch" /\ writer[Rad(s)] = basis[s] => before[s] = radio[Rad(s)]
       /\ pc[s] = "verify" /\ writer[Rad(s)] = Cur(s) => radio[Rad(s)].freq = Target(s)
  /\ \A m \in inflight :
       /\ m.rad = <<call[m.id].mac, call[m.id].band>>
       /\ m.body.freq = FreqOf(call[m.id].band, call[m.id].chan)
       /\ writer[m.rad] = m.basis => m.body = [radio[m.rad] EXCEPT !.freq = m.body.freq]

LInv == IInv /\ RecordOK /\ WritersOK /\ StampsOK /\ ReadingOK
=============================================================================
