----------------------------- MODULE WriteContract -----------------------------
(***************************************************************************)
(* What set_radio_channel promises its caller and the owner of the radios, *)
(* with nothing of how it is done: no sessions, no requests, no messages   *)
(* and no re-read.                                                         *)
(*                                                                         *)
(* A call is opened, it may change its radio once, and it is decided and   *)
(* then answered.  A preview changes nothing, now or later.  A confirmed   *)
(* call is decided "applied" only at a moment when its radio is on the     *)
(* requested frequency.  After "applied" or "rejected" the call is done    *)
(* with the radio; after "error", or when the process died, its change may *)
(* still come.  Others change radios as they please.                       *)
(***************************************************************************)
EXTENDS RadioChannels

CONSTANTS CallId, Call, NoCall, Radios, RadioSetting, NoRadio, WriteEnabled

VARIABLES
  radio,      \* the setting of every radio, or NoRadio
  call,       \* the arguments of every call, or NoCall
  status,     \* "none", "open", the outcome decided on, or "crashed"
  answer,     \* what the caller was told
  carried     \* the calls whose change the radio has taken

vars == <<radio, call, status, answer, carried>>

Outcome == {"preview", "applied", "rejected", "error"}

RadioOf(c) == <<c.mac, c.band>>
TargetOf(c) == FreqOf(c.band, c.chan)
Has(c) == RadioOf(c) \in Radios /\ radio[RadioOf(c)] # NoRadio
OnTarget(c) == Has(c) /\ radio[RadioOf(c)].freq = TargetOf(c)

Init ==
  /\ radio \in [Radios -> RadioSetting \cup {NoRadio}]
  /\ call = [id \in CallId |-> NoCall]
  /\ status = [id \in CallId |-> "none"]
  /\ answer = [id \in CallId |-> "none"]
  /\ carried = {}

\* A call comes in.  Arguments that are not even well-formed are answered at
\* once.
Open(id, c) ==
  /\ status[id] = "none"
  /\ call' = [call EXCEPT ![id] = c]
  /\ \/ status' = [status EXCEPT ![id] = "open"] /\ UNCHANGED answer
     \/ /\ status' = [status EXCEPT ![id] = "error"]
        /\ \/ UNCHANGED answer
           \/ answer' = [answer EXCEPT ![id] = "error"]
  /\ UNCHANGED <<radio, carried>>

\* The radio takes the call's frequency: once, for a confirmed call of a server
\* that may write, for a channel of the band, and never after "applied",
\* "rejected" or "preview".  The other settings are whatever the call had read.
TakeEffect(id, setting) ==
  /\ status[id] \in {"open", "error", "crashed"}
  /\ id \notin carried
  /\ call[id].confirm /\ id[1] \in WriteEnabled
  /\ Offered(call[id].band, call[id].chan)
  /\ setting.freq = TargetOf(call[id])
  /\ Has(call[id])
  /\ radio' = [radio EXCEPT ![RadioOf(call[id])] = setting]
  /\ carried' = carried \cup {id}
  /\ UNCHANGED <<call, status, answer>>

Decide(id, outcome) ==
  /\ status[id] = "open"
  /\ outcome = "preview" => ~call[id].confirm /\ id \notin carried
  /\ outcome \in {"applied", "rejected"} => call[id].confirm
  /\ outcome = "applied" => OnTarget(call[id])
  /\ status' = [status EXCEPT ![id] = outcome]
  /\ UNCHANGED <<radio, call, answer, carried>>

Tell(id) ==
  /\ status[id] \in Outcome /\ answer[id] = "none"
  /\ answer' = [answer EXCEPT ![id] = status[id]]
  /\ UNCHANGED <<radio, call, status, carried>>

\* The process dies before the caller is told.
Die(id) ==
  /\ status[id] # "none" /\ answer[id] = "none"
  /\ status' = [status EXCEPT ![id] = "crashed"]
  /\ answer' = [answer EXCEPT ![id] = "crashed"]
  /\ UNCHANGED <<radio, call, carried>>

Other(r, setting) ==
  /\ radio[r] # NoRadio
  /\ radio' = [radio EXCEPT ![r] = setting]
  /\ UNCHANGED <<call, status, answer, carried>>

Next ==
  \/ \E id \in CallId :
       \/ \E c \in Call : Open(id, c)
       \/ \E x \in RadioSetting : TakeEffect(id, x)
       \/ \E o \in Outcome : Decide(id, o)
       \/ Tell(id)
       \/ Die(id)
  \/ \E r \in Radios, x \in RadioSetting : Other(r, x)

Spec == Init /\ [][Next]_vars
=============================================================================
