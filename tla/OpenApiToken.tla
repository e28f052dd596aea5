----------------------------- MODULE OpenApiToken -----------------------------
(***************************************************************************)
(* The Open API's token cache (client.py): _ensure_openapi_token keeps an  *)
(* access token until TOKEN_REFRESH_MARGIN_SECONDS before the end of its   *)
(* lifetime, by the host's monotonic clock; _get_openapi drops a token the *)
(* controller refuses and asks once more.  The controller's clock started  *)
(* when it issued the token, before the answer arrived, and goes on while  *)
(* the host sleeps; it may also revoke a token, or not say how long it     *)
(* lives.                                                                  *)
(*                                                                         *)
(* One client: clients share nothing, and what another one may do to this  *)
(* one's token is a revocation.  Time is in ticks, and kept as what is left*)
(* of it.                                                                  *)
(***************************************************************************)
EXTENDS Naturals

CONSTANTS
  Lifetimes,   \* how long the controller may let a token live
  Margin,      \* TOKEN_REFRESH_MARGIN_SECONDS
  Default,     \* the lifetime assumed when the answer has no expiresIn
  Patience     \* ticks an answer may take before the request times out

ASSUME TimeAssumption ==
  /\ Lifetimes \subseteq Nat \ {0}
  /\ Margin \in Nat /\ Default \in Nat /\ Patience \in Nat

VARIABLES
  pc,       \* "idle"; "ask": a token is asked for; "answer": it has been issued
            \* and the answer is under way; "get": the request is under way
  att,      \* 1, or 2 once the request in hand is the retry (_retried)
  held,     \* _access_token is set
  left,     \* _access_token_expiry, as time left on the host's clock, 0 if past
  life,     \* what the controller still gives the token it issued last
  said,     \* the lifetime the client was told, or assumed, for that token
  lag,      \* ticks its answer has taken
  travel,   \* ticks the request under way has taken
  last,     \* how the last request ended
  cut,      \* history: that token lost life the client's clock does not show
  lapses,   \* history: tokens that ended under the request in hand
  fault     \* history: the request met something other than an ended token

token == <<held, left, life, said, lag, cut>>
vars == <<pc, att, token, travel, last, lapses, fault>>

TypeOK ==
  /\ pc \in {"idle", "ask", "answer", "get"}
  /\ att \in {1, 2}
  /\ held \in BOOLEAN
  /\ left \in Nat /\ life \in Nat /\ said \in Nat
  /\ lag \in 0..Patience /\ travel \in 0..Patience
  /\ last \in {"none", "ok", "error"}
  /\ cut \in BOOLEAN
  /\ lapses \in 0..2
  /\ fault \in BOOLEAN

Init ==
  /\ pc = "idle" /\ att = 1
  /\ held = FALSE /\ left = 0 /\ life = 0 /\ said = 0
  /\ lag = 0 /\ travel = 0
  /\ last = "none"
  /\ cut = FALSE /\ lapses = 0 /\ fault = FALSE

-----------------------------------------------------------------------------
\* A request

\* Mutated form: the token is used to its last moment.
FreshToTheEnd == held /\ left > 0

\* The early return of _ensure_openapi_token.
Fresh == held /\ left > Margin

\* The history stops counting at two.
Lapse(n) == IF n < 2 THEN n + 1 ELSE n

\* _get_openapi is called with _retried = False.
Start ==
  /\ pc = "idle"
  /\ att' = 1
  /\ pc' = IF Fresh THEN "get" ELSE "ask"
  /\ travel' = 0
  /\ last' = "none"
  /\ lapses' = IF Fresh /\ life = 0 THEN 1 ELSE 0
  /\ fault' = FALSE
  /\ UNCHANGED token

\* The controller issues a token and says, or does not say (stated), how long
\* it lives.  A token whose answer is lost is never used: the one in the cache
\* is stale already, and so the next request asks again.
Issue(lifetime, stated) ==
  /\ pc = "ask"
  /\ pc' = "answer"
  /\ life' = lifetime
  /\ said' = IF stated THEN lifetime ELSE Default
  /\ lag' = 0
  /\ cut' = (said' > lifetime)
  /\ UNCHANGED <<att, held, left, travel, last, lapses, fault>>

\* The answer arrives; its lifetime is counted from now.
Receive ==
  /\ pc = "answer"
  /\ pc' = "get"
  /\ held' = TRUE
  /\ left' = said
  /\ travel' = 0
  /\ UNCHANGED <<att, life, said, lag, last, cut, lapses, fault>>

Finish(result) == pc' = "idle" /\ last' = result

\* The request reaches the controller while the token is good.
Succeed ==
  /\ pc = "get" /\ life > 0
  /\ Finish("ok")
  /\ UNCHANGED <<att, token, travel, lapses, fault>>

\* Mutated forms: the refused token stays in the cache; the retry does not say
\* that it is one; the attempts are counted and compared one too late.
RefuseKeepsToken ==
  /\ pc = "get" /\ att = 1
  /\ att' = 2
  /\ pc' = IF Fresh THEN "get" ELSE "ask"
  /\ travel' = 0
  /\ fault' = (fault \/ life > 0)
  /\ UNCHANGED <<token, last, lapses>>

RefuseWithoutEnd ==
  /\ pc = "get"
  /\ held' = FALSE /\ left' = 0
  /\ pc' = "ask"
  /\ fault' = (fault \/ life > 0)
  /\ UNCHANGED <<att, travel, life, said, lag, cut, last, lapses>>

RefuseTwice ==
  /\ pc = "get" /\ att <= 2
  /\ att' = att + 1
  /\ held' = FALSE /\ left' = 0
  /\ pc' = "ask"
  /\ fault' = (fault \/ life > 0)
  /\ UNCHANGED <<travel, life, said, lag, cut, last, lapses>>

\* The first attempt is refused in a form _looks_like_auth_failure recognises:
\* the token and its expiry are dropped, and the call recurses, which asks for
\* another.  Refusing a token that is good is a fault of the controller's.
Refuse ==
  /\ pc = "get" /\ att = 1
  /\ att' = 2
  /\ held' = FALSE /\ left' = 0
  /\ pc' = "ask"
  /\ fault' = (fault \/ life > 0)
  /\ UNCHANGED <<travel, life, said, lag, cut, last, lapses>>

\* The retry's token has ended by the time it arrives; the token is kept.
RefuseAgain ==
  /\ pc = "get" /\ att = 2 /\ life = 0
  /\ Finish("error")
  /\ UNCHANGED <<att, token, travel, lapses, fault>>

\* Any other end: the id or the token cannot be had, no answer, an answer that
\* is not taken for a refused token.  The cache is left as it is.
Break ==
  /\ pc # "idle"
  /\ Finish("error")
  /\ fault' = TRUE
  /\ UNCHANGED <<att, token, travel, lapses>>

RequestStep ==
  \/ \E lifetime \in Lifetimes, stated \in BOOLEAN : Issue(lifetime, stated)
  \/ Receive \/ Succeed \/ Refuse \/ RefuseAgain \/ Break

-----------------------------------------------------------------------------
\* Time, the controller, and the host

Down(n) == IF n > 0 THEN n - 1 ELSE 0

\* The token in use or on its way ends while the request is in hand.
Ends(before, after) ==
  lapses' = IF pc \in {"answer", "get"} /\ before > 0 /\ after = 0 THEN Lapse(lapses) ELSE lapses

\* A tick passes on both clocks; an answer takes at most Patience of them.
Tick ==
  /\ pc = "answer" => lag < Patience
  /\ pc = "get" => travel < Patience
  /\ left' = Down(left)
  /\ life' = Down(life)
  /\ lag' = IF pc = "answer" THEN lag + 1 ELSE lag
  /\ travel' = IF pc = "get" THEN travel + 1 ELSE travel
  /\ Ends(life, life')
  /\ UNCHANGED <<pc, att, held, said, last, cut, fault>>

\* The host sleeps and its monotonic clock stands still, or the controller
\* revokes the token (n = 0): what it gives it goes down to n.
Shorten(n) ==
  /\ n < life
  /\ life' = n
  /\ cut' = TRUE
  /\ Ends(life, n)
  /\ UNCHANGED <<pc, att, held, left, said, lag, travel, last, fault>>

\* The process is stopped and started again.
Restart ==
  /\ pc' = "idle" /\ att' = 1
  /\ held' = FALSE /\ left' = 0
  /\ last' = "none" /\ lapses' = 0 /\ fault' = FALSE
  /\ UNCHANGED <<life, said, lag, travel, cut>>

Next ==
  \/ Start \/ RequestStep
  \/ Tick \/ (\E n \in 0..life : Shorten(n)) \/ Restart

Spec == Init /\ [][Next]_vars

\* A request in hand goes on: what it waits for comes, or times out.
FairSpec == Spec /\ WF_vars(RequestStep)

-----------------------------------------------------------------------------
\* The margin does what it is for (client.py:74-77): a token that lives longer
\* than the margin, and of which the client's clock tells the truth, is good
\* when the request arrives, as long as the token's answer and the request
\* together have taken no more than the margin.
MarginCoversTravel ==
  pc = "get" /\ ~cut /\ said > Margin /\ lag + travel <= Margin => life > 0

\* Ended tokens alone do not make a request fail, unless two of them end under
\* it: the second one is the token the retry has just asked for.
OneLapseIsAbsorbed == last = "error" /\ ~fault => lapses >= 2

\* Every request ends, also when the controller refuses every token.
RequestEnds == pc # "idle" ~> pc = "idle"

\* The cache, its refills and its one retry keep the contract that the legacy
\* requests keep as well: repeated once, with cause, and failed with cause
\* (client.py:325-341).
Contract == INSTANCE RequestContract WITH
  open <- pc # "idle",
  again <- pc # "idle" /\ att = 2

KeepsContract == Contract!Spec

-----------------------------------------------------------------------------
\* The inductive invariant

\* A token in use, or fit for use, is the one issued last, and the client's clock
\* is ahead of the controller's by no more than the answer's lag.
Clocks == (pc = "get" \/ Fresh) /\ ~cut => life + lag >= left

\* The same of a token whose answer is under way.
Coming == pc = "answer" /\ ~cut => life + lag >= said

\* What the early return saw, a request later.
Checked ==
  /\ pc = "get" => held /\ (said > Margin => left + travel > Margin)
  /\ pc \in {"ask", "answer"} => ~Fresh
  /\ Fresh => said > Margin

\* The attempts of a request without fault are paid for by ended tokens.
Paid ==
  ~fault =>
    /\ pc # "idle" /\ att = 2 => lapses >= 1
    /\ pc \in {"answer", "get"} /\ life = 0 => lapses >= att

IInv == TypeOK /\ Clocks /\ Coming /\ Checked /\ Paid /\ OneLapseIsAbsorbed
=============================================================================
