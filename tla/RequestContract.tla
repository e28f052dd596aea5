---------------------------- MODULE RequestContract ----------------------------
(***************************************************************************)
(* What one client promises about its authenticated requests, whichever of *)
(* the controller's two APIs they go to: no ids, no logins, no tokens, no  *)
(* clocks.  _get_v2, _patch_v2 and _get_openapi are written on this        *)
(* pattern; LegacyRequests and OpenApiToken implement it.                  *)
(*                                                                         *)
(* A request in hand may find its session or token ended, more than once.  *)
(* It is repeated at most once, and not without such an end or some other  *)
(* fault.  It fails only for another fault, or when it was repeated and a  *)
(* second end met it.                                                      *)
(***************************************************************************)
EXTENDS Naturals

VARIABLES
  open,     \* a request is in hand
  again,    \* and it is the repetition (_retried)
  last,     \* how the last request ended
  lapses,   \* ends of a session or token that it met, counted to two
  fault     \* it met something else

vars == <<open, again, last, lapses, fault>>

Init ==
  /\ open = FALSE /\ again = FALSE
  /\ last = "none"
  /\ lapses = 0 /\ fault = FALSE

\* A request is made, perhaps on a session or token that has ended already.
Open ==
  /\ ~open
  /\ open' = TRUE /\ again' = FALSE
  /\ last' = "none"
  /\ lapses' \in {0, 1} /\ fault' = FALSE

\* The session or token ends under it.
Lapse ==
  /\ open /\ lapses < 2
  /\ lapses' = lapses + 1
  /\ UNCHANGED <<open, again, last, fault>>

\* The only repetition, and there is a cause for it.
Repeat ==
  /\ open /\ ~again
  /\ again' = TRUE
  /\ fault' \in {fault, TRUE}
  /\ fault' \/ lapses >= 1
  /\ UNCHANGED <<open, last, lapses>>

Succeed ==
  /\ open
  /\ open' = FALSE /\ again' = FALSE
  /\ last' = "ok"
  /\ UNCHANGED <<lapses, fault>>

\* The caller gets an exception, and there is a cause for that.
Fail ==
  /\ open
  /\ open' = FALSE /\ again' = FALSE
  /\ last' = "error"
  /\ fault' \in {fault, TRUE}
  /\ fault' \/ (again /\ lapses = 2)
  /\ UNCHANGED lapses

\* The process is stopped, with a request in hand or without.
Abandon ==
  /\ open' = FALSE /\ again' = FALSE
  /\ last' = "none"
  /\ lapses' = 0 /\ fault' = FALSE

Next == Open \/ Lapse \/ Repeat \/ Succeed \/ Fail \/ Abandon

Spec == Init /\ [][Next]_vars
=============================================================================
