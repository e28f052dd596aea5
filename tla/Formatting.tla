------------------------------ MODULE Formatting ------------------------------
(***************************************************************************)
(* The normalisation of device rows (formatting.py).  The controller says  *)
(* the same thing in different fields, and the same field means different  *)
(* things, in the two auth modes; uptimes and channels come as text.       *)
(*                                                                         *)
(* A text is a sequence of tokens <<kind, value>>: a run of digits ("num"),*)
(* a unit of time ("unit", in seconds), "slash", "MHz", white space        *)
(* ("gap"), or anything else ("other").  An empty text stands for a field  *)
(* that is absent or empty, which the code treats alike.                   *)
(***************************************************************************)
EXTENDS Integers, Sequences

Absent == -1           \* a numeric field that the row does not have
NotANumber == -2       \* a value that int() raises on
Unknown == -3          \* None in the normalised row

Num(n) == <<"num", n>>
Unit(seconds) == <<"unit", seconds>>
Slash == <<"slash", 0>>
MHz == <<"MHz", 0>>
Gap == <<"gap", 0>>
Other == <<"other", 0>>

-----------------------------------------------------------------------------
\* Mutated form: one meaning of status for both modes.
IsConnectedOneMeaning(row, mode) ==
  IF row.statusCategory # Absent THEN IF row.statusCategory = 1 THEN "yes" ELSE "no"
  ELSE IF row.status = Absent THEN "unknown"
  ELSE IF row.status = NotANumber THEN "raises"
  ELSE IF row.status = 1 THEN "yes" ELSE "no"

\* Mutated form: an absent status is handed to int().
IsConnectedUnchecked(row, mode) ==
  LET value == IF mode = "legacy" /\ row.statusCategory # Absent
               THEN row.statusCategory ELSE row.status
  IN IF value < 0 THEN "raises"
     ELSE IF value = (IF mode = "legacy" /\ row.statusCategory = Absent THEN 14 ELSE 1)
     THEN "yes" ELSE "no"

\* int(value) == code, of a field that is there.
Holds(value, code) ==
  IF value = NotANumber THEN "raises" ELSE IF value = code THEN "yes" ELSE "no"

\* statusCategory is looked at in legacy mode only, and before status.
IsConnected(row, mode) ==
  IF mode = "legacy" /\ row.statusCategory # Absent THEN Holds(row.statusCategory, 1)
  ELSE IF row.status = Absent THEN "unknown"
  ELSE Holds(row.status, IF mode = "legacy" THEN 14 ELSE 1)

-----------------------------------------------------------------------------
\* What is at position i of a text, and the next position that is not a gap:
\* the \s* of both patterns.
Kind(text, i) == IF i \in 1..Len(text) THEN text[i][1] ELSE "end"

IsNext(text, i, j) ==
  /\ j \in i + 1..Len(text) + 1
  /\ Kind(text, j) # "gap"
  /\ \A k \in i + 1..j - 1 : Kind(text, k) = "gap"

After(text, i) == CHOOSE j \in i + 1..Len(text) + 1 : IsNext(text, i, j)

\* The matches of _UPTIME_PART: numbers with a unit after them.
Parts(text) ==
  { i \in 1..Len(text) : Kind(text, i) = "num" /\ Kind(text, After(text, i)) = "unit" }

\* Added up from the first to the last.
Seconds(text, i) == IF i \in Parts(text) THEN text[i][2] * text[After(text, i)][2] ELSE 0
Total(text) ==
  LET total[i \in 0..Len(text)] == IF i = 0 THEN 0 ELSE total[i - 1] + Seconds(text, i)
  IN total[Len(text)]

ParseUptimeString(text) == IF Parts(text) = {} THEN Unknown ELSE Total(text)

\* uptimeLong if it is a number, the text otherwise.
UptimeSeconds(row) ==
  IF row.uptimeLong \notin {Absent, NotANumber} THEN row.uptimeLong
  ELSE ParseUptimeString(row.uptime)

-----------------------------------------------------------------------------
\* Mutated form: the \s* left out on both sides of the slash.
ParseChannelWithoutGaps(text) ==
  IF /\ Kind(text, 1) = "num" /\ Kind(text, 2) = "slash"
     /\ Kind(text, 3) = "num" /\ Kind(text, 4) = "MHz" /\ Kind(text, 5) = "end"
  THEN [channel |-> text[1][2], freq |-> text[3][2]]
  ELSE [channel |-> Unknown, freq |-> Unknown]

\* _CHANNEL_RE: "<channel> / <freq>MHz" and nothing else, gaps wherever they like.
ParseChannel(text) ==
  LET channel == After(text, 0)
      slash == After(text, channel)
      freq == After(text, slash)
      mhz == After(text, freq)
  IN IF /\ Kind(text, channel) = "num" /\ Kind(text, slash) = "slash"
        /\ Kind(text, freq) = "num" /\ Kind(text, mhz) = "MHz"
        /\ Kind(text, After(text, mhz)) = "end"
     THEN [channel |-> text[channel][2], freq |-> text[freq][2]]
     ELSE [channel |-> Unknown, freq |-> Unknown]

\* The fields of normalize_device that are computed, not copied; normalize_radio
\* of a band the row does not have is None, as is a text that does not parse.
NormalizeDevice(row, mode) ==
  [mac |-> row.mac,
   connected |-> IsConnected(row, mode),
   uptime |-> UptimeSeconds(row),
   wifi2g |-> ParseChannel(row.wp2g),
   wifi5g |-> ParseChannel(row.wp5g)]
=============================================================================
