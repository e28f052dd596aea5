--------------------------- MODULE FormattingProofs ---------------------------
(***************************************************************************)
(* What the two patterns of formatting.py read in the texts a controller   *)
(* sends, whatever the numbers in them.  A number is read where it stands  *)
(* in the text, so each lemma fixes the shape of the text and says what is *)
(* found at every position of it.                                          *)
(***************************************************************************)
EXTENDS Formatting, TLAPS

\* There is one next position that is not a gap.
LEMMA NextIs ==
  ASSUME NEW text, Len(text) \in Nat, NEW i \in Nat, NEW j, IsNext(text, i, j)
  PROVE  After(text, i) = j
<1>1. ASSUME NEW k, IsNext(text, i, k) PROVE k = j
  BY <1>1 DEF IsNext
<1>2. j \in i + 1..Len(text) + 1
  BY DEF IsNext
<1> QED
  BY <1>1, <1>2, Zenon DEF After

-----------------------------------------------------------------------------
\* _CHANNEL_RE reads both numbers of "11  / 2462MHz".
LEMMA ChannelRead ==
  ASSUME NEW channel, NEW freq
  PROVE  ParseChannel(<<Num(channel), Gap, Gap, Slash, Gap, Num(freq), MHz>>)
           = [channel |-> channel, freq |-> freq]
<1> DEFINE text == <<Num(channel), Gap, Gap, Slash, Gap, Num(freq), MHz>>
<1>1. /\ Len(text) = 7
      /\ Kind(text, 1) = "num" /\ Kind(text, 2) = "gap" /\ Kind(text, 3) = "gap"
      /\ Kind(text, 4) = "slash" /\ Kind(text, 5) = "gap" /\ Kind(text, 6) = "num"
      /\ Kind(text, 7) = "MHz" /\ Kind(text, 8) = "end"
      /\ text[1][2] = channel /\ text[6][2] = freq
  BY DEF Kind, Num, Gap, Slash, MHz
<1> HIDE DEF text
<1>2. /\ After(text, 0) = 1 /\ After(text, 1) = 4 /\ After(text, 4) = 6
      /\ After(text, 6) = 7 /\ After(text, 7) = 8
  <2>1. IsNext(text, 0, 1)
    BY <1>1 DEF IsNext
  <2>2. IsNext(text, 1, 4)
    BY <1>1 DEF IsNext
  <2>3. IsNext(text, 4, 6)
    BY <1>1 DEF IsNext
  <2>4. IsNext(text, 6, 7) /\ IsNext(text, 7, 8)
    BY <1>1 DEF IsNext
  <2> QED
    BY <1>1, <2>1, <2>2, <2>3, <2>4, NextIs
<1>3. ParseChannel(text) = [channel |-> channel, freq |-> freq]
  BY <1>1, <1>2 DEF ParseChannel
<1> QED
  BY <1>3 DEF text

\* A text that is absent, or is not one of a channel, has no channel.
LEMMA NoChannelRead ==
  /\ ParseChannel(<<>>) = [channel |-> Unknown, freq |-> Unknown]
  /\ ParseChannel(<<Other>>) = [channel |-> Unknown, freq |-> Unknown]
<1>1. IsNext(<<>>, 0, 1) /\ Kind(<<>>, 1) = "end"
  BY DEF IsNext, Kind
<1>2. IsNext(<<Other>>, 0, 1) /\ Kind(<<Other>>, 1) = "other"
  BY DEF IsNext, Kind, Other
<1>3. After(<<>>, 0) = 1 /\ After(<<Other>>, 0) = 1
  <2>1. Len(<<>>) = 0 /\ Len(<<Other>>) = 1
    OBVIOUS
  <2> QED
    BY <1>1, <1>2, <2>1, NextIs
<1> QED
  BY <1>1, <1>2, <1>3 DEF ParseChannel

-----------------------------------------------------------------------------
\* The running total of parse_uptime_string, in a text it adds up.
Sums(text, f) ==
  f = [i \in 0..Len(text) |-> IF i = 0 THEN 0 ELSE f[i - 1] + Seconds(text, i)]

LEMMA TotalIs ==
  ASSUME NEW text, NEW f, Sums(text, f)
  PROVE  \E total : Sums(text, total) /\ Total(text) = total[Len(text)]
<1> DEFINE total == CHOOSE t : t = [i \in 0..Len(text) |->
                                      IF i = 0 THEN 0 ELSE t[i - 1] + Seconds(text, i)]
<1>1. Total(text) = total[Len(text)]
  BY DEF Total
<1>2. Sums(text, total)
  BY Zenon DEF Sums
<1> QED
  BY <1>1, <1>2

\* "43m"
LEMMA MinutesRead ==
  ASSUME NEW m \in Nat
  PROVE  ParseUptimeString(<<Num(m), Unit(60)>>) = m * 60
<1> DEFINE text == <<Num(m), Unit(60)>>
<1>1. /\ Len(text) = 2
      /\ Kind(text, 1) = "num" /\ Kind(text, 2) = "unit" /\ Kind(text, 3) = "end"
      /\ text[1][2] = m /\ text[2][2] = 60
  BY DEF Kind, Num, Unit
<1> HIDE DEF text
<1>2. After(text, 1) = 2
  <2>1. IsNext(text, 1, 2)
    BY <1>1 DEF IsNext
  <2> QED
    BY <1>1, <2>1, NextIs
<1>3. Parts(text) = {1}
  BY <1>1, <1>2 DEF Parts
<1>4. Seconds(text, 1) = m * 60 /\ Seconds(text, 2) = 0
  BY <1>1, <1>2, <1>3 DEF Seconds
<1>5. Sums(text, [i \in 0..2 |-> IF i = 0 THEN 0 ELSE m * 60])
  BY <1>1, <1>4 DEF Sums
<1>6. PICK total : Sums(text, total) /\ Total(text) = total[2]
  BY <1>1, <1>5, TotalIs
<1>7. /\ total[0] = 0
      /\ total[1] = total[0] + Seconds(text, 1)
      /\ total[2] = total[1] + Seconds(text, 2)
  BY <1>1, <1>6 DEF Sums
<1>8. Total(text) = m * 60
  BY <1>4, <1>6, <1>7
<1>9. ParseUptimeString(text) = m * 60
  BY <1>3, <1>8 DEF ParseUptimeString
<1> QED
  BY <1>9 DEF text

\* "1h 43m"
LEMMA HoursRead ==
  ASSUME NEW h \in Nat, NEW m \in Nat
  PROVE  ParseUptimeString(<<Num(h), Unit(3600), Gap, Num(m), Unit(60)>>) = h * 3600 + (m * 60)
<1> DEFINE text == <<Num(h), Unit(3600), Gap, Num(m), Unit(60)>>
<1>1. /\ Len(text) = 5
      /\ Kind(text, 1) = "num" /\ Kind(text, 2) = "unit" /\ Kind(text, 3) = "gap"
      /\ Kind(text, 4) = "num" /\ Kind(text, 5) = "unit" /\ Kind(text, 6) = "end"
      /\ text[1][2] = h /\ text[2][2] = 3600 /\ text[4][2] = m /\ text[5][2] = 60
  BY DEF Kind, Num, Unit, Gap
<1> HIDE DEF text
<1>2. After(text, 1) = 2 /\ After(text, 4) = 5
  <2>1. IsNext(text, 1, 2) /\ IsNext(text, 4, 5)
    BY <1>1 DEF IsNext
  <2> QED
    BY <1>1, <2>1, NextIs
<1>3. Parts(text) = {1, 4}
  <2>1. \A i \in 1..5 : i \in {1, 2, 3, 4, 5}
    OBVIOUS
  <2> QED
    BY <1>1, <1>2, <2>1 DEF Parts
<1>4. /\ Seconds(text, 1) = h * 3600 /\ Seconds(text, 4) = m * 60
      /\ Seconds(text, 2) = 0 /\ Seconds(text, 3) = 0 /\ Seconds(text, 5) = 0
  BY <1>1, <1>2, <1>3 DEF Seconds
<1> DEFINE sums == [i \in 0..5 |-> IF i = 0 THEN 0 ELSE IF i < 4 THEN h * 3600
                                    ELSE h * 3600 + (m * 60)]
<1>5. Sums(text, sums)
  BY <1>1, <1>4 DEF Sums
<1> HIDE DEF sums
<1>6. PICK total : Sums(text, total) /\ Total(text) = total[5]
  <2>1. \E total : Sums(text, total) /\ Total(text) = total[Len(text)]
    BY <1>5, TotalIs
  <2> QED
    BY <1>1, <2>1
<1>7. /\ total[0] = 0
      /\ total[1] = total[0] + Seconds(text, 1)
      /\ total[2] = total[1] + Seconds(text, 2)
      /\ total[3] = total[2] + Seconds(text, 3)
      /\ total[4] = total[3] + Seconds(text, 4)
      /\ total[5] = total[4] + Seconds(text, 5)
  BY <1>1, <1>6 DEF Sums
<1>8. Total(text) = h * 3600 + (m * 60)
  BY <1>4, <1>6, <1>7
<1>9. ParseUptimeString(text) = h * 3600 + (m * 60)
  BY <1>3, <1>8 DEF ParseUptimeString
<1> QED
  BY <1>9 DEF text

\* Nothing to add up.
LEMMA NoUptimeRead == ParseUptimeString(<<>>) = Unknown
  BY DEF ParseUptimeString, Parts
=============================================================================
