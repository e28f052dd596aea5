---------------------------- MODULE MCGuardedWrite ----------------------------
(***************************************************************************)
(* The values the runs of GuardedWrite give its constants.                 *)
(***************************************************************************)
EXTENDS GuardedWrite, TLC

CONSTANTS s1, s2, ap, switch, garbled, low, high

OneServer == {s1}
TwoServers == {s1, s2}
OneOfThem == {s1}
NoServer == {}

OneMac == {ap}
ApAndSwitch == {ap, switch}
Garbled == {garbled}
NoMac == {}

Only2g == {"2g"}
Only5g == {"5g"}
BandInputs == {"2g", "6g"}
TwoChannels == {1, 6}
TwoChannels5g == {36, 149}
ChannelInputs == {1, 6, 14}
Rest1 == {low}
Rest2 == {low, high}

Symmetry == Permutations(TwoServers) \cup Permutations(Rest2)
=============================================================================
