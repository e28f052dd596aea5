----------------------------- MODULE MCReadTools -----------------------------
(***************************************************************************)
(* Two controllers, one with two sites; an access point and a switch.  The *)
(* runs begin with one site that has both devices, or with two.            *)
(***************************************************************************)
EXTENDS ReadTools

CONSTANTS c1, c2, home, lab, ap, switch, malformed

MCControllers == {c1, c2}
MCSites == {home, lab}
MCSitesOf == [c \in MCControllers |-> IF c = c1 THEN {home, lab} ELSE {}]
MCEnvSites == {lab}
MCEnvIds == {c1}
MCDevices == {ap, switch}
MCAps == {ap}
MCBadMacs == {malformed}

Down == [uptime |-> 0, chan2g |-> 1, chan5g |-> 36]
Up == [uptime |-> 6183, chan2g |-> 6, chan5g |-> 149]
MCDeviceStates == {Down, Up}

OneSite == [controller |-> c1, sites |-> {home},
            place |-> [d \in MCDevices |-> home],
            state |-> [d \in MCDevices |-> IF d = ap THEN Up ELSE Down]]
TwoSites == [OneSite EXCEPT !.sites = {home, lab}, !.place[switch] = lab, !.state[switch] = Up]
MCFirstWorlds == {OneSite, TwoSites}
=============================================================================
