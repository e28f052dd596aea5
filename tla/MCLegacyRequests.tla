--------------------------- MODULE MCLegacyRequests ---------------------------
(***************************************************************************)
(* One server without a configured controller id, and one with it.  The    *)
(* servers share nothing in this module, so two are enough.                *)
(***************************************************************************)
EXTENDS LegacyRequests

CONSTANTS s1, s2
MCServers == {s1, s2}
MCOmadacIdSet == {s2}
=============================================================================
