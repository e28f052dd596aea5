------------------------------- MODULE Settings -------------------------------
(***************************************************************************)
(* load_settings (config.py): which environments a server starts with, and *)
(* in which of the two auth modes.  An environment is the set of variables *)
(* that hold more than blanks (_clean), with the values of those that the  *)
(* other modules look at.                                                  *)
(***************************************************************************)
CONSTANTS
  Sites, NoSite,          \* site ids, and the absence of one
  Controllers, NoId,      \* controller ids, and the absence of one
  EnvSites, EnvIds,       \* the values that OMADA_SITE_ID and OMADA_OMADAC_ID may have
  NoSettings              \* load_settings raised ConfigError: there is no server

ASSUME SettingsAssumption ==
  /\ NoSite \notin Sites /\ NoId \notin Controllers
  /\ EnvSites \subseteq Sites /\ EnvIds \subseteq Controllers

Legacy == {"OMADA_USER", "OMADA_PASS"}
OpenApi == {"OMADA_CLIENT_ID", "OMADA_CLIENT_SECRET"}
Credentials == Legacy \cup OpenApi

Environment == [given : SUBSET (Credentials \cup {"OMADA_BASE_URL"}),
                timeout : {"unset", "number", "text"},
                site : EnvSites \cup {NoSite},
                id : EnvIds \cup {NoId}]

SettingsType == [mode : {"legacy", "openapi"},
                 creds : SUBSET Credentials,
                 site : EnvSites \cup {NoSite},
                 id : EnvIds \cup {NoId}]

Half(e, pair) == pair \cap e.given # {} /\ ~(pair \subseteq e.given)

\* The conditions that raise ConfigError, in the order of the code.
ConfigError(e) ==
  \/ "OMADA_BASE_URL" \notin e.given
  \/ Half(e, Legacy)
  \/ Half(e, OpenApi)
  \/ ~(Legacy \subseteq e.given) /\ ~(OpenApi \subseteq e.given)
  \/ e.timeout = "text"

\* Legacy is preferred when both pairs are there.
AuthMode(e) == IF Legacy \subseteq e.given THEN "legacy" ELSE "openapi"

\* Mutated form: one of a pair is taken for the pair, as has_legacy alone would.
LoadSettingsHalf(e) ==
  IF "OMADA_BASE_URL" \notin e.given \/ e.timeout = "text" \/ Credentials \cap e.given = {}
  THEN NoSettings
  ELSE [mode |-> IF Legacy \cap e.given # {} THEN "legacy" ELSE "openapi",
        creds |-> e.given \cap Credentials, site |-> e.site, id |-> e.id]

LoadSettings(e) ==
  IF ConfigError(e) THEN NoSettings
  ELSE [mode |-> AuthMode(e), creds |-> e.given \cap Credentials,
        site |-> e.site, id |-> e.id]
=============================================================================
