------------------------------- MODULE ReadTools -------------------------------
(***************************************************************************)
(* One server process with its read tools (server.py), from the settings   *)
(* it starts with to the rows it returns: the auth mode, the two values    *)
(* the client keeps for good (_omadac_id, _site_id), site resolution, the  *)
(* lookups and the normalisation, against a controller whose sites and     *)
(* devices change, and that another one may replace at the same address.   *)
(*                                                                         *)
(* A request is a step: answered, or failed in any of the ways in which    *)
(* LegacyRequests and OpenApiToken let it fail, sessions and tokens        *)
(* included.  Lists are shorter than a page; Pagination has the others.    *)
(***************************************************************************)
EXTENDS Settings, Formatting, RadioChannels, FiniteSets

CONSTANTS
  SitesOf,            \* the sites a controller may manage
  Devices, NoMac,     \* MAC arguments that are well-formed, and none given
  BadMacs,            \* malformed ones
  Aps,                \* the devices that are access points
  DeviceStates,       \* [uptime, 0 if disconnected; channel of each band]
  FirstWorlds,        \* what the world may be when the server is first started
  NoRow,              \* no row has been read yet
  MaxEvents           \* bound: changes of the world around the server

ASSUME ReadAssumption ==
  /\ SitesOf \in [Controllers -> SUBSET Sites]
  /\ Aps \subseteq Devices
  /\ NoMac \notin Devices \cup BadMacs /\ Devices \cap BadMacs = {}
  /\ MaxEvents \in Nat
  /\ NoSettings \notin SettingsType

\* Which controller it is, the sites it manages, where the devices are and how.
World == [controller : Controllers, sites : SUBSET Sites,
          place : [Devices -> Sites \cup {NoSite}], state : [Devices -> DeviceStates]]

\* A controller has none but its own sites.
OwnSites(w) == w.sites \subseteq SitesOf[w.controller]

ASSUME WorldAssumption ==
  /\ FirstWorlds \subseteq World /\ \A w \in FirstWorlds : OwnSites(w)
  /\ \A v \in DeviceStates :
       v.uptime \in Nat /\ v.chan2g \in Channels2g /\ v.chan5g \in Channels5g

VARIABLES
  \* the controller
  world,       \* what it is now
  events,      \* changes of the world so far
  \* the process and its client
  settings,    \* the result of load_settings
  id,          \* _omadac_id
  site,        \* _site_id
  \* the tool call
  pc,          \* "idle", or the request it makes next
  args,        \* the tool and its arguments
  target,      \* resolved_site
  found,       \* the row find_device_row returned
  answer,      \* what the last call returned
  \* history
  sent,        \* the APIs that requests of this call have gone to
  asked,       \* the sites that requests of this call have named
  garbled,     \* this call got a row with a status that is not a number
  during,      \* what the world has been while this call ran
  only         \* sites that have been a controller's only one since the start

server == <<settings, id, site>>
call == <<pc, args, target, found, answer>>
history == <<sent, asked, garbled, during, only>>
vars == <<world, events, server, call, history>>

Tools == {"get_controller_info", "list_sites", "list_devices", "get_device_detail",
          "get_wifi_summary", "get_clients", "get_alerts"}
LegacyTools == {"list_sites", "get_wifi_summary", "get_clients", "get_alerts"}
Asking == {"info", "sites", "select", "list", "detail"}

\* The kinds of answer: the errors by their class, "failed" for the errors of
\* a request, "internal" for what _safe makes of any other exception.
Refusals == {"validation", "feature", "config"}
AnswerKinds == Refusals \cup {"ambiguous", "notfound", "failed", "internal", "done", "rows", "none"}

Error(kind) == [kind |-> kind, rows |-> {}]
NoAnswer == Error("none")
Done == Error("done")

IsLegacy == settings.mode = "legacy"
Single(w) == IF Cardinality(w.sites) = 1 THEN w.sites ELSE {}

TypeOK ==
  /\ world \in World
  /\ events \in 0..MaxEvents
  /\ settings \in SettingsType \cup {NoSettings}
  /\ id \in Controllers \cup {NoId}
  /\ site \in Sites \cup {NoSite}
  /\ pc \in Asking \cup {"idle"}
  /\ args.tool \in Tools /\ args.site \in Sites \cup {NoSite}
  /\ args.mac \in Devices \cup BadMacs \cup {NoMac}
  /\ target \in Sites \cup {NoSite}
  /\ found # NoRow => found.mac \in Devices
  /\ answer.kind \in AnswerKinds /\ (\A r \in answer.rows : r.mac \in Devices)
  /\ sent \in SUBSET {"info", "legacy", "openapi"}
  /\ asked \in SUBSET Sites
  /\ garbled \in BOOLEAN
  /\ during \in SUBSET World
  /\ only \in SUBSET Sites
  /\ pc # "idle" => settings # NoSettings
  /\ pc \in {"list", "detail"} => target # NoSite

NoCall == [tool |-> "list_sites", site |-> NoSite, mac |-> NoMac]

\* Nothing of a call is left, and none has been made.
Quiet ==
  /\ pc' = "idle" /\ args' = NoCall /\ target' = NoSite /\ found' = NoRow
  /\ answer' = NoAnswer
  /\ sent' = {} /\ asked' = {} /\ garbled' = FALSE /\ during' = {}

Init ==
  /\ world \in FirstWorlds
  /\ events = 0
  /\ settings = NoSettings /\ id = NoId /\ site = NoSite
  /\ pc = "idle" /\ args = NoCall /\ target = NoSite /\ found = NoRow
  /\ answer = NoAnswer
  /\ sent = {} /\ asked = {} /\ garbled = FALSE /\ during = {}
  /\ only = {}

-----------------------------------------------------------------------------
\* The process: started with an environment, stopped at any moment, and started
\* again with another.

Stop ==
  /\ settings # NoSettings
  /\ settings' = NoSettings /\ id' = NoId /\ site' = NoSite
  /\ Quiet
  /\ only' = {}
  /\ UNCHANGED <<world, events>>

Start(e) ==
  /\ settings = NoSettings
  /\ settings' = LoadSettings(e)
  /\ id' = IF LoadSettings(e) = NoSettings THEN NoId ELSE e.id
  /\ site' = IF LoadSettings(e) = NoSettings THEN NoSite ELSE e.site
  /\ Quiet
  /\ only' = Single(world)
  /\ UNCHANGED <<world, events>>

-----------------------------------------------------------------------------
\* The tools

Ask(phase, x) == pc' = phase /\ target' = x /\ answer' = NoAnswer
Refuse(kind) == pc' = "idle" /\ target' = NoSite /\ answer' = Error(kind)

\* Mutated form: the controller id is asked for again by every call.
EnterForgetsId(t, x, m) ==
  /\ settings # NoSettings /\ pc = "idle"
  /\ args' = [tool |-> t, site |-> x, mac |-> m]
  /\ found' = NoRow
  /\ id' = settings.id
  /\ sent' = {} /\ asked' = {} /\ garbled' = FALSE /\ during' = {world}
  /\ UNCHANGED <<world, events, settings, only>>

\* A call of tool t, with its site_id x and mac m.
Enter(t, x, m) ==
  /\ settings # NoSettings /\ pc = "idle"
  /\ args' = [tool |-> t, site |-> x, mac |-> m]
  /\ found' = NoRow
  /\ sent' = {} /\ asked' = {} /\ garbled' = FALSE /\ during' = {world}
  /\ UNCHANGED <<world, events, settings, id, only>>

\* Mutated form: a site_id given to one call is kept for the next ones.
ResolveSiteIdKeepsArgument(x) ==
  IF x # NoSite THEN Ask("list", x) /\ site' = x
  ELSE IF site # NoSite THEN Ask("list", site) /\ UNCHANGED site
  ELSE /\ UNCHANGED site
       /\ IF IsLegacy THEN Ask("select", NoSite) ELSE Refuse("config")

\* Mutated form: the mode is not looked at, and the path is built without a site.
ResolveSiteIdOfAnyMode(x) ==
  /\ IF x # NoSite THEN Ask("list", x)
     ELSE IF site # NoSite THEN Ask("list", site)
     ELSE IF IsLegacy THEN Ask("select", NoSite)
     ELSE Ask("list", NoSite)
  /\ UNCHANGED site

\* resolve_site_id: the argument, then the configured or kept one, then (in
\* legacy mode) the list of sites has to be asked for.
ResolveSiteId(x) ==
  /\ IF x # NoSite THEN Ask("list", x)
     ELSE IF site # NoSite THEN Ask("list", site)
     ELSE IF IsLegacy THEN Ask("select", NoSite)
     ELSE Refuse("config")
  /\ UNCHANGED site

GetControllerInfo ==
  Enter("get_controller_info", NoSite, NoMac) /\ Ask("info", NoSite) /\ UNCHANGED site

ListSites ==
  /\ Enter("list_sites", NoSite, NoMac)
  /\ IF IsLegacy THEN Ask("sites", NoSite) ELSE Refuse("feature")
  /\ UNCHANGED site

ListDevices(x) == Enter("list_devices", x, NoMac) /\ ResolveSiteId(x)

GetDeviceDetail(m, x) ==
  /\ m # NoMac
  /\ Enter("get_device_detail", x, m)
  /\ IF m \in BadMacs THEN Refuse("validation") /\ UNCHANGED site ELSE ResolveSiteId(x)

\* The MAC is optional; it is looked at before the mode.
GetWifiSummary(x, m) ==
  /\ Enter("get_wifi_summary", x, m)
  /\ IF m \in BadMacs THEN Refuse("validation") /\ UNCHANGED site
     ELSE IF IsLegacy THEN ResolveSiteId(x)
     ELSE Refuse("feature") /\ UNCHANGED site

GetClients(x) ==
  /\ Enter("get_clients", x, NoMac)
  /\ IF IsLegacy THEN ResolveSiteId(x) ELSE Refuse("feature") /\ UNCHANGED site

GetAlerts(x) ==
  /\ Enter("get_alerts", x, NoMac)
  /\ IF IsLegacy THEN ResolveSiteId(x) ELSE Refuse("feature") /\ UNCHANGED site

Call ==
  \/ GetControllerInfo \/ ListSites
  \/ \E x \in Sites \cup {NoSite} :
       \/ ListDevices(x) \/ GetClients(x) \/ GetAlerts(x)
       \/ \E m \in Devices \cup BadMacs \cup {NoMac} :
            GetDeviceDetail(m, x) \/ GetWifiSummary(x, m)

-----------------------------------------------------------------------------
\* The requests

\* Mutated form: the Open API is used whenever there are credentials for it.
ListApiByCredentials == IF OpenApi \subseteq settings.creds THEN "openapi" ELSE "legacy"

\* list_devices has a path in each mode.
ListApi == settings.mode

\* Which of the two APIs the next request belongs to.
Api == IF pc = "list" /\ args.tool \notin {"get_clients", "get_alerts"} THEN ListApi ELSE "legacy"

\* _ensure_legacy_login and _ensure_openapi_token look for their pair first.
HasCredentials == (IF Api = "legacy" THEN Legacy ELSE OpenApi) \subseteq settings.creds

Reply(a) == pc' = "idle" /\ answer' = a /\ UNCHANGED target

\* The request leaves, for the site the call has resolved if it has one.
Sends ==
  /\ sent' = sent \cup {Api}
  /\ asked' = asked \cup ({target} \ {NoSite})

\* The request is answered with what was asked for.  A controller does not know
\* the id of another one.
Answered ==
  /\ pc \in Asking \ {"info"}
  /\ HasCredentials
  /\ id = world.controller
  /\ Sends
  /\ UNCHANGED <<world, events, settings, id, args, during, only>>

\* _omadacid: GET /api/info before the first login or token.
Discover ==
  /\ pc \in Asking \ {"info"}
  /\ HasCredentials
  /\ id = NoId
  /\ id' = world.controller
  /\ sent' = sent \cup {"info"}
  /\ UNCHANGED <<world, events, settings, site, call, asked, garbled, during, only>>

\* The request, or the one for the id, a session or a token before it, raises.
RequestFails ==
  /\ pc \in Asking
  /\ IF pc = "info" THEN sent' = sent \cup {"info"} /\ UNCHANGED asked /\ Reply(Error("failed"))
     ELSE IF ~HasCredentials THEN UNCHANGED <<sent, asked>> /\ Reply(Error("feature"))
     ELSE /\ Reply(Error("failed"))
          /\ IF id = NoId THEN sent' = sent \cup {"info"} /\ UNCHANGED asked ELSE Sends
  /\ UNCHANGED <<world, events, server, args, found, garbled, during, only>>

\* get_controller_info keeps nothing of what it returns.
ControllerInfo ==
  /\ pc = "info"
  /\ sent' = sent \cup {"info"}
  /\ Reply(Done)
  /\ UNCHANGED <<world, events, server, args, found, asked, garbled, during, only>>

SitesListed ==
  /\ pc = "sites"
  /\ Answered
  /\ Reply(Done)
  /\ UNCHANGED <<site, found, garbled>>

\* The only site is kept for good; none, or several, are an error.
SiteSelected ==
  /\ pc = "select"
  /\ Answered
  /\ IF Single(world) # {}
     THEN \E x \in world.sites : site' = x /\ Ask("list", x)
     ELSE Reply(Error("ambiguous")) /\ UNCHANGED site
  /\ UNCHANGED <<found, garbled>>

-----------------------------------------------------------------------------
\* Rows, as the controller may send them (docs/api-notes.md): everything, or
\* the fields of an older firmware, or hardly any, or some that do not parse.
\* Each has its MAC and its type: Aps says which devices are access points.

Shapes == {"full", "old", "bare", "garbled"}

\* Hours and minutes, as in "1h 43m".
UptimeText(n) ==
  LET minutes == Num((n % 3600) \div 60)
  IN IF n < 3600 THEN <<minutes, Unit(60)>>
     ELSE <<Num(n \div 3600), Unit(3600), Gap, minutes, Unit(60)>>

\* On 5 GHz the number before the slash is an index of the radio's own.
Index(band, chan) == IF band = "2g" THEN chan ELSE chan % 32
ChannelText(band, chan) ==
  <<Num(Index(band, chan)), Gap, Gap, Slash, Gap, Num(FreqOf(band, chan)), MHz>>
OffText == <<Other>>

RawRow(d, shape) ==
  LET v == world.state[d]
      up == v.uptime > 0
      Radio(band, chan) == IF ~IsLegacy \/ d \notin Aps \/ shape = "bare" THEN <<>>
                           ELSE IF shape = "garbled" \/ ~up THEN OffText
                           ELSE ChannelText(band, chan)
  IN [mac |-> d,
      statusCategory |-> IF IsLegacy /\ shape = "full" THEN IF up THEN 1 ELSE 0 ELSE Absent,
      status |-> IF shape = "bare" THEN Absent
                 ELSE IF shape = "garbled" THEN NotANumber
                 ELSE IF ~up THEN 0 ELSE IF IsLegacy THEN 14 ELSE 1,
      uptimeLong |-> IF IsLegacy /\ shape = "full" THEN v.uptime
                     ELSE IF IsLegacy /\ shape = "garbled" THEN NotANumber ELSE Absent,
      uptime |-> IF up /\ shape # "bare" THEN UptimeText(v.uptime) ELSE <<>>,
      wp2g |-> Radio("2g", v.chan2g),
      wp5g |-> Radio("5g", v.chan5g)]

Here(x) == { d \in Devices : world.place[d] = x }

\* The lists of devices the controller may answer with, one row per device.
ListOf(x) == { { RawRow(d, shape[d]) : d \in Here(x) } : shape \in [Here(x) -> Shapes] }

\* One row that does not normalise takes the whole answer with it.
Normalized(rows) ==
  IF \E r \in rows : IsConnected(r, settings.mode) = "raises" THEN Error("internal")
  ELSE [kind |-> "rows", rows |-> { NormalizeDevice(r, settings.mode) : r \in rows }]

\* get_wifi_summary takes the same fields of a row, without the uptime.
Summary(rows) == Normalized({ [r EXCEPT !.uptimeLong = Absent, !.uptime = <<>>] : r \in rows })

Notes(rows) == garbled' = (garbled \/ \E r \in rows : r.status = NotANumber)

-----------------------------------------------------------------------------
\* The answers to the requests for a site's list and for a device.

\* A list of a site the controller has.
Listed(tools) ==
  /\ pc = "list" /\ args.tool \in tools
  /\ target \in world.sites
  /\ Answered
  /\ UNCHANGED site

InsightListed ==
  /\ Listed({"get_clients", "get_alerts"})
  /\ Reply(Done)
  /\ UNCHANGED <<found, garbled>>

DevicesListed ==
  /\ Listed({"list_devices"})
  /\ \E rows \in ListOf(target) : Notes(rows) /\ Reply(Normalized(rows))
  /\ UNCHANGED found

\* get_wifi_summary_rows: the access points, or the one that was asked for.
ApsListed ==
  /\ Listed({"get_wifi_summary"})
  /\ \E rows \in ListOf(target) :
       LET aps == { r \in rows : r.mac \in Aps /\ args.mac \in {NoMac, r.mac} }
       IN /\ Notes(aps)
          /\ Reply(IF args.mac # NoMac /\ aps = {} THEN Error("notfound") ELSE Summary(aps))
  /\ UNCHANGED found

\* find_device_row, and the choice get_device_detail makes: only an access
\* point has a detail, and only in legacy mode.
DeviceLookedUp ==
  /\ Listed({"get_device_detail"})
  /\ \E rows \in ListOf(target) :
       LET match == { r \in rows : r.mac = args.mac }
       IN /\ Notes(match)
          /\ \/ match = {} /\ Reply(Error("notfound")) /\ UNCHANGED found
             \/ \E row \in match :
                  IF IsLegacy /\ row.mac \in Aps
                  THEN Ask("detail", target) /\ found' = row
                  ELSE Reply(Normalized({row})) /\ UNCHANGED found

\* GET /eaps/{mac}: the device as it is now, while it is still on the site ...
DetailAnswered ==
  /\ pc = "detail"
  /\ world.place[args.mac] = target
  /\ Answered
  /\ \E shape \in Shapes :
       LET row == RawRow(args.mac, shape)
       IN Notes({row}) /\ Reply(Normalized({row}))
  /\ UNCHANGED <<site, found>>

\* ... or errorCode 0 with nothing in it: the row of the list is returned.
DetailEmpty ==
  /\ pc = "detail"
  /\ Answered
  /\ Reply(Normalized({found}))
  /\ UNCHANGED <<site, found, garbled>>

Step == \/ Discover \/ RequestFails \/ ControllerInfo \/ SitesListed \/ SiteSelected
        \/ InsightListed \/ DevicesListed \/ ApsListed \/ DeviceLookedUp
        \/ DetailAnswered \/ DetailEmpty

-----------------------------------------------------------------------------
\* The world around the server: the controller's administrator at work, devices
\* that go up and down, and another controller at the same address.

Becomes(w) ==
  /\ events < MaxEvents /\ events' = events + 1
  /\ world' = w
  /\ during' = IF pc = "idle" THEN during ELSE during \cup {w}
  /\ only' = only \cup Single(w)
  /\ UNCHANGED <<server, call, sent, asked, garbled>>

AddSite(x) ==
  /\ x \in SitesOf[world.controller] \ world.sites
  /\ Becomes([world EXCEPT !.sites = @ \cup {x}])

RemoveSite(x) ==
  /\ x \in world.sites
  /\ Becomes([world EXCEPT !.sites = @ \ {x},
                           !.place = [d \in Devices |-> IF @[d] = x THEN NoSite ELSE @[d]]])

Move(d, x) ==
  /\ x \in (world.sites \cup {NoSite}) \ {world.place[d]}
  /\ Becomes([world EXCEPT !.place[d] = x])

Turn(d, v) ==
  /\ world.place[d] # NoSite /\ v # world.state[d]
  /\ Becomes([world EXCEPT !.state[d] = v])

Replace(c) ==
  /\ c # world.controller
  /\ \E sites \in SUBSET SitesOf[c] :
       Becomes([world EXCEPT !.controller = c, !.sites = sites,
                             !.place = [d \in Devices |-> NoSite]])

WorldChanges ==
  \/ \E x \in Sites : AddSite(x) \/ RemoveSite(x)
  \/ \E d \in Devices : \E x \in Sites \cup {NoSite} : Move(d, x)
  \/ \E d \in Devices, v \in DeviceStates : Turn(d, v)
  \/ \E c \in Controllers : Replace(c)

Next == (\E e \in Environment : Start(e)) \/ Stop \/ Call \/ Step \/ WorldChanges

Spec == Init /\ [][Next]_vars

-----------------------------------------------------------------------------
\* A call has ended in this process.
Over == pc = "idle" /\ answer.kind # "none"

\* A request names no site but the one its call was given, or else the configured
\* one, or else one that has been the controller's only site since the process
\* started: "now" cannot be said, for the first such site is kept for good
\* (client.py:397), and a site_id given to one call means nothing to the next.
EverySiteIsJustified ==
  \A x \in asked :
    IF args.site # NoSite THEN x = args.site
    ELSE IF settings.site # NoSite THEN x = settings.site
    ELSE x \in only

\* The two values that are kept for good, filled at different moments, speak of
\* the same controller: a kept site is one of the controller whose id is kept,
\* also when another controller has come to the address in between.
CachesAgree ==
  site # NoSite /\ settings.site = NoSite => id # NoId /\ site \in SitesOf[id]

\* The two auth worlds never mix (client.py:3-27), whatever pairs of credentials
\* are set: a server's requests go to the API of its mode, or to /api/info.
ModesNeverMix ==
  IF settings = NoSettings THEN sent = {} ELSE sent \subseteq {"info", settings.mode}

\* Each refusal is given exactly where it is documented, before anything is sent:
\* validation for a malformed MAC, FeatureUnavailableError for the legacy tools
\* of an Open API server (exceptions.py:80-83), ConfigError for its missing site.
\* A server that load_settings let start never lacks credentials.
RefusalsAreExact ==
  Over =>
    LET wellFormed == args.mac \notin BadMacs
    IN /\ answer.kind = "validation" <=> ~wellFormed
       /\ answer.kind = "feature" <=> wellFormed /\ ~IsLegacy /\ args.tool \in LegacyTools
       /\ answer.kind = "config" <=>
            /\ wellFormed /\ ~IsLegacy
            /\ args.tool \in {"list_devices", "get_device_detail"}
            /\ args.site = NoSite /\ settings.site = NoSite
       /\ answer.kind \in Refusals => sent = {}

\* What a normalised row may say of a device in state v: the truth, or nothing.
\* A text gives the uptime to the minute; on 5 GHz only the frequency counts.
Tells(r, v) ==
  /\ r.connected \in {"unknown", IF v.uptime > 0 THEN "yes" ELSE "no"}
  /\ r.uptime \in {Unknown, v.uptime, v.uptime - (v.uptime % 60)}
  /\ \/ r.wifi2g.freq = Unknown
     \/ r.wifi2g = [channel |-> v.chan2g, freq |-> FreqOf("2g", v.chan2g)]
  /\ r.wifi5g.freq \in {Unknown, FreqOf("5g", v.chan5g)}

\* The devices a call should have returned, had it seen the world as w.
Due(w) ==
  { d \in Devices : /\ w.place[d] = target
                    /\ args.mac \in {NoMac, d}
                    /\ args.tool = "get_wifi_summary" => d \in Aps }

\* The rows a call returns are those of the site's devices it asked for, and what
\* they say was true at one moment while the call ran, in either auth mode and in
\* whatever shape the controller sent them.
Truthful(rows) ==
  \E w \in during : /\ { r.mac : r \in rows } = Due(w)
                    /\ \A r \in rows : Tells(r, w.state[r.mac])

AnswersAreTruthful == Over /\ answer.kind = "rows" => Truthful(answer.rows)

\* The device was not on the site the call resolved, at one moment at least.
WasAbsent(m) == \E w \in during : w.place[m] # target

\* An error has its reason in what the controller was while the call ran: more or
\* fewer sites than one, a device that was not on the site, a row with a status
\* that is not a number.  An absent field is no reason.  Of get_wifi_summary's
\* not-found this is so for access points only: see NotFoundMeansAbsent.
ErrorsAreEarned ==
  Over =>
    /\ answer.kind = "ambiguous" =>
         /\ args.site = NoSite /\ settings.site = NoSite
         /\ \E w \in during : Cardinality(w.sites) # 1
    /\ answer.kind = "notfound" /\ (args.tool = "get_device_detail" \/ args.mac \in Aps) =>
         WasAbsent(args.mac)
    /\ answer.kind = "internal" => garbled

\* What DeviceNotFoundError says (exceptions.py:68), of both tools that raise it:
\* the device does not exist on the site.
NotFoundMeansAbsent == Over /\ answer.kind = "notfound" => WasAbsent(args.mac)

\* Unknown is for what the controller has not sent: of a row whose fields are in
\* one of the documented forms, every field is read, in either auth mode.
CompleteRowsAreRead ==
  settings # NoSettings =>
    \A d \in Devices, shape \in {"full", "old"} :
      LET up == world.state[d].uptime > 0
          r == NormalizeDevice(RawRow(d, shape), settings.mode)
      IN /\ r.connected = IF up THEN "yes" ELSE "no"
         /\ up => r.uptime # Unknown
         /\ up /\ IsLegacy /\ d \in Aps => r.wifi2g.freq # Unknown /\ r.wifi5g.freq # Unknown

-----------------------------------------------------------------------------
(***************************************************************************)
(* The inductive invariant behind these properties.                        *)
(***************************************************************************)

WorldOK == OwnSites(world) /\ (pc # "idle" => world \in during)

\* A running server has the credentials of its mode, and its kept site is the
\* configured one or, in legacy mode, one it may keep.  Without a server there is
\* nothing.
ServerOK ==
  IF settings = NoSettings
  THEN site = NoSite /\ sent = {} /\ asked = {} /\ ~Over
  ELSE /\ Single(world) \subseteq only
       /\ (IF IsLegacy THEN Legacy ELSE OpenApi) \subseteq settings.creds
       /\ ~IsLegacy \/ settings.site # NoSite => site = settings.site
       /\ settings.site = NoSite /\ site # NoSite => site \in only

\* The sites a call may name.
Justified(x) ==
  IF args.site # NoSite THEN x = args.site
  ELSE IF settings.site # NoSite THEN x = settings.site
  ELSE x \in only

\* What a call that is under way has been checked for.
CallOK ==
  pc # "idle" =>
    /\ answer = NoAnswer
    /\ args.mac \notin BadMacs
    /\ args.tool \in LegacyTools => IsLegacy
    /\ pc \in {"select", "detail"} => IsLegacy
    /\ pc = "info" => args.tool = "get_controller_info"
    /\ pc = "sites" => args.tool = "list_sites"
    /\ pc \in {"list", "select", "detail"} =>
         args.tool \notin {"get_controller_info", "list_sites"}
    /\ args.tool = "get_device_detail" => args.mac # NoMac
    /\ args.tool = "list_devices" => args.mac = NoMac
    /\ pc = "detail" => args.tool = "get_device_detail" /\ found.mac \in Devices
    /\ pc = "select" => args.site = NoSite /\ settings.site = NoSite
    /\ ~IsLegacy /\ pc = "list" => args.site # NoSite \/ settings.site # NoSite
    /\ target # NoSite => Justified(target)
    /\ pc = "detail" /\ IsConnected(found, settings.mode) = "raises" => garbled

\* The row a detail falls back on is the device's, and was true while the call ran.
FoundOK ==
  pc = "detail" =>
    /\ found.mac = args.mac
    /\ IsConnected(found, settings.mode) # "raises" =>
         Truthful({NormalizeDevice(found, settings.mode)})

IInv ==
  /\ TypeOK /\ WorldOK /\ ServerOK /\ CallOK /\ FoundOK
  /\ EverySiteIsJustified /\ CachesAgree /\ ModesNeverMix
  /\ RefusalsAreExact /\ AnswersAreTruthful /\ ErrorsAreEarned
=============================================================================
