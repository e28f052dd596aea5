---------------------------- MODULE ReadToolsProofs ----------------------------
(***************************************************************************)
(* Proofs about ReadTools, for any controllers, sites, devices, device     *)
(* states and environments, and any number of changes around the server.   *)
(***************************************************************************)
EXTENDS ReadTools, FormattingProofs, FiniteSetTheorems, TLAPS

(***************************************************************************)
(* Settings: a server starts with both halves of its mode's credentials.   *)
(***************************************************************************)
LEMMA SettingsLoaded ==
  ASSUME NEW e \in Environment
  PROVE  /\ LoadSettings(e) \in SettingsType \cup {NoSettings}
         /\ LoadSettings(e) # NoSettings =>
              /\ LoadSettings(e).site = e.site
              /\ (IF LoadSettings(e).mode = "legacy" THEN Legacy ELSE OpenApi)
                   \subseteq LoadSettings(e).creds
         /\ e.site \in Sites \cup {NoSite} /\ e.id \in Controllers \cup {NoId}
<1>0. /\ e.site \in EnvSites \cup {NoSite} /\ e.id \in EnvIds \cup {NoId}
      /\ e.given \subseteq Credentials \cup {"OMADA_BASE_URL"}
  BY DEF Environment
<1>1. CASE ConfigError(e)
  BY <1>0, <1>1, SettingsAssumption DEF LoadSettings
<1>2. CASE ~ConfigError(e)
  <2>1. LoadSettings(e) = [mode |-> AuthMode(e), creds |-> e.given \cap Credentials,
                           site |-> e.site, id |-> e.id]
    BY <1>2 DEF LoadSettings
  <2>2. AuthMode(e) \in {"legacy", "openapi"}
    BY DEF AuthMode
  <2>3. LoadSettings(e) \in SettingsType
    BY <2>1, <2>2, <1>0 DEF SettingsType
  <2>4. (IF AuthMode(e) = "legacy" THEN Legacy ELSE OpenApi) \subseteq e.given \cap Credentials
    BY <1>2 DEF ConfigError, AuthMode, Credentials
  <2> QED
    BY <2>1, <2>3, <2>4, <1>0, SettingsAssumption
<1> QED
  BY <1>1, <1>2

(***************************************************************************)
(* Rows: a list has exactly the devices of the site, and only a status     *)
(* that is not a number makes a row fail.                                  *)
(***************************************************************************)
LEMMA RowFails ==
  ASSUME NEW d, NEW shape \in Shapes
  PROVE  /\ RawRow(d, shape).mac = d
         /\ IsConnected(RawRow(d, shape), settings.mode) = "raises" =>
              RawRow(d, shape).status = NotANumber
  BY DEF RawRow, IsConnected, Holds, NotANumber, Absent, IsLegacy, Shapes

LEMMA ListRows ==
  ASSUME NEW x, NEW rows \in ListOf(x)
  PROVE  /\ { r.mac : r \in rows } = Here(x)
         /\ \A r \in rows : IsConnected(r, settings.mode) = "raises" => r.status = NotANumber
<1>1. PICK shape \in [Here(x) -> Shapes] : rows = { RawRow(d, shape[d]) : d \in Here(x) }
  BY DEF ListOf
<1>2. \A d \in Here(x) :
        /\ RawRow(d, shape[d]).mac = d
        /\ IsConnected(RawRow(d, shape[d]), settings.mode) = "raises" =>
             RawRow(d, shape[d]).status = NotANumber
  BY <1>1, RowFails
<1> QED
  BY <1>1, <1>2

LEMMA NormalizedRows ==
  ASSUME NEW rows, { r.mac : r \in rows } \subseteq Devices
  PROVE  /\ Normalized(rows).kind \in {"internal", "rows"}
         /\ \A r \in Normalized(rows).rows : r.mac \in Devices
         /\ Normalized(rows).kind = "internal" =>
              \E r \in rows : IsConnected(r, settings.mode) = "raises"
  BY DEF Normalized, Error, NormalizeDevice

\* A row without its uptimes.
Cut(r) == [r EXCEPT !.uptimeLong = Absent, !.uptime = <<>>]

LEMMA SummaryRows ==
  ASSUME NEW rows, \A r \in rows : \E d \in Devices, s \in Shapes : r = RawRow(d, s)
  PROVE  /\ Summary(rows).kind \in {"internal", "rows"}
         /\ \A r \in Summary(rows).rows : r.mac \in Devices
         /\ Summary(rows).kind = "internal" =>
              \E r \in rows : IsConnected(r, settings.mode) = "raises"
<1> DEFINE cut == { Cut(r) : r \in rows }
<1>1. \A r \in rows : /\ Cut(r).mac = r.mac /\ r.mac \in Devices
                      /\ Cut(r).status = r.status
                      /\ Cut(r).statusCategory = r.statusCategory
  BY DEF RawRow, Cut
<1>2. { r.mac : r \in cut } \subseteq Devices
  BY <1>1
<1>3. \A r \in rows : IsConnected(Cut(r), settings.mode) = IsConnected(r, settings.mode)
  BY <1>1 DEF IsConnected
<1>4. Summary(rows) = Normalized(cut)
  BY DEF Summary, Cut
<1> HIDE DEF cut
<1>5. /\ Normalized(cut).kind \in {"internal", "rows"}
      /\ \A r \in Normalized(cut).rows : r.mac \in Devices
      /\ Normalized(cut).kind = "internal" =>
           \E r \in cut : IsConnected(r, settings.mode) = "raises"
  BY <1>2, NormalizedRows
<1>6. (\E r \in cut : IsConnected(r, settings.mode) = "raises") =>
        \E r \in rows : IsConnected(r, settings.mode) = "raises"
  BY <1>3 DEF cut
<1> QED
  BY <1>4, <1>5, <1>6

(***************************************************************************)
(* What rows say is true: the two modes, the four shapes of a row and the  *)
(* texts in it.                                                            *)
(***************************************************************************)
\* The uptime of a row is read to the minute.
LEMMA UptimeRead ==
  ASSUME NEW n \in Nat
  PROVE  ParseUptimeString(UptimeText(n)) = n - (n % 60)
<1> DEFINE h == n \div 3600
           m == (n % 3600) \div 60
<1>1. h \in Nat /\ m \in Nat
  OBVIOUS
<1>2. CASE n < 3600
  <2>1. UptimeText(n) = <<Num(m), Unit(60)>>
    BY <1>2 DEF UptimeText
  <2>2. m * 60 = n - (n % 60)
    BY <1>2
  <2> QED
    BY <1>1, <2>1, <2>2, MinutesRead
<1>3. CASE ~(n < 3600)
  <2>1. UptimeText(n) = <<Num(h), Unit(3600), Gap, Num(m), Unit(60)>>
    BY <1>3 DEF UptimeText
  <2>2. h * 3600 + (m * 60) = n - (n % 60)
    OBVIOUS
  <2> HIDE DEF h, m
  <2> QED
    BY <1>1, <2>1, <2>2, HoursRead
<1> QED
  BY <1>2, <1>3

\* What a row says once it is normalised, with or without its uptimes: the truth
\* about the device, or nothing.
LEMMA RowTells ==
  ASSUME world \in World, NEW d \in Devices, NEW shape \in Shapes, NEW row,
         \/ row = RawRow(d, shape)
         \/ row = [RawRow(d, shape) EXCEPT !.uptimeLong = Absent, !.uptime = <<>>],
         IsConnected(row, settings.mode) # "raises"
  PROVE  /\ Tells(NormalizeDevice(row, settings.mode), world.state[d])
         /\ NormalizeDevice(row, settings.mode).mac = d
<1> DEFINE v == world.state[d]
           up == v.uptime > 0
<1>1. v \in DeviceStates /\ v.uptime \in Nat
  BY WorldAssumption DEF World
<1>2. /\ row.mac = d
      /\ row.statusCategory = IF IsLegacy /\ shape = "full" THEN IF up THEN 1 ELSE 0 ELSE Absent
      /\ row.status = IF shape = "bare" THEN Absent
                      ELSE IF shape = "garbled" THEN NotANumber
                      ELSE IF ~up THEN 0 ELSE IF IsLegacy THEN 14 ELSE 1
      /\ row.uptimeLong \in {Absent, NotANumber, v.uptime}
      /\ row.uptime = <<>> \/ row.uptime = UptimeText(v.uptime)
      /\ row.wp2g \in {<<>>, OffText, ChannelText("2g", v.chan2g)}
      /\ row.wp5g \in {<<>>, OffText, ChannelText("5g", v.chan5g)}
  <2>1. /\ row.mac = RawRow(d, shape).mac
        /\ row.statusCategory = RawRow(d, shape).statusCategory
        /\ row.status = RawRow(d, shape).status
        /\ row.uptimeLong \in {RawRow(d, shape).uptimeLong, Absent}
        /\ row.uptime \in {RawRow(d, shape).uptime, <<>>}
        /\ row.wp2g = RawRow(d, shape).wp2g
        /\ row.wp5g = RawRow(d, shape).wp5g
    BY DEF RawRow
  <2>2. /\ RawRow(d, shape).mac = d
        /\ RawRow(d, shape).statusCategory =
             IF IsLegacy /\ shape = "full" THEN IF up THEN 1 ELSE 0 ELSE Absent
        /\ RawRow(d, shape).status =
             IF shape = "bare" THEN Absent
             ELSE IF shape = "garbled" THEN NotANumber
             ELSE IF ~up THEN 0 ELSE IF IsLegacy THEN 14 ELSE 1
    BY DEF RawRow
  <2>3. /\ RawRow(d, shape).uptimeLong \in {Absent, NotANumber, v.uptime}
        /\ RawRow(d, shape).uptime \in {<<>>, UptimeText(v.uptime)}
    BY DEF RawRow
  <2>4. /\ RawRow(d, shape).wp2g \in {<<>>, OffText, ChannelText("2g", v.chan2g)}
        /\ RawRow(d, shape).wp5g \in {<<>>, OffText, ChannelText("5g", v.chan5g)}
    BY DEF RawRow
  <2> QED
    BY <2>1, <2>2, <2>3, <2>4
<1> HIDE DEF v
<1>3. IsConnected(row, settings.mode) \in {"unknown", IF v.uptime > 0 THEN "yes" ELSE "no"}
  BY <1>2 DEF IsConnected, Holds, IsLegacy, Absent, NotANumber, Shapes
<1>4. UptimeSeconds(row) \in {Unknown, v.uptime, v.uptime - (v.uptime % 60)}
  BY <1>1, <1>2, UptimeRead, NoUptimeRead DEF UptimeSeconds
<1>5. \A band, chan : ParseChannel(ChannelText(band, chan))
                        = [channel |-> Index(band, chan), freq |-> FreqOf(band, chan)]
  BY ChannelRead DEF ChannelText
<1>6. /\ \/ ParseChannel(row.wp2g).freq = Unknown
         \/ ParseChannel(row.wp2g) = [channel |-> v.chan2g, freq |-> FreqOf("2g", v.chan2g)]
      /\ ParseChannel(row.wp5g).freq \in {Unknown, FreqOf("5g", v.chan5g)}
  BY <1>2, <1>5, NoChannelRead DEF OffText, Index
<1> QED
  BY <1>2, <1>3, <1>4, <1>6 DEF Tells, NormalizeDevice, v

\* A row whose fields have their documented forms is read in full.
LEMMA RowIsRead ==
  ASSUME TypeOK, settings # NoSettings, NEW d \in Devices, NEW shape \in {"full", "old"}
  PROVE  LET up == world.state[d].uptime > 0
             r == NormalizeDevice(RawRow(d, shape), settings.mode)
         IN /\ r.connected = IF up THEN "yes" ELSE "no"
            /\ up => r.uptime # Unknown
            /\ up /\ IsLegacy /\ d \in Aps => r.wifi2g.freq # Unknown /\ r.wifi5g.freq # Unknown
<1> DEFINE v == world.state[d]
           row == RawRow(d, shape)
<1>1. /\ v.uptime \in Nat /\ v.chan2g \in Channels2g /\ v.chan5g \in Channels5g
      /\ settings.mode \in {"legacy", "openapi"}
  BY WorldAssumption DEF TypeOK, World, SettingsType
<1>2. /\ row.statusCategory \in {Absent, IF v.uptime > 0 THEN 1 ELSE 0}
      /\ row.statusCategory # Absent => IsLegacy
      /\ row.status = IF v.uptime > 0 THEN IF IsLegacy THEN 14 ELSE 1 ELSE 0
      /\ row.uptimeLong \in {Absent, v.uptime}
      /\ v.uptime > 0 => row.uptime = UptimeText(v.uptime)
  BY DEF RawRow
<1>3. v.uptime > 0 /\ IsLegacy /\ d \in Aps =>
        row.wp2g = ChannelText("2g", v.chan2g) /\ row.wp5g = ChannelText("5g", v.chan5g)
  BY DEF RawRow
<1> HIDE DEF v, row
<1>4. IsConnected(row, settings.mode) = IF v.uptime > 0 THEN "yes" ELSE "no"
  BY <1>1, <1>2 DEF IsConnected, Holds, Absent, NotANumber, IsLegacy
<1>5. v.uptime > 0 => UptimeSeconds(row) # Unknown
  BY <1>1, <1>2, UptimeRead DEF UptimeSeconds, Unknown, Absent, NotANumber
<1>6. \A band, chan : ParseChannel(ChannelText(band, chan))
                        = [channel |-> Index(band, chan), freq |-> FreqOf(band, chan)]
  BY ChannelRead DEF ChannelText
<1>7. FreqOf("2g", v.chan2g) # Unknown /\ FreqOf("5g", v.chan5g) # Unknown
  BY <1>1 DEF FreqOf, Unknown, Channels2g, Channels5g
<1>8. v.uptime > 0 /\ IsLegacy /\ d \in Aps =>
        ParseChannel(row.wp2g).freq # Unknown /\ ParseChannel(row.wp5g).freq # Unknown
  BY <1>3, <1>6, <1>7
<1> QED
  BY <1>4, <1>5, <1>8 DEF NormalizeDevice, v, row

\* The rows a list is normalised to are truthful, if it was cut to the devices that
\* are due.
LEMMA TruthfulRows ==
  ASSUME world \in World, world \in during, NEW rows,
         { r.mac : r \in rows } = Due(world),
         \A r \in rows : \E d \in Devices, s \in Shapes : r \in {RawRow(d, s), Cut(RawRow(d, s))},
         Normalized(rows).kind = "rows"
  PROVE  Truthful(Normalized(rows).rows)
<1>1. \A r \in rows : IsConnected(r, settings.mode) # "raises"
  BY DEF Normalized, Error
<1>2. Normalized(rows).rows = { NormalizeDevice(r, settings.mode) : r \in rows }
  BY <1>1 DEF Normalized
<1>3. ASSUME NEW r \in rows
      PROVE  /\ NormalizeDevice(r, settings.mode).mac = r.mac
             /\ Tells(NormalizeDevice(r, settings.mode), world.state[r.mac])
  <2>1. PICK d \in Devices, s \in Shapes : r \in {RawRow(d, s), Cut(RawRow(d, s))}
    OBVIOUS
  <2>2. /\ Tells(NormalizeDevice(r, settings.mode), world.state[d])
        /\ NormalizeDevice(r, settings.mode).mac = d
    BY <1>1, <2>1, RowTells DEF Cut
  <2>3. NormalizeDevice(r, settings.mode).mac = r.mac
    BY DEF NormalizeDevice
  <2> QED
    BY <2>2, <2>3
<1> DEFINE told == { NormalizeDevice(r, settings.mode) : r \in rows }
<1>4. { t.mac : t \in told } = Due(world)
  BY <1>3
<1>5. \A t \in told : Tells(t, world.state[t.mac])
  BY <1>3
<1> HIDE DEF told
<1>6. Truthful(told)
  BY <1>4, <1>5 DEF Truthful
<1> QED
  BY <1>2, <1>6 DEF told

(***************************************************************************)
(* A tool call either refuses its arguments or has a request to make, and  *)
(* what it then knows does not depend on the tool.                         *)
(***************************************************************************)
Refused ==
  /\ pc' = "idle" /\ target' = NoSite
  /\ \/ answer' = Error("validation") /\ args'.mac \in BadMacs
     \/ /\ answer' = Error("feature") /\ args'.mac \notin BadMacs
        /\ ~IsLegacy /\ args'.tool \in LegacyTools
     \/ /\ answer' = Error("config") /\ args'.mac \notin BadMacs
        /\ ~IsLegacy /\ args'.tool \in {"list_devices", "get_device_detail"}
        /\ args'.site = NoSite /\ site = NoSite

Begun ==
  /\ pc' \in {"info", "sites", "select", "list"}
  /\ answer' = NoAnswer
  /\ args'.mac \notin BadMacs
  /\ args'.tool \in LegacyTools => IsLegacy
  /\ args'.tool = "get_device_detail" => args'.mac # NoMac
  /\ args'.tool = "list_devices" => args'.mac = NoMac
  /\ pc' = "info" => args'.tool = "get_controller_info" /\ target' = NoSite
  /\ pc' = "sites" => args'.tool = "list_sites" /\ target' = NoSite
  /\ pc' = "select" => IsLegacy /\ args'.site = NoSite /\ site = NoSite /\ target' = NoSite
  /\ pc' = "list" => /\ target' = IF args'.site # NoSite THEN args'.site ELSE site
                     /\ target' # NoSite
  /\ pc' \in {"select", "list"} => args'.tool \notin {"get_controller_info", "list_sites"}

Entered ==
  /\ settings # NoSettings /\ pc = "idle"
  /\ args'.tool \in Tools /\ args'.site \in Sites \cup {NoSite}
  /\ args'.mac \in Devices \cup BadMacs \cup {NoMac}
  /\ found' = NoRow
  /\ sent' = {} /\ asked' = {} /\ garbled' = FALSE /\ during' = {world}
  /\ UNCHANGED <<world, events, settings, id, site, only>>

LEMMA CallShape ==
  ASSUME Call
  PROVE  Entered /\ (Refused \/ Begun)
<1> USE ReadAssumption, SettingsAssumption
        DEF Enter, Ask, Refuse, ResolveSiteId, Entered, Refused, Begun, Tools, LegacyTools
<1>1. CASE GetControllerInfo
  BY <1>1 DEF GetControllerInfo
<1>2. CASE ListSites
  BY <1>2 DEF ListSites
<1>3. ASSUME NEW x \in Sites \cup {NoSite}, ListDevices(x) PROVE Entered /\ (Refused \/ Begun)
  BY <1>3 DEF ListDevices
<1>4. ASSUME NEW x \in Sites \cup {NoSite}, GetClients(x) PROVE Entered /\ (Refused \/ Begun)
  BY <1>4 DEF GetClients
<1>5. ASSUME NEW x \in Sites \cup {NoSite}, GetAlerts(x) PROVE Entered /\ (Refused \/ Begun)
  BY <1>5 DEF GetAlerts
<1>6. ASSUME NEW x \in Sites \cup {NoSite}, NEW m \in Devices \cup BadMacs \cup {NoMac},
             GetDeviceDetail(m, x)
      PROVE  Entered /\ (Refused \/ Begun)
  BY <1>6 DEF GetDeviceDetail
<1>7. ASSUME NEW x \in Sites \cup {NoSite}, NEW m \in Devices \cup BadMacs \cup {NoMac},
             GetWifiSummary(x, m)
      PROVE  Entered /\ (Refused \/ Begun)
  BY <1>7 DEF GetWifiSummary
<1> QED
  BY <1>1, <1>2, <1>3, <1>4, <1>5, <1>6, <1>7 DEF Call

(***************************************************************************)
(* A request either ends the call with an answer that is accounted for, or *)
(* takes it one request further.                                           *)
(***************************************************************************)
Stepped ==
  /\ pc # "idle" /\ settings # NoSettings
  /\ sent \subseteq sent' /\ sent' \subseteq sent \cup {"info", settings.mode}
  /\ asked' \subseteq asked \cup ({target} \ {NoSite})
  /\ garbled' \in BOOLEAN /\ (garbled => garbled')
  /\ UNCHANGED <<world, events, settings, args, during, only>>

Replied ==
  /\ pc' = "idle"
  /\ \/ answer'.kind \in {"failed", "done"} /\ answer'.rows = {}
     \/ /\ answer'.kind \in {"rows", "internal"} /\ \A r \in answer'.rows : r.mac \in Devices
        /\ answer'.kind = "internal" => garbled'
        /\ answer'.kind = "rows" => Truthful(answer'.rows)
     \/ /\ answer' = Error("notfound") /\ args.mac \in Devices /\ Due(world) = {}
        /\ args.tool \in {"get_device_detail", "get_wifi_summary"}
     \/ answer' = Error("ambiguous") /\ pc = "select" /\ Cardinality(world.sites) # 1
  /\ UNCHANGED <<id, site, target, found>>

Discovered ==
  /\ id = NoId /\ id' = world.controller
  /\ UNCHANGED <<site, call, garbled>>

Selected ==
  /\ pc = "select" /\ pc' = "list"
  /\ Single(world) # {} /\ site' \in Single(world) /\ target' = site'
  /\ answer' = NoAnswer
  /\ id = world.controller /\ UNCHANGED <<id, found, garbled>>

LookedUp ==
  /\ pc = "list" /\ args.tool = "get_device_detail" /\ IsLegacy
  /\ pc' = "detail" /\ answer' = NoAnswer
  /\ found'.mac \in Devices /\ found'.mac = args.mac
  /\ IsConnected(found', settings.mode) = "raises" => garbled'
  /\ IsConnected(found', settings.mode) # "raises" =>
       Truthful({NormalizeDevice(found', settings.mode)})
  /\ UNCHANGED <<id, site, target>>

\* A call under way has the credentials of the API it asks, and that is its mode's.
LEMMA RightApi ==
  ASSUME IInv, pc \in Asking \ {"info"}
  PROVE  Api = settings.mode /\ HasCredentials /\ settings # NoSettings
<1>1. settings # NoSettings /\ settings \in SettingsType
  BY DEF IInv, TypeOK, Asking
<1>2. settings.mode \in {"legacy", "openapi"}
  BY <1>1 DEF SettingsType
<1>3. Api = settings.mode
  BY <1>2 DEF IInv, CallOK, Api, ListApi, IsLegacy, Asking, LegacyTools
<1>4. HasCredentials
  BY <1>1, <1>2, <1>3 DEF IInv, ServerOK, HasCredentials, IsLegacy
<1> QED
  BY <1>1, <1>3, <1>4

\* What an answered request has in common with all others.
LEMMA AnsweredShape ==
  ASSUME IInv, Answered
  PROVE  /\ pc # "idle" /\ settings # NoSettings
         /\ sent \subseteq sent' /\ sent' \subseteq sent \cup {"info", settings.mode}
         /\ asked' \subseteq asked \cup ({target} \ {NoSite})
         /\ UNCHANGED <<world, events, settings, args, during, only, id>>
         /\ id = world.controller
BY RightApi DEF Answered, Sends, Asking

LEMMA ListedShape ==
  ASSUME IInv, NEW tools, Listed(tools), UNCHANGED garbled \/ garbled' = TRUE
  PROVE  Stepped /\ UNCHANGED <<id, site>> /\ args.tool \in tools /\ pc = "list"
BY AnsweredShape DEF Listed, Stepped, IInv, TypeOK

LEMMA NotesShape ==
  ASSUME IInv, NEW rows, Notes(rows)
  PROVE  /\ garbled' \in BOOLEAN /\ (garbled => garbled')
         /\ (\E r \in rows : r.status = NotANumber) => garbled'
BY DEF Notes, IInv, TypeOK

LEMMA StepShape ==
  ASSUME IInv, Step
  PROVE  Stepped /\ (Replied \/ Discovered \/ Selected \/ LookedUp)
<1> USE DEF Reply, Error, Done
<1>1. CASE Discover
  BY <1>1, RightApi DEF Discover, Stepped, Discovered, Asking, IInv, TypeOK, call
<1>2. CASE RequestFails
  <2>1. CASE pc = "info"
    BY <1>2, <2>1 DEF RequestFails, Stepped, Replied, server, IInv, TypeOK
  <2>2. CASE pc # "info"
    <3>1. pc \in Asking \ {"info"} /\ HasCredentials /\ Api = settings.mode /\ settings # NoSettings
      BY <1>2, <2>2, RightApi DEF RequestFails
    <3> QED
      BY <1>2, <2>2, <3>1 DEF RequestFails, Stepped, Replied, server, Sends, Asking, IInv, TypeOK
  <2> QED
    BY <2>1, <2>2
<1>3. CASE ControllerInfo
  BY <1>3 DEF ControllerInfo, Stepped, Replied, server, IInv, TypeOK
<1>4. CASE SitesListed
  BY <1>4, AnsweredShape DEF SitesListed, Stepped, Replied, IInv, TypeOK
<1>5. CASE SiteSelected
  <2>1. Stepped /\ id' = id /\ id = world.controller
    BY <1>5, AnsweredShape DEF SiteSelected, Stepped, IInv, TypeOK
  <2>2. CASE Single(world) # {}
    <3>1. PICK x \in world.sites : site' = x /\ Ask("list", x)
      BY <1>5, <2>2 DEF SiteSelected
    <3> QED
      BY <1>5, <2>1, <2>2, <3>1 DEF SiteSelected, Ask, Selected, Single
  <2>3. CASE Single(world) = {}
    <3>1. Cardinality(world.sites) # 1
      BY <2>3, FS_EmptySet DEF Single
    <3> QED
      BY <1>5, <2>1, <2>3, <3>1 DEF SiteSelected, Replied
  <2> QED
    BY <2>2, <2>3
<1>6. CASE InsightListed
  BY <1>6, ListedShape DEF InsightListed, Replied
<1>7. CASE DevicesListed
  <2>1. PICK rows \in ListOf(target) : Notes(rows) /\ Reply(Normalized(rows))
    BY <1>7 DEF DevicesListed
  <2>2. Stepped /\ UNCHANGED <<id, site, found>>
    BY <1>7, <2>1, AnsweredShape, NotesShape DEF DevicesListed, Listed, Stepped
  <2>3. { r.mac : r \in rows } \subseteq Devices
    BY ListRows DEF Here
  <2>4. /\ Normalized(rows).kind \in {"internal", "rows"}
        /\ \A r \in Normalized(rows).rows : r.mac \in Devices
        /\ Normalized(rows).kind = "internal" =>
             \E r \in rows : IsConnected(r, settings.mode) = "raises"
    BY <2>3, NormalizedRows
  <2>5. Normalized(rows).kind = "internal" => garbled'
    BY <2>1, <2>4, ListRows, NotesShape
  <2>6. { r.mac : r \in rows } = Due(world)
    BY <1>7, ListRows DEF DevicesListed, Listed, IInv, CallOK, Due, Here
  <2>7. \A r \in rows : \E d \in Devices, s \in Shapes : r \in {RawRow(d, s), Cut(RawRow(d, s))}
    BY DEF ListOf, Here
  <2>8. Normalized(rows).kind = "rows" => Truthful(Normalized(rows).rows)
    BY <2>2, <2>6, <2>7, TruthfulRows DEF Stepped, IInv, TypeOK, WorldOK
  <2> QED
    BY <2>1, <2>2, <2>4, <2>5, <2>8 DEF Replied
<1>8. CASE ApsListed
  <2> DEFINE Wanted(rows) == { r \in rows : r.mac \in Aps /\ args.mac \in {NoMac, r.mac} }
  <2>1. PICK rows \in ListOf(target) :
          /\ Notes(Wanted(rows))
          /\ Reply(IF args.mac # NoMac /\ Wanted(rows) = {}
                   THEN Error("notfound") ELSE Summary(Wanted(rows)))
    BY <1>8 DEF ApsListed
  <2>2. /\ Stepped /\ UNCHANGED <<id, site, found>>
        /\ args.tool = "get_wifi_summary"
    BY <1>8, <2>1, AnsweredShape, NotesShape DEF ApsListed, Listed, Stepped
  <2>3. CASE args.mac # NoMac /\ Wanted(rows) = {}
    <3>1. Due(world) = {}
      BY <2>2, <2>3, ListRows DEF Due, Here
    <3>2. args.mac \in Devices
      BY <2>2, <2>3 DEF Stepped, IInv, TypeOK, CallOK
    <3> QED
      BY <2>1, <2>2, <2>3, <3>1, <3>2 DEF Replied
  <2>4. CASE ~(args.mac # NoMac /\ Wanted(rows) = {})
    <3>1. \A r \in Wanted(rows) : \E d \in Devices, s \in Shapes : r = RawRow(d, s)
      BY DEF ListOf, Here
    <3>2. /\ Summary(Wanted(rows)).kind \in {"internal", "rows"}
          /\ \A r \in Summary(Wanted(rows)).rows : r.mac \in Devices
          /\ Summary(Wanted(rows)).kind = "internal" =>
               \E r \in Wanted(rows) : IsConnected(r, settings.mode) = "raises"
      <4> HIDE DEF Wanted
      <4> QED
        BY <3>1, SummaryRows
    <3>3. Summary(Wanted(rows)).kind = "internal" => garbled'
      BY <2>1, <3>2, ListRows, NotesShape
    <3> DEFINE cut == { Cut(r) : r \in Wanted(rows) }
    <3>4. { r.mac : r \in cut } = Due(world)
      <4>1. { r.mac : r \in Wanted(rows) } = Due(world)
        BY <2>2, ListRows DEF Due, Here
      <4>2. \A r \in Wanted(rows) : Cut(r).mac = r.mac
        BY <3>1 DEF RawRow, Cut
      <4> HIDE DEF Wanted
      <4> QED
        BY <4>1, <4>2
    <3>5. \A r \in cut : \E d \in Devices, s \in Shapes : r \in {RawRow(d, s), Cut(RawRow(d, s))}
      <4> HIDE DEF Wanted
      <4> QED
        BY <3>1
    <3>6. Summary(Wanted(rows)) = Normalized(cut)
      BY DEF Summary, Cut
    <3> HIDE DEF cut, Wanted
    <3>7. Summary(Wanted(rows)).kind = "rows" => Truthful(Summary(Wanted(rows)).rows)
      BY <2>2, <3>4, <3>5, <3>6, TruthfulRows DEF Stepped, IInv, TypeOK, WorldOK
    <3> QED
      BY <2>1, <2>2, <2>4, <3>2, <3>3, <3>7 DEF Replied
  <2> QED
    BY <2>3, <2>4
<1>9. CASE DeviceLookedUp
  <2> DEFINE Match(rows) == { r \in rows : r.mac = args.mac }
  <2>1. PICK rows \in ListOf(target) :
          /\ Notes(Match(rows))
          /\ \/ Match(rows) = {} /\ Reply(Error("notfound")) /\ UNCHANGED found
             \/ \E row \in Match(rows) :
                  IF IsLegacy /\ row.mac \in Aps
                  THEN Ask("detail", target) /\ found' = row
                  ELSE Reply(Normalized({row})) /\ UNCHANGED found
    BY <1>9 DEF DeviceLookedUp
  <2>2. /\ Stepped /\ UNCHANGED <<id, site>> /\ pc = "list"
        /\ args.tool = "get_device_detail"
    BY <1>9, <2>1, AnsweredShape, NotesShape DEF DeviceLookedUp, Listed, Stepped
  <2>3. CASE Match(rows) = {} /\ Reply(Error("notfound")) /\ UNCHANGED found
    <3>1. args.mac # NoMac /\ args.mac \in Devices
      BY <2>2 DEF IInv, TypeOK, CallOK
    <3>2. Due(world) = {}
      BY <2>2, <2>3, <3>1, ListRows DEF Due, Here
    <3> QED
      BY <2>2, <2>3, <3>1, <3>2 DEF Replied
  <2>4. ASSUME NEW row \in Match(rows),
               IF IsLegacy /\ row.mac \in Aps
               THEN Ask("detail", target) /\ found' = row
               ELSE Reply(Normalized({row})) /\ UNCHANGED found
        PROVE  Replied \/ LookedUp
    <3>1. row.mac \in Devices
      BY ListRows DEF Here
    <3>2. IsConnected(row, settings.mode) = "raises" => garbled'
      BY <2>1, ListRows, NotesShape
    <3> DEFINE told == {NormalizeDevice(row, settings.mode)}
    <3>5. /\ row.mac = args.mac
          /\ IsConnected(row, settings.mode) # "raises" => Truthful(told)
      <4>1. row.mac = args.mac /\ args.mac # NoMac /\ world.place[row.mac] = target
        BY <2>2, ListRows DEF Here, IInv, CallOK
      <4>2. { r.mac : r \in {row} } = Due(world)
        BY <2>2, <3>1, <4>1 DEF Due
      <4>3. \E d \in Devices, s \in Shapes : row \in {RawRow(d, s), Cut(RawRow(d, s))}
        <5>1. \A r \in rows : \E d \in Devices, s \in Shapes : r = RawRow(d, s)
          BY DEF ListOf, Here
        <5> QED
          BY <5>1
      <4>4. IsConnected(row, settings.mode) # "raises" =>
              Normalized({row}).kind = "rows" /\ Normalized({row}).rows = told
        BY DEF Normalized
      <4> HIDE DEF told
      <4> QED
        BY <2>2, <4>1, <4>2, <4>3, <4>4, TruthfulRows DEF Stepped, IInv, TypeOK, WorldOK
    <3>6. Normalized({row}).kind = "rows" => Truthful(Normalized({row}).rows)
      BY <3>5 DEF Normalized
    <3>3. CASE IsLegacy /\ row.mac \in Aps
      BY <2>2, <2>4, <3>1, <3>2, <3>3, <3>5 DEF Ask, LookedUp
    <3>4. CASE ~(IsLegacy /\ row.mac \in Aps)
      BY <2>2, <2>4, <3>1, <3>2, <3>4, <3>6, NormalizedRows DEF Replied
    <3> QED
      BY <3>3, <3>4
  <2> QED
    BY <2>1, <2>2, <2>3, <2>4
<1>10. CASE DetailAnswered
  <2>1. PICK shape \in Shapes : /\ Notes({RawRow(args.mac, shape)})
                                /\ Reply(Normalized({RawRow(args.mac, shape)}))
    BY <1>10 DEF DetailAnswered
  <2>2. Stepped /\ UNCHANGED <<id, site, found>>
    BY <1>10, <2>1, AnsweredShape, NotesShape DEF DetailAnswered, Stepped
  <2>3. args.mac \in Devices
    BY <1>10 DEF DetailAnswered, IInv, CallOK, TypeOK
  <2>4. /\ RawRow(args.mac, shape).mac \in Devices
        /\ IsConnected(RawRow(args.mac, shape), settings.mode) = "raises" => garbled'
    BY <2>1, <2>3, RowFails, NotesShape
  <2>5. { r.mac : r \in {RawRow(args.mac, shape)} } = Due(world)
    <3>1. RawRow(args.mac, shape).mac = args.mac /\ world.place[args.mac] = target
      BY <1>10, RowFails DEF DetailAnswered
    <3>2. args.tool = "get_device_detail" /\ args.mac # NoMac
      BY <1>10 DEF DetailAnswered, IInv, CallOK
    <3> QED
      BY <2>3, <3>1, <3>2 DEF Due
  <2>6. LET rows == {RawRow(args.mac, shape)}
        IN Normalized(rows).kind = "rows" => Truthful(Normalized(rows).rows)
    BY <2>2, <2>3, <2>5, TruthfulRows DEF Stepped, IInv, TypeOK, WorldOK
  <2> QED
    BY <2>1, <2>2, <2>4, <2>6, NormalizedRows DEF Replied
<1>11. CASE DetailEmpty
  <2>1. Stepped /\ UNCHANGED <<id, site, found, garbled>>
    BY <1>11, AnsweredShape DEF DetailEmpty, Stepped, IInv, TypeOK
  <2>2. found.mac \in Devices /\ (IsConnected(found, settings.mode) = "raises" => garbled)
    BY <1>11 DEF DetailEmpty, IInv, CallOK
  <2>3. Normalized({found}).kind = "rows" => Truthful(Normalized({found}).rows)
    BY <1>11 DEF DetailEmpty, IInv, FoundOK, Normalized, Error
  <2> QED
    BY <1>11, <2>1, <2>2, <2>3, NormalizedRows DEF DetailEmpty, Replied
<1> QED
  BY <1>1, <1>2, <1>3, <1>4, <1>5, <1>6, <1>7, <1>8, <1>9, <1>10, <1>11 DEF Step

\* Whatever happens around the server leaves it a controller with its own sites.
Changed ==
  /\ world' \in World /\ OwnSites(world')
  /\ Becomes(world')

LEMMA WorldShape ==
  ASSUME IInv, WorldChanges
  PROVE  Changed
<1> USE DEF IInv, TypeOK, WorldOK, World, OwnSites, Changed, Becomes
<1>1. ASSUME NEW x \in Sites, AddSite(x) PROVE Changed
  BY <1>1, ReadAssumption DEF AddSite
<1>2. ASSUME NEW x \in Sites, RemoveSite(x) PROVE Changed
  BY <1>2 DEF RemoveSite
<1>3. ASSUME NEW d \in Devices, NEW x \in Sites \cup {NoSite}, Move(d, x) PROVE Changed
  BY <1>3 DEF Move
<1>4. ASSUME NEW d \in Devices, NEW v \in DeviceStates, Turn(d, v) PROVE Changed
  BY <1>4 DEF Turn
<1>5. ASSUME NEW c \in Controllers, Replace(c) PROVE Changed
  <2>1. PICK sites \in SUBSET SitesOf[c] :
          Becomes([world EXCEPT !.controller = c, !.sites = sites,
                                !.place = [d \in Devices |-> NoSite]])
    BY <1>5 DEF Replace
  <2>2. sites \subseteq Sites
    BY ReadAssumption
  <2>3. world' = [controller |-> c, sites |-> sites,
                  place |-> [d \in Devices |-> NoSite], state |-> world.state]
    BY <2>1
  <2>4. world' \in World
    BY <2>2, <2>3
  <2> QED
    BY <2>1, <2>3, <2>4
<1> QED
  BY <1>1, <1>2, <1>3, <1>4, <1>5 DEF WorldChanges

-----------------------------------------------------------------------------
\* The inductive invariant.

LEMMA InitIInv == Init => IInv
<1> SUFFICES ASSUME Init PROVE IInv
  OBVIOUS
<1> USE DEF Init, NoCall, NoAnswer, Error
<1>0. 0 \in 0..MaxEvents
  BY ReadAssumption
<1>1. TypeOK
  <2>1. world \in World /\ events \in 0..MaxEvents /\ during \in SUBSET World
    BY <1>0, WorldAssumption
  <2> QED
    BY <2>1 DEF TypeOK, Tools, Asking, AnswerKinds, Refusals
<1>2. WorldOK /\ ServerOK /\ CallOK /\ FoundOK
  BY WorldAssumption DEF WorldOK, ServerOK, CallOK, FoundOK, Over
<1>3. EverySiteIsJustified /\ CachesAgree /\ ModesNeverMix
  BY DEF EverySiteIsJustified, CachesAgree, ModesNeverMix
<1>4. RefusalsAreExact /\ AnswersAreTruthful /\ ErrorsAreEarned
  BY DEF RefusalsAreExact, AnswersAreTruthful, ErrorsAreEarned, Over
<1> QED
  BY <1>1, <1>2, <1>3, <1>4 DEF IInv

\* A process that has just been started, or stopped, has no call behind it.
LEMMA QuietStep ==
  ASSUME IInv, Quiet, UNCHANGED <<world, events>>,
         \/ settings' = NoSettings /\ id' = NoId /\ site' = NoSite /\ only' = {}
         \/ \E e \in Environment :
              /\ settings' = LoadSettings(e)
              /\ id' = IF LoadSettings(e) = NoSettings THEN NoId ELSE e.id
              /\ site' = IF LoadSettings(e) = NoSettings THEN NoSite ELSE e.site
              /\ only' = Single(world)
  PROVE  IInv'
<1> USE DEF Quiet, NoCall, NoAnswer, Error
<1>1. /\ settings' \in SettingsType \cup {NoSettings}
      /\ id' \in Controllers \cup {NoId} /\ site' \in Sites \cup {NoSite}
      /\ settings' = NoSettings => site' = NoSite
      /\ settings' # NoSettings =>
           /\ site' = settings.site'
           /\ (IF settings.mode' = "legacy" THEN Legacy ELSE OpenApi) \subseteq settings.creds'
           /\ only' = Single(world)
  BY SettingsLoaded
<1>2. only' \subseteq Sites
  BY DEF IInv, TypeOK, World, Single
<1>3. TypeOK'
  BY <1>1, <1>2, ReadAssumption
     DEF IInv, TypeOK, Tools, Asking, AnswerKinds, Refusals
<1>4. WorldOK' /\ ServerOK' /\ CallOK' /\ FoundOK'
  BY <1>1 DEF IInv, WorldOK, ServerOK, CallOK, FoundOK, Over, OwnSites, Single, IsLegacy
<1>5. EverySiteIsJustified' /\ CachesAgree' /\ ModesNeverMix'
  BY <1>1 DEF EverySiteIsJustified, CachesAgree, ModesNeverMix
<1>6. RefusalsAreExact' /\ AnswersAreTruthful' /\ ErrorsAreEarned'
  BY <1>1 DEF RefusalsAreExact, AnswersAreTruthful, ErrorsAreEarned, Over
<1> QED
  BY <1>3, <1>4, <1>5, <1>6 DEF IInv

LEMMA CallStep ==
  ASSUME IInv, Call
  PROVE  IInv'
<1>1. Entered /\ (Refused \/ Begun)
  BY CallShape
<1>2. /\ settings \in SettingsType /\ settings # NoSettings
      /\ settings.mode \in {"legacy", "openapi"}
      /\ settings.site # NoSite => site = settings.site
  BY <1>1 DEF Entered, IInv, TypeOK, ServerOK, SettingsType
<1>3. TypeOK'
  <2>1. /\ world' \in World /\ events' \in 0..MaxEvents /\ during' \in SUBSET World
        /\ settings' \in SettingsType \cup {NoSettings} /\ settings' # NoSettings
        /\ id' \in Controllers \cup {NoId} /\ site' \in Sites \cup {NoSite}
        /\ only' \in SUBSET Sites
    BY <1>1 DEF IInv, TypeOK, Entered
  <2>2. /\ args'.tool \in Tools /\ args'.site \in Sites \cup {NoSite}
        /\ args'.mac \in Devices \cup BadMacs \cup {NoMac}
        /\ found' = NoRow /\ sent' = {} /\ asked' = {} /\ garbled' = FALSE
    BY <1>1 DEF Entered
  <2>3. /\ pc' \in Asking \cup {"idle"} /\ target' \in Sites \cup {NoSite}
        /\ pc' \in {"list", "detail"} => target' # NoSite
    BY <1>1, <2>1, <2>2 DEF Entered, Refused, Begun, Asking
  <2>4. answer'.kind \in AnswerKinds /\ answer'.rows = {}
    BY <1>1 DEF Refused, Begun, Error, NoAnswer, AnswerKinds, Refusals
  <2> QED
    BY <2>1, <2>2, <2>3, <2>4 DEF TypeOK
<1>4. WorldOK'
  BY <1>1 DEF IInv, WorldOK, OwnSites, Entered
<1>5. ServerOK'
  BY <1>1, <1>2 DEF IInv, ServerOK, Entered, Single, IsLegacy
<1>6. CallOK'
  <2>1. CASE Refused
    BY <2>1 DEF Refused, CallOK
  <2>2. CASE Begun
    <3>1. pc' # "idle" /\ pc' # "detail"
      BY <2>2 DEF Begun
    <3>2. target' # NoSite => Justified(target)'
      BY <1>1, <1>2, <2>2 DEF IInv, ServerOK, Justified, Entered, Begun
    <3>3. /\ pc' = "select" => args'.site = NoSite /\ settings'.site = NoSite
          /\ ~IsLegacy' /\ pc' = "list" => args'.site # NoSite \/ settings'.site # NoSite
      BY <1>1, <1>2, <2>2 DEF IInv, ServerOK, Entered, Begun, IsLegacy
    <3> QED
      BY <1>1, <2>2, <3>1, <3>2, <3>3 DEF CallOK, Entered, Begun, IsLegacy
  <2> QED
    BY <1>1, <2>1, <2>2
<1>7. EverySiteIsJustified' /\ CachesAgree' /\ ModesNeverMix'
  BY <1>1, <1>2 DEF IInv, EverySiteIsJustified, CachesAgree, ModesNeverMix, Entered
<1>8. RefusalsAreExact'
  BY <1>1, <1>2 DEF RefusalsAreExact, Over, Entered, Refused, Begun, Error, NoAnswer,
                    IsLegacy, LegacyTools, Refusals
<1>9. ErrorsAreEarned'
  BY <1>1 DEF ErrorsAreEarned, Over, Entered, Refused, Begun, Error, NoAnswer
<1>10. FoundOK' /\ AnswersAreTruthful'
  BY <1>1 DEF FoundOK, AnswersAreTruthful, Over, Entered, Refused, Begun, Error, NoAnswer
<1> QED
  BY <1>3, <1>4, <1>5, <1>6, <1>7, <1>8, <1>9, <1>10 DEF IInv

LEMMA RequestStep ==
  ASSUME IInv, Step
  PROVE  IInv'
<1>1. Stepped /\ (Replied \/ Discovered \/ Selected \/ LookedUp)
  BY StepShape
<1>2. /\ settings \in SettingsType /\ settings.mode \in {"legacy", "openapi"}
      /\ world \in World /\ world \in during /\ world.sites \subseteq SitesOf[world.controller]
  BY <1>1 DEF Stepped, IInv, TypeOK, WorldOK, OwnSites, SettingsType
<1>3. Single(world) \subseteq only /\ Single(world) \subseteq world.sites
      /\ world.sites \subseteq Sites /\ world.controller \in Controllers
  BY <1>1, <1>2 DEF Stepped, IInv, ServerOK, Single, World
<1>4. TypeOK'
  <2>1. /\ world' \in World /\ events' \in 0..MaxEvents
        /\ settings' \in SettingsType \cup {NoSettings}
        /\ args'.tool \in Tools /\ args'.site \in Sites \cup {NoSite}
        /\ args'.mac \in Devices \cup BadMacs \cup {NoMac}
        /\ garbled' \in BOOLEAN /\ during' \in SUBSET World /\ only' \in SUBSET Sites
        /\ settings' # NoSettings
    BY <1>1 DEF Stepped, IInv, TypeOK
  <2>2. sent' \in SUBSET {"info", "legacy", "openapi"} /\ asked' \in SUBSET Sites
    BY <1>1, <1>2 DEF Stepped, IInv, TypeOK
  <2>3. /\ id' \in Controllers \cup {NoId} /\ site' \in Sites \cup {NoSite}
        /\ target' \in Sites \cup {NoSite} /\ pc' \in Asking \cup {"idle"}
    BY <1>1, <1>3 DEF Replied, Discovered, Selected, LookedUp, call, IInv, TypeOK, Asking
  <2>4. found' # NoRow => found'.mac \in Devices
    BY <1>1 DEF Replied, Discovered, Selected, LookedUp, call, IInv, TypeOK
  <2>5. answer'.kind \in AnswerKinds /\ (\A r \in answer'.rows : r.mac \in Devices)
    BY <1>1 DEF Replied, Discovered, Selected, LookedUp, call, IInv, TypeOK,
                AnswerKinds, Error, NoAnswer
  <2>6. pc' \in {"list", "detail"} => target' # NoSite
    BY <1>1, <1>3, SettingsAssumption DEF Replied, Discovered, Selected, LookedUp, call, IInv, TypeOK
  <2> QED
    BY <2>1, <2>2, <2>3, <2>4, <2>5, <2>6 DEF TypeOK
<1>5. WorldOK'
  BY <1>1, <1>2 DEF Stepped, WorldOK, OwnSites
<1>6. ServerOK'
  BY <1>1, <1>3 DEF IInv, ServerOK, CallOK, Stepped, Replied, Discovered, Selected, LookedUp,
                    call, IsLegacy, Single
<1>7. CallOK'
  <2>1. CASE Replied
    BY <2>1 DEF Replied, CallOK
  <2>2. CASE Discovered
    BY <1>1, <2>2 DEF Stepped, Discovered, call, IInv, CallOK, Justified, IsLegacy
  <2>3. CASE Selected
    BY <1>1, <1>3, <2>3 DEF Stepped, Selected, IInv, CallOK, Justified, IsLegacy
  <2>4. CASE LookedUp
    BY <1>1, <2>4 DEF Stepped, LookedUp, IInv, CallOK, Justified, IsLegacy
  <2> QED
    BY <1>1, <2>1, <2>2, <2>3, <2>4
<1>8. EverySiteIsJustified'
  BY <1>1 DEF Stepped, IInv, EverySiteIsJustified, CallOK, Justified
<1>9. CachesAgree'
  BY <1>1, <1>2, <1>3, SettingsAssumption
     DEF Stepped, Replied, Discovered, Selected, LookedUp, IInv, CachesAgree, ServerOK
<1>10. ModesNeverMix'
  BY <1>1 DEF Stepped, IInv, ModesNeverMix
<1>11. RefusalsAreExact'
  BY <1>1 DEF Stepped, Replied, Discovered, Selected, LookedUp, call, IInv, CallOK, TypeOK,
              RefusalsAreExact, Over, Error, NoAnswer, Refusals, IsLegacy, Asking
<1>12. ErrorsAreEarned'
  <2>1. CASE answer' = Error("notfound") /\ Replied
    <3>1. /\ args.mac \in Devices /\ Due(world) = {}
          /\ args.tool \in {"get_device_detail", "get_wifi_summary"}
          /\ UNCHANGED target
      BY <2>1 DEF Replied, Error
    <3>2. args.tool = "get_device_detail" \/ args.mac \in Aps => world.place[args.mac] # target
      BY <3>1 DEF Due
    <3> QED
      BY <1>1, <1>2, <2>1, <3>1, <3>2 DEF Stepped, ErrorsAreEarned, WasAbsent, Error
  <2>2. CASE ~(answer' = Error("notfound") /\ Replied)
    BY <1>1, <1>2, <2>2 DEF Stepped, Replied, Discovered, Selected, LookedUp, call, IInv, CallOK,
                ErrorsAreEarned, Over, Error, NoAnswer
  <2> QED
    BY <2>1, <2>2
<1>13. FoundOK' /\ AnswersAreTruthful'
  <2>1. ASSUME UNCHANGED target, NEW rows, Truthful(rows)
        PROVE  \E w \in during' : /\ { r.mac : r \in rows } = Due(w)'
                                  /\ \A r \in rows : Tells(r, w.state[r.mac])
    <3>1. \A w : Due(w)' = Due(w)
      BY <1>1, <2>1 DEF Stepped, Due
    <3> QED
      BY <1>1, <2>1, <3>1 DEF Stepped, Truthful
  <2>2. CASE Replied
    <3>1. AnswersAreTruthful'
      <4> SUFFICES ASSUME Over', answer'.kind = "rows"
                   PROVE  \E w \in during' : /\ { r.mac : r \in answer'.rows } = Due(w)'
                                            /\ \A r \in answer'.rows : Tells(r, w.state[r.mac])
        BY DEF AnswersAreTruthful, Truthful
      <4>1. Truthful(answer'.rows)
        BY <2>2 DEF Replied, Error
      <4> QED
        BY <2>1, <2>2, <4>1 DEF Replied
    <3> QED
      BY <2>2, <3>1 DEF Replied, FoundOK
  <2>3. CASE Discovered \/ Selected \/ LookedUp
    <3>1. pc' # "idle"
      BY <1>1, <2>3 DEF Stepped, Discovered, Selected, LookedUp, call
    <3>2. FoundOK'
      <4> SUFFICES ASSUME pc' = "detail"
                   PROVE  /\ found'.mac = args'.mac
                          /\ IsConnected(found', settings'.mode) # "raises" =>
                               Truthful({NormalizeDevice(found, settings.mode)})'
        BY DEF FoundOK
      <4> DEFINE told == {NormalizeDevice(found', settings.mode)}
      <4>1. /\ UNCHANGED <<settings, args, target>> /\ found'.mac = args.mac
            /\ IsConnected(found', settings.mode) # "raises" => Truthful(told)
        BY <1>1, <2>3 DEF Stepped, Discovered, Selected, LookedUp, call, IInv, FoundOK
      <4>2. told = {NormalizeDevice(found', settings'.mode)}
        BY <4>1
      <4> HIDE DEF told
      <4> QED
        BY <2>1, <4>1, <4>2 DEF Truthful
    <3> QED
      BY <3>1, <3>2 DEF AnswersAreTruthful, Over
  <2> QED
    BY <1>1, <2>2, <2>3
<1> QED
  BY <1>4, <1>5, <1>6, <1>7, <1>8, <1>9, <1>10, <1>11, <1>12, <1>13 DEF IInv

LEMMA WorldStep ==
  ASSUME IInv, WorldChanges
  PROVE  IInv'
<1>1. Changed
  BY WorldShape
<1>2. Single(world') \subseteq Sites
  BY <1>1 DEF Changed, Single, World
<1>3. TypeOK'
  BY <1>1, <1>2, ReadAssumption DEF Changed, Becomes, server, call, IInv, TypeOK
<1>4. WorldOK'
  BY <1>1 DEF Changed, Becomes, call, WorldOK
<1>5. ServerOK'
  BY <1>1 DEF Changed, Becomes, server, call, IInv, ServerOK, Over, IsLegacy, Single
<1>6. CallOK'
  BY <1>1 DEF Changed, Becomes, server, call, IInv, CallOK, Justified, IsLegacy
<1>7. EverySiteIsJustified' /\ CachesAgree' /\ ModesNeverMix'
  BY <1>1 DEF Changed, Becomes, server, call, IInv, EverySiteIsJustified, CachesAgree, ModesNeverMix
<1>8. RefusalsAreExact'
  BY <1>1 DEF Changed, Becomes, server, call, IInv, RefusalsAreExact, Over, IsLegacy
<1>9. ErrorsAreEarned'
  BY <1>1 DEF Changed, Becomes, server, call, IInv, ErrorsAreEarned, WasAbsent, Over
<1>10. FoundOK' /\ AnswersAreTruthful'
  BY <1>1 DEF Changed, Becomes, server, call, IInv, FoundOK, AnswersAreTruthful, Truthful, Over, Due
<1> QED
  BY <1>3, <1>4, <1>5, <1>6, <1>7, <1>8, <1>9, <1>10 DEF IInv

LEMMA NextIInv == IInv /\ [Next]_vars => IInv'
<1> SUFFICES ASSUME IInv, [Next]_vars PROVE IInv'
  OBVIOUS
<1>1. ASSUME NEW e \in Environment, Start(e) PROVE IInv'
  BY <1>1, QuietStep DEF Start
<1>2. CASE Stop
  BY <1>2, QuietStep DEF Stop
<1>3. CASE Call
  BY <1>3, CallStep
<1>4. CASE Step
  BY <1>4, RequestStep
<1>5. CASE WorldChanges
  BY <1>5, WorldStep
<1>6. CASE UNCHANGED vars
  BY <1>6 DEF vars, server, call, history, IInv, TypeOK, WorldOK, ServerOK, CallOK, Justified,
              EverySiteIsJustified, CachesAgree, ModesNeverMix, RefusalsAreExact, FoundOK,
              AnswersAreTruthful, Truthful, ErrorsAreEarned, WasAbsent, Over, Due, IsLegacy, Single, OwnSites
<1> QED
  BY <1>1, <1>2, <1>3, <1>4, <1>5, <1>6 DEF Next

LEMMA Invariance == Spec => []IInv
BY InitIInv, NextIInv, PTL DEF Spec

-----------------------------------------------------------------------------
\* Types: the settings are ones load_settings accepts, the kept id and site come
\* from the environment or from a controller, and a call with a list to ask for
\* has a site to ask it of.
THEOREM TypeCorrect == Spec => []TypeOK
BY Invariance, PTL DEF IInv

\* Site resolution (client.py:379-400): a request names the site its call was given,
\* else the configured one, else one that has been the only one since the start,
\* whatever the calls, the controllers and their sites, and however they change.
THEOREM SitesJustified == Spec => []EverySiteIsJustified
BY Invariance, PTL DEF IInv

\* The kept id and the kept site (client.py:207, 397) are of the same controller,
\* though they are filled by different requests and the controller may be replaced
\* between any two.
THEOREM CachesConsistent == Spec => []CachesAgree
BY Invariance, PTL DEF IInv

\* The auth mode: no request of a legacy server goes to the Open API and none of an
\* Open API server to the legacy one, whatever pairs of credentials are set.
THEOREM ModesSeparate == Spec => []ModesNeverMix
BY Invariance, PTL DEF IInv

\* A call is refused, before anything is sent, exactly where that is documented.
THEOREM RefusalsExact == Spec => []RefusalsAreExact
BY Invariance, PTL DEF IInv

\* An ambiguous site, an unknown device and an internal error each have their reason
\* in what the controller was, or sent, while the call ran.
THEOREM ErrorsEarned == Spec => []ErrorsAreEarned
BY Invariance, PTL DEF IInv

\* parse_uptime_string and parse_channel (formatting.py:59-121) read every uptime and
\* every channel of the tables in the documented forms, and is_connected every status.
THEOREM CompleteRowsRead == Spec => []CompleteRowsAreRead
<1>1. TypeOK => CompleteRowsAreRead
  BY RowIsRead DEF CompleteRowsAreRead
<1> QED
  BY <1>1, TypeCorrect, PTL

\* The rows a call returns are exactly those of the devices it asked for, as they were
\* at one moment while it ran: in both auth modes (is_connected's two meanings of
\* status), in each shape a row may have, for every uptime and every channel in it.
THEOREM AnswersTruthful == Spec => []AnswersAreTruthful
BY Invariance, PTL DEF IInv
=============================================================================
