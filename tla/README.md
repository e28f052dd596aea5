# A TLA+ verification of mcp-omada

mcp-omada is an MCP server (Python, `src/src/mcp_omada/`) that gives an AI agent
read tools and one write tool, `set_radio_channel`, over the HTTP API of a
TP-Link Omada controller. This directory models what in it is hard to test:
sessions that end under a client that does not know, a write that the controller
may discard, lose or carry out late, several writers on one radio, processes
that are stopped half-way, and a journal that is meant to tell all of it.

Paths below are relative to `src/src/mcp_omada/`.

## 1. The system

### How it runs

One process is one MCP server over stdio. FastMCP (`mcp>=1.2,<2`) runs the
synchronous tool functions one after the other on its event loop, so **the calls
of one process never overlap**. Concurrency comes from elsewhere: one process
per MCP client on the same controller, people in the controller's web interface,
and the controller itself, which ends sessions, discards writes and loses
answers. Nothing is locked or versioned; every two requests of a call are a
window in which the others act. A process may be stopped at any moment. What
survives it is the journal file and whatever the controller has already been
sent.

### Components

| Component | State | Operations | Correct when |
|---|---|---|---|
| Legacy session and requests (`client.py:97-291`) | `_omadac_id`, `_csrf_token` and cookies, `_legacy_logged_in` | `_omadacid`, `_ensure_legacy_login`, `_get_v2`, `_patch_v2` (one re-login and repeat), `_send` | a request ends, is sent at most twice, and one ended session does not fail it |
| Open API token (`client.py:295-343`) | `_access_token`, `_access_token_expiry` | `_ensure_openapi_token`, `_get_openapi` | no request leaves with a token that has run out while the latency stays below the margin; one refused token is replaced |
| Pagination (`client.py:251-264, 345-358`) | none between calls | page by page until a short page, `totalRows` or `MAX_PAGES` | a list that does not change is returned whole and once |
| Sites (`client.py:362-399`) | `_site_id` | `list_sites`, `resolve_site_id` | a call acts on the site it was given, the configured one, or the only one |
| Device lookup and reads (`client.py:403-510`) | none | `list_devices`, `find_device_row`, `get_device_detail`, `get_wifi_summary_rows`, `get_clients`, `get_alerts` | a listed device is found; what is returned was true while the call ran |
| Channel tables (`channels.py`) | constant | `channel_to_freq` | a frequency names one channel of its band |
| Write guard (`guard.py`) | none; works on the controller's radios | `set_radio_channel`: gate, validation, read, PATCH, re-read, verdict | only confirmed calls of enabled servers write; `applied` means the radio was seen on the frequency; others' settings survive |
| Audit journal (`audit.py`, `correlation.py`) | an append-only file, the bound correlation id | `record`, `_sanitize`, `bind` | one event per call that says what the caller was told, without secrets |
| MCP server (`server.py`) | one lazily built client | seven read tools, one write tool, `_safe` | every call ends in a result or a clean error |
| Arguments (`validation.py`), settings (`config.py`), errors (`exceptions.py`) | settings, read once | normalise or refuse | refused before the controller is touched |
| Normalisation (`formatting.py`) | none | `normalize_*`, `parse_*`, `is_connected` | total on the shapes the controller sends |

Interactions: a tool of `server.py` binds a correlation id and calls `client.py`
(reads) or `guard.py` (the write); the guard calls `find_device_row`, `_get_v2`
and `_patch_v2` of the same client, and its decorator calls `audit.record` when
the function has returned or raised. Servers meet only at the controller, and in
the journal file if they share it.

### Hard behaviours

The list, with the line where each bites and the property that covers it, is
`hazards` in `PROJECT.json`. The main ones: the read-modify-write of a radio
without a lock; a PATCH whose answer is lost; the retry after a re-login; a
session that ends unnoticed; a verdict drawn from a re-read that others can
change; a stop between the write and its event; pages read one by one from a
list that changes; a site cached for good.

## 2. Modules

| Module | What it is |
|---|---|
| `RadioChannels` | the channel tables and `channel_to_freq` |
| `LegacySession` | the steps of one authenticated request, as operators over a session's variables |
| `LegacyRequests` | those steps on their own, under every behaviour of the controller, with history variables |
| `RequestContract` | what a client promises about one request, whichever API it goes to, without ids, logins, tokens or clocks; `LegacyRequests` (per server) and `OpenApiToken` implement it |
| `GuardedWrite` | a whole `set_radio_channel` call on several servers, built on `LegacySession` and `RadioChannels`, with the controller's radios, the network, other writers, restarts and the journal |
| `WriteContract` | what `set_radio_channel` promises, without sessions, requests or a re-read; `GuardedWrite` implements it |
| `Pagination` | the two page loops and the device lookup, over a list that changes between pages |
| `OpenApiToken` | the access token cache, its margin and its one retry, against two clocks |
| `Settings` | `load_settings`: which environments start a server, in which auth mode |
| `Formatting` | the normalisation of device rows: connected, uptime, channels |
| `ReadTools` | one server with its seven read tools, from its environment to the rows it returns, built on `Settings` and `Formatting`, beside sites, devices and a controller that change |
| `LegacyRequestsProofs`, `PaginationProofs`, `OpenApiTokenProofs`, `ReadToolsProofs` | the theorems about these modules |
| `FormattingProofs` | lemmas about `Formatting`: what the two patterns read from each form of text the controller sends; `ReadToolsProofs` rests on it |
| `GuardedWriteProofs`, `GuardedWriteLedgerProofs`, `GuardedWriteContractProofs` | those about `GuardedWrite`, each built on the one before: at most one effect; the journal, confirmation and what is resent; verdicts and the refinement of `WriteContract` |
| `MCLegacyRequests`, `MCGuardedWrite`, `MCPagination`, `MCOpenApiToken`, `MCReadTools` | values for TLC |

`Pagination` and `OpenApiToken` stand beside the core: `GuardedWrite` counts the
pages of its two lists (`NextPage`), but the controller decides when a list ends and
`Find` may find or miss any device, which covers what `Pagination` says of a lookup;
and writes use the legacy session only. `OpenApiToken` is to the Open API what
`LegacyRequests` is to the legacy API: `_get_v2`, `_patch_v2` and `_get_openapi`
are one pattern written three times, and `RequestContract` states it once. `ReadTools` takes from all three what a
tool can see of them: a request is answered or raises, and a list is complete,
for it is shorter than a page there.

### State and actions against the code

`LegacySession`: `oid[s]` is whether `_omadac_id` is set, `loggedIn[s]` is
`_legacy_logged_in`, `att[s]` is `_retried` (1 is False). `live[s]` is the
controller's: whether it would accept the cookie and token the client holds.
`Discover` and `Login` are the two halves of `_ensure_legacy_login`, `Answered`
the answer with errorCode 0, `Refused` the answer the heuristic recognises on
the first attempt, `Failed` every other end of a request that was sent,
`SetupFails` the failure of one that was not. The causes a client cannot tell
apart (timeout, HTML page, other error code) are one action, because the code
treats them alike: an exception, and no variable changes. Secrets, URLs and
headers are left out.

`GuardedWrite`: `pc[s]` is the place of the call in `guard.set_radio_channel`:

| `pc` | Code | Step |
|---|---|---|
| `idle` | `server.py:235-268` | `Begin` (gate, mode, band and channel checked at once, for they need no request), `RejectMac` |
| `site` | `client.py:251-264, 362-399` | `NextPage` up to `MaxPages`, then `ResolveSite`; only when no site is given or known |
| `find` | `client.py:251-264, 412-422`, `guard.py:335-339` | `NextPage` up to `MaxPages`, then `Find` |
| `read` | `guard.py:341-356` | `Read`; a preview ends here |
| `patch` | `guard.py:358` | `PatchCarriedOut`, `PatchDiscarded`, `PatchUnanswered` |
| `verify` | `guard.py:363-385` | `Verify` |
| `journal` | `guard.py:205-237`, `audit.py` | `Journal` |
| `return` | `guard.py:216, 238` | `Return` |

In each phase with a request, and for each page of a list, `Setup`, `Retry` and
`RequestFails` are the session engine's steps. A request and its answer are one step: the moment the
controller handles the request is the only one the others can see, and what the
client does with the answer is local. The exception is a PATCH without an
answer, which goes to `inflight` and may be carried out at any later moment or
never; this covers the timeout, the lost answer, the unreadable answer and the
process stopped while it waits.

A radio's setting is its frequency and `rest`, which stands for every other
field that is resent (power, width, mode). The channel string is left out: the
guard never compares it, since the controller may echo an index. Band and
channel arguments are real values, refused or turned into a frequency by
`RadioChannels`; MACs are model values, malformed, unknown, another kind of
device, or an access point.

`Pagination`: `list` is the controller's, `page` and `got` are `page` and `rows`
of the loop, `want` is the MAC of `find_device_row` or `NoRow`. `NextPage` is the
answer to one request and one round of the loop: append, the two breaks, the
loop's condition, and at the end the search of the rows. `PageV2` and
`PageOpenApi` differ in whether the answer is sure to have a `totalRows`.
`Adopt` and `Forget` change the list between any two pages; `kept`,
`added`, `shrunk` are history.

`OpenApiToken`: `held` and `left` are `_access_token` and the time until
`_access_token_expiry` on the host's clock; `life` is what the controller still
gives the token. `Issue` and `Receive` are the two ends of the token request,
`lag` what lies between them, `travel` the time a request has been under way.
`Tick` advances both clocks, `Shorten` only the controller's (the host sleeps, or
the token is revoked).

`ReadTools`: `settings` is the result of `load_settings` (`Start` with every
environment, `Stop` at every moment), `id` and `site` are `_omadac_id` and
`_site_id`, the two values the client keeps for good. `pc` is the request the
call makes next:

| `pc` | Code | Step |
|---|---|---|
| `idle` | the tools, `server.py:107-228`; `resolve_site_id`, `client.py:379-392` | one action per tool, up to its first request or its refusal |
| `info` | `client.py:189-199` | `ControllerInfo` |
| `sites` | `client.py:362-377` | `SitesListed` |
| `select` | `client.py:393-399` | `SiteSelected` |
| `list` | `client.py:403-422, 452-503` | `DevicesListed`, `ApsListed`, `DeviceLookedUp`, `InsightListed` |
| `detail` | `client.py:441-450` | `DetailAnswered`, `DetailEmpty` |

`Discover` is the request for the controller id that comes before the first of
the others, and `RequestFails` every exception of a request, which tells from the
credentials whether anything was sent. `world` is the controller: which one it
is, its sites, where each device is and how it does; `Becomes` changes it between
any two steps, up to `MaxEvents` times, and `Replace` puts another controller at
the address. A device row is made from the device's true state by `RawRow`, in
one of four shapes (all fields, an older firmware's, hardly any, or fields that
do not parse; they are those of `docs/api-notes.md`), and comes back through
`Formatting`. Every row has its MAC and its type. A text is a sequence of tokens, so that blanks, missing units and a
channel that is only an index make the difference they make for the patterns of
the code. `sent`, `asked`, `garbled`, `during` and `only` are history.

`RequestContract` sees a request in hand (`open`), whether it is the repetition
(`again`), how the last one ended, how often its session or token ended under it
(`lapses`, up to two) and whether it met anything else (`fault`). `Start` is its
`Open`; an expiry, a tick or a revocation that ends what the request relies on is
`Lapse`, `Refuse` is `Repeat`, `RefuseAgain` and `Break` are `Fail`, a restart is
`Abandon`; ids, logins and the token's own request are invisible.

History variables of `GuardedWrite`: `call`, `answer`, `writer` (who wrote a radio last), `basis`
(who had, when the call read it), `applies`, `lost`. No action's guard reads
them, except that `answer` and `writer` are compared in properties.

### Assumptions about what is not in the repository

The controller does not carry out a PATCH it answers with an error code; TCP and
httpx do not duplicate a request; a PATCH replaces the whole radio setting it
names or nothing. A controller answers under its own id only (`/{omadacId}/...`
of another one fails), lists a device once and under the site it is on, and sends
rows of the shapes `docs/api-notes.md` shows. Everything else the controller does
is nondeterministic.

## 3. Runs

| Run | Bounds | What it shows |
|---|---|---|
| `requests` | 2 servers, one with a configured id | the retry is bounded and absorbs one ended session; every request ends; `RequestContract` is implemented, by each server on its own |
| `race` | 2 servers, one call each, 1 administrator change, 1 radio, 2 channels, 2 other settings | verdicts, journal and resent settings are right under every interleaving of two writers, and `WriteContract` is implemented |
| `faults` | 2 servers (one may not write), one call each, all argument classes, empty replies, failing journal, no configured id or site, lists of up to 2 pages | only confirmed calls write; no write of an answered call is hidden; with empty replies only the `applied` of finding 1 departs from `WriteContract` |
| `sequence` | 1 server, 2 calls, 1 administrator change, 5 GHz, lists of up to 3 pages | late PATCHes of an earlier call meet a later one; every call ends, because each of its steps, and each page, uses up something of what it has left |
| `pages` | lists of up to 5 rows, pages of 2, at most 2 pages | a row listed throughout is returned unless one was removed or the cap met; no more rows are repeated than were added; a list at rest comes whole |
| `token` | margin 3, lifetimes 2, 4 and 8, default 6, answers of up to 3 ticks | the margin covers latency up to its own length; one ended token costs no request; every request ends; `RequestContract` is implemented |
| `reads` | 2 controllers, 2 sites, an access point and a switch, 2 states each, every set of credentials, with and without a configured site and a configured id of the first controller, 2 changes of the world | which site a request names; the two APIs, and two controllers, are never mixed; refusals come exactly where they are documented and before anything is sent; rows tell what was true while the call ran; errors have their reason; every field in a documented form is read |
| `unconfirmed_applied`, `unjournaled_call`, `lost_update` | 1 server, 1 call | findings 1 to 3 |
| `missed_device` | up to 3 rows, pages of 2 | finding 4 |
| `not_an_ap` | as `reads`, without changes | finding 5 |

Why the bounds are enough: servers are alike and meet only at a radio, so two
show every interference of a pair; radios do not interact, so one is enough for
what concerns a radio; one administrator change suffices to invalidate what a
call has read, and two frequencies and two other settings to tell who wrote.
`MaxCalls` bounds `NewCall`, `MaxAdmin` bounds `Administer`, `MaxPages` is the
code's `MAX_PAGES`, 2 or 3 for its 20: enough for a list that ends early, one that
ends at the cap, and a refusal on any page. Restarts, ended
sessions and lost PATCHes are unbounded. `race` uses the symmetry of servers and
of other settings, and has no liveness property. In `pages` a list may be longer
than the cap (5 against 4), fill its pages exactly, or end within one, and its
rows change without limit; rows are symmetric. `added` counts up to `MaxRows`, the
most rows a read can return, so nothing is lost by stopping there. In `token` a token may live
shorter than the margin or longer, and lag and travel add up to less than the
margin or to twice as much; `Patience` bounds an answer's delay, and nothing
bounds time. In `reads` two changes of the world suffice to make a kept site
ambiguous or gone, to replace a controller between the request for the id and the
one for the sites, and to move a device between the lookup and the detail; the
server is stopped, restarted with another environment and called without limit
(1,060,000 states). The second controller has no sites of its own there. The run starts with one site or with two, which the two changes
would otherwise be spent on. `OMADA_SITE_ID` may name the second site, also when
the controller does not have it.

Some statements are weaker than one would wish, because the code is. A kept site
(`client.py:397`) is only known to have been the only one at some moment since the
start, not to be so now (`EverySiteIsJustified`). `JournalExactlyOnce` speaks of
calls with a well-formed MAC only: the others never enter the guard (finding 2).
It and `EffectsAreAccounted` speak of calls that were answered: a process that is
stopped between its PATCH and its event leaves a change without a trace, and so
does a journal that cannot be appended to. Neither says anything of an event that
another process's writing might tear. `ErrorsAreEarned` speaks of
`get_wifi_summary`'s not-found for access points only (finding 5).

### Fairness

`FairSpec` of `GuardedWrite` is weak fairness of a server's own steps. The code
justifies it by the timeout of every request (`client.py:159-166`): a call that
waits gets an answer or an exception. That of `LegacyRequests` is the same for the
steps of a request in hand. Nothing is assumed of the controller: not that it
recognises a session, nor that it refuses a dead one in the form
`_looks_like_auth_failure` knows. Whether it does was never captured
(`docs/api-notes.md:16-18, 424-430`), so no property says that a dead session is
noticed; if the answer has another form, nothing resets the flag and every later
call fails until a restart. The fairness of `OpenApiToken` is again that a request
in hand is answered or times out. It rests on a finite, positive `OMADA_TIMEOUT`,
which `config.py:141-148` does not demand.

### Findings

1. `guard.py:365` falls back to the state read before the write when the re-read
   has no radio, so a call can be `applied` without any confirmation
   (`unconfirmed_applied`).
2. `server.py:265` refuses a malformed MAC outside the audited function, so that
   call is in no journal, against the README and `docs/api-notes.md`
   (`unjournaled_call`).
3. The "full CURRENT radioSetting" is as old as the call's first read: a change
   made in between is undone (`lost_update`). `ResendIsCurrent` says what does
   hold: nothing is undone if nobody wrote since the read.
4. `find_device_row` may report a device as not found that is on the site all the
   time, when another one is removed between two pages (`missed_device`).
   `NoListedRowIsMissed` says when it does not: additions alone never hide a row.
5. `get_wifi_summary` with the MAC of a switch raises the same error for a device
   that is on the site (`client.py:465-470`, `not_an_ap`): the type is looked at
   before the MAC.

## 4. Proofs

Each of these holds for every value of the constants that satisfies the named
assumptions of `LegacySession`, `GuardedWrite`, `Pagination`, `OpenApiToken`,
`Settings` and `ReadTools`. Every inductive invariant was checked with TLC on the
passing configurations before it was proved.

**`LegacyRequestsProofs`** proves the safety properties of the request engine for
any set of servers. The inductive invariant ties the attempt number to the
history: an open request was sent once less than its number, and a second
attempt has already cost a session unless something else was at fault. From the
same invariant follows `Spec => KeepsContract`: a server's step is a step of
`RequestContract` or leaves all it sees alone, and another server's step always
does. The invariant supplies the causes: that the session a first attempt was
refused on had ended, and that a second one had ended when the retry was refused.

**`GuardedWriteProofs`** proves, with every fault of the model, type correctness,
that a PATCH is carried out at most once (`EffectAtMostOnce`) and that a settled
call is inert (`SettledCallsAreInert`). Neither is inductive. `IInv` adds where a
call's PATCH can be: not yet sent, in flight, or carried out, and in flight only
once the call is on its way to an error (`EffectOK`); that an id not yet used has
no trace (`FutureOK`); and what a call knows in each phase (`CallOK`), which type
correctness needs as well. `FrequencyNamesChannel` is the reason why comparing
the frequency alone verifies the channel. `CallsRunDown` is the part of `CallsEnd`
that needs no fairness: `Left` counts six for each phase a call has before it, and
for each page its lists may still have, and at most five for the request in hand (a
refused attempt, the id, a login, another attempt). Every step of the call lowers
it, and nothing another server, the controller, the network, an administrator or a
restart does raises it. `MAX_PAGES` is what bounds it, by `6*(5 + 2*MaxPages) + 5`:
the site list and the device list have so many pages each, and every page may be
refused once. However a list grows, these steps of its own end a call, and fairness
is needed only for their being taken.

**`GuardedWriteLedgerProofs`** proves the other four state invariants of the runs,
`OnlyConfirmedCallsWrite`, `JournalExactlyOnce`, `EffectsAreAccounted` and
`ResendIsCurrent`, from a stronger invariant `LInv`:

- `RecordOK`: until its event is written a call has none, and a call without an
  answer is its server's current one. Without the first, appending could be the
  second event; the second is what makes a call's status a function of its server.
- `WritersOK`: every PATCH that is in flight or was carried out is that of a
  permitted and confirmed call, and a call about to be called a preview has none.
- `StampsOK`: whoever is recorded as a radio's last writer, or as the writer a
  call has read, has spent its one write (`Spent`). A new writer is never one that
  was recorded before, so an equal stamp means an unchanged radio.
- `ReadingOK`: what a call has read, and what it has written, is what the radio
  holds as long as the stamp is the same. It is `ResendIsCurrent` for the calls
  that are past reading, and what the verdicts rest on.

The proof sorts the steps by their shape, one lemma each: a call gets on and
writes nothing (`Progress`), a radio is overwritten (`Overwritten`), nothing
happens to any server (`Elsewhere`), a call begins, is journalled, or ends.

**`GuardedWriteContractProofs`** proves what a verdict means. Most of it assumes `EmptyReplies = FALSE` (a controller
that does not answer Success without the radio; finding 1 shows that it is
needed): the two action properties about verdicts, and the refinement,
`Spec => KeepsContract`. A call that gets on is a stutter or `Decide`, a PATCH
carried out, on time or late, is `TakeEffect`, the caller is told by `Tell`, a
stopped process is `Die` or a stutter, and everything about sessions, requests and
the journal is invisible. `RecordOK` gives that a step of one server leaves the
status of all other calls alone, `EffectOK` that a PATCH arriving late belongs to
a call that is decided as an error or dead. `OnlyUnconfirmedBreaksContract` drops
the assumption (the property `OnlyUnconfirmedDeparts`): finding 1 is then the only
departure. Every step that is not a step
of the contract, nor invisible to it, decides a call `applied` from the reading
before its PATCH, which was on target, while the radio is not.

**`PaginationProofs`** proves, for lists, page sizes and caps of any size, type
correctness and the three safety properties of the page loops. The invariant is
about positions: every page so far was full (`Counted`), so the rows returned end where the next page begins,
and the kept rows that now stand before that point have been returned (`Behind`).
An addition only moves rows on, which keeps `Behind`; a removal moves them back
past the reader, and the invariant lets go of them. A break is taken only when the
list ends before the next page. `OrderInv` is the other half. It keeps an account
(`Accounted`): the rows that were returned twice, and those that have been returned
and stand after the reader, so that they will be (`Due`), are together no more than
were added. A page turns as many of the second kind into the first as it has; an
addition moves at most one row past the reader's position; a removal only takes rows
out of the second kind. While nothing was changed, what was returned is the list's
beginning (`Beginning`). Lemmas say what `InsertAt`, `RemoveAt` and a page return,
and how many rows a sequence has (`Counting`, `Joined`).

**`OpenApiTokenProofs`** proves `MarginCoversTravel` and `OneLapseIsAbsorbed` for
any margin, lifetimes and latency. The invariant relates the two clocks: the
client's is ahead of the controller's by the answer's lag and no more (`Clocks`,
`Coming`), and a request under way left with more than the margin (`Checked`).
`Paid`, which says what the attempts of a request without fault have cost, gives
the second refinement of `RequestContract`.

**`ReadToolsProofs`** proves the seven invariants of the read tools and type
correctness, for any controllers, sites, devices and environments and any number
of changes of the world. What has to be added: a running server has the
credentials of its mode, so no call ends where `_ensure_legacy_login` finds none;
the only site of now is among those of `only`, so that keeping it is justified;
what a call has been checked for before its request (`CallOK`); and for
`AnswersAreTruthful`, that the row a detail request falls back on, read one request
earlier, still tells what was true at a moment of the call (`FoundOK`).
`CompleteRowsAreRead` is the other side of `AnswersAreTruthful`, which a parser that
never matched would keep: it follows from the types alone and the lemmas below.

**`FormattingProofs`** is what `AnswersAreTruthful` rests on: `RawRow` writes an uptime
and a channel into a text, and the patterns of `formatting.py` read the same numbers
back, whatever the numbers are: `"11  / 2462MHz"` with its blanks, `"1h 43m"`,
`"43m"`, and texts that do not match and give nothing. `NextIs` says what the next
position after blanks is, from which the patterns follow. These are the forms the
controller sends. That `Total` adds up the parts of a text of any length would be
an induction over the text; it is evaluated on each of the forms instead.

Only model-checked: liveness (`RequestEnds` of both APIs and `CallsEnd`), which is
out of the prover's reach, although `CallsRunDown` leaves only the fairness to it;
and what the patterns read from texts of other forms than the controller's, which no
property speaks of. The
refinement of `WriteContract` with `EmptyReplies = TRUE` does not hold, as finding 1
shows; `OnlyUnconfirmedBreaksContract` is what holds instead.

## 5. Plan

Done, in this order: the channel tables and the request engine; the guarded write
with its contract; the page loops; the token; the request contract of both APIs;
the read tools with site resolution, settings and normalisation; and the proofs
above.

Left, by what it would add:

1. Two processes appending to one journal file at a time: what the operating
   system promises of one `write` is the whole question, and the code says nothing
   of it.
2. Lists of more than one page inside `ReadTools`. `Pagination` has what a
   list can return; together they would show which summary a moving list gives.

## 6. Not modelled

- `_sanitize` (`audit.py:73-81`): a filter by key that keeps no state. A reference
  definition would be the same filter, and none of the values its one caller
  passes has such a key.
- The fields that `normalize_client`, `normalize_alert` and `normalize_device` only
  copy, and text fields that hold something other than a text.
- The syntax of MAC addresses (`validation.py:29-48`): an argument is well-formed
  or not, and the two forms of one address are one model value.
- `verify_tls`, the spelling of booleans and the value of `OMADA_TIMEOUT`
  (`config.py:134-148`). It may be infinite, not a number or negative; the fairness
  above is then not justified.
- `OmadaClient.close`, which nothing calls.
- Logging, wording of messages and warnings, TLS and URLs, the JSON text of
  journal events, the FastMCP transport, packaging. The 12 random hex digits of a
  correlation id are taken to be unique.
