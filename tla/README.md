# TriNet DNS: specifications and proofs

TLA+ models of the server in `pkg/`, of the web console it serves and of the
Cloudflare worker that can take its place, checked with TLC; every safety property
that is checked is also proved, with TLAPS. Paths below are relative to the
repository; line numbers are those of `pkg/store/store.go` unless another file is
named. `app.js` is `pkg/web/static/app.js`, the copy the server embeds (`web/app.js`
is the same text), and `index.js` is the worker.

## The system

TriNet DNS answers DNS queries by the client's operator (ct, cu, cm), and
province (`ct_gd`). One Go process (`cmd/trinet-dns/main.go`) runs the resolver,
the web API and the background jobs around one `MemoryStore`; other processes
may run as agents that pull the zones from the master.

| Part | State | Operations | Talks to |
| --- | --- | --- | --- |
| Record store (`pkg/store/store.go`) | maps `Domains`, `Tokens` under `s.mu`; tables domains, dns_records, ddns_tokens | add and delete a record, DDNS update, token issue and revocation, load, flush of tokens | SQLite |
| Lookup (660-724) | reads the maps | choose a record by line, drop dead addresses | record store, health checker |
| Health checker (`health_check.go`) | `unhealthyIPs` under `h.mu` | a round every 15 s, one goroutine an address | record store, TCP |
| Accounts (988-1100, 1450-1658) | tables users, user_sessions | register, log in, authenticate, change, delete | web API |
| Orders and wallets (1244-1447, 1661-1843) | tables orders, users | order, payment, wallet purchase, renewal, hourly ticker | payment gateways, TronGrid |
| Payment handlers (`pkg/web/server.go` 965-1600) | none; requests in flight | create an order, verify a transfer, notifications | store, gateways |
| Best-IP synchronisation (`cf_best.go`) | none | fetch addresses, rewrite four lines of each target | record store, HTTP |
| Telegram backup (`tg_backup.go`) | none | flush tokens, read the database file, send it | record store |
| Cluster (`main.go` 111-182, 115-183, 496-536 of `server.go`) | `nodesMap`, the agent's copy | pull, report, merge counters | HTTP |
| Log stream (`server.go` 656-667, 787-834; `main.go` 85) | a channel of 100 lines, subscribers | broadcast, subscribe | resolver, browser |
| DNS front end (`pkg/dns/server.go`) | counters | parse, locate the client, answer | Lookup, GeoIP |
| GeoIP (`pkg/geoip`) | a binary trie | insert, longest-prefix lookup | DNS front end |
| Settings (`server.go` 281-450) | table sys_settings | read all, store one by one | every part that reads one |
| Cloudflare worker (`cloudflare-worker/src/index.js`) | one KV value | the record, token, log-in and password routes | KV |
| Web front end (`app.js`, `cascader.js`) | localStorage, and in each tab a screen, tables, dialogs, menus, forms | log-in, records, tokens, settings, purchases, users | web API |

What is hard in it:

* memory is changed before the SQLite transaction and not restored when it
  fails, load errors are dropped, and a restart makes the table the truth;
* ownership is decided in memory, the quota in the table;
* verdicts of the health checker arrive long after the address list was copied;
* a payment is reported by gateways more than once, and a USDT verification
  checks and uses a transfer hash in two critical sections;
* four places compute the end of a plan, by different rules;
* the worker reads all of its data, changes it and writes all of it back, while
  other requests do the same;
* the answers to the console's calls come back in any order to a screen that has
  moved on: another dialog, another pane, another user in another tab;
* forms and tables are copies: of settings that another administrator changes,
  of prices, of a user who has just bought something.

What makes each part correct:

* record store: memory and tables agree except where a failure is known to have
  struck; zones change hands only through release; quotas hold; without failures
  it is a durable registry;
* Lookup and the checker: healthy addresses of the right lines while there are
  any, something always, and verdicts that converge;
* orders and wallets: money and days are conserved, each order is delivered
  once, renewals neither starve nor repeat;
* sessions: nobody is logged out without a reason, a session that ended is
  noticed, and the role shown is one the user of the session stored has had;
* console: what the user was told is what ends up on the screen, and a form
  changes what it was opened for;
* settings, billing and users pages: nobody's save takes back somebody else's,
  and what is charged is what is shown;
* worker: requests that do not overlap lose nothing, and what overlapping ones
  leave behind is still consistent.

## The modules

| Module | What it is |
| --- | --- |
| `RecordStore` | zones, records and tokens in memory and in SQLite |
| `ZoneRegistry` | abstract specification: one registry, no memory, disk or restart |
| `RecordStoreProofs` | the properties of `RecordStore`, proved |
| `RecordStoreRefinement` | `RecordStore` without failures implements `ZoneRegistry`, proved |
| `Failover` | Lookup and the health checker |
| `FailoverProofs` | types and what Lookup answers, proved |
| `Billing` | orders, payments, wallets, renewals |
| `BillingProofs` | types, the balance of money and time, renewals, transfers, proved |
| `Session` | accounts, sessions and the tabs of a browser that use them |
| `SessionProofs` | types, roles and `NeverThrownOut`, proved |
| `Console` | the records and DDNS panes with their dialogs, menus and search box |
| `ConsoleProofs` | types and what tables and forms show, proved |
| `Settings` | the settings table and the settings page in several browsers |
| `Backoffice` | extends `Settings` with the billing page and the users page |
| `BackofficeProofs` | the properties of both, proved |
| `KVWorker` | the Cloudflare worker: requests that interleave at every get and put |
| `KVWorkerProofs` | the properties of `KVWorker`, proved |
| `MCRecordStore`, `MCFailover`, `MCBilling`, `MCSession`, `MCConsole`, `MCBackoffice`, `MCKVWorker` | instances for TLC |

### RecordStore

Every operation holds `s.mu` throughout, so each is one action. `memOwner`,
`memRec`, `memTok` are the maps, `dbOwner`, `dbRec`, `dbTok` the tables. A record
is identified by zone, key (`subdomain_type`) and line. A transaction that
fails is an alternative of the operation, bounded by `MaxFaults`; the history
variables `staleZone`, `staleSlot`, `staleTok` name what such a failure left
different and no committed write has repaired. They guard nothing: the
properties use them to say where memory and tables must agree.

* `AddRecord`, `DeleteRecord`: `AddRecordWithAuth`, `DeleteRecordWithAuth`. A
  failed deletion differs by where it fails: before the zone is removed from
  memory (Begin), or after (Commit, or the DELETE of the zone, whose error is
  ignored while the record's row goes, 892). A missing zone row is an outcome of
  its own.
* `UpdateDDNS`, `SyncCloudflareBestIPs`: both write an existing zone and share
  `WriteBoth`. The zone is any hosted one that the map scan may find. The errors of
  the INSERTs of a synchronisation are ignored (`cf_best.go` 235-238): it may
  commit without any of its four rows (`Loose`).
* `GenerateDDNSToken`, `DeleteDDNSToken`, and `SaveTokens` (`saveUnlocked`, run
  by a backup; the error of its DELETE is ignored, 523).
* `Restart` reads the tables back; `RestartCut` is a load that fails half way
  and whose error `NewMemoryStore` drops, or a scan of any of the tables that ends
  early, which `loadFromDB` does not notice since it never asks `rows.Err()`.

`Stored[v]` is what joining the list v with commas and splitting it again
yields: the empty list comes back as a list of one empty string. `KeyIn` says
which key a name has in which zone, so that nested zones can match the same
name. `Limit[u]` is the largest limit the user's plan ever has; an expired plan
or a smaller one only refuses more.

The other ignored errors have the outcome of a failed transaction, and are in the
model as one. After a lost INSERT of the zone (819) the SELECT finds no row and the
addition returns an error, unless the row was there and the INSERT had nothing to
do. After a lost DELETE of a record's row (888), as after a lost Commit (981),
memory has changed and the row has not; for the last record of a zone the
row left over belongs to no zone, and no load reads it into one.

Not modelled: a lost DELETE before an INSERT (826, 974, `cf_best.go` 231), which
leaves two rows for one record, where `dbRec` holds one; names with `_` in
them; and the order of the records of a key, which `Failover` has.

### ZoneRegistry

What a client of the store may rely on: `Host`, `Write`, `Erase`, `Dynamic`,
`Sync`, `Issue`, `Revoke` on one durable registry. The refinement maps a record
in memory to the value list a reload would show, and restarts and flushes to
stuttering. TTLs are not part of it: `TTLKept` fails.

### Failover

`recs` is the ordered list of one key of type A or AAAA, `unhealthy` the
verdicts, `probe[ip]` what the goroutine of an address does next. Between
the copy of the address list, the first pass over the ports, the second one
500 ms later and the verdict, records change (`Put`, `Drop`), machines go down
and come up (`Flip`), the setting is edited (`Toggle`: nothing in the program
writes it) and the process restarts (`Restart`: verdicts are lost, and the
reload may order the records differently, for an updated record is a new row).
The round after the start ignores the setting (`first`). A value list is the
set of its addresses; one dial of all ports is one step.

Fairness: `StartRound`, because the ticker loop never ends, and the goroutine of
each address, because every dial has a timeout and `h.mu` is held for a map
access only. The world (machines, administrators, restarts) has none. The two
liveness properties therefore assume, for one address, that it stays
configured and in its state, that the setting stays on, and that restarts end.

### Billing

`acct` and `orders` are the two tables; both live on disk, so a restart only ends
the requests in flight (`GiveUp`). The operations of the store are one action
each. `handleVerifyUSDT` is a process per request: `Verify` (GetOrder),
`CheckUnused` (IsTxIDUsed), `Match` (the chain's answer), `Activate`
(MarkOrderPaid). `Settle` and `Notify` are a gateway that calls late, twice or
never. `AutoRenew` is one pass of the ticker; `AdminUpdateUser` changes any
subset of an account's fields, which also covers its unchecked statements.
`AutoRenewInPart` is a pass in which the UPDATE of some users fails: its error is
dropped (1837) and the pass goes on. Time is in days. An `expires` of 0, which an
administrator may set, means a plan without end in the code; here it counts as
one that has ended, and a move from it to a date is no loss (it is not time
anybody has paid for). `handleCreateOrder` gives every order for a plan its 31 to
365 days, which `BillingAssumption` says; the default of 30 days for an order that
has none (1411) is therefore out of reach. Not modelled: changes of the price settings (an order keeps its
price, a renewal reads one constant), gateway signatures, the exchange rate
(`Covers` says which prices a transfer pays), floating-point rounding of
balances, and an order identifier that collides, which is refused.

Fairness: `AutoRenew`, because `StartAutoRenewCron` runs it at the start and on a
ticker that is never stopped, and it needs only the lock. This is the pass in
which no statement fails: a database that refuses one user for ever renews him
never.

### KVWorker

A request is a process: `at[r]` is the get or put it waits for, `base[r]` the copy
of the store it will change and write. Authorised routes read the store once to
compare the bearer token (`checkAdminAuth`) and again to work on it; a change of
password reads it three times, a log-in twice (to compare, and for the token it
answers with). `GetNothing` and `Seed` are the two halves of `getStore` on an
empty KV: the default data are put whatever is there by then. `Fail` is an
exception anywhere, which the outer `catch` turns into a 500. `overtaken` holds the
requests since whose last get somebody else has put; it guards nothing.

KV is modelled as a register: a get returns the last put. The service promises
less between regions (an old value for up to a minute), which the code does not
handle; there every request may be overtaken by puts that are not recent.

Names, zones and slots are abstract: `Within` gives the zones a name lies in and
`Bound` the slot the last two labels of a token's name lead to, which may be in
a zone that does not exist yet (`index.js` 288 against 350).

### Session

`users` (the role of every account), `owner` and `live` are the tables, `store` is
localStorage, which the tabs share, `screen` what each tab shows, `net` the answers
on their way. The server handles a call in the step that sends it, and an
answer carries what the table held then: the role in the answer to a log-in, or
to the call that fetches it for a session stored without one, is that of this
moment. `fetchAPI` answers a 401 by `logout()`: the answer is `"leave"`, and `Leaves`
ends whatever session is stored when it arrives. `logout` wipes localStorage after
`/api/logout` has been answered or has failed (`LoggedOut`).

Administrators, in this browser or another, create accounts, change roles and
delete (`AdminCreateUser`, `AdminUpdateUser`, `DeleteAccount`), as long as there is an
administrator (`Administered`); account 1 is `Root`, made at the first start, which
may be demoted but not deleted. The sessions of an account survive a change of
its role, and no tab is told. `had[k]`, a history variable, collects the roles the
user of session k has had while it lived; it guards nothing. Not modelled: closing
a tab, in particular one that waits for `/api/logout`, and a later start of the
server, whose `EnsureAdminUser` changes nothing since an account has the name.

Fairness: the interval of 5 s in every tab, and the delivery of 401s and of the
answers to `/api/logout`, which every browser ends with an answer or an error.
Nobody has to do anything else.

### Console

`hist` is the sequence of all states of the server; an answer on its way, and
what a table shows, are positions in it, so old answers are told from new ones
without a clock. A form keeps only its line (the hidden input of its menu), the
other fields are filled in when it is submitted. `setCascaderValue` sets the hidden
input; the label next to it is the entry's in the tree (all 106 values and labels
differ) and is left out. A click on anything outside closes the menus. The
search timer draws the table from the data of the moment it fires.

Fairness: every answer is delivered or lost, and the browser runs the timer.

### Settings and Backoffice

`page[b]` is what the inputs of browser b hold, a copy of all settings since its
last load; `Submits` is one click in one form, which posts all of the form's fields
(`Posted`). The server stores them one at a time and in any order (`SetSetting`: the
lock is taken for each key, `left` are those still to be stored), so that saves
interleave key by key; `handleAdminSettings` ends a save, and `SettingFails` stops it
after any subset, or loses the answer after all. A GET takes the lock for each key
as well (`server.go` 293-365); here it reads all keys at once. A switch moves at the click,
and loads the page again if the call fails (`Reloads`). The auto-renewal switch of
the profile page works alike and is one more key. Several keys of a form that
are stored and shown alike are one key of the instance.

`Backoffice` adds what depends on settings and accounts: `Offered` are the prices of
`/api/user/billing`, `display` the price in large digits, `CalculatePlanPrice` what
the wallet pays; the USDT card with its hidden order number; the users table and
the form of administrators, which is filled in from a row of that table and
posts its plan whatever was changed in it. Wallet balances and days are
`Billing`'s. Orders at the two gateways leave the page and are not in it.

## The runs

| Run | Instance | What it shows |
| --- | --- | --- |
| `store_sound` | 2 nested zones, 3 lines, value lists {one address, empty, blank}, 1 token, 2 users (one an administrator), quota 1, no failures | `Implements` |
| `store_faults` | 3 zones (one no name reaches), 2 lines, TTLs 60 and 600, 1 value list, one failure | the type invariant, agreement of memory and tables, the quota, bare zone rows, who owns a zone |
| `store_ttl` | the same, no failures | violation: `TTLKept` |
| `failover_live` | 2 addresses, lines ct, ct_gd, def, clients ct_gd, cu and unknown, lists of up to 3 records | answers and convergence |
| `failover_lastresort` | the same | violation: `LastResortOnly` |
| `billing_ledger` | 1 user, 2 orders out of a recharge and two plans, 1 transfer, 1 verification, 4 days, 1 change by an administrator | conservation of money and time, renewals |
| `billing_tx` | 3 orders, 1 transfer, 2 verifications, 3 days | what interleaved verifications may do |
| `billing_txonce` | the same | violation: `TxPaysOnce` |
| `worker_kv` | 3 requests of any kind from an empty KV, 3 zones, 2 names (one lies in a zone that its updates do not reach), 2 credentials | what overlapping requests may undo |
| `session_tabs` | 2 tabs, an administrator and a name to register, 2 sessions, 1 fault, 1 session that ends, account that goes or role that changes | log-ins and log-outs that cross, sessions that end, whose role is stored |
| `console_panes` | 1 host, 2 lines (default, ct_bj), 2 values, 2 changes of the server, 1 pane opened, 1 search, 1 lost answer | tables, dialogs and menus under late answers |
| `backoffice` | 2 administrators with separate forms, 1 buyer, 10 keys, 2 values, 3 clicks, 1 order, 1 fault | stale pages, partial saves, prices that change |

Why the bounds are enough to be of interest:

* Two zones, one above the other, give the map scan a choice; a third shows the
  quota crossed by one after a lost transaction. Quota 1 is the default plan's.
  Two lines of one key let a zone keep a record or lose its last one, and one of
  them, of a province, is unreachable for tokens. One failure is enough for the
  divergences named below, because each starts with one; the proofs cover any
  number. With failures there is one value list only, for time: that an empty
  list reloads as another one is met by `store_sound`, and in the presence of
  failures by the proof of `SlotsAgree`.
* In `Failover` two addresses allow a list with one dead and one live member;
  three records occupy every line Lookup tries. Nothing bounds rounds, flips or
  restarts: only the list is bounded, by `MaxRecs`.
* In `Billing` a month's order is 3 days, a wallet month 2, the window of
  the ticker 1: as in the code each is longer than the next. Four days are enough
  for a plan to be bought, extended, to lapse and to be renewed. `MaxNow` and
  `MaxGrants` are the only bounds of the behaviours; with the clock at its bound
  and the only account deleted nothing need happen, so deadlock is not checked
  there. With one user a pass of the ticker that fails in part does nothing, and
  only delays him; passes that renew one user and fail for another are in the
  proofs. Three orders and two verifications let a transfer be used twice and
  refused the third time.
* In `KVWorker` a lost update takes two requests and a mixture of two copies a
  third; each request is one of every kind with every argument. Requests are
  symmetric, and no liveness is checked. Every request ends, so deadlock is not
  checked here.
* In `Session` two tabs and two sessions are what answers that cross need; a
  third session would replay the same races later. One change of a role demotes the
  administrator, or promotes a user, while answers with the old role are on their
  way; the proof of `RoleIsOwn` is for any number. When sessions are used up
  and the tabs show a form nothing need happen.
* In `Console` two changes give an older and a newer answer on their way at once.
  The default line and one of a province are both levels of the menu; the host
  with its two lines is a group of two rows, of which one is edited.
* In `Backoffice` three clicks are two forms under way and the third that meets
  their answers, or a purchase, an old row and a saved form. Two administrators
  who use the same form would overwrite each other's fields, because a form posts
  all of them; `Duty` keeps their forms apart. The plan form of the instance has
  two fields and the gateways' form two, so that partial saves exist. The bounds
  are on what people do, so runs end, and deadlock is not checked.

## The properties

Record store:

* `SlotsAgree`, `ZonesAgree`, `TokensAgree`: agreement of memory and tables on
  everything no failure has touched since it was last committed. It is not
  obvious because `INSERT OR IGNORE` never corrects a row, a deletion drops
  several rows at once and tokens outlive zones.
* `QuotaHolds`: the zones that count for a user exceed the plan's limit by at
  most one for each lost transaction.
* `OwnersAreStable`: a zone no failure touched never goes straight from one user
  to another, although a cut load forgets owners and rows survive deletions.
* `ZonesServed`: a zone row without a record holds quota and cannot be deleted. An
  addition that is lost and then deleted, or an ignored DELETE (892), leaves one;
  no failure leaves more than one, whatever restarts, additions and loads cut
  short make of it later, and without failures there is none.
* `Implements`: the refinement. Who acts is an argument of an action and not part
  of the state, so it shows durability, ownership and quotas, and of permissions
  only what they leave in the state.

Failover: `AnswersHealthy`, `AnswersConfigured`, `DeadAddressLeaves`,
`LiveAddressReturns`. Billing: `BalanceAccounted` and `TimeAccounted` compare the
accounts with the paid orders and the history of the wallet; `PaidTimeKept`
says when paid days may be lost (an order for another plan starts from today,
1416-1420, whereas a wallet purchase goes on from the old end); `ChargesSettle`
that a charge is covered and not repeated by the next pass; `TxPaysFew` bounds
the orders a transfer pays by the verifications under way at once;
`LapsedPlansRenew` that the ticker does not forget plans that ended while the
wallet was empty.

Worker: `TokensHosted` says that no mixture of old and new copies leaves a token
without a zone; it holds because a zone, once there, is in every later copy, not
because of the check in the route alone. `LossNeedsOverlap` says what a put may
undo of what others have put, and when; `LoginMintsItsOwn` when a log-in may answer
with the token of credentials it was not given.

Sessions: `NeverThrownOut` (a 401 that was on its way does not end a session stored
later, as long as nothing has ended or failed: a tab polls only with a token),
`DeadSessionNoticed` (liveness: a session that ended does not stay stored),
`LogoutLeaves` (liveness: logging out gets out, whatever happens to the call),
`RoleIsOwn` (the role stored is one the user of the session stored has had since
he logged in, and nobody else's: an answer may cross another log-in and changes
of roles. It says no more, because a tab keeps the role it was told).

Console: `OwnChangesShown`, `OwnChangesArrive` (liveness), `RowsFollowData`,
`EditKeepsRecord`. Settings, billing, users: `SettingsAsTyped` (a key holds the value
last confirmed for it or one typed since: no save takes back what another form
has stored, also when they interleave key by key and one stops half way), `SwitchTellsTruth`, `ChargedAsShown`,
`BuyerKeepsPlan` (a form saved for another field leaves the plan alone unless its
row was old). Where these have an exception, the exception is what the code
really does; the next section says which.

## Where code and comments disagree

* `store_ttl`: `UpdateDDNS` "updates the database in step" (900), but a record's
  TTL stays what it was in memory while its row gets 60 (942, 975).
* `failover_lastresort`: Lookup's fourth step is for "all nodes marked" (719),
  but it is reached as soon as the client's own lines have nothing healthy, and
  then returns the first record unfiltered: a dead address, while another line
  has a live one.
* `billing_txonce`: a used hash is to be refused (1432; `server.go` 1326), but the
  check (`server.go` 1318) and the use (1430) are two critical sections with a
  request to the chain between them.

Promised, and plainly not done, so that no run is needed to see it: the profile page
says that a new password ends the user's log-ins elsewhere (`index.html` 617);
`UpdateUserPassword` (1084-1100) changes the password and leaves table user_sessions
alone. In `Session`, `ChangePassword` logs out the tab that asked and keeps `live`
as it is: the other log-ins go on for their seven days.

Read in the code while modelling, and excluded by name from the properties above
or outside them:

* The wallet pays the monthly price times 3, 6 or 12 less 10, 20 or 30 per cent
  (1676-1685), while the card shows and an order costs the configured price of the
  cycle: with the default prices 27, 48 and 84 instead of 28, 50 and 90.
* A verification computes the amount and the address of a USDT order anew from
  the settings of that moment (`server.go` 1330-1340): a change of either after the
  order was made leaves a buyer who paid what he was told.
* An order is stored before the address or the gateway is found to be missing.
* There is one USDT card and one hidden order number: the answer to the
  verification of one order hides the card of another.
* The profile page's password form takes blanks at the ends of a password, the
  log-in form cuts them off (`app.js` 203, 1913): such a password cannot be used.
* The message after a token was made says it cannot be seen again (`app.js` 888);
  the table shows it in full.
* The answer to one save closes the record dialog that is open by then, and a
  reload ignores the text in the search box.
* A 401 that arrives late ends the session that is stored by then, also a newer
  one; a tab left on the console after another tab logged out stays there until
  its next call.
* The worker is announced as "完全等效于 Go 后端" (`index.js` 2), but it has no users,
  settings, statistics or `cascader.js`, wants a body for a deletion, which the
  console does not send, and a new user name for a change of password, which it
  does not send either.
* A tab keeps the role of its log-in in localStorage, and with it the menus of an
  administrator, or their absence, until the next log-in: a change of the role
  (1605) shows on the profile page only. The server asks the table at each call.
* `EnsureAdminUser` looks for the name or the role (1654): when the only
  administrator, named admin, has demoted himself, no later start makes another.
* A plan without end that an administrator gave (`expires_at` 0) gets an end, 30 days
  from now, by a purchase or a manual renewal from the wallet (1720-1726, 1764-1768).
* The dialog that deletes a user promises to delete his records; only the row in
  users goes (1637).

## The proofs

Each theorem holds for every value of the constants that the named assumptions
of its module allow, whereas a run shows one. Every invariant and every action
property of the runs that pass is proved, and so is the refinement; the
liveness properties are not. An argument is always the same: a strengthening that
is inductive and implies the property. Each was an invariant of a run before it
was proved.

Record store (`ZonesAssumption`, `ValuesAssumption`, `UsersAssumption`,
`SeedAssumption`: the set of zones is finite, `Stored` is idempotent and leaves a
list of one address alone, the seed data reload as they are and fit the first
user's quota). Zones, lines, users, values and the number of failures are
arbitrary.

* `TypeCorrect`: `TypeOK` is inductive by itself.
* `DiskAgrees`, with `DiskZonesAgree` and `DiskTokensAgree`: the three agreement
  invariants are not inductive without types, and `OwnersStable` needs to know
  that a hosted, untouched zone has the same owner in the table. `Agreement`, the
  inductive invariant, is their conjunction in terms of single slots, plus that
  values on disk are already joined (`Stored[v] = v`), which a reload needs.
* `OwnersStable`: from `Agreement`, action by action.
* `EveryZoneServed`: `Bare` zones alone are not inductive, because a failure prepares
  one long before the row is bare. `Frail` adds the zones that are one deletion
  away from it: a step makes at most one zone frail, and only by a failure.
* `QuotaTheorem`: the inductive invariant `Quota` counts `Charged(u)`; each
  action is shown to add at most one zone, and none beyond the limit unless it
  spends a failure. The lemmas on cardinalities are from `FiniteSetTheorems`.
* `StoreImplementsRegistry` (assuming `MaxFaults = 0`): initial states map to
  initial states, each action to one of `ZoneRegistry` or to a stutter, with
  `Sound` as the invariant that makes a restart invisible: memory and table agree
  completely while nothing has failed (`NothingLost`).

Lookup and health checker (`FailoverAssumption`: the default line is a line, and
the base of a client's line is a line or none):

* `FailoverTypes`: `TypeOK` needs lemmas on lists: `Put` and `Drop` keep one
  record a line, and a reload that reorders them does too (`OnePerLine`).
* `FailoverAnswersHealthy`, `FailoverAnswersConfigured`: hold in every state whose
  list has one record a line, whatever the verdicts. The proof follows Lookup
  through its four steps.

Billing (`BillingAssumption`; its three conditions with content are that every
renewal and every wallet purchase lasts longer than the window of the ticker, 30
days against 24 hours in the code, and that finitely many verifications are
under way):

* `BillingTypes`: by itself.
* `BillingKeepsTime`, `BillingSettles`: action properties, from the types; every
  rule for the end of a plan is one step of the proof.
* `BillingAccountsBalance`, `BillingAccountsTime`: `Ledger` is the two equations for
  every account plus that finitely many orders exist, which the sums need. `Total`
  writes both sums as one operator of the table. `SumFunction` is a fold, and a fold
  is a recursive function that the prover knows nothing about: `SumExtends` (a
  sum over a set with one more order) is therefore proved by the least size of
  a set for which it fails.
* `BillingTxPaysFew`: `FewUses` counts the orders a transfer has paid together
  with the verifications that have found it unused: the sum never exceeds the
  number of requests, since none looks successfully once an order is paid.

Sessions (`SessionAssumption`):

* `SessionTypes`, `SessionRoleIsOwn`: proved together, with an invariant that answers
  carry sessions that were issued to somebody, that the role in an answer is one
  its session's user has had, that the role he has now is among them while the
  session lives, and that a role is fetched only for the session an old version
  stored without one.
* `SessionNeverThrownOut`: `Calm`: until something ends, fails or is left, every session
  stored or on its way is live, no tab is about to log out, and a tab that shows
  the console has a session. A 401 is then never on its way.

Console (`ConsoleAssumption`):

* `ConsoleTypes`: by itself, with lemmas on the history of states. `ConsoleRowsFollowData`
  holds with it.
* `ConsoleEditKeepsRecord`: `FormLine`: the menu of a form opened to edit has the line
  of the record and stays closed, because its button is disabled; the rest is that
  only the slot of that line is written.
* `ConsoleOwnChangesShown`: `Coming`: what the tables do not show yet is in an answer on its
  way that is new enough. A load of the records counts for the tokens as well,
  since its answer starts one.

Settings and Backoffice (`SettingsAssumption`, `BackofficeAssumption`: the duties of
two browsers do not overlap, the price fields exist and hold a price at first):

* `BackofficeTypes`: `TypeOK` is inductive together with `Priced`: no form can empty a
  price, so that what the billing page offers is always one.
* `SettingsStayAsTyped`, `SwitchesTellTruth`: `Steady`, as long as nobody clicks before his
  answers are there. It says of every browser (`InOrder`) that it has one call under
  way at most, that this call is all that its page and the table differ in as to its
  switches (`InStep`, for each state of a call and the keys it has left to store), and
  that its fields, and the data a load brings them, hold nothing but what was typed
  for them since the last confirmed save (`wish`); and the same of the table.
  `OneMoves` reduces each step to the browser that causes it; it rests on
  `FieldsApart`: no key belongs to two forms.
* `BackofficeChargesAsShown`: with `Displayed`: the large digits are the price on offer for
  the selected cycle.
* `BackofficeKeepsPlan`: with `FormsFilled`: a form nobody chose a plan in, open or on its
  way, has that of its row.

Worker (`KVAssumption`, `StoreAssumption`, `OpAssumption`): any number of requests,
zones, names, credentials and any default data whose tokens are hosted.

* `WorkerTypes`: `TypeOK`, inductive by itself.
* `WorkerTokensHosted`: `TokensHosted` is not inductive, since a put writes an old
  copy. The invariant says of every copy about to be put that it is hosted itself
  and that the request is allowed by it, so that each change, made to such a
  copy, gives a hosted value.
* `WorkerLossNeedsOverlap`: the invariant adds that the copy of a request nobody
  has overtaken is still what KV holds; then a put by such a request changes its
  own slot, token or credentials only, and the default data are put by it only
  into an empty KV.
* `WorkerLoginMintsItsOwn`: `Minting`: a log-in whose password was right, and which
  nobody has overtaken, gave the credentials KV holds, and its second read finds
  a value.

Only checked by TLC: the liveness properties (`DeadAddressLeaves`,
`LiveAddressReturns`, `LapsedPlansRenew`, `DeadSessionNoticed`, `LogoutLeaves`,
`OwnChangesArrive`), because fairness is stated with ENABLED, which TLAPS does not
reason about. The three runs that expect a violation need no proof: their
counterexample is one.

## Not modelled

* Agents and telemetry: an agent replaces its zones by the last answer it got and
  posts counters that the master overwrites. There is no acknowledgement,
  version or retry, and nothing says how old an agent's data may be. The maps
  that `GetPublicData` hands out are encoded after the unlock: a data race.
* The log stream: `logBroadcaster` is never started, so no line arrives; sends into
  the full channel are dropped by a default branch and block nobody.
* The migration from JSON, `EnsureAdminUser` after the first start, the backup ticker
  and the copy of the live database file.
* Fetching and parsing best-IP pages, and which of two synchronisations wins:
  `WriteBoth` writes any list at any time.
* GeoIP and the DNS front end: sequential and stateless.
* Of the console: dashboard, charts, log panel, orders table, the manual renewal
  button, toasts and the clipboard. They draw what an answer says or send one
  call, and keep nothing.
* Gateway signatures, installation, the patch scripts and the script that pastes
  the console into the worker.
