# TLA+ models of stake-dev-tool

This directory holds TLA+ models of the parts of stake-dev-tool where requests
overlap, where work is cut short, or where several stores have to agree. TLC
checks them on small instances and TLAPS proves the main facts for all
instances. Definitions are translated from the Rust source; `PROJECT.json` maps
each of them to its lines.

## 1. The system

A slot game under development is a *math* (an index, weights and books of
simulated rounds, multi-GiB when decompressed) and a *front*. The tool runs the
game against a local server that speaks the casino's RGS protocol, and a cloud
server stores revisions of the math, shares playable links, and keeps a team's
profiles in step.

| Part | State it keeps | Operations | Talks to |
|---|---|---|---|
| **lgs wallet** (`lgs/src/session.rs`, `routes.rs`, `devtool.rs`) | sessions (balance, active round, history) in a DashMap and in SQLite; the bet counter; one forced event | authenticate, play, end-round, balance, bet/event, prepare, reset, force-event | math engine; embedded in the desktop app and the cloud server |
| **lgs math engine** (`math_engine.rs`, `tenant.rs`) | OnceCells per mode and per file, an LRU list under a budget; decompressed books and their index beside the compressed file | load_assets, load_books, open_books, touch, evict, draw, find | disk, spins of all tenants |
| **lgs saved rounds, settings** and the desktop's profiles and workspace cache | four JSON files | load-change-save | desktop sync |
| **lgs shell** (`lgs/src/lib.rs`, `tls.rs`, `desktop/src/commands.rs`) | the running server; CA and leaf certificates | start, stop, install the CA | browsers |
| **documents** (`server/src/api/documents.rs`, `documents.rs`) | a table with revision, tombstone and sequence number per document; a broadcast hub | list since a sequence number, PUT, DELETE with a base revision, SSE stream | desktop apps |
| **desktop sync** (`desktop/src/cloud/sync.rs`, `documents.rs`, `sse.rs`) | local profiles and saved rounds, a cursor per workspace, one event stream | sync, share a profile, remove from the catalog, subscribe | documents |
| **content store** (`server/src/api/math.rs`, `shares.rs`, `blobs.rs`) | blobs (rows and objects), revisions and their files, front bundles, share links that pin them | upload, push, delete, collect, create/update/delete a link | CLI, desktop, object store, Postgres |
| **game host** (`server/src/lgs_host/`, `share/tenants.rs`, `api/ws.rs`) | one directory per revision and mount, markers, locks, tenants, routers, workbench tokens | ensure, evict, mint, dispatch, warm up, delete | object store, content store, lgs engine |
| **share runtime** (`server/src/share/`) | visitors' sessions, unlock cookies, limiters, last rounds, domain cache | resolve a link, unlock, authenticate, play, feedback | content store, game host, billing |
| **accounts** (`server/src/auth/`, `api/auth.rs`) | users, sessions, identities, mailed links, tokens, device codes, rate limits | sign up, sign in, reset, verify, pair a device | mail, GitHub, Discord |
| **workspaces** (`api/workspaces.rs`, `invites.rs`, `domains.rs`) | members, invites, custom domain | change a role, remove, invite, accept, attach | accounts, billing |
| **billing** (`server/src/billing/`) | Stripe events, one subscription row and override per workspace | webhook, checkout, seats, limits | Stripe |
| **stats** (`stats.rs`, `stats_analysis.rs`) | one row per revision | judge a mode's lookup table | content store |
| **CLI** (`cli/src/`) and desktop transfers (`desktop/src/cloud/math.rs`) | the folder; part files | push, push-front, pull, login | content store, accounts |
| pages, lgs-wasm, preview | in the browser | | the endpoints above |

What is hard in each, and what makes it correct:

* **Wallet.** A handler makes several calls on the session, each atomic, with a
  save to SQLite after the lock is gone, so requests interleave between any two
  and a restart can fall before any save. Correct: a round is paid exactly once,
  the balance never wraps, bet ids are never shared, a restart resumes what the
  player saw.
* **Documents and sync.** Transactions overlap, replies get lost, the list is
  two queries, and each app pushes everything it has. Correct: compare-and-swap,
  versions without gaps, no lost update, deletions that propagate, a cursor that
  never passes an unseen row.
* **Content store.** Rows and objects are changed in different steps, garbage is
  collected beside uploads, and parents and pins are checked before the write.
  Correct: whatever a revision or a link refers to is there.
* **Materializer and books.** Files and locks, LRU and cells; removals that take
  many steps; clients that leave. Correct: a finished directory is complete and
  belongs to the revision asked for, budgets hold, nothing is built twice.
* **Game host.** Everything is named by a revision's number, which is given out
  again after the head is deleted; access can be lost while a request is on its
  way. Correct: no answer without access, none from another revision.
* **Share, workspaces, accounts, billing.** Checks in one statement, writes in
  the next; events sent twice, late or out of order; memos that outlive what they
  remember. Correct: limits are passed by no more than the requests under way,
  what is promised once happens once, the row follows Stripe.
* **On the developer's machine.** Two processes and several tasks write the same
  files, a folder is edited while it is pushed, replies are lost, a stream
  reconnects. Correct: what was acknowledged is kept, what is reported as moved
  was moved, what is shown is current.
* **Tables and indices.** Weighted draws, binary searches and record scanners at
  their edges. Correct: they compute what their definitions say.

`PROJECT.json` lists every component with its status, and every hazard at its
line with the properties that cover it.

## 2. Modules and runs

| Module | Models | Checked in |
|---|---|---|
| `SessionStore` | the data of a session and what each method of `SessionStore` makes of it (operators only) | `wallet_*` |
| `RgsWallet` | the handlers over it: one action per store call, and `Save` for the write to SQLite | `wallet_*` |
| `WalletLedger` | the abstract contract of one player: bet, owe, settle | `wallet_serial` |
| `DocumentStore` | PUT and DELETE as transactions: lock, decide, number, write, commit | `docs*`, `local` |
| `DocumentSync` | desktop apps over `DocumentStore` | `docs*`, `local` |
| `VersionedDocument` | the abstract register each document is | `docs` |
| `ContentStore` | blobs, revisions, front bundles and pins, statement by statement | `content*` |
| `Materializer` | the disk cache of the hosted game server, file operation by file operation | `caches` |
| `BooksCache` | the cells and the LRU list of decompressed books | `caches` |
| `Billing` | Stripe's subscriptions, the webhook with its ledger, overrides, plans | `server` |
| `Workspaces` | members, roles, invites and seats over `Billing` | `server`, `ownerless` |
| `Accounts` | users, sessions, mailed links, identities, device codes, tokens, limiters | `server` |
| `Shares` | share links under a plan, visitors' sessions, rounds and feedback | `server` |
| `CustomDomains` | the column, the lookup cache, the Host dispatch and the certificate check | `server` |
| `GameHost` | the two mounts of a game's revisions, their gates, engines and warm-up | `content` |
| `MathTransfer` | push, push-front and pull of the CLI and the desktop app | `local` |
| `LocalFiles` | the four JSON files and their two processes | `local` |
| `LiveStream` | hub, SSE connection, subscribe commands and the page that refreshes | `local` |
| `AppShell` | start and stop of the local server, the certificate files | `local` |
| `DeviceLogin` | `sdt login` and the sign-in dialog against the device flow | `local` |
| `Sidecars` | decompressed books and index files beside a books file | `local`, `sidecar_stale` |
| `BooksIndex` | the record scanner, line by line and by JSON values | `local` |
| `LookupTables` | parsed weights, draw, search and analysis of a table | `local` |
| `MCRgsWallet`, `MCDocumentSync`, `MCContent`, `MCCaches`, `MCServer`, `MCLocal` | the small instances | the runs of those names |
| `RgsWalletProofs`, `DocumentSyncProofs`, `AccountsProofs`, `SharesProofs` | theorems about the module in their name | |
| `ContentProofs` | theorems about `ContentStore` and `GameHost` | |
| `CachesProofs` | theorems about `Materializer`, `BooksCache` and `BooksIndex` | |
| `WorkspacesProofs` | theorems about `Workspaces`, `Billing` and `CustomDomains` | |
| `LocalProofs` | theorems about `MathTransfer`, `DeviceLogin`, `AppShell`, `LocalFiles`, `Sidecars` and `LiveStream` | |

`MCContent`, `MCCaches`, `MCServer` and `MCLocal` hold one instance per part of the
system; the initial value of `part` says which one a behaviour is of, and the
variables of the others stay as they begin. The parts do not interact within such a run: those that
do are composed in a module of their own (`Workspaces` extends `Billing`,
`DocumentSync` extends `DocumentStore`, `RgsWallet` extends `SessionStore`,
`MathTransfer` has the server's blobs and revisions, `LiveStream` server, app and
page, `DeviceLogin` server, CLI and dialog). `MCServer` and `MCLocal` extend the modules
whose constants carry assumptions, so that TLC evaluates these, and give the
configurations one size for all their parts; where a part needs less, it restricts the
steps taken (which clients call, which commands are given). The other modules are
instantiated.

### Wallet

A thread is at a handler step `pc[p]` and carries what the handler has in local
variables (`seen`: the active round it read; `drawn`, `bet`, `clone`). `Play`
reads the session, `PlayCredit` pays the round it saw, `PlayDeduct` takes the
stake, `PlayDraw` … `PlayRound` draw and store the new round, and each store call
puts a clone in `clone[p]` that `Save` writes to `rows` later.

* `wallet_serial`: two players whose clients wait for each reply and stake no
  more than they have, with forced events and resets. No round is paid twice
  (`PaidOnce`) or dropped (`NoUnpaidRoundDropped`), rows are the sessions between
  requests and the test view's last event is the newest history entry
  (`HistoryCurrent`), and each player sees the `WalletLedger` contract
  (`KeepsLedger`, a refinement: the stake of a play under way still counts as the
  player's until its round is in the slot).
* `wallet_threads`: any overlap of requests, engine errors and a restart. Types
  (a balance below zero would show) and `BetIdsDistinct`.
* `wallet_double_credit` (a violation): a refused bet pays the active round and
  leaves it in the slot; the next request pays it again.

With overlapping requests on one session, or a restart between a credit and the
end of the round, `PaidOnce` and `KeepsLedger` do not hold of the code; that is
why `wallet_serial` has a client that waits, and it is the whole of the claim.
`VIEW LiveState` leaves the session and mode of a finished request out of the
state: no action reads them.

### Documents

Each step of a transaction is an action; a row written but not committed is in
`pending`, its lock in `locks`. The sequence gives its values out before the
commit, as Postgres does. An app pulls (`ListRows`, `ListLatest`: two queries),
applies, moves its cursor, and pushes each local document, with one retry on a
conflict.

* `docs`: two apps with any overlap, failed transactions and lost replies.
  `CompareAndSwap` and `KeepsVersions` (the refinement of `VersionedDocument`)
  hold throughout. What apps hold (`AppsSound`), `RemovalsLast` and
  `StaleCopyNeverWins` are about apps that have not called the server at the same
  time: the history variable `overlapped` says whether they have. With overlap
  the code lets a stale copy win (it retries on top of whatever is there), and the
  cursor can pass a row.
* `docs_missed` (a violation): the cursor moves past a row that the app has not
  received.
* `CallsEnd` (in `local`): under weak fairness of each app's steps every call
  ends, whatever row locks others hold and however often it conflicts.

### Content store

Requests are sequences of statements and store calls over `blobs`, `objects`,
revisions, bundles and links. A push holds the row of its game from
`LockGame` to `Commit`. Deletions collect, in their transaction, the blobs no
*committed* row names, and delete the objects afterwards.

* `content`: pushes are numbered on the parent they named (`PushesInOrder`), the
  plan's caps (`Capped`), pins (`PinsResolve`), bytes behind rows
  (`BytesBehindRows`), nothing orphaned or taken from what is listed
  (`ContentKept`). Those about deletions carry a history: they hold as long as the
  removal did not overlap another request (`removed`), or nobody gave up half-way
  (`abandoned`); the comments say what exactly is excluded.
* `content_collected` (a violation): a push that reuses a blob which a deletion
  is collecting commits a revision whose bytes are gone.

`content` also looks at the host that serves the revisions (`GameHost`), as two
instances beside the one of the store: `doors` (one number of the workbench, with
members who leave, tokens, fronts and a restart) and `mounts` (two numbers, a
request of the workbench and one of a share at a time). Nobody is served what they
asked for without access, and a revision is answered from its own math unless its
number had named another one (`HostsServeRight`); a failed warm-up is tried again
(`NeverLeftCold`). Store and host are apart: what the host may find of a revision
is whether its row is still there.

### Caches

In `Materializer` a task is at one `await` or one file operation of `ensure`.
`remove_dir_all` unlinks one entry at a time, so that eviction, the wipe of a
partial directory and `delete_revision` meet requests half-way. Files on disk are
known by the revision whose bytes they have, since a number is given out again
after the head is deleted. `older` is the order of the markers' mtimes, and `counted`
the files that the total of an eviction stands for. In `BooksCache` cells are numbered, so that a request
can hold a cell that is no longer mapped; the LRU list is the set of its entries,
each with the time of its last touch, in whose order the code keeps them. A mode's
load initialises the mode's cell, then (inside it) the file's, then touches the list
and publishes.

* `caches`, the directories: `DirectoriesSound` (a marker means that all files are
  there, `MarkedComplete`, and between requests what is complete fits the budget or is
  one directory, `BudgetHeld`), `ServesRevision`, `NeverUndone`, through failures,
  clients that leave and a restart at any step. `disturbed` collects the directories where a removal met
  another use, was given up, or where a client left (and dropped the lock) with a
  file operation under way; about those nothing is claimed, because eviction and
  deletion take no lock. `lapsed` says that an eviction failed or was cut short.
* `caches`, the memory: `BooksSound` (no phantom or doubled entries, nothing
  loaded outside the list, the budgets, one load per file, and a mode holds what is
  cached unless it was evicted between its load's touch and its publication,
  `overtaken`). That exception is real: such a mode keeps the mapping alive until
  it is evicted again.

### Server

`server` has fourteen instances (listed at the top of `MCServer`); each request is
split where another request can come between two statements.

* `Billing`: Stripe delivers each event at least once and in any order until it is
  answered; the webhook inserts into the ledger, writes the row, and marks. When
  all events are answered the row agrees with Stripe (`RowFollowsStripe`), unless a
  named mishap of `mishaps` occurred: a crash or failure between ledger and row
  (the retry is then a duplicate), events out of order, two live subscriptions for
  one price. In `payers` a history ends at its first mishap: nothing is claimed after
  one, and the list says exactly what is needed to go wrong.
* `Workspaces`: an owner is left unless two changes overlapped, and an invite's
  uses are the joins it paid for (`MembersSettled`); a join fits the plan that was
  read (`JoinsWithinCap`). `CrowdEnds`: an accept holds a connection and asks for
  a second one, so two accepts can take a pool of two and wait for each other; only
  the pool's timeout ends that, and the request still ends. `ownerless` (a
  violation): two owners who step down at once leave none.
* `Accounts`: a reset locks out every older session, identities settle on a
  verified account, an approved device code gives one token, the budget of failed
  logins is overshot by fewer than the requests under way (`AccountsSettled`);
  each exception (a login that had verified the old password, two polls that had
  read the approved row, a crash after the mint) is in the history.
* `Shares`, `CustomDomains`: links stay within the plan that created them and
  count the sessions they serve (`LinksSettled`), their caps on sessions and notes
  are passed by at most the other requests under way (`Overshoot`), a domain is fresh once a change is
  answered, except where a lookup had read before it (`DomainFresh`).

### Developer's machine

`local` has nineteen instances (listed at the top of `MCLocal`).

* `MathTransfer`: the folder may be edited, blobs collected, revisions deleted and
  replies lost between any two steps. A transfer that reports success moved the
  unedited files exactly, and a push commits at most once (`TransfersSafe`); every
  transfer ends (`TransfersEnd`).
* `LocalFiles`: acknowledged changes are kept (`StoresKept`) unless a crash cut a
  write, or two changes met that no lock keeps apart.
* `LiveStream`: with a stream open and nothing left to deliver the page shows the
  workspace as it is, a subscriber is never evicted, one stream runs
  (`LauncherSound`). Excluded, by history: an event ignored while busy, a lag, a
  failed refresh, an older refresh that came last.
* `AppShell`: every server that accepts can be stopped, and certificates match the
  installed CA unless two commands made them at once (`ShellSound`).
* `DeviceLogin`: a lost poll ends no sign-in, one sign-in makes one token
  (`SignInSound`).
* `Sidecars`: what bears a sidecar's name is whole and an index is of its bytes
  (`SidecarsSound`), for versions of the books that differ in size: the index's header
  tells no more than that. `sidecar_stale` (a violation): the bytes themselves may be
  those of an earlier books file.
* `BooksIndex`: for every file of up to seven tokens (records on one line, over
  several, with text and nested objects) each id that can be drawn is read from
  its own record (`RecordsSound`).
* `LookupTables`: for every table of three rows, the draw is by weight, the search
  is exact, and the analysis agrees with its definitions (`TablesExact`).

### What fails and has no run

Some statements of the code's comments fail in the models, and are kept as
definitions for whoever takes them up; no passing run lists them:

* `Shares!QuotaHolds` ("this plan allows at most {max} active share link(s)"):
  restoring a revoked link, or renewing an expired one, does not count again.
* `Shares!StampAddressesRound` (`share/feedback.rs:202`): a note is stamped with the
  revision served when it is sent.
* `LiveStream!SubscriptionHeld`: an unsubscribe and a subscribe that overlap can
  leave a page that believes it is subscribed while the app holds no stream.
* `GameHost!StaleCacheHarmless`: a directory that a deletion could not remove is
  served under a number that is given out again.
* `MathTransfer!PullMirrors`: a pull leaves files that the revision does not have.
* `LookupTables!MaxWinAchievable`: a top row of weight 0 has odds 0 and passes
  "Max win achievable" (`stats_analysis.rs:528`).
* `BooksIndex` with `BlankBetween = TRUE`: records that share a line with a blank
  between them are not recognised as adjacent, so all but the first are lost.

### Fairness

Only the runtimes are assumed to go on: weak fairness of `Advance(a)` of an app's
call on the documents (the app's and the server's tasks run, and Postgres serves
the waiters of a row lock in turn), of `Proceeds(c)` of a transfer under way, and
of `Finish(r)` of a request on the server, which includes the pool's timeout.
Nothing is assumed of users, of failures or of the network: a call may fail, and
then it has ended.

### Bounds

Every bound is a constant of its module (`MaxBets`, `MaxRestarts`, `MaxCalls`,
`MaxEdits`, `MaxRequests`, `MaxPushes`, `MaxCrashes`, `MaxLoads`, `MaxEvents`,
`Horizon`, `MaxMails`, `MaxTokens`, `MaxOps`, `MaxAttempts`, …). They stop the
system, which is why the configurations switch the deadlock check off; a thread or
transaction that waits for ever shows in `CallsEnd`, `TransfersEnd` or
`CrowdEnds` instead. Two actors are enough for the races at hand, as each is
between a reader and one writer; two sessions, documents, directories or tenants
are what it takes to tell mine from another's; three hashes let a deletion and a
push share one blob and differ in others; two days, hours or windows let a thing be
fresh and then expired; seven tokens are two records with something between or
inside them; three rows hold a tie, a zero and a tail. Every action of every
next-state relation is taken in some run. Symmetry is over interchangeable model
values and only used for safety.

## 3. Proofs

Proved by `tlapm`, for every value of the constants that meets the assumptions
named in the modules. These only say that the bounds are numbers, that the sets
one counts are finite, and that the initial data is of its type; none limits how
many requests, users, files or revisions there are, or which of them overlap.
Every inductive invariant was checked by TLC on the small instances before it was
proved. Where a theorem needs more of the environment, it says so as a hypothesis
(the wallet, the sidecars), or the property itself excludes a history (`overlapped`, `removed`,
`disturbed`, `raced`, `mishaps`), as it does in the runs.

### Wallet

* `TypeCorrect`: `Spec => []TypeOK`. The induction needs `DrawnKept`: a play that
  has drawn still has its event when it stores the round. What each store method
  returns is a lemma per method; `DeductType` is where the comparison in
  `deduct_bet` is used.
* `BetIdsNeverCollide`: `Spec => []BetIdsDistinct`. The invariant adds that every
  id in sight, also in rows, clones and plays under way, has been issued
  (`BetIdsIssued`), and that clones exist only while they are saved. The restart is
  the interesting case: the counter starts again from the rows alone, and the ids
  it forgets are nowhere any more.

The second half of `RgsWalletProofs` is about clients that wait for each reply
(`Serial`). Its invariant, `SerialInv`, says that no two busy threads share a session, that the
clone to be saved is the session, and that a row that differs from its session has
a thread that will write it.

* `RowsFollowSessions` and `WinsArePaidFirst` (`NoUnpaidRoundDropped`) need
  `Serial` alone: faults, forced events, resets and restarts are all allowed.
* `HistoryStaysCurrent` (`HistoryCurrent`) also needs that the server is not
  restarted: one between `set_last` and `push_history` leaves the view ahead of
  the history.
* `RoundsArePaidOnce` (`PaidOnce`) needs `Gentle`: `Serial`, stakes that the balance
  covers, no engine faults, no restart. Each is needed. A play pays the round in the
  slot before it takes its stake, so one that is refused leaves a paid round
  (`wallet_double_credit` shows it); a restart between the credit and the clear
  does the same.
* `PlayersSeeTheLedger` (`KeepsLedger`, the refinement of `WalletLedger`) needs
  `Gentle` and that wins never reach the largest balance (`Affords`), where
  `add_winnings` saturates and the contract would owe more than it pays.

### Documents

* `WritesCompareAndSwap` (`CompareAndSwap`) and `DocumentsAreVersioned`
  (`KeepsVersions`, the refinement of the abstract register). The invariant says
  that who has decided holds the lock (`Holders`), so the row decided on is still
  there (`Decided`), and what has been written is its next version (`Written`,
  `NextVersion`); sequence values are below the counter (`Numbered`), and a deletion
  names a revision (`Addressed`), as the server would accept one that does not.
* `CopiesStayCurrent` (`AppsSound`), `RemovedStaysRemoved` (`RemovalsLast`) and
  `UnchangedCopiesGiveWay` (`StaleCopyNeverWins`), as long as no two apps have had
  calls under way at once. `SyncInv` has a part that holds anyway (`Kept`: what an
  app has, it had from a row or from its user) and a part for calls that have not
  overlapped (`Calm`: what the calling app has read of the server is still so, and
  nothing of another app is pending).

### Content store

The invariant has three layers. `Typed` (`ContentTypes`) says what a request and
its transaction look like at each step. `Serialized` is what the lock of the game's
row gives the pushes, whatever else goes on: one push between lock and commit, with
a number past the head. `CalmInv` is what a request has read and may still rely on
as long as no other request has been under way or nothing has been removed.

* `PushesAreSerialized` (`PushesInOrder`) and the revisions' half of `PlanIsKept`
  (`Capped`) from the second layer, at any overlap.
* The bundles' half, `RowsHaveBytes` (`BytesBehindRows`), `LinksResolve`
  (`PinsResolve`; a pinned bundle resolves at any overlap, by its foreign key) and
  `ContentStaysWhole` (`ContentKept`; no orphaned object, at any overlap) from the
  third.

### Hosted games

* `CachesProofs`, first part: `MarkersTellTruth` (`MarkedComplete`),
  `RequestsGetTheirRevision` (`ServesRevision`), `DownloadsAreKept` (`NeverUndone`).
  One task at a time builds in a directory (`Locked`); whoever removes an
  undisturbed one is alone on it (`Solo`); so each task may rely on what it found
  there (`Fits`), and what bears a marker is complete (`Whole`). `DiskInv` is their
  conjunction.
* `DirectoriesAreSound` (`DirectoriesSound`) adds the budget. That what is kept fits is
  not inductive: it is too much from a marker until an eviction is over, and evictions
  overlap. `Budgeted` says that what is kept fits, or somebody has still to scan, or
  somebody who is evicting has counted every file that is kept and has every directory
  still on its list, as its victim or as its own: the last to scan answers for all.
* `CachesProofs`, second part: `BooksAreSound` (`BooksSound`). The bytes of a set of
  entries are the elements of a set of (entry, byte) pairs, so that sums are
  cardinalities: fewer entries have no more bytes, and a set of entries with distinct
  times has a least one to keep from. From that, what an eviction leaves is a last part
  of the list that fits, with the entry just touched. `BooksInv` adds that a cell is
  made for one mode or one file (`CellsDistinct`, `LoadersOwn`), and that whoever
  carries a file's cell to its mode has the one in the map or one that was evicted
  under it (`LoadersCurrent`); a load under way has the one in the map, which is why
  nobody else loads that file.
* `CachesProofs`, third part: `RecordsAreRead` (`RecordsSound`), for books files of any
  length and any layout without blanks between the records of a line (with them the code
  loses records, see above). The invariant describes the file: a record has ended before
  the next begins and before the end of the file (`Starts`, `Ended`), nothing solid comes
  before a record's beginning (`Begun`), and records on one line touch (`Parted`). The
  step that is easy to miss: a line may end with a nested brace and still pass; the rest
  of its record is then on a line that begins with no id, so the lines are not trusted.
* `ContentProofs`, second half: `HostsAreSound` (`HostsServeRight`) and `ColdIsTriedAgain`
  (`NeverLeftCold`). `HostInv` says that a request moves on within its kind
  (`AllSound`), that whoever is past a door was a member while asking (`Entered`),
  that whatever bears a number (a directory, an engine, a token, a request) bears a
  revision the number has named (`Named`), and that a mark is warm or being warmed
  (`Warmed`). With one revision ever named, `Named` leaves one answer.

### Workspaces and billing

* `MembersAreSettled` (`MembersSettled`) and `JoinsAreCapped` (`JoinsWithinCap`). What
  a request has judged still holds when it writes, unless its reads are old
  (`Judged`): an owner who goes is one of two, a new member is within the cap. Each
  write either keeps what the others have judged or makes them stale.
* `RowAlwaysFollows` (`RowFollowsStripe`), whatever the number of subscriptions and
  events and the order of delivery. As long as there is no mishap (`RowInv`), the
  last event of each subscription says what Stripe holds (`Mirrored`), every event
  in the outbox is absent, being handled or processed (`LedgerKept`), a live
  subscription with storage has the last event about storage (`LiveIsLast`, which
  is where two live ones for one price are excluded), and with every event about a
  price processed the row says what the last of them says (`SeatsFollow`,
  `UnitsFollow`). That an event is not overtaken means that those before it, of
  the same price, are processed; so each write is by the newest.

* `DomainsAreFresh` (`DomainFresh`). `FreshInv` adds to it that what a lookup
  under way has found is who owns the domain, unless a change has come since it
  read the column (`old`), so that what it caches is fresh too.

### Accounts

`AccountsAreSettled` (`AccountsSettled`), for any number of addresses, identities,
codes and requests, with the server stopping at any time. Four invariants, one for
each conjunct:

* `Known`: accounts are never deleted, so whoever a session, a mailed link, an
  identity or a request names is there; an account without a password is verified,
  and stays so, so that an identity's account does too.
* `Verified`: a login that no reset has overtaken has verified the present
  password, and a reset marks those it overtakes in the transaction that deletes
  the sessions.
* `Paired`, per code: of two polls past the read, both know that they overlap
  (`Alone`); a poll alone before its mint has no token before it (`NotYet`); while
  a token shows the code minted, some poll is about to delete the code, or it is
  gone (`ToForget`); there is one such token (`OneFresh`). A crash or a failed
  delete between mint and delete is the history that `ToForget` needs.
* `Charged`: failures counted and failures on their way to be counted stay below
  the limit and the requests together. The check alone is not inductive: it says
  nothing of the logins that passed it and have not failed yet.

### Share links

For any number of links, visitors, requests and days (`SharesProofs`):

* `LinksAreSettled` (`LinksSettled`). A creation checks the quota and inserts in
  different statements, so the count alone is not inductive: a creation that
  overlapped no other has a place of its own until it inserts (`QuotaKept`). And a
  session that only one first call met is counted by one request, which exists from
  its insertion to its count (`CountsKept`).
* `CapsAreOvershotByFew` (`Overshoot`). Those who have seen a place below the cap and
  not taken it yet count as well: taken and promised places together stay below the
  cap plus the requests (`CapsKept`).

### Developer's machine

`LocalProofs`, six inductions:

* `TransfersAreSafe` (`TransfersSafe`), for any number of clients, files and
  contents. `TransferInv` is about one command and its folder at a time: while a push
  hashes, a file that nobody has edited is in the manifest as it is or still to be
  hashed (`Pushed`); while a pull writes, what is not still to be written is as the
  manifest says (`Pulled`); a commit is a command's last step (`Commits`). Nothing
  about the blobs is needed: what collections remove makes a push fail.
* `SignInIsSound` (`SignInSound`), for any number of codes, dialogs and polls. Codes
  are issued in order, each to the command line or to one dialog (`Rows`); of the
  dialog's polls at most one is under way unless two raced (`Alone`); and a code that
  has made a token is gone (`Minted`).
* `ServersAreSound` (`ShellSound`), for any number of commands, servers and deaths of
  the app. As long as no two commands make certificates at once, the files are written
  in one order by one task, so the last of them says that all four are of one
  generation (`OnDisk`), the only one that is trusted or served (`Presented`). A server that
  accepts is in the slot or its task is about to put it there (`KnownServers`).
* `StoresAreKept` (`StoresKept`), for any tasks and processes. Whoever is past the load of
  a locked file has its lock (`HasLock`); so of a file that nothing spoiled at most one
  change is between load and write, and what it will write is its change of what was
  acknowledged (`Upheld`). That a file is what was acknowledged is not inductive without
  it: the write puts down what the load computed.
* `SidecarsAreSound` (`SidecarsSound`), for any number of opens, chunks, replacements,
  deletions and crashes, under the hypothesis that the versions differ in size
  (`LengthsTell`). An inode that is being filled bears the temporary name, so no sidecar
  and no mapping is of it (`Inodal`, `Fills`); what bears a sidecar's name or is mapped is
  whole (`Sides`, `Shows`), as long as no two opens filled one file.
* `LauncherIsCurrent` (`LauncherSound`), for any workspaces, commands, streams and
  capacity of a channel. Tasks are spawned in order and only one answers to the handle
  or is about to be aborted (`Started`, `OneStream`); a channel's receivers are the tasks
  that listen (`Heard`), so reclaiming an idle one closes nobody. While the launcher has
  a stream open and missed nothing, what it shows is the workspace as it is, or news of it
  is with the hub, in the stream's queue or in a refresh under way (`Informed`).

### Only model-checked

Liveness (`CallsEnd`, `TransfersEnd`, `CrowdEnds`), which is out of the prover's
reach, and `TablesExact`: the searches and sums of `LookupTables` are recursive functions
and folds, and what those compute for every table needs an induction over data.

## 4. Not modelled

Formats, logging and error texts; games, currencies and languages of sessions;
the JSON of rounds; file contents (a hash stands for its bytes, and a file for the
revision it belongs to); fixed-point parsing; floating-point statistics beyond
sums and ranks; HTTP headers, cookies and HTML; hashing of passwords and secrets.
Calls to Stripe, mail, GitHub and Discord are external: the models take what the
code makes of their answers.

Of the code's operations: `delete_game`, archives and the diff of revisions;
renaming and deleting a workspace; listings and the dashboard's administration;
`pull_profile`; the registration of games and the parsing of their index;
publishing to GitHub Pages (`preview.rs`, `file_chunker.rs`, a sequence of calls to
GitHub); the MCP tools and other commands of the CLI that print what one request
returns; `lgs-wasm`, a single-threaded copy of the wallet; configuration and
connections. In `DocumentSync` an app has one call under way and local writes
succeed. In the share runtime the play counters, which nothing reads back, are left
out.

## 5. Plan

1. Done: the core (wallet, documents, content store, caches), the other parts of
   the server and the developer's machine.
2. Done: the theorems of section 3.
3. `delete_game` and workspace deletion in `ContentStore`; two calls per app in
   `DocumentSync`; the pull of a profile.
4. A composition of `GameHost` with `BooksCache`, so that a number given out again
   meets books that are still mapped.
