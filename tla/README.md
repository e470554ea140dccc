# A verification of razzak-machinaries

TLA+ models, TLC configurations and TLAPS proofs for the shop-management system of
this repository: a Django REST backend on PostgreSQL and Redis, a staff web client
(Next.js) and a static public site.  Paths below are relative to the repository root.

Run from this directory, with the TLA+ tools and the community modules on the path:

    tlc -config LedgerChains.cfg MCLedger.tla
    tlapm LedgerProofs.tla          # and the other modules *Proofs

`PROJECT.json` lists the components, the runs, the lines of code each definition
stands for, the faulty variants each property catches, the hazards and the theorems.

## 1. Inventory

### What the system consists of

Backend (`src/apps/backend`).  Every request is served by one of several server
processes.  They share nothing but PostgreSQL (READ COMMITTED, one transaction per
`atomic` block) and Redis, so a race is always between statements of two requests.

| part | state | operations | hard because | correct when |
|---|---|---|---|---|
| Ledger, `transactions/` | transaction versions in chains (root, previous, number, status, current), `cached_balance` of each customer | create, take a payment, correct, void, rebuild all balances | two requests correct the same row; sums are read before the customer is locked; requests lock rows of three tables | chains stay lines with one current tip; history is only added to; balances are exact |
| Halkhata (new-year ledger), `halkhata/` | event rows (active, closed), stored invitation generations | create, close, reopen, pay, generate cards | status read before the transaction; the cards come from several SELECTs | payments belong to an open event; the cards show one moment |
| Customers, `customers/` | customer row (a copy of its current version), numbered versions, unique phone index | create, edit, archive, Django admin form | full-row saves, a SELECT as uniqueness test, archiving beside editing | versions form a line; the row shows the current one; phones are distinct; archived history is frozen |
| Follow-ups, `follow_ups/` | reminders with a status, at most one pending per customer | create, move, edit, complete, cancel | create turns into move; midnight; archiving; unique index waits | one reminder per customer, closed once, never moved after archiving |
| Public geo lists, `geo/` | area tables; lists cached in Redis under a version number | list, save, delete, import | the number is read and written without a lock; the import bumps it before COMMIT | no list older than an answered change |
| Geo registry and village import, `geo/` | four levels of areas with hand-made ids | create, update, delete, import, load from files | next id is the largest plus one, without a lock; updates save the row read earlier; deletion of parents | no area without its parent; a request that meets no other does what it was asked |
| Accounts, `api/admin/` | user rows, staff profiles, sessions | login, logout, own profile, own password, staff create, update, reset, issued passwords | full-row saves, sessions tied to a password hash, two lock orders | the last password and status set are in force; sessions of old passwords end |
| Search, validators, money | none | pure functions | rounding, normalisation, Bengali digits | equal a reference definition |
| Dashboard, edit history | none | read-only aggregates and merges | paging over capped merges | as the tables they read |
| Translation services | a cache in Redis | translate | outside provider | stateless |

Staff web client (`src/apps/frontend-admin`, `src/packages/shared`).  Each browser
tab is one thread of callbacks: user events, timers, effects, answers.

| part | state | operations | hard because | correct when |
|---|---|---|---|---|
| Searchable lists | address bar, search field, debounced value, list | type, clear, page, back, retry | four copies of one text kept together by effects; answers out of order; navigations take time | the copies agree once nothing moves |
| Links to records and back | the list's state, as a query inside a query | follow, go back, edit | every link must carry it on | the way back is to the list as it was left |
| Authentication | user, loading flag, CSRF token; cookies in the browser | bootstrap, login, logout, profile save, password change, redirect | five procedures of two or three requests each overlap; sessions end elsewhere | the tab shows whose session the browser has |
| Forms and dialogs | texts, one request in progress, an error, a dialog that is open or not | open, close, type, press, answer | answers after the user typed, closed or reopened; no answer in ten seconds; nothing tells a second press from a first | what is typed is not lost, nothing is entered twice unseen, no button stays disabled |
| Bilingual fields | two texts, a status, what was put there last | type either, re-translate | translation against typing; answers out of order | hand-written text stays; what is marked automatic fits |
| Picture picker | mode, picture, camera streams | upload, capture, cancel, remove | compressions and the camera answer when they like | the last choice is sent; the camera stops |
| Customer pickers | search, options, customer chosen, recent customers | type, select, clear, look up | three kinds of answers in any order | the customer shown is the one sent |
| Village import | file, preview, confirmation | choose, preview, confirm | the preview of another file | only a file found faultless is imported |
| Choice of invitations | selection, totals, past generations | toggle, choose by rule, reuse, generate, retry | totals are older than the table | as many cards as the user was told |
| Record pages | a copy of one record, a flag per button | load, press, reload, retry | the copy is old, two reloads overlap | what is offered is accepted; own writes are shown |

The public site is one static page.  UI kit, texts, Docker and CI have no behaviour
of their own.

### How the parts interact

- The client calls the backend by HTTP; a request's answer is all it learns.
- A request runs in three phases: the view and the serializer read and validate
  outside any transaction; the service opens one, locks, re-reads, writes; COMMIT
  publishes.  What the first phase read is old in the second, and whether the
  service re-reads it is what most hazards are about.
- Ledger, registry, follow-ups and invitations share the customer row: `is_archived`,
  `cached_balance`, and its lock.  Ledger and Halkhata share the Halkhata row.
- Foreign keys are deferred: an INSERT that refers to a customer or a Halkhata takes a
  key-share lock at COMMIT, and waits there for a `FOR UPDATE` of somebody else.
- Saves of geo areas and public lists share the version number in Redis.

## 2. Modules

| module | models | uses |
|---|---|---|
| `Ledger` | ledger, payments, closing of a Halkhata, and what archiving, edits and the admin form do to the customer row | |
| `LedgerChains` | abstract: a book of entries opened, revised, cancelled | |
| `LedgerRefinement` | the rows of `Ledger` read as the book | `Ledger`, `LedgerChains` |
| `LedgerInvariant` | the inductive invariants of the version chains and of the cached balances | `Ledger` |
| `LedgerProofs` | theorems: types, chains, refinement of the book, cached balances, the archive flag | `LedgerInvariant`, `LedgerRefinement` |
| `FollowUps` | follow-ups | |
| `Reminders` | abstract: one reminder per customer | |
| `FollowUpRefinement` | the rows of `FollowUps` read as reminders | `FollowUps`, `Reminders` |
| `FollowUpProofs` | theorems: types, trail, insertions, refinement | `FollowUpRefinement` |
| `Registry` | customers, versions, phones | |
| `RegistryProofs` | theorems: types, consistency, frozen history, who can deadlock | `Registry` |
| `Invitations` | one generation of cards against the tables it reads | |
| `InvitationProofs` | theorems: types, the cards fit the customers | `Invitations` |
| `GeoCache` | public lists and the version number | |
| `GeoRegistry` | areas with a level above, villages, imports | |
| `Geo` | the lists, the areas and the villages, side by side | `GeoCache`, `GeoRegistry` |
| `GeoProofs` | theorems: types, stale lists, areas and requests | `Geo` |
| `Accounts` | user rows, profiles, sessions | |
| `AccountProofs` | theorems: types, overlaps, the session that changed a password, the last editor | `Accounts` |
| `ListPage` | a searchable list page in one tab | |
| `ListPageProofs` | theorems: types, the copies of the search | `ListPage` |
| `ListLinks` | the links from a list's rows to the records' pages and back | |
| `AdminSession` | bootstrap, login, logout, profile save, password change, guards | |
| `Forms` | forms and dialogs, from the press to the answer | |
| `Bilingual` | a field that is translated or converted | |
| `ImagePicker` | the picture of a customer's form | |
| `CustomerPicker` | the choice of a customer for a sale or a payment | |
| `VillageImport` | a file, its trial, its import | |
| `InvitationSelector` | whose invitations are generated | |
| `RecordPages` | a record's page, its buttons, the server's answers | |
| `AdminScreens` | one tab: any of the nine modules above but `ListPage` | those |
| `AdminScreenProofs` | theorems: types, what is sent, kept, stored twice, shown, on each of the nine | `AdminScreens` |
| `MC*` | symmetry and bounds for TLC | |

In the client modules an action is what runs between two awaits: a handler up to its
first request, or all that follows an answer, with the effects React runs for it.  The
server is an action of its own (`Serve`), later than the request and before or after the
client gave up.

Conventions, the same in every backend module.  A *worker* is a server process; `pc[w]`
is how far it is in its request, `req[w]` the request, and one action is one statement
that other requests can see or that waits for them.  Committed tables are functions
from primary keys; what a worker has written and not committed is in `wrote[w]` (or
`draft`, `added`), and its commit publishes it and frees its locks.  A waiting statement
is a guard on the lock, so that re-reading the row under the lock (which READ COMMITTED
does after a wait) is reading the committed table in that step.  `Abort` is a failed
statement, a lost connection or a crash, at any point; PostgreSQL rolls back, so
recovery is the same for all three.  An operator defined just before one it
resembles and never used by the specification (`CorrectableIfNotVoided` before
`Correctable`) is a *faulty variant*: replacing the second by it must break the
property that `PROJECT.json` pairs it with.  A *history variable* is never read by a
guard.

### Ledger

`tx`, `archived`, `cached`, `hkStatus` are the columns the code decides by.  A
sale's lines, dates and notes are one amount.  `Receive*` are the serializers with the
reads of the view (they keep in `seen` what the code keeps in instances); `Insert` is
`create_transaction` (with `create_halkhata_payment` around it); `Correct` and `Void`
lock the source and write; then each goes through `sync_customer_cached_balance`, which
is `SumLedger` and `UpdateBalance`, two statements; `CommitBalance` ends it.
`LockCustomer`, `CommitArchive`, `CommitCustomer` are `archive_customer`,
`create_customer_version` and Django's admin form as far as the ledger can tell.
`dirty` and `drift` are history: a read that is older than another commit on the
customer, and a balance written from such a read.

### FollowUps and Reminders

`CheckCreate` is `create_follow_up`, which becomes a move when the customer has a
pending row; `LockRow` and `LockCustomer` are the two locks of the joined
`select_for_update`, the follow-up's first; `Insert` waits for and is refused by
`uniq_pending_follow_up_per_customer`; `Midnight` advances `today` at any moment.
`Reminders` says what remains of it for the user: a reminder set, reworded, moved
or closed.

### Registry

`rows[c]` is the customer, `versions[c]` its history in insertion order.
`ValidatePhone` is the serializer's SELECT, which does not see archived customers;
`Undecided`, `Taken` are the unique index, which does.  An UPDATE is two steps, as in
PostgreSQL: `WriteVersion` or `WriteAdminSave` locks the customer and marks the row that is
replaced, so that its number is undecided from then on; `EnterPhone` then waits for the index
while another transaction is giving up or taking the new number, and `EntryRefused` is its
IntegrityError.  Two saves that exchange numbers therefore wait for each other, until
`Rollback`, which is PostgreSQL ending one, or a lost connection.  `WriteAdminSave` is
`CustomerAdmin`: the whole row it loaded comes back, no version is added.
`formSaved` is history.

### Invitations

A generation resolves its customers (`ResolveIds`), reads their rows (`ReadCustomers`,
which gives up when somebody was archived in between) and stores a snapshot of each
(`StoreGeneration`).  `RecipientsIn` says whom a request is for by one customer table, so that
the selection (`SelectionOfOneMoment`) and the cards (`CardsOfOneMoment`) are each held
against such a table, and need not be of the same one.  `CommitBalance`, `CommitArchive` and `CommitStatus` are what other
requests commit between any two of these.  `moments` is history: the customer tables
since the request arrived, at most `MaxMoments` of them.

### GeoCache

`version`, `entries` are Redis, `content` counts committed changes.  A reader makes
its key from the version it reads first (`ReadVersion`, `InitialiseVersion`), looks up,
queries on a miss and stores.  A query is a filter (parents, search text, page), an ordering,
and whether it is one the view would accept.  `KeyOf` is `build_geo_cache_key`, which joins the
texts without quoting and leaves the ordering out: two queries that differ in the ordering
have one key, and so has one whose page or page size is no number with the one whose text is
the same.  The view finds that out when it reads the rows (`Refuse`), hence only after a miss.
A saving administrator commits, then bumps; an importing
one bumps, then commits; the loading command without a villages file commits and writes no
number (`CommitLoad`).  `raced` is history.

### GeoRegistry and Geo

`areas[k][i]` is the row of table `k` under identifier `i`.  A request is two steps: what the
serializer and `get_object` read (`Create`, `SaveFields`, `Destroy`, `Import` put it in
`task`), and the statement or transaction that writes (`Insert`, `Save`, `Delete`,
`commit_village_import`), which the keys of the tables can make fail.  `Insert` never
replaces (`objects.create`), `Save` writes the whole row read earlier and inserts it when
there is none, as Django's `save()` does.  The loading command, `Load`, is one transaction whose
rows stay locked, hence one step; so is the transaction of an import, after its count.
`MaxId` is the largest value of the column: one more is an error.  `overtaken` is
history.  `Geo` puts `GeoCache`, one instance with divisions and districts, and one with
villages side by side (`Areas`, with the levels as parameter): `GeoCache` does not look at what changed, only that something did, and
no area refers to a village.

### Accounts

`row` is the user's password and `is_active`, as one record because
`instance.save()` writes both; `loaded[w]` is the instance a request holds.
`SaveProfile`, `SaveUpdated` write what was loaded; `PasswordAlone` is
`save(update_fields=["password"])`.  `session[b]` has the hash the session was made of.
`TouchProfile`, `SaveUpdated`, `StampProfile` are the three writes of a staff update in
their order, `SaveReset`, `StampProfile` those of a reset: two lock orders, so
`BreakDeadlock` is PostgreSQL's detector.  The cookie of a browser changes when an answer
reaches it (`StoreSession`, `RenewSession`, `DeleteCookie`), which is later than what the server
does to its session (`EndSession`); answers of requests in flight together come in any order,
so a refusal may delete the cookie that a change has just renewed.  `lastSet`, `renewed`,
`late`, `crossed`, `lastEditor`, `dirty`, `overlap` are history.

### ListPage

One module for the pages of customers, transactions, staff users, edit history and
addresses, which are written alike; the message that is dismissed and the clear button
exist on some of them.  React runs the effects of a change in the order they
are declared, with the values of the render they belong to: `ComeTo` is an address
coming into force with them, and that order is what the properties depend on.  The
router is external: a navigation takes effect later, and a new one discards it.
`wanted`, `crossed`, `forgotten` are history.

### ListLinks

`state` is the list's own; `from` the query a record's address carries.  `EditUrl` is
`buildEditUrl`, which appends "/edit" after that query, so that the address leads to the
record's page and its last value is damaged; `Parsed` is what `parseListState` makes of
that.  The six lists differ in what their rows' links carry.

### AdminSession

`calls[p]` is the request that procedure `p` waits for.  A request takes its cookies and
its token when it is sent (`Request`); the server decides by them when it comes to it
(`Permitted`, `ServeLogin`, ...); the client goes on when the answer is there
(`LoginCsrf`, `LoginAnswered`, ...).  `ensureAdminCsrf` is a first request where there is no
cached token, and always for a login.  `Redirect` is the effects of the three guards.
`Expire` stands for everything that ends a session elsewhere: time, another tab,
another browser, a deactivation (`Accounts`).  Other writes of the client fetch their
token first and are not here.  `doubtful`, `signedOut` are history.

### Forms

Some two dozen forms and dialogs are written alike, and each is a record of what it does
differently: whether its fields are disabled meanwhile, whether it can be closed, what a
success and a failure do to it.  The forms of one component share one flag and one
error.  `Serve` may come to a request after `Fail` has given it up (`lost`).  `Empty`
and `Finish` are what the answer does to a form whatever the user did meanwhile.  The notes of
a halkhata are `synced`: `unseen` says whose text the record has and the page has not, another
user's (`ChangeElsewhere`) or a save's whose reload has not come, and a reload that finds one
(`Reloaded`, `PageReloaded`) puts it over what was typed (`Shown`).  The note of a completed
follow-up is emptied when `onConfirm` returns, reload included (`clearsLast`).

### Bilingual, ImagePicker, CustomerPicker, VillageImport

They keep the names of the hooks' refs and handlers.  Texts are numbers, and an English
text is known by how it came to be (`made`).  A cancelled request (`cancelled`,
`forsaken`) is answered too, and dropped by the flag of the effect's clean-up.  A sale whose
customer is in the address is asked for twice, by the form and by its page; `Preselect` is the
page's answer, which puts that customer on display whatever the form holds by then.

### InvitationSelector

`told` is the number on the button, `agreed` that the large-batch dialog was confirmed.
`Others` archives or adds one customer or changes one due after the page was opened, and
`CloseOrReopen` closes the halkhata or opens it, for a refusal of its own ("closed"); `Serve` is
`create_invitation_generation` as `Invitations` models it, in one step.

### RecordPages

The record is the history `rows` of its states, a copy is a place in it.  Each page is a
record: which buttons it offers in which state (`offers`), which of its flags disables
which (`busy`), what others may do (`others`).  `newest` is the load whose number is the
latest, `late` all those it superseded, which may be answered in any order.  `Accepts` and `Becomes` are the
services' tests and effects on the state alone.  `heard` is the version the
page's own last write was answered with.

### AdminScreens

A tab shows one of them at a time, and they share nothing, so the behaviours of the tab
are theirs, side by side and not multiplied.  `screen` says which; the others stay at
one of their initial states.  Its properties are those of the modules.

## 3. Runs

| run | asks | bounds |
|---|---|---|
| `ledger_chains` | chains, tips, balances, history, refinement and the inductive invariant under payments, corrections, voids and rebuilds | 2 workers, 1 customer, 1 Halkhata, 3 rows |
| `ledger_mixed` | every operation but correction against every other: locks, archiving, liveness | 2 workers, 1 row |
| `ledger_drift` | is the cached balance exact at rest? **violated** | 2 rows |
| `follow_ups` | trail, archiving, dates, refinement to `Reminders`, liveness | 2 workers, 1 customer, 3 rows, 2 days |
| `geo` | staleness only by a race, entries of the current version fresh, filters apart, whose ordering is served; no area without its parent, requests that nobody overtook done as asked | 1 reader, 2 writers, 2 changes, 2 filters, 2 orderings, 4 version numbers; 2 requests, 2 levels, 2 identifiers, 2 names |
| `registry` | versions, phones, pictures, frozen history, who can deadlock over phone numbers | 2 workers; 2 customers with 2 versions and no pictures, or 1 customer with 4 versions and a picture |
| `invitations` | count, moment and completeness of a generation | 3 customers, 4 customer tables during one generation |
| `accounts` | passwords, deactivations, sessions, last editor | 2 workers, 1 account, 2 superusers, 1 browser, 2 new passwords |
| `list_page` | do the copies agree at rest? | 3 texts, 2 pages, 2 entries behind |
| `screens` | each screen of a tab: what is sent twice, lost, stale or refused, and does it settle? | 2 presses, 2 openings, 2 texts; 3 translations; 3 pictures, 2 cameras; 3 files; 3 versions; 3 customers, 2 searches, 2 recents; 2 invited, threshold 1; 2 pages; 2 accounts (1 superuser), 2 sessions, 2 procedures at a time |
| `session_logout` | does a logout end the session? **violated** | as `screens` |
| `list_links_edit` | does an Edit link open the edit page? **violated** | 2 pages, 1 search |

Why the bounds are enough.  The races are between two statements of two requests, on
one row: a third request meets either of them in the same way.  Three
rows make a chain with a correction of a correction and a lost race, or two chains;
three follow-ups a moved reminder that is moved again.  In `ledger_mixed` the
interest is in locks and the customer row, and corrections, which lock as
voids do, are in `ledger_chains`.  `follow_ups` runs `complete` and
not `cancel`, which differs in the status alone.  Two changes and two filters
let a slow reader store between the two bumps; two levels are a parent and a child, two
identifiers a creation that is the last the column can hold.  `Registry` splits its instance
because phones race between customers and pictures only within one.
In `screens` each bound is what its race needs: two presses to enter a thing twice, two
texts to tell the one sent from the one typed since, two translations under way
and one after them, a third file, picture or customer to overtake with, three versions so
that a reload can be late and another user come between; two sessions, since the second
login is the one whose CSRF secret is new, and two procedures, since an answer that
overtakes needs one that is overtaken.  A threshold of 1 makes 2 a large batch.
`MCAdminScreens` looks at two customers to invite in one of their orders only, and lets nothing
come between a request's being given up and what its procedure makes of that, which are one
task of the browser (`Prompt`); one customer, or the halkhata, is changed while the page is
open.
In `ListPage` two different texts are needed to tell a lost one from a kept one and
a third (the empty text) to clear; two entries to go back twice.
Deadlock checking is off where the system may stop (a finite supply of changes, a page
nobody touches), and where requests can wait for each other until PostgreSQL ends one:
`Registry` then says which can, `OnlyFormsDeadlock`.  In `accounts` it is on, and the
deadlock of a staff update and a reset is ended by `BreakDeadlock`.  `ScreensSettle` is the
absence of deadlock of the client.

Fairness.  `EveryRequestEnds` (of `Ledger` and `FollowUps`) assumes, for each worker, strong fairness of its next
step: a server process does run its request, and PostgreSQL queues the waiters of a
row lock, so that a worker whose lock becomes free again and again gets it.  Nothing is
assumed of requests arriving, of `Abort` or of midnight.  `ScreensSettle` assumes
weak fairness of what the client does by itself: an answer is handled or the request
times out after ten seconds (`Succeed`, `Fail`, `Reloaded`; axios' timeout makes one of
them happen), and an effect runs after its render (`Redirect`).  Nothing is assumed of the
server.

### What the violated runs show

1. `ledger_drift`: two creations for one customer overlap; the later UPDATE writes a
   sum that misses the other's row (`transactions/services.py:182`).
   `ledger_chains` shows that nothing *but* such an overlap does that
   (`DriftOnlyByOverlap`), and that the rebuild command repairs it when it does not overlap itself.
2. `session_logout`: `adminAuthApi.logout` sends the token it has.  After a login that is
   the one fetched before Django's `login()` made a new secret, so the server answers 403,
   the provider ignores that (`AdminAuthProvider.tsx:132`), the page says signed out, and the
   session stays open.  A reload of the page signs the user in again.
3. `list_links_edit`: the Edit link of a row of the address lists, and of a customer list that
   is searched, ordered or turned, opens the record's page
   (`bangladesh-address/routes.ts:52`, `customers/routes.ts:73`).  `BackToTheListLeft` says what
   that costs: the way back is to the list it was left at, *unless* such a link was followed.

### Other behaviours met while modelling

Each is reachable in a model by a few ordinary steps, so a property that forbids
it would fail; they are recorded here instead of as a run each.

- A payment is committed on a Halkhata closed after the view read it
  (`halkhata/services.py:93`; the text at `halkhata-translations.ts:36` excludes it), and
  invitations are generated for one (`invitation_services.py:171`).
- A transaction or a follow-up is created for a customer archived meanwhile
  (`transactions/services.py:248`, `follow_ups/services.py:97`).
- A corrected payment keeps its link to the Halkhata, whatever type it becomes
  (`transactions/services.py:386`).
- Django's admin form restores an archived customer it had loaded
  (`customers/admin.py:48`), and changes a picture without a version.  Two forms, or a form and
  an edit, that exchange phone numbers wait for each other until PostgreSQL ends one; two edits
  do not, since each validates its number with its customer locked (`OnlyFormsDeadlock`).
- The phone of an archived customer passes validation and ends as an uncaught
  `IntegrityError` (`customers/services.py:52`).
- An import bumps the version before its COMMIT (`geo/import_services.py:126`); a cold
  start can set the number back over a bump (`geo/cache.py:10`).
- The ordering is not in the cache key, so a list, and which rows are on its page, can come in
  somebody else's order (`geo/views.py:107`); and a request with an unknown ordering, or a page
  or page size that is no number, is answered from the cache where it would be refused.
- The loading command without `villages.json` commits areas and writes no version number
  (`load_bd_geo_code.py:84`): the lists show them when they expire.
- A due-only generation can hold a card without a due
  (`invitation_services.py:177`): the ids and the rows are of two moments
  (`SelectionOfOneMoment`, `CardsOfOneMoment`).
- A staff update and a reset of one account can deadlock until PostgreSQL ends one
  (`staff_users/serializers.py:207`).
- The refusal of a request that was sent before a password change and answered after it
  deletes the renewed cookie, and a change answered after a logout signs the browser in again
  (`api/admin/auth_views.py:116`): the `crossed` of `ChangeKeepsSession`, and its `renewed`.
- A profile update does not test that an email is free (`api/admin/serializers.py:57`).
- Two administrators read the same version number and one bump is lost
  (`geo/cache.py:25`), against `docs/api-geo.md:343` ("reflects changes on the next
  request"); `StaleOnlyAfterRace`, in `ListsServe`, says that nothing else does it.
- A partial update of an area takes an `id`, saves over the area that has it and leaves the
  first one (`geo/admin_serializers.py:34`); one that a deletion overtakes inserts the area
  again, and of two that overlap the second undoes the first (`geo/admin_views.py:65`).  Of
  two creations that take the same identifier the second is an uncaught `IntegrityError`, and
  once the largest identifier is used every creation without one is an error
  (`geo/services.py:6`).
- A profile update, documented as touching safe fields only, saves the whole row and
  restores a password reset meanwhile (`api/admin/serializers.py:78`); that is the `overlap` of
  `UndoneOnlyByOverlap`.
- After the back button the debounced search is still the one left behind, and the
  effect that follows it pushes it again (`BangladeshAddressPage.tsx:60` and the same effect of
  the other pages).
- A sale, a payment, a halkhata or a customer's version is stored twice when the answer to the
  first press is lost and the user presses again, or presses while the router is leaving
  (`TransactionCreateForm.tsx:82,94`).
- The note of a follow-up is emptied by a failed completion (`FollowUpActionDialogs.tsx:70`);
  a dialog that the escape key closed while its answer was awaited can be opened again and
  then be closed by that answer (`TransactionVoidModal.tsx:62`); the dialog of a new halkhata
  shows an old error.
- The notes typed for a halkhata are replaced by another user's, or by those of an earlier save
  whose answer or reload had failed, when the record is loaded again after a payment or a change
  of status (`HalkhataDetailHeader.tsx:37`).  The note of a completed follow-up is emptied only
  after the reload that follows, with what was typed in the dialog opened meanwhile
  (`FollowUpActionDialogs.tsx:70`).
- A forced re-translation overwrites what was typed by hand after it was pressed; put back
  to what it was, a Bangla text keeps an English one made of another; "translating" can stay
  after a re-translation that a typed text overtook (`use-bilingual-translation.ts:85`).
- The preview of a village file that is answered after another was chosen opens the import of
  the other (`VillageImportPanel.tsx:62`).
- A picture compressed late replaces one chosen later; the camera asked for twice, or while the
  page is left, is never stopped (`profile-image-picker.tsx:108,128`); a failed capture
  hides a picture the form still sends.
- The picker of a sale keeps the customer of the address when it cannot be read, and shows
  nobody; when the page's own request for that customer is answered after another was chosen, or
  none, it shows the one of the address while the form sends the other or nobody, and its
  "Change" is gone (`TransactionCustomerSelect.tsx:32`: the `Imposed` of `ShownIsSent`); both pickers keep the options of the search before when one fails.
- A retry of a failed generation sends the selection of the moment, emptied or large,
  without asking (`PreHalkhataInvitationPage.tsx:204`); choosing by due shows every row checked.
- Links offer a transaction or a revision for an archived customer, and the deletion of
  a place that has others in it (`CustomerBalanceSummary.tsx:49`): `KnownRefusals`.
- A staff form that was opened before somebody's deactivation saves the account as active
  again (`StaffUserDetailPage.tsx:95`).
- The rows of halkhatas and of the edit history, and a transaction's other versions, do not
  carry the list's state; what `CustomerEditPage` reads of it no link ever gives.
- On a list page, text typed while a pushed search is under way is lost when it
  arrives; Clear is undone by a debounced push; Clear followed by the same text
  leaves the address without it (`forgotten` in `ListPage`).

## 4. Proofs

Every theorem is about the specification of its module for *all* values of the constants:
any number of workers, customers, rows, days, versions, not the two or three of a run.  The
assumptions are those named in the modules (`LedgerConstants`, `FollowUpConstants`,
`RegistryConstants`, `InvitationConstants`, `GeoConstants`, `AccountConstants`,
`ListPageConstants`, `ScreenConstants`, `NoneIsNothing`), which TLC evaluates in every run: marks such as `NoWorker` are not workers, amounts and bounds are
naturals, there is somebody to be asked about (a customer, an account), a table of customers
is finite, a process is not both a reader and a writer, "none" is not a name.

Everything here has one shape.  What the code promises is about committed rows, and a
commit publishes what its request computed several statements earlier.  So no safety
property is inductive alone: the invariant has to say, for every request in progress, what
it has read, whether that is still true, what it has written and not committed, and by which
lock or index nobody can make it false meanwhile.  A property then follows in a
line, and an action property from the invariant before the step.  Proofs are laid out by
action; lemmas say what a step leaves alone for the other requests (`OthersFit`,
`WritesStay`), so that the interesting leaf is the request that moves.

### Ledger (`LedgerProofs`)

`TypeCorrect`: `Spec => []TypeOK`.  `TypeOK` is inductive as it stands, because it also types the
private writes.

`ChainsStayInOrder`: `Spec => []ChainInvariant`.  The lines survive a commit only because the
request has held the lock of its source since it read it and the keys it uses are nobody
else's.  `ChainInvariant` says that: the committed rows are in order (`RowsInOrder`: keys below
the sequence, one row per chain that nothing replaced); for every request that has
written, what it wrote is exactly an opening, a replacement or a void of a row that is *still*
the active one and that it holds (`WritesUnderway`); and no two requests write one key.
There is one lemma per kind of step (`InsertKeepsChains`, `CorrectKeepsChains`,
`VoidKeepsChains`, `CommitKeepsChains`, ...); the commit is three, one per kind of write.
From the invariant follow

- `ChainsAreLines`: `Spec => []ChainIsALine`; of two corrections, or a correction and
  a void, of a row, one is refused;
- `CurrentRowsAreUnique`: `Spec => []OneCurrentPerRoot`; the partial unique index never
  rejects a commit, and no balance counts a chain twice;
- `VersionsAreHistory`: `Spec => HistoryIsAppendOnly`; a committed version changes its
  status once and nothing else.

`ChainsHaveTips` (`TipsLead`: the row that nothing replaced has the highest number of its
chain) is a second invariant over the first, and gives

- `LatestVersionIsTheTip`: `Spec => []LatestIsTheTip`; searching a chain by its version
  numbers, as `get_chain_latest_version` does, finds the row that counts;
- `LedgerImplementsBook`: `Spec => ImplementsBook`; every step of the ledger opens, revises or
  cancels one entry of the book of `LedgerChains`, or stutters.  A commit is the only step
  that does, and `WritesUnderway` and `TipsLead` tell which it is.

`BalancesStayExplained` (`BalanceInvariant`) carries through a request what its sum was made of:
an unfinished one that nobody overtook holds the sum it would get now (`SumsFit`), whoever saves
the whole customer row under its lock has the balance that is there (`ReadsFit`), and the locks
are held until the end (`HoldCustomers`).  A sum is not taken apart: all that is used is
that equal sets of live rows have equal balances, and `ChainInvariant` says which commits leave
another customer's live rows alone.  From it

- `OnlyOverlapsDrift`: `Spec => []DriftOnlyByOverlap`;
- `OnlyAdminFormsUnarchive`: `Spec => OnlyFormsUnarchive`; no edit brings an archived customer back.

### FollowUps (`FollowUpProofs`)

`FollowUpInvariant`: what a request has rewritten is the one pending row of its customer, under
its lock (`Rewritten`); what it has inserted has a fresh key and is the only pending
row its customer will have (`NewlyWritten`); a move has closed the old row or done nothing
(`Whole`); two requests never write for one customer (`Apart`).  `Apart` is the unique index
at work: an INSERT waits for the other transaction's row, and fails if it commits.  From it

- `TrailIsWhole`: `Spec => []RescheduleTrail`;
- `InsertionsAreAllowed`: `Spec => InsertionsAllowed`, by way of `ArchivedCustomersAreNotMoved` and
  `PastDatesAreRefused`; the first needs that a move holds the customer's lock from the
  test of the flag on, the second that the day a request arrived on is not later than today,
  however often midnight passes;
- `FollowUpsImplementReminders`: `Spec => ImplementsReminders`; a commit is shown to set, reword, move
  or close the customer's one reminder.  The counters of closed reminders are cardinalities,
  which change by one when one row is closed.

### Registry (`RegistryProofs`)

`RegistryInvariant`: a row read under the lock is the committed one (`ReadUnderLock`); the version
added follows the customer's history, and the row written copies it (`Written`); a phone number
that is being written is on no other row, committed or not (`PhoneClaimed`, the unique
index).  From it `CustomersStayConsistent`: `Spec => []CustomersConsistent` (versions in a line,
the row as the current one, distinct phones, pictures) and `ArchivedCustomersKeepTheirHistory`:
`Spec => ArchivedHistoryFrozen`.

`EditsNeverDeadlock`: `Spec => []OnlyFormsDeadlock`.  Over the first invariant, `EditsApart`: of any
edits that hold their customers, one wants no number of the others'.  An edit that validates its
number finds it at no customer that is not archived, and those the others hold are not; so the
last to validate is such a one.

### Invitations (`InvitationProofs`)

`InvitationInvariant`: the customer table is one that every request in progress remembers, the
customers resolved are those the request is for in one of them, and the cards
read are the customers resolved as one of those tables had them.  The step that needs an
argument is `ReadCustomers`: it compares two *numbers*, and that no customer was lost follows
because one set is part of the other and both are finite (`NobodyWasLost`).  The selection is
`RecipientsIn` of one remembered table (`SelectedAtOnce`), the cards the dues of one, in general
another (`ReadAtOnce`).  From it `CardsAlwaysFit`: `Spec => []CardsFitTheCustomers`.

### Geo (`GeoProofs`)

`CacheInvariant`: as long as no number was raced over, a list under the current
version, or on its way there, holds every settled change; one under a version that a reader knows
holds what it was to show; nothing is under a version to come, and nothing under the current
one while an import has bumped it and not committed (`Fresh`); and whatever is cached or on its
way was selected by the filter in its key, for a request that was valid (`Filtered`), in
whatever order: only what a reader read itself is in the order it asked for.
`StaleListsAreRaces`: `Spec =>
[]ListsServe`.

`RegistryInvariant` of the areas: a request that nobody overtook still knows what it read
(`Knows`: the identifier it will take is free, the parent is there, the fields it will write
back are those of the row, the children are none, the count of the import is right).  That the
next number is free needs that a finite set of identifiers has a greatest one, which is proved from
the well-foundedness of strict inclusion rather than by induction.  `RequestsDoAsAsked`: `Spec
=> RegistryKept`.  The lemmas are stated once, for any set of levels, and used for the two of `Geo`.

### Accounts (`AccountProofs`)

`AccountInvariant`: a row that will be saved whole is the committed one unless a commit on it came
since (`LoadedIsCommitted`); what is written is that row with the fields asked for, or the password
alone over the row that is there, whose lock is held (`WroteFits`, `HoldsRow`).  After a change
of password, whatever can still set or delete the browser's cookie was sent before an answer that
came since (`TakesNothing`): the steps that take the session away are in the statement, as
`crossed`.  A request about to commit has the profile's lock or finds its own name there
(`StampFits`), and the lock of the user row keeps others from committing a name.  From it
`OnlyOverlapUndoes`: `Spec => []UndoneOnlyByOverlap`, `ChangeKeepsItsSession`: `Spec =>
[]ChangeKeepsSession`, and `LastEditorIsNamed`: `Spec => []ProfileNamesLastEditor`.

### Lists (`ListPageProofs`)

`ListInvariant` follows the one text through its four copies: the list was asked for with the
debounced search and the page of the address (`ListInStep`); a navigation under way leads
somewhere else, and only the first entry of the history can have a message (`TrailOfMoves`); a search
that is not in the address is on its way there or was forgotten (`SearchUnderway`); and as long as
the user has crossed nothing, what he asked for is in the field, and a navigation under way brings
the debounced search (`AskedForInTheField`).  The hard step is `ComeTo`: an address comes into force
and all the effects of that render run, with the values of before or after, in the order they are
declared.  `ListPageFollows`: `Spec => []ListFollowsTheUser`.

### Screens of a tab (`AdminScreenProofs`)

One invariant per module, and `AdminInvariant`, all nine: a step of one screen leaves the variables
of the others alone.  Per module there are four lemmas, for its beginning, its steps, a step of
another screen, and what the invariant means (`FormInit`, `FormStepKeeps`, `FormRests`, `FormMeans`).

- `ImportInvariant`: a faultless summary is of the file chosen unless that changed during its
  trial, and none can be chosen under the open dialog.
- `LinksInvariant`: until the user strays, a record's address carries the query made of the list's
  state, and such a query is read as that state (`QueryParsed`): `WayBack`.
- `InvitationInvariant`: what the user was told is the count of the selection as the page saw the
  customers; the page's numbers are the table's until somebody changes it; and a refusal for an
open halkhata has a reason: a change, an emptied choice retried, somebody of an earlier
generation who is archived.
- `PickerInvariant`: the last choice is the form's picture, or all that is being compressed;
  one camera is asked for or is running and shown.
- `CustomerInvariant`: the lookup under way is of the form's customer, the search under way of the
  text the timer fired for; who is shown is who is sent, but for the answer of the page's own
request.  The recent customers stay distinct, the last picked first
  (`RecentsInOrder`): `Without` takes one position out of a sequence, where the code filters: the
  same thing, since nobody is there twice, and the provers know nothing of `SelectSeq`.
- `TextInvariant`: the newest translation awaited is of the settled text, and a text marked
  automatic is the last one put there: `TranslationSettlesDown`, and half of `TypedTextStays`.
- `FormInvariant`: every request but the one awaited was refused, given up, or has made its text
  impossible in its form, which left, or is emptied, or has been typed on in (`AnswersUsed`); hence
  two requests of one text are explained, whatever the server has done of them yet.  That a thing
  which can be stored again (`again`) ends that way is checked of each form (`AgainEnds`), the others of a
  component do not leave.  A text the page has not seen is one it sent and the server took, or
another user's (`UnseenStored`).  `EntriesOnce`, and with `SentIsThere` the other half of
  `TypedTextStays`.
- `RecordInvariant`: whatever is on its way to the page is of versions there are
  (`VersionsSeen`); an operation is one the page offered in the state it showed (`OpsFit`); the
  newest load, or what is shown when there is none, is not older than the page's last accepted write
  (`WritesSeen`).  That each of the twenty pages offers only what is accepted, and that its states
  are closed under its operations and other users' (`PagesFit`), is proved page by page, from the
  tables of the module: `PagesFitTheirRecords`.
- `SessionInvariant`: a request that nothing overtook was sent with the session the browser
  still has (`SessionAnswerFits`), and what the tab shows is wrong only when it is doubtful, while it
  loads, or while an answer that will tell it is under way (`TabKnows`).  The step
  that needs an argument is the password change: it closes the session that is shown and opens one of the
  same account (`PasswordFits`).  `TabAgreesWithBrowser`.

`NoneIsNothing` says of the value for "nothing" that it is none of the values it stands beside.

Each of these modules also has its types as a theorem (`RegistryTypes`, `FollowUpTypes`,
`InvitationTypes`, `GeoTypes`, `AccountTypes`, `ListPageTypes`, `ScreenTypes`).

### Only model-checked

- Liveness (`EveryRequestEnds`, `ScreensSettle`) and that nothing is stuck (deadlock checking, where it is on):
  fairness and ENABLED are beyond the prover.
- What a sum over a set of rows is: it needs induction over data.  TLC computes it in
  `ledger_chains`; the theorems about balances hold for whatever `Balance` is of the live rows.
- The violated runs, where TLC's counterexample is the result.

## 5. Plan

Done: the ledger first, since money is the point of the system; then the parts
that share its rows; then the caches, accounts and lists; then the client, screen by
screen; then the proofs, in the same order.  Every safety property that a passing run checks is now
a theorem as well.  What is left:

1. the missing operations of `Accounts`: creation of a staff user, email addresses, the
   synchronisation of superusers at start-up;
2. pure algorithms against reference definitions: money rounding, phone
   normalisation, search ranking, the paged merge of the edit history.

### Not modelled

- Deployment, texts, themes, the primitives of the UI kit: no behaviour of their own.
- Dashboard and edit history on the server, translation providers, search ranking, validators:
  functions of tables and texts other modules change (some are planned above as pure
  algorithms); their pages and callers are in `RecordPages`, `ListPage`, `Bilingual` and
  `Forms`.
- Permissions and throttling: every request modelled is one that is permitted, but for the
  session tests of `AdminSession`.
- Validation of fields before a press, columns, cards, formatting: whether there is a press and
  how things look.
- Django's generic admin beyond the customer form; files and their storage.
