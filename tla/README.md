# A verification model of the delivery platform

TLA+ models of the backend in `src/backend` (Go: a modular monolith on
PostgreSQL and Redis), the TLC runs that check them on small instances, and
TLAPS proofs of all their safety properties for every instance.  All source
paths below are under `src/`; module paths such as `order/application` are
under `src/backend/internal/modules/`.

Every module is written from the code.  Where a document, a comment or a test
promises something else than the code does, the promise is stated as a property
of its own; four such promises are listed runs, the others are in section 4.

## 1. Inventory

The backend has fifteen modules that reach each other only through Go
interfaces (`contract` packages).  A request is one goroutine that calls into
several modules; several replicas may run.  There are no queues and no shared
memory: **all coordination is done by single SQL statements, short SQL
transactions and Redis commands**, and nearly every use case is *read rows,
decide in memory, write*.  Calls from one module to another are made after the
caller's own write and are mostly best-effort: their error is dropped.  So the
hard behaviours are the same everywhere: what another request does between a
read and a write, what is left when a request dies between two writes, and what
a retry does then.

| component | state | operations | talks to | what makes it correct |
|---|---|---|---|---|
| **order** life cycle | `orders.status`, `order_events` | accept, reject, prepare, ready, cancel, advance, mark paid / payment failed | dispatch, payment, notification after each move | the history is a legal path by listed actors; nothing is recorded twice; finished is final; a customer cancels only in the window |
| **order** placement | `orders`, `order_idempotency_keys` | place | cart, user, merchant, discovery, pricing (reads), cart (clear) | one answer per idempotency key, nobody else's order |
| **cart** | one cart per customer | add, replace, change, clear | catalogue, pricing (reads) | one shop per cart, whatever copy is written back; only what was chosen; a cart goes only by somebody who saw it |
| **payment**, online | `payments`, partial unique index on pending | start checkout, callback, refund | gateway, order | one open attempt; the books follow the gateway; settled once; paid before placed |
| **payment**, cash | `cash_collections`, unique by order | record, reconcile | dispatch (who the rider is) | booked once to the right rider; a batch moves whole |
| **dispatch** | `delivery_jobs`, `delivery_partners` | offer, round, sweep, withdraw; accept, decline, collect, deliver, fail; shift, preference, position | order (advance) | nobody carries what they did not accept; the order follows the job; nothing waits for ever |
| **identity** sessions | Redis: session, current / spent / family tokens, list per account | sign in, refresh, logout, logout all | | one usable token per session; revoked stays revoked; every session can be reached by its owner; a bounded number of devices |
| **identity** codes | Redis: code, failed attempts, rate window | request, verify | user | one sign-in per code; guesses are counted |
| **user** | profile, address book | add, edit, remove, default | geo | at most one default; an area for every address; no addition lost |
| **merchant** | `merchants`, documents, audit | register, edit, papers, submit, decide, hours, holiday, withdraw | geo (search index) | nobody is found whom no admin approved; row, index and trail agree |
| **catalogue** | sections, items, groups of choices, combos | create, edit, delete, bulk edit, menus | merchant (kind of shop) | no dangling reference; a menu shows what is on sale; a prescription item is a pharmacy's |
| **config** | `config_overrides`, `config_changes` | resolve, set, clear, pin, tune | | nearest scope wins within bounds; the log tells what is stored; a pin holds |
| **pricing** | none | quote | config | farther is never cheaper; free delivery starts where it is promised |
| **discovery** | none | search, reach | geo, merchant, config | a search shows what can be ordered |
| **geo** | divisions, areas, index of shops | place, locate, count and list within a radius | | borders leave no gap |
| **review**, support | reviews, tickets | review, open / resolve ticket | payment (refund) | a ticket is resolved once |
| **notification**, **tracking** | inbox, devices / none | notify / stream | | best-effort / read-only |
| platform, shared | `schema_migrations` | migrate | | a migration is applied once and whole |
| **frontend** | local queue, tokens | three Flutter apps | the API | refresh once, replay in order |

`PROJECT.json` lists every one of these with its sources and status, and under
`hazards` what is hard to test in them, each at its line.

## 2. What is modelled

| module | models | depends on |
|---|---|---|
| `OrderTable` | the transition table with its actors (`order/domain/status.go`) | |
| `OrderLifecycle` | the abstract promise: a history grows by one legal move at a time | `OrderTable` |
| `Orders` | every caller of `TransitionUseCase.Execute`, as racing requests | `OrderTable`, refines `OrderLifecycle` |
| `Placement` | `PlaceUseCase.Execute` with idempotency keys | |
| `Carts` | one customer's cart, read in pieces and written back whole by several devices, and the orders made of it | |
| `Payments` | checkout, callbacks, refunds, and the order they move | `OrderTable` |
| `CashLedger` | cash collections and their remittance | |
| `Delivery` | the abstract promise of dispatch: an order's delivery is on the board, carried by somebody who agreed, or over | `OrderTable` |
| `Dispatch` | jobs, offers, sweeps, riders, and the order they move | `OrderTable`, refines `Delivery` |
| `Sessions` | the Redis session store and the use cases over it | |
| `Codes` | the one-time codes of one phone number | |
| `Addresses` | address books, written as lists | |
| `Geo` | polygons, the division and the area of a point | |
| `MerchantTable` | kinds of shop, statuses and their moves, papers | |
| `Merchants` | shops under their owners and the admins, the search index, the audit trail | `MerchantTable`, `Geo` |
| `Discovery` | a customer's search over those shops, and reach | `Merchants` |
| `Options` | groups of choices as the catalogue accepts them and the cart picks from them | |
| `Catalogue` | one shop's menu under edits and readers | `MerchantTable`, `Options` |
| `Registry` | the settings: definitions, bounds, scopes, resolution, tuning | |
| `Tariffs` | tariff, bands and quote made of resolved settings | `Registry` |
| `Settings` | overrides and their log under administrators and the tuner | `Tariffs` |
| `MC*` | the modules composed on small sets, with their symmetries | the modules |
| `*Proofs` | the theorems of section 5 | the modules |

**How a request is modelled.**  Each module has a set of request slots (`Calls`,
`Requests`, `Buyers`, `Hooks`, `Desks`, `Hands`, ...).  A slot is `Idle` or a
record: `pc` says how far the request has come, the other fields are the local
variables it carries from what it read to what it will write.  One action is one
atomic effect of the code: a SQL statement or transaction, a Redis command, a
`MULTI` or a Lua script, together with the in-memory decision that precedes it.
Between two actions of one slot any other slot may run.  Reads whose result is
used later are actions of their own, exactly because the row may change
afterwards.  A request that is refused without writing anything either is not
an action or goes back to `Idle`.  Death of the process, a lost connection and
an error that the caller drops are one action per module (`Die`, `DeskFails`,
`RecordFails`, `Refuse`, `Leave`, ...), enabled at every `pc`.

**Orders.**  `Load` is `Execute` down to `order.Move`: the caller's scope
(`MayTouch`), the window for a customer, the reason for a rejection, the table,
the time stamp.  `AppendTransition` is the transaction that compares the status
and inserts the event; `OrderMoved` is its zero-rows branch.  `Tell` is the three
`tell...` calls.  `MayAsk` lists what each HTTP route or contract method can ask
for.  `Place` is only the insert; the rest of placing is `Placement`.

**Placement.**  `LookUp`/`AnswerAgain` read the key, `ReadCart` the cart, `Create`
writes the order, `Claim`/`ClaimTaken` the key, `Answer` clears the cart and
responds.  The reads in between (address, shop, reach, quote, limits) can only
refuse (`Refuse`).  `CartChanges` is the cart module as placement sees it:
`ReadCart` takes a basket at once and `Answer` may or may not clear it; what
really happens in between is the next module's.

**Carts.**  `ReadRow`, `ReadLines`, `ReadOptions` are the three statements of
`OfUser`, `Save` is the transaction that upserts the row by id and rewrites the
lines, `Delete` the deletion by id.  Each handler is one action from the copy it
read to its save (`AddNewLine` and `AddMore` are the two outcomes of `Cart.Add`);
`Replace` deletes and then reads again to add, `Order` is `PlaceUseCase` between
`Current` and the `Clear` it ends with.  Every operation reads alike, so a request
carries the set of operations it may still turn out to be (`may`).  `opened` and
`chosen` are history: the shop an id was opened for and what a line was added
as.  The order of lines, the delivery point and the prices are left out; the
revalidation that every read ends with can only refuse (`Stop`).

**Payments.**  `Start`..`CreatePayment` is `CheckoutUseCase.Start`; the unique
index is the guard of `CreatePayment`.  `Read`, `Save`, `Lose`, `Tell`,
`TellFails` is `WebhookUseCase.apply` (which the development gateway's
`Simulate` shares).  The gateway is external: `GatewaySays` may say either word
of any attempt, both in any order, and every word may be delivered any number
of times.  `ReadForRefund`..`SaveRefund` is `RefundUseCase.Refund` for the admin
route and for ticket resolution.  `OthersMove` is every move of the order by
somebody else, one row of the table at a time, which is what `Orders` proves
the order module does.

**CashLedger.**  `Deliver`, `Record`, `RecordFails` is the order module's
`tellPayment` with the unique index on the order.  `Begin`, `Update`, `Commit`,
`Rollback` is `Repository.Remit`'s transaction with PostgreSQL's row locks; two
batches that wait for each other end in `Rollback`, as PostgreSQL ends a
deadlock.

**Dispatch.**  A *desk* runs the offer use case: called by an order that moved
(`OrderMoves`), or by a sweep (`SweepLapsed`, `SweepWaiting`).  A *hand* is a
rider's request: `Mine` reads the rider's row, `ReadJob` the job, `SaveJob` is the
compare-and-set on the job's status, `Settle` writes the rider's whole row back,
`Advance` moves the order.  Which rider in reach is picked is a free choice in
`Choose`.  `passed` is `delivery_jobs.passed_by`; `lapsed` says the offer's
`offer_expires_at` is past.  `Delivery` says what all that is for: it knows the
order's status, how far its delivery is, who carries it and who ever accepted
it.  `Stage` and `Carrier` read these off a job's row (an offer is still the
board), and every read, offer, lapse and settling of a rider's load is a stutter.
What `Delivery` leaves open is what the code leaves open: a stale acceptance or
collection may put another rider's name on the job, but only one who accepted it.

**Sessions.**  One account (accounts share no key).  `Rotate`, `RotateOrphan`,
`RotateSpent` are the branches of `rotate.lua`, one atomic step; `CreateSession`
and `Delete` are the two `MULTI` transactions; `SignIn`, `ReadFamily` and
`LogoutAll` are reads that later steps rely on.  `Age`, `Forget`, `ForgetIndex`
are Redis's expiry: a key lives at least as long as its last `EXPIRE` asked and
is gone some time after.  With `Honest` only the token a device keeps is
presented; without it any token ever issued is.

**Codes.**  One phone number.  Requesting is the rate script, the look at the
failed attempts, and the store of the code; verifying is the look at the
attempts, the read of the code, and either one more failure (script) or
`TakeOTP` (`GETDEL`), after which `Sessions` goes on.  Every command is an
action and every key may expire at any time.  The limits are settings resolved
for the place the client names; one value of each is modelled.

**Addresses.**  A change reads the list, works on the copy (the first address
becomes the default, a new default takes the mark from the old one, a deletion
passes it on) and writes the copy back row by row.  The save is one PostgreSQL
transaction: it clears the marks of the book it sees, then writes each row under
the partial unique index, statement by statement; a deletion is a statement
before it.  `table` is kept in the order of creation, which is that of commits.

**Merchants.**  `ReadRow` and `ReadPapers` are the two statements of a load;
`Save` is the transaction that writes both back whole; then `PlaceMerchant`
writes geo's index and `RecordStatusChange` the trail, when the operation calls
them (`Publishes`, `Audits`).  `Register` checks, `Create` inserts under the
unique owner; `RemoveMerchant` and `Delete` are withdrawal.  `admitted` is the
history of approvals and `calm` says that requests came one at a time and none
was cut short.  Opening hours, and a holiday's end by the clock, are not
followed: whether a holiday is past is a free choice of each read.

**Discovery.**  `Ask`, `Count` (once per rung), `ReadIndex`, `ReadShop` per
candidate and `AnswerSearch` are the statements of a search; `Reach` is the
arithmetic an order is placed with.  Radii, steps and distances are integers
and the distance of each pin is given, so the code's floating-point ceiling is
an integer one.  `FanOut` is `searchFanOut`, which cuts *before* the filter by
kind.  `steady` is the set of shops nobody wrote since the search began.
Ranking is left out.

**Geo.**  The point-in-polygon test with its bounding box and its rule for
points on an edge, over integer coordinates, multiplied across where the code
divides.  That test counts a point on the border as inside; the query that
resolves a division is PostGIS's `ST_Contains` (`STContains`), which does not, so
a point on a border shared by two divisions is in neither
(`DivisionContaining`).  `Grid` is the points that two rings with a common border
are tried with: the pure test leaves no gap between them, and `STContains` never
puts a point in both (`BordersMeet`).

**Options, Catalogue.**  `Options` is pure: what `NewVariantGroup` and
`NewAddOnGroup` accept and what `checkGroup` lets a customer pick.  In
`Catalogue` an edit is `Begin` (which shop, which kind), then the loads of an
item are three statements (row, variant groups, add-on groups) and those of a
combo two; `SaveItems`, `SaveCombo` are transactions under the tables' foreign
keys and checks (`RowAllowed`, `LinesAllowed`), and a save of an item or a
combo that was deleted meanwhile inserts it again.  A section's limit is counted
before its insert.  A bulk change makes one change to several items.  A menu is
four reads (`ReadSections`, `ReadItems`, `ReadCombos`, `ReadLines`).  `issued` is
the history of ids, `untouched` what nobody wrote since a menu was begun.

**Registry, Tariffs, Settings.**  `Registry` has the definitions with defaults
and bounds, the chain of scopes of a place, `Resolve` as the fold over rows that
the code is, and the tuner's step.  `Tariffs` makes bands and a quote of what
`Resolve` returns.  The stray rows (`Strays`) are those a migration or a console
may have left: out of bounds, of a key that is gone or of the wrong kind; prices
are looked at for the `Distances` and `Subtotals` given.  `Settings` is the two
tables: a change reads what its scope held (`AskSet`, `AskClear`), then `Save`
or `Delete` writes row and log entry in one transaction; a tuning pass decides
on one reading of everything (`StartTuning`) and then goes key by key:
`CheckPin`, `ReadCurrent`, `Save`. Ratios are whole tenths and distances whole
metres.  `standing` is history: the pins that have stood since each pass began.

## 3. The runs

| run | instance | distinct states | what it shows |
|---|---|---|---|
| `orders` | 1 order, 2 requests, window 1, clock to 1; 2 writers of settings, 2 places, 4 scopes, 3 changes, stray rows | 431 k | ordered times, cancellations in time, the refinement of `OrderLifecycle`; the nearest setting wins, the log tells, pins set earlier stand, prices stay fair |
| `carts` | 2 cart ids, 3 line ids, 2 shops, 2 requests, at most 2 lines of 2; placement: 3 ids, 2 customers, 1 key, 2 requests | 2.1 M | one shop, only what was chosen, only a seen cart goes; one answer per key; no deadlock |
| `placement_retry` | 2 ids, 1 customer | refuted | one key may place two orders |
| `payments` | 1 order, 2 attempts, 2 checkouts, 2 callbacks, 1 refund; cash: 3 orders, 2 riders, 2 batches | 456 k | one open attempt, paid before placed, books, settlement, whole batches; with fairness: every word is recorded |
| `payments_stuck` | 1 attempt, 1 callback | refuted | a captured payment's order may wait for ever |
| `dispatch` | 1 order, 2 riders, 2 rider requests, 1 desk, 1 failure | 4.4 M | consent, order after job, the refinement of `Delivery` |
| `dispatch_live` | 1 order, 2 riders, 1 rider request, 2 desks | 256 k | lapsed offers end, waiting jobs are offered |
| `dispatch_stale` | as `dispatch`, no failures | refuted | a stale acceptance moves another rider's job |
| `accounts` | 3 sessions, 4 tokens, 2 requests, limit 1; 2 codes, 3 calls, limits 2; 2 users, 2 devices, 3 ids, cap 2 | 604 k | one token per session, no hidden session, device limit, revoked stays revoked; one sign-in per code, guesses counted; sound books, no address lost |
| `addresses_default` | the address part of `accounts` | refuted | a book may be left without a default |
| `discovery` | 2 shops, 2 owners, 2 requests, 2 calls, 1 search, 3 pins of which one on the border, fan-out 1 | 1.8 M | nobody is found unapproved, index and trail agree, a search shows what can be ordered, borders meet (every quadrilateral of a 3 by 3 grid) |
| `catalogue` | 3 sections, 2 items, 1 combo, 1 group of each kind, 2 edits, 1 menu, 3 edits in all, limit 1, groups of up to 3 options | 527 k | whole menus, prescriptions, the limit on sections, menus show what stood, groups can be chosen from |

**Parts that share nothing.**  Four MC modules put two or three modules side by
side (`part`, `side`, `ledger`): their tables are disjoint and none reads the
other's, so every interleaving of both is equivalent to one of each, and a
behaviour exercises one, picked at the start, while the others rest.  `Parts`,
`Sides` and `Ledgers` say which are checked.  `Discovery` is different: it is
composed with `Merchants` and runs interleaved with it.

**Why these bounds are enough to be interesting.**  All properties are about one
order, attempt, batch, session, shop or row at a time, or about a pair of
requests that disagree about it; every guard compares a row with one request's
copy of it.  Two requests are what a stale copy needs, three rows or tokens what
an A-B-A needs, two riders what mistaken identity needs.  In `accounts` four
tokens allow two rotations of one session with another alive; three calls are a
request and two guesses, or three guesses past a limit of two; in `dispatch` one
failure (`MaxFaults`) at any step leaves every kind of half-done request behind;
in `catalogue` three sections let two creations race past a limit of one, and
three edits are a creation, a deletion and an old copy written over both; in
`discovery` the base radius and the one wider rung each end exactly at a pin.
Bounds that the code does not have are guards of exactly one action each:
`MaxTime` (clock), `MaxOrders` (orders of one customer), `MaxRefunds` (gateway
refunds per attempt), `MaxCarrying` (the load counter), `MaxFaults`, `MaxCalls`
(requests started), `MaxChanges` (changes of settings), and the finite id sets;
`MaxOptions` bounds the options of a group looked at.  The proofs of section 5
hold for any value of them.

`CHECK_DEADLOCK FALSE` is set where the instance really runs out: an order that
is over, attempts, tokens, ids or calls that are used up.  `Carts` and
`Placement` do not stop, so there deadlock is checked.

**Symmetry** is used in the safety runs only, over sets whose members the
specification never tells apart.  Where parts rest, they use the same values as
the part that moves, so that one group serves all.

**Fairness.**  `Spec` has none.  `Payments!FairSpec`: the gateway delivers each
word again and again (`webhook.go` documents at-least-once delivery), and not
every process dies before its write.  `Dispatch!FairSpec`: the sweep
(`deploy/sweep.sh`, an endless loop) reaches every job it lists, clocks run, and
a request that was started goes on; nobody has to accept, come on shift, or
move an order.  `CashLedger!LedgerFairSpec`: a request goes on or fails.  The
sweep's limit of 50 jobs per pass is not part of the model: with more than 50
jobs that nobody can take, the fairness assumed here is more than the code
gives.

**Mutants.**  Next to a definition stands its mutated form, named for the bug it
plants (`AppendUnconditionally`, `SaveLapseOverAnything`,
`RotateWithoutConsuming`, `PlaceForAll`, `LevelForRoundedDown`, ...).
`PROJECT.json` pairs each property of each passing run with one: with the mutant
in place of the definition, TLC refutes the property.

## 4. Promises the code does not keep

Four are listed runs with a finding in `PROJECT.json`:

| property | promise | what happens |
|---|---|---|
| `OneOrderPerKey` | `docs/technical/order.md:93`, `place.go:89` | the key is claimed after and apart from the order: two racing requests, or a death and a retry, leave two orders |
| `CapturedOrdersMoveOn` | `docs/technical/payment.md:170` | the retry the gateway is told to make is answered as a replay before the order is told |
| `OnlyTheHolderMoves` | `dispatch/domain/job.go:286` | `SaveJob` compares the status, not the rider: offered, lapsed, offered on looks unchanged |
| `BooksHaveADefault` | `docs/technical/user.md` | a deletion commits before the mark is passed on: cut short there, or with an address added meanwhile, the book has no default |

The others are stated in their modules with the promise in their comment.  Each
is refuted by TLC when it is added to the module's `.cfg` as an `INVARIANT` or
`PROPERTY`, with the bounds given:

| property | module | how to see it | promise | what happens |
|---|---|---|---|---|
| `WindowRunsFromPlaced` | `Orders` | as `orders` | `status.go:24`: the window runs from placed | it runs from creation, so waiting for payment uses it up |
| `ChoicesReachTheOrder` | `Carts` | as `carts` | `cart/application/resolve.go:93`: no item without its required size; `ports.go:13`: nobody sees a cart that was never true | a line removed between the second and the third query is read without its choices, priced without them, and ordered |
| `ClearedWasOrdered` | `Carts` | as `carts` | `cart/application/service.go:36`: cleared once its contents have become an order | a line added between `Current` and `Clear` goes unordered |
| `RefundedOnce` | `Payments` | `MaxRefunds` 2, two refunders | `refund.go:34`: a refunded payment is not refunded again | a death between the gateway and the save, or two racers, ask twice |
| `StartedOnlyWhileWaiting` | `Payments` | one attempt, one checkout | `payment.md`: only for an order waiting for payment | the order may be cancelled between the check and the insert |
| `DeliveredCashIsBooked` | `CashLedger` | `LedgerFairSpec` | `collection.go:32`: a retry closes the gap | nothing retries |
| `WithinTheLimit` | `Dispatch` | 2 orders, 1 rider, 1 hand, no failures | `feed.md`: accepting beyond the limit is refused | accepting does not look at the load |
| `CarryingCountsJobs` | `Dispatch` | 2 orders, 1 rider, 1 hand, no failures | `partner.go:119`: carrying is the number of live jobs | withdrawing an offer frees a job the rider never took; rows overwrite each other |
| `ReadyOrdersGetAJob` | `Dispatch` | `FairSpec`, 1 rider, 1 hand | `transitions.go:144`: recoverable by a sweep | the sweep looks at jobs only |
| `CancelledOrdersLeaveTheBoard` | `Dispatch` | `FairSpec`, 1 rider, 2 desks, no failures | `dispatch.md`: a cancellation withdraws the job | the withdrawal may come before the job, or lose its compare-and-set |
| `DeliveredJobsDeliverTheOrder` | `Dispatch` | `FairSpec`, 1 rider, no failures | `partner.go:295`: the order's status is not best-effort | its error is dropped |
| `NoFalseAlarm` | `Sessions` | `Parts = {"sessions"}`, `Honest` TRUE | `docs/build/phases/P04.md:117` | the loser of two refreshes of one device finds its token spent and the session is revoked |
| `OneSessionPerSubmittedCode` | `Codes` | as `accounts` | `docs/technical/identity.md`: consumed atomically on success | what is taken may be a newer code than the one compared |
| `LockedOutLeavesNoCode` | `Codes` | as `accounts` | `identity.md`: a lockout drops the code | a request that looked at the attempts earlier stores one afterwards; a failed deletion is only logged |
| `BooksAreCapped` | `Addresses` | as `accounts` | `user.md:123` | two additions count the same list |
| `FailedDecisionsCanBeRepeated` | `Merchants` | as `discovery` | `moderation.go:92-96`, `merchant.md:144-147` | a suspension that failed after its first write cannot be made again, and the shop stays in the index |
| `ReviewedDetailsStand` | `Merchants` | as `discovery` | `registration.go:95-98` | an older copy changes the details of a shop under review |
| `ListedShopsHaveTheirPapers` | `Merchants` | as `discovery` | `document.go:63-68`, `merchant.md:82-84` | an approved shop changes its kind and stays approved |
| `OfferedItemsCanBeChosen` | `Options` | as `catalogue` | `service.go`, `ToContractItem` | a required group whose options ran out leaves an item offered that cannot be added |
| `CombosKeepTwoItems` | `Catalogue` | as `catalogue` | `combo.go:18` | a switch flipped during the deletion stores the combo again without lines |
| `ItemsObeyTheirKind` | `Catalogue` | as `catalogue` | `items.go:156-158` | the row keeps the kind it was created with beside attributes of the shop's new one |
| `DeletedStaysDeleted` | `Catalogue` | as `catalogue` | | the save of an older copy inserts a deleted item again |
| `PinsStand` | `Settings` | as `orders` | `config.md`: never a pinned variable | a pin set after the tuner looked is overwritten |
| `OldValuesAreTrue` | `Settings` | as `orders` | `config.md`: every write records the old value | the old value is read before the transaction |

Seen while reading and not stated as properties: a suspension can be undone by
an owner's save of an older row (`operations.go:58`); a withdrawal that races a
decision leaves an active point without a shop in the index; a change's
`changed_at` is stamped before its commit, so the log may be out of order by
that column; a stale save of an item loses groups or stock set meanwhile.

## 5. The proofs

All theorems are about `Spec` (or `PlacementSpec`, `LedgerSpec`, `CodesSpec`,
`DSpec`, `SettingsSpec`, `AddressesSpec`) with the constants left open: any number
of orders, riders, sessions, shops, rows and requests, any window, radius or
limit.  The
assumptions are the named `ASSUME`s of each module: bounds are naturals, `None`
is not a member of the sets it stands apart from, the sets that are counted
(`Sessions`, `Requests`, `Calls`, `Categories`) and the stray rows are finite,
distances and subtotals are naturals, and the corners of rings are points with
integer coordinates.  `RegistryAssumption`
and `TunableAssumption` have no parameter: they say of the written-out registry
that every default is within its bounds and the like, and TLC evaluates them on
the very table of the code.

Each proof has the same shape.  `IInv` is the type invariant, the safety
properties, and **what each request in flight may still rely on**
(`DecisionsHold`, `RequestsHold`, `HooksHold`, `LocksHold`, `HandsHold`,
`TokensLeadSomewhere`, `MenusHold`, ...).  The last part is why a strengthening is
needed: the property speaks of the tables, but whether a write keeps it depends
on what the writer read earlier.  TLC checked `IInv` first; then
`Init => IInv`, one lemma per action, `IInv /\ [Next]_vars => IInv'`, and
`Spec => []IInv` by PTL.  A proof module holds the theorems of neighbours:

* `OrdersProofs`.  The key fact is `RanksRise`: every legal move goes up in rank, so a
  status never returns, so `AppendTransition`'s comparison of the *status* is in
  effect a comparison of the whole history.  From it follow legality, ordered
  times, single announcements, finality, and the step simulation of
  `OrderLifecycle`.  (`Dispatch` shows what happens without such a rank: job
  statuses do return, and the same comparison is not enough there.)
* `CartsProofs`, carts.  Nothing compares a copy with the table before it is written, so the
  invariant has to hold of *every* copy: `Sound` says of a cart, wherever it is,
  that its id stands for its shop and its lines for what was chosen, which no
  later step takes away because ids are used once.  Options read late are those
  of a line with that id, or none: hence "no choice they did not make", and not
  "all they made" (section 4).
* `CartsProofs`, placement.  A claim is made once, of one's own order; an answer is a claim.
* `PaymentsProofs`, payments.  A callback past its save has its outcome in the
  table, so `Tell` moves the order only on a captured payment; a refund past its
  read has a captured or refunded one.
* `PaymentsProofs`, cash.  Rows locked by an open transaction are held, its
  partner's, and no other transaction's; so a commit that locked its whole batch
  moves it whole.
* `DispatchProofs`.  A rider's request that will write anything but waiting
  writes its own rider; one that read the job as assigned or collected is by a
  rider who accepted it; collected goods stay put until the job is over
  (`Carried`).  The step simulation of `Delivery` needs two more facts of the same
  kind: the row a withdrawal is about to write names, if the job was taken,
  somebody who had accepted it (`DeskHolds`), and a rider who reports the order
  failed has the job failed behind them (`Reached`).  One lemma says that a job's
  row written is one delivery moved or none (`WriteMoves`), and then there is one
  lemma per writer.  `JobsOnlyFinish`, of whole rows, is proved besides.
* `SessionsProofs`, sessions.  Tokens that lead to a session were issued and lead
  to one that was minted, so a new token or session is really new.  `DeviceLimit`
  needs a count that no single request sees: for every set A of sign-ins under
  way, the live sessions that none of A is about to evict, and A itself, are
  together no more than the limit and one less than the request slots
  (`RoomLeft`).  Every step keeps it for every A at once.
* `SessionsProofs`, codes.  Guesses counted and guesses still to come are bounded
  together; a code is in the store, in one call's hand, or used up.
* `MerchantsProofs`, shops.  Every copy of an approved row, in a request or in
  the index, is of a shop that was approved.  While `calm`, at most one request is at
  work and what index and trail still lack is what it has yet to write.
* `SessionsProofs`, address books.  A book is part of a list, so what a recursive
  filter keeps must be known for lists of any length.  The prover cannot use an
  induction theorem that takes a predicate; the least number of a set that is not
  empty, stated as a set, does the same work (`Least`, `AmongPicks`: what is kept
  is at rising places of the list).  Then: every copy in a request is sound and
  was typed by its user, and the rows a save writes are those of the table,
  changed, with the new ones after them (`WrittenRows`), so none goes.
* `MerchantsProofs`, search.  Of the shops nobody touched, those near are the
  ones still to be read or shown (`Collected`); the first rung whose radius
  covers a distance is the ceiling the arithmetic computes (`FirstRung`).
* `MerchantsProofs`, borders.  Seen from the point asked about, the cross products
  of a triangle's edges are its weights: they balance the corners around the
  point and add up to the triangle's own area (`CornerTerms`).  Weights of one
  sign are being inside (`Inside`), and the source's test of a clockwise triangle
  is exactly that (`TriangleContains`): one edge crossed alone gives every weight
  the triangle's sign (`OneCrossing`), and from inside just one edge comes down
  past the point (`InsideMeets`).  The diagonal is crossed in both halves or in
  none, so the counts of the halves differ as the quadrilateral's parity says; a
  point on the diagonal itself is the case apart (`DiagonalIsOdd`).
* `CatalogueProofs`.  Foreign keys keep references whole at each write, whatever
  copy is written; a menu's reads each fix what is known of untouched entries
  (`SectionsSeen`, `ItemsSeen`, `CombosSeen`).  The sections stored or held as
  copies, and the creations that found room, are no more than the limit and one
  less than the request slots (`RoomLeft`).
* `SettingsProofs`.  Row and log entry are written together, so the newest entry
  about a key and scope is its row; a pass that is about to write has looked
  after the pins it must respect were set.
* `SettingsProofs`, what settings resolve to.  `Resolve` folds over the rows in no
  order.  The fold over a set is unfolded to one over some enumeration of it
  (`ResolveUnfolds`), and the first turn that spoils "the best of the rows so far"
  is looked for and not found (`ResolvesToTheNearest`); with the bounds each write
  is held to (`RowsAreBounded`) the nearest setting wins.  A tariff made of
  settings in bounds has fees that grow (`FeesGrow`) and is fair
  (`TariffsAreFair`) at every distance and subtotal.

`PROJECT.json` lists the theorems.  Proved but not part of a run's list, because
TLC has shown them before and the theorem says more: the type invariants,
`HistoryIsLegal`, `AnnouncedOnce`, `FinishedStaysFinished`, `ClaimsAreTheKeysOwn`,
`AnswersAreTheCustomersOwn`, `KeysAreKept`, `WithinLimits`,
`RidersOweWhatTheyDelivered`, `CashMovesOnce`, `OneShopEach`.

Only model-checked: liveness under fairness (`EveryWordIsRecorded`,
`LapsedOffersEnd`, `WaitingJobsAreOffered`), which is beyond the prover.  Every
other property of a passing run is a theorem.  Proofs about recursive functions
and folds (`Among`, `Resolve`) go through the least counterexample, as above,
because the library's induction theorems take a predicate as a parameter, which
none of the provers can instantiate; `SelectSeq` is opaque to them, so the model
filters with `Among`, and with `Named` in a place's chain of scopes.

## 6. Not modelled

* **Reviews and support tickets.**  A review is one insert under a unique key and
  a ticket's row is moved on by staff; what matters of them is the refund a
  resolution asks for, which is one of `Payments`' refunders.
* **Notification, tracking.**  Best-effort messages and read-only streams that no
  other module's state depends on.
* **Shared kernel and platform.**  Values without state and start-up code.  The
  migration runner is a command of its own that is run before the API starts: it
  marks a version dirty, runs its file and clears the mark, and refuses to go on
  from a dirty one.  No request interleaves with it.
* **Frontend, contracts, deployment.**  The apps are seen as what they send:
  any request, in any order, repeated.
* **Within modelled parts.**  Amounts, signatures, names, texts and languages;
  the user's profile; the checks of placement that only read; opening hours;
  ranking of results and riders' scores; sums over ledgers; the list of at most
  500 menu items; areas found by distance and the seeding of boundaries.
* Databases that lose committed writes, clocks that run backwards, and Redis
  losing keys early: the code relies on all three.
* Isolation anomalies other than those of single statements: the transactions
  modelled as one step (`Create`, `AppendTransition`, `Save`) change rows found
  by primary key under the row's lock, or inserted under a constraint; the one
  that reads a set first (`Addresses`) is two steps.

## 7. Plan

The order in which the modules were written was: orders and placement; payments
and cash; dispatch; sessions; carts; codes and addresses; merchants, geo and
discovery; options and catalogue; registry, tariffs and settings; the proofs
after each.  What could still be added, most useful first:

1. A joint run of `Orders` and `Dispatch` over one order, in place of
   `OrderMoves` and `OthersMove`, and the sweep's limit as a constant.
2. The riders' scores, the feed and the acceptance rate of dispatch, and opening
   hours, as operators checked against reference definitions.
3. The write queue and the token refresher of the frontend against `Sessions`.
