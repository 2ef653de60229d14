# A verification project for the point of sale

TLA+ models of this repository where several actors, machines or moments touch the same
money, stock, books or rights: the sales API and its transactions, the stock ledger, the
catalogue and the arithmetic of bills, the registers, the fallback counter that keeps
selling offline, the desktop app's backups and its move online, the hosted server's
billing, sign-in, deletion and database clients, the GST returns, who may call what, and
the web app's till and pages. TLC checks the models on small instances; TLAPS proves, for
every value of their constants, what matters most about the bills and the stock, each with
the transactions behind it, about the registers, the catalogue and the till, the desktop app,
the hosted server, the GST returns, who may call what and the pages. `PROJECT.json` lists the runs, the theorems, the source lines each definition stands for, the disagreements found
between code and documentation, and the hazards the properties are for.

To check a module: `tlc -config SaleBill.cfg MCSaleBill.tla`. To check the
proofs: `tlapm SaleProofs.tla` (a few minutes; `StockGoodsProofs` takes ten).

## 1. The system

| Component | State | Operations | How it meets the others |
|---|---|---|---|
| Sale bills (`sales/`) | `SaleInvoice` with its lines, payments and receipts | checkout, make a draft or credit bill, settle, cancel | locks the bill; debits wallets; numbers receipts; checks credit; moves stock; needs an open register |
| Returns (`returns/`) | return documents, what is left of each line | `createReturn` | locks the bill, takes its worth off what is due, refunds cash or to a wallet |
| Customers, wallets, credit (`customers/`) | `WalletAccount`, `Customer.creditLimit` | top up, adjust, credit check | wallets are debited conditionally by settlements; the limit is checked after the insert |
| Registers and counters (`registers/`, `counters/`, `common/`) | `RegisterSession`, `Counter` | open, close, turn a counter on or off, cash in and out, expenses | every cash row shares the register's row; closing takes it alone |
| Stock, batches, transfers, purchases (`stock/`, `transfers/`, `purchases/`) | ledger rows, batch stock, documents | count, buy, send back, sell, return, transfer, receive, call back | per-item advisory locks inside every sale; purchases lock Item rows first |
| Catalogue (`items/`) | items, barcodes, sale units, branch prices, products in sizes | create, change, import, price, sell | what a scan finds; what a sale may ask |
| Pricing and GST (`contracts/pricing.ts`, `gst.ts`) | none | discounts, tax, return worths, round-off | pure, used by bills and returns on both sides |
| GST returns and reports (`gst/`, `reports/`) | none of their own | read the rows of a period | filed figures against later bills, returns and settings |
| Fallback counter (`apps/desktop`, `api/fallback/`) | saved settings, a local PostgreSQL copy; the online books | refresh, keep selling, send; snapshot, sync | other tills change the same bills meanwhile |
| Moving online (`move-online.ts`, `migration/`, `tenancy/import`) | the local instance's status, the import id, the hosted business | pause, export, upload, import, archive, cancel | an upload whose answer may be lost |
| Backup (`backups.ts`, `api/backup/`) | two databases' names, two upload folders, two backup folders | back up, prune, restore | stops and starts the API |
| Hosting: billing, reminders, deletion, sessions, database clients (`billing/`, `accounts/`, `auth/`, `tenancy/`) | control rows, tokens, kept clients | gateway events, hourly rounds, sign-in, acquire | several API processes; an external gateway |
| Who may call what (controllers, guards, `access.service.ts`) | users, permissions, access rows, tokens | guards, checks, changes by admins | every call |
| Web app: till (`PosPage`, `useCheckout`, `draftStore`, `pendingSettlement`) | drafts and saved payment ids in localStorage, a key in memory | park, resume, validate, pay a bill | several tabs, reloads, lost answers, the till switching servers |
| Web app: pages (`router.tsx`, `screens/`, React Query) | the query cache | read, change, refresh | the API's routes and guards |
| Exports, audit, printing, desktop shell, deployment | records and output | reads, formatting | not modelled, section 6 |

What is hard about it, part by part, is the list of hazards in `PROJECT.json`;
each names the line where it bites. In short: PostgreSQL at READ COMMITTED with explicit
row and advisory locks (a value read before a lock is stale, and lock orders can form a
cycle); requests sent again by tills, counters and uploads that heard nothing; two sets of
books; handlers with awaits in a desktop app that may be killed at any of them; several
API processes with the same hourly rounds; a pool at its limit; tokens and cached answers
older than the rows; and rounding.

## 2. The modules

```
BillRules          what one bill allows and becomes (pure operators)
  SaleBill         bills, wallets, drawer: each operation one step
    SaleRequests   the transactions behind those operations; implements SaleBill
StockBook          the stock ledger, each operation one step
  Stock            the transactions and locks behind them; implements StockBook
Catalog  Pricing   items, codes and prices; what bills and returns come to
Till  Settling     the till's checkout; paying saved bills
Registers          counters, registers and their drawers
Fallback  MoveOnline  Backups       the desktop app
Billing  Deletion  Sessions  TenantClients   the hosted server
GstReturns         returns and reports of a period
Api                every route, its guards and checks
  Access           the guards' reads against changes of what they read
  WebPages         every page: its queries, changes and links
    Screens        a person at a page, and the query cache
Sums               the sum of a function over a finite set
MC...              the small instances TLC checks

SumsProofs         lemmas about Sums, for the modules of proofs below it
  SaleProofs       SaleBill and SaleRequests
  StockGoodsProofs StockBook's sums and shortages, on top of
    StockProofs    Stock's transactions and their refinement
  OfficeProofs     Api, Access, GstReturns, WebPages, Screens
ShopProofs         Catalog, Till, Settling, Registers
DesktopProofs      Fallback, MoveOnline, Backups
HostingProofs      Billing, Deletion, Sessions, TenantClients
```

`MCShop`, `MCDesktop`, `MCHosting`, `MCServer` and `MCOffice` put parts that share no state in one run:
a variable `part`, fixed in the first state, says which one a behaviour is of, and the
others rest. The states are the sum of the parts', not the product.

### BillRules, SaleBill, SaleRequests

A bill is a record: who it is for, what was sold, what has come back, its total
(`grand`), and the three amounts the code keeps (`paid`, credited by returns,
refunded). `BillRules` states what `settleSaleInTx`, `createReturn` and
`cancelSale` refuse and write, as operators on a bill; `SaleBill` makes each
operation a step that also moves the customer's wallet and the drawer. Money is whole
units; the worth of a return is any amount the formulas of `pricing.ts` allow (nonzero
unless the goods were free, never above what is left, all of it with the last goods), so
what is shown holds for whichever of them the rounding picks. `FreeGoods` says whether a
return may be worth nothing; `Offline` is the fallback counter's copy, where wallets are
not touched.

`SaleRequests` has the same operations as transactions of several statements: the advisory
lock of a key, the bill's row lock, the read and the checks, the wallet debit, the receipt
number (which locks the Branch row), the change to a wallet, the credit check under the
customer's lock, the commit. A request may be aborted anywhere; one in a lock cycle may be
the database's victim. It extends SaleBill over the committed rows, so that its promise,
`AsIfAlone`, is SaleBill's `Spec`.

### StockBook and Stock

A line's goods are a function from the item's batches (and `NoBatch`) to quantities.
`StockBook` has each operation as one step on the ledger, the on-hand figures, the batches
and the documents. `Stock` is the transactions: `Program` says what each kind of request
locks and when it reads, in the code's order; requests are retried (a checkout under its
key), deadlock, fail and roll back. `Book == INSTANCE StockBook` over the committed rows,
and `AsIfAlone` is `Book!Spec`. A return sets a bill's status only when its worth is taken
off what is due (returns.service.ts:214), so that one worth nothing (`free`) leaves a DRAFT
bill cancellable: it is `"draftReturned"`, and `"cancelledReturned"` once cancelled.

### Catalog, Pricing, Till, Settling

`Catalog`: a request looks at the catalogue and checks (`Check`), then writes (`Write`);
only changes of one item's row or one product's row wait for each other. `raced` notes
that two requests overlapped where nothing stops them, so that the properties say what
holds beside it. `Pricing` is exact integer arithmetic in paise, function by function of
`pricing.ts`; goods come back in any number of returns. `Till` has the tabs, their drafts
(`MAX_DRAFTS` kept), the key of `useCheckout` in the page's memory (gone when it
is reloaded or left) and the requests on the wire; `keyLost` names the carts whose key the
code gives up. `Settling` has the payment id
in localStorage, several windows, and the switch to the fallback counter and back.

### Registers

Opening a register and turning a counter on or off lock the branch; a cash row
shares the register's row; closing locks it alone and adds up the rows.
`updateCounter` reads before it locks, and `stale` latches when that read is what let
it through. `unheld` names the drawers that gave out past what was looked at: by
overlapping cash-outs, which share the lock, and by refunds and supplier
payments, which do not look.

### Fallback, MoveOnline, Backups

`Fallback`: one action per stretch between two awaits of the desktop app's handlers, the
page's one request in flight, the server's sync transaction (refused as a whole by
`Clashes`, else `Added`), the other tills, and a `Crash` anywhere. Saved settings are
written whole from a value read earlier, as the code does. `Races` names the overlaps a
run lets happen, so that a run about one hazard is not ended by another:

| kind | overlap |
|---|---|
| `sale` | an online sale is answered while a refresh replaces the copy |
| `answer` | an online sale is made and its answer never arrives |
| `start` | keep selling is under way during a refresh |
| `switch` | keep selling is under way while an online request is in flight |
| `finish` | send is clicked while a request is at the copy |
| `resend` | a bill the server took from a sync whose answer was lost changes on the copy before the sync is sent again |

`behind` latches that selling went on offline from a number the server had passed.

`MoveOnline`: the local instance's status, the app's config, the import id it keeps, each
upload with how far the server is with it, and the hosted business of each import id.
`excuses` notes the ways the two copies come apart by design or by accident (an upload
cancelled while running, a refusal that came from the proxy or of an attempt still
running, an OK whose body could not be read, a change that had passed the guard before the
pause).
`Backups`: databases and folders are the sets of changes they hold; every rename and write
is a step the app may stop after, and any may fail (but for the rename that undoes a failed
one, local-backup.ts:455). `mishaps` notes the two windows
between two renames.

### Billing, Deletion, Sessions, TenantClients

`Billing`: checkouts, gateway events in any order and any number of times, plan changes with what is carried over, invoice
numbers, and each process's round of reminders. `Deletion`: codes, the grace period,
keeping, and each process's erasing round, which may stop after any step. `Sessions`: one
user's sign-ins and password changes as requests that read, hash, and write or sign, with
the guard's comparison of times. `TenantClients`: the kept clients in least-recent order,
use counts, waiters; a step is what runs between two awaits of one event loop; `Aborts`
says whether a caller may hang up before its answer.

### GstReturns

The rows of one GSTIN's bills and the figures worked out anew from them whenever asked:
GSTR-1's sections and HSN summary, GSTR-3B, the composition return and the sales report.
Time is parts of a day, so that a change of time zone moves a bill between days.
Bills made offline arrive later, dated when they were made, and with them or after them
their payments and the goods taken back there, dated when that was (fallback.service.ts:
358-365). A sync's documents come one after another here.

### Api, Access, WebPages, Screens

`Api` lists the calls the contract lets a client make and the routes the controllers
serve, each with its guards and the checks of its handler and service. `Access` takes one
session's request check by check, each a read of its own, while others change users,
rights, access and registers. `WebPages` lists, for each page, the queries it keeps, the
changes it offers and the keys each refreshes, as they depend on who is signed in;
`Screens` is a person at one of those pages and one watched query of React Query's cache.
`/owner-password` and `/owner` open for anybody, as the router has it; `Useless` names who
gains nothing by the first.

## 3. The runs

| run | asks | shows |
|---|---|---|
| `bills` | do operations in any order keep bills, wallets and drawer right? | a bill's amounts and status agree (`MoneyAgrees`), a full return squares it, goods come back once, every rupee is on a bill or in a wallet, the limit is passed only by an admin, settled stays settled |
| `cancel_after_free_return` | can goods come back twice? | yes: goods returned at no worth leave the amounts at zero, and the cancel takes the whole bill's stock back again |
| `requests` | do overlapping, aborted and repeated requests act one at a time? | the refinement of `SaleBill`; a key pays once |
| `requests_answered` | is every request answered? | lock cycles exist and end through the database's victim |
| `stock` | do overlapping stock requests act one at a time; is stock short, lost or doubled; who deadlocks? | the refinement of `StockBook`; short only where allowed or sent back past; every unit accounted for, those counted twice that a cancel puts back again after a return at no worth; a cycle of two needs a purchase in it |
| `registers` | registers, counts, drawers under two requests at once | hold, but for the two gaps the latches name |
| `shop` | one item per scan, prices within the MRP, amounts that add up, carts billed once, payments recorded once | hold, but for overlapping managers, codes that differ in case, carts whose key was given up, and payments refused while another attempt was on its way |
| `checkout_reload` | is a retried checkout billed once? | no: a reload forgets the key and keeps the draft |
| `desktop` | is offline work kept and agreed, numbers used once, a business moved once and whole, a restore undoable? | yes, but for the gaps `behind`, `excuses` and `mishaps` name |
| `hosting` | payments counted once, reminders sent once, the grace period kept, sessions ended | yes, but for a success after a failure, a reminder a payment overtook, and a sign-in under way |
| `server` | the limit of clients, no client dropped in use, use counts, wake-ups; do a request's checks hold against changes, and does a way lead out of every lock? | yes, while callers wait for their answer |
| `office` | do the returns' tables agree and filed figures stand; is every page served and does it show its own changes? | yes, but for what arrives late from offline and zone changes, and the named pairs and races of the cache |

### Bounds, and why they are enough

- `bills`: two bills of a walk-in and a registered customer, one line of up to
  two pieces, totals to 2, payments of up to 2 in money and 2 from the wallet, so a
  bill can be overpaid, and two business days. Each rule is about one bill, one customer
  or their sum; two bills make wallet and credit limit shared.
- `requests`: two requests at a time, repeated without end, over two bills, one
  customer and one key. A race over a row is between two requests; a wait that
  goes round three is neither in the instance nor in `DeadlockVictim`.
- `stock`: two requests at a time, four operations in all, two branches, an item in two
  batches and one without, one sale, purchase and transfer, two days, one switch to
  batches. Four operations reach count, buy or sell, undo, and one more against it.
- `registers`: two counters, users and register ids and two requests; each race
  is between two requests, and the second id lets a counter open again.
- `shop`: a product in two sizes and another item, a code spelled in two ways, prices of 1
  and 2 against an MRP of 2, four requests by two managers and tills; bills of up to two
  lines chosen so that discounts, inclusive tax and shares leave remainders; two tabs, two
  carts, two keys tried twice, two requests on the wire at once (`MaxWire`); two windows, two payments, three ids, four requests.
- `desktop`: two bills, so that one number can be used twice, one page, one refresh, as
  many crashes and retries as wanted; two import ids, two uploads, one change carried
  out here; two changes, three backups, three days of which backups are kept one.
- `hosting`: two checkouts of different plans and periods, three events, two processes,
  four days; two owners, two erasers, five days for a grace period of two; two calls at
  once and seven things that happen.
- `server`: three businesses for two clients, so a business can be without;
  three requests and a job. A waiter that is woken for a place and finds its own
  client instead needs five requests; that wasted wake is in the model and not in
  the instance. An admin and a cashier at two branches, two changes by others and calls
  with every kind of check.
- `office`: two bills, one of them offline at most, of lines of every supply kind at the
  threshold and above it, two things that happen to them (a payment, a return or a cancel, also one that arrives late), two
  periods, two zones; and seven kinds of people, and a cashier
  with each single permission, at every page, two changes on it.
- Bounds in guards are the constants whose comments say "bound", and `MaxGrand`, `MaxPay`,
  `MaxTopup`, `MaxAdjust`, `MaxDay` (SaleBill), `MaxWaiting` (TenantClients), `MaxCash`
  (Registers). A step past a bound is simply not taken.

Symmetry is used for ids only, in runs of invariants and of properties whose
steps are checked one by one; the liveness run has none. In `shop` requests, tabs and
windows are one set of names, as are carts and payments' details: only one part moves.

`CHECK_DEADLOCK FALSE` stands in the runs that stop when every id, day or other bound is
used up.

### Fairness

Only `requests_answered` uses any. Strong fairness of `Proceed`: a backend goes on
with its transaction, and PostgreSQL queues the waiters of a lock, so one that
keeps coming free is granted in turn. Weak fairness of `DeadlockVictim`: the
database looks for cycles after `deadlock_timeout` and always ends one of two. No
fairness is assumed of tills, top-ups or aborts.

## 4. The proofs

Every theorem is of a module's specification (or of the `Init` and `Next` of a part) for
every value of its constants: any number of bills, customers, requests, processes, days
and changes, under the assumptions named in the module that declares the constants. Each
rests on an inductive invariant, since what a property says of the rows is seldom enough
for a step to keep it: what a request read some steps ago, or what it is about to write,
has to be tied to the rows as they are. What is proved
of a run's properties TLC shows on its instance as well; the invariants of the stock were
checked there too before they were proved.

### Bills and their transactions (`SaleProofs`)

The invariants of a bill are not inductive one by one: that a refund is within
what was paid rests on the bill being covered first, that on the status agreeing
with the amounts, and a cancel on what a return can have left at zero. The
inductive invariant is `IInv`, the types and `Sound`: of every bill made,

- `BillBalanced`: the amounts stay within the total, and nothing is refunded
  before the bill is covered;
- `StatusOf`: the status says what the amounts say;
- `ReturnsOf`: returns never took back more than the total, all of it once all
  the goods are back, and something once some are (unless `FreeGoods`);
- `GoodsOf`: goods returned were sold; what came back is what was returned, or
  the whole sale once the bill is cancelled.

From it: `MoneyAgrees`, `FullReturnSquares`, `SettledStaysSettled`, and
`GoodsBackAtMostOnce` assuming `~FreeGoods` (`cancel_after_free_return` shows why).
`OfflineLeavesWallets` is proved only: no run is kept for `Offline = TRUE`.
`MoneyAccountedFor` (from `MoneyInv`) and `OverLimitOnlyByAdmin` (from `LimitInv`) are
about sums over all bills: `SumsProofs` has what a sum does when one term changes, proved
without induction over sets from a smallest counterexample.

For `SaleRequests` the invariant (`ReqInv`) ties each request to the rows: `ReqTyped`,
`KeysDiffer` (no two requests past the advisory lock have one key) and `Stands` (what a
request read still holds while it has the locks it read it under). It gives the
refinement `AsIfAlone` step by step, `KeyPaysOnce`, and by the refinement everything
`SaleBill` keeps of bills, credit and money (`TransactionsKeepMoney`).

### Stock (`StockProofs`, `StockGoodsProofs`)

`StockInv`: the book's types and kept documents (`BookInv`); each request is at a step of
its `Program`, holds the locks it has passed and what it read still stands; requests'
locks are apart; what is done and under way stays within the bound. From it the refinement
`AsIfAlone` of `StockBook` and `DeadlocksNeedPurchase`.

On the book, goods are sums: what picking from batches takes, what a return to batches
splits, what the ledger adds up to. `GoodsInv` (`LedgerKept`, `DocsKept`, `Balanced`)
gives `GoodsAccountedFor`, where a bill `"cancelledReturned"` accounts for goods twice:
what is gone and what came back of a document is all of it (`GoneAndCame`); `ShortInv` (`OfItem`, `OpeningsOnly`, `KeptAs`, `NotShort`)
gives `NeverShort`. Picking earliest expiry first is a fold whose partial sums telescope, which is
how a sum over a batch list is proved without induction.

### Registers (`ShopProofs`)

A register may be opened because of what a request saw some steps ago. The invariant adds
`LocksHold` (no two requests hold the branch, none holds a register another is closing)
and `RequestsSound`: what a request saw under its locks still holds (`OpenSeen`,
`TurnSeen`, `CloseSeen`, `MoveSeen`). From it every invariant the run checks.

### The shop (`ShopProofs`)

- `CatalogInv` (`Stored`, `UnderWay`, `CodesApart`, `SizesApart`, `PricesFit`,
  `ChecksStand`, `SoldWithinMrp`): while no two requests raced, what a request checked
  still stands when it writes. `ScansFindOneItem`, `NeverSoldAboveMrp`.
- `TillInv` (`TabKeys`, `SaleKeys`, `ToComeFresh`, `OnePlace`, `SalesFollowed`): a key is
  in one place, and a sale recorded under it is of the cart that is held with it.
  `CartBilledOnce`.
- `SettlingInv` (`RequestsKnown`, `ServersApart`, `FirstAlone`, `IdsApart`,
  `SavedIsCurrent`): a payment's first attempt is alone under its id. `PaymentRecordedOnce`.

### The desktop app (`DesktopProofs`)

- `FallbackInv`: handlers of the app are apart (`HandlersApart`), the copy is the server's
  rows and what was done offline since (`BooksSound`), what each handler carries is sound
  (`WorkSound`); unless `behind`, numbers are (`NumbersSound`); without `"resend"`, rows
  are (`RowsSound`). The theorems assume `"finish" \notin Races`, and `ServerRowsAgree`
  also `"resend" \notin Races`: the two configurations of §5 show why.
  `OfflineWorkKept`, `NumbersUsedOnceUnlessBehind`, `ServerRowsAgree`.
- `MoveInv` (`PausedWhileMoving`, `UploadsSound`, `CopyWhole`, `OneImport`): `MovedOnce`.
- `BackupsInv` (`JobSound`, `BackedUpFirst`, `NeverLost`, `FilesThere`): `BusinessKept`.

### The hosted server (`HostingProofs`)

- `PaymentsInv` (`InvoicesSound`, `EventsSound`, `PaidTimeKept`): `PaymentsCount`.
  `RemindInv` (`PaidBefore`, `KeysSoon`, and `RemindersSound` unless overtaken):
  `RemindedOnce`; both under `BillingAssumption`, by which a period is longer than the
  days a reminder is early. `SettledPaymentsStand`: a checkout that ended keeps its end.
- `DeletionInv` (`AskedInTime`, `RoundsSound`, `RowSound`): what an erasing round still
  holds of the list it read was asked for a grace period ago. `GraceKept`,
  `ErasedForGood`.
- `SessionInv` (`TokensSound`, `RequestsSound`): what a request will sign is no newer than
  what it read. `SessionsEnd`, `EndedStayEnded`.
- `ClientsInv` (`WorkSound`, `Line`, `KeptSound`, `UsesCounted`, `Short`, `EnoughWoken`):
  every use counted is a request's and every free place has someone woken for it.
  `AtMostMaxClients`, `EveryUseIsLetGo`, `FreeMeansWoken`, assuming `Aborts = FALSE`.

### Who may call what (`OfficeProofs`)

The guards of a route are reads of their own, so a request past them all held what each
asked for at some moment, not at one. `AccessInv` (`AccessTypes`, `ChecksShown`,
`OwnerStands`) says what each check passed showed of the rights held since the request
arrived; that a branch may be used is shown by two reads together, of the access to it
and of the register still open there. With it `RightsHeld` needs one fact about the
routes, `RoutesGuarded`: the guards come first, and a route anybody may call has no other
check. It is proved controller by controller. `WaysOutOpen` follows from the owner being
nobody's to change, and from `CallsServed`: every call of the contract has its route.

### Returns and reports (`OfficeProofs`)

`GstInv`: bills are dated and paid by now, come to their lines and have tax only from a
regular taxpayer (`BillsDated`); a credit is of a line of a bill that stands, and untaxed
when the line is (`ReturnsDated`); a period is filed when it is over (`FiledOver`).

- `FiledStands`: a step that leaves alone the period's dated rows, what they say of goods,
  and which bills are cancelled (`PeriodStands`) leaves its figures alone (`FiguresSame`).
  Once a period is over every step does, but for what was sold, paid or returned offline
  in it arriving and a change of zone: anything else is dated now, and only a bill of today
  can be cancelled.
- `TablesAgree`: a table is a sum of entries by group, so it sums to its entries whatever
  the key (`TotalByGroup`, `RowsTotal`); dropping rows of nothing changes no sum
  (`NetSame`). The sections take the taxed lines apart three ways, and the untaxed
  rest has a section of its own (`KindsAddUp`); a bill's total is its entries'
  (`GrossAgrees`); with nobody unregistered, a line is a regular bill's or a composition
  bill's (`SoldByType`, `BackByType`).

What a form asks for is constrained by `GstAssumption` as the code does: a line that is not
taxable has no tax (`supplyTypeProblem`).

### Pages (`OfficeProofs`)

- `ScreensInv` (`AtPage`, `SawItself`, `AnsweredShown`) says what is on screen or being
  read has every change that was answered. It rests on one fact about the table of pages,
  `PagesTidy`: a change refreshes every query of its page that shows what it alters, but
  for `LeftStale`. `OwnChangeShown`.
- `PagesServed`: each page's calls against the routes of their controllers, page by page
  (`PagesGranted`), for anybody the guards of the page let in; and `LinksLead`.

### What the attempts found

- `PaymentRecordedOnce` was false one request past TLC's bound: a late answer to an
  earlier attempt must be excused for the id the next intent takes too.
- `Catalog`'s creation of a product with sizes left out its look at names and codes, and
  `Stock`'s `Possible` the refusal "That line isn't on purchase". Both are in now.

### Only model-checked

- `AmountsAddUp`: what rounding to whole paise leaves over, over every bill of the
  instance. Division by constants, of products, along a fold: beyond the SMT solver, and
  an induction over lines.
- Liveness (`EveryRequestAnswered`) and its fairness: outside this prover.
- The two violations, which are counterexamples.

## 5. What does not hold

Two runs keep a counterexample (`cancel_after_free_return`, `checkout_reload`; see
"findings" in `PROJECT.json`). These others can be had by hand; the runs leave the
race out or name it in the property, so that what they show is that there is no other.

| see it with | what the code does |
|---|---|
| `FallbackFinish.cfg` on MCFallback, `OfflineWorkKept` | ipc-fallback.ts:109 "While sending, the page's requests wait": only new ones. A checkout already at the copy when the outbox is read (ipc-fallback.ts:119) is in neither, and the next refresh replaces the copy |
| `FallbackResend.cfg` on MCFallback, `ServerRowsAgree` | fallback.service.ts:213 "sending the same rows again changes nothing": a bill paid on the copy between two sends gets its payment on the server while its invoice row there (359) still reads unpaid |
| `FallbackSale.cfg` on MCFallback, `NumbersUsedOnce` | fallback-counter.ts:49 "offline ones carry on after it": a number noted during a refresh is overwritten by the settings it read before (fallback.ts:216), and used again |
| `ServerAbort.cfg` on MCServer, `EveryUseIsLetGo` | app-config.ts:87: a caller that hangs up before its client is acquired leaves it counted in use for ever; one that hangs up later has it let go under its handler |
| `RegistersStale.cfg` on MCRegisters, `OpenOnActiveCounter` | common/counters.ts:7 "neither can race the other": `updateCounter` looks at `isActive` (counters.service.ts:60) before it takes the lock (69), and a counter read as off skips the check (77) |
| `DesktopNext` with INVARIANT `FailedRestoreChangesNothing` | backups.ts:189 "a failed restore changes nothing": once the databases are swapped, a failure to swap the uploads, or a stop, leaves the restored rows with the old uploads |
| `DesktopNext` with INVARIANT `RetryFinishes` | move-online.ts:70 "a retry finishes the same move": a business that is locked here cannot begin again (POST /migration/begin is not allowed while locked) |
| `MovedOnce` without `"unread"` among its excuses | move-online.ts:135 "Stay paused so nothing is sold here that the online copy would miss": when the server's OK breaks off, reading its body (144) fails before `uploaded` is set, so the copy here is unlocked (161-163) although the server has the business; both are in use, and a retry takes what was uploaded for all of it |
| `ServerNext` with INVARIANT `SignInAgainWorks` | "Branch access was removed, please sign in again" (auth.guard.ts): signing in again names the register left open at that branch, and is refused again until an admin closes it |
| properties' exceptions | a reminder goes out twice when a payment overtakes one being claimed; a payment refused while an earlier attempt under its id is on its way can be recorded under two ids, against "nothing was ever recorded under it" (sales.controller.ts); bills, payments and credit notes made offline that arrive late, and a change of time zone, move the figures of a closed period, against "A closed range's figures don't change later" (contract/reports.ts); five pairs of `LeftStale` show an old answer until the page is opened again; `/owner-password` opens in a browser whose server is offline, where its calls are refused (`Useless`) |

## 6. What is not modelled

- Of stock and purchases: cost, suppliers' accounts, ledger pages. Of the catalogue:
  categories, images, spreadsheet parsing.
- Of pricing: the decimal rounding of binary fractions (amounts are whole paise here).
- Of the fallback counter: setting it up and removing it, designating another,
  the return series, registers and customers made offline, batch shortfalls, the
  seven-day window, schema versions, and `verifyOutbox`, which refuses rows no
  copy makes. The copy's API is down from a refresh's check to its restore.
- Of the client pool: the cache of a business's details, a request that enters a
  business it is already in, and shutdown.
- Of bills: what a customer already owed when the fallback copy was made (`owedAtCopy`), and
  a business that takes goods back without a time limit.
- Of registers: names, plan limits and the fallback counter's own computer.
- Of accounts: sign-up, verifying addresses, throttling. Of moving and importing: creating
  a schema and copying rows are one step each.
- Of GST: the JSON and spreadsheet forms, amendments, purchases' credit.
- Of routes: what a body or an answer holds; what a handler does after its checks is in
  the other modules. Of pages: layout, forms, wording, ids within a query's
  key, and sessions that must change their password first; that the page of
  `/open-register` sends on whoever has a register open is taken for its guard.
- Financial-year rollover and prefixes of document numbers.
- Exports and the audit log (they read, or append), receipts and labels (formatting),
  windows, updates and crash reports (operating-system plumbing), deployment scripts.

## 7. Plan

The modules planned are written and what was planned to be proved is. What is left: setting
up and removing a fallback counter, registers and customers made offline, and financial-year
rollover of document numbers, which no module has yet.
