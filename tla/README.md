# Plant shop: specifications and proofs

TLA+ specifications of the backend of the plant shop (`src/backend`, Go and
PostgreSQL), the TLC configurations that check them on small instances, and
proofs, checked by TLAPS, that hold for instances of any size.

## 1. Inventory

The shop is one Go process (more than one may run) over one PostgreSQL
database. Handlers run concurrently, one goroutine per HTTP request; two
background activities run beside them: the maintenance goroutine of `main.go`
and the notification worker. There is no shared memory worth speaking of: the
processes interact through rows, row locks and unique indexes, and through two
external services, the ZarinPal gateway and the mail server.

| Component | State | Operations | Interacts with | What makes it correct |
| --- | --- | --- | --- | --- |
| Orders (`order/repository.go`, `model.go`) | `orders` (status, payment status, method), `order_items` | CreateFromCart, UpdateStatus, CancelOwnOrder | payments (may a cancel go through), stock, coupons, outbox | no unpaid online order is fulfilled; stock and coupon come back once |
| Reservation expiry (`order/expiry.go`) | - | ExpireReservations each minute | orders, payments, stock | never takes an order somebody can still pay; ends every abandoned one |
| Payments (`payment/`) | `payment_attempts` and their events | RequestZarinPal, Callback, AdminReconcile, ReconcilePayment | gateway, orders, outbox | one capture settles one attempt once; an order is paid by one attempt |
| Payment maintenance (`payment/maintenance.go`) | - | ExpireAbandoned, expireRejected each minute | gateway, payments | finds lost captures; releases an authority only on a definite -51 |
| Cart (`cart/`) | `cart_items`, merge keys | AddItem, UpdateItemQuantity, DeleteItem, Merge | checkout (lock on the user's row) | a retried merge adds once |
| Coupons (`coupon/`) | `coupons`, `coupon_redemptions` | Eligible and InsertRedemption in the checkout, Release on cancellation, admin edits | orders | the limits hold under concurrent checkouts |
| Inventory (`admin/`, `product/`) | `products.stock`, adjustments | AdjustStock, product form | orders | stock is never negative, nothing sold twice |
| Returns (`return/`) | `return_requests` | CreateRequest, UpdateStatus | orders, refunds, outbox | only what was paid and delivered comes back; "refunded" is true |
| Refunds (`refund/`) | `refunds` | Create, AdminRefund, AdminManualRefund, UpdateStatus | provider (outside the transaction), orders, returns, outbox | money leaves once and is not forgotten |
| Outbox (`notification/`) | `notification_outbox`, leases | EnqueueTx; the worker claims, sends, marks, retries | mail server | every mail is sent at least once or given up after its retries |
| Sessions, recovery (`auth/`) | `users`, `sessions`, `password_reset_tokens` | Register, Login, Logout, Authenticate, ForgotPassword, ResetPassword, CleanupExpired | outbox (by its own sender) | an ended session stays ended, a link works once |
| Address book (`address/`) | `user_addresses`, partial unique index | Create, Update, Delete, SetDefault | - | one default, which is kept |
| Slugs (`product/`, `article/`, migration 020) | slugs, alias tables, the trigger's locks | create, rename, delete | public pages | a link keeps its item |
| Categories (`category/`, `articlecategory/`) | categories, the foreign key of items | save of an item, deletion of a category | products, articles | nothing is filed under what is gone |
| Wishlists, reviews (`product/community.go`) | `wishlists`, `product_reviews` | add, remove, merge; write, moderate | products, orders | the cap; nothing unmoderated is public |
| Articles (`article/`) | `articles.status, published_at` | create, update, delete | - | a published article has its date and keeps it |
| Images (`upload/`, `storage/`) | files, the columns that name them | upload, save, delete, clean-up | products, articles | an image in use without a break keeps its file |
| Coupon console (`coupon/`) | `coupons` | AdminCreate, AdminUpdate | checkout | racing edits stay within the rules |
| Prices (`order/`, `coupon/model.go`) | - | subtotal, discount, fee, preview | carts, coupons | the amounts add up and are the ones shown |
| Rate limiter (`operational/`) | buckets in memory | each request | - | its bounded table is not noticed |
| Migrations (`migrate/`) | `schema_migrations`, advisory lock | Run, Adopt, the start of the server | - | the history is the schema |
| SEO, frontend, configuration, scripts | - | reads | - | not modelled: no protocol |

Hard behaviour, in the order of how much it can cost:

* money: callbacks that are lost, late or repeated, beside an admin's check and
  the maintenance loop; captures after the order was given up;
* a scan's snapshot that is stale when its row locks are granted;
* the stock and the coupon of an order that several actors cancel at once;
* state read before a gateway call and used after it;
* scans with a LIMIT, which may starve what they do not reach;
* the order in which transactions lock users, orders and products;
* a provider's or mail server's call between two transactions, and a crash there;
* retries of requests that already did their work (merge, checkout, refund).

`PROJECT.json` lists every hazard at its line, with the properties that watch it.

## 2. Plan

1. `OrderPayment`: the life of an order and its payment attempts, with the two
   maintenance scans, checked, with liveness (`OrderPaymentLive`) and proofs
   (`OrderPaymentProofs`). **Done.**
2. `Shop` and `Checkout`: carts, merge keys, stock, coupons, CreateFromCart,
   cancellation and stock changes. `Shop` is the abstract specification, in which
   every request is atomic; `Checkout` runs the transactions lock by lock and
   implements it, checked and proved (`CheckoutProofs`). **Done**, but for the
   parts named in section 6.
3. `Returns`: returns, refunds and the provider's call outside a transaction, with
   lost requests and crashes; `MoneyBack` is the abstract specification it
   implements; `ReturnsLive` adds fairness; `ReturnsProofs` the proofs. **Done.**
4. `Outbox`: claim, send, mark, retry and lease, with crashes; `Delivery` is its
   abstract specification. **Done.**
5. `Sessions`, `Addresses`, `Slugs`, `Categories`: requests that wait for each
   other's locks, at the grain of a statement. **Done.**
6. `Migrate`: runners of several builds, adoption, crashes. **Done.**
7. `Wishlist`, `Reviews`, `Articles`, `Images`, `Coupons`, `Pricing`, `RateLimit`.
   **Done.**
8. `OrderLifecycle`: an abstract order (placed, paid, fulfilled, given up) that
   `OrderPayment` implements, checked and proved (`OrderPaymentProofs`). **Done.**
9. Row locks of settlements and refunds at the grain `Checkout` has for its
   transactions, and `Checkout` beside `OrderPayment`, with `Shop`'s promises as the
   refinement target. Left.
10. Proofs of the parts of `Checkout` that a refinement does not say (in
   `CheckoutProofs`), of `Outbox` with the refinement of `Delivery` (`OutboxProofs`), of
   `Categories` (`CategoriesProofs`), of `Migrate` (`MigrateProofs`), of all parts of
   `MCRequests` (`RequestsProofs`) and of all parts of `MCStorefront`
   (`StorefrontProofs`). **Done**: every safety property that a run checks is a theorem.

## 3. Modules

### OrderPayment

One action per transaction. All transactions of `order/` and `payment/` that
touch an order or an attempt take `SELECT ... FOR UPDATE` on the order's row
first (`UpdateStatus`, `CancelOwnOrder`, `lockOrderForPayment`,
`ExpireReservations`), so that they are serial for one order. What happens
outside a transaction is a step of its own: the gateway's call between
`CreateAttemptForOrder` and `SetAuthority`, the unlocked read of `Callback` and
`ReconcilePayment`, the gateway's answer, its writing, the loop's second read,
and the snapshot of each scan.

| Variable | Code |
| --- | --- |
| `order[o]` | `orders.status, payment_status, payment_method`; `due`: older than the cutoff |
| `restored[o]`, `redeemed` | stock given back (`restoreOrderStock`), coupon redemption not released |
| `attempt[a]` | `payment_attempts`; `authority` is `authority IS NOT NULL`, `code` the class of `provider_code`, `outcome` the event that `reconciliationRows` reads last |
| `older[a]` | the order by `updated_at` |
| `request[a]` | where `RequestZarinPal` is with the attempt |
| `captured[a]` | at the gateway: the reference of the captured money |
| `verifier[v]` | a callback, an admin's check, or (`Maint`) the loop's current verification |
| `pass`, `batch`, `scan` | the goroutine of `main.go`: the scan it is in, the rows it selected |
| `outbox` | `notification_outbox.event_key` |

Abstractions: time is the flag `due` (the cutoff only grows, and an attempt is
younger than its order); an amount never changes (trigger of migration 009), so
`total = amount` holds and is left out, and `Payable` are the orders of at least
10000 IRR; every attempt has the provider and environment of the running
process (a legacy row matches no provider and is never verified). A mail is the
key of its outbox row. The authorisation of requests is left out: an action may
happen whenever some authorised caller may call it.

The gateway is external. It may refuse or lose any call, answer a verification
with any error, and capture money at any time after the customer was sent to the
payment page; it answers success only for captured money and -51 only for money
it has not captured (at that time: it may capture it later).

`CreateFromCart` is the initial state: orders that have just been placed, with or
without a coupon.

An operator with an underscore in its name is a faulty variant of the operator
that follows it; no specification uses it. Each is a plausible slip in the code
(a re-check that is missing, a guard that is too weak, a snapshot that is used
where the row should be) and makes TLC find one property violated.

`OrderLifecycle` is the promise `OrderPayment` implements (`KeepsPromise`): one
transition for each thing that may happen to a placed order (`Offer`, `Withdraw`,
`Pay`, `Advance`, `GiveUp`), each with its mail and its stock. The refinement
mapping reads an order's page off its attempts (some attempt is pending or paid) and
its payment off the attempt that is paid (`payments`, pairs of an order and a
reference); stages, stock and mails are the columns themselves. `Pay` wants an order
that waits and a reference that has paid nothing: the code's guards are weaker (it also
accepts an order in processing or shipped), and that they come to the same is part of
what the refinement says. The mails of the promise are all mails of the orders, so that
it also says that none of another kind is queued: a `payment_failed` mail needs an
attempt that has failed with an authority, and no transaction makes one.

### OrderPaymentLive

The fairness of the maintenance goroutine and two leads-to properties. Weak
fairness of the goroutine's steps as one action (it runs them one after the
other, whichever is next) and of the passing of time. Beyond fairness the
properties need calm: from some time on no pass is cut short (`MaintAbort`,
`VerifierLost(Maint)`), the gateway gives a definite answer about the attempts
outside `Unanswerable`, and no row lock makes the scan skip an order. Nothing is
assumed of the customer, of the callback or of an admin. `ScanLimit = 1` with one
attempt that is never answered is what makes the rotation by `updated_at` matter.

`MCOrderPaymentLive` is the instance of the run: the first attempt is never the second
order's (orders are interchangeable), and coupons, on which no guard depends, are left
out.

### Shop

What the shop promises, one action per request, on the state of one instant: buy
the cart (stock and coupon limits permitting), give back a set of placed orders,
merge a guest's cart once, change a line, correct a stock, change a coupon's
limits. The effect operators (`Place`, `GiveBack`, `MergeInto`, `SetLine`,
`Correct`, `SetLimit`) are what the transactions write; `Checkout` uses the same
ones, so that the question of the refinement is exactly when, and on which state,
they are applied.

| Variable | Code |
| --- | --- |
| `stock`, `ledger` | `products.stock`; per product, the sum of `inventory_adjustments.delta` |
| `cart[u][p]` | `cart_items.quantity`, 0 if there is no row |
| `merged` | rows of `cart_merge_batches` |
| `order[o]` | `orders` (placed, cancelled or not created yet, customer, coupon) with `order_items` |
| `redeemed` | orders with a row of `coupon_redemptions` whose `released_at` is null |
| `limit[c]` | `coupons.usage_limit`, `per_user_limit` |

Fulfilment and payment statuses are those of `OrderPayment`; here an order is
placed until it is cancelled.

### Checkout

The transactions of `cart/`, of CreateFromCart, of the three ways to cancel
(UpdateStatus, CancelOwnOrder, ExpireReservations), of AdjustStock and of the
product form, lock by lock, at PostgreSQL's default isolation level, read
committed. `tx[t]` is the transaction a connection executes: its request, the rows
it has read, the orders it has still to give back, its locks. `Wants(t)` is the
lock it requests next, in the order of the code's statements; `Granted` is the
database's rule. Besides the explicit `FOR UPDATE`s there are the `FOR KEY SHARE`
locks by which PostgreSQL checks foreign keys: of a new cart line to its product,
of an adjustment to the admin, of the outbox row to the customer.

What a transaction writes is visible to others when it commits: so all its writes
are the action that commits it. What it reads of a row it has locked is read in
that action too, or when the lock is taken; what it reads of other rows is read
where the statement runs. `asked` is no state of the program: it counts what the
customer's browser asked for, for `BoughtAsAsked`.

Abstractions: a transaction may roll back at any time, which stands for every
failed condition that the model does not have (prices, dates and minimum totals
of coupons, digital products, an inactive product, a lost client) and for the
victim of a deadlock. Products are not deleted. AddItem and UpdateItemQuantity
compare with a stock they have not locked; that check is advisory, and
`ChangeLine` promises nothing about it. The table's `CHECK (stock >= 0)` is in
`GiveBack` and `CommitStock`; CommitCheckout tests the stock itself.

Bounds: `Kinds`, the transactions that happen; `MaxAsked`, pieces of a product a
user asks for; `MaxStock`, the stock an admin enters.

### Returns, MoneyBack, ReturnsLive

| Variable | Code |
| --- | --- |
| `order[o]` | `orders.status, payment_status, payment_method` |
| `returns[o]`, `refund[o]` | the status of its row in `return_requests`; status and method of its row in `refunds` |
| `outbox` | keys of queued mails |
| `paidOut[o]` | how often money has left the shop, at the provider or by hand |
| `request[r]` | where a console request is, and what it has read |

Transactions that lock the row they change are one step; the reads before them and
the provider's call between two of them are steps of their own, and a request may
be lost at any of them. The provider may pay, refuse, fail, or fail after it has
paid. `UpdateReturn` has every step the code allows, the unrouted ones too;
`SetRefund` is `UpdateStatus`, by which both endpoints move a refund.
`MoneyBack` is one machine per order: goods come back, a refund is started, money
is paid out at most once and recorded, or in doubt.

With the routes that `main.go` serves no refund succeeds in production today:
nothing served creates a row of `refunds` (`Create` and the endpoints that would call
it have no route), and nothing sets a manual order to paid. The model starts from
orders that are paid, by either method, and has `Create`, so that it says what the
endpoints do once such rows exist.

Met on the way, and without a run: a refund whose provider failed goes to
`manual_review` "so a human confirms the outcome" (`refund/handler.go:440-444`), but
`AdminRefund` claims from `pending` only (383-417), `AdminManualRefund` takes the
manual method only (273-277) and `AdminUpdateStatus` (207) has no route.
`AdminManualRefund` also takes a `pending` refund, its comment (253-255) says only
one in review or processing. `completed_at` is written from a variable that nothing
sets (`refund/repository.go:168-205`).

### Outbox, Delivery

Rows and workers of any number of processes. `Fetch` is the claim of a batch
(`FOR UPDATE SKIP LOCKED`, status `processing`), then each mail is sent and marked in
turn, outside every transaction. Time is what is left of a delay, a lease or a
deadline; `Tick` lets a unit pass. Crashes, claims whose answer is lost and marks
that fail count as `trouble`, at most `MaxTrouble`. The assumption that makes a claim
exclusive is in `OutboxAssumption`: ten mails of at most 43 seconds end within the
lease of 600. `Delivery` says: handed over at least once before it counts as sent,
never after, dropped only after its tries.

In the code the delays are 1, 2, 4... seconds (`1 << n.Attempts`, where the comment
speaks of 2, 4, 8), the configured batch size is not read (ten is written in the
query), and a send that a shutdown cancels counts as a try.

### Sessions, Addresses, Slugs, Categories

A step is one statement, or one wait inside it; what a transaction wrote is seen by
others when it commits. Locks of rows, of index entries and of the slug trigger's
rows are variables or follow from who is where. Every request is made once, and
`at` says which statement it is at.

`Sessions`: `password[u]`, `session`, `token` (by the request that drew it), `lock[u]`
(`FOR UPDATE` of the user), and two histories, `newest[u]` (the link mailed last) and
`uses`. A login whose password was checked before a reset still gets its session
after it: `EndedSessionsStayEnded` is about sessions that had begun.
`Addresses`: `book` (the rows), `holder` (who holds a row or the entry of the unique
index on the default). `Slugs`: `slug[i]`, `alias[s]`, the row locks of items and of
reserved names; a product's and an article's protocol are one, and the module
stands for either. `Categories`: `filed[i]`, `there`; `Products` chooses between the
deletion that counts first (`category/`) and the one that does not
(`articlecategory/`). Two saves and two deletions of article categories really do
wait in a circle; PostgreSQL ends one of them, which `Deadlock` models.

### Migrate

Runners with the files of their own builds (`Files`), some of which are the command
that adopts a legacy database (`Through`). A migration is applied whole with its row
of the history, or not at all, unless its text controls transactions, which `Load`
looks for. A runner may crash or lose its session, and with it the advisory lock, at
any step.

### Wishlist, Reviews, Articles, Images, Coupons, Pricing, RateLimit

`Wishlist`: statement by statement, with the lock a merge takes of its user. A merge
fills the list up to its cap with what is on sale. `Reviews`: single statements; a
moderation goes by what was on the admin's page. `Articles`: the read of `Update`, the
decision about `published_at`, the write. `Images`: what an item shows (main image,
and for products the images inside), uploads, and the clean-up after a save, image
by image: the query whether anything shows it still, then the removal. Either may
fail, and the request then goes on to the next image and succeeds; an image that is
both main and inside is looked at once. The histories `released`, `renamed` and `left`
are for the properties: what nothing showed any more at some time, what a save named
after a clean-up's query, and what an error left. `Coupons`: the
read, the merge of a body into it, the write of the row; a value of a wrong type in a
nullable field is decoded to the zero value of Go, whose error is ignored: a limit of
0, which the rules refuse, or a date of the year 1, which they do not. `Pricing`: the arithmetic of an
order on integers that wrap at `Half` (2^63 in the code), coupons with their windows and limits, fees as
the environment sets them. `RateLimit`: token buckets in integer shares (a token is
`Window` shares), the bounded table and its clean-up. The history `ideal` is a bucket
that is never thrown away.

Met on the way, and without a run: a text is published unread when its author edits
it between the moderator's list and the click (`product/community.go:238`); of two
edits that publish one draft the second moves the date (`article/handler.go:428-446`);
an update of an article without a status, for which the handler provides (450),
dereferences nil in `article/repository.go:357`; a coupon's malformed `ends_at` ends it
(`coupon/handler.go:247-280`); the product in `coupon/model.go:248` wraps from a subtotal
of 2^63/100 on; the comment of `order/model.go:21-23` forgets the discount in the total;
an image that nothing shows and that a save takes up again between a clean-up's query
and its removal loses its file (`LossesFallInTheGap` says that no other image in use
does), and one may be left behind if a save's read is stale, if its query or its
removal fails, or if the process dies before; images inside an article's text are never
cleaned up.

### MCRequests, MCStorefront

Compositions of parts that share no row and never call each other: `MCRequests` of the
four modules of requests that wait, `MCStorefront` of the seven others. A behaviour
takes the steps of one part, chosen at the start, while the others are in an initial
state: since every property is about one part, the product of all states would show
nothing more. `XSafety` is the conjunction of the named promises of module `X`.
The fairness of a part that does not run names no possible step. `MCRequests`
extends `Categories` and has the others as instances. Two bounds are
`MCStorefront`'s own: the hour and the redemptions by others vary only with a coupon that
looks at them, and a save names uploads only (an image that is no upload is in an item
from the start).

### MCCheckout

Three scenes on one instance, each with initial carts and the kinds of requests that
meet: customers who merge and buy, one of whom edits lines too; customers with different
products and one coupon, whose limit an admin changes; and buyers beside cancellations,
expiry and two ways to correct the stock, by an admin who is a customer or nobody the
shop knows. All kinds together do not fit. Left out are such pairs as a
merge beside a cancellation, which share locks and no row that both write; what
`CheckoutProofs` proves holds for all kinds together.

### OrderPaymentProofs, CheckoutProofs, ReturnsProofs, OutboxProofs, CategoriesProofs, MigrateProofs, RequestsProofs, StorefrontProofs

See section 5. A section of `CheckoutProofs` has lemmas about sums over finite sets, which
hold of any function.

## 4. Runs

| Run | Instance | Shows |
| --- | --- | --- |
| `order_payment` | 1 order, 2 attempts, 2 references, 1 request beside the loop; 272 000 states | all invariants but one, both action properties, the refinement of `OrderLifecycle` |
| `payment_liveness` | 2 orders, 2 attempts, 1 reference, one attempt never answered, coupons left out; 128 000 states, no symmetry | `RefPaysOnce` (the conflict needs two orders and one reference), `CaptureIsFound`, `ReservationEnds` |
| `rejected_stays_pending` | 1 order, 1 attempt | violation: a rejected verification does not fail the attempt; the comment of the statuses says it does |
| `checkout` | 2 customers, 2 products, 2 orders, a guest cart, a coupon, 2 transactions at once, three scenes; 201 000 states | serializable, the coupon's limit holds, no piece is lost, sold twice or bought unasked, buyers do not deadlock |
| `restore_deadlock` | two orders that expire beside a checkout | violation: restoring order after order does not lock products in ascending order, as the comment says it does |
| `returns` | 1 order, 3 console requests, every answer of the provider, lost requests; 14 000 states | `ReturnsSafety`, the refinement of `MoneyBack`, `HandoverEnds` |
| `outbox` | 2 mails, 2 workers, 2 troubles; 153 000 states | `OutboxSafety`, the refinement of `Delivery`, `EveryMailEnds` |
| `migrate` | 5 runners of 4 builds, fresh and legacy databases, crashes; 6 800 states | `MigrateSafety`, `EveryRunEnds` |
| `requests` | 4 requests on 1 user, 3 on the addresses of 2, 3 on 2 items and 3 slugs, 3 saves or deletions of 2 items and 2 categories; 320 000 states | the safety of each part |
| `requests_end` | smaller, without symmetry; 254 000 states | `NobodyWaitsForEver`, `TokensAreCleared` |
| `storefront` | 2 merges and 3 products under a cap of 2; 2 reviewers, 2 moderators; 3 edits of 2 articles; 2 saves of 2 items over two uploads, with failing queries and removals; 2 edits of 2 coupons; 6-bit amounts; 2 clients and a table for 1; 1 030 000 states | the safety of each part |
| `category_race` | 1 save beside 1 deletion | violation: a product filed after the count is uncategorized, which the comment says cannot be |

Bounds. Two attempts are the least that can race for one order (a second one
exists only after the first was failed or expired, which is where a late capture
bites); a third attempt meets the same guards. One request and the loop are two
concurrent verifications, the least that can interleave; two requests and the
loop (1.5 million states) show nothing more. `Refs` has two values so that two
captures may agree or differ. Symmetry is used in safety runs only. Deadlock is
checked in the runs of `OrderPayment` and `Checkout`: time, the scans and the passes
go on for ever, and so do requests. In the other instances each request is made once
and all may be done, so that TLC is told not to look for it; that nobody waits for
ever is what `NobodyWaitsForEver`, `EveryMailEnds`, `EveryRunEnds` and `HandoverEnds` say.

In the run of `Checkout` two transactions at once are the least that can
interleave, and a circle of two is the shortest; a connection takes new requests
when it is done, so that up to the bound of the orders and pieces any sequence of
requests happens. One piece of the first product is left, which two customers
want; two products are the least that can be locked in two orders.

One order is enough for `returns`: nothing there relates two. Three requests are a
creation, and two that race for the refund it made. In `outbox` two workers race for a
mail whose first owner is slow, and a batch of two makes the second mail wait for the
first: the lease of 3 is just longer than two sends of 1. Three statements are
enough for the renames: two that swap and one that wants a slug they leave.
A cap of 2 and three products make a merge choose. Two uploads let an error at one
image of a product meet the clean-up of the other, and two requests are the least that
race for an image; `AloneItTidies` needs one alone. Six bits are enough for a
product of price and quantity, and of subtotal and percentage, to wrap to either sign;
prices wrap alone, in the sum, and not at all. Limits of coupons are 1 and one that is
too wide for the column. A table of one bucket for two clients is full at once.

What `restore_deadlock` shows costs no data: PostgreSQL ends one of the
transactions, which is a `Rollback`. A cancellation also shares its customer's row
(the foreign key of the mail) after it has products, and so may wait for a
checkout of the same customer that waits for these products; the comment does not
speak of that circle and the run leaves it out (it looks at products only).
`BuyersNeverDeadlock` is about transactions of customers who buy, which is why it
holds.

Fairness. Of the payment loop see `OrderPaymentLive`. Elsewhere a request that has
begun goes on (its goroutine runs, and a lock that is free is granted), time passes,
the worker's ticker fires, and the maintenance loop comes round; crashes and troubles
are bounded. `TokensAreCleared` assumes that passes of the maintenance loop reach
`CleanupExpired`, which shares their deadline of 45 seconds with two scans.
`HandoverEnds` assumes that an admin who finds a refund unfinished tries again (strong
fairness), and that from some time on no request is lost.

OPERATIONS.md:204-205 says "There is no background reconciler in V1 (by design)": the
loop of `payment/maintenance.go:42` is one, and `CaptureIsFound` depends on it.

## 5. Proofs

`OrderPaymentProofs` proves, for all sets of orders, attempts, references and
requests and any limits of the scans (`ConstantsAssumption`), the type invariant,
every safety invariant of the runs, both action properties and the refinement of
`OrderLifecycle`.

None of the invariants is inductive alone. `IInv` adds to them

* `RowsExist`: an attempt that exists belongs to an order that is an online one
  (otherwise `FulfilledIsPaid` breaks when it is paid), and an attempt with an
  authority is never failed (otherwise a settlement may follow a failure and
  `OneLiveAttempt`, a half of `OnePayment`, breaks);
* `AuthorityFirst`: the payment page and every verification in progress belong to
  a recorded authority, and an answer "success" to captured money. This is what
  makes a verification that was started long ago harmless when it is written.

The argument: every step changes the ledger (the status, payment status and
method of the orders, and the order, status, authority and reference of the
attempts) in one of nine ways (`LedgerStep`), each stated by its effect on the
rows; `LedgerInvariant` shows that the nine keep the ledger, and
`OrderSteps`, `RequestSteps`, `VerifySteps` and `MaintSteps` show that each action
is one of the nine and keeps stock, mails and the gateway's knowledge in accord.
`AuthorityReleased` reads the answer off the nine ways; `SettlementFinal` shows
that only the passing of time writes to a settled attempt.
`Refinement` (`Spec => KeepsPromise`) maps the nine ways one by one: a cancellation is
`GiveUp`, a new attempt `Offer`, a settlement `Pay`; a failed or expired attempt and money
that comes too late for a live one are `Withdraw` (`ClosingWithdraws`), and money that
comes after that, like an authority that is recorded, changes nothing promised. `PayPays`
needs most of the invariant: the order waits because an online order is not fulfilled
unpaid (`FulfilledIsPaid`), the reference is one the gateway captured
(`SettledIsCaptured`), and no second attempt can have paid (`PendingPage`). The run has
one order, so that a reference which pays two is for the theorem alone (and for
`RefPaysOnce` in `payment_liveness`).

`CheckoutProofs` proves, for any numbers of customers, products, coupons, keys,
orders and concurrent transactions:

* `Serializable`: `Spec => ShopSpec`. The refinement mapping is the identity on the
  tables; a commit is a request, and every other step leaves them as they are.
* `CouponLimits`: `LimitsKept`, the limits of a coupon.
* `TypeCorrect`: no stock and no line of a cart below zero, among others.

The inductive invariant `IInv` says why two-phase locking is enough here: an
exclusive lock has one holder (`Alone`), and what a transaction has read is still
so while it has the lock it read it under (`ReadsHold`): its customer's cart, room
under the limits of its coupon, that the orders it cancels are placed, the stock
it is about to overwrite. One part is about the locks a cancellation must have
before it writes (`GivenBackHolds`): the products of every order it is done with.
The lemmas `CheckoutHolds`, `UserHolds`, `StockHolds` and `GiveUpHolds` read off
`Wants` that a transaction that wants no more locks has the ones its writes need,
`EndStep` shows once that a commit which writes only behind its locks keeps what
the others have read, and each commit is an instance of it. `Redemptions` (only a
placed order counts as a use of its coupon) is needed so that a new order is a new
use.

A part of `CheckoutProofs` proves what is summed up over orders, lines and keys:

* `StockIsConserved`: for each product, the stock and what placed orders hold are the
  first stock and the recorded corrections. It is inductive given `IInv`; the work is
  in the sums, which change in one order at a time, or in the several that an expiry
  gives back at once.
* `NoMoreThanAsked`: `BoughtAsAsked`. It is not inductive: a change of a cart has been
  asked for before it is in the cart. `CartInv` counts what is on its way (`ToCome`) as
  asked for, and has that an order which does not exist belongs to nobody.

It begins with what `SumFunctionOnSet` of the community modules gives for a
set with one element more or less, for two sets, and for functions that differ at one
element. In place of the library's induction principles, which the provers cannot use,
it argues with a smallest counterexample.

Another part proves `NoDeadlockOfBuyers` from `AllInOrder`: a
transaction of a buyer has its customer before anything else, products below the ones it
still wants, and the coupon only when no product is left. So in a circle nobody waits for
a coupon, since who has one wants nothing more; the one that waits for the highest
product waits for one that wants a higher product; and who is waited for as a customer
has its own customer and does not wait for one.

The assumptions are `ConstantsAssumption`, `ShopAssumption` and
`CheckoutAssumption`: ids of products and orders are natural numbers, there
are finitely many, and so are the connections of the pool.

`ReturnsProofs` proves, for any numbers of orders and of concurrent requests, and
whatever the provider may answer (`ReturnsAssumption`):

* `ReturnsAreSafe`: `Spec => []ReturnsSafety`, the whole bundle of the run;
* `Refinement`: `Spec => KeepsPromise`. A claim is `StartRefund`, a confirmation
  `HandOver`, the provider's payment `PayOut`, a recorded answer `Record` or `Doubt`,
  and everything else moves the goods or nothing.

`PaidOutOnce` is not inductive: a second payment is only impossible because of who
may be about to pay. `IInv` adds `RequestFits` (what a request read before it locked
cannot have become false: goods that came back do not leave, a refund keeps its
method), `CallFits` (a request that calls the provider, or has its answer, found the
refund processing, is the only one to do so, and the money has left exactly if the
answer says or hides it) and `RefundFits` (each status of a refund bounds what has been paid; a
refund by hand that is processing has not been, so the confirmation is the first).
`MoneyStep` shows once that a transaction which moves a refund keeps all this, and
`ClaimStep`, `ConfirmStep` and `RecordAnswerStep` are instances of it.

`OutboxProofs` proves, for any numbers of mails and workers, any batch size, number of
tries, crashes and lost statements, as long as the deadlines of a whole batch fit
into the lease (`OutboxAssumption`; in the code 10 * 43 s < 600 s):

* `MailIsHeldByOne`: `OutboxSafety`. `HeldByOne` is a matter of time and needs an
  account of it: `Claimed` says that the lease of every mail of a batch is at least
  `LeaseFor`, the slack of the lease and the deadlines of all sends to come, less what
  the send in progress has used. A tick takes one from both; the next mail begins
  with what its predecessor left over; so no row is claimable while it is in a batch.
  `Counted` relates copies, tries and doubts, and knows that a copy somebody is about
  to mark (`Taken`) is not in doubt yet.
* `OutboxDelivers`: `Spec => KeepsPromise`. A begun send is `Try`, a server that takes
  the mail `HandOver`, the marking `Finish` or `Drop`; claims, ticks, crashes and
  losses change nothing that `Delivery` sees. `Sending` supplies the guards: the try of
  the mail being sent is counted and not yet answered, and `Claimed` that `attempts`,
  which the worker read with its claim, is still the row's.

`CategoriesProofs` proves `FilingIsSafe`, for any numbers of items, categories and
requests, products and articles alike (`CategoriesAssumption`: ids of items and
categories are of different tables). In `IInv`, `Holds` says why a save may file an
item under a category it has not looked at since its check: it has the key, or the
item is filed there and locked; and that a deletion that has detached holds whatever
is filed under its category. `Fresh` (an item that does not exist yet is made by one
request) is what makes the lock of a new row exclusive. Of deadlocks: whoever waits
in a ring is a save at its write or a deletion at its items, since those who hold
keys or have detached wait for nothing. A save waits for the deletion of the category
it wants, and that one for a save whose item is filed there, which wants another
category (`KeyWanted`): its deletion is a second one.

`MigrateProofs` proves `MigrationsAreSafe`: `MigrateSafety`, for any number of runners,
each with the files of any build, whatever schema the database had, and any crashes and
failed statements (`MigrateAssumption`). `IInv` adds `FoundHolds` to the history being
the schema: what a runner has found (the table, the history it read, that there is none)
is still so, because it has the advisory lock. `OneMoves` shows once that a step of one
runner leaves what the others have found; what remains is that a migration applied whole
lengthens schema and history alike (`BuiltAppend`) and that the next of a build continues
its prefix (`PrefixTake`), so that a runner that is done has its whole build
(`DoneIsCurrent`).

`RequestsProofs` proves the promises of the four parts of `MCRequests`, for any sets of
customers, rows and requests (`RequestsAssumption`), each by an invariant of its own, and
that a part keeps it while the others move or not (`PartsStep`):

* `SessionsAreSafe`. In `SessionInv` an ended session whose row is still there has
  expired (`SessionHolds`), so that whoever began too late and found the row will see
  that (`SeenHolds`). A row of a link is its user's newest, and its uses are counted by
  its mark (`TokenHolds`); it stays so because who issues a link holds the user and has
  seen every earlier one (`VisitHolds`), which is the lock's whole purpose.
* `AddressBookIsSafe`. `OneDefault` needs the index: `IndexHolds` says that a written but
  uncommitted default is its customer's only one, and that every committed default is
  among those its transaction has cleared, whose rows it holds (`ChangeHolds`). The same
  clause proves that a default goes only with its own address (`DefaultStep`).
* `LinksAreSafe`. `RenameHolds` says what a rename knows when: that its item still has
  the old slug, whose row it holds; that no other item has an alias of the new slug once
  that was checked, and no other item the slug itself once it is written. Both last
  until the commit because the request holds the advisory locks of both slugs. An item
  that is being created has a row nobody can see and belongs to one request (`IsNew`).
  That the locks are taken in order is irrelevant here and matters for
  `NobodyWaitsForEver` only.
* `CategoriesAreSafe`. The handlers of articles begin otherwise than those of products and
  go on alike; `ArticleCategoriesStep` says so, and the rest is `CategoriesProofs`.

`StorefrontProofs` proves the promises of the seven parts of `MCStorefront`, for any sets
of customers, rows, edits and clients (`StorefrontAssumption`), and `StorefrontStep` that
a part keeps its invariant while the others move or not:

* `WishlistIsSafe`. A merge counts before it inserts, so the cap holds because nobody else
  adds to the list between its lock and its commit (`MergeHolds`); what may happen there,
  a removal or a deleted product, makes the list shorter. That a merge takes in all it
  has room for is proved of the insertion, product by product (`FillStep`).
* `ReviewsAreSafe`, `ArticlesAreSafe`. What an admin has on the screen has been written
  (`ReviewInv`); what an edit is about to write has a date if it publishes, and the one
  that it read if there was one (`EditHolds`).
* `CouponsAreSafe`. An edit about to write has what it read, changed as it was asked to,
  and validated (`ChangeHolds`). The rules of the code and the CHECKs of the table are
  compared once (`StoreHolds`): only the width of a limit is not in the rules.
* `ImagesAreSafe`. `OnceShown` says that a request looks only at uploads that something
  shows or that have been released, and removes only released ones: a write turns the
  one into the other (`StillClaimed`). Nothing in it depends on the order of the
  requests, which is why an image in use without a break is out of every clean-up's
  reach. `FoundUnused` says that what a clean-up is about to remove is shown by
  nothing, or named by a save since; `WillTidy`, that a save which runs alone has each
  file still to look at which its product showed and nothing shows, but where an error
  has left it. These need that whatever is shown or named has been uploaded
  (`NamesUploads`), since otherwise an upload could make a file of a name that is in use.
* `LimiterIsSafe`. `Credit`, what a bucket has been refilled to by now, is what the bucket
  that is never thrown away holds; a bucket that is thrown away was full, because `Window`
  units of time refill it; and what a client has and what it will get while it
  waits is a token (`RetryAfterFills`: the rounding is upwards). No bucket is older than
  the last clean-up lets it be, which is what a full table says about its clients.
* `PricesAreSafe`. A stored order adds up for every width of the integers: the sum of
  the lines is some int64 (`SubtotalIsInt64`), the discount is between 0 and it, so that
  the difference does not wrap, and a total that wraps is negative and refused
  (`OrderAddsUp`). That the code's sum, line after line, has a value for any finite cart is
  shown with a smallest counterexample (`SubtotalsExist`).

For these proofs the modules assume, besides what the schema says of its types, that there
are finitely many products, and of `Half` that the default fees fit into an int64.

What is model-checked only. Liveness (`CaptureIsFound`, `ReservationEnds`,
`HandoverEnds`, `EveryMailEnds`, `EveryRunEnds`, `NobodyWaitsForEver`,
`TokensAreCleared`): fairness and ENABLED are out of the prover's reach. What a run shows
to be violated is of course no theorem.

## 6. What is not modelled

Item 9 of the plan, and the components that `PROJECT.json` marks
`not_modelled`, each with its reason. Of the modelled parts: the parsing of the
gateway's responses, HTTP statuses and redirects, the text of mails, the
authorisation of callers, the hashes of passwords and tokens, the check of an
image's bytes, the derivation of a client's address from its headers, and the
listings, which only read. The locks of settlements and refunds are taken with the
step that needs them. A coupon's `min_order_amount` and `is_active` are in `Pricing` and
not in `Coupons`, where their only rule is a sign; a limit wider than `int4` is refused
by the column. `Checkout` and `OrderPayment` each have the other's part of an order as
an initial state or a flag, and are not composed yet.
