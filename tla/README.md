# TiCash Pay: a verification project

TLA+ models of the TiCash Pay backend (`src/`, a TypeScript service over
PostgreSQL), TLC configurations that check them on small instances, and proofs
checked by TLAPS. Paths below are relative to the repository's `src/` directory
unless they start with `db/`, `test/` or `public/`.

## 1. The system

The backend moves customers' money between wallets, agents, a P2P marketplace
and outside providers. All money is in one double-entry ledger; every service
keeps a table of its own records (offers, transfers, payouts ...) and posts
journals to the ledger under idempotency keys derived from those records. One
Node process handles many requests at once: what interleaves is the code between
two `await`s. A request is a chain of awaited calls into the stores and the
ledger, each of which is one atomic statement or transaction. Nothing holds a
lock over two of them, so services protect themselves with compare-and-set
updates ("claims") and idempotency keys.

| Component | State | Operations | Talks to | What is hard | What makes it correct |
|---|---|---|---|---|---|
| Ledger operations (`ledger/operations.ts`, `types.ts`, `engine.ts`) | none | one pure builder per business event | used by every service | sign of amounts, legs that are only there when positive | every journal nets to zero per currency, with positive magnitudes |
| Ledger service and store (`ledger/service.ts`, `in-memory-store.ts`) | cached balances, journals by idempotency key | `post` behind twenty operations, reversals | all services | retries with other arguments, overdraft by netting | users never overdrawn, books closed, cache equals postings, append-only journal |
| Postgres ledger store (`ledger/pg-store.ts`) | the same in tables | `post` as a serializable transaction with row locks and retries | PostgreSQL | lock order, retries, a commit that is not acknowledged | implements the in-memory store |
| P2P marketplace (`p2p/`) | offers, orders, the commission setting | create and close an offer; open, pay, dispute, release and cancel an order; the expiry sweep | ledger escrow, HTTP routes, a timer | every pair of handlers on one order or offer; failures and restarts between escrow and rows | escrow covers reservations, a paid sale is final, reservations add up |
| Transfer saga (`transfers/`) | transfer records | initiate, run, recover at boot | pricing, ledger, payouts | crash between steps, two runs of one transfer | each step posted once, every transfer completes or never debited |
| Payouts (`payouts/`) | payout records | create, submit, sync, release, fail and reverse | mobile-money providers, ledger | lost answers of providers, manual and automatic settlement racing | settled or reversed, never both; not paid again |
| Reconciliation (`payouts/reconciliation.ts`) | none | report | payouts, ledger | none | provider fees of settled payouts equal the ledger's |
| Money and pricing (`money/`, `fx/`) | rates and margins | convert, round, price, quote | transfers | rounding, sub-unit amounts | quoted equals booked, no value created by rounding |
| USDT withdrawals (`withdrawal/`) | withdrawal records | request, complete, reject | ledger | claim and revert around a post; a hold before its row | never settled and refunded; no hold stranded |
| Cash-out approval (`cashout/`) | requests with an expiry | request, approve, reject, cancel | ledger | claim and revert, expiry | debited iff approved |
| Airtime (`airtime/`) | margins | top-up, set margin | provider, ledger | retry after a reversal, a margin changed in between | no top-up without a debit; a refund undoes the charge |
| Referrals (`referrals/`) | codes, referrals, bonus settings | give a code, record, reward | ledger, settings | two transactions of one user, two draws of a code | a code leads to its owner; a reward shown is posted |
| Card and PIX payments, deposits (`payments/`, `deposits/`) | intents, events seen | open a charge, webhooks | ledger | redelivery while the first delivery is handled | acknowledged iff credited, credited in the end |
| Authentication (`auth/`) | users, codes, sessions | register, OTP, login, reset, refresh, logout, block | SMS sender | counting then saving, rotation races | a code or a refresh token is used once; revoked stays revoked |
| App session (`mobile/packages/`) | tokens in memory and in storage | start, log in, request, refresh, sign out | authentication | requests that fail together, tabs sharing a cookie | an undisturbed app stays signed in |
| Send screen (`SendScreen.tsx`, `query.ts`) | form, queries, the remembered key | edit, press, leave | `POST /app/transfers` | a press after a lost answer | one send per content; booked as shown |
| Registry, KYC, screening (`registry/`, `kyc/`, `screening/`) | the customer's row, hits | create, set level and status, sync a review, check a name | HTTP routes, the transfer route | a sync that writes what it read before | a recorded rejection takes the tier |
| Settings, push | single rows | reads and writes | HTTP routes | little | none of their own |
| HTTP API (`api/`) | none | routes, timers, boot | all services | error after partial effect | the services' properties |

`PROJECT.json` lists every component with its sources and every hazard with the
line where it bites.

## 2. Modules

| Module | What it is |
|---|---|
| `LedgerOperations` | accounts, postings, the builders and the structural check, as operators |
| `LedgerStore` | `post()` over the balance cache and the journal table; a library of steps for the modules that move money |
| `Ledger` | the ledger as a system: every operation with any argument and any key |
| `PgLedger` | `PgLedgerStore.post` statement by statement, over Postgres's snapshots and row locks; implements `LedgerStore` |
| `EscrowSale` | the abstract marketplace: a sale is listed, opened, and paid or called off, each in one step |
| `P2P` | the marketplace's handlers, await by await, over `LedgerStore`, with failures; implements `EscrowSale` |
| `Payouts` | `PayoutService` over the ledger and a mobile-money provider |
| `Remittance` | the abstract transfer: charged, booked, and then settled or refunded, each at most once |
| `TransferSaga` | `TransferService` over `Payouts`, with retried requests, failures, restarts and the boot recovery; implements `Remittance` |
| `ServiceCalls` | handlers in flight, their environment and the outcomes of an await, for the wallet services |
| `HeldFunds` | the abstract withdrawal: held, and then paid out or given back |
| `Withdrawals`, `Cashouts`, `Airtime`, `Deposits`, `Referrals` | one service each, over `ServiceCalls` and `LedgerStore`; `Withdrawals` implements `HeldFunds` |
| `WalletServices` | the five on one ledger in one process, with restarts and the fairness |
| `AuthServer` | `AuthService` over its store, await by await |
| `AuthClients` | the auth store and the API client of the apps, native and web, against `AuthServer` |
| `Money` | minor units, rounding, conversion, basis points, as operators |
| `Pricing` | quotes, transfer prices and provider fees, as operators over `Money` |
| `Customers` | the customer's row, identity checks, caps and name screening |
| `SendMoney` | the send screen, its queries and the transfer route, over `Pricing` and `Customers` |
| `MC...` | small instances for TLC, one per composed module |
| `LedgerStoreProofs` | lemmas on finite sums, on the builders and on `post()`, used by the modules with proofs |
| `LedgerProofs`, `PgLedgerProofs`, `P2PProofs`, `TransferSagaProofs`, `WalletServicesProofs`, `AuthProofs`, `SendMoneyProofs` | theorems about `Ledger`, `PgLedger`, `P2P`, `TransferSaga`, `WalletServices`, about `AuthClients` with `AuthServer`, and about `SendMoney` with its pricing |

`LedgerStore` has no `Next`: a service module extends it, adds its own tables,
and uses `Post(key, postings)` (the call resolves) and `Refuse(key, postings)`
(it throws) inside its actions. That is how the marketplace, the payouts and the wallet
services are composed with the ledger. `Payouts` has no `Next` either: the saga calls
`submit` and `sync` inside a run, so its `Next` belongs to `TransferSaga`, which
composes the two services and the provider.

### LedgerOperations, LedgerStore, Ledger

State: `balance` is the cache that `post()` bumps (`balances` in
`in-memory-store.ts`, `accounts.balance` in SQL), `journal` the table by
idempotency key. An account is the record of its owner, kind and currency, which
is what the code's account key encodes. A posting keeps its side and magnitude;
the signed amount is derived, because the builders refuse non-positive
magnitudes while the balance check works on signed amounts, and those are two
different guards.

Each action of `Ledger` is one method of `LedgerService` with arguments from
small sets and any key, used or not: a replay returns the stored journal, a
refusal changes nothing (and is a stuttering step). A reversal of a transfer is
two posts, as in the code. `FeeInRange` is the check the service makes before it
builds a settlement or a release.

The in-memory store is the model of both stores: its own comment calls it the
executable specification of the SQL adapter. That the SQL transaction implements
it is shown by `PgLedger`.

### PgLedger

State: `cache` and `journals` are what is committed; `holder` and `inserted` say whose
open transaction wrote an account's row or a key; `posts` are the calls in flight, each
with its attempt, the snapshot it reads (`seen`) and which of it others have since
committed over (`stale`, `staleKey`).

| Code | Actions |
|---|---|
| `post`: the loop | `Begin`, `Answered`; `Aborts` is a failure that is run again, `Throws` one that is not |
| `postOnce`: connect, `BEGIN`, lookup | `FindByIdempotencyKey` |
| `ensureAccount`, per posting | `EnsureAccount` |
| `lockBalance`, the overdraft guard | `LockBalances` |
| header insert | `InsertHeader` |
| postings, balances, `COMMIT` | `CommitJournal`, `CommitFails` |
| Postgres's deadlock detector; a restart | `DeadlockDetected`, `Crash` |

Postgres is modelled by what the code relies on, and marked external: a serializable
transaction reads the snapshot of its first statement, a write takes the row's lock
until the end, and a write to a row changed since the snapshot fails with 40001. The
upsert of `ensureAccount` writes the row although it changes nothing, which is what
serializes posts; the ordered locks of `lockBalance` then find the rows already taken.

### P2P

State: `offers` and `orders` are the two tables, `commissionBps` the setting,
`calls` the handlers in flight (a record with a `pc` for the next await and the
values already read), `sweep` the rest of the list the expiry sweep is working
through. Store methods and ledger posts are single atomic steps, because each is
one SQL statement, one transaction with `FOR UPDATE`, or one synchronous block in
memory. Two slots in `calls` mean any two handlers interleaving at every await.

| Code | Actions |
|---|---|
| `createOffer` | `CreateOfferLock`, `CreateOfferInsert`, `CreateOfferCompensate` |
| `closeOffer` | `CloseOffer` (read), `CloseOfferCheck`, `CloseOfferFlip`, `CloseOfferUnlock` |
| `openOrder` | `OpenOrder` (reads), `OpenOrderInsert` |
| `submitPayment`, `disputeOrder` | `SubmitPayment`, `DisputeOrder` (their effect is one compare-and-set) |
| `releaseOrder`, `adminRelease`, `doRelease` | `ReleaseOrder`, `AdminRelease` (reads), `ReleaseClaim`, `ReleasePost`, `ReleaseRevert` |
| `cancelOrder`, `adminCancel` | `CancelOrder`, `AdminCancel` (reads), `CancelCommit` |
| `expireUnpaidOrders` | `SweepList`, `SweepCancel` |
| `setCommissionBps` | `SetCommissionBps` |

`PayWindowEnds` is the clock: an order's window ends at any moment. `Faults` says
what may go wrong in a run: a store or ledger call rejects without effect, rejects
although it took effect (the connection breaks while a COMMIT is acknowledged),
or the process restarts. What a handler does with a rejection is the code's:
inside a `try` it has a disjunct of its own, outside the handler ends
(`CallFails`).

`EscrowSale` is what a user relies on. The refinement mapping (`Sale` in `P2P`)
reads a sale as paid as soon as the release journal exists, as called off once
its row is cancelled, and as open otherwise, whatever the status column says in
between.

### Payouts, TransferSaga, Remittance

State: `transfers` and `payouts` are the two tables by correlation id, `payments` the
provider's own records (which the code only sees through `sendPayout` and
`getStatus`), `calls` the handlers in flight, `auto` the rails whose
auto-disbursement setting is on, `serving` and `recovery` the boot sequence. A
handler with `saga = TRUE` is a run of the saga that has called into the payout
service: when that call returns or throws, the run goes on, because the code
catches it.

| Code | Actions |
|---|---|
| `TransferService.initiate` | `Initiate` (prices, stores the intent, starts a run) |
| `TransferService.run` | `Load`, `Debit`, `MarkDebited`, `Fx`, `MarkBooked`, `CreatePayout`, `AutoDisburse`, `MarkCompleted` |
| `TransferService.recover`, the boot of `api/server.ts` | `Crash`, `Recover`, `Listen` |
| `PayoutService.submit` | `Submit` (read), `Send`, `MarkSubmitted`, `NoteError` |
| `PayoutService.sync`, `settle`, `reverse` | `Sync` (read), `Poll`, `Settle`, `MarkSettled`, `ReverseFx`, `ReverseDebit`, `MarkReversed` |
| `releaseManually`, `failManually` | `ReleaseManually`, `NoteRef`, `FailManually` (reads), then as above |
| the payout routes | `AdminSubmit`, `AdminSync`, `SetAuto` |
| MonCash's own decision | `ProviderDecides` |

Updates of a status are unconditional in the code, and so are they here: `Marks` and
`RunMarks` overwrite whatever another handler wrote. `Provider` chooses the adapter.
Natcash is asked under a request id derived from the correlation id, remembers it and
pays at once, and answers a repeated request with that payment or an error; its
`getStatus` says success. MonCash takes every request as a payment of its own and decides
later. Attempt counters and error texts are left out: nothing
reads them. Pricing is an input (`Quotes`): the live rate may move between two
requests for one transfer.

In `Remittance` there are no statuses, no handlers and no failures. The mapping reads
the stage of a transfer from the ledger (is the debit, the fx, the settlement, the
reversal posted), so it shows that the journals of all the handlers together are
those of one transfer.

### Withdrawals, Cashouts, Airtime, Deposits, Referrals, WalletServices

State: `calls` are the handlers in flight and `env`, fixed at the start of a behaviour,
says which services get requests and what may go wrong; each service adds its tables.
An await has three outcomes (`AwaitsPost`, `AwaitsWrite`): it resolves, it rejects
without effect, or, with `lost_ack`, it rejects although it took effect.

| Code | Actions |
|---|---|
| `WithdrawalService.request` | `RequestWithdrawal` (the hold), `CreateWithdrawal`, `CompensateWithdrawal` |
| `complete`, `reject` | `ResolveWithdrawal` (the read), `ClaimWithdrawal`, `PostResolution`, `RevertWithdrawal` |
| `CashoutService.request`, `reject`, `cancel` | `RequestCashout`, `RejectCashout`, `CancelCashout`; the deadline passes in `CashoutExpires` |
| `approve` | `ApproveCashout`, `ExpireCashout`, `ClaimCashout`, `DebitCashout`, `RevertCashout` |
| `AirtimeService.topup`, the margin route | `Topup`, `DebitTopup`, `SendTopup`, `ReverseTopup`; `SetMargin` |
| the deposit and charge routes | `OpenDeposit`, `RecordIntent` |
| the webhooks of Lytex and NOWPayments | `Deliver` (`seen`), `HookIntent`, `HookFund`, `HookMarkPaid`, `HookRecord` |
| the customer's payment, the provider's report | `Pay` (external) |
| `ReferralService.codeFor` | `CodeFor`, `CreateCode`, `ReadCodeAgain` |
| `record`, called by the sign-up | `SignUp`, `RecordReferral` |
| `onReferredUserTransacted`, `setBonus` | `Transacted`, `ReadBonus`, `ReadBonusAgain`, `PayReward`, `MarkRewarded`; `SetBonusMinor`, `SetBonusCurrency` |
| a restart | `Crash` of `WalletServices` |

A top-up is named by its client's idempotency key, so a retry is the same top-up again.
What a provider reports about a USDT payment is a decimal, and `CreditMinor` credits its
net or gross amount by the arithmetic of `Money`. `HeldFunds` reads a withdrawal from the
ledger only: which of hold, settlement and refund is posted.

### AuthServer, AuthClients

State of the server: `users`, `otps`, `sessions` and the handlers. A refresh token is its
session and the number of rotations before it, because the store keeps one hash per
session. State of the clients: `apps` (the auth store), `acts` (its running methods),
`stored` (secure storage, or the one cookie jar of all tabs), `dead` (access tokens that
expired) and `requests`.

| Code | Actions |
|---|---|
| `registerCustomer` | `Register`, `CreateParty`, `CreateUser` |
| `requestOtp`, `requestPasswordReset`, `issueOtp` | `RequestOtp`, `CountOtps`, `SaveOtp`, `SendOtp` |
| `verifyOtp`, `resetPassword` | `EnterCode`, `ConsumeOtp`, `SetPassword`, `MarkPhoneVerified`, `CreateSession` |
| `loginWithPassword` | `LoginWithPassword`, `CreateSession` |
| `refresh` | `Refresh` (the lookup), `RefreshUser`, `RevokeSession`, `RotateSession` |
| `logout`, the admin's block, clocks | `Logout`, `Block`, `SessionExpires`, `HourPasses`, `AccessExpires` |
| `bootstrap`, `loginPassword`, `verify` of the auth store | `Bootstrap`, `Login`, `ReceiveTokens`, `StoreToken`, `ApplyTokens`, `ReceiveFailure` |
| `runRefresh`, `request` of the API client | `SendRequest`, `VerifyAccess`, `ReceiveAnswer`, `RunRefresh` |
| `signOut` | `SignOut`, `LoggedOut`, `RemoveToken`, `ClearState` |
| the app is closed and opened | `Relaunch` (external) |

### Money, Pricing, Customers, SendMoney

`Money` and `Pricing` are operators. A decimal string is the pair of its digits and its
scale, so conversions are exact as BigInt is, and rounding happens where the code rounds.
`SendMoney` has the form with the debounced inputs (`settled`), the cached queries
(`quotes`, `lookups`), the remembered key (`idem`), the presses, and the transfers they
booked. A rate row is known by its corridor and the count of its changes (`asOf`).

| Code | Actions |
|---|---|
| the inputs, the NatCash name lookup | `Edit`, `Autofill`, `SettleAmount`, `SettleRecipient`, `Lookup` |
| the quote query, leaving and sending again | `FetchQuote`, `Reopen`, `Reset` |
| the button, an answer that does not come | `Press`, `LoseAnswer` |
| `POST /app/transfers` | `RequireCustomer`, `AssertClear`, `AssertWithinLimit` |
| `TransferService.initiate` | `Price`, `CreateTransfer`, `RunTransfer`; the saga is one step here |
| restart and recovery; the rate route | `Restart`, `Recover`; `SetRate` |
| `KycService.sync` | `SyncStarts`, `SyncReadsCustomer`, `SyncPersists`; `Review` is the provider |
| the admin's routes | `SetCustomerKyc`, `SetCustomerStatus` |

## 3. Runs

| Run | Question | Instance |
|---|---|---|
| `ledger` | Can any sequence of operations overdraw a user, open the books, or make a retry move money? | one customer, one agent, two currencies, three keys |
| `pg_ledger` | Do concurrent SQL transactions change the tables as the in-memory store does, answer the truth, and end? | three journals over the same two rows in opposite orders, three posts at once, two connections, two attempts, lost acknowledgements, restarts |
| `p2p_safety` | Are sales atomic and final, and does the escrow cover what is listed and reserved, when calls are refused or fail and the process restarts? | one offer, two orders, two handlers, one restart |
| `p2p_lost_ack` | When acknowledgements are lost, what may a seller's escrow lack, and is a buyer still paid what was quoted? | one offer, one order, two handlers, both commissions, one restart |
| `p2p_liveness` | Do late orders expire and claimed orders get paid? | one offer, one order, two handlers, no faults |
| `transfer_safety` | Do retries, administrators and the saga's own calls on one transfer add up to one transfer, with the amounts locked first? | one transfer, two handlers, two rates, Natcash, manual operations, every fault but a restart |
| `transfer_auto` | Does money leave `payout_suspense` on the provider's word only, once per payout, is a payment whose answer is recorded the last one, and does the fee report agree with the ledger? | two transfers of one sender, one handler, MonCash, every fault, one restart, no manual operations |
| `transfer_liveness` | Does a transfer whose wallet was charged complete? | one transfer, two handlers, MonCash, one restart, lost provider answers |
| `wallet_services` | Does every record of a withdrawal, cash-out, top-up, deposit or referral agree with the journals behind it, and is a payment credited in the end? | twelve environments: each service alone against its faults, and next to one that shares its wallet or changes its settings; two handlers |
| `auth_sessions` | Do codes, tokens and requests take effect once, does a revoked session stay revoked, and does an undisturbed app stay signed in? | thirteen environments: server only, one and two native devices, one and two browser tabs, with sign-outs, blocks, expiry and lost messages |
| `send_money` | Is nothing sent twice by a press after a lost answer, do shown, booked and paid amounts agree, and what brings the tier of a rejected customer back? | ten environments: three presses on two visits, both rails, amounts at a boundary, two corridors, rate changes, blocks, concurrent syncs |

Bounds. The ledger's properties relate a stored journal to a replay and to the
balances, so three keys give two journals and a third post that replays or
fails; amounts include zero and a negative one, since those are what the magnitude
check is for, and two currencies let a transfer cross. In `pg_ledger` three posts are
the least for a deadlock beside a third transaction that commits, two connections are
the least on which two wait for each other while the third has none, and two attempts
let a post be run again and give up. In the marketplace an offer of
six with orders of three lets two orders compete for it and lets one order take all of
it; two handlers are enough for every race the code has between two requests, and
the sweep and the payment report are actions of their own, so a third actor is always
there. Commission rates are the lowest and the highest the admin may set. Two
sellers are not needed: every row and account is keyed by one seller.
In the transfer runs the sender has what one transfer costs, so a second transfer is
refused, stays pending and is tried again by a recovery; the amounts (4 sent, fee 1, 2 or 3
received, rail fee 1) are small and pairwise different, so that a mixed-up leg shows.
Two handlers on one transfer are every race between two requests. Two payments per
transfer (`MaxSends`) are the least on which paying twice shows. A restart with two
handlers, each alone or together, is covered by `transfer_liveness` and, for the safety
properties, by the proofs; in `transfer_safety` a handler dies alone, through a failed or
unacknowledged call at any await.

The wallet services share nothing but their customers' accounts, so each is checked
alone with the faults that matter to it, and in pairs where one changes what the other
reads (`margin_change`, `bonus_change`) or spends what it needs (a cash-out beside a
top-up of the same wallet). Two withdrawals fit into the wallet and a third amount does
not; the smallest allowed is worth its fee and one unit. The reported outcomes of a USDT
payment are none, a gross without a net, a net below a millionth, and one with a decimal
too many. Two referral codes over two owners make a draw collide. One phone and two
parties are a double sign-up; three codes with a limit of one let concurrent requests
exceed it; two sessions of two devices, each rotated up to three times (`MaxRotations`),
let a refresh race with another and with a sign-out. In `send_money` three presses
(`MaxPresses`) are the least in which another press lies between two of the same content,
and two visits (`MaxVisits`) the least for a key that outlives or loses its screen. The
amounts are one above and one below the lowest cap, one too small to pay a gourde, and
one with a decimal too many; the HTG corridor is the one the code treats as configured by
itself. `MaxReviews` changes of the provider's mind meet two concurrent syncs.
`MaxCrashes` bounds the restarts and `MaxRateChanges` the changes of one rate row;
everything else is finite by itself, since ids are used once. The runs disable the
deadlock check, except `pg_ledger`, because the system really may stop: when ids, presses
and balances are used up there is nothing to do.

Symmetry is declared on ids and handler slots, which nothing orders, and only in
runs without liveness properties.

Several properties are conjunctions of claims about one hazard; the parts are named and
commented in the modules. `Reconciles` is `ClosedBooks` (every currency nets to zero) and
`CacheMatchesPostings`; `EscrowCoversReservations` includes that reservations add up;
`OrdersEnd` is that late unpaid orders expire and released ones are paid;
`ResolvedOnceOnItsWord` is that a payout is settled or reversed, never both, and as the
provider said; `PlatformAccountsAddUp` is that `payout_suspense` is what is owed and that
the fee report agrees with the ledger. The type invariants of `Ledger`, `PgLedger`, `P2P`
and `TransferSaga` are proved (section 4) and not repeated by a run.

### What the code does not do

`p2p_paid_cancelled` checks what a comment of the code says and ends in a
counterexample: "once the buyer has reported payment, NOBODY can unilaterally cancel". A
cancel, or the sweep, that read the order before the report commits after it, because the
store's cancel accepts a paid order.

The passing runs have limits, which their instances and premises state. The behaviour
outside them was met while modelling and is described here rather than checked:

- Marketplace. `closeOffer` checks for open orders before it flips the status; an order
  opened in between and cancelled later gives its amount back to a closed offer, and
  nobody unlocks it. A second release that read `released` reverts its claim to
  `released`, so a failed post can leave an order that reads released and is not paid.
  `EscrowCoversReservations` and `ReleaseIsFinal` are for faults without lost
  acknowledgements. With one, `createOffer` compensates an insert that took effect
  (`p2p-service.ts:110`): buyers see an offer whose escrow went back to the seller. And
  `doRelease` reverts the claim of a post that took effect: the order can be cancelled
  and its amount listed again although the buyer was paid. `EscrowLacksOnlyReturns`, which
  holds under every fault, says that an escrow lacks these two amounts and nothing else
  (`ReturnedTwice`, `PaidAndReturned`).
- Payouts. A manual release and a manual fail that both read the payout first post both
  journals; `ResolvedOnceOnItsWord` is for payouts that no operator resolves by hand and
  that one handler works on at a time. The header of `payout-service.ts` (line 14) speaks of a
  boot-time sweep that calls `submit` and `sync` for payouts left `submitted`; the boot
  recovers transfers only, and such a payout waits for an administrator.
  The header also says that "re-running submit/sync after a crash or duplicate webhook
  never double-pays" (lines 13-14). MonCash's payment request carries no reference, so
  after a lost answer, a restart or a failed update between its answer and the row, or
  when two submits both read `created`, the payout is `created` and MonCash pays again.
  What the row's status does prevent is `RecordedPaymentIsTheLast`: no payment after the
  one whose answer is recorded. What Natcash does with a request id it has seen is not in
  the code: the model lets it answer with the payment it has, or refuse.
  The fee report agrees with the ledger once every posted settlement is marked: between
  the post and the update, and for ever if the update fails, the ledger is ahead.
- Withdrawals and cash-outs. Both revert their claim when a post rejects, so a post that
  took effect without being acknowledged leads to a withdrawal settled and refunded, or a
  request paid and rejected; the properties have `AcksReliably` as a premise. A restart
  between a hold and its row strands the hold, and one between claim and post leaves a
  record that is resolved without money; `HoldIsNeverStranded` and
  `ApprovedIsDebitedOrHeld` say under which faults they hold.
- Airtime. A retry after a refund replays the debit, which has been undone, and sends
  again; only the provider's own deduplication is against it. With a margin changed
  between charge and refund the refund is of the new price.
- Referrals. The bonus is two settings; a transaction between their updates pays the new
  amount in the old currency.
- Sessions. `resetPassword` does not revoke the account's other sessions. A rotation whose
  answer is lost signs the app out. Two browser tabs share the cookie, and both refresh
  with it when they start: one may be signed out. A sign-out that passes a refresh under
  way may leave the session alive under its next token.
- Sending. The key that `SendScreen` remembers is for one content and one visit: an autofilled
  name, a remount or a press of other inputs in between gives a repeated send a key of its
  own, which is why `RetrySendsOnce` has these as exceptions.
- Identity checks. The header of `kyc-service.ts` says that a failed check "must DROP any
  previously-granted tier" (lines 7-8). `sync` writes what it read two awaits ago: one that
  was told `review` or `pending` and read the row before a rejection was recorded writes
  the old level and its own status over it, and one that was told `approved` before the
  provider changed its mind grants the tier again. `RejectionDropsTheTier` says that
  nothing else brings a tier back.
- Referral bonus. The comment "Set amount to 0 to pause" (`routes.ts:565`)
  meets a money parser that refuses zero.

### Fairness

`FairSpec` assumes that a handler whose next await can complete eventually
completes it, and that the sweep runs and works through its list. The first is
what Node and the pool give a process that stays up (the liveness run has no
faults); the second is the `setInterval` of `api/server.ts`, which fires every
minute and catches its errors. Nothing is assumed about users or the admin: no
fairness on payments, disputes, releases or cancels.

`FairSpec` of `TransferSaga` assumes the same of handlers (a restart may still take
them), that a restarted server works through its recovery and then listens
(`api/server.ts` awaits the one before the other), and that the provider decides
about a payment it has taken. Nothing is assumed about clients, administrators or
what a status request answers. `ChargedCompletes` needs the recovery only when a
restart cuts a run off.

`WalletServices` has one liveness property, of deposits, and assumes only what it needs:
weak fairness of each handler that is crediting a deposit, and strong fairness of the
redelivery of a settlement. A webhook that was not acknowledged is sent again, as both
providers document and `routes.ts` relies on, and one of its deliveries finds a handler
free. `AuthClients` assumes that the server's handlers go on, that a client method that
can continue eventually does, and that a request is answered or its connection fails:
`ReceiveAnswer` is strongly fair because a free place among the server's calls comes
back again and again. `PgLedger` has strong fairness per post, because a free
connection goes to each waiting post in turn (`pg`'s pool is a queue) and a row lock to
each waiting transaction. No user, admin or customer is assumed to do anything.

## 4. Proofs

A specification's constants are sets of any size and its environment any the assumptions
allow, so a theorem is about every number of handlers, rows, amounts, faults and restarts;
the runs are small instances of the same statements. A theorem that needs a condition
states it as a hypothesis.

### The ledger

`LedgerStoreProofs` shows, for every amount, that each builder returns a sequence of
postings, that each journal is balanced in every currency and that a reversal cancels what
it reverses. It also has the facts about one `post()`: it keeps the types, it keeps
users' accounts non-negative, and it only appends. `LedgerProofs` then needs only that
every action is a `post()` of such a journal (`NextPosts`):

- `TypeCorrect`, `NeverOverdrawn`, `JournalIsAppendOnly`: for every set of
  customers, agents, currencies and keys, and for arguments that are any integers.
- `InflowsOnlyCredit`: a deposit, a top-up or a reward lowers no wallet. The structural
  check refuses a negative posting, and the direction of each builder does the rest.
- `BooksReconcile` (`Reconciles`): the books are closed in every currency and each cached
  balance is the sum of its account's postings, as `reconcile()` recomputes it.

`Reconciles` and two properties below add up rows. Induction theorems whose parameter is a
property cannot be used by the provers, but one whose parameter is a set can: to show a
property of every subset of a finite set, let `G` be the set of the subsets that have it
(`FiniteInduction`). From it follow that the recursion of a sum has one solution
(`SumExists`, `SumUnique`) and what a step needs: a sum changes by what its one changed
summand changes by, and a sum of no less is no less. The invariant of `BooksReconcile` is
then the property itself: a post adds one journal to the sum of each account, and each of
its two sides to the sum of all accounts of its currency.

`PgLedgerProofs` proves, for every set of journals, posts, connections and attempts, and
every fault:

- `TransactionsImplementPost`: the tables change by whole posts only, each accepted by the
  balances and keys of its commit (`StoreSpec`), so what is proved over `LedgerStore` holds
  of the SQL store. `NeverOverdrawn` and `TypeCorrect` come with it.
- `AnswersHold`: a post reported as stored is stored, and a refusal is due to the balances
  committed at that moment (`AnswersAreTrue`).

`IInv` is about each open transaction (`Sound`): it holds the rows it has ensured and none of
them is stale (`HoldsItsRows`), what is not stale in its snapshot is what is committed
(`SeesTheStore`), past the guard the snapshot bears the journal (`HasTheFunds`), and at
COMMIT its header is its own (`OwnsItsKey`). A commit makes stale, for the others, only
rows its own transaction held, so nobody's held row becomes stale; that is the one
interesting step (`CommitKeepsOthers`). It needs that a journal changes only the accounts
it has a posting on (`OnlyTouchedMove`) and that a nonzero change takes the guard.

### The marketplace

`P2PProofs` proves, for every set of offers, orders, handlers, amounts and rates:

- `TypeCorrect`, under every fault. `TypeOK` is not
  inductive: a handler goes on with ids it read earlier, so `IInv` adds that those
  rows exist and that `createOffer` has posted the lock. Each action is shown to
  be made of four kinds of change (`Moves`: the ledger posts, rows grow, handlers
  move on, the rest), and such changes keep `IInv`.
- `QuotesArePaid` (`ReleasePaysQuote`), under every fault. `QuoteInv` says that
  the journal under a release key is the one the order's row asks for, and that an order
  about to be inserted is new; rows keep their terms (`TermsStay`), so a commission that
  changes in between changes no release.
- `ReleasesAreFinal`, for faults without lost acknowledgements. `ReleaseInv` adds
  to the property that a handler past its claim holds an order that is released and
  not paid, that no two handlers hold the same order, that a claim starts only
  from a paid or disputed order, and that an order about to be inserted is new.
  Most actions are `Quiet` (they keep released orders and post no release); the
  four that insert, claim, pay and revert are proved one by one. With lost
  acknowledgements the property is false: a post that took effect is reverted.
- `MarketplaceImplementsSales`: under the same faults the handlers, the sweep and the
  restarts implement `EscrowSale`. `SaleInv` says what a cancelled order and an offer that
  is not listed mean to the handlers that saw them earlier; the abstract sale is paid out at
  the release's post and called off at the update that cancels the row, and every other
  step is a stutter.
- `EscrowLacksNothingElse` (`EscrowLacksOnlyReturns`), under every fault: a seller's escrow
  lacks of the listed offers and the unpaid orders what was given back twice, and nothing
  more. The rows do not tell what the escrow holds while a handler carries an amount (a new
  offer between its lock and its row, a closed one between its row and its unlock), nor
  after a restart or a lost acknowledgement; the journals do. So `EscrowInv` counts per
  offer what is locked or unsold less what was given back (`Held`), and per order what is
  reserved less what was paid (`Due`), and says that the escrow holds the sum (`Backed`),
  how much can have been given back of an offer (`BooksTrue`), and what each handler in
  flight relies on to give back more or to revert a claim (`HandlersTrue`). Each step moves
  an amount between two summands, or between the escrow and one summand.
- `EscrowIsCovered` (`EscrowCoversReservations`), for faults without lost
  acknowledgements, follows: nothing is given back twice then, and by `ReleasesAreFinal` an
  order that is not paid is one that is reserved.

### Transfers and payouts

`TransferSagaProofs` proves, for every set of transfers, handlers, quotes, rails and
fees, either provider, any faults and any operator:

- `TypeCorrect`; `StatusesAreBacked` (no status runs ahead of the ledger);
  `PaymentsAreFunded` (the provider is asked only for what was debited and booked);
  `SettlementsAreAsLocked` (a settlement uses the first request's quote and the fee
  locked on the payout).
- `SagaImplementsRemittance`: `Spec` implies `Remittance`'s specification, so each
  transfer is charged, booked, settled and refunded at most once, in this order, by the
  amounts of its first request, whatever runs concurrently, fails or restarts.

The inductive invariant `IInv` is needed because a handler acts on what it read
several awaits ago. It adds that every stored journal is the one its row would build
(`JournalsAreBuilt`: rows keep their quote, so a replay under the same key cannot
differ), that a payout row exists only for a booked transfer with the same sender and
quote (`PayoutsAreBooked`), that a payment exists only for a payout row
(`PaymentsAreOfPayouts`), and what each `pc` rests on (`CallsAreBacked`: the posts
that must have happened before a handler can be there). Every action is shown to be
made of a few kinds of change (`Moves`), and such changes keep `IInv`. The refinement
then needs one step per post: the lemmas of `LedgerStoreProofs` on what a journal
adds to an account say that a wallet moves exactly on the debit and on its reversal, and
`StoreNonNegative` gives the abstract guard that the wallet holds the charge.

What the provider has said is proved for the cases in which the code can keep it:

- `ResolutionsFollowTheProvider`: if the rail answers status requests (Natcash has none) and
  no operator resolves by hand (`ProviderIsAsked`), money leaves `payout_suspense` for good
  only after the provider paid, and returns to the sender only after it failed a payment.
  `WordInv` adds the answer that a handler on its way to settle or reverse acts on.
- `PayoutsAreResolvedOnce`: if besides one handler at a time works on a transfer
  (`OneHandlerEach`), no payout is both settled and reversed (`ResolvedOnceOnItsWord`).
  `OneInv` adds that the answer was about the payment there is. Nothing in the code
  serialises two handlers of one payout, so this is a hypothesis and not a fact; section 3
  says what happens without it.
- `RecordedPaymentsAreLast` (`RecordedPaymentIsTheLast`): under the same two conditions the
  provider is not asked again once its answer is recorded, and the payout is resolved on
  that payment. `LastInv` says that payments are numbered without a gap, that a created row
  refers to none and any other row to the last one, and that a handler about to record an
  answer has the last one in hand.

What the platform's own accounts hold is a sum over transfers:

- `ReportsAreConsistent`: the report of `reconciliation.ts` finds the ledger's provider
  fees equal to the fees locked on the settled payouts, under every fault, once the payouts
  whose settlement is posted are marked. It needs no condition.
- `PlatformAccountsBalance` (`PlatformAccountsAddUp`): besides, `payout_suspense` is what
  is booked and neither paid out nor given back, under the two conditions of
  `PayoutsAreResolvedOnce`, since a payout that is both settled and reversed is taken from
  the suspense twice.

`SumsInv` reads both balances off the journals: each transfer's fx, settlement and reversal
contribute to them once, by amounts that its row fixes (`Booked`, `Accrued`). It holds
without conditions; they are needed only to read the sum as what is owed.

### The wallet services

`WalletServicesProofs` is about the five services side by side on one ledger, for every
environment. A step of a service moves its own handlers and posts under its own keys
(`Owned`), so each service's invariant is proved for its own steps once, and a step of
another service leaves it alone (`Untouched`); a restart is a step of its own.

- `TypeCorrect`, `NobodyOverdrawn`.
- `CashoutsAreDebited`, `TopupsArePaid`, `DepositsAreCredited`, `PanelsAreTrueAlways`,
  `WithdrawalsMatchTheBooks`: the record of a cash-out, top-up, deposit, referral or
  withdrawal agrees with the journals behind it, in every state of every handler. Each has
  an invariant that says what a `pc` rests on, in the way of `CallsAreBacked`: an approval
  that is to be debited is claimed by one handler, airtime on its way to the operator was
  debited, the credit of a deposit is of the net that was received for it.
- `WithdrawalsHoldFunds`: `Withdrawals` implements `HeldFunds`, which is about
  environments with reliable acknowledgements: each step holds, pays out or gives back one
  amount once, and no withdrawal is paid and refunded. The hold is the debit's post, which
  comes before the row; the abstract withdrawal is therefore read off the journals, and the
  invariant ties rows and handlers to them.

### Sessions

`AuthProofs` is about the apps and the server together, for any number of handlers,
devices, requests, codes and sessions:

- `TypeCorrect`.
- `EverythingHappensOnce` (`NothingHappensTwice`): a refresh token is exchanged once, a code
  opens one session or allows one new password, a request runs once, although apps retry
  after a refresh and answers are lost.
- `SettledIsFinal` (`SettledForGood`): a revoked session stays revoked and keeps its token,
  whatever rotation read it earlier; an account keeps its party.
- `LimitIsKept` (`LimitExceededByConcurrentOnly`): the hourly limit on codes is exceeded by
  no more than the handlers that counted together.
- `SignOutEndsTheSession` (`SignOutRevokes`): without faults, a logout's answer means that
  its session is revoked or has moved on to its next token.
- `UndisturbedAppsStay` (`UndisturbedStaysSignedIn`): without faults, sign-outs, blocks and
  expiry, and with one tab on the web, an app that has logged in stays signed in and holds
  its session's current token, however its requests and their refreshes overlap.

A handler and an app go on from what they read before an await. `IInv` says what that is
still worth: the accounts and tokens they hold were issued (`CallsHoldIssued`,
`AppsHoldIssued`), an activity of an app is answered by one handler, which owes it tokens
or a failure, or the end of the session it leaves (`CallsAwaited`), and a request that
waits to be sent again has not run (`RequestsRunOnce`). Every handler's step is first put
down to what it may do to the tables (`ServerMoves`: open, end or rotate one session,
create or change one account, save, use up or age codes, move one handler), and the
theorems rest on these effects: that a token spent is behind its session's present one
(`TokensSpent`), that a code used up stays so (`CodesSpent`), and that a session someone
has left is not the one its app goes on with (`LeftIsGone`). The limit is a counting
argument: the codes of the hour and the handlers about to insert one are finite sets, and
a handler that passes its check with `n` codes counts them all.

Staying signed in is different: it holds by what nobody else does, so its invariant
(`Calm`) follows each app through every handler. An app is `Outside`, `Enters` or is
`Inside` its one live session; whatever brings it tokens brings the session's last one,
which is stored before it is applied (`Brings`); one handler at most works for it, and
either exchanges that token or logs in (`CallIsCalm`); requests belong to apps that are in.
A step moves one app and the handler that works for it, and leaves the others alone
(`OneAppMoves`).

### Sending money

`SendMoneyProofs` is about the send screen, its queries and the transfer route, for every
registry of recipients, table of rates, set of amounts, fault and bound:

- `TypeCorrect`: among the rest, keys are minted in order and without a gap, and a row of
  transfers belongs to the press whose key it has.
- `RetriesAreSafe` (`SendsAreAsAsked`): two transfers of one content are from two visits or
  have a press with other inputs between them, and what is booked under a key is what every
  press with that key asked for. `PressInv` says what the ref of the screen stands for (the
  last press, in this visit), that a key has one content, and states the property of all
  presses, booked or not.
- `RejectionTakesTheTier` (`RejectionDropsTheTier`), for any number of concurrent checks: a
  row that says rejected has the lowest tier and passes no send above its cap
  (`RejectedIsLowest`: a sync writes the level and the status of one review together), and
  the tier comes back by an approval, an admin, or a sync under review that another one has
  overtaken. `TierComesBackOnApproval`: with one sync at a time (`OneSync`) nobody is
  overtaken, because the row a sync has read is the row there is (`ReadsAreCurrent`).
- `AnswersAreTheBooking`: every answer reports the transfer as it is booked. `BookInv`
  ties a request past its insert to the row of its key, and rows keep their quote.
- `SentAsShown`: what is charged, paid out and kept is what was shown, unless the corridor
  was set in between. Three pricings at three moments agree because their timestamps do:
  `PriceInv` says that one history of quotes, by timestamp, explains every price in the
  cache, in a request, in a row and in a payout, and that an upsert opens a new timestamp.
- `AmountsAreRight` (`AmountsAgree`): both, and no rounding mints money. `RoundInv` says
  that every pricing shown pays out no more than it costs and every booking pays whole
  gourdes. Its base is arithmetic, for every amount, decimal rate, margin and fee in basis
  points: half-up rounding is the nearest integer (`RoundsHalfUp`) and keeps the order of
  fractions (`RoundingKeepsOrder`); a fee is at most its amount (`FeeIsAPart`); dropping
  the trailing zeros of a rate does not change its value (`RendersExactly`); so the
  customer's rate converts to no more than the mid rate does (`MarginCosts`).

The powers of ten are a recursive function. That the recursion has exactly one solution
(`PowerExists`, `PowerUnique`), and so that powers multiply (`PowersMultiply`), is induction
over the naturals in set form (`NaturalSteps`), as for sums.

### Assumptions

They are those named in the modules (`...Assumption`), and TLC evaluates them in the runs.
Amounts and rates are numbers; keys exist for all ids; quotes satisfy the checks of the
`transfers` table; the journals posted to Postgres are well formed and have at most four
postings, as every builder's has; the minor units that a provider's report parses to are
integers; "no referral code" is not a code. In `AuthServer` calls and codes are finite
sets, which a count of codes needs, there are a handler and a party at all, and devices are
finitely many (`Undisturbed` counts them) and none is called "none", the device of a session
without an app. The wallet services start on any balances with no user overdrawn and
nothing in `withdrawal_suspense`, the marketplace on any with no escrow overdrawn, and the
transfers on any with nothing booked in `payout_suspense` and `provider_fee`. The sets of
customers, agents, currencies, keys, offers, orders, handlers and transfers that are added
up are finite. The rows of `fx_rates` that a behaviour starts with, and those an admin
sets, are rows `setRate` accepts: a decimal mid rate, and margins and fees below 100%.

### What stays with TLC

- Liveness under fairness (`OrdersEnd`, `ChargedCompletes`, `PaidIsCredited`,
  `RequestsEnd`, `PostsEnd`), which is out of the prover's reach.
- `PaidIsNeverCancelledByAParty`, which the code violates.

Every other property of a run, invariant or action property, is stated by a theorem;
section 3 says of each hypothesis (no lost acknowledgement, one handler for each payout)
what goes wrong without it.

## 5. Not modelled, and why

- Prices in fiat, order limits, payment methods, proof images and messages of the
  marketplace; the payer's name and document; product catalogues: they make a request
  refused or are displayed.
- Identity checks (who may release or dispute) and the operator's API key: they refuse a
  request. The rate limiter delays one.
- Hashing, signing and the verification of webhook signatures: a token is a value nobody
  guesses, and an unsigned webhook touches nothing. Wire formats of the providers are
  modelled by what an adapter makes of them. The Twilio verifier replaces the stored codes
  by Twilio's own.
- Agents in the registry, and their logins provisioned by an admin: rows no protocol
  here reads.
- Push notifications: best-effort output that nothing reads.
- Listings and statistics; configuration, migrations as a program, demo and seed; the
  screens other than the send screen; strings and themes; the admin page.
- `POST /transactions/settle-payout` posts a settlement under a key of its caller; it is
  an operation of `Ledger` and is not composed with the payouts.
- Several server processes over one database: only the ledger store is modelled with
  transactions of others. A transfer that rounds to no payout unit is refused by the SQL
  schema (`receive_minor > 0`), as in `SendMoney`; the in-memory store does not refuse it.
- Failures inside the adapters' own judgement: MonCash's adapter reads success or failure
  off the wording of a message (`moncash-adapter.ts:103-107`), which `Reports` takes to be
  classified rightly. An error of SQL in the middle of a transaction that the loop does not run again
  is in `PgLedger` a failed connection or COMMIT (`Throws`), not an action at each statement.
  A `secureStorage` that cannot store or remove a token is left out of `AuthClients`.
- A service without a payout service wired into the saga: the server always wires it.

## 6. Plan

Every component with a protocol of its own is modelled and checked, and every safety and
action property of the runs that pass is proved. What could follow, the most consequential
first:

1. Two server processes over one database: the services' rows are claimed by conditional
   updates, so the handlers here already stand for handlers of any process, but a restart
   of one process, with the boot recovery of the transfers beside the live handlers of the
   other, is not modelled.
2. `POST /transactions/settle-payout` composed with the payouts it bypasses.
3. The Twilio verifier in place of the stored codes, and agents' logins.
