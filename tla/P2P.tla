-------------------------------- MODULE P2P --------------------------------
(***************************************************************************)
(* The P2P USDT marketplace: P2PService (p2p/p2p-service.ts) over the      *)
(* offer and order store (p2p/p2p-store.ts) and the ledger's escrow.       *)
(*                                                                         *)
(* Store methods and ledger posts are atomic; what interleaves is the      *)
(* awaits between them.  A handler in flight is a record in calls, with a  *)
(* pc for the next await and the values it has read so far.  A handler     *)
(* that throws without having changed anything is a stuttering step.       *)
(* Reads of what never changes (an order's buyer, an offer's merchant) are *)
(* merged into the step that uses them.  Fiat prices, limits, payment      *)
(* methods and proofs are left out: they only make a request refused.      *)
(***************************************************************************)
EXTENDS LedgerStore, FiniteSets, Functions

CONSTANTS
    Offers, Orders,     \* the ids randomUUID() hands out
    Calls,              \* slots for handlers in flight
    Asset,              \* the currency sold, cfg.asset
    Sizes,              \* amounts of offers and orders, in minor units
    CommissionRates,    \* commissions in basis points the admin may set
    InitialBalances,    \* balances the marketplace may start from
    Faults,             \* what may go wrong, see FaultKinds
    MaxCrashes          \* bound on the number of restarts

\* store_error:   a store method rejects and had no effect
\* ledger_error:  a ledger post rejects and had no effect
\* lost_ack:      either rejects although it took effect (the connection
\*                breaks while the COMMIT is acknowledged)
\* crash:         the process restarts; the stores survive
FaultKinds == {"store_error", "ledger_error", "lost_ack", "crash"}

LockKey(f) == <<"lock", f>>         \* p2p:lock:${id}
UnlockKey(f) == <<"unlock", f>>     \* p2p:unlock:${id}
ReleaseKey(o) == <<"release", o>>   \* p2p:release:${id}

ASSUME P2PAssumption ==
    /\ Asset \in Currencies
    /\ Sizes \subseteq Nat
    /\ CommissionRates \subseteq Nat
    /\ InitialBalances \subseteq [Accounts -> Int]
    /\ Faults \subseteq FaultKinds
    /\ MaxCrashes \in Nat
    /\ ({"lock", "unlock"} \X Offers) \cup ({"release"} \X Orders) \subseteq Keys

\* The rows and the handlers in flight can be counted, and the ledger keeps an
\* escrow account non-negative before the marketplace opens as well.
ASSUME EscrowAssumption ==
    /\ IsFiniteSet(Offers) /\ IsFiniteSet(Orders) /\ IsFiniteSet(Calls)
    /\ \A b \in InitialBalances, m \in Customers : b[p2pEscrow(m, Asset)] >= 0

VARIABLES
    offers,         \* p2p_offers: offer id -> row
    orders,         \* p2p_orders: order id -> row
    commissionBps,  \* the p2p_commission_bps setting
    calls,          \* handlers in flight
    sweep,          \* orders the expiry sweep has listed and not handled yet
    crashes         \* restarts so far

vars == <<balance, journal, offers, orders, commissionBps, calls, sweep, crashes>>
storeVars == <<offers, orders>>

-----------------------------------------------------------------------------
(* Rows *)

OrderStatus == {"created", "payment_submitted", "released", "cancelled", "disputed"}
\* Mutant of CANCELLABLE: a released order can still be cancelled.
CANCELLABLEorReleased == {"created", "payment_submitted", "disputed", "released"}

CANCELLABLE == {"created", "payment_submitted", "disputed"}
ACTIVE_ORDER == {"created", "payment_submitted", "disputed"}

NoOffer == [status |-> "none"]
NoOrder == [status |-> "none"]

Offer == [status : {"active", "closed"}, merchant : Customers,
          total : Nat, remaining : Nat]

\* late: timeout_at has passed while the order waits for its payment.
Order == [status : OrderStatus, offer : Offers, merchant : Customers,
          buyer : Customers, amount : Nat, commission : Int, late : BOOLEAN]

Existing(rows) == {id \in DOMAIN rows : rows[id].status # "none"}

\* roundHalfUpDiv(amount * bps, 10000), for the amounts and rates in use here.
applyBps(amount, bps) == (amount * bps + 5000) \div 10000

(* Handlers in flight *)

Idle == [op |-> "idle"]

CallState ==
    {Idle}
    \cup [op : {"createOffer"}, pc : {"insert", "compensate"}, offer : Offers,
          merchant : Customers, amount : Nat]
    \cup [op : {"closeOffer"}, pc : {"check", "flip", "unlock"}, offer : Offers,
          amount : Nat]
    \cup [op : {"openOrder"}, offer : Offers, order : Orders, buyer : Customers,
          amount : Nat, commission : Int]
    \cup [op : {"release"}, pc : {"claim", "post", "revert"}, order : Orders,
          from : SUBSET OrderStatus, seen : OrderStatus]
    \cup [op : {"cancel"}, by : {"party", "admin"}, order : Orders]

At(c, op, pc) == calls[c].op = op /\ calls[c].pc = pc
Starts(c, state) ==
    calls[c] = Idle /\ calls' = [calls EXCEPT ![c] = state]
GoesTo(c, pc) == calls' = [calls EXCEPT ![c].pc = pc]
Returns(c) == calls' = [calls EXCEPT ![c] = Idle]

Ackless == "lost_ack" \in Faults
StoreFails == "store_error" \in Faults
LedgerFails == "ledger_error" \in Faults

-----------------------------------------------------------------------------
(* The store's atomic methods (p2p-store.ts) *)

\* The cancelled order gives its reservation back to its offer, closed or not.
storeCancelOrder(o) ==
    /\ orders[o].status \in CANCELLABLE
    /\ orders' = [orders EXCEPT ![o].status = "cancelled"]
    /\ offers' = [offers EXCEPT ![orders[o].offer].remaining = @ + orders[o].amount]

\* cancelOrder where it resolves, and no change where it throws CONFLICT.
storeTryCancel(o) ==
    \/ storeCancelOrder(o)
    \/ orders[o].status \notin CANCELLABLE /\ UNCHANGED storeVars

hasActiveOrders(f) ==
    \E o \in Existing(orders) :
        orders[o].offer = f /\ orders[o].status \in ACTIVE_ORDER

-----------------------------------------------------------------------------
(* The commission setting *)

SetCommissionBps(bps) ==
    /\ bps \in 0..2000
    /\ commissionBps' = bps
    /\ UNCHANGED <<balance, journal, offers, orders, calls, sweep, crashes>>

-----------------------------------------------------------------------------
(* createOffer: lock the escrow, insert the offer, unlock if that failed *)

\* The id is fresh: never locked, nor held by another createOffer in flight.
FreshOffer(f) ==
    /\ offers[f] = NoOffer
    /\ ~Posted(LockKey(f))

\* Mutant of CreateOfferLock: the lock's outcome is not awaited.
CreateOfferLockUnawaited(c, f, merchant, amount) ==
    /\ amount > 0
    /\ FreshOffer(f)
    /\ \/ Post(LockKey(f), p2pLock(merchant, Asset, amount))
       \/ Refuse(LockKey(f), p2pLock(merchant, Asset, amount))
    /\ Starts(c, [op |-> "createOffer", pc |-> "insert", offer |-> f,
                  merchant |-> merchant, amount |-> amount])
    /\ UNCHANGED <<offers, orders, commissionBps, sweep, crashes>>

CreateOfferLock(c, f, merchant, amount) ==
    /\ amount > 0
    /\ FreshOffer(f)
    /\ Post(LockKey(f), p2pLock(merchant, Asset, amount))
    /\ \/ Starts(c, [op |-> "createOffer", pc |-> "insert", offer |-> f,
                     merchant |-> merchant, amount |-> amount])
       \/ Ackless /\ calls[c] = Idle /\ UNCHANGED calls
    /\ UNCHANGED <<offers, orders, commissionBps, sweep, crashes>>

CreateOfferInsert(c) ==
    /\ At(c, "createOffer", "insert")
    /\ LET row == [status |-> "active", merchant |-> calls[c].merchant,
                   total |-> calls[c].amount, remaining |-> calls[c].amount]
           insert == offers' = [offers EXCEPT ![calls[c].offer] = row]
       IN \/ insert /\ Returns(c)
          \/ StoreFails /\ UNCHANGED offers /\ GoesTo(c, "compensate")
          \/ Ackless /\ insert /\ GoesTo(c, "compensate")
    /\ UNCHANGED <<balance, journal, orders, commissionBps, sweep, crashes>>

\* A refused or failed unlock is swallowed; the caller sees the insert error.
CreateOfferCompensate(c) ==
    /\ At(c, "createOffer", "compensate")
    /\ LET unlock == p2pUnlock(calls[c].merchant, Asset, calls[c].amount)
       IN \/ Post(UnlockKey(calls[c].offer), unlock)
          \/ Refuse(UnlockKey(calls[c].offer), unlock)
          \/ LedgerFails /\ UNCHANGED ledgerVars
    /\ Returns(c)
    /\ UNCHANGED <<offers, orders, commissionBps, sweep, crashes>>

-----------------------------------------------------------------------------
(* closeOffer: two reads, the compare-and-set, then the unlock *)

CloseOffer(c, f) ==
    /\ offers[f].status = "active"
    /\ Starts(c, [op |-> "closeOffer", pc |-> "check", offer |-> f, amount |-> 0])
    /\ UNCHANGED <<balance, journal, offers, orders, commissionBps, sweep, crashes>>

CloseOfferCheck(c) ==
    /\ At(c, "closeOffer", "check")
    /\ IF hasActiveOrders(calls[c].offer) THEN Returns(c) ELSE GoesTo(c, "flip")
    /\ UNCHANGED <<balance, journal, offers, orders, commissionBps, sweep, crashes>>

\* The compare-and-set returns the row, so the amount to unlock is what was
\* left when the offer closed; the row keeps its remaining_minor.
CloseOfferFlip(c) ==
    /\ At(c, "closeOffer", "flip")
    /\ LET f == calls[c].offer
           flip == /\ offers[f].status = "active"
                   /\ offers' = [offers EXCEPT ![f].status = "closed"]
       IN \/ /\ flip
             /\ IF offers[f].remaining > 0
                THEN calls' = [calls EXCEPT ![c].pc = "unlock",
                                            ![c].amount = offers[f].remaining]
                ELSE Returns(c)
          \/ Ackless /\ flip /\ Returns(c)
          \/ offers[f].status # "active" /\ UNCHANGED offers /\ Returns(c)
    /\ UNCHANGED <<balance, journal, orders, commissionBps, sweep, crashes>>

CloseOfferUnlock(c) ==
    /\ At(c, "closeOffer", "unlock")
    /\ LET f == calls[c].offer
           unlock == p2pUnlock(offers[f].merchant, Asset, calls[c].amount)
       IN Post(UnlockKey(f), unlock) \/ Refuse(UnlockKey(f), unlock)
    /\ Returns(c)
    /\ UNCHANGED <<offers, orders, commissionBps, sweep, crashes>>

-----------------------------------------------------------------------------
(* openOrder: read the offer and the commission, then reserve and insert *)

\* The id is fresh: no order has it, nor does another openOrder in flight.
FreshOrder(o) ==
    /\ orders[o] = NoOrder
    /\ \A c \in Calls : calls[c].op = "openOrder" => calls[c].order # o

OpenOrder(c, f, o, buyer, amount) ==
    /\ offers[f].status = "active"
    /\ offers[f].merchant # buyer
    /\ amount > 0
    /\ FreshOrder(o)
    /\ Starts(c, [op |-> "openOrder", offer |-> f, order |-> o, buyer |-> buyer,
                  amount |-> amount, commission |-> applyBps(amount, commissionBps)])
    /\ UNCHANGED <<balance, journal, offers, orders, commissionBps, sweep, crashes>>

\* The row an openOrder inserts, and what it does to its offer.
InsertOrder(c) ==
    LET f == calls[c].offer
        n == calls[c].amount
    IN /\ offers' = [offers EXCEPT ![f].remaining = @ - n]
       /\ orders' = [orders EXCEPT ![calls[c].order] =
             [status |-> "created", offer |-> f, merchant |-> offers[f].merchant,
              buyer |-> calls[c].buyer, amount |-> n,
              commission |-> calls[c].commission, late |-> FALSE]]

\* Mutant of CanReserve: the status is not checked again.
CanReserveWhenClosed(f, amount) == offers[f].remaining >= amount

\* createOrder's checks on the row it has locked.
CanReserve(f, amount) ==
    offers[f].status = "active" /\ offers[f].remaining >= amount

\* createOrder checks and reserves under the offer's row lock, or throws.
OpenOrderInsert(c) ==
    /\ calls[c].op = "openOrder"
    /\ IF CanReserve(calls[c].offer, calls[c].amount)
       THEN InsertOrder(c) ELSE UNCHANGED storeVars
    /\ Returns(c)
    /\ UNCHANGED <<balance, journal, commissionBps, sweep, crashes>>

-----------------------------------------------------------------------------
(* The buyer reports the payment; either party disputes it *)

SubmitPayment(o) ==
    /\ orders[o].status = "created"
    /\ orders' = [orders EXCEPT ![o].status = "payment_submitted", ![o].late = FALSE]
    /\ UNCHANGED <<balance, journal, offers, commissionBps, calls, sweep, crashes>>

DisputeOrder(o) ==
    /\ orders[o].status = "payment_submitted"
    /\ orders' = [orders EXCEPT ![o].status = "disputed"]
    /\ UNCHANGED <<balance, journal, offers, commissionBps, calls, sweep, crashes>>

-----------------------------------------------------------------------------
(* doRelease: claim the order, move the money, revert the claim on failure *)

StartRelease(c, o, from) ==
    Starts(c, [op |-> "release", pc |-> "claim", order |-> o, from |-> from,
               seen |-> orders[o].status])

\* The seller's confirmation reads the order whatever its status.
ReleaseOrder(c, o) ==
    /\ o \in Existing(orders)
    /\ StartRelease(c, o, {"payment_submitted"})
    /\ UNCHANGED <<balance, journal, offers, orders, commissionBps, sweep, crashes>>

AdminRelease(c, o) ==
    /\ orders[o].status \in {"disputed", "payment_submitted"}
    /\ StartRelease(c, o, {"payment_submitted", "disputed"})
    /\ UNCHANGED <<balance, journal, offers, orders, commissionBps, sweep, crashes>>

\* Mutant of ReleaseClaim: the status is written whatever it was.
ReleaseClaimUnconditional(c) ==
    /\ At(c, "release", "claim")
    /\ orders' = [orders EXCEPT ![calls[c].order].status = "released"]
    /\ GoesTo(c, "post")
    /\ UNCHANGED <<balance, journal, offers, commissionBps, sweep, crashes>>

ReleaseClaim(c) ==
    /\ At(c, "release", "claim")
    /\ LET o == calls[c].order
           claim == /\ orders[o].status \in calls[c].from
                    /\ orders' = [orders EXCEPT ![o].status = "released"]
       IN \/ claim /\ GoesTo(c, "post")
          \/ Ackless /\ claim /\ Returns(c)
          \/ orders[o].status \notin calls[c].from /\ UNCHANGED orders /\ Returns(c)
    /\ UNCHANGED <<balance, journal, offers, commissionBps, sweep, crashes>>

\* Mutant of CommissionOf: the setting is read again when the order is released.
CurrentCommissionOf(row) == applyBps(row.amount, commissionBps)

\* The commission a release takes: the one locked when the order was opened.
CommissionOf(row) == row.commission

ReleasePost(c) ==
    /\ At(c, "release", "post")
    /\ LET o == calls[c].order
           row == orders[o]
           commission == CommissionOf(row)
           postings == p2pRelease(row.merchant, row.buyer, Asset, row.amount, commission)
           accepted == FeeInRange(commission, row.amount)
                          /\ Post(ReleaseKey(o), postings)
       IN \/ accepted /\ Returns(c)
          \/ Ackless /\ accepted /\ GoesTo(c, "revert")
          \/ /\ \/ LedgerFails
                \/ ~FeeInRange(commission, row.amount)
                \/ ~Accepts(ReleaseKey(o), postings)
             /\ UNCHANGED ledgerVars
             /\ GoesTo(c, "revert")
    /\ UNCHANGED <<offers, orders, commissionBps, sweep, crashes>>

\* The compare-and-set back to the status the handler read at its start; its
\* own failure is swallowed.
ReleaseRevert(c) ==
    /\ At(c, "release", "revert")
    /\ LET o == calls[c].order
       IN \/ /\ orders[o].status = "released"
             /\ orders' = [orders EXCEPT ![o].status = calls[c].seen]
          \/ orders[o].status # "released" /\ UNCHANGED orders
          \/ StoreFails /\ UNCHANGED orders
    /\ Returns(c)
    /\ UNCHANGED <<balance, journal, offers, commissionBps, sweep, crashes>>

-----------------------------------------------------------------------------
(* Cancellation: by a party while unpaid, by the admin, by the expiry sweep *)

CancelOrder(c, o) ==
    /\ orders[o].status = "created"
    /\ Starts(c, [op |-> "cancel", by |-> "party", order |-> o])
    /\ UNCHANGED <<balance, journal, offers, orders, commissionBps, sweep, crashes>>

AdminCancel(c, o) ==
    /\ orders[o].status \in {"disputed", "payment_submitted"}
    /\ Starts(c, [op |-> "cancel", by |-> "admin", order |-> o])
    /\ UNCHANGED <<balance, journal, offers, orders, commissionBps, sweep, crashes>>

CancelCommit(c) ==
    /\ calls[c].op = "cancel"
    /\ storeTryCancel(calls[c].order)
    /\ Returns(c)
    /\ UNCHANGED <<balance, journal, commissionBps, sweep, crashes>>

\* Time passes: the payment window of an unpaid order ends.
PayWindowEnds(o) ==
    /\ orders[o].status = "created"
    /\ orders' = [orders EXCEPT ![o].late = TRUE]
    /\ UNCHANGED <<balance, journal, offers, commissionBps, calls, sweep, crashes>>

\* Mutant of SweepList: the sweep looks at the orders reported as paid.
SweepListPaid ==
    /\ sweep' = sweep \cup {o \in Existing(orders) :
                               orders[o].status = "payment_submitted" /\ orders[o].late}
    /\ UNCHANGED <<balance, journal, offers, orders, commissionBps, calls, crashes>>

\* expireUnpaidOrders lists the created orders past their window ...
SweepList ==
    /\ sweep' = sweep \cup {o \in Existing(orders) :
                               orders[o].status = "created" /\ orders[o].late}
    /\ UNCHANGED <<balance, journal, offers, orders, commissionBps, calls, crashes>>

\* ... and cancels them one by one; a refusal or a failure is swallowed.
SweepCancel(o) ==
    /\ o \in sweep
    /\ sweep' = sweep \ {o}
    /\ storeTryCancel(o) \/ (StoreFails /\ UNCHANGED storeVars)
    /\ UNCHANGED <<balance, journal, commissionBps, calls, crashes>>

-----------------------------------------------------------------------------
(* Failures *)

\* A store or ledger call outside a try block rejects without effect: the
\* handler throws.  (Inside the try blocks a rejection has its own disjunct.)
CallFails(c) ==
    /\ \/ /\ StoreFails
          /\ \/ calls[c].op \in {"openOrder", "cancel"}
             \/ At(c, "release", "claim")
             \/ calls[c].op = "closeOffer" /\ calls[c].pc # "unlock"
       \/ LedgerFails /\ At(c, "closeOffer", "unlock")
    /\ Returns(c)
    /\ UNCHANGED <<balance, journal, offers, orders, commissionBps, sweep, crashes>>

Crash ==
    /\ "crash" \in Faults
    /\ crashes < MaxCrashes
    /\ crashes' = crashes + 1
    /\ calls' = [c \in Calls |-> Idle]
    /\ sweep' = {}
    /\ UNCHANGED <<balance, journal, offers, orders, commissionBps>>

-----------------------------------------------------------------------------

Init ==
    /\ balance \in InitialBalances
    /\ journal = [k \in Keys |-> NoJournal]
    /\ offers = [f \in Offers |-> NoOffer]
    /\ orders = [o \in Orders |-> NoOrder]
    /\ commissionBps \in CommissionRates
    /\ calls = [c \in Calls |-> Idle]
    /\ sweep = {}
    /\ crashes = 0

CallStarts(c) ==
    \/ \E f \in Offers, p \in Customers, n \in Sizes :
          CreateOfferLock(c, f, p, n) \/ \E o \in Orders : OpenOrder(c, f, o, p, n)
    \/ \E f \in Offers : CloseOffer(c, f)
    \/ \E o \in Orders : ReleaseOrder(c, o) \/ AdminRelease(c, o)
                            \/ CancelOrder(c, o) \/ AdminCancel(c, o)

\* The next await of a handler in flight completes.
CallProceeds(c) ==
    \/ CreateOfferInsert(c) \/ CreateOfferCompensate(c)
    \/ CloseOfferCheck(c) \/ CloseOfferFlip(c) \/ CloseOfferUnlock(c)
    \/ OpenOrderInsert(c)
    \/ ReleaseClaim(c) \/ ReleasePost(c) \/ ReleaseRevert(c)
    \/ CancelCommit(c)

Next ==
    \/ \E bps \in CommissionRates : SetCommissionBps(bps)
    \/ \E c \in Calls : CallStarts(c) \/ CallProceeds(c) \/ CallFails(c)
    \/ \E o \in Orders : SubmitPayment(o) \/ DisputeOrder(o)
                            \/ PayWindowEnds(o) \/ SweepCancel(o)
    \/ SweepList
    \/ Crash

Spec == Init /\ [][Next]_vars

\* Handlers run to their end unless the process dies, and the sweep's timer
\* fires every minute and works through its list.
Fairness ==
    /\ \A c \in Calls : WF_vars(CallProceeds(c))
    /\ WF_vars(SweepList)
    /\ \A o \in Orders : WF_vars(SweepCancel(o))

FairSpec == Spec /\ Fairness

-----------------------------------------------------------------------------
(* Properties *)

TypeOK ==
    /\ balance \in [Accounts -> Int]
    /\ journal \in [Keys -> Seq(Posting)]
    /\ offers \in [Offers -> Offer \cup {NoOffer}]
    /\ orders \in [Orders -> Order \cup {NoOrder}]
    /\ commissionBps \in Nat
    /\ calls \in [Calls -> CallState]
    /\ sweep \subseteq Orders
    /\ crashes \in Nat

\* The claim makes release exclusive: once the escrow has been paid out, the
\* order stays released, so no cancel, dispute, sweep or late revert can take
\* effect on it (doRelease).
ReleaseIsFinal ==
    \A o \in Orders : Posted(ReleaseKey(o)) => orders[o].status = "released"

\* The buyer is paid what was quoted when the order was opened, whatever the
\* commission setting has become, and the seller's escrow pays the gross.
ReleasePaysQuote ==
    \A o \in Existing(orders) : Posted(ReleaseKey(o)) =>
        LET row == orders[o]
            paid(account) == Delta(journal[ReleaseKey(o)], account)
        IN /\ paid(customerWallet(row.buyer, Asset)) = row.amount - row.commission
           /\ paid(p2pEscrow(row.merchant, Asset)) = -row.amount
           /\ paid(systemAccount("fee_revenue", Asset)) = row.commission

\* Orders that still have a claim on the escrow: open ones, and claimed ones
\* that are not paid yet.
Reserved(o) ==
    \/ orders[o].status \in ACTIVE_ORDER
    \/ orders[o].status = "released" /\ ~Posted(ReleaseKey(o))

\* What an offer and an order claim of a seller's escrow.
ListedBy(m, f) ==
    IF offers[f].status = "active" /\ offers[f].merchant = m
    THEN offers[f].remaining ELSE 0
ReservedFrom(m, o) ==
    IF Reserved(o) /\ orders[o].merchant = m THEN orders[o].amount ELSE 0

\* A seller's escrow account holds what the seller's active offers still list
\* plus what their orders have reserved ("Escrow is guaranteed to hold the
\* reserved amount here", doRelease).
EscrowCoversReservations ==
    \A m \in Customers :
        balance[p2pEscrow(m, Asset)] >=
            SumFunction([f \in Offers |-> ListedBy(m, f)])
            + SumFunction([o \in Orders |-> ReservedFrom(m, o)])

\* What a reserved order still asks of the escrow: nothing once it is paid,
\* whatever its status has become.
UnpaidFrom(m, o) ==
    IF /\ orders[o] # NoOrder /\ orders[o].status # "cancelled"
       /\ orders[o].merchant = m /\ ~Posted(ReleaseKey(o))
    THEN orders[o].amount ELSE 0

\* What an offer got back although it was still listed or sold: the whole lock,
\* returned after an insert that took effect without being acknowledged.
ReturnedTwice(m, f) ==
    LET returned == -Delta(journal[UnlockKey(f)], p2pEscrow(m, Asset))
        unsold == IF offers[f].status = "closed" THEN offers[f].remaining ELSE 0
    IN IF Ackless /\ offers[f] # NoOffer /\ returned = offers[f].total
       THEN returned - unsold ELSE 0

\* What an order got back although it was paid: the release was not
\* acknowledged, the claim was reverted and the order cancelled.
PaidAndReturned(m, o) ==
    IF /\ Ackless /\ Posted(ReleaseKey(o))
       /\ orders[o].status = "cancelled" /\ orders[o].merchant = m
    THEN orders[o].amount ELSE 0

\* Under every fault, lost acknowledgements included: what a seller's escrow
\* lacks of the listed offers and the unpaid orders is what was given back
\* twice, by createOffer's compensation (it unlocks an offer that buyers see)
\* or by a cancel after doRelease's revert, and nothing more.
EscrowLacksOnlyReturns ==
    \A m \in Customers :
        balance[p2pEscrow(m, Asset)]
            + SumFunction([f \in Offers |-> ReturnedTwice(m, f)])
            + SumFunction([o \in Orders |-> PaidAndReturned(m, o)])
          >= SumFunction([f \in Offers |-> ListedBy(m, f)])
            + SumFunction([o \in Orders |-> UnpaidFrom(m, o)])

\* What a buyer and a seller see of an order: it is paid out once the journal
\* is posted, whatever its status says.
SaleState(o) ==
    CASE orders[o] = NoOrder -> "none"
      [] Posted(ReleaseKey(o)) -> "paid"
      [] orders[o].status = "cancelled" -> "called_off"
      [] OTHER -> "open"

\* Every behaviour of the handlers, the sweep and the faults but a lost
\* acknowledgement is a sequence of atomic sales.
Sale == INSTANCE EscrowSale WITH
    Amounts <- Sizes \ {0},
    available <- [f \in Offers |-> IF offers[f] = NoOffer THEN -1
                                   ELSE offers[f].remaining],
    listed <- {f \in Offers : offers[f].status = "active"},
    sale <- [o \in Orders |->
                IF orders[o] = NoOrder THEN [state |-> "none"]
                ELSE [state |-> SaleState(o), offer |-> orders[o].offer,
                      amount |-> orders[o].amount]]

SaleSpec == Sale!Spec

\* An unpaid order past its payment window does not block the seller's escrow
\* for ever (expireUnpaidOrders).
UnpaidOrdersExpire ==
    \A o \in Orders :
        (orders[o].status = "created" /\ orders[o].late)
            ~> (orders[o].status # "created")

\* A released order is eventually paid out, when nothing fails.
ReleasedIsPaid ==
    \A o \in Orders : (orders[o].status = "released") ~> Posted(ReleaseKey(o))

\* No order keeps a seller's escrow for ever: the unpaid ones expire and the released
\* ones are paid out.
OrdersEnd == UnpaidOrdersExpire /\ ReleasedIsPaid

-----------------------------------------------------------------------------
(* What the comments and tests say and the code does not do; see README *)

\* "once the buyer has reported payment (payment_submitted), NOBODY can
\* unilaterally cancel" (p2p-service.ts:212): only an admin's call cancels an
\* order that is paid or disputed.
PaidIsNeverCancelledByAParty ==
    [][\A o \in Orders :
          (orders[o].status \in {"payment_submitted", "disputed"}
              /\ orders'[o].status = "cancelled")
          => \E c \in Calls : /\ calls[c].op = "cancel" /\ calls[c].by = "admin"
                              /\ calls[c].order = o /\ calls'[c] = Idle]_vars

=============================================================================
