------------------------------- MODULE Ledger -------------------------------
(***************************************************************************)
(* LedgerService (ledger/service.ts) over the ledger store: one action per *)
(* business operation, each called with any key and any amounts, positive  *)
(* or not, and in any order.  A refused call changes nothing, so it is a   *)
(* stuttering step and has no action of its own.                           *)
(***************************************************************************)
EXTENDS LedgerStore, FiniteSets, Functions

CONSTANTS Amounts,     \* business amounts the callers pass, in minor units
          Fees,        \* fees, margins and commissions they pass
          Quotes       \* transfer quotes: corridors, domestic ones included

ASSUME ArgumentsAssumption ==
    /\ Amounts \subseteq Int
    /\ Fees \subseteq Int
    /\ Quotes \subseteq [from : Currencies, to : Currencies,
                         send : Int, fee : Int, receive : Int]

\* reconcile() adds up the rows of the accounts and the postings tables.
ASSUME FiniteTablesAssumption ==
    /\ IsFiniteSet(Customers) /\ IsFiniteSet(Agents)
    /\ IsFiniteSet(Currencies) /\ IsFiniteSet(Keys)

-----------------------------------------------------------------------------
(* The operations.  k is the caller's idempotency key. *)

FundWallet(k) == \E p \in Customers, c \in Currencies, n \in Amounts :
    Post(k, fundWallet(p, c, n))

ReferralReward(k) == \E p \in Customers, c \in Currencies, n \in Amounts :
    Post(k, referralReward(p, c, n))

CashIn(k) == \E g \in Agents, p \in Customers, c \in Currencies, n \in Amounts :
    Post(k, cashIn(g, p, c, n))

CashOut(k) == \E g \in Agents, p \in Customers, c \in Currencies, n \in Amounts :
    Post(k, cashOut(g, p, c, n))

AgentCashIn(k) ==
    \E g \in Agents, p \in Customers, c \in Currencies, n \in Amounts, f \in Fees :
        Post(k, agentCashIn(g, p, c, n, f))

AgentCashOut(k) ==
    \E g \in Agents, p \in Customers, c \in Currencies, n \in Amounts, f \in Fees :
        Post(k, agentCashOut(g, p, c, n, f))

FloatTopup(k) == \E g \in Agents, c \in Currencies, n \in Amounts :
    Post(k, floatTopup(g, c, n))

\* initiateTransfer and reverseTransfer post two journals one after the other;
\* each leg is a post of its own, and the legs of concurrent calls interleave.
PostTransferDebit(k) == \E p \in Customers, q \in Quotes :
    Post(k, transferDebitJournal(p, q))

PostTransferFx(k) == \E q \in Quotes : Post(k, transferFxJournal(q))

ReverseTransferFx(k) == \E q \in Quotes : Post(k, reverseTransferFx(q))

ReverseTransferDebit(k) == \E p \in Customers, q \in Quotes :
    Post(k, reverseTransferDebit(p, q))

AirtimeTopup(k) ==
    \E p \in Customers, c \in Currencies, n \in Amounts, f \in Fees :
        Post(k, airtimeTopup(p, c, n, f))

ReverseAirtime(k) ==
    \E p \in Customers, c \in Currencies, n \in Amounts, f \in Fees :
        Post(k, reverseAirtime(p, c, n, f))

SettlePayout(k) == \E c \in Currencies, n \in Amounts, f \in Fees :
    FeeInRange(f, n) /\ Post(k, settlePayout(c, n, f))

P2pLock(k) == \E p \in Customers, c \in Currencies, n \in Amounts :
    Post(k, p2pLock(p, c, n))

P2pRelease(k) ==
    \E m \in Customers, b \in Customers, c \in Currencies, n \in Amounts, f \in Fees :
        FeeInRange(f, n) /\ Post(k, p2pRelease(m, b, c, n, f))

P2pUnlock(k) == \E p \in Customers, c \in Currencies, n \in Amounts :
    Post(k, p2pUnlock(p, c, n))

UsdtWithdrawHold(k) == \E p \in Customers, c \in Currencies, n \in Amounts :
    Post(k, usdtWithdrawHold(p, c, n))

UsdtWithdrawSettle(k) == \E c \in Currencies, n \in Amounts, f \in Fees :
    FeeInRange(f, n) /\ Post(k, usdtWithdrawSettle(c, n, f))

UsdtWithdrawRefund(k) == \E p \in Customers, c \in Currencies, n \in Amounts :
    Post(k, usdtWithdrawRefund(p, c, n))

-----------------------------------------------------------------------------

Init ==
    /\ balance = [a \in Accounts |-> 0]
    /\ journal = [k \in Keys |-> NoJournal]

Next == \E k \in Keys :
    \/ FundWallet(k) \/ ReferralReward(k)
    \/ CashIn(k) \/ CashOut(k) \/ AgentCashIn(k) \/ AgentCashOut(k) \/ FloatTopup(k)
    \/ PostTransferDebit(k) \/ PostTransferFx(k)
    \/ ReverseTransferFx(k) \/ ReverseTransferDebit(k)
    \/ AirtimeTopup(k) \/ ReverseAirtime(k) \/ SettlePayout(k)
    \/ P2pLock(k) \/ P2pRelease(k) \/ P2pUnlock(k)
    \/ UsdtWithdrawHold(k) \/ UsdtWithdrawSettle(k) \/ UsdtWithdrawRefund(k)

Spec == Init /\ [][Next]_ledgerVars

-----------------------------------------------------------------------------
(* Properties *)

\* The balance cache and the journal table hold what their columns hold.
TypeOK ==
    /\ balance \in [Accounts -> Int]
    /\ journal \in [Keys -> Seq(Posting)]

\* A wallet, an agent's float or commission account and a P2P escrow never go
\* below zero, whatever calls were made before (types.ts NON_NEGATIVE_KINDS).
NonNegative ==
    \A a \in Accounts : a.kind \in NonNegativeKinds => balance[a] >= 0

\* reconcile(), check (a): the balances of every currency sum to zero.
ClosedBooks ==
    \A c \in Currencies :
        SumFunctionOnSet(balance, {a \in Accounts : a.currency = c}) = 0

\* reconcile(), check (b): the cached balance of every account is the sum of
\* the postings that were ever stored on it.
CacheMatchesPostings ==
    \A a \in Accounts :
        balance[a] = SumFunction([k \in Keys |-> Delta(journal[k], a)])

\* The two checks of reconcile().
Reconciles == ClosedBooks /\ CacheMatchesPostings

\* The ledger is append-only and post() is idempotent: a stored journal never
\* changes, and money moves only in a step that stores a new journal.
AppendOnly ==
    [][/\ \A k \in Keys : Posted(k) => journal'[k] = journal[k]
       /\ journal' = journal => balance' = balance]_ledgerVars

\* Money paid in to a user never lowers a wallet: a step that takes money from
\* a wallet is none of the inflows, whatever amount their caller passed.
\* credit() and debit() promise this for every builder ("no operation builder
\* can express a sign-flip", operations.ts:34-45).
Inflow(k) ==
    \/ FundWallet(k) \/ ReferralReward(k) \/ CashIn(k) \/ AgentCashIn(k)
    \/ ReverseTransferDebit(k) \/ ReverseAirtime(k)
    \/ UsdtWithdrawRefund(k) \/ P2pUnlock(k)

InflowsNeverDrain ==
    [][(\E a \in Accounts : a.kind = "wallet" /\ balance'[a] < balance[a])
          => ~\E k \in Keys : Inflow(k)]_ledgerVars
=============================================================================
