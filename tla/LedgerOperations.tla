-------------------------- MODULE LedgerOperations --------------------------
(***************************************************************************)
(* The vocabulary of the double-entry ledger: account specs                *)
(* (ledger/types.ts), the pure builders that turn a business event into    *)
(* the postings of one journal (ledger/operations.ts), and the structural  *)
(* check every journal must pass before it is stored (ledger/engine.ts).   *)
(*                                                                         *)
(* A posting keeps the side and the magnitude it was built with, because   *)
(* the builders refuse non-positive magnitudes (credit() and debit());     *)
(* its signed amount is derived.  The type, external reference and         *)
(* correlation id of a journal are left out: nothing below depends on them.*)
(***************************************************************************)
EXTENDS Integers, Sequences

CONSTANTS Customers,    \* party ids that own wallets and P2P escrow
          Agents,       \* party ids that own float and commission accounts
          Currencies    \* currencies the ledger keeps accounts in

-----------------------------------------------------------------------------
(* Accounts (types.ts) *)

NoOwner == "_"

NonNegativeKinds == {"wallet", "agent_float", "agent_commission", "p2p_escrow"}
SystemKinds == {"settlement", "fee_revenue", "fx_position", "payout_suspense",
                "provider_fee", "withdrawal_suspense", "promo_expense"}

\* The fields are listed in the order TLC keeps them in, here and in Accounts:
\* TLC sorts the fields of a record in place, and its workers share the
\* postings that an action of Ledger passes to Post.
Account(owner, kind, currency) ==
    [kind |-> kind, currency |-> currency, owner |-> owner]

customerWallet(customer, currency) == Account(customer, "wallet", currency)
p2pEscrow(merchant, currency) == Account(merchant, "p2p_escrow", currency)
agentFloat(agent, currency) == Account(agent, "agent_float", currency)
agentCommission(agent, currency) == Account(agent, "agent_commission", currency)
systemAccount(kind, currency) == Account(NoOwner, kind, currency)

Accounts ==
    [kind : {"wallet", "p2p_escrow"}, currency : Currencies, owner : Customers]
        \cup [kind : {"agent_float", "agent_commission"}, currency : Currencies,
              owner : Agents]
        \cup [kind : SystemKinds, currency : Currencies, owner : {NoOwner}]

-----------------------------------------------------------------------------
(* Postings and the structural check (engine.ts, operations.ts:46-58) *)

Posting == [account : Accounts, side : {"debit", "credit"}, magnitude : Int]

credit(account, amount) ==
    [account |-> account, side |-> "credit", magnitude |-> amount]
debit(account, amount) ==
    [account |-> account, side |-> "debit", magnitude |-> amount]

\* The signed change of the holder's funds: + credit, - debit.
Signed(posting) ==
    IF posting.side = "credit" THEN posting.magnitude ELSE -posting.magnitude

\* A posting the builder adds only when its amount is positive.
IfPositive(amount, posting) == IF amount > 0 THEN <<posting>> ELSE <<>>

\* No builder makes a journal with more than four postings, so the sums over a
\* journal are written out term by term.
MaxPostings == 4

AmountIn(postings, i, accounts) ==
    IF i \in 1..Len(postings) /\ postings[i].account \in accounts
    THEN Signed(postings[i]) ELSE 0

\* The signed sum of the postings on a set of accounts.
NetOn(postings, accounts) ==
    AmountIn(postings, 1, accounts) + AmountIn(postings, 2, accounts)
        + AmountIn(postings, 3, accounts) + AmountIn(postings, 4, accounts)

\* sumByCurrency, for one currency.
NetIn(postings, currency) ==
    NetOn(postings, {a \in Accounts : a.currency = currency})

\* What one account gains from a journal (the deltas of post()).
Delta(postings, account) == NetOn(postings, {account})

\* assertPositiveMagnitude throws inside the builder, before there is a journal.
PositiveMagnitudes(postings) ==
    \A i \in 1..Len(postings) : postings[i].magnitude > 0

\* assertBalanced: at least two postings, and every currency nets to zero.
Balanced(postings) ==
    /\ Len(postings) >= 2
    /\ \A currency \in Currencies : NetIn(postings, currency) = 0

\* Mutant of WellFormed: the builders accept any magnitude.
AnyMagnitude(postings) == Balanced(postings)

WellFormed(postings) == PositiveMagnitudes(postings) /\ Balanced(postings)

-----------------------------------------------------------------------------
(* One builder per business event (operations.ts) *)

\* A journal that moves one amount from an account to another.
Move(from, to, amount) == <<debit(from, amount), credit(to, amount)>>

fundWallet(customer, currency, amount) ==
    Move(systemAccount("settlement", currency),
         customerWallet(customer, currency), amount)

referralReward(referrer, currency, amount) ==
    Move(systemAccount("promo_expense", currency),
         customerWallet(referrer, currency), amount)

cashIn(agent, customer, currency, amount) ==
    Move(agentFloat(agent, currency), customerWallet(customer, currency), amount)

cashOut(agent, customer, currency, amount) ==
    Move(customerWallet(customer, currency), agentFloat(agent, currency), amount)

\* The platform pays the agent's commission out of its fee revenue.
CommissionLegs(agent, currency, commission) ==
    IfPositive(commission, debit(systemAccount("fee_revenue", currency), commission))
        \o IfPositive(commission, credit(agentCommission(agent, currency), commission))

agentCashIn(agent, customer, currency, amount, commission) ==
    cashIn(agent, customer, currency, amount)
        \o CommissionLegs(agent, currency, commission)

agentCashOut(agent, customer, currency, amount, commission) ==
    cashOut(agent, customer, currency, amount)
        \o CommissionLegs(agent, currency, commission)

floatTopup(agent, currency, amount) ==
    Move(systemAccount("settlement", currency), agentFloat(agent, currency), amount)

\* What a transfer locks: the fee is in the source currency, on top of send.
Quote == [from : Currencies, to : Currencies, send : Int, fee : Int, receive : Int]

transferDebitJournal(sender, quote) ==
    <<debit(customerWallet(sender, quote.from), quote.send + quote.fee)>>
        \o IfPositive(quote.fee, credit(systemAccount("fee_revenue", quote.from), quote.fee))
        \o <<credit(systemAccount("fx_position", quote.from), quote.send)>>

transferFxJournal(quote) ==
    Move(systemAccount("fx_position", quote.to),
         systemAccount("payout_suspense", quote.to), quote.receive)

\* reverseTransfer builds two journals, the FX leg first.
reverseTransferFx(quote) ==
    Move(systemAccount("payout_suspense", quote.to),
         systemAccount("fx_position", quote.to), quote.receive)

reverseTransferDebit(sender, quote) ==
    <<debit(systemAccount("fx_position", quote.from), quote.send)>>
        \o IfPositive(quote.fee, debit(systemAccount("fee_revenue", quote.from), quote.fee))
        \o <<credit(customerWallet(sender, quote.from), quote.send + quote.fee)>>

airtimeTopup(customer, currency, cost, margin) ==
    <<debit(customerWallet(customer, currency), cost + margin),
      credit(systemAccount("settlement", currency), cost)>>
        \o IfPositive(margin, credit(systemAccount("fee_revenue", currency), margin))

reverseAirtime(customer, currency, cost, margin) ==
    <<debit(systemAccount("settlement", currency), cost),
      credit(customerWallet(customer, currency), cost + margin)>>
        \o IfPositive(margin, debit(systemAccount("fee_revenue", currency), margin))

\* Splits what leaves an account between its destination and a fee account.
Split(from, to, feeAccount, amount, fee) ==
    <<debit(from, amount)>>
        \o IfPositive(amount - fee, credit(to, amount - fee))
        \o IfPositive(fee, credit(feeAccount, fee))

settlePayout(currency, amount, fee) ==
    Split(systemAccount("payout_suspense", currency),
          systemAccount("settlement", currency),
          systemAccount("provider_fee", currency), amount, fee)

p2pLock(merchant, currency, amount) ==
    Move(customerWallet(merchant, currency), p2pEscrow(merchant, currency), amount)

p2pRelease(merchant, buyer, currency, amount, commission) ==
    Split(p2pEscrow(merchant, currency), customerWallet(buyer, currency),
          systemAccount("fee_revenue", currency), amount, commission)

p2pUnlock(merchant, currency, amount) ==
    Move(p2pEscrow(merchant, currency), customerWallet(merchant, currency), amount)

usdtWithdrawHold(customer, currency, amount) ==
    Move(customerWallet(customer, currency),
         systemAccount("withdrawal_suspense", currency), amount)

usdtWithdrawSettle(currency, amount, fee) ==
    Split(systemAccount("withdrawal_suspense", currency),
          systemAccount("settlement", currency),
          systemAccount("fee_revenue", currency), amount, fee)

usdtWithdrawRefund(customer, currency, amount) ==
    Move(systemAccount("withdrawal_suspense", currency),
         customerWallet(customer, currency), amount)

\* settlePayout, p2pRelease and usdtWithdrawSettle refuse a fee out of range
\* in LedgerService, before they build the journal.
FeeInRange(fee, amount) == fee >= 0 /\ fee <= amount
=============================================================================
