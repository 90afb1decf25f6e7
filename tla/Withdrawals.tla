----------------------------- MODULE Withdrawals -----------------------------
(***************************************************************************)
(* USDT withdrawals: WithdrawalService (withdrawal/withdrawal-service.ts)  *)
(* over its store and the ledger.  A request holds the money before it is  *)
(* recorded; the operator completes it, or the operator or the customer    *)
(* rejects it.  The destination address and the provider's reference are   *)
(* left out: nothing depends on them.                                      *)
(***************************************************************************)
EXTENDS ServiceCalls

CONSTANTS Withdrawals,      \* the ids randomUUID() hands out
          Asset,            \* cfg.asset
          WithdrawalFee,    \* cfg.feeMinor
          MinWithdrawal,    \* cfg.minAmountMinor
          WithdrawalAmounts \* what customers ask for

HoldKey(w) == <<"wd_hold", w>>       \* wd:hold:${id}
SettleKey(w) == <<"wd_settle", w>>   \* wd:settle:${id}
RefundKey(w) == <<"wd_refund", w>>   \* wd:refund:${id}

ASSUME WithdrawalsAssumption ==
    /\ Asset \in Currencies
    /\ WithdrawalFee \in Nat
    /\ MinWithdrawal \in Nat
    /\ WithdrawalAmounts \subseteq Nat
    /\ {"wd_hold", "wd_settle", "wd_refund"} \X Withdrawals \subseteq Keys

VARIABLE withdrawals    \* usdt_withdrawals: id -> row

WithdrawalStatus == {"pending", "completed", "rejected"}

NoWithdrawal == [status |-> "none"]
Withdrawal == [status : WithdrawalStatus, customer : Customers, amount : Nat, fee : Nat]

WithdrawalCalls ==
    [pc : {"wd.create", "wd.compensate"}, withdrawal : Withdrawals,
     customer : Customers, amount : Nat]
    \cup [pc : {"wd.claim", "wd.post", "wd.revert"}, withdrawal : Withdrawals,
          to : {"completed", "rejected"}]

-----------------------------------------------------------------------------
(* request: hold, record, and give the hold back if that failed *)

\* randomUUID(): no row has the id, no hold, no request in flight.
FreshWithdrawal(w) == withdrawals[w] = NoWithdrawal /\ ~Posted(HoldKey(w))

RequestWithdrawal(c, w, customer, amount) ==
    /\ Receives(c, "withdrawal")
    /\ amount >= MinWithdrawal
    /\ amount > WithdrawalFee
    /\ FreshWithdrawal(w)
    /\ AwaitsPost(HoldKey(w), usdtWithdrawHold(customer, Asset, amount),
                  Starts(c, [pc |-> "wd.create", withdrawal |-> w,
                             customer |-> customer, amount |-> amount]),
                  UNCHANGED calls)
    /\ UNCHANGED withdrawals

CreateWithdrawal(c) ==
    /\ At(c, "wd.create")
    /\ AwaitsWrite(withdrawals' = [withdrawals EXCEPT ![calls[c].withdrawal] =
                      [status |-> "pending", customer |-> calls[c].customer,
                       amount |-> calls[c].amount, fee |-> WithdrawalFee]],
                   UNCHANGED withdrawals,
                   Returns(c), GoesTo(c, "wd.compensate"))
    /\ UNCHANGED ledgerVars

\* A refund that fails is swallowed; the caller sees the insert's error.
CompensateWithdrawal(c) ==
    /\ At(c, "wd.compensate")
    /\ AwaitsPost(RefundKey(calls[c].withdrawal),
                  usdtWithdrawRefund(calls[c].customer, Asset, calls[c].amount),
                  Returns(c), Returns(c))
    /\ UNCHANGED withdrawals

-----------------------------------------------------------------------------
(* complete and reject: read, claim, post, and revert the claim on failure *)

\* Who may reject (the operator, or the owner) is the route's business.
ResolveWithdrawal(c, w, to) ==
    /\ Receives(c, "withdrawal")
    /\ withdrawals[w].status = "pending"
    /\ Starts(c, [pc |-> "wd.claim", withdrawal |-> w, to |-> to])
    /\ UNCHANGED <<balance, journal, withdrawals>>

\* Mutant of ClaimWithdrawal: the status read before the await is trusted.
ClaimWithdrawalBlindly(c) ==
    /\ At(c, "wd.claim")
    /\ withdrawals' = [withdrawals EXCEPT ![calls[c].withdrawal].status = calls[c].to]
    /\ GoesTo(c, "wd.post")
    /\ UNCHANGED ledgerVars

\* claim(id, ['pending'], to): the row, or null and a CONFLICT.
ClaimWithdrawal(c) ==
    /\ At(c, "wd.claim")
    /\ LET w == calls[c].withdrawal
       IN IF withdrawals[w].status = "pending"
          THEN AwaitsWrite(withdrawals' = [withdrawals EXCEPT ![w].status = calls[c].to],
                           UNCHANGED withdrawals,
                           GoesTo(c, "wd.post"), Returns(c))
          ELSE UNCHANGED withdrawals /\ Returns(c)
    /\ UNCHANGED ledgerVars

\* Mutant of SettledPostings: the fee is taken on top of what was held.
SettledPostingsOnTop(row) ==
    <<debit(systemAccount("withdrawal_suspense", Asset), row.amount + row.fee),
      credit(systemAccount("settlement", Asset), row.amount),
      credit(systemAccount("fee_revenue", Asset), row.fee)>>

SettledPostings(row) == usdtWithdrawSettle(Asset, row.amount, row.fee)

\* The fee was checked by request, so LedgerService's range check passes.
PostResolution(c) ==
    /\ At(c, "wd.post")
    /\ LET w == calls[c].withdrawal
           row == withdrawals[w]
           ends(key, postings) ==
               AwaitsPost(key, postings, Returns(c), GoesTo(c, "wd.revert"))
       IN IF calls[c].to = "completed"
          THEN ends(SettleKey(w), SettledPostings(row))
          ELSE ends(RefundKey(w), usdtWithdrawRefund(row.customer, Asset, row.amount))
    /\ UNCHANGED withdrawals

\* claim(id, [to], 'pending'); its own failure is swallowed.
RevertWithdrawal(c) ==
    /\ At(c, "wd.revert")
    /\ LET w == calls[c].withdrawal
       IN IF withdrawals[w].status = calls[c].to
          THEN AwaitsWrite(withdrawals' = [withdrawals EXCEPT ![w].status = "pending"],
                           UNCHANGED withdrawals, Returns(c), Returns(c))
          ELSE UNCHANGED withdrawals /\ Returns(c)
    /\ UNCHANGED ledgerVars

-----------------------------------------------------------------------------

WithdrawalInit == withdrawals = [w \in Withdrawals |-> NoWithdrawal]

WithdrawalStarts(c) ==
    \E w \in Withdrawals :
        \/ \E p \in Customers, n \in WithdrawalAmounts : RequestWithdrawal(c, w, p, n)
        \/ \E to \in {"completed", "rejected"} : ResolveWithdrawal(c, w, to)

WithdrawalProceeds(c) ==
    \/ CreateWithdrawal(c) \/ CompensateWithdrawal(c)
    \/ ClaimWithdrawal(c) \/ PostResolution(c) \/ RevertWithdrawal(c)

WithdrawalTypeOK ==
    withdrawals \in [Withdrawals -> Withdrawal \cup {NoWithdrawal}]

-----------------------------------------------------------------------------
(* Properties *)

\* A withdrawal's status never runs behind the money: once it is settled it stays
\* completed, and once it is refunded it is rejected or was never recorded, so no
\* race of complete and reject, failed post or restart leads to both ("a
\* withdrawal can never both settle and refund").  It takes acknowledgements that
\* are not lost.
WithdrawalStatusIsBacked ==
    AcksReliably =>
        \A w \in Withdrawals :
            /\ Posted(SettleKey(w)) => withdrawals[w].status = "completed"
            /\ Posted(RefundKey(w)) => withdrawals[w].status \in {"rejected", "none"}

\* A held amount is never stranded by a failed insert: without a row, the hold
\* is refunded or some handler is about to record or refund it.  It takes a
\* ledger that answers and a process that stays up (request, the catch block).
HoldIsNeverStranded ==
    env.faults \subseteq {"store_error"} =>
        \A w \in Withdrawals :
            (Posted(HoldKey(w)) /\ withdrawals[w] = NoWithdrawal) =>
                \/ Posted(RefundKey(w))
                \/ \E c \in Calls : /\ calls[c].pc \in {"wd.create", "wd.compensate"}
                                    /\ calls[c].withdrawal = w

\* No withdrawal is both settled and refunded, and none leaves its amount held for good.
WithdrawalsMatchLedger == WithdrawalStatusIsBacked /\ HoldIsNeverStranded

\* What a customer, and the platform's suspense account, see of a withdrawal; the
\* second posting of the hold credits the suspense account.
HeldState(w) ==
    IF ~Posted(HoldKey(w)) THEN [state |-> "none", amount |-> 0]
    ELSE [amount |-> journal[HoldKey(w)][2].magnitude,
          state |-> IF Posted(SettleKey(w)) THEN "paid"
                    ELSE IF Posted(RefundKey(w)) THEN "returned" ELSE "held"]

Held == INSTANCE HeldFunds WITH
    Items <- Withdrawals,
    Amounts <- WithdrawalAmounts,
    item <- [w \in Withdrawals |-> HeldState(w)],
    suspense <- balance[systemAccount("withdrawal_suspense", Asset)]

\* Every behaviour whose acknowledgements are not lost holds, pays out and gives
\* back in single steps, and withdrawal_suspense is exactly what is held, whatever
\* the races, failed posts, failed reverts and restarts.
HeldFundsSpec ==
    Held!Init /\ [][AcksReliably => Held!Next]_(Held!vars)
=============================================================================
