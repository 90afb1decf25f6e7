------------------------------ MODULE Cashouts ------------------------------
(***************************************************************************)
(* Cash-out approval: CashoutService (cashout/cashout-service.ts) over its *)
(* store and the ledger.  An agent asks to cash a customer out; the money  *)
(* moves when the customer approves, unless the request has been rejected, *)
(* cancelled or has expired.  The registry checks of the route only make a *)
(* request refused and are left out.                                       *)
(***************************************************************************)
EXTENDS ServiceCalls

CONSTANTS Cashouts,        \* the ids randomUUID() hands out
          CashCurrency,    \* the currency agents pay out
          CashoutAmounts,  \* what agents ask for
          Commissions      \* what applyBps gives the agent for it

CashoutKey(r) == <<"cashout", r>>    \* cashout:${req.id}

ASSUME CashoutsAssumption ==
    /\ CashCurrency \in Currencies
    /\ CashoutAmounts \subseteq Nat
    /\ Commissions \subseteq Nat
    /\ {"cashout"} \X Cashouts \subseteq Keys

VARIABLE cashouts    \* cashout_requests: id -> row

CashoutStatus == {"pending", "approved", "rejected", "cancelled", "expired"}

NoCashout == [status |-> "none"]

\* late: expires_at has passed while the request waits.
Cashout == [status : CashoutStatus, agent : Agents, customer : Customers,
            amount : Nat, commission : Nat, late : BOOLEAN]

CashoutCalls ==
    [pc : {"co.expire", "co.claim", "co.post", "co.revert"}, cashout : Cashouts]

-----------------------------------------------------------------------------
(* The store's compare-and-set *)

claims(r, to) ==
    /\ cashouts[r].status = "pending"
    /\ cashouts' = [cashouts EXCEPT ![r].status = to]

\* claim(id, ['pending'], to): the row, or null and a CONFLICT.
ClaimsCashout(r, to, resolves, throws) ==
    IF cashouts[r].status = "pending"
    THEN AwaitsWrite(claims(r, to), UNCHANGED cashouts, resolves, throws)
    ELSE UNCHANGED cashouts /\ throws

-----------------------------------------------------------------------------
(* request; reject, cancel: one write each *)

RequestCashout(r, agent, customer, amount, commission) ==
    /\ "cashout" \in env.services
    /\ amount > 0
    /\ cashouts[r] = NoCashout
    /\ cashouts' = [cashouts EXCEPT ![r] =
          [status |-> "pending", agent |-> agent, customer |-> customer,
           amount |-> amount, commission |-> commission, late |-> FALSE]]
    /\ UNCHANGED <<balance, journal, calls>>

\* The customer's reject and the agent's cancel do not look at the status or
\* the expiry they have read, only at the owner.
RejectCashout(r) ==
    /\ claims(r, "rejected")
    /\ UNCHANGED <<balance, journal, calls>>

CancelCashout(r) ==
    /\ claims(r, "cancelled")
    /\ UNCHANGED <<balance, journal, calls>>

\* Time passes: the request is past its expires_at.
CashoutExpires(r) ==
    /\ cashouts[r].status = "pending"
    /\ cashouts' = [cashouts EXCEPT ![r].late = TRUE]
    /\ UNCHANGED <<balance, journal, calls>>

-----------------------------------------------------------------------------
(* approve: read, claim, debit, and revert the claim on failure *)

ApproveCashout(c, r) ==
    /\ Receives(c, "cashout")
    /\ cashouts[r].status = "pending"
    /\ Starts(c, [pc |-> IF cashouts[r].late THEN "co.expire" ELSE "co.claim",
                  cashout |-> r])
    /\ UNCHANGED <<balance, journal, cashouts>>

\* The expiry is marked and the approval refused; a failure is swallowed.
ExpireCashout(c) ==
    /\ At(c, "co.expire")
    /\ ClaimsCashout(calls[c].cashout, "expired", Returns(c), Returns(c))
    /\ UNCHANGED ledgerVars

\* Mutant of ClaimCashout: the debit runs on the status read before the await.
ClaimCashoutLate(c) ==
    /\ At(c, "co.claim")
    /\ cashouts' = [cashouts EXCEPT ![calls[c].cashout].status = "approved"]
    /\ GoesTo(c, "co.post")
    /\ UNCHANGED ledgerVars

ClaimCashout(c) ==
    /\ At(c, "co.claim")
    /\ ClaimsCashout(calls[c].cashout, "approved", GoesTo(c, "co.post"), Returns(c))
    /\ UNCHANGED ledgerVars

DebitCashout(c) ==
    /\ At(c, "co.post")
    /\ LET r == calls[c].cashout
           row == cashouts[r]
       IN AwaitsPost(CashoutKey(r),
                     agentCashOut(row.agent, row.customer, CashCurrency,
                                  row.amount, row.commission),
                     Returns(c), GoesTo(c, "co.revert"))
    /\ UNCHANGED cashouts

\* claim(id, ['approved'], 'pending'); its own failure is swallowed.
RevertCashout(c) ==
    /\ At(c, "co.revert")
    /\ LET r == calls[c].cashout
       IN IF cashouts[r].status = "approved"
          THEN AwaitsWrite(cashouts' = [cashouts EXCEPT ![r].status = "pending"],
                           UNCHANGED cashouts, Returns(c), Returns(c))
          ELSE UNCHANGED cashouts /\ Returns(c)
    /\ UNCHANGED ledgerVars

-----------------------------------------------------------------------------

CashoutInit == cashouts = [r \in Cashouts |-> NoCashout]

CashoutSteps ==
    \E r \in Cashouts :
        \/ \E g \in Agents, p \in Customers, n \in CashoutAmounts, m \in Commissions :
              RequestCashout(r, g, p, n, m)
        \/ RejectCashout(r) \/ CancelCashout(r) \/ CashoutExpires(r)
        \/ \E c \in Calls : ApproveCashout(c, r)

CashoutProceeds(c) ==
    ExpireCashout(c) \/ ClaimCashout(c) \/ DebitCashout(c) \/ RevertCashout(c)

CashoutTypeOK == cashouts \in [Cashouts -> Cashout \cup {NoCashout}]

-----------------------------------------------------------------------------
(* Properties *)

\* A customer is debited only by an approval that stands: once the money has
\* moved the request stays approved, so no reject, cancel or expiry, no second
\* approval, no late revert and no restart takes it back ("no debit ever runs").
\* It takes acknowledgements that are not lost.
DebitedStaysApproved ==
    AcksReliably =>
        \A r \in Cashouts : Posted(CashoutKey(r)) => cashouts[r].status = "approved"

\* The agent hands out cash when the request reads approved.  While only the
\* ledger can fail, that is so only when the debit is posted or some handler is
\* still about to post it or to take the approval back.
ApprovedIsDebitedOrHeld ==
    env.faults \subseteq {"ledger_error"} =>
        \A r \in Cashouts : cashouts[r].status = "approved" =>
            \/ Posted(CashoutKey(r))
            \/ \E c \in Calls : /\ calls[c].pc \in {"co.post", "co.revert"}
                                /\ calls[c].cashout = r

\* A cash-out is debited if and only if it is approved, but for a claim in progress.
CashoutsMatchLedger == DebitedStaysApproved /\ ApprovedIsDebitedOrHeld
=============================================================================
