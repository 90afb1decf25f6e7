------------------------------ MODULE Payouts ------------------------------
(***************************************************************************)
(* The outbound leg of a transfer: PayoutService                           *)
(* (payouts/payout-service.ts) over the payout store, the ledger and a     *)
(* mobile-money provider (payouts/moncash-adapter.ts, natcash-adapter.ts). *)
(*                                                                         *)
(* As in P2P, what interleaves is the code between two awaits; a handler   *)
(* in flight is a record in calls, whose pc names the next await.  The     *)
(* saga of TransferSaga calls submit and sync as part of a run: such a     *)
(* handler has saga = TRUE and goes back to the run when it returns or     *)
(* throws, because the run catches it.  Attempt counters and last errors   *)
(* are left out: nothing reads them.                                       *)
(***************************************************************************)
EXTENDS LedgerStore, FiniteSets, Functions

CONSTANTS
    Transfers,          \* correlation ids, one per idempotency key of a client
    Calls,              \* slots for handlers in flight
    Provider,           \* the wired port: "moncash", "natcash" or "none"
    ManualOps,          \* what the operator does by hand: "release", "fail"
    Faults,             \* what may go wrong, see FaultKinds
    MaxSends            \* bound on the payments a provider accepts per transfer

\* store_error:   a store method rejects and had no effect
\* ledger_error:  a ledger post rejects and had no effect
\* lost_ack:      either rejects although it took effect
\* lost_answer:   the provider acts on a payment and the answer is lost
\* crash:         the process restarts; the stores survive
FaultKinds == {"store_error", "ledger_error", "lost_ack", "lost_answer", "crash"}

DebitKey(t) == <<"debit", t>>                   \* ${base}:debit
FxKey(t) == <<"fx", t>>                         \* ${base}:fx
SettleKey(t) == <<"settle", t>>                 \* payout-settle:${correlationId}
ReversalFxKey(t) == <<"reversal_fx", t>>        \* reversal-fx:${correlationId}
ReversalDebitKey(t) == <<"reversal_debit", t>>  \* reversal-debit:${correlationId}

ASSUME PayoutsAssumption ==
    /\ Provider \in {"moncash", "natcash", "none"}
    /\ Faults \subseteq FaultKinds
    /\ MaxSends \in Nat
    /\ {"debit", "fx", "settle", "reversal_fx", "reversal_debit"} \X Transfers
          \subseteq Keys

VARIABLES
    payouts,    \* payouts: correlation id -> row
    payments,   \* the provider's own records: correlation id -> number -> state
    calls       \* handlers in flight

payoutVars == <<payouts, payments, calls>>

-----------------------------------------------------------------------------
(* Rows and handlers *)

PayoutStatus == {"created", "submitted", "settled", "reversed"}

\* What the provider calls a payment: its number, or the operator's own id.
NoRef == 0
OperatorRef == -1
Refs == {NoRef, OperatorRef} \cup 1..MaxSends

NoPayout == [status |-> "none"]
Payout == [status : PayoutStatus, sender : Customers, quote : Quote,
           providerFee : Int, ref : Refs]

PaymentState == {"none", "pending", "paid", "failed"}

SagaPcs == {"load", "debit", "markDebited", "fx", "markBooked", "payout", "auto",
            "markCompleted"}
PayoutPcs == {"submit", "send", "markSubmitted", "noteError", "sync", "poll",
              "settle", "markSettled", "reverseFx", "reverseDebit", "markReversed",
              "noteRef"}

Idle == [pc |-> "idle"]

\* saga: the handler is a run of the transfer saga; ref: the payment it is about.
CallState == {Idle} \cup [pc : SagaPcs \cup PayoutPcs, transfer : Transfers,
                          saga : BOOLEAN, ref : Refs]

At(c, pc) == calls[c].pc = pc
Starts(c, pc, t, saga) ==
    /\ calls[c] = Idle
    /\ calls' = [calls EXCEPT ![c] =
                    [pc |-> pc, transfer |-> t, saga |-> saga, ref |-> NoRef]]
GoesTo(c, pc) == calls' = [calls EXCEPT ![c].pc = pc]
Returns(c) == calls' = [calls EXCEPT ![c] = Idle]

\* submit, sync or settle returns or throws: the run that called it goes on to
\* its last step whatever happened, an administrator's request is over.
PayoutEnds(c) == IF calls[c].saga THEN GoesTo(c, "markCompleted") ELSE Returns(c)

Ackless == "lost_ack" \in Faults
StoreFails == "store_error" \in Faults
LedgerFails == "ledger_error" \in Faults

\* An awaited post: the handler goes on if it resolves and throws otherwise.
Posts(c, key, postings, next, throws) ==
    \/ Post(key, postings) /\ GoesTo(c, next)
    \/ Ackless /\ Post(key, postings) /\ throws
    \/ Refuse(key, postings) /\ throws

-----------------------------------------------------------------------------
(* createForTransfer *)

\* Idempotent per transfer: the row of the first call stays.
payoutCreate(t, row) ==
    IF payouts[t] = NoPayout THEN payouts' = [payouts EXCEPT ![t] = row]
                             ELSE UNCHANGED payouts

-----------------------------------------------------------------------------
(* submit: created -> submitted *)

\* submit has returned a row: a run polls the provider if it says submitted.
AfterSubmit(c, status) ==
    IF calls[c].saga /\ status = "submitted" THEN GoesTo(c, "sync") ELSE PayoutEnds(c)

\* Mutant of Submit: a submitted payout is sent again while it is not resolved.
SubmitUnresolved(c) ==
    /\ At(c, "submit")
    /\ LET status == payouts[calls[c].transfer].status
       IN IF status \notin {"created", "submitted"} THEN AfterSubmit(c, status)
          ELSE IF Provider = "none" THEN PayoutEnds(c)
          ELSE GoesTo(c, "send")
    /\ UNCHANGED <<balance, journal, payouts, payments>>

Submit(c) ==
    /\ At(c, "submit")
    /\ LET status == payouts[calls[c].transfer].status
       IN IF status # "created" THEN AfterSubmit(c, status)
          ELSE IF Provider = "none" THEN PayoutEnds(c)
          ELSE GoesTo(c, "send")
    /\ UNCHANGED <<balance, journal, payouts, payments>>

\* The provider (external): Natcash knows a request by its id, which the adapter
\* derives from the correlation id; MonCash takes every one for a new payment.
MayAccept(t, n) ==
    /\ payments[t][n] = "none"
    /\ Provider = "natcash" => n = 1
    /\ \A m \in 1..(n - 1) : payments[t][m] # "none"

\* sendPayout.  Natcash pays at once, or fails to confirm a request that it
\* remembers, and answers a repeated one with its payment or an error; MonCash
\* takes the payment and decides later.  Either may refuse.
Send(c) ==
    /\ At(c, "send")
    /\ LET t == calls[c].transfer
           accepts(n, state) ==
              MayAccept(t, n) /\ payments' = [payments EXCEPT ![t][n] = state]
       IN \/ \E n \in 1..MaxSends :
                /\ accepts(n, IF Provider = "natcash" THEN "paid" ELSE "pending")
                /\ \/ calls' = [calls EXCEPT ![c].pc = "markSubmitted", ![c].ref = n]
                   \/ "lost_answer" \in Faults /\ GoesTo(c, "noteError")
          \/ /\ Provider = "natcash"
             /\ \E n \in 1..MaxSends : accepts(n, "failed")
             /\ GoesTo(c, "noteError")
          \/ /\ Provider = "natcash"
             /\ \E n \in 1..MaxSends :
                   /\ payments[t][n] = "paid"
                   /\ calls' = [calls EXCEPT ![c].pc = "markSubmitted", ![c].ref = n]
             /\ UNCHANGED payments
          \/ UNCHANGED payments /\ GoesTo(c, "noteError")
    /\ UNCHANGED <<balance, journal, payouts>>

\* The update is not conditional on the status submit has read.  It is returned
\* without an await, so its failure is not caught by submit (see CallFails).
MarkSubmitted(c) ==
    /\ At(c, "markSubmitted")
    /\ payouts' = [payouts EXCEPT ![calls[c].transfer].status = "submitted",
                                  ![calls[c].transfer].ref = calls[c].ref]
    /\ AfterSubmit(c, "submitted") \/ (Ackless /\ PayoutEnds(c))
    /\ UNCHANGED <<balance, journal, payments>>

\* The error is noted on the row, which is returned as it is by then.
NoteError(c) ==
    /\ At(c, "noteError")
    /\ AfterSubmit(c, payouts[calls[c].transfer].status)
    /\ UNCHANGED <<balance, journal, payouts, payments>>

-----------------------------------------------------------------------------
(* sync: submitted -> settled or reversed *)

Sync(c) ==
    /\ At(c, "sync")
    /\ LET row == payouts[calls[c].transfer]
       IN IF row.status = "submitted" /\ row.ref # NoRef /\ Provider # "none"
          THEN calls' = [calls EXCEPT ![c].pc = "poll", ![c].ref = row.ref]
          ELSE PayoutEnds(c)
    /\ UNCHANGED <<balance, journal, payouts, payments>>

\* Mutant of Reports: an unclear answer counts as a success.
ReportsOptimistically(t, ref, state) ==
    ref \in 1..MaxSends /\ payments[t][ref] # "failed" /\ state = "paid"

\* getStatus: Natcash has no status endpoint and the adapter says success; MonCash
\* answers for a payment it knows.
Reports(t, ref, state) ==
    IF Provider = "natcash" THEN state = "paid"
                            ELSE ref \in 1..MaxSends /\ payments[t][ref] = state

\* An error of the status request, or an unclear message, reads as pending.
Poll(c) ==
    /\ At(c, "poll")
    /\ \/ Reports(calls[c].transfer, calls[c].ref, "paid") /\ GoesTo(c, "settle")
       \/ Reports(calls[c].transfer, calls[c].ref, "failed") /\ GoesTo(c, "reverseFx")
       \/ PayoutEnds(c)
    /\ UNCHANGED <<balance, journal, payouts, payments>>

\* The rail's cut is the one locked on the payout; out of range, settlePayout throws.
Settle(c) ==
    /\ At(c, "settle")
    /\ LET t == calls[c].transfer
           row == payouts[t]
       IN IF FeeInRange(row.providerFee, row.quote.receive)
          THEN Posts(c, SettleKey(t),
                     settlePayout(row.quote.to, row.quote.receive, row.providerFee),
                     "markSettled", PayoutEnds(c))
          ELSE UNCHANGED ledgerVars /\ PayoutEnds(c)
    /\ UNCHANGED <<payouts, payments>>

\* The status is written whatever it is by then.
Marks(c, status) ==
    /\ payouts' = [payouts EXCEPT ![calls[c].transfer].status = status]
    /\ PayoutEnds(c)
    /\ UNCHANGED <<balance, journal, payments>>

MarkSettled(c) == At(c, "markSettled") /\ Marks(c, "settled")

\* Mutant of ReverseFx: the first of the two reversal posts is not awaited.
ReverseFxUnawaited(c) ==
    /\ At(c, "reverseFx")
    /\ LET t == calls[c].transfer
       IN Posts(c, ReversalFxKey(t), reverseTransferFx(payouts[t].quote),
                "reverseDebit", PayoutEnds(c))
             \/ (UNCHANGED ledgerVars /\ GoesTo(c, "reverseDebit"))
    /\ UNCHANGED <<payouts, payments>>

ReverseFx(c) ==
    /\ At(c, "reverseFx")
    /\ LET t == calls[c].transfer
       IN Posts(c, ReversalFxKey(t), reverseTransferFx(payouts[t].quote),
                "reverseDebit", PayoutEnds(c))
    /\ UNCHANGED <<payouts, payments>>

ReverseDebit(c) ==
    /\ At(c, "reverseDebit")
    /\ LET t == calls[c].transfer
           row == payouts[t]
       IN Posts(c, ReversalDebitKey(t), reverseTransferDebit(row.sender, row.quote),
                "markReversed", PayoutEnds(c))
    /\ UNCHANGED <<payouts, payments>>

MarkReversed(c) == At(c, "markReversed") /\ Marks(c, "reversed")

-----------------------------------------------------------------------------
(* The administrator's requests *)

Exists(t) == payouts[t] # NoPayout

AdminSubmit(c, t) == Exists(t) /\ Starts(c, "submit", t, FALSE)

AdminSync(c, t) == Exists(t) /\ Starts(c, "sync", t, FALSE)

\* releaseManually: the operator has paid by hand, and may note a reference first.
ReleaseManually(c, t) ==
    /\ "release" \in ManualOps
    /\ payouts[t].status \in {"created", "submitted"}
    /\ Starts(c, "settle", t, FALSE) \/ Starts(c, "noteRef", t, FALSE)

NoteRef(c) ==
    /\ At(c, "noteRef")
    /\ payouts' = [payouts EXCEPT ![calls[c].transfer].ref = OperatorRef]
    /\ GoesTo(c, "settle") \/ (Ackless /\ PayoutEnds(c))
    /\ UNCHANGED <<balance, journal, payments>>

FailManually(c, t) ==
    /\ "fail" \in ManualOps
    /\ payouts[t].status \in {"created", "submitted"}
    /\ Starts(c, "reverseFx", t, FALSE)

AdminStarts(c, t) ==
    /\ AdminSubmit(c, t) \/ AdminSync(c, t) \/ ReleaseManually(c, t) \/ FailManually(c, t)
    /\ UNCHANGED <<balance, journal, payouts, payments>>

\* The next await of a payout handler completes.
PayoutProceeds(c) ==
    \/ Submit(c) \/ Send(c) \/ MarkSubmitted(c) \/ NoteError(c)
    \/ Sync(c) \/ Poll(c) \/ Settle(c) \/ MarkSettled(c)
    \/ ReverseFx(c) \/ ReverseDebit(c) \/ MarkReversed(c)
    \/ NoteRef(c)

\* A store or ledger call rejects without effect and the handler throws.
PayoutCallFails(c) ==
    /\ calls[c].pc \in PayoutPcs
    /\ \/ StoreFails /\ calls[c].pc \notin {"send", "poll", "settle", "reverseFx", "reverseDebit"}
       \/ LedgerFails /\ calls[c].pc \in {"settle", "reverseFx", "reverseDebit"}
    /\ PayoutEnds(c)
    /\ UNCHANGED <<balance, journal, payouts, payments>>

\* MonCash pays a payment it has taken, or gives up on it.
ProviderDecides(t, n) ==
    /\ payments[t][n] = "pending"
    /\ \E state \in {"paid", "failed"} : payments' = [payments EXCEPT ![t][n] = state]
    /\ UNCHANGED <<balance, journal, payouts, calls>>
=============================================================================
