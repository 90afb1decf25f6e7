---------------------------- MODULE TransferSaga ----------------------------
(***************************************************************************)
(* Cross-currency transfers as a crash-safe saga: TransferService          *)
(* (transfers/transfer-service.ts) over its store, the ledger and          *)
(* Payouts.                                                                *)
(*                                                                         *)
(*     pending -debit-> debited -fx-> fx_booked -payout-> completed        *)
(*                                                                         *)
(* A run reads the transfer once and then goes on with the row its own     *)
(* setStatus returns; its pc is the step it has reached.  A client may     *)
(* send one request twice, so two runs of a transfer may be in flight.     *)
(* Pricing is Quotes: what the live rates may quote when initiate is       *)
(* called.                                                                 *)
(***************************************************************************)
EXTENDS Payouts

CONSTANTS
    Quotes,             \* what a transfer may be quoted
    Rails,              \* rails a sender may choose; "none" when omitted
    ProviderFees,       \* fees of the rail a payout may be created with
    InitialBalances,    \* balances the service may start from
    MaxCrashes          \* bound on the number of restarts

\* The transfers table checks that send_minor and receive_minor are positive and
\* fee_minor is not negative; the ledger keeps users' accounts non-negative.
ASSUME TransferSagaAssumption ==
    /\ Quotes \subseteq {q \in Quote : q.send > 0 /\ q.fee >= 0 /\ q.receive > 0}
    /\ ProviderFees \subseteq Nat
    /\ InitialBalances \subseteq
          {b \in [Accounts -> Int] : \A a \in Accounts : a.kind \in NonNegativeKinds => b[a] >= 0}
    /\ MaxCrashes \in Nat

\* Before the first transfer nothing is booked for payouts, and the report adds
\* up the rows of a table.
ASSUME NothingBookedAssumption ==
    /\ IsFiniteSet(Transfers)
    /\ \A b \in InitialBalances, k \in Currencies :
          /\ b[systemAccount("payout_suspense", k)] = 0
          /\ b[systemAccount("provider_fee", k)] = 0

VARIABLES
    transfers,      \* transfers: correlation id -> row
    auto,           \* the payout.auto.* settings: rails with auto-disbursement on
    serving,        \* the server accepts requests (it does once recovery is over)
    recovery,       \* transfers the boot recovery has listed and not run yet
    crashes         \* restarts so far

sagaVars == <<transfers, auto, serving, recovery, crashes>>
vars == <<balance, journal, payouts, payments, calls,
          transfers, auto, serving, recovery, crashes>>

-----------------------------------------------------------------------------
(* Rows *)

TransferStatus == {"pending", "debited", "fx_booked", "completed"}

NoTransfer == [status |-> "none"]
Transfer == [status : TransferStatus, sender : Customers, quote : Quote,
             rail : Rails \cup {"none"}]

\* Mutant of transferCreate: a retry writes its own quote over the row.
transferUpsert(t, row) ==
    transfers' = [transfers EXCEPT ![t] =
        IF @ = NoTransfer THEN row ELSE [@ EXCEPT !.quote = row.quote]]

\* Idempotent per correlation id: the quote of the first request stays.
transferCreate(t, row) ==
    IF transfers[t] = NoTransfer THEN transfers' = [transfers EXCEPT ![t] = row]
                                 ELSE UNCHANGED transfers

\* Mutant of listIncomplete: a transfer whose wallet was charged is skipped.
listPending == {t \in Transfers : transfers[t].status = "pending"}

listIncomplete ==
    {t \in Transfers : transfers[t].status \in TransferStatus \ {"completed"}}

\* A run's await of setStatus, which does not look at the status it overwrites.
RunMarks(c, status, next) ==
    /\ transfers' = [transfers EXCEPT ![calls[c].transfer].status = status]
    /\ next \/ (Ackless /\ Returns(c))
    /\ UNCHANGED <<balance, journal, payouts, payments, auto, serving, recovery, crashes>>

-----------------------------------------------------------------------------
(* initiate *)

\* The request is priced, its intent is stored, and a run starts.
Initiate(c, t, sender, quote, rail) ==
    /\ serving
    /\ transferCreate(t, [status |-> "pending", sender |-> sender, quote |-> quote,
                          rail |-> rail])
    /\ \/ Starts(c, "load", t, TRUE)
       \/ Ackless /\ calls[c] = Idle /\ UNCHANGED calls
    /\ UNCHANGED <<balance, journal, payouts, payments, auto, serving, recovery, crashes>>

(* run *)

\* Mutant of FirstStep: a debited transfer goes on with its payout.
FirstStepSkippingFx ==
    [pending |-> "debit", debited |-> "payout", fx_booked |-> "payout"]

\* The step a run starts with, by the status it has read.
FirstStep == [pending |-> "debit", debited |-> "fx", fx_booked |-> "payout"]

Load(c) ==
    /\ At(c, "load")
    /\ LET status == transfers[calls[c].transfer].status
       IN IF status = "completed" THEN Returns(c) ELSE GoesTo(c, FirstStep[status])
    /\ UNCHANGED <<balance, journal, payouts, payments>>
    /\ UNCHANGED sagaVars

Debit(c) ==
    /\ At(c, "debit")
    /\ LET t == calls[c].transfer
       IN Posts(c, DebitKey(t),
                transferDebitJournal(transfers[t].sender, transfers[t].quote),
                "markDebited", Returns(c))
    /\ UNCHANGED <<payouts, payments>>
    /\ UNCHANGED sagaVars

MarkDebited(c) == At(c, "markDebited") /\ RunMarks(c, "debited", GoesTo(c, "fx"))

Fx(c) ==
    /\ At(c, "fx")
    /\ LET t == calls[c].transfer
       IN Posts(c, FxKey(t), transferFxJournal(transfers[t].quote),
                "markBooked", Returns(c))
    /\ UNCHANGED <<payouts, payments>>
    /\ UNCHANGED sagaVars

MarkBooked(c) == At(c, "markBooked") /\ RunMarks(c, "fx_booked", GoesTo(c, "payout"))

\* Mutant of CreatePayout: the payout is made out for the amount sent.
CreatePayoutOfSend(c, fee) ==
    /\ At(c, "payout")
    /\ LET t == calls[c].transfer
       IN payoutCreate(t, [status |-> "created", sender |-> transfers[t].sender,
                           quote |-> [transfers[t].quote EXCEPT !.receive = transfers[t].quote.send],
                           providerFee |-> fee, ref |-> NoRef])
    /\ GoesTo(c, "auto")
    /\ UNCHANGED <<balance, journal, payments>>
    /\ UNCHANGED sagaVars

\* The rail's fee is resolved (0 without a corridor) and the payout created.
CreatePayout(c, fee) ==
    /\ At(c, "payout")
    /\ LET t == calls[c].transfer
       IN payoutCreate(t, [status |-> "created", sender |-> transfers[t].sender,
                           quote |-> transfers[t].quote, providerFee |-> fee,
                           ref |-> NoRef])
    /\ GoesTo(c, "auto") \/ (Ackless /\ Returns(c))
    /\ UNCHANGED <<balance, journal, payments>>
    /\ UNCHANGED sagaVars

\* Auto-disbursement needs the rail's setting on and the wired port to serve it.
AutoDisburse(c) ==
    /\ At(c, "auto")
    /\ LET rail == transfers[calls[c].transfer].rail
       IN IF rail # "none" /\ rail = Provider /\ rail \in auto
          THEN GoesTo(c, "submit") ELSE GoesTo(c, "markCompleted")
    /\ UNCHANGED <<balance, journal, payouts, payments>>
    /\ UNCHANGED sagaVars

MarkCompleted(c) == At(c, "markCompleted") /\ RunMarks(c, "completed", Returns(c))

\* A store or ledger call of a run rejects without effect, and the run throws.
RunFails(c) ==
    /\ \/ StoreFails /\ calls[c].pc \in SagaPcs \ {"debit", "fx"}
       \/ LedgerFails /\ calls[c].pc \in {"debit", "fx"}
    /\ Returns(c)
    /\ UNCHANGED <<balance, journal, payouts, payments>>
    /\ UNCHANGED sagaVars

-----------------------------------------------------------------------------
(* Settings, restarts and the boot recovery *)

SetAuto(rails) ==
    /\ auto' = rails
    /\ UNCHANGED <<balance, journal, payouts, payments, calls>>
    /\ UNCHANGED <<transfers, serving, recovery, crashes>>

\* The process dies and restarts: recover lists what is not completed.
Crash ==
    /\ "crash" \in Faults
    /\ crashes < MaxCrashes
    /\ crashes' = crashes + 1
    /\ calls' = [c \in Calls |-> Idle]
    /\ serving' = FALSE
    /\ recovery' = listIncomplete
    /\ UNCHANGED <<balance, journal, payouts, payments, transfers, auto>>

NobodyRuns == \A c \in Calls : calls[c] = Idle

\* recover runs them one after the other; a run that throws is skipped.
Recover(c, t) ==
    /\ t \in recovery
    /\ NobodyRuns
    /\ Starts(c, "load", t, TRUE)
    /\ recovery' = recovery \ {t}
    /\ UNCHANGED <<balance, journal, payouts, payments>>
    /\ UNCHANGED <<transfers, auto, serving, crashes>>

\* The server listens once the recovery is over.
Listen ==
    /\ ~serving
    /\ recovery = {}
    /\ NobodyRuns
    /\ serving' = TRUE
    /\ UNCHANGED <<balance, journal, payouts, payments, calls>>
    /\ UNCHANGED <<transfers, auto, recovery, crashes>>

-----------------------------------------------------------------------------

Init ==
    /\ balance \in InitialBalances
    /\ journal = [k \in Keys |-> NoJournal]
    /\ payouts = [t \in Transfers |-> NoPayout]
    /\ payments = [t \in Transfers |-> [n \in 1..MaxSends |-> "none"]]
    /\ calls = [c \in Calls |-> Idle]
    /\ transfers = [t \in Transfers |-> NoTransfer]
    /\ auto = {}
    /\ serving = TRUE
    /\ recovery = {}
    /\ crashes = 0

\* The next await of a run completes.
RunProceeds(c) ==
    \/ Load(c) \/ Debit(c) \/ MarkDebited(c) \/ Fx(c) \/ MarkBooked(c)
    \/ \E fee \in ProviderFees : CreatePayout(c, fee)
    \/ AutoDisburse(c) \/ MarkCompleted(c)

\* A step of the payout service or of the provider.
PayoutNext ==
    /\ \/ \E c \in Calls : PayoutProceeds(c) \/ PayoutCallFails(c)
       \/ serving /\ \E c \in Calls, t \in Transfers : AdminStarts(c, t)
       \/ \E t \in Transfers, n \in 1..MaxSends : ProviderDecides(t, n)
    /\ UNCHANGED sagaVars

Next ==
    \/ \E c \in Calls, t \in Transfers :
          \/ \E sender \in Customers, quote \in Quotes, rail \in Rails \cup {"none"} :
                Initiate(c, t, sender, quote, rail)
          \/ Recover(c, t)
    \/ \E c \in Calls : RunProceeds(c) \/ RunFails(c)
    \/ PayoutNext
    \/ \E rails \in SUBSET Rails : SetAuto(rails)
    \/ Crash
    \/ Listen

Spec == Init /\ [][Next]_vars

\* Handlers run to their end unless the process dies, a restarted server
\* recovers and listens, and the provider decides.  Nothing is assumed about
\* clients, administrators or what the provider's status request answers.
Fairness ==
    /\ \A c \in Calls : WF_vars(RunProceeds(c) \/ (PayoutProceeds(c) /\ UNCHANGED sagaVars))
    /\ WF_vars(\E c \in Calls, t \in Transfers : Recover(c, t))
    /\ WF_vars(Listen)
    /\ \A t \in Transfers, n \in 1..MaxSends :
          WF_vars(ProviderDecides(t, n) /\ UNCHANGED sagaVars)

FairSpec == Spec /\ Fairness

-----------------------------------------------------------------------------
(* Properties *)

TypeOK ==
    /\ balance \in [Accounts -> Int]
    /\ journal \in [Keys -> Seq(Posting)]
    /\ payouts \in [Transfers -> Payout \cup {NoPayout}]
    /\ payments \in [Transfers -> [1..MaxSends -> PaymentState]]
    /\ calls \in [Calls -> CallState]
    /\ transfers \in [Transfers -> Transfer \cup {NoTransfer}]
    /\ auto \subseteq Rails
    /\ serving \in BOOLEAN
    /\ recovery \subseteq Transfers
    /\ crashes \in Nat

\* A status column never runs ahead of the ledger: what it says has been done has
\* been posted, in spite of unconditional updates by concurrent runs and
\* administrators, failures and restarts (run, settle, reverse).
StatusIsBacked ==
    \A t \in Transfers :
        /\ transfers[t].status \in {"debited", "fx_booked", "completed"} => Posted(DebitKey(t))
        /\ transfers[t].status \in {"fx_booked", "completed"} => Posted(FxKey(t))
        /\ transfers[t].status = "completed" => Exists(t)
        /\ payouts[t].status = "settled" => Posted(SettleKey(t))
        /\ payouts[t].status = "reversed" =>
              Posted(ReversalFxKey(t)) /\ Posted(ReversalDebitKey(t))

\* The provider is never asked to pay with money that was not taken from the
\* sender and booked for the payout first (run, submit).
PaidOnlyIfFunded ==
    \A t \in Transfers, n \in 1..MaxSends :
        payments[t][n] # "none" => Posted(DebitKey(t)) /\ Posted(FxKey(t))

\* A settlement takes out of payout_suspense what the transfer's first request
\* locked, and splits out the rail's fee locked on the payout, whatever the live
\* rates have become when a request is repeated (initiate, createForTransfer).
SettledAsLocked ==
    \A t \in Transfers : Posted(SettleKey(t)) =>
        LET q == transfers[t].quote
            moved(kind) == Delta(journal[SettleKey(t)], systemAccount(kind, q.to))
        IN /\ moved("payout_suspense") = -q.receive
           /\ moved("provider_fee") = payouts[t].providerFee

\* What the sender sees of a transfer is in the ledger, not in the status.
Stage(t) == IF Posted(FxKey(t)) THEN "booked"
            ELSE IF Posted(DebitKey(t)) THEN "charged" ELSE "requested"
Refunded(t) == IF Posted(ReversalDebitKey(t)) THEN "done"
               ELSE IF Posted(ReversalFxKey(t)) THEN "started" ELSE "no"

SenderWallets == {customerWallet(s, k) : s \in Customers, k \in Currencies}
RequestOf(sender, quote) ==
    [wallet |-> customerWallet(sender, quote.from), charge |-> quote.send + quote.fee]

RemittanceOf(t) ==
    IF transfers[t] = NoTransfer THEN [stage |-> "none"]
    ELSE [stage |-> Stage(t),
          request |-> RequestOf(transfers[t].sender, transfers[t].quote),
          settled |-> Posted(SettleKey(t)),
          refund |-> Refunded(t)]

Promise == INSTANCE Remittance WITH
    Wallets <- SenderWallets,
    Requests <- {RequestOf(s, q) : s \in Customers, q \in Quotes},
    wallet <- [w \in SenderWallets |-> balance[w]],
    remittance <- [t \in Transfers |-> RemittanceOf(t)]

\* Whatever fails, the runs, the payouts and the recovery together charge, book,
\* settle and refund each transfer as Remittance says.
RemittanceSpec == Promise!Spec

\* "(before settlement)" (reverseTransfer): a transfer is not both settled and
\* reversed.  It holds while submit and sync are not run concurrently and the
\* operator does not resolve payouts by hand.
NeverSettledAndReversed ==
    \A t \in Transfers : ~(Posted(SettleKey(t)) /\ Posted(ReversalFxKey(t)))

\* What a transfer is still owed in a currency: its amount is booked and neither
\* paid out nor given back.
Owed(k, t) ==
    IF /\ Posted(FxKey(t)) /\ transfers[t].quote.to = k
       /\ ~Posted(SettleKey(t)) /\ ~Posted(ReversalFxKey(t))
    THEN transfers[t].quote.receive ELSE 0

\* Under the same conditions payout_suspense is exactly what is still owed: it
\* is not paid out of other senders' money.
SuspenseIsOwed ==
    \A k \in Currencies :
        balance[systemAccount("payout_suspense", k)] =
            SumFunction([t \in Transfers |-> Owed(k, t)])

\* Money leaves payout_suspense on the provider's word only: "never settle or
\* reverse on an ambiguous status" (getStatus).
ResolutionFollowsProvider ==
    \A t \in Transfers :
        /\ Posted(SettleKey(t)) => \E n \in 1..MaxSends : payments[t][n] = "paid"
        /\ Posted(ReversalFxKey(t)) => \E n \in 1..MaxSends : payments[t][n] = "failed"

\* A payout is resolved on the provider's word, and once.
ResolvedOnceOnItsWord == NeverSettledAndReversed /\ ResolutionFollowsProvider

\* Once the provider's answer is recorded it is not asked to pay again, whatever is
\* repeated, restarted or recovered, and it is on that payment that the money leaves
\* payout_suspense ("already submitted/settled/reversed", submit).  Under the same
\* conditions as above; a payment whose answer was lost before it was recorded is
\* made a second time.
RecordedPaymentIsTheLast ==
    \A t \in Transfers :
        LET ref == payouts[t].ref
        IN /\ Exists(t) /\ ref # NoRef => \A n \in 1..MaxSends : n > ref => payments[t][n] = "none"
           /\ Posted(SettleKey(t)) => ref \in 1..MaxSends /\ payments[t][ref] = "paid"
           /\ Posted(ReversalFxKey(t)) => ref \in 1..MaxSends /\ payments[t][ref] = "failed"

\* What the report adds up for a currency.
SettledFees(k) ==
    SumFunction([t \in Transfers |->
        IF payouts[t].status = "settled" /\ payouts[t].quote.to = k
        THEN payouts[t].providerFee ELSE 0])

\* "the sum of the fee LOCKED on each settled payout must equal the balance the
\* ledger accrued" (reconciliation.ts:7), as soon as every settlement that was
\* posted is marked; until then the ledger is ahead of the report (settle).
ReportIsConsistent ==
    (\A t \in Transfers : Posted(SettleKey(t)) => payouts[t].status = "settled") =>
        \A k \in Currencies : balance[systemAccount("provider_fee", k)] = SettledFees(k)

\* The two platform accounts the payouts move hold what the payouts say.
PlatformAccountsAddUp == SuspenseIsOwed /\ ReportIsConsistent

\* No stuck funds: once the wallet is charged the transfer completes for good, a
\* restart at any await included (run, recover).
ChargedCompletes ==
    \A t \in Transfers : Posted(DebitKey(t)) ~> [](transfers[t].status = "completed")
=============================================================================
