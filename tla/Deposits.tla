------------------------------ MODULE Deposits ------------------------------
(***************************************************************************)
(* Money in: charges opened at Lytex (PIX, card) and NOWPayments (USDT),   *)
(* the intents that remember whom to credit, and the webhooks that credit  *)
(* them (api/routes.ts, api/app-routes.ts, payments/, deposits/).          *)
(*                                                                         *)
(* A provider delivers the same event as often as it likes, and until it   *)
(* is acknowledged.  A webhook whose signature does not verify is refused  *)
(* before it touches anything, so it is no action here; the name, document *)
(* and screening of the payer only make a request refused.                 *)
(***************************************************************************)
EXTENDS ServiceCalls

CONSTANTS Charges,        \* the ids the providers give charges and payments
          Gateway,        \* charge -> the provider that gave the id
          DepositCurrency,\* provider -> the currency of its deposits
          DepositAmounts, \* what customers ask to deposit
          Depositor,      \* charge -> the customer who opens it
          Reports         \* provider -> what its callbacks may report, [net, gross]

\* lytex:${providerId}, nowpayments:${paymentId}
FundKey(d) == <<Gateway[d], d>>

ASSUME DepositsAssumption ==
    /\ Gateway \in [Charges -> {"lytex", "nowpayments"}]
    /\ DepositCurrency \in [{"lytex", "nowpayments"} -> Currencies]
    /\ DepositAmounts \subseteq Nat \ {0}
    /\ Depositor \in [Charges -> Customers]
    /\ \A d \in Charges : \A report \in Reports[Gateway[d]] :
          \A amount \in {report.net, report.gross} :
             /\ amount \in Money!Decimal \cup {Money!NotDecimal}
             /\ Money!usdtMinorOrNull(amount) \in Int
    /\ {FundKey(d) : d \in Charges} \subseteq Keys

VARIABLES charges,   \* the providers' records: charge -> what became of it
          intents,   \* payment_intents: charge -> row
          events     \* provider_events: the (charge, event uid) handled

depositVars == <<charges, intents, events>>

\* shown: the customer has the QR code or the address.  A charge that is never
\* shown is never paid.
NoCharge == [state |-> "none"]
Charge == [state : {"open", "shown"}]
    \cup [state : {"paid"}, report : UNION {Reports[Gateway[d]] : d \in Charges}]

NoIntent == [status |-> "none"]
Intent == [status : {"pending", "paid"}, customer : Customers, amount : Nat]

\* settled: the event that says the charge is paid; update: any other.
EventKinds == {"update", "settled"}

DepositCalls ==
    [pc : {"dep.intent"}, charge : Charges, amount : Nat]
    \cup [pc : {"hook.intent", "hook.fund", "hook.paid", "hook.record"},
          charge : Charges, event : EventKinds]

-----------------------------------------------------------------------------
(* Opening a deposit: createCharge or createDeposit, then intents.create *)

\* The provider opens a charge, or refuses, or the answer is lost.
OpenDeposit(c, d, amount) ==
    /\ Receives(c, "deposit")
    /\ charges[d] = NoCharge
    /\ charges' = [charges EXCEPT ![d] = [state |-> "open"]]
    /\ \/ Starts(c, [pc |-> "dep.intent", charge |-> d, amount |-> amount])
       \/ MayHappen("lost_answer") /\ UNCHANGED calls
    /\ UNCHANGED <<balance, journal, intents, events>>

\* ON CONFLICT DO NOTHING, and a charge is new.  Only then is it shown.
RecordIntent(c) ==
    /\ At(c, "dep.intent")
    /\ LET d == calls[c].charge
           row == [status |-> "pending", customer |-> Depositor[d],
                   amount |-> calls[c].amount]
       IN AwaitsWrite(intents' = [intents EXCEPT ![d] = row],
                      UNCHANGED intents,
                      Returns(c) /\ charges' = [charges EXCEPT ![d].state = "shown"],
                      Returns(c) /\ UNCHANGED charges)
    /\ UNCHANGED <<balance, journal, events>>

\* The customer pays.  NOWPayments will report what arrives (outcome_amount) and
\* what was sent (actually_paid), if anything.
Pay(d, report) ==
    /\ charges[d].state = "shown"
    /\ charges' = [charges EXCEPT ![d] = [state |-> "paid", report |-> report]]
    /\ UNCHANGED <<balance, journal, calls, intents, events>>

-----------------------------------------------------------------------------
(* The webhooks: seen, get, fundWallet, markPaid, record *)

Happened(d, event) ==
    IF event = "settled" THEN charges[d].state = "paid" ELSE charges[d] # NoCharge

\* Mutant of Deliver: the event is recorded before it is handled.
DeliverRecordingFirst(c, d, event) ==
    /\ Receives(c, "deposit")
    /\ Happened(d, event)
    /\ <<d, event>> \notin events
    /\ Starts(c, [pc |-> IF event = "settled" THEN "hook.intent" ELSE "hook.record",
                  charge |-> d, event |-> event])
    /\ events' = events \cup {<<d, event>>}
    /\ UNCHANGED <<balance, journal, charges, intents>>

\* events.seen(): a duplicate is acknowledged and nothing happens.  An event
\* that does not say paid is only recorded.
Deliver(c, d, event) ==
    /\ Receives(c, "deposit")
    /\ Happened(d, event)
    /\ <<d, event>> \notin events
    /\ Starts(c, [pc |-> IF event = "settled" THEN "hook.intent" ELSE "hook.record",
                  charge |-> d, event |-> event])
    /\ UNCHANGED <<balance, journal, depositVars>>

\* intents.get(): nothing to credit is acknowledged too.
HookIntent(c) ==
    /\ At(c, "hook.intent")
    /\ LET d == calls[c].charge
           credited == Gateway[d] = "nowpayments" /\ intents[d].status = "paid"
       IN GoesTo(c, IF intents[d] = NoIntent \/ credited
                    THEN "hook.record" ELSE "hook.fund")
    /\ UNCHANGED <<balance, journal, depositVars>>

\* Lytex credits the recorded amount; NOWPayments the first of outcome, gross and
\* recorded amount that is positive.
CreditMinor(d) ==
    LET net == Money!usdtMinorOrNull(charges[d].report.net)
        gross == Money!usdtMinorOrNull(charges[d].report.gross)
    IN IF Gateway[d] = "lytex" THEN intents[d].amount
       ELSE IF net # Money!NoAmount THEN net
       ELSE IF gross # Money!NoAmount THEN gross
       ELSE intents[d].amount

\* Mutant of HookFund: the webhook is acknowledged whatever becomes of the credit.
HookFundUnawaited(c) ==
    /\ At(c, "hook.fund")
    /\ LET d == calls[c].charge
       IN AwaitsPost(FundKey(d),
                     fundWallet(intents[d].customer, DepositCurrency[Gateway[d]],
                                CreditMinor(d)),
                     GoesTo(c, "hook.paid"), GoesTo(c, "hook.paid"))
    /\ UNCHANGED depositVars

HookFund(c) ==
    /\ At(c, "hook.fund")
    /\ LET d == calls[c].charge
       IN AwaitsPost(FundKey(d),
                     fundWallet(intents[d].customer, DepositCurrency[Gateway[d]],
                                CreditMinor(d)),
                     GoesTo(c, "hook.paid"), Returns(c))
    /\ UNCHANGED depositVars

HookMarkPaid(c) ==
    /\ At(c, "hook.paid")
    /\ AwaitsWrite(intents' = [intents EXCEPT ![calls[c].charge].status = "paid"],
                   UNCHANGED intents, GoesTo(c, "hook.record"), Returns(c))
    /\ UNCHANGED <<balance, journal, charges, events>>

HookRecord(c) ==
    /\ At(c, "hook.record")
    /\ AwaitsWrite(events' = events \cup {<<calls[c].charge, calls[c].event>>},
                   UNCHANGED events, Returns(c), Returns(c))
    /\ UNCHANGED <<balance, journal, charges, intents>>

-----------------------------------------------------------------------------

DepositInit ==
    /\ charges = [d \in Charges |-> NoCharge]
    /\ intents = [d \in Charges |-> NoIntent]
    /\ events = {}

DepositSteps ==
    \E d \in Charges :
        \/ \E c \in Calls, n \in DepositAmounts : OpenDeposit(c, d, n)
        \/ \E report \in Reports[Gateway[d]] : Pay(d, report)
        \/ \E c \in Calls, event \in EventKinds : Deliver(c, d, event)

DepositProceeds(c) ==
    \/ RecordIntent(c)
    \/ HookIntent(c) \/ HookFund(c) \/ HookMarkPaid(c) \/ HookRecord(c)

\* A provider keeps delivering a settlement until it is acknowledged.
Redelivered(d) == \E c \in Calls : Deliver(c, d, "settled")

DepositTypeOK ==
    /\ charges \in [Charges -> Charge \cup {NoCharge}]
    /\ intents \in [Charges -> Intent \cup {NoIntent}]
    /\ events \subseteq Charges \X EventKinds

-----------------------------------------------------------------------------
(* Properties *)

\* A settlement is acknowledged for good only when the wallet has been credited:
\* an event recorded as handled, or an intent marked paid, has its journal, however
\* often it is delivered and whichever step fails ("record only after successful
\* handling, so a failed handler is retried").
HandledIsCredited ==
    \A d \in Charges :
        (<<d, "settled">> \in events \/ intents[d].status = "paid") => Posted(FundKey(d))

\* The provider forwards the outcome of a USDT payment to the platform, and the
\* customer is never credited more than that when it is known ("crediting
\* actually_paid would over-credit by the fee"), nor credited before the payment,
\* nor for a PIX anything but the amount of the charge.
CreditNeverExceedsFunds ==
    \A d \in Charges : Posted(FundKey(d)) =>
        LET gain == Delta(journal[FundKey(d)],
                          customerWallet(intents[d].customer, DepositCurrency[Gateway[d]]))
            net == Money!usdtMinorOrNull(charges[d].report.net)
        IN /\ charges[d].state = "paid"
           /\ Gateway[d] = "lytex" => gain = intents[d].amount
           /\ Gateway[d] = "nowpayments" /\ net # Money!NoAmount => gain <= net

\* What is acknowledged was credited, and what is credited was received.
DepositsMatchLedger == HandledIsCredited /\ CreditNeverExceedsFunds

\* A customer who has paid is credited in the end, although the process restarts
\* between any two steps and deliveries race, as long as the stores answer and no
\* other service keeps the handlers busy.
PaidIsCredited ==
    \A d \in Charges :
        (env.services = {"deposit"} /\ env.faults \subseteq {"crash", "lost_answer"}) =>
            (charges[d].state = "paid" ~> Posted(FundKey(d)))
=============================================================================
