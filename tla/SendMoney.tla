----------------------------- MODULE SendMoney -----------------------------
(***************************************************************************)
(* Sending money, from the app's form to the booked transfer: SendScreen   *)
(* with its queries (mobile, SendScreen.tsx and core/src/query.ts), the    *)
(* handler of POST /app/transfers (api/app-routes.ts) and the first steps  *)
(* of TransferService.initiate.                                            *)
(*                                                                         *)
(* The rest of the transfer, which TransferSaga models await by await, is  *)
(* one step here: what this module is about is which transfers are booked, *)
(* with what content and at what price, when customers press again after   *)
(* an answer that did not come.                                            *)
(***************************************************************************)
EXTENDS Pricing, Customers, Sequences, Functions

CONSTANTS Registered,      \* recipient -> the name a NatCash lookup answers, or none
          InitialRates,    \* fx_rates at the start
          RateChanges,     \* rows an admin may set, as <<corridor, row>>
          MaxPresses,      \* bound on presses of the button
          MaxVisits,       \* bound on visits to the screen, and on its resets
          MaxRateChanges,  \* bound on the changes of one row
          Environments     \* the environments behaviours may start in

To == "HTG"
Doings == {"rates", "status", "kyc", "admin_kyc", "leave"}
FaultKinds == {"lost_request", "lost_answer", "poor", "restart"}

ASSUME SendMoneyAssumption ==
    /\ MaxPresses \in Nat \ {0} /\ MaxVisits \in Nat \ {0} /\ MaxRateChanges \in Nat
    /\ Environments \subseteq [from : CURRENCIES, amounts : SUBSET Decimal, names : SUBSET SUBSET STRING,
                               rails : SUBSET {"moncash", "natcash"},
                               doings : SUBSET Doings, faults : SUBSET FaultKinds]

\* The rows of fx_rates, from the start on, are what setRate() takes.
ASSUME RatesAssumption ==
    /\ InitialRates \in [DOMAIN InitialRates -> RateRecord]
    /\ \A change \in RateChanges : change[2] \in RateRecord

VARIABLES env,        \* the environment, never changed
          rates,      \* fx_rates
          form,       \* the inputs of the screen
          settled,    \* the amount and the recipient once debounced
          quotes,     \* query cache: amount -> pricing
          lookups,    \* query cache: recipients looked up
          idem,       \* the ref: the last inputs pressed with, and their key
          screen,     \* what the screen shows
          visit,      \* how often the screen was opened or reset
          presses,    \* the presses so far, each with its request in flight
          transfers   \* key -> row of transfers, with its payout's fee

formVars == <<form, settled, quotes, lookups, visit>>
vars == <<env, rates, formVars, idem, screen, presses, transfers, customerVars>>

NoName == {}
NoRecipient == ""
Recipients == DOMAIN Registered
Blank == [amount |-> NotDecimal, recipient |-> NoRecipient, name |-> NoName, rail |-> "moncash"]
Unsettled == [amount |-> NotDecimal, recipient |-> NoRecipient]
Form == [amount : env.amounts \cup {NotDecimal}, recipient : Recipients \cup {NoRecipient},
         name : env.names \cup Range(Registered) \cup {NoName}, rail : env.rails \cup {"moncash"}]
NoIdem == [sig |-> Blank, key |-> 0]

\* A row or a cache entry is added or replaced.
Put(table, key, row) ==
    [k \in DOMAIN table \cup {key} |-> IF k = key THEN row ELSE table[k]]

Doing(d) == d \in env.doings
MayHappen(fault) == fault \in env.faults

-----------------------------------------------------------------------------
(* The form *)

\* The screen shows the form, whose inputs stay open while a send is pending.
Editable == screen \in {"form", "pending"}

Edit(field, value) ==
    /\ Editable
    /\ form[field] # value
    /\ form' = [form EXCEPT ![field] = value]
    /\ UNCHANGED <<env, rates, settled, quotes, lookups, visit, idem, screen, presses, transfers, customerVars>>

Edits ==
    \/ \E a \in env.amounts : Edit("amount", a)
    \/ \E r \in Recipients : Edit("recipient", r)
    \/ \E n \in env.names : Edit("name", n)
    \/ \E r \in env.rails : Edit("rail", r)

\* resolvedName: what the cache has for the debounced recipient, on either rail.
resolvedName(recipient, found) == IF recipient \in found THEN Registered[recipient] ELSE NoName

\* The effect of a resolved name that changed: it fills the input.
Autofill(recipient, found) ==
    LET name == resolvedName(recipient, found)
    IN form' = IF name # NoName /\ name # resolvedName(settled.recipient, lookups)
               THEN [form EXCEPT !.name = name]
               ELSE form

SettleAmount ==
    /\ settled.amount # form.amount
    /\ settled' = [settled EXCEPT !.amount = form.amount]
    /\ UNCHANGED <<env, rates, form, quotes, lookups, visit, idem, screen, presses, transfers, customerVars>>

SettleRecipient ==
    /\ settled.recipient # form.recipient
    /\ settled' = [settled EXCEPT !.recipient = form.recipient]
    /\ Autofill(form.recipient, lookups)
    /\ UNCHANGED <<env, rates, quotes, lookups, visit, idem, screen, presses, transfers, customerVars>>

\* useRecipientLookup: only a NatCash number is looked up.
Lookup ==
    /\ settled.recipient \in Recipients \ lookups
    /\ form.rail = "natcash"
    /\ lookups' = lookups \cup {settled.recipient}
    /\ Autofill(settled.recipient, lookups')
    /\ UNCHANGED <<env, rates, settled, quotes, visit, idem, screen, presses, transfers, customerVars>>

\* useQuote: the pricing of the debounced amount; one the server refuses is no data.
FetchQuote ==
    LET sendMinor == toMinor(settled.amount, env.from)
    IN /\ settled.amount.digits > 0
       /\ sendMinor # NoAmount /\ isPriced(rates, env.from, To)
       /\ quotes' = Put(quotes, settled.amount, priceTransfer(rates, env.from, To, sendMinor))
       /\ quotes' # quotes
       /\ UNCHANGED <<env, rates, form, settled, lookups, visit, idem, screen, presses, transfers, customerVars>>

\* The screen is left and opened again; the cache of the queries survives.
Reopen ==
    /\ Doing("leave")
    /\ visit < MaxVisits
    /\ screen # "sent"
    /\ visit' = visit + 1
    /\ form' = Blank /\ settled' = Unsettled /\ idem' = NoIdem /\ screen' = "form"
    /\ UNCHANGED <<env, rates, quotes, lookups, presses, transfers, customerVars>>

\* reset(): the button of the success screen; the rail stays, and so does the
\* debounced recipient, until its timer fires.
Reset ==
    /\ screen = "sent"
    /\ visit < MaxVisits
    /\ visit' = visit + 1
    /\ form' = [Blank EXCEPT !.rail = form.rail]
    /\ settled' = [settled EXCEPT !.amount = NotDecimal]
    /\ idem' = NoIdem /\ screen' = "form"
    /\ UNCHANGED <<env, rates, quotes, lookups, presses, transfers, customerVars>>

-----------------------------------------------------------------------------
(* The button *)

\* quoteReady: the quote is of the amount in the form.
canSend ==
    /\ screen = "form"
    /\ form.amount.digits > 0 /\ form.recipient # NoRecipient /\ form.name # NoName
    /\ settled.amount = form.amount
    /\ form.amount \in DOMAIN quotes

NewKey == Cardinality({presses[i].key : i \in DOMAIN presses}) + 1

\* Mutant of idemKeyFor: every press has its own key.
idemKeyForPress(sig) == NewKey

\* The same inputs as at the last press have its key.
idemKeyFor(sig) == IF idem.key # 0 /\ idem.sig = sig THEN idem.key ELSE NewKey

\* onSend; shown is the pricing on the screen.
Press ==
    /\ Len(presses) < MaxPresses
    /\ canSend
    /\ idem' = [sig |-> form, key |-> idemKeyFor(form)]
    /\ presses' = Append(presses, [pc |-> "gate", content |-> form, key |-> idem'.key,
                                   visit |-> visit, shown |-> quotes[form.amount], priced |-> <<>>])
    /\ screen' = "pending"
    /\ UNCHANGED <<env, rates, formVars, transfers, customerVars>>

Awaited(i) == screen = "pending" /\ i = Len(presses) /\ presses[i].visit = visit

\* The request, or its answer, is lost and the app says so.
LoseAnswer ==
    /\ screen = "pending"
    /\ screen' = "form"
    /\ \/ MayHappen("lost_answer") /\ UNCHANGED presses
       \/ /\ MayHappen("lost_request")
          /\ presses[Len(presses)].pc = "gate"
          /\ presses' = [presses EXCEPT ![Len(presses)].pc = "lost"]
    /\ UNCHANGED <<env, rates, formVars, idem, transfers, customerVars>>

-----------------------------------------------------------------------------
(* POST /app/transfers *)

At(i, pc) == presses[i].pc = pc
GoesTo(i, pc) == presses' = [presses EXCEPT ![i].pc = pc]

\* The answer reaches the screen if that still waits for it.
Answers(i, shows) == screen' = IF Awaited(i) THEN shows ELSE screen

Refuses(i) == GoesTo(i, "refused") /\ Answers(i, "form")
InFlight(i) == presses[i].pc \notin {"answered", "refused", "lost"}

serverSame == <<env, formVars, idem>>

\* requireCustomer
RequireCustomer(i) ==
    /\ At(i, "gate")
    /\ IF isBlocked THEN Refuses(i) ELSE GoesTo(i, "screening") /\ UNCHANGED screen
    /\ UNCHANGED <<serverSame, rates, transfers, customerVars>>

\* assertClear of the number, whose digits are no name, and of the name.
AssertClear(i) ==
    /\ At(i, "screening")
    /\ IF isHit(presses[i].content.name)
       THEN Refuses(i) /\ hits' = hits \cup {presses[i].content.name}
       ELSE GoesTo(i, "limit") /\ UNCHANGED <<screen, hits>>
    /\ UNCHANGED <<serverSame, rates, transfers, customer, review, syncs>>

sendMinorOf(i) == toMinor(presses[i].content.amount, env.from)

AssertWithinLimit(i) ==
    /\ At(i, "limit")
    /\ IF sendMinorOf(i) > capForLevel THEN Refuses(i) ELSE GoesTo(i, "price") /\ UNCHANGED screen
    /\ UNCHANGED <<serverSame, rates, transfers, customerVars>>

\* The price of this moment, whatever the app showed.
Price(i) ==
    /\ At(i, "price")
    /\ LET p == priceTransfer(rates, env.from, To, sendMinorOf(i))
           q == quoteTransfer(env.from, To, sendMinorOf(i), p.platformFeeMinor, p.rate)
       IN presses' = [presses EXCEPT ![i].pc = "create",
                                     ![i].priced = [quote |-> q, asOf |-> p.asOf]]
    /\ UNCHANGED <<serverSame, screen, rates, transfers, customerVars>>

\* Mutant of correlationId: every request is a transfer of its own.
correlationIdOfRequest(i) == i

\* deriveUuid(idempotencyKey): one transfer per key.
correlationId(i) == presses[i].key

\* The row that is there already is kept.  A payout of nothing is refused by
\* the CHECK of the table.
CreateTransfer(i) ==
    /\ At(i, "create")
    /\ IF presses[i].priced.quote.receiveMinor = 0
       THEN Refuses(i) /\ UNCHANGED transfers
       ELSE /\ transfers' = IF correlationId(i) \in DOMAIN transfers THEN transfers
                ELSE Put(transfers, correlationId(i),
                         [content |-> presses[i].content, quote |-> presses[i].priced.quote,
                          asOf |-> presses[i].priced.asOf, by |-> i,
                          status |-> "pending", payout |-> <<>>])
            /\ GoesTo(i, "run") /\ UNCHANGED screen
    /\ UNCHANGED <<serverSame, rates, customerVars>>

\* run(): debit, FX and payout; the provider's fee is of this moment.
Runs(k) ==
    transfers' = IF transfers[k].status = "completed" THEN transfers
        ELSE [transfers EXCEPT ![k].status = "completed",
                ![k].payout = [providerFeeMinor |-> resolveProviderFee(rates, env.from, To,
                                                        transfers[k].quote.receiveMinor),
                               asOf |-> quote(rates, env.from, To).asOf]]

\* The answer is the quote of the row.  A debit the balance refuses throws and
\* leaves the row pending.
RunTransfer(i) ==
    /\ At(i, "run")
    /\ LET k == correlationId(i)
       IN \/ /\ Runs(k)
             /\ presses' = [presses EXCEPT ![i].pc = "answered", ![i].priced.quote = transfers[k].quote,
                                           ![i].priced.asOf = transfers[k].asOf]
             /\ Answers(i, "sent")
          \/ /\ MayHappen("poor") /\ transfers[k].status = "pending"
             /\ Refuses(i) /\ UNCHANGED transfers
    /\ UNCHANGED <<serverSame, rates, customerVars>>

\* The process restarts, and recover() runs a row that was left pending.
Restart ==
    /\ MayHappen("restart")
    /\ \E i \in DOMAIN presses : InFlight(i)
    /\ presses' = [i \in DOMAIN presses |->
                      IF InFlight(i) THEN [presses[i] EXCEPT !.pc = "lost"] ELSE presses[i]]
    /\ screen' = IF screen = "pending" THEN "form" ELSE screen
    /\ UNCHANGED <<serverSame, rates, transfers, customerVars>>

Recover(k) ==
    /\ MayHappen("restart")
    /\ transfers[k].status = "pending" /\ Runs(k)
    /\ \A i \in DOMAIN presses : ~InFlight(i)
    /\ UNCHANGED <<serverSame, rates, screen, presses, customerVars>>

\* POST /fx/rates
SetRate(corridor, row) ==
    /\ Doing("rates")
    /\ LET set == IF corridor \in DOMAIN rates THEN rates[corridor].updatedAt ELSE 0
       IN /\ set < MaxRateChanges
          /\ rates' = Put(rates, corridor, [row EXCEPT !.updatedAt = set + 1])
    /\ UNCHANGED <<serverSame, screen, presses, transfers, customerVars>>

-----------------------------------------------------------------------------
(* Specification *)

Init ==
    /\ env \in Environments
    /\ rates = InitialRates
    /\ form = Blank /\ settled = Unsettled /\ quotes = <<>> /\ lookups = {}
    /\ idem = NoIdem /\ screen = "form" /\ visit = 1
    /\ presses = <<>> /\ transfers = <<>>
    /\ customer \in IF Doing("kyc") THEN {Unregistered, [status |-> "active", kycLevel |-> 2, kycStatus |-> "approved"]}
                      ELSE {[status |-> "active", kycLevel |-> 2, kycStatus |-> "approved"]}
    /\ review = [reviewStatus |-> "init", reviewAnswer |-> "none", changes |-> 0]
    /\ syncs = [s \in Syncs |-> NoSync] /\ hits = {}

Server(i) ==
    \/ RequireCustomer(i) \/ AssertClear(i) \/ AssertWithinLimit(i)
    \/ Price(i) \/ CreateTransfer(i) \/ RunTransfer(i)

\* The registry and the provider change beside the sends.
Compliance ==
    /\ \/ Doing("status") /\ \E status \in {"active", "blocked"} : SetCustomerStatus(status)
       \/ Doing("admin_kyc") /\ \E level \in 0..2 : SetCustomerKyc(level, "review")
       \/ Doing("kyc") /\ Review
       \/ Doing("kyc") /\ \E s \in Syncs : SyncStarts(s) \/ SyncReadsCustomer(s) \/ SyncPersists(s)
    /\ UNCHANGED <<serverSame, rates, screen, presses, transfers>>

Screen ==
    \/ Edits \/ SettleAmount \/ SettleRecipient \/ Lookup \/ FetchQuote
    \/ Reopen \/ Reset \/ Press \/ LoseAnswer

Next ==
    \/ Screen
    \/ \E i \in DOMAIN presses : Server(i)
    \/ Restart
    \/ \E k \in DOMAIN transfers : Recover(k)
    \/ \E change \in RateChanges : SetRate(change[1], change[2])
    \/ Compliance

Spec == Init /\ [][Next]_vars

-----------------------------------------------------------------------------
(* Properties *)

PressStates == {"gate", "screening", "limit", "price", "create", "run", "answered", "refused", "lost"}

\* The inputs, the keys and the requests are what the code stores; keys are minted
\* in order and a row of transfers is some press's.
TypeOK ==
    /\ form \in Form /\ idem \in [sig : Form, key : 0..MaxPresses]
    /\ settled \in [amount : env.amounts \cup {NotDecimal}, recipient : Recipients \cup {NoRecipient}]
    /\ DOMAIN quotes \subseteq env.amounts /\ lookups \subseteq Recipients
    /\ screen \in {"form", "pending", "sent"} /\ visit \in 1..MaxVisits
    /\ \A c \in DOMAIN rates : rates[c] \in RateRecord
    /\ \A i \in DOMAIN presses : presses[i].pc \in PressStates /\ presses[i].key \in 1..i
    /\ \A k \in DOMAIN transfers : presses[transfers[k].by].key = k
    /\ customer \in Customer \cup {Unregistered} /\ review \in Reviews
    /\ syncs \in [Syncs -> SyncStates]

\* A retry after a lost answer never sends twice (SendScreen.tsx:46-48): two
\* transfers of the same content are from two visits to the screen, or the customer
\* pressed with other inputs between them (the ref remembers one press only).
RetrySendsOnce ==
    \A i, j \in DOMAIN presses :
        /\ i < j /\ presses[i].content = presses[j].content
        /\ presses[i].key # presses[j].key
        /\ {presses[i].key, presses[j].key} \subseteq DOMAIN transfers
        => \/ presses[i].visit # presses[j].visit
           \/ \E k \in i..j : presses[k].content # presses[i].content

\* What is booked under a key is what every press with that key asked for, though
\* the first row under a key is kept whatever a later request says.
BookedIsWhatWasAsked ==
    \A i \in DOMAIN presses :
        presses[i].key \in DOMAIN transfers => transfers[presses[i].key].content = presses[i].content

\* Pressing again sends neither a second time nor something else.
SendsAreAsAsked == RetrySendsOnce /\ BookedIsWhatWasAsked

\* Unless the corridor was changed in between, the customer is charged, the
\* recipient is paid and the provider keeps what the screen showed, to the last
\* minor unit: the preview and the booking round apart (priceTransfer,
\* quoteTransfer, resolveProviderFee).
BookedAsShown ==
    \A k \in DOMAIN transfers :
        LET t == transfers[k]
            shown == presses[t.by].shown
        IN /\ t.asOf = shown.asOf =>
                 /\ t.quote.rate = shown.rate
                 /\ t.quote.feeMinor = shown.platformFeeMinor
                 /\ t.quote.totalDebitMinor = shown.totalDebitMinor
                 /\ t.quote.receiveMinor = shown.grossPayoutMinor
           /\ t.asOf = shown.asOf /\ t.status = "completed" /\ t.payout.asOf = shown.asOf =>
                 t.payout.providerFeeMinor = shown.providerFeeMinor

\* Every answer, to the first request or to a repeated one, reports the transfer
\* as it is booked, even if the rate changed between the two.
AnswersReportTheBooking ==
    \A i \in DOMAIN presses :
        At(i, "answered") =>
            /\ transfers[presses[i].key].status = "completed"
            /\ presses[i].priced = [quote |-> transfers[presses[i].key].quote,
                                    asOf |-> transfers[presses[i].key].asOf]

\* No rounding mints money: what leaves is whole gourdes, worth no more at the mid
\* rate than what the customer sent, and the provider's fee comes out of it.
RoundingNeverMints ==
    /\ \A a \in DOMAIN quotes :
          /\ quotes[a].fxMarginMinor >= 0
          /\ env.from = To => quotes[a].grossPayoutMinor <= quotes[a].sendMinor
          /\ quotes[a].netToRecipientMinor \in 0..quotes[a].grossPayoutMinor
    /\ \A k \in DOMAIN transfers :
          /\ transfers[k].quote.receiveMinor > 0
          /\ transfers[k].quote.receiveMinor % payoutMinorStep(To) = 0

\* What is shown, booked, reported and paid agrees, to the last minor unit.
AmountsAgree == BookedAsShown /\ AnswersReportTheBooking /\ RoundingNeverMints

\* The tier of a row; who has none is at the lowest.
tierOf(row) == IF row = Unregistered THEN 0 ELSE row.kycLevel

Persists(s) == syncs[s].pc = "persist" /\ syncs'[s] = NoSync

\* Since the sync has read the row, another one has lowered it.
Overtaken(s) == tierOf(syncs[s].existing) > tierOf(customer)

\* A rejection that is recorded takes the tier; the tier comes back by an approval, or
\* by a sync that was overtaken; and no send above the lowest cap passes the limit of a
\* row that says rejected.
DropsTheTier ==
    /\ customer' # Unregistered /\ customer'.kycStatus = "rejected" => tierOf(customer') = 0
    /\ tierOf(customer') > tierOf(customer) =>
          \E s \in Syncs : Persists(s) /\ (syncs[s].review = "approved" \/ Overtaken(s))
    /\ \A i \in DOMAIN presses :
          /\ At(i, "limit") /\ presses'[i].pc = "price"
          /\ customer # Unregistered /\ customer.kycStatus = "rejected"
          => sendMinorOf(i) <= CapByLevel[0]

\* "a failed check must DROP any previously-granted tier" (kyc-service.ts:7-8), unless
\* an admin grants one (sync, assertWithinLimit).  The code keeps less than the comment
\* says: a sync under review that had read the row before the rejection was recorded
\* writes the tier and its own status back.
RejectionDropsTheTier ==
    [][~Doing("admin_kyc") => DropsTheTier]_<<presses, customer>>
=============================================================================
