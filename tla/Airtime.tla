------------------------------- MODULE Airtime -------------------------------
(***************************************************************************)
(* Airtime top-ups: AirtimeService (airtime/airtime-service.ts) over the   *)
(* margin store, the ledger and DingConnect (dingconnect-adapter.ts).  A   *)
(* top-up is named by the key its client chose, so a retry is the same     *)
(* top-up again, with the same cost and the margin of the day.  What the   *)
(* provider does with a reference it has seen is not under our control: it *)
(* may send again or refuse.                                               *)
(***************************************************************************)
EXTENDS ServiceCalls

CONSTANTS Topups,        \* the idempotency keys of the clients' top-ups
          Payer,         \* top-up -> the customer whose wallet pays
          TopupCurrency, \* the wallets' currency
          TopupCost,     \* costMinor
          DefaultMargin, \* margins.defaultBps
          Margins,       \* margins in basis points the admin may set
          MaxSends       \* bound on the times a provider sends one top-up

TopupKey(k) == <<"air", k>>              \* the client's key
ReversalKey(k) == <<"air_reverse", k>>   \* ${key}:reverse

ASSUME AirtimeAssumption ==
    /\ Payer \in [Topups -> Customers]
    /\ TopupCurrency \in Currencies
    /\ TopupCost \in Nat
    /\ DefaultMargin \in Nat
    /\ Margins \subseteq Nat
    /\ MaxSends \in Nat
    /\ {"air", "air_reverse"} \X Topups \subseteq Keys

VARIABLES margin,   \* airtime_margins, for one country
          sent      \* the provider's records: top-up -> times sent

airtimeVars == <<margin, sent>>

AirtimeCalls ==
    [pc : {"air.debit", "air.send", "air.reverse"}, topup : Topups, margin : Nat]

-----------------------------------------------------------------------------

\* setMargin: an upsert; the route bounds it.
SetMargin(bps) ==
    /\ "margin_change" \in env.services
    /\ bps \in Money!Bps
    /\ margin' = bps
    /\ UNCHANGED <<balance, journal, calls, sent>>

\* topup reads the margin and prices the top-up.
Topup(c, k) ==
    /\ Receives(c, "airtime")
    /\ Starts(c, [pc |-> "air.debit", topup |-> k,
                  margin |-> Money!applyBps(TopupCost, margin)])
    /\ UNCHANGED <<balance, journal, airtimeVars>>

\* Mutant of DebitTopup: the airtime is sent before the debit has resolved.
DebitTopupUnawaited(c) ==
    /\ At(c, "air.debit")
    /\ LET k == calls[c].topup
       IN AwaitsPost(TopupKey(k),
                     airtimeTopup(Payer[k], TopupCurrency, TopupCost, calls[c].margin),
                     GoesTo(c, "air.send"), GoesTo(c, "air.send"))
    /\ UNCHANGED airtimeVars

DebitTopup(c) ==
    /\ At(c, "air.debit")
    /\ LET k == calls[c].topup
       IN AwaitsPost(TopupKey(k),
                     airtimeTopup(Payer[k], TopupCurrency, TopupCost, calls[c].margin),
                     GoesTo(c, "air.send"), Returns(c))
    /\ UNCHANGED airtimeVars

\* The provider sends, or refuses, or sends and the answer is lost or unclear.
SendTopup(c) ==
    /\ At(c, "air.send")
    /\ LET k == calls[c].topup
           sends == sent[k] < MaxSends /\ sent' = [sent EXCEPT ![k] = @ + 1]
       IN \/ sends /\ Returns(c)
          \/ UNCHANGED sent /\ GoesTo(c, "air.reverse")
          \/ MayHappen("lost_answer") /\ sends /\ GoesTo(c, "air.reverse")
    /\ UNCHANGED <<balance, journal, margin>>

\* The margin given back is this call's, whatever the debit took.
ReversalPostings(c) ==
    reverseAirtime(Payer[calls[c].topup], TopupCurrency, TopupCost, calls[c].margin)

\* The provider failed: refund, and throw either way.
ReverseTopup(c) ==
    /\ At(c, "air.reverse")
    /\ AwaitsPost(ReversalKey(calls[c].topup), ReversalPostings(c),
                  Returns(c), Returns(c))
    /\ UNCHANGED airtimeVars

-----------------------------------------------------------------------------

AirtimeInit ==
    /\ margin = DefaultMargin
    /\ sent = [k \in Topups |-> 0]

AirtimeSteps ==
    \/ \E bps \in Margins : SetMargin(bps)
    \/ \E c \in Calls, k \in Topups : Topup(c, k)

AirtimeProceeds(c) == DebitTopup(c) \/ SendTopup(c) \/ ReverseTopup(c)

AirtimeTypeOK ==
    /\ margin \in Nat
    /\ sent \in [Topups -> 0..MaxSends]

-----------------------------------------------------------------------------
(* Properties *)

\* No airtime leaves, and none is refunded, before the wallet has paid, however
\* often a top-up is retried and whatever acknowledgement is lost (topup, step 1).
SentOnlyIfCharged ==
    \A k \in Topups : (sent[k] > 0 \/ Posted(ReversalKey(k))) => Posted(TopupKey(k))

\* A refunded top-up leaves every account as it was, customer, settlement and
\* revenue alike, as long as the margin has not been changed in between ("refund
\* the wallet (retail) and unwind cost + margin").
RefundUnwindsCharge ==
    "margin_change" \notin env.services =>
        \A k \in Topups : Posted(ReversalKey(k)) =>
            \A a \in Accounts : Delta(journal[TopupKey(k)], a)
                                    + Delta(journal[ReversalKey(k)], a) = 0

\* Airtime is paid for, and what was paid for airtime that did not leave comes back whole.
TopupsMatchLedger == SentOnlyIfCharged /\ RefundUnwindsCharge
=============================================================================
