------------------------------ MODULE Pricing ------------------------------
(***************************************************************************)
(* What a transfer costs and pays: RateService (fx/rate-service.ts), the   *)
(* quote a transfer is booked with (quoteTransfer, ledger/operations.ts)   *)
(* and the provider fee of its payout (transfers/transfer-service.ts).     *)
(*                                                                         *)
(* rates is the fx_rates table: corridor -> row, rows not set being absent.*)
(* The timestamp of a row is the number of times it was set.               *)
(***************************************************************************)
EXTENDS Money

RateRecord == [midRate : Decimal, marginBps : Bps, platformFeeBps : Bps,
               providerFeeBps : Bps, updatedAt : Nat]

\* The fees of a domestic corridor nobody configured.
NoFees == [platformFeeBps |-> 0, providerFeeBps |-> 0, updatedAt |-> 0]

Identity == [digits |-> 1, scale |-> 0]

isConfigured(rates, from, to) == <<from, to>> \in DOMAIN rates

\* Without a row only a domestic transfer has a price: every other one throws.
isPriced(rates, from, to) == from = to \/ isConfigured(rates, from, to)

\* quote(): the rate is the customer's, one for one at home whatever a row says.
quote(rates, from, to) ==
    LET row == IF isConfigured(rates, from, to) THEN rates[<<from, to>>] ELSE NoFees
    IN [rate |-> IF from = to THEN Identity ELSE marginedRate(row.midRate, row.marginBps),
        midRate |-> IF from = to THEN Identity ELSE row.midRate,
        platformFeeBps |-> row.platformFeeBps,
        providerFeeBps |-> row.providerFeeBps,
        asOf |-> row.updatedAt]

\* priceTransfer(): the whole economics of sending sendMinor, as the app shows
\* it.  asOf is not in the answer; it tells which row was read.
priceTransfer(rates, from, to, sendMinor) ==
    LET q == quote(rates, from, to)
        platformFeeMinor == applyBps(sendMinor, q.platformFeeBps)
        grossPayoutMinor ==
            floorToPayoutUnit(IF from = to THEN sendMinor
                              ELSE convert(sendMinor, from, to, q.rate), to)
        providerFeeMinor == applyBps(grossPayoutMinor, q.providerFeeBps)
        fxMarginMinor == IF from = to THEN 0
                         ELSE convert(sendMinor, from, to, q.midRate) - grossPayoutMinor
    IN [rate |-> q.rate,
        sendMinor |-> sendMinor,
        platformFeeMinor |-> platformFeeMinor,
        totalDebitMinor |-> sendMinor + platformFeeMinor,
        grossPayoutMinor |-> grossPayoutMinor,
        providerFeeMinor |-> providerFeeMinor,
        netToRecipientMinor |-> grossPayoutMinor - providerFeeMinor,
        fxMarginMinor |-> fxMarginMinor,
        platformNetProfitMinor |->
            fxMarginMinor - providerFeeMinor
            + IF from = to THEN platformFeeMinor
              ELSE convert(platformFeeMinor, from, to, q.midRate),
        asOf |-> q.asOf]

\* Mutant of quoteTransfer: the payout is booked as it was converted.
quoteTransferUnrounded(from, to, sendMinor, feeMinor, rate) ==
    [sendMinor |-> sendMinor, feeMinor |-> feeMinor,
     totalDebitMinor |-> sendMinor + feeMinor, rate |-> rate,
     receiveMinor |-> convert(sendMinor, from, to, rate)]

\* quoteTransfer(): what a transfer is booked with.
quoteTransfer(from, to, sendMinor, feeMinor, rate) ==
    [sendMinor |-> sendMinor,
     feeMinor |-> feeMinor,
     totalDebitMinor |-> sendMinor + feeMinor,
     rate |-> rate,
     receiveMinor |-> floorToPayoutUnit(convert(sendMinor, from, to, rate), to)]

\* resolveProviderFee(): read when the payout is created, not when it is quoted.
resolveProviderFee(rates, from, to, grossMinor) ==
    IF isPriced(rates, from, to)
    THEN applyBps(grossMinor, quote(rates, from, to).providerFeeBps)
    ELSE 0
=============================================================================
