------------------------------- MODULE Money -------------------------------
(***************************************************************************)
(* Money arithmetic: currencies (money/currency.ts), minor units and       *)
(* rounding (money/money.ts), rates and basis points (fx/rate-service.ts). *)
(*                                                                         *)
(* A decimal string is the pair of its digits and its number of decimals;  *)
(* what does not parse is NotDecimal.  BigInt is exact, and so is this.    *)
(***************************************************************************)
EXTENDS Integers, FiniteSetsExt

CURRENCIES == {"BRL", "HTG", "USD", "DOP", "MXN", "USDT"}

scaleOf(currency) == IF currency = "USDT" THEN 6 ELSE 2

pow10[n \in Nat] == IF n = 0 THEN 1 ELSE 10 * pow10[n - 1]

\* Mobile money in Haiti takes whole gourdes only.
payoutMinorStep(currency) == IF currency = "HTG" THEN pow10[scaleOf("HTG")] ELSE 1

Decimal == [digits : Nat, scale : Nat]
NotDecimal == [digits |-> -1, scale |-> 0]

\* Null, and an exception, where a function below has one.
NoAmount == -1

-----------------------------------------------------------------------------
(* Minor units *)

\* An amount with more decimals than the currency has is refused.
toMinor(amount, currency) ==
    IF amount = NotDecimal \/ amount.scale > scaleOf(currency)
    THEN NoAmount
    ELSE amount.digits * pow10[scaleOf(currency) - amount.scale]

fromMinor(minor, currency) == [digits |-> minor, scale |-> scaleOf(currency)]

\* The webhook's amount: excess decimals are cut off; nothing positive is null.
usdtMinorOrNull(amount) ==
    LET surplus == amount.scale - scaleOf("USDT")
        minor == IF surplus > 0 THEN amount.digits \div pow10[surplus]
                                ELSE amount.digits * pow10[-surplus]
    IN IF amount # NotDecimal /\ minor > 0 THEN minor ELSE NoAmount

-----------------------------------------------------------------------------
(* Rounding *)

\* Half up; no caller has a negative numerator.
roundHalfUpDiv(numerator, denominator) ==
    LET q == numerator \div denominator
        r == numerator % denominator
    IN IF r * 2 >= denominator THEN q + 1 ELSE q

floorToPayoutUnit(minor, currency) ==
    IF payoutMinorStep(currency) <= 1 \/ minor <= 0
    THEN minor
    ELSE minor - (minor % payoutMinorStep(currency))

\* The powers of ten of both scales are cancelled, which half-up rounding
\* cannot tell.
convert(amount, from, to, rate) ==
    LET up == scaleOf(to) - scaleOf(from)
        numerator == amount * rate.digits
    IN IF up >= rate.scale
       THEN numerator * pow10[up - rate.scale]
       ELSE roundHalfUpDiv(numerator, pow10[rate.scale - up])

-----------------------------------------------------------------------------
(* Basis points and rates *)

Bps == 0..9999

applyBps(amount, bps) == roundHalfUpDiv(amount * bps, 10000)

\* Trailing zeros of the fraction are dropped, so equal rates are equal strings.
renderScaled(value, scale) ==
    LET dropped == Max({k \in 0..scale : value % pow10[k] = 0})
    IN [digits |-> value \div pow10[dropped], scale |-> scale - dropped]

\* The margin moves the mid rate against the customer.
marginedRate(mid, bps) == renderScaled(mid.digits * (10000 - bps), mid.scale + 4)
=============================================================================
