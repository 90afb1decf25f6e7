------------------------------ MODULE MCLedger ------------------------------
(* Small instances of Ledger for TLC. *)
EXTENDS Ledger, TLC

KeySymmetry == Permutations(Keys)

\* A negative, a zero and a positive amount; a fee of nothing and of one unit.
MCAmounts == {-2, 0, 2}
MCFees == {0, 1}

\* Cross-currency and domestic transfers, with and without a fee, and a
\* transfer whose received amount rounds down to nothing.
MCQuotes == [from : Currencies, to : Currencies, send : {2}, fee : MCFees, receive : {2}]
    \cup {[from |-> c, to |-> c, send |-> 2, fee |-> 0, receive |-> 0] : c \in Currencies}
=============================================================================
