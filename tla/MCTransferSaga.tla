--------------------------- MODULE MCTransferSaga ---------------------------
(* Small instances of TransferSaga for TLC. *)
EXTENDS TransferSaga, TLC

CONSTANTS sender, BRL, HTG

MCKeys ==
    {"debit", "fx", "settle", "reversal_fx", "reversal_debit"} \X Transfers

MCQuote(receive) == [from |-> BRL, to |-> HTG, send |-> 4, fee |-> 1, receive |-> receive]

\* The live rate moves between two requests.
MCQuotes == {MCQuote(2), MCQuote(3)}

MCOneQuote == {MCQuote(2)}

\* The sender was funded from outside with what one transfer costs.
MCInitialBalances ==
    {[a \in Accounts |-> CASE a = customerWallet(sender, BRL) -> 5
                           [] a = systemAccount("settlement", BRL) -> -5
                           [] OTHER -> 0]}

IdSymmetry == Permutations(Calls) \cup Permutations(Transfers)
=============================================================================
