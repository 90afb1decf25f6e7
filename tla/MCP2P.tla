------------------------------- MODULE MCP2P -------------------------------
(* Small instances of P2P for TLC. *)
EXTENDS P2P, TLC

CONSTANTS seller, buyer

MCKeys == ({"lock", "unlock"} \X Offers) \cup ({"release"} \X Orders)

\* Three units is the least amount on which the highest commission is not
\* rounded to zero; an offer of six takes two orders of three, or one of six.
MCSizes == {3, 6}

\* The admin's lowest and highest commission.
MCCommissionRates == {0, 2000}

\* The seller was funded with six units from outside; everything else is zero.
MCInitialBalances ==
    {[a \in Accounts |-> CASE a = customerWallet(seller, Asset) -> 6
                           [] a = systemAccount("settlement", Asset) -> -6
                           [] OTHER -> 0]}

IdSymmetry ==
    Permutations(Calls) \cup Permutations(Orders) \cup Permutations(Offers)
=============================================================================
