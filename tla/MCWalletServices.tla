-------------------------- MODULE MCWalletServices --------------------------
(* Small instances of WalletServices for TLC. *)
EXTENDS WalletServices, TLC

CONSTANTS ann, bob, BRL, USDT, pix, crypto

MCKeys ==
    ({"wd_hold", "wd_settle", "wd_refund"} \X Withdrawals)
        \cup ({"cashout"} \X Cashouts)
        \cup ({"air", "air_reverse"} \X Topups)
        \cup {<<"lytex", pix>>, <<"nowpayments", crypto>>}
        \cup ({"referral"} \X Users)

\* Each service against the faults that matter to it, alone, and next to another
\* one that shares its accounts.
Env(services, faults) == [services |-> services, faults |-> faults]

MCEnvironments ==
    {Env({"withdrawal"}, {"store_error", "ledger_error", "crash"}),
     Env({"withdrawal"}, {"store_error"}),
     Env({"withdrawal"}, {"lost_ack"}),
     Env({"cashout"}, {"store_error", "ledger_error", "crash"}),
     Env({"cashout"}, {"ledger_error"}),
     Env({"cashout", "airtime"}, {}),
     Env({"airtime"}, FaultKinds),
     Env({"airtime", "margin_change"}, {"lost_answer"}),
     Env({"deposit"}, {"crash", "lost_answer"}),
     Env({"deposit"}, {"store_error", "ledger_error", "lost_ack"}),
     Env({"referral"}, FaultKinds),
     Env({"referral", "bonus_change"}, {})}

\* The first withdrawal is worth its fee and one unit; two fit in the wallet.
MCInitialBalances ==
    {[a \in Accounts |-> CASE a = customerWallet(ann, USDT) -> 4
                           [] a = systemAccount("settlement", USDT) -> -4
                           [] a = customerWallet(ann, BRL) -> 4
                           [] a = systemAccount("settlement", BRL) -> -4
                           [] OTHER -> 0]}

MCPayer == [k \in Topups |-> ann]
MCDepositor == [d \in Charges |-> IF d = pix THEN ann ELSE bob]
MCGateway == [d \in Charges |-> IF d = pix THEN "lytex" ELSE "nowpayments"]
MCDepositCurrency == [p \in {"lytex", "nowpayments"} |->
                        IF p = "lytex" THEN BRL ELSE USDT]

\* Lytex reports nothing that is used.  Nothing reported, only the gross, a net of less than a millionth, and a net
\* with a decimal too many that is worth two millionths.
MCReport(net, gross) == [net |-> net, gross |-> gross]
MCNothing == MCReport(Money!NotDecimal, Money!NotDecimal)
MCReports ==
    LET three == [digits |-> 3, scale |-> 6]
    IN [lytex |-> {MCNothing},
        nowpayments |-> {MCNothing, MCReport(Money!NotDecimal, three),
                         MCReport([digits |-> 7, scale |-> 7], three),
                         MCReport([digits |-> 27, scale |-> 7], three)}]

MCDefaultBonus == [minor |-> 1, currency |-> BRL]
MCBonuses == {[minor |-> 2, currency |-> USDT]}
=============================================================================
