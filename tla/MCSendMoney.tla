---------------------------- MODULE MCSendMoney ----------------------------
EXTENDS SendMoney, TLC

D(digits) == [digits |-> digits, scale |-> 2]
Row(mid, margin, platform, provider) ==
    [midRate |-> D(mid), marginBps |-> margin, platformFeeBps |-> platform,
     providerFeeBps |-> provider, updatedAt |-> 0]

\* The customer writes pierre; the registered holder of the number is jean pierre.
Written == {"pierre"}
Registry == {"jean", "pierre"}
Sanctioned == {"mr", "saddam", "hussein"}

MCRegistered == "r1" :> Registry
MCSanctions == {{{"usama", "bin", "laden"}}, {{"saddam", "hussein", "al", "tikriti"}, {"saddam", "hussein"}}}
MCCapByLevel == [level \in 0..2 |-> IF level = 0 THEN 300 ELSE 1000]

\* 3.33, 2.50 and 0.02 of the source currency; three decimals are refused.
Large == D(333)
Small == D(250)
Tiny == D(2)
Thousandths == [digits |-> 2500, scale |-> 3]

MCInitialRates == <<"BRL", "HTG">> :> Row(2436, 200, 150, 500)
MCRateChanges == {<<<<"BRL", "HTG">>, Row(2400, 0, 100, 450)>>, <<<<"HTG", "HTG">>, Row(9900, 0, 125, 275)>>}

Env(from, amounts, names, rails, doings, faults) ==
    [from |-> from, amounts |-> amounts, names |-> names, rails |-> rails,
     doings |-> doings, faults |-> faults]

MCEnvironments ==
    {Env("BRL", {Large, Small}, {Written}, {"moncash"}, {}, {"lost_answer", "lost_request"}),
     Env("BRL", {Large}, {Written}, {"natcash"}, {}, {"lost_answer"}),
     Env("BRL", {Large}, {Written}, {"moncash", "natcash"}, {}, {}),
     Env("BRL", {Large}, {Written}, {"moncash"}, {"leave"}, {"lost_answer"}),
     Env("BRL", {Large, Tiny, Thousandths}, {Written, Sanctioned}, {"moncash"}, {}, {}),
     Env("BRL", {Large}, {Written}, {"moncash"}, {"rates"}, {"lost_answer"}),
     Env("HTG", {Large}, {Written}, {"moncash"}, {"rates"}, {"lost_answer"}),
     Env("BRL", {Large}, {Written}, {"moncash"}, {"rates"}, {"poor", "restart"}),
     Env("BRL", {Large}, {Written}, {"moncash"}, {"status", "admin_kyc"}, {}),
     Env("BRL", {Large}, {Written}, {"moncash"}, {"kyc"}, {})}
=============================================================================
