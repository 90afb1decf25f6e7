SPECIFICATION FairSpec
CONSTANTS
    sender = sender
    BRL = BRL
    HTG = HTG
    Customers = {sender}
    Agents = {}
    Currencies = {BRL, HTG}
    Keys <- MCKeys
    Transfers = {t1}
    Calls = {h1, h2}
    t1 = t1
    h1 = h1
    h2 = h2
    Provider = "moncash"
    ManualOps = {}
    Faults = {"crash", "lost_answer"}
    MaxSends = 1
    Quotes <- MCOneQuote
    Rails = {"moncash"}
    ProviderFees = {1}
    InitialBalances <- MCInitialBalances
    MaxCrashes = 1
PROPERTY
    ChargedCompletes
CHECK_DEADLOCK FALSE
