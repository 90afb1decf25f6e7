SPECIFICATION Spec
CONSTANTS
    sender = sender
    BRL = BRL
    HTG = HTG
    Customers = {sender}
    Agents = {}
    Currencies = {BRL, HTG}
    Keys <- MCKeys
    Transfers = {t1}
    Calls = {h1, h2}
    t1 = t1
    h1 = h1
    h2 = h2
    Provider = "natcash"
    ManualOps = {"release", "fail"}
    Faults = {"store_error", "ledger_error", "lost_ack", "lost_answer"}
    MaxSends = 2
    Quotes <- MCQuotes
    Rails = {"natcash"}
    ProviderFees = {1}
    InitialBalances <- MCInitialBalances
    MaxCrashes = 0
SYMMETRY IdSymmetry
INVARIANTS
    StatusIsBacked
    SettledAsLocked
PROPERTIES
    RemittanceSpec
CHECK_DEADLOCK FALSE
