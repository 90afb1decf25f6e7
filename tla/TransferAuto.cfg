SPECIFICATION Spec
CONSTANTS
    sender = sender
    BRL = BRL
    HTG = HTG
    Customers = {sender}
    Agents = {}
    Currencies = {BRL, HTG}
    Keys <- MCKeys
    Transfers = {t1, t2}
    Calls = {h1}
    t1 = t1
    t2 = t2
    h1 = h1
    Provider = "moncash"
    ManualOps = {}
    Faults = {"store_error", "ledger_error", "lost_ack", "lost_answer", "crash"}
    MaxSends = 2
    Quotes <- MCOneQuote
    Rails = {"moncash"}
    ProviderFees = {1}
    InitialBalances <- MCInitialBalances
    MaxCrashes = 1
SYMMETRY IdSymmetry
INVARIANTS
    ResolvedOnceOnItsWord
    PlatformAccountsAddUp
    PaidOnlyIfFunded
    RecordedPaymentIsTheLast
CHECK_DEADLOCK FALSE
