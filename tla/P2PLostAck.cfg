SPECIFICATION Spec
CONSTANTS
    seller = seller
    buyer = buyer
    Customers = {seller, buyer}
    Agents = {}
    Asset = USDT
    USDT = USDT
    Currencies = {USDT}
    Keys <- MCKeys
    Sizes <- MCSizes
    CommissionRates <- MCCommissionRates
    InitialBalances <- MCInitialBalances
    Offers = {f1}
    Orders = {o1}
    Calls = {h1, h2}
    f1 = f1
    o1 = o1
    h1 = h1
    h2 = h2
    Faults = {"store_error", "ledger_error", "lost_ack", "crash"}
    MaxCrashes = 1
SYMMETRY IdSymmetry
INVARIANTS
    EscrowLacksOnlyReturns
    ReleasePaysQuote
CHECK_DEADLOCK FALSE
