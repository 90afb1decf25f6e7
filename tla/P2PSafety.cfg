SPECIFICATION Spec
CONSTANTS
    seller = seller
    buyer = buyer
    Customers = {seller, buyer}
    Agents = {}
    Asset = USDT
    USDT = USDT
    Currencies = {USDT}
    Keys <- MCKeys
    Sizes <- MCSizes
    CommissionRates = {2000}
    InitialBalances <- MCInitialBalances
    Offers = {f1}
    Orders = {o1, o2}
    Calls = {h1, h2}
    f1 = f1
    o1 = o1
    o2 = o2
    h1 = h1
    h2 = h2
    Faults = {"store_error", "ledger_error", "crash"}
    MaxCrashes = 1
SYMMETRY IdSymmetry
INVARIANTS
    ReleaseIsFinal
    EscrowCoversReservations
PROPERTIES
    SaleSpec
CHECK_DEADLOCK FALSE
