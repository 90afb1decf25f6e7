SPECIFICATION Spec
CONSTANTS
    Customers = {c1}
    Agents = {g1}
    Currencies = {BRL, HTG}
    Keys = {k1, k2, k3}
    Amounts <- MCAmounts
    Fees <- MCFees
    Quotes <- MCQuotes
    c1 = c1
    g1 = g1
    BRL = BRL
    HTG = HTG
    k1 = k1
    k2 = k2
    k3 = k3
SYMMETRY KeySymmetry
INVARIANTS
    NonNegative
    Reconciles
PROPERTIES
    AppendOnly
    InflowsNeverDrain
CHECK_DEADLOCK FALSE
