SPECIFICATION FairSpec
CONSTANTS
    Customers = {ann, bob}
    Agents = {g1}
    Currencies = {BRL, USDT}
    Keys <- MCKeys
    Calls = {h1, h2}
    Environments <- MCEnvironments
    Withdrawals = {w1, w2}
    Asset = USDT
    WithdrawalFee = 1
    MinWithdrawal = 2
    WithdrawalAmounts = {1, 2, 3}
    Cashouts = {r1}
    CashCurrency = BRL
    CashoutAmounts = {2}
    Commissions = {0, 1}
    Topups = {k1}
    Payer <- MCPayer
    TopupCurrency = BRL
    TopupCost = 2
    DefaultMargin = 5000
    Margins = {0}
    MaxSends = 2
    Charges = {pix, crypto}
    Gateway <- MCGateway
    DepositCurrency <- MCDepositCurrency
    DepositAmounts = {4}
    Depositor <- MCDepositor
    Reports <- MCReports
    Users = {ann, bob}
    ReferralCodes = {x, y}
    CodeAttempts = 2
    DefaultBonus <- MCDefaultBonus
    Bonuses <- MCBonuses
    InitialBalances <- MCInitialBalances
    MaxCrashes = 1
    ann = ann
    bob = bob
    g1 = g1
    BRL = BRL
    USDT = USDT
    h1 = h1
    h2 = h2
    w1 = w1
    w2 = w2
    r1 = r1
    k1 = k1
    pix = pix
    crypto = crypto
    x = x
    y = y
INVARIANTS
    TypeOK
    WithdrawalsMatchLedger
    CashoutsMatchLedger
    TopupsMatchLedger
    DepositsMatchLedger
    PanelsAreTrue
PROPERTIES
    HeldFundsSpec
    PaidIsCredited
CHECK_DEADLOCK FALSE
