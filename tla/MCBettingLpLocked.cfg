CONSTANTS
    u1 = u1
    u2 = u2
    c = c
    d1 = d1
    d2 = d2
    m1 = m1
    Users <- MCUsers
    Owner = u1
    Contract = c
    Denoms <- MCDenoms
    Markets <- MCMarkets
    Prices = {1, 2}
    Amounts = {1, 2}
    LpAmounts = {1, 2}
    OddsChoices = {100}
    CloseDelays = {0, 2}
    InitFunds = 3
    MaxHeight = 3
    MaxTxs = 2
    ODDS_PERIOD = 2
    FreshOrderKeys = TRUE
SPECIFICATION Spec
INVARIANT
    LpRedeemable
