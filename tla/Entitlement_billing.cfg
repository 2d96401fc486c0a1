SPECIFICATION EntitlementSpec
CONSTANTS
    sub1 = sub1
    sub2 = sub2
    acct1 = acct1
    acct2 = acct2
    Subs <- TwoSubs
    Accounts <- TwoAccounts
    Period = 2
    TokenLife = 1
    NonceWindow = 2
    Grace = 1
    MaxClock = 3
    MaxChanges = 3
    MaxHandlers = 2
    MaxTokens = 1
    MaxInFlight = 2
SYMMETRY AnyOrder
INVARIANT EntitlementInv
INVARIANT QuietRowIsTrue
INVARIANT AccessWasPaid
INVARIANT NotBilledTwice
INVARIANT OneAccountPerWindow
CHECK_DEADLOCK FALSE
