SPECIFICATION Spec
CONSTANTS
    Addr = {a1, a2}
    MaxMonths = 2
    MaxDeposits = 2
    MaxAdopted = 1
    MaxSkew = 1
    MaxCrashes = 2
SYMMETRY Addresses
INVARIANTS DepositsReturnedOnce DepositsAreKept RewardsAreMonthly
CHECK_DEADLOCK FALSE
