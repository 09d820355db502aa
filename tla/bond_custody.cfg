SPECIFICATION Spec
CONSTANTS
    org = org
    pool = pool
    alice = alice
    bob = bob
    carol = carol
    Contract = Contract
    None = None
    Address = {org, pool, alice}
    Signers = {org, alice}
    Pool = pool
    InitialBalance <- FundedTwice
    TransferAmounts = {3}
    Terms <- TwoPolicies
    MaxEvents = 2
    MaxTime = 2
    MaxI128 = 18000
INVARIANTS
    Solvent
    SilentAccountsUntouched
    RefundNeverBlocked
    SettlementNeverBlocked
PROPERTIES
    ReservationsFinal
    CancelledEventOnlyRefunds
    ImplementsEscrow
\* The clock is bounded: once every bond has left custody nothing need happen.
CHECK_DEADLOCK FALSE
