SPECIFICATION FairSpec
CONSTANTS
    org = org
    pool = pool
    alice = alice
    bob = bob
    carol = carol
    Contract = Contract
    None = None
    Address = {org, pool, alice, bob}
    Signers = {org, pool, alice, bob}
    Pool = pool
    InitialBalance <- Funded
    TransferAmounts = {}
    Terms <- AnyTerms
    MaxEvents = 1
    MaxTime = 3
    MaxI128 = 100000
INVARIANTS
    TypeOK
    SeatsMatchReservations
    OutcomeJustified
    DestinationNotRaced
PROPERTIES
    BondReleased
    RefundReleased
\* The clock is bounded: once every bond has left custody nothing need happen.
CHECK_DEADLOCK FALSE
