SPECIFICATION FairSpec
CONSTANTS
    org = org
    pool = pool
    alice = alice
    bob = bob
    carol = carol
    Contract = Contract
    None = None
    Address = {org, pool, alice}
    Signers = {org, alice}
    Pool = pool
    InitialBalance <- Funded
    TransferAmounts = {}
    Terms <- ScarceSeats
    MaxEvents = 1
    MaxTime = 3
    MaxI128 = 100000
PROPERTIES
    SettlementIndependentOfOrganizer
\* The clock is bounded: once every bond has left custody nothing need happen.
CHECK_DEADLOCK FALSE
