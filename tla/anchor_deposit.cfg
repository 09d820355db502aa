SPECIFICATION FairSpec
CONSTANTS
    None = None
    alice = alice
    bob = bob
    Account = {alice, bob}
    DepositId <- Deposits
    MaxDeposits = 2
    MaxTasks = 2
    MaxPolls = 2
INVARIANTS
    FlowsExclusive
    RecordOfTheScreen
PROPERTIES
    RecordKeptWhileWatched
    WatchedStaysWatched
    WatchingEnds
