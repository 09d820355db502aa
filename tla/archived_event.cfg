SPECIFICATION ListingSpec
CONSTANTS
    None = None
    MaxEvents = 2
    MaxMonths = 6
INVARIANT
    ArchivedEventsSkipped
