SPECIFICATION Spec
CONSTANTS
    None = None
    paula = paula
    quinn = quinn
    Guest = {paula, quinn}
    MaxReads = 2
    MaxStarts = 1
PROPERTIES
    ChecksInWhoIsShown
