SPECIFICATION FairDirSpec
CONSTANTS
    short = short
    long = long
    beginning = beginning
    Passphrases <- MCPassphrases
    Kept <- MCKept
    Pins = {n}
    Absent = Absent
    Torn = Torn
    NoAccount = NoAccount
    MaxCrashes = 2
INVARIANTS
    MemoryMatchesFiles
    IdentityRecoverable
PROPERTY
    RestoreCompletes
