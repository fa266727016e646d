SPECIFICATION FairSpec
CONSTANTS
    u1 = u1
    u2 = u2
    Uploads <- TwoUploads
    Contents <- SomeContents
    Declarations <- SomeDigests
    None = None
    Budgets <- SeparateFaults
CHECK_DEADLOCK FALSE
INVARIANTS  UploadIsWhatWasSent CacheVouchesForBytes
PROPERTIES RecoveryCompletes
