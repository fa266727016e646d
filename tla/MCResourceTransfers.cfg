SPECIFICATION FairSpec
CONSTANTS
    None = None
    c1 = c1
    p1 = p1
    p2 = p2
    Contents = {c1}
    Lengths = {0, 2}
    Peers = {p1, p2}
    Holders = {p1}
    Uploads <- UploadIds
    Batch = 2
    MaxFaults = 1
INVARIANTS  BlobsAreVerified
 
