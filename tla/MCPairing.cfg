CONSTANTS
    i1 = i1  c1 = c1  c2 = c2  h1 = h1  h2 = h2
    NoClaim = NoClaim  NoGrant = NoGrant
    Invitations = {i1}
    Claims = {c1, c2}
    Handlers = {h1, h2}
    InvitationOf <- SameInvitation
    Versions = {1, 2}
    MaxCrashes = 2
    MaxErrors = 1
SPECIFICATION FairSpec
CHECK_DEADLOCK FALSE
INVARIANTS GrantsAreConfirmed PromisesAreKept
PROPERTIES CompletedIsReplayed NodeComesBack
