SPECIFICATION AllSpec
CONSTANTS
    None = None
    Catalogues <- MCCatalogues
    Instants <- MCInstants
    Precisions = {1, 3, 4}
    NANOSECONDS_PER_SECOND = 3
    MaxU128 = 200
    WordBits = 13
    Widths = {1, 2, 3, 4}
    Slices = {1, 3}
    Assets <- MCAssets
    Included = {1, 2}
    Series = {0, 1, 2, 3}
    ByteBits = 2
    TableBytes = 1
    CountBits = 1
    PointBits = 1
    MAX_PATH_POINTS = 1
    INLINE = 5
    MAX_CANONICAL_BYTES = 26
    MAX_CANONICAL_DEPTH = 3
    MAX_CANONICAL_CONTAINER_ITEMS = 6
    MaxSigned = 100
    MAX_REFERENCES = 2
    EnvelopeSlack = 4
    MaxFed = 5
    Drafts <- MCDrafts
    Alphabet <- MCAlphabet
    KeyBits = 5
    DigitBits = 2
    BUCKET_CAPACITY = 2
    Objects <- MCObjects
    Replicas = {1, 2}
CHECK_DEADLOCK FALSE
INVARIANTS AddressesAgree ReadsAreExact OperationIsAsSigned DigestsTellDifferences
PROPERTIES ReadingsGoOn
