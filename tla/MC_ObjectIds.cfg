CONSTANTS
    a = a
    b = b
    c = c
    d = d
    Strings <- MCStrings
    Hash <- MCHash
    MinDepth = 1
    SuffixBits = 2
    IdHiBits = 1
    IdLoBits = 1
    MaxKeys = 2
    MaxDepth = 3
    NotFound = NotFound
    ByteBits = 2
    PosIntTag = 1
    NegIntTag = 0
SPECIFICATION MCSpec
INVARIANT TypeOK SuffixInvariant IntInlining StringRoundTrip
PROPERTY ImplementsDictionary
