SPECIFICATION Spec
CONSTANTS
    Member = {m1, m2, m3}
    Listing = {l1, l2}
    Call = {c1, c2}
    NoMember = NoMember
    NoListing = NoListing
    ListingRequestLimit = 2
    ActiveRequestLimit = 1
    ActiveListingLimit = 1
    MaxVersion = 2
SYMMETRY Symmetry
INVARIANTS
    TypeOK
    PaidOnce
    StatusMatchesRequests
    OutgoingWithinOverlap
    ListingsWithinOverlap
PROPERTY
    ImplementsBook
