SPECIFICATION Spec
CONSTANTS
    Member = {m1, m2}
    Listing = {l1}
    Call = {c1, c2}
    NoMember = NoMember
    NoListing = NoListing
    ListingRequestLimit = 1
    ActiveRequestLimit = 1
    ActiveListingLimit = 1
    MaxVersion = 2
INVARIANT EndedStaysEnded
