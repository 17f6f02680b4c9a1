SPECIFICATION FairSpec
CONSTANTS
    none = none
    NoName = none
    NoRow = none
    NoCache = none
    Names <- FourNames
    Curated <- OneCurated
    Slugs <- ThreeSlugs
    Slug <- SlugOf
    Sources <- TwoSources
    RelatedLimit = 1
    TnIds <- TwoIds
    LegacyIds <- OneLegacyId
    Payloads <- FewPayloads
    LegacyTables <- FewTables
    StaticPages <- OnePage
    MaxRetries = 1
    MaxWrites = 1
    MaxFaults = 2
INVARIANTS
    LinksResolve
    SitemapIsTheIndex
    OffersCanBeBought
PROPERTIES
    ForSaleStaysInCart
    BilledAsShown
    CheckoutAnswered
