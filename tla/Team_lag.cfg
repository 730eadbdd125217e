SPECIFICATION Spec
CONSTANTS
    r1 = r1
    r2 = r2
    a1 = a1
    b1 = b1
    a2 = a2
    m1 = m1
    m2 = m2
    t1 = t1
    eng = eng
    small = small
    large = large
    NoName = NoName
    Unset = Unset
    Foreign = Foreign
    NoDesc = NoDesc
    Descs = {NoDesc}
    Maxs = {}
    DefaultMax = Unset
    TeamNames = {eng, ops}
    Existing = {t1}
    ListLimit = 9
    UniqueSlugs = TRUE
    SlowServer = TRUE
    NameAsExternalName = TRUE
    InformerLag = TRUE
    Resources = {r1, r2}
    Workers = {a1, a2}
    ExternalIDs = {t1, t2}
    MaxDisruptions = 2
    Target <- TwoCRs
    MetaName <- MCMetaName
    SlugOf <- OwnSlug
    Manifests <- SharedName
    Specs <- AllSpecs
INVARIANT PublishedTeamIsBound
PROPERTY DeletesOwn
PROPERTY NameSticks
CHECK_DEADLOCK FALSE
