SPECIFICATION FairSpec
CONSTANTS
    r1 = r1
    r2 = r2
    a1 = a1
    b1 = b1
    a2 = a2
    m1 = m1
    m2 = m2
    t1 = t1
    eng = eng
    small = small
    large = large
    NoName = NoName
    Unset = Unset
    Foreign = Foreign
    NoDesc = NoDesc
    Descs = {NoDesc}
    Maxs = {small, large}
    DefaultMax = Unset
    TeamNames = {eng}
    Existing = {}
    ListLimit = 9
    UniqueSlugs = FALSE
    SlowServer = FALSE
    NameAsExternalName = TRUE
    InformerLag = FALSE
    Resources = {r1}
    Workers = {a1, b1}
    ExternalIDs = {t1, t2, t3}
    MaxDisruptions = 2
    Target <- TwoReplicas
    MetaName <- OneMeta
    SlugOf <- OwnSlug
    Manifests <- SetMax
    Specs <- AllSpecs
INVARIANT TypeOK
INVARIANT ExclusiveCreate
INVARIANT NoSecondTeam
PROPERTY RuntimeSpec
PROPERTY CreateIsLocked
PROPERTY NoFinalizeDuringCreate
PROPERTY FinalizedMeansGone
PROPERTY NameSticks
PROPERTY Settles
CHECK_DEADLOCK FALSE
