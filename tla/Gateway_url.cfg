SPECIFICATION FairSpec
CONSTANTS
    r1 = r1
    a1 = a1
    m1 = m1
    n1 = n1
    u1 = u1
    u2 = u2
    k = k
    tg = tg
    NoName = NoName
    Unset = Unset
    NoText = NoText
    NoTags = NoTags
    Foreign = Foreign
    GatewayNames = {m1, n1}
    Bodies = {k}
    Descs = {}
    Urls = {u1, u2}
    TagSets = {NoTags, tg}
    TeamIDs = {t1}
    Existing = {}
    NamedWrites = {TRUE}
    SlowServer = FALSE
    NameAsExternalName = TRUE
    InformerLag = FALSE
    Resources = {r1}
    Workers = {a1}
    ExternalIDs = {g1, g2}
    MaxDisruptions = 1
    Target <- OneWorker
    MetaName <- OneMeta
    Manifests <- Moved
    Specs <- AllSpecs
PROPERTY UrlFollows
CHECK_DEADLOCK FALSE
