SPECIFICATION FairSpec
CONSTANTS
    r1 = r1
    a1 = a1
    m1 = m1
    n1 = n1
    u1 = u1
    u2 = u2
    k = k
    tg = tg
    NoName = NoName
    Unset = Unset
    NoText = NoText
    NoTags = NoTags
    Foreign = Foreign
    GatewayNames = {m1, n1}
    Bodies = {k}
    Descs = {}
    Urls = {u1}
    TagSets = {NoTags, tg}
    TeamIDs = {t1}
    Existing = {}
    NamedWrites = {TRUE, FALSE}
    SlowServer = TRUE
    NameAsExternalName = TRUE
    InformerLag = TRUE
    Resources = {r1}
    Workers = {a1}
    ExternalIDs = {g1, g2, g3}
    MaxDisruptions = 2
    Target <- OneWorker
    MetaName <- OneMeta
    Manifests <- Renamed
    Specs <- AllSpecs
INVARIANT TypeOK
INVARIANT GatewaysHaveTeams
PROPERTY RuntimeSpec
PROPERTY BoundMakesNone
PROPERTY FinalizedMeansGone
PROPERTY Settles
PROPERTY DeletionCompletes
CHECK_DEADLOCK FALSE
