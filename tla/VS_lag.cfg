SPECIFICATION FairSpec
CONSTANTS
    r1 = r1
    a1 = a1
    m1 = m1
    s1 = s1
    x = x
    k = k
    l = l
    NoName = NoName
    Unset = Unset
    NoText = NoText
    Bodies = {k, l}
    Descs = {}
    Icons = {}
    TeamIDs = {t1, t2}
    Existing = {s1}
    SlowServer = TRUE
    NameAsExternalName = TRUE
    InformerLag = TRUE
    Resources = {r1}
    Workers = {a1}
    ExternalIDs = {s1, x}
    MaxDisruptions = 3
    Target <- OneWorker
    MetaName <- OneMeta
    DetID <- OneDetID
    Manifests <- TwoBodies
    Specs <- AllSpecs
INVARIANT TypeOK
INVARIANT ServersHaveTeams
PROPERTY RuntimeSpec
PROPERTY FinalizedMeansGone
PROPERTY Settles
PROPERTY DeletionCompletes
CHECK_DEADLOCK FALSE
