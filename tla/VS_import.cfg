SPECIFICATION FairSpec
CONSTANTS
    r1 = r1
    a1 = a1
    m1 = m1
    s1 = s1
    x = x
    k = k
    l = l
    NoName = NoName
    Unset = Unset
    NoText = NoText
    Bodies = {k}
    Descs = {}
    Icons = {}
    TeamIDs = {t1}
    Existing = {}
    SlowServer = FALSE
    NameAsExternalName = TRUE
    InformerLag = FALSE
    Resources = {r1}
    Workers = {a1}
    ExternalIDs = {s1, x}
    MaxDisruptions = 3
    Target <- OneWorker
    MetaName <- OneMeta
    DetID <- OneDetID
    Manifests <- Imported
    Specs <- AllSpecs
PROPERTY DeletionCompletes
CHECK_DEADLOCK FALSE
