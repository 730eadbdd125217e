SPECIFICATION FairSpec
CONSTANTS
    r1 = r1
    a1 = a1
    m1 = m1
    p = p
    NoName = NoName
    NoConfig = NoConfig
    NameAsExternalName = TRUE
    InformerLag = TRUE
    Resources = {r1}
    Workers = {a1}
    ExternalIDs = {}
    Configs = {p}
    Specs = {p}
    MaxDisruptions = 6
    Target <- OneWorker
    MetaName <- OneMeta
    Manifests <- OneConfig
INVARIANT TypeOK
INVARIANT ConfigOutlastsUse
PROPERTY RuntimeSpec
PROPERTY DeletionCompletes
PROPERTY ConfigGoes
CHECK_DEADLOCK FALSE
