SPECIFICATION FairSpec
CONSTANTS
    r1 = r1
    a1 = a1
    m1 = m1
    n1 = n1
    k = k
    tg = tg
    tn = tn
    s1 = s1
    NoName = NoName
    Unset = Unset
    Missing = Missing
    Absent = Absent
    NoObject = NoObject
    NilMap = NilMap
    EmptyMap = EmptyMap
    DefaultMap = NilMap
    AgentNames = {m1, n1}
    Bodies = {k}
    Descs = {}
    Documents = {}
    Secrets = {s1}
    Versions = {v1}
    TeamIDs = {t1}
    Existing = {}
    NamedWrites = {TRUE, FALSE}
    SlowServer = FALSE
    NameAsExternalName = TRUE
    InformerLag = FALSE
    Resources = {r1}
    Workers = {a1}
    ExternalIDs = {g1, g2}
    MaxDisruptions = 1
    Target <- OneWorker
    MetaName <- OneMeta
    TagLists <- NoTags
    Auths <- JustNoAuth
    Manifests <- NilOrEmpty
    Specs <- AllSpecs
PROPERTY EmptyIsNil
CHECK_DEADLOCK FALSE
