SPECIFICATION FairSpec
CONSTANTS
    r1 = r1
    a1 = a1
    m1 = m1
    n1 = n1
    k = k
    tg = tg
    tn = tn
    s1 = s1
    NoName = NoName
    Unset = Unset
    Missing = Missing
    Absent = Absent
    NoObject = NoObject
    NilMap = NilMap
    EmptyMap = EmptyMap
    DefaultMap = EmptyMap
    AgentNames = {m1, n1}
    Bodies = {k}
    Descs = {}
    Documents = {}
    Secrets = {s1}
    Versions = {v1, v2}
    TeamIDs = {t1}
    Existing = {}
    NamedWrites = {FALSE}
    SlowServer = TRUE
    NameAsExternalName = TRUE
    InformerLag = TRUE
    Resources = {r1}
    Workers = {a1}
    ExternalIDs = {g1, g2, g3}
    MaxDisruptions = 2
    Target <- OneWorker
    MetaName <- OneMeta
    TagLists <- TwoOrders
    Auths <- BasicAndHeaders
    Manifests <- Secured
    Specs <- AllSpecs
INVARIANT TypeOK
INVARIANT CredentialsMatchType
INVARIANT AgentsHaveTeams
PROPERTY RuntimeSpec
PROPERTY FinalizedMeansGone
PROPERTY DeletionCompletes
PROPERTY Settles
CHECK_DEADLOCK FALSE
