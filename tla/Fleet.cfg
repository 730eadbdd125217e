SPECIFICATION FleetFairSpec
CONSTANTS
    r1 = r1
    a1 = a1
    m1 = m1
    s1 = s1
    k = k
    tm1 = tm1
    ta1 = ta1
    tn1 = tn1
    eng = eng
    NoName = NoName
    Unset = Unset
    NoText = NoText
    Foreign = Foreign
    NameAsExternalName = TRUE
    InformerLag = FALSE
    MaxDisruptions = 2
    ServerCRs = {r1}
    ServerWorkers = {a1}
    SIDs = {s1}
    ServerBodies = {k}
    ServersThere = {}
    ServersSlow = TRUE
    TeamCRs = {tm1}
    TeamWorkers = {ta1}
    TIDs = {t1, t2, t3}
    TeamNames = {eng, ops}
    ServerTarget <- OneWorker
    ServerMeta <- OneMeta
    ServerDetID <- OneDetID
    ServerManifests <- OneManifest
    TeamTarget <- OneTeamWorker
    TeamMeta <- OneTeamMeta
    TeamManifests <- OneTeamManifest
    TeamRef <- OneTeamRef
    TeamSlugOf <- OwnSlug
PROPERTY NeverAnotherTeam
PROPERTY ServersFollowTeams
PROPERTY CleanupCompletes
CHECK_DEADLOCK FALSE
