\* Two posts of a configured model, a table of another one, two scans at once.
SPECIFICATION FairSpec
CONSTANTS
    c1 = c1
    c2 = c2
    c3 = c3
    g1 = g1
    g2 = g2
    g3 = g3
    t1 = t1
    t2 = t2
    s1 = s1
    s2 = s2
    Chunks = {c1, c2, c3}
    Groups = {g1, g2, g3}
    GroupOf <- GroupsOf
    Tables = {t1, t2}
    TableOf <- TablesOf
    Recognised = {t1}
    Summaries = {g1}
    Scans = {s1, s2}
    NoScan = NoScan
    PipelineUrlSet = TRUE
    MaxQueue = 1
    MaxTroubles = 2
INVARIANTS
    TypeOK
    ScanFindsAll
PROPERTY
    EveryChunkEmbedded
