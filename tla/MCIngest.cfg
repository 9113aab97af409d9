\* Three revisions of a post with one chunk worker, two of them with two.
SPECIFICATION FairSpec
CONSTANTS
    r1 = r1
    r2 = r2
    r3 = r3
    a = a
    b = b
    c = c
    t = t
    s = s
    w1 = w1
    w2 = w2
    Windows = {a, b, c, t, s}
    Requests = {r1, r2, r3}
    Revision <- Edits
    NoPost = NoPost
    Workers = {w1, w2}
    Loads <- Deployments
    MaxFailures = 1
CHECK_DEADLOCK FALSE
INVARIANTS
    TypeOK
    NewestWins
    CurrentTextIsChunked
    StoredOncePerWorker
PROPERTY
    IndexCatchesUp
