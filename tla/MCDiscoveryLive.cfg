\* The registry answers, and does not change while a refresh is behind a read.
SPECIFICATION FairSpec
CONSTANTS
    g1 = g1  g2 = g2  s1 = s1  s2 = s2  s3 = s3
    c1 = c1  c2 = c2  c3 = c3  e11 = e11  e12 = e12  e21 = e21  e33 = e33
    Groups <- MCGroups
    Services <- MCServices
    Children <- MCTwoChildren
    Entries <- MCEntries
    GroupOf <- MCGroupOf
    ServiceOf <- MCServiceOf
    Under <- MCTwoUnder
    Offers <- MCTwoOffers
    Malformed = Malformed
    Expired = Expired
    NoGroup = NoGroup
    Declares <- MCDeclares
    FreshGroups = {}
    LongGroups = {}
    MayOverlap = FALSE
    MayEditInRefresh = FALSE
    ReadsMayFail = FALSE
    ReinitMayFail = FALSE
    MaxChanges = 2
    MaxRefreshes = 1
    MaxSessions = 3
INVARIANT WatchKept
PROPERTY Convergence
CHECK_DEADLOCK FALSE
