\* Everything that may go wrong goes wrong: overlapping reads, failing reads, sessions that
\* end, a session that cannot be replaced, a file edited at any time and malformed,
\* and a group whose key is truncated.
SPECIFICATION Spec
CONSTANTS
    g1 = g1  g2 = g2  s1 = s1  s2 = s2  s3 = s3
    c1 = c1  c2 = c2  c3 = c3  e11 = e11  e12 = e12  e21 = e21  e33 = e33
    Groups <- MCGroups
    Services <- MCServices
    Children <- MCChildren
    Entries <- MCEntries
    GroupOf <- MCGroupOf
    ServiceOf <- MCServiceOf
    Under <- MCUnder
    Offers <- MCOffers
    Malformed = Malformed
    Expired = Expired
    NoGroup = NoGroup
    Declares <- MCBrokenDeclares
    FreshGroups = {g2}
    LongGroups = {g2}
    MayOverlap = TRUE
    MayEditInRefresh = TRUE
    ReadsMayFail = TRUE
    ReinitMayFail = TRUE
    MaxChanges = 2
    MaxRefreshes = 1
    MaxSessions = 3
INVARIANTS TypeOK RoutesFollowMapping
CHECK_DEADLOCK FALSE
