SPECIFICATION IdentityFairSpec
CONSTANTS
    Macs = {m1, m2}
    Addresses = {h1, h2, h3}
    Entries = {e1, e2}
    FlowIds = {f1, f2}
    None = None
    FirstAddress <- MCFirstAddress
    Limit <- LimitForms
    MaxEvents = 4
CHECK_DEADLOCK FALSE
INVARIANTS IdentityInv SharedOnlyIfContested ServesItsHost
PROPERTIES NoHistoryLost NeverSilentlyRewritten FollowsItsMatrix
