SPECIFICATION IdentitySpec
CONSTANTS
    Macs = {m1, m2}
    Addresses = {h1, h2, h3}
    Entries = {e1, e2}
    FlowIds = {f1}
    None = None
    FirstAddress <- MCFirstAddress
    Limit <- LimitConflict
    MaxEvents = 4
CHECK_DEADLOCK FALSE
INVARIANTS OneEntryPerIdentity
