SPECIFICATION Clockwork
CONSTANTS
    Threads = {t1, t2}
    MaxTime = 3
    Loads <- MCLoads
    None = None
    Buckets = {b1}
    Allowance = 1
    WindowSeconds = 2
    MaxHits = 2
    Scopes = {s1, s2}
    Ttl = 2
    MaxEntries = 1
    MaxChanges = 1
    Lifetimes = {0, 1, 3}
    Margin = 1
    Floor = 1
    Ids = {1, 2}
    Opened <- MCOpened
    Orders = {o1}
    MaxFailed = 2
    Lockout = 2
    AccessLife = 1
    RefreshLife = 2
    MaxTokens = 3
    MaxWrong = 3
    Serial = {"login", "claim", "prune"}
SYMMETRY MCSymmetry
INVARIANTS TypeOK AllowanceKept ChangeWithinTheMinute CacheBounded ReusedTokenHasMargin SessionsAreEarned SessionsEnd
PROPERTIES RevokedStaysOut GuessesAreSlow ClaimsStick
