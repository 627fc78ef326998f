SPECIFICATION Spec
CONSTANTS
    owner = owner
    admin = admin
    manager = manager
    staff = staff
    extra = extra
    visitor = visitor
    v1 = v1
    e1 = e1
    w1 = w1
    v2 = v2
    m1 = m1
    f1 = f1
    g1 = g1
    h1 = h1
    m2 = m2
    f2 = f2
    m3 = m3
    k1 = k1
    k2 = k2
    k3 = k3
    version = version
    settings = settings
    desk = desk
    tsend = tsend
    tforgot = tforgot
    treset = treset
    tfirst = tfirst
    tguest = tguest
    Accounts = {1, 2, 3, 4, 5, 6, 7, 8, 9, 10}
    Guests = {7, 8, 9, 10}
    Roles = {owner, admin, manager, staff, extra, visitor}
    Owner = owner
    SystemAdmin = admin
    GuestRole = visitor
    GuestCap = 2
    Actions = {v1, e1, w1, v2}
    Restricted = {v2}
    KeptBySystemAdmin = {v2}
    ViewOf <- MCViewOf
    Features = {m1, f1, g1, h1, m2, f2, m3}
    Parent <- MCParent
    Locked = {m2, f2}
    FeatureOf <- MCFeatureOf
    PermissionOf <- MCPermissionOf
    Nothing = Nothing
    ConfigVersion = version
    Settings = settings
    OneTimeCodes = {k1, k2, k3}
    MaxTries = 1
    MaxSends = 3
    Throttle <- MCThrottle
    Allowed = 2
    GuestDesk = desk
    Rows <- MCRows
    Starts <- MCStarts
    Openings <- MCOpenings
    NoRequest = 0
    Requests <- MCRequests
INVARIANTS
    AlwaysAnOwner
    CachesAreTrue
    OneOrder
    GuestsFitAndDiffer
    CodeChangesOnce
