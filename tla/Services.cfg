SPECIFICATION Spec
CONSTANTS
    r1 = r1  r2 = r2  u1 = u1  u2 = u2  w1 = w1
    Lans = {"a"}
    Via = "v"
    Member = "m"
    LanConns = {u1, u2, w1}
    NoLan = None
    Owner <- Owners
    MaxSyncs = 1
    Accounts = {"adm", "v"}
    Admin = "adm"
    Tokens = {u1, u2}
    Requests = {r1, r2}
    MaxPw = 1
    MaxAttempts = 2
    LockTicks = 1
    TTL = 1
    None = None
    Sync = FALSE
    Sources = {"x"}
    Exempts = {"x", "net"}
    Yaml = {}
    Includes <- Contents
    Allowlists = {{}, {"z"}}
    Threshold = 1
    Enabled = TRUE
    RecordEvents = TRUE
    AutoBan = TRUE
    Watchers = {w1}
    Clerks = {r1, r2}
    Nothing = Nothing
    VpnUsers = {u1, u2}
    Everyone = "all"
    Ips = {"x", "y"}
    Spellings = {"n", " n"}
    Trim <- Trimmed
    Editors = {r1, r2}
    MaxIds = 2
    MaxOld = 2
    Topics = {"dns", "route", "access"}
SYMMETRY Symmetry
INVARIANTS
    LanRowsAgree
    AdminAccess
    BansHold
    TablesAgree
CHECK_DEADLOCK FALSE
