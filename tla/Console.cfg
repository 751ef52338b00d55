SPECIFICATION ConsoleSpec
CONSTANTS
    Tabs = {t1, t2}
    Users = {u1, u2}
    Tenants = {w1}
    Logins = {l1, l2}
    Sessions = {x1, x2}
    ApiKeys = {k1}
    LoginLife = 1
    SessionLife = 1
    KeyLife = 1
    MaxTime = 1
    Rows <- MCRows
    Statuses = {"PENDING", "SUCCEEDED"}
    Filters = {"ALL", "PENDING"}
    First <- MCFirst
    Limits = {1, 2}
    MaxChanges = 1
    MaxClicks = 3
    DeadLetters = {d1, d2}
    MaxPosts = 2
    MaxPanels = 2
    MaxMoves = 1
    Old = {1}
    New = {2, 3}
    Revocable = {1}
    MaxCalls = 3
    MaxGeneration = 4
    Layouts = {1, 2}
    Texts = {1, 2}
    Scrolls = {1, 2}
    MaxVisits = 4
INVARIANTS
    SessionsBound
    KeysBound
    WalksAreSound
    ReplaysAreSound
    KeyPageIsSound
    ConsoleTypeOK
    NothingComesBack
PROPERTY
    CatchesUp
CHECK_DEADLOCK FALSE
