SPECIFICATION Spec
CONSTANTS
    Parts = {"index", "reads", "names", "tenancy"}
    Holders = {h1, h2}
    Shared = shared
    Codes = {a}
    Words = {w}
    Requests = {r1, r2}
    MaxSaves = 2
    SeedCodes = {"a", "b"}
    Tenants = {t1, t2}
    SeedFiles <- Files
    Pods = {p1, p2}
    MaxBegun = 3
    Owners = {o1, o2}
    NoOwner = nobody
    Ladder = {c1, c2}
    Ranks = {0, 1}
    Unlevelled = none
    Compartments = {m1}
    MaxEdits = 3
    People = {"root", "ann", "bob"}
    RoleOf <- Role
    HomeOf <- Home
    Related = {"bob"}
    Orgs = {"o1", "o2"}
    Everywhere = "platform"
    Fields = {"note"}
    Companions <- Nulled
    Verbs = {"record.view_private", "item.edit"}
    RecordVerbs = {"item.edit"}
    Admin = "admin"
    Member = "member"
    Lead = "lead"
    GroupKeys = {"ops", "lead"}
    Reserved = {"admin", "member", "lead"}
    Viewers = {"lead"}
    ViewPrivate = "record.view_private"
    MaxAdmin = 2
    Sources = {s1}
    Texts = {x, y}
    OrgOf <- Tenancy
    Models = {v1, v2}
    Blank = blank
    Absent = absent
    MaxWrites = 2
    MaxBuilds = 1
    Gets = {g1, g2}
    Puts = {w1}
    MaxTokens = 2
    MaxRestarts = 1
    Titles = {"A"}
    Flags = {"Y"}
    MaxRenames = 1
    Keys = {"change", "strict"}
    Specs <- Releases
    Kind <- Projects
    Subjects = {z1}
    Unbound = unbound
    MaxRows = 4
    MaxBinds = 1
    Start = st
    End = en
    Inner = {n1, n2}
    MaxOut = 2
    MaxTotal = 4
    Unset = unset
    Empty = empty
    MaxChains = 1
INVARIANTS
    IndexMatchesItsSources
    WritesAreSeen
    TenantsStayApart
PROPERTIES
    RefreshedFromOracle
SYMMETRY DataSymmetry
CHECK_DEADLOCK FALSE
